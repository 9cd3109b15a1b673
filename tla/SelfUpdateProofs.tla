-------------------------- MODULE SelfUpdateProofs --------------------------
(***************************************************************************)
(* Proofs about SelfUpdate, for any number of requests, jobs, accepted     *)
(* updates and deaths.  IInv is the inductive invariant; its parts are the *)
(* threads, the pause, the drained queue, the installed trees and the      *)
(* phase of the guard.                                                     *)
(***************************************************************************)
EXTENDS SelfUpdate, TLAPS

-----------------------------------------------------------------------------
(* The inductive invariant.                                                *)

\* A request that has taken the guard.
Past(r) == pc[r] \notin {"idle", "read", "take"}

\* A request that has taken the pause and still answers for it.
Post(r) ==
    \/ pc[r] \in {"cancel", "drain", "requeue", "restore"}
    \/ pc[r] \in Applying \cup {"clear"} /\ flow[r] # "none"

\* Requests run in a server of the old version; the helpers of a native install
\* wait for the request that started them.
ThreadInv ==
    /\ \A r \in Requests :
         /\ pc[r] # "idle" => server = "up" /\ version = "old"
         /\ pc[r] \in Draining \cup {"restore"} => flow[r] # "none"
         /\ pc[r] \in {"clean", "extract", "spawn"} => method = "native"
         /\ pc[r] = "install" => method = "pipx"
         /\ helper[r] # "none" => method = "native"
         /\ helper[r] = "waiting" => pc[r] \in {"await", "restart"}
    /\ ~raced => \A q, r \in Requests : Past(q) /\ Past(r) => q = r
    /\ server \in {"discard", "aside", "back"} => method = "native"
    /\ server = "reinstall" => method = "pipx"
    /\ method = "pipx" => dirs.live \in {"old", "new"}

\* The pool is paused for as long as a request answers for it; and the stash is
\* the user's setting, until it is restored.
PauseInv ==
    /\ \A r \in Requests : Post(r) => pause.paused
    /\ FALSE \in pause.restore =>
         \A q, r \in Requests : Post(q) /\ Post(r) => q = r
    /\ ~raced =>
         \/ pause = [paused |-> manual, restore |-> {}]
         \/ /\ pause = [paused |-> TRUE, restore |-> {manual}]
            /\ server \in {"down", "boot"} \/ \E r \in Requests : Post(r)

\* After the drain nothing that the pool claimed runs, and nothing that the flow
\* cancelled is still to end.
DrainInv ==
    \A r \in Requests :
      pc[r] \in Applying \cup {"requeue"} /\ flow[r] # "none" =>
        /\ \A j \in Jobs : jobs[j] # "running"
        /\ ~raced => killing = {}
        /\ flow[r] = "cancel_and_restart" /\ ~raced /\ pc[r] # "requeue" =>
             \A j \in listed[r] : jobs[j] # "cancelled"

\* What the directories hold at each stage of a native update ...
StageTrees(r) ==
    /\ pc[r] \in {"extract", "spawn", "await", "restart"} =>
         dirs.live = "old" /\ dirs.backup = "absent"
    /\ pc[r] = "extract" => dirs.staged # "absent"
    /\ pc[r] \in {"spawn", "await", "restart"} => dirs.staged = "new"
    /\ helper[r] = "free" =>
         dirs.live = "old" /\ dirs.backup = "absent" /\ dirs.staged = "new"
    /\ helper[r] = "moved" =>
         dirs.live = "absent" /\ dirs.backup = "old" /\ dirs.staged = "new"
    /\ helper[r] = "swapped" => dirs.live = "new" /\ dirs.backup = "old"
    /\ helper[r] \in {"free", "moved", "swapped"} => server = "down"

\* ... and of a boot with its swap-back; and that an install which is cut in two
\* has its backup.
ServerTrees ==
    /\ dirs.backup \in {"absent", "old"}
    /\ server = "back" => /\ dirs.live = "absent" /\ dirs.backup = "old"
                          /\ dirs.quarantine \in {"old", "new"}
                          /\ version = "old" => dirs.quarantine = "old"
    /\ server \notin {"down", "back"} => /\ dirs.live \in {"old", "new"}
                                         /\ version = "old" => dirs.live = "old"
    /\ \/ dirs.live \in {"old", "new"}
       \/ /\ dirs.live = "absent" /\ dirs.backup = "old"
          /\ \/ \E r \in Requests : helper[r] = "moved"
             \/ server = "back"
             \/ spent.crashes > 0

TreeInv ==
    ~raced =>
      /\ \A q, r \in Requests : helper[q] # "none" /\ helper[r] # "none" => q = r
      /\ method = "native" => ServerTrees /\ \A r \in Requests : StageTrees(r)

\* What the guard says of a failed update is so.
PhaseInv ==
    /\ guard.previous \in {"none", "old"}
    /\ server \in {"gate", "discard", "pass", "aside", "back", "reinstall", "rolled_back"}
         => guard.phase = "awaiting_health"
    /\ ~raced =>
         /\ \A r \in Requests :
              Past(r) \/ helper[r] # "none" => guard.phase # "rolled_back"
         /\ server = "rolled_back" => dirs.live = "old"
         /\ guard.phase = "rolled_back" => ~guard.inProgress /\ dirs.live = "old"

IInv == TypeOK /\ ThreadInv /\ PauseInv /\ DrainInv /\ TreeInv /\ PhaseInv

-----------------------------------------------------------------------------
(* Steps that several parts need.                                          *)

LEMMA Tables ==
    ASSUME TypeOK
    PROVE  /\ pc \in [Requests -> {"idle", "read", "take"} \cup Draining \cup Applying
                                    \cup Failing]
           /\ flow \in [Requests -> Flows] /\ listed \in [Requests -> SUBSET Jobs]
           /\ helper \in [Requests -> {"none", "waiting", "free", "moved", "swapped"}]
           /\ jobs \in [Jobs -> {"pending", "running", "forced", "cancelled", "skipped",
                         "ended"}]
BY DEF TypeOK

\* A death of the server ends its threads and frees the helpers.
LEMMA DiesShape ==
    ASSUME TypeOK, Dies
    PROVE  /\ pc' = [r \in Requests |-> "idle"] /\ flow' = [r \in Requests |-> "none"]
           /\ listed' = [r \in Requests |-> {}]
           /\ jobs' \in [Jobs -> {"pending", "running", "forced", "cancelled", "skipped",
                         "ended"}]
           /\ \A j \in Jobs : jobs'[j] \notin {"running", "forced"}
           /\ killing' = {}
           /\ helper' \in [Requests -> {"none", "free", "moved", "swapped"}]
           /\ \A r \in Requests :
                helper'[r] = IF helper[r] = "waiting" THEN "free" ELSE helper[r]
BY Tables DEF Dies, Running

LEMMA InitInv == Init => IInv
<1> SUFFICES ASSUME Init PROVE IInv
  OBVIOUS
<1>1. TypeOK
  <2>1. spent \in [applies : 0..MaxApplies, crashes : 0..MaxCrashes]
    BY SelfUpdateAssumption DEF Init
  <2>2. guard \in [inProgress : BOOLEAN, phase : Phases, previous : {"none", "old", "new"}]
    BY DEF Init, Phases
  <2>3. /\ pause \in [paused : BOOLEAN, restore : {{}, {TRUE}, {FALSE}}]
        /\ dirs \in [live : Trees, staged : Trees, backup : Trees, quarantine : Trees]
    BY DEF Init, Trees
  <2>4. QED
    BY <2>1, <2>2, <2>3 DEF Init, TypeOK, Flows
<1>2. ThreadInv /\ TreeInv /\ PhaseInv
  BY DEF Init, ThreadInv, TreeInv, ServerTrees, StageTrees, PhaseInv, Draining, Past
<1>3. PauseInv
  BY DEF Init, PauseInv, Post, Applying
<1>4. DrainInv
  BY DEF Init, DrainInv, Applying
<1>5. QED
  BY <1>1, <1>2, <1>3, <1>4 DEF IInv

-----------------------------------------------------------------------------
(* Types.                                                                  *)

LEMMA TypeStep == IInv /\ [Next]_vars => TypeOK'
<1> SUFFICES ASSUME IInv, [Next]_vars PROVE TypeOK'
  OBVIOUS
<1>1. TypeOK
  BY DEF IInv
<1>2. method' \in Methods /\ manual' \in BOOLEAN /\ raced' \in BOOLEAN
  <2>1. UNCHANGED <<method, manual>>
    BY DEF Next, vars, Apply, Serve, ReadGuard, TakeGuard, StashPause, CancelRunning,
          Drained, DrainTimesOut, Requeue, Requeued, Fetched, PipxUpgrade, Clean,
          Extract, Spawn, AwaitHealth, Restart, ApplyFails, ClearGuard,
          RestorePause, Help, HelperGivesUp, MoveAside, MoveIn, HelperRestarts,
          HelperDies, HelperUnchanged, Boot, Start, BootRestoresPause, Healthy,
          Unhealthy, CheckRaises, DiscardBackup, GatePasses, SwapAside, SwapBack,
          PinnedReinstall, RollBack, Relaunch, GateFails, BootUnchanged, Claim,
          ForceStart, Retrigger, JobEnds, JobStep, Crash, process, queue, request
  <2>2. UNCHANGED raced \/ \E r \in Requests : TakeGuard(r)
    BY DEF Next, vars, Apply, Serve, ReadGuard, TakeGuard, StashPause, CancelRunning,
          Drained, DrainTimesOut, Requeue, Requeued, Fetched, PipxUpgrade, Clean,
          Extract, Spawn, AwaitHealth, Restart, ApplyFails, ClearGuard,
          RestorePause, Help, HelperGivesUp, MoveAside, MoveIn, HelperRestarts,
          HelperDies, HelperUnchanged, Boot, Start, BootRestoresPause, Healthy,
          Unhealthy, CheckRaises, DiscardBackup, GatePasses, SwapAside, SwapBack,
          PinnedReinstall, RollBack, Relaunch, GateFails, BootUnchanged, Claim,
          ForceStart, Retrigger, JobEnds, JobStep, Crash, process, queue, request
  <2>3. ASSUME NEW r \in Requests, TakeGuard(r) PROVE raced' \in BOOLEAN
    BY <2>3 DEF TakeGuard, Overlaps
  <2>4. QED
    BY <1>1, <2>1, <2>2, <2>3 DEF TypeOK
<1>3. guard' \in [inProgress : BOOLEAN, phase : Phases, previous : {"none", "old", "new"}]
  <2>1. guard \in [inProgress : BOOLEAN, phase : Phases, previous : {"none", "old", "new"}]
    BY <1>1 DEF TypeOK
  <2>2. \A p \in Phases :
          /\ Cleared(p) \in [inProgress : BOOLEAN, phase : Phases,
                             previous : {"none", "old", "new"}]
          /\ InPhase(p) \in [inProgress : BOOLEAN, phase : Phases,
                             previous : {"none", "old", "new"}]
    BY <2>1 DEF Cleared, InPhase
  <2>3. ASSUME NEW r \in Requests, TakeGuard(r)
        PROVE  guard' \in [inProgress : BOOLEAN, phase : Phases,
                           previous : {"none", "old", "new"}]
    BY <1>1, <2>3 DEF TakeGuard, TypeOK, Phases
  <2>4. {"idle", "verifying", "applying", "awaiting_health", "rolled_back"} \subseteq Phases
    BY DEF Phases
  <2>5. UNCHANGED guard \/ (\E r \in Requests : TakeGuard(r))
          \/ (\E p \in {"idle", "verifying", "applying", "awaiting_health", "rolled_back"} :
                guard' \in {Cleared(p), InPhase(p)})
    BY DEF Next, vars, Apply, Serve, ReadGuard, TakeGuard, StashPause, CancelRunning,
          Drained, DrainTimesOut, Requeue, Requeued, Fetched, PipxUpgrade, Clean,
          Extract, Spawn, AwaitHealth, Restart, ApplyFails, ClearGuard,
          RestorePause, Help, HelperGivesUp, MoveAside, MoveIn, HelperRestarts,
          HelperDies, HelperUnchanged, Boot, Start, BootRestoresPause, Healthy,
          Unhealthy, CheckRaises, DiscardBackup, GatePasses, SwapAside, SwapBack,
          PinnedReinstall, RollBack, Relaunch, GateFails, BootUnchanged, Claim,
          ForceStart, Retrigger, JobEnds, JobStep, Crash, process, queue, request
  <2>6. QED
    BY <2>1, <2>2, <2>3, <2>4, <2>5
<1>4. pause' \in [paused : BOOLEAN, restore : {{}, {TRUE}, {FALSE}}]
  <2>1. pause \in [paused : BOOLEAN, restore : {{}, {TRUE}, {FALSE}}]
    BY <1>1 DEF TypeOK
  <2>2. UNCHANGED pause \/ pause' = [paused |-> TRUE, restore |-> {pause.paused}]
          \/ pause' = Restored
    BY DEF Next, vars, Apply, Serve, ReadGuard, TakeGuard, StashPause, CancelRunning,
          Drained, DrainTimesOut, Requeue, Requeued, Fetched, PipxUpgrade, Clean,
          Extract, Spawn, AwaitHealth, Restart, ApplyFails, ClearGuard,
          RestorePause, Help, HelperGivesUp, MoveAside, MoveIn, HelperRestarts,
          HelperDies, HelperUnchanged, Boot, Start, BootRestoresPause, Healthy,
          Unhealthy, CheckRaises, DiscardBackup, GatePasses, SwapAside, SwapBack,
          PinnedReinstall, RollBack, Relaunch, GateFails, BootUnchanged, Claim,
          ForceStart, Retrigger, JobEnds, JobStep, Crash, process, queue, request
  <2>3. pause.paused \in BOOLEAN /\ {pause.paused} \in {{}, {TRUE}, {FALSE}}
    BY <2>1
  <2>4. pause.restore # {} => (CHOOSE stashed \in pause.restore : TRUE) \in BOOLEAN
    <3>1. pause.restore \subseteq BOOLEAN
      BY <2>1
    <3>2. QED
      BY <3>1
  <2>5. Restored \in [paused : BOOLEAN, restore : {{}, {TRUE}, {FALSE}}]
    BY <2>1, <2>4 DEF Restored
  <2>6. ASSUME NEW x \in {{}, {TRUE}, {FALSE}}
        PROVE  [paused |-> TRUE, restore |-> x]
                  \in [paused : BOOLEAN, restore : {{}, {TRUE}, {FALSE}}]
    BY <2>6
  <2>7. QED
    BY <2>1, <2>2, <2>3, <2>5, <2>6
<1>5. dirs' \in [live : Trees, staged : Trees, backup : Trees, quarantine : Trees]
  <2>1. dirs \in [live : Trees, staged : Trees, backup : Trees, quarantine : Trees]
    BY <1>1 DEF TypeOK
  <2>2. guard.previous \in {"none", "old", "new"}
    BY <1>1 DEF TypeOK
  <2>3. {"absent", "part", "old", "new"} = Trees
    BY DEF Trees
  <2>4. CASE \E r \in Requests : PipxUpgrade(r) \/ Clean(r) \/ Extract(r)
    BY <2>1, <2>3, <2>4 DEF PipxUpgrade, Clean, Extract
  <2>5. CASE \E r \in Requests : MoveAside(r) \/ MoveIn(r)
    BY <2>1, <2>3, <2>5 DEF MoveAside, MoveIn
  <2>6. CASE DiscardBackup \/ SwapAside \/ SwapBack
    BY <2>1, <2>3, <2>6 DEF DiscardBackup, SwapAside, SwapBack
  <2>7. CASE PinnedReinstall
    <3>1. PICK t \in Trees : dirs' = [dirs EXCEPT !.live = t]
      BY <2>1, <2>2, <2>3, <2>7 DEF PinnedReinstall
    <3>2. QED
      BY <2>1, <3>1
  <2>8. CASE UNCHANGED dirs
    BY <2>1, <2>8
  <2>9. QED
    BY <2>4, <2>5, <2>6, <2>7, <2>8
       DEF Next, vars, Apply, Serve, ReadGuard, TakeGuard, StashPause,
           CancelRunning, Drained, DrainTimesOut, Requeue, Requeued, Fetched,
           PipxUpgrade, Clean, Extract, Spawn, AwaitHealth, Restart, ApplyFails,
           ClearGuard, RestorePause, Help, HelperGivesUp, MoveAside, MoveIn,
           HelperRestarts, HelperDies, HelperUnchanged, Boot, Start,
           BootRestoresPause, Healthy, Unhealthy, CheckRaises, DiscardBackup,
           GatePasses, SwapAside, SwapBack, PinnedReinstall, RollBack, Relaunch,
           GateFails, BootUnchanged, Claim, ForceStart, Retrigger, JobEnds, JobStep, Crash,
           process, queue, request
<1>6. server' \in {"down", "up"} \cup Booting
  BY <1>1
     DEF TypeOK, Booting, Next, vars, Apply, Serve, ReadGuard, TakeGuard,
         StashPause, CancelRunning, Drained, DrainTimesOut, Requeue, Requeued,
         Fetched, PipxUpgrade, Clean, Extract, Spawn, AwaitHealth, Restart,
         ApplyFails, ClearGuard, RestorePause, Help, HelperGivesUp, MoveAside,
         MoveIn, HelperRestarts, HelperDies, HelperUnchanged, Boot, Start,
         BootRestoresPause, Healthy, Unhealthy, CheckRaises, DiscardBackup,
         GatePasses, SwapAside, SwapBack, PinnedReinstall, RollBack, Relaunch,
         GateFails, BootUnchanged, Claim, ForceStart, Retrigger, JobEnds, JobStep, Crash,
         process, queue, request
<1>7. version' \in {"old", "new"}
  <2>1. method \in {"pipx", "native"}
    BY <1>1, SelfUpdateAssumption DEF TypeOK
  <2>2. ASSUME NEW r \in Requests, Restart(r) PROVE version' \in {"old", "new"}
    BY <1>1, <2>1, <2>2 DEF Restart, TypeOK, IInv, ThreadInv
  <2>3. CASE Start \/ Relaunch \/ \E r \in Requests : HelperRestarts(r)
    BY <1>1, <2>3 DEF Start, Relaunch, HelperRestarts, TypeOK
  <2>4. CASE UNCHANGED version
    BY <1>1, <2>4 DEF TypeOK
  <2>5. QED
    BY <2>2, <2>3, <2>4
       DEF Next, vars, Apply, Serve, ReadGuard, TakeGuard, StashPause,
           CancelRunning, Drained, DrainTimesOut, Requeue, Requeued, Fetched,
           PipxUpgrade, Clean, Extract, Spawn, AwaitHealth, Restart, ApplyFails,
           ClearGuard, RestorePause, Help, HelperGivesUp, MoveAside, MoveIn,
           HelperRestarts, HelperDies, HelperUnchanged, Boot, Start,
           BootRestoresPause, Healthy, Unhealthy, CheckRaises, DiscardBackup,
           GatePasses, SwapAside, SwapBack, PinnedReinstall, RollBack, Relaunch,
           GateFails, BootUnchanged, Claim, ForceStart, Retrigger, JobEnds, JobStep, Crash,
           process, queue, request
<1>8. pc' \in [Requests -> {"idle", "read", "take"} \cup Draining \cup Applying \cup Failing]
  <2>1. CASE Dies
    BY <2>1 DEF Dies
  <2>2. UNCHANGED pc \/ Dies \/ (\E r \in Requests, stage \in
          {"idle", "read", "take"} \cup Draining \cup Applying \cup Failing : Goto(r, stage))
    BY DEF Next, vars, Apply, Serve, ReadGuard, TakeGuard, StashPause, CancelRunning,
          Drained, DrainTimesOut, Requeue, Requeued, Fetched, PipxUpgrade, Clean,
          Extract, Spawn, AwaitHealth, Restart, ApplyFails, ClearGuard,
          RestorePause, Help, HelperGivesUp, MoveAside, MoveIn, HelperRestarts,
          HelperDies, HelperUnchanged, Boot, Start, BootRestoresPause, Healthy,
          Unhealthy, CheckRaises, DiscardBackup, GatePasses, SwapAside, SwapBack,
          PinnedReinstall, RollBack, Relaunch, GateFails, BootUnchanged, Claim,
          ForceStart, Retrigger, JobEnds, JobStep, Crash, process, queue, request, Goto,
          Draining, Applying, Failing
  <2>3. QED
    BY <1>1, <2>1, <2>2 DEF Goto, TypeOK
<1>9. flow' \in [Requests -> Flows] /\ listed' \in [Requests -> SUBSET Jobs]
  BY <1>1
     DEF TypeOK, Flows, Dies, Running, Next, vars, Apply, Serve, ReadGuard,
         TakeGuard, StashPause, CancelRunning, Drained, DrainTimesOut, Requeue,
         Requeued, Fetched, PipxUpgrade, Clean, Extract, Spawn, AwaitHealth,
         Restart, ApplyFails, ClearGuard, RestorePause, Help, HelperGivesUp,
         MoveAside, MoveIn, HelperRestarts, HelperDies, HelperUnchanged, Boot,
         Start, BootRestoresPause, Healthy, Unhealthy, CheckRaises, DiscardBackup,
         GatePasses, SwapAside, SwapBack, PinnedReinstall, RollBack, Relaunch,
         GateFails, BootUnchanged, Claim, ForceStart, Retrigger, JobEnds, JobStep, Crash,
         process, queue, request
<1>10. helper' \in [Requests -> {"none", "waiting", "free", "moved", "swapped"}]
  <2>1. CASE Dies
    BY <1>1, <2>1, DiesShape
  <2>2. UNCHANGED helper \/ Dies
          \/ (\E r \in Requests, h \in {"none", "waiting", "moved", "swapped"} :
                helper' = [helper EXCEPT ![r] = h])
    BY DEF Next, vars, Apply, Serve, ReadGuard, TakeGuard, StashPause, CancelRunning,
          Drained, DrainTimesOut, Requeue, Requeued, Fetched, PipxUpgrade, Clean,
          Extract, Spawn, AwaitHealth, Restart, ApplyFails, ClearGuard,
          RestorePause, Help, HelperGivesUp, MoveAside, MoveIn, HelperRestarts,
          HelperDies, HelperUnchanged, Boot, Start, BootRestoresPause, Healthy,
          Unhealthy, CheckRaises, DiscardBackup, GatePasses, SwapAside, SwapBack,
          PinnedReinstall, RollBack, Relaunch, GateFails, BootUnchanged, Claim,
          ForceStart, Retrigger, JobEnds, JobStep, Crash, process, queue, request, HelperAt
  <2>3. QED
    BY <1>1, <2>1, <2>2 DEF TypeOK
<1>11. /\ jobs' \in [Jobs -> {"pending", "running", "forced", "cancelled", "skipped",
                         "ended"}]
       /\ killing' \subseteq Running'
  <2>1. CASE Dies
    BY <1>1, <2>1, DiesShape
  <2>2. CASE UNCHANGED jobs /\ killing' \in {killing, killing \cup Running}
    BY <1>1, <2>2 DEF TypeOK, Running
  <2>3. CASE \E r \in Requests : Requeue(r)
    BY <1>1, <2>3 DEF Requeue, TypeOK, Running
  <2>4. CASE \E j \in Jobs : Claim(j) \/ ForceStart(j) \/ Retrigger(j) \/ JobEnds(j)
    BY <1>1, <2>4 DEF Claim, ForceStart, Retrigger, JobEnds, TypeOK, Running
  <2>5. QED
    BY <2>1, <2>2, <2>3, <2>4
       DEF Next, vars, Apply, Serve, ReadGuard, TakeGuard, StashPause,
           CancelRunning, Drained, DrainTimesOut, Requeue, Requeued, Fetched,
           PipxUpgrade, Clean, Extract, Spawn, AwaitHealth, Restart, ApplyFails,
           ClearGuard, RestorePause, Help, HelperGivesUp, MoveAside, MoveIn,
           HelperRestarts, HelperDies, HelperUnchanged, Boot, Start,
           BootRestoresPause, Healthy, Unhealthy, CheckRaises, DiscardBackup,
           GatePasses, SwapAside, SwapBack, PinnedReinstall, RollBack, Relaunch,
           GateFails, BootUnchanged, Crash, process, queue, request
<1>12. spent' \in [applies : 0..MaxApplies, crashes : 0..MaxCrashes]
  <2>1. \/ UNCHANGED spent
        \/ spent.applies < MaxApplies /\ spent' = [spent EXCEPT !.applies = @ + 1]
        \/ spent.crashes < MaxCrashes /\ spent' = [spent EXCEPT !.crashes = @ + 1]
    BY DEF Next, vars, Apply, Serve, ReadGuard, TakeGuard, StashPause, CancelRunning,
          Drained, DrainTimesOut, Requeue, Requeued, Fetched, PipxUpgrade, Clean,
          Extract, Spawn, AwaitHealth, Restart, ApplyFails, ClearGuard,
          RestorePause, Help, HelperGivesUp, MoveAside, MoveIn, HelperRestarts,
          HelperDies, HelperUnchanged, Boot, Start, BootRestoresPause, Healthy,
          Unhealthy, CheckRaises, DiscardBackup, GatePasses, SwapAside, SwapBack,
          PinnedReinstall, RollBack, Relaunch, GateFails, BootUnchanged, Claim,
          ForceStart, Retrigger, JobEnds, JobStep, Crash, process, queue, request
  <2>2. QED
    BY <1>1, <2>1, SelfUpdateAssumption DEF TypeOK
<1>13. QED
  BY <1>2, <1>3, <1>4, <1>5, <1>6, <1>7, <1>8, <1>9, <1>10, <1>11, <1>12 DEF TypeOK

-----------------------------------------------------------------------------
(* The threads.                                                            *)

\* The deaths of the server.
DeathSteps ==
    /\ Dies
    /\ UNCHANGED <<method, manual, guard, pause, dirs, raced>>
    /\ \/ server' = "down" /\ UNCHANGED version
       \/ /\ server' = "boot" /\ version' = dirs.live /\ dirs.live \in {"old", "new"}
          /\ method = "pipx" \/ server = "relaunch"
    /\ spent'.crashes >= spent.crashes
    /\ server = "back" => spent'.crashes > 0

\* Who takes a step: the server dies, a request is accepted or goes on, a helper
\* or the boot goes on, or the queue does.
LEMMA Turns ==
    ASSUME IInv, [Next]_vars
    PROVE  \/ DeathSteps
           \/ \E r \in Requests, f \in Flows : Apply(r, f)
           \/ \E r \in Requests : Serve(r) /\ ~Restart(r)
           \/ \E r \in Requests : Help(r) \/ HelperDies(r)
           \/ Boot /\ server # "relaunch"
           \/ server = "relaunch" /\ server' = "fail"
                /\ UNCHANGED <<method, manual, spent, raced, guard, pause, dirs, version, pc,
                               flow, listed, jobs, killing, helper>>
           \/ \E j \in Jobs : Claim(j) \/ ForceStart(j) \/ Retrigger(j) \/ JobEnds(j)
           \/ UNCHANGED vars
<1>1. TypeOK /\ ThreadInv /\ method \in {"pipx", "native"}
  BY SelfUpdateAssumption DEF IInv, TypeOK
<1>2. spent.crashes \in Nat
  BY <1>1, SelfUpdateAssumption DEF TypeOK
<1>3. ASSUME NEW r \in Requests, Restart(r) PROVE DeathSteps
  BY <1>1, <1>2, <1>3 DEF Restart, DeathSteps, ThreadInv
<1>4. ASSUME Crash PROVE DeathSteps
  <2>1. spent'.crashes = spent.crashes + 1
    BY <1>1, <1>4 DEF Crash, TypeOK
  <2>2. QED
    BY <1>2, <1>4, <2>1 DEF Crash, DeathSteps
<1>5. ASSUME Relaunch
      PROVE  DeathSteps \/ (server = "relaunch" /\ server' = "fail"
                /\ UNCHANGED <<method, manual, spent, raced, guard, pause, dirs, version, pc,
                               flow, listed, jobs, killing, helper>>)
  BY <1>2, <1>5 DEF Relaunch, DeathSteps, queue
<1>6. ASSUME Boot, ~Relaunch PROVE server # "relaunch"
  BY <1>6 DEF Boot, Start, BootRestoresPause, Healthy, Unhealthy, CheckRaises,
         DiscardBackup, GatePasses, SwapAside, SwapBack, PinnedReinstall, RollBack,
         GateFails
<1>7. Relaunch => Boot
  BY DEF Boot
<1>8. QED
  BY <1>3, <1>4, <1>5, <1>6, <1>7 DEF Next

\* What a step of a request leaves alone.
LEMMA ServeFrame ==
    ASSUME IInv, NEW r \in Requests, Serve(r), ~Restart(r)
    PROVE  /\ UNCHANGED <<method, manual, server, version, spent, flow>>
           /\ \A q \in Requests \ {r} : pc'[q] = pc[q] /\ listed'[q] = listed[q]
                                        /\ helper'[q] = helper[q]
           /\ pc[r] # "idle"
           /\ server = "up" /\ version = "old"
           /\ Past(r) \/ pc[r] \in {"read", "take"}
           /\ UNCHANGED raced \/ (TakeGuard(r) /\ raced' = (raced \/ Overlaps(r)))
           /\ helper'[r] = helper[r] \/ Spawn(r)
<1>1. TypeOK /\ ThreadInv
  BY DEF IInv
<1>2. /\ UNCHANGED <<method, manual, server, version, spent, flow>>
      /\ UNCHANGED pc \/ \E stage : Goto(r, stage)
      /\ UNCHANGED listed \/ \E l : listed' = [listed EXCEPT ![r] = l]
      /\ UNCHANGED helper \/ (Spawn(r) /\ \E h : helper' = [helper EXCEPT ![r] = h])
      /\ UNCHANGED raced \/ (TakeGuard(r) /\ raced' = (raced \/ Overlaps(r)))
      /\ pc[r] # "idle"
  BY DEF Serve, ReadGuard, TakeGuard, StashPause, CancelRunning, Drained,
         DrainTimesOut, Requeue, Requeued, Fetched, PipxUpgrade, Clean, Extract,
         Spawn, AwaitHealth, ApplyFails, ClearGuard, RestorePause, process, queue,
         request
<1>3. QED
  BY <1>1, <1>2, Tables DEF Goto, ThreadInv, Past

LEMMA ThreadStep == IInv /\ [Next]_vars => ThreadInv'
<1> SUFFICES ASSUME IInv, [Next]_vars PROVE ThreadInv'
  OBVIOUS
<1>1. TypeOK /\ ThreadInv /\ method \in {"pipx", "native"}
  BY SelfUpdateAssumption DEF IInv, TypeOK
<1>2. CASE DeathSteps
  BY <1>1, <1>2, DiesShape DEF DeathSteps, ThreadInv, Past, Draining
<1>3. ASSUME NEW r \in Requests, NEW f \in Flows, Apply(r, f) PROVE ThreadInv'
  <2>1. /\ pc[r] = "idle" /\ server = "up" /\ version = "old"
        /\ UNCHANGED <<method, server, version, helper, raced, dirs>>
        /\ pc' = [pc EXCEPT ![r] = "read"] /\ flow' = [flow EXCEPT ![r] = f]
    BY <1>3 DEF Apply, Goto
  <2>2. /\ pc'[r] = "read" /\ ~Past(r)'
        /\ \A q \in Requests \ {r} : pc'[q] = pc[q] /\ flow'[q] = flow[q]
                                     /\ (Past(q)' <=> Past(q))
    BY <1>1, <2>1, Tables DEF Past
  <2>3. QED
    BY <1>1, <2>1, <2>2 DEF ThreadInv, Draining
<1>4. ASSUME NEW r \in Requests, Serve(r), ~Restart(r) PROVE ThreadInv'
  <2>1. /\ UNCHANGED <<method, manual, server, version, spent, flow>>
        /\ \A q \in Requests \ {r} : pc'[q] = pc[q] /\ helper'[q] = helper[q]
        /\ pc[r] # "idle" /\ server = "up" /\ version = "old"
        /\ Past(r) \/ pc[r] \in {"read", "take"}
        /\ UNCHANGED raced \/ (TakeGuard(r) /\ raced' = (raced \/ Overlaps(r)))
        /\ helper'[r] = helper[r] \/ Spawn(r)
    BY <1>4, ServeFrame
  <2>2. /\ pc'[r] \in Draining \cup {"restore"} => flow[r] # "none"
        /\ pc'[r] \in {"clean", "extract", "spawn"} => method = "native"
        /\ pc'[r] = "install" => method = "pipx"
        /\ helper'[r] # "none" => method = "native"
        /\ helper'[r] = "waiting" => pc'[r] \in {"await", "restart"}
    BY <1>1, <1>4, Tables
       DEF ThreadInv, Draining, Goto, Serve, ReadGuard, TakeGuard, StashPause,
           CancelRunning, Drained, DrainTimesOut, Requeue, Requeued, Fetched,
           PipxUpgrade, Clean, Extract, Spawn, AwaitHealth, ApplyFails, ClearGuard,
           RestorePause, process, queue, request
  <2>3. ~raced' => \A p, q \in Requests : Past(p)' /\ Past(q)' => p = q
    <3>1. CASE TakeGuard(r)
      BY <1>1, <2>1, <3>1 DEF TakeGuard, Overlaps, Past
    <3>2. CASE ~TakeGuard(r) /\ ~Past(r)
      <4>1. ~Past(r)'
        BY <1>1, <1>4, <2>1, <3>2, Tables
           DEF Past, Goto, Serve, ReadGuard, StashPause, CancelRunning, Drained,
               DrainTimesOut, Requeue, Requeued, Fetched, PipxUpgrade, Clean,
               Extract, Spawn, AwaitHealth, ApplyFails, ClearGuard, RestorePause
      <4>2. QED
        BY <1>1, <2>1, <3>2, <4>1 DEF ThreadInv, Past
    <3>3. CASE ~TakeGuard(r) /\ Past(r)
      BY <1>1, <2>1, <3>3 DEF ThreadInv, Past
    <3>4. QED
      BY <3>1, <3>2, <3>3
  <2>4. method = "pipx" => dirs'.live \in {"old", "new"}
    BY <1>1, <1>4
       DEF TypeOK, ThreadInv, Serve, ReadGuard, TakeGuard, StashPause,
           CancelRunning, Drained, DrainTimesOut, Requeue, Requeued, Fetched,
           PipxUpgrade, Clean, Extract, Spawn, AwaitHealth, ApplyFails, ClearGuard,
           RestorePause
  <2>5. QED
    BY <1>1, <2>1, <2>2, <2>3, <2>4 DEF ThreadInv
<1>5. ASSUME NEW r \in Requests, Help(r) \/ HelperDies(r) PROVE ThreadInv'
  <2>1. /\ UNCHANGED <<method, pc, flow, raced>>
        /\ \A q \in Requests : helper'[q] = helper[q] \/ helper'[q] = "none" \/
              (helper[q] # "none" /\ helper'[q] # "waiting")
        /\ helper[r] # "none"
    BY <1>1, <1>5, Tables
       DEF Help, HelperGivesUp, MoveAside, MoveIn, HelperRestarts, HelperDies,
           HelperUnchanged, HelperAt, request
  <2>2. \/ UNCHANGED <<server, version>>
        \/ server = "down" /\ server' = "boot"
    BY <1>5
       DEF Help, HelperGivesUp, MoveAside, MoveIn, HelperRestarts, HelperDies,
           HelperUnchanged
  <2>3. method = "native"
    BY <1>1, <2>1 DEF ThreadInv
  <2>4. QED
    BY <1>1, <2>1, <2>2, <2>3 DEF ThreadInv, Past
<1>6. CASE Boot /\ server # "relaunch"
  <2>1. UNCHANGED <<method, pc, flow, raced, helper>> /\ server # "up"
    BY <1>6
       DEF Boot, Start, BootRestoresPause, Healthy, Unhealthy, CheckRaises,
           DiscardBackup, GatePasses, SwapAside, SwapBack, PinnedReinstall,
           RollBack, Relaunch, GateFails, BootUnchanged, request
  <2>2. /\ server' \in {"discard", "aside", "back"} => method = "native"
        /\ server' = "reinstall" => method = "pipx"
    BY <1>1, <1>6
       DEF Boot, Start, BootRestoresPause, Healthy, Unhealthy, CheckRaises,
           DiscardBackup, GatePasses, SwapAside, SwapBack, PinnedReinstall,
           RollBack, Relaunch, GateFails, BootUnchanged, ThreadInv
  <2>3. method = "pipx" => dirs'.live \in {"old", "new"}
    <3>1. CASE PinnedReinstall
      BY <1>1, <3>1 DEF PinnedReinstall, ThreadInv, TypeOK
    <3>2. CASE DiscardBackup
      BY <1>1, <3>2 DEF DiscardBackup, ThreadInv, TypeOK
    <3>3. CASE SwapAside \/ SwapBack
      BY <1>1, <3>3 DEF SwapAside, SwapBack, ThreadInv
    <3>4. CASE UNCHANGED dirs
      BY <1>1, <3>4 DEF ThreadInv
    <3>5. QED
      BY <1>6, <3>1, <3>2, <3>3, <3>4
         DEF Boot, Start, BootRestoresPause, Healthy, Unhealthy, CheckRaises,
             DiscardBackup, GatePasses, SwapAside, SwapBack, PinnedReinstall,
             RollBack, Relaunch, GateFails, BootUnchanged
  <2>4. QED
    BY <1>1, <2>1, <2>2, <2>3 DEF ThreadInv, Past
<1>7. CASE UNCHANGED <<method, pc, flow, raced, helper, dirs, version>>
           /\ server' \in {server, "fail"} /\ (server' = server \/ server # "up")
  BY <1>1, <1>7 DEF ThreadInv, Past
<1>8. QED
  BY <1>2, <1>3, <1>4, <1>5, <1>6, <1>7, Turns
     DEF vars, Claim, ForceStart, Retrigger, JobEnds, JobStep, process, request

-----------------------------------------------------------------------------
(* The pause.                                                              *)

\* A request answers for the pause from its stash to its restore.
LEMMA PostServe ==
    ASSUME IInv, NEW r \in Requests, Serve(r), ~Restart(r)
    PROVE  /\ \A q \in Requests \ {r} : Post(q)' <=> Post(q)
           /\ StashPause(r) => ~Post(r) /\ Past(r) /\ Post(r)'
           /\ RestorePause(r) => Post(r) /\ ~Post(r)'
           /\ ~StashPause(r) /\ ~RestorePause(r) => (Post(r)' <=> Post(r)) /\ UNCHANGED pause
<1>1. TypeOK /\ ThreadInv
  BY Tables DEF IInv
<1>2. UNCHANGED flow /\ \A q \in Requests \ {r} : pc'[q] = pc[q]
  BY ServeFrame
<1>3. \A q \in Requests \ {r} : Post(q)' <=> Post(q)
  BY <1>2 DEF Post
<1>4. StashPause(r) => ~Post(r) /\ Past(r) /\ Post(r)'
  BY <1>1, <1>2, Tables DEF StashPause, Goto, Post, Past, Applying
<1>5. RestorePause(r) => Post(r) /\ ~Post(r)'
  BY <1>1, <1>2, Tables DEF RestorePause, Goto, Post, Applying
<1>6. ASSUME ~StashPause(r), ~RestorePause(r)
      PROVE  (Post(r)' <=> Post(r)) /\ UNCHANGED pause
  BY <1>1, <1>2, <1>6, Tables
     DEF ThreadInv, Post, Draining, Applying, Goto, Serve, ReadGuard, TakeGuard,
         CancelRunning, Drained, DrainTimesOut, Requeue, Requeued, Fetched,
         PipxUpgrade, Clean, Extract, Spawn, AwaitHealth, ApplyFails, ClearGuard
<1>7. QED
  BY <1>3, <1>4, <1>5, <1>6

\* What is restored is what was stashed.
LEMMA RestoredPause ==
    ASSUME NEW m \in BOOLEAN, pause.restore = {m}
    PROVE  Restored = [paused |-> m, restore |-> {}]
BY DEF Restored

LEMMA PauseStep == IInv /\ [Next]_vars => PauseInv'
<1> SUFFICES ASSUME IInv, [Next]_vars PROVE PauseInv'
  OBVIOUS
<1>1. TypeOK /\ ThreadInv /\ PauseInv
  BY DEF IInv
<1>2. \A q \in Requests : Post(q) => Past(q) /\ pc[q] # "idle" /\ server = "up"
  BY <1>1 DEF Post, Past, Applying, ThreadInv
<1>3. pause.paused \in BOOLEAN /\ manual \in BOOLEAN
      /\ pause \in [paused : BOOLEAN, restore : {{}, {TRUE}, {FALSE}}]
  BY <1>1 DEF TypeOK
<1>4. CASE DeathSteps
  <2>1. \A q \in Requests : ~Post(q)'
    BY <1>1, <1>4, DiesShape DEF DeathSteps, Post, Applying
  <2>2. QED
    BY <1>1, <1>4, <2>1 DEF DeathSteps, PauseInv
<1>5. ASSUME NEW r \in Requests, NEW f \in Flows, Apply(r, f) PROVE PauseInv'
  <2>1. UNCHANGED <<pause, raced, manual, server>> /\ \A q \in Requests : Post(q)' <=> Post(q)
    BY <1>1, <1>5, Tables DEF Apply, Goto, Post, Applying
  <2>2. QED
    BY <1>1, <2>1 DEF PauseInv
<1>6. ASSUME NEW r \in Requests, Serve(r), ~Restart(r) PROVE PauseInv'
  <2>1. /\ UNCHANGED <<manual, server>> /\ server = "up" /\ (~raced' => ~raced)
        /\ \A q \in Requests \ {r} : Post(q)' <=> Post(q)
    BY <1>6, ServeFrame, PostServe
  <2>2. CASE StashPause(r)
    <3>1. ~Post(r) /\ Past(r) /\ Post(r)' /\ pause' = [paused |-> TRUE, restore |-> {pause.paused}]
      BY <1>6, <2>2, PostServe DEF StashPause
    <3>2. FALSE \in pause'.restore => \A q \in Requests : ~Post(q)
      BY <1>1, <1>3, <3>1 DEF PauseInv
    <3>3. ~raced => \A q \in Requests : ~Post(q)
      BY <1>1, <1>2, <3>1 DEF ThreadInv
    <3>4. ~raced => pause = [paused |-> manual, restore |-> {}]
      BY <1>1, <2>1, <3>3 DEF PauseInv
    <3>5. ~raced => pause' = [paused |-> TRUE, restore |-> {manual}]
      <4>1. ASSUME pause = [paused |-> manual, restore |-> {}] PROVE pause.paused = manual
        BY <4>1, Zenon
      <4>2. QED
        BY <3>1, <3>4, <4>1, Zenon
    <3>6. QED
      BY <2>1, <3>1, <3>2, <3>5 DEF PauseInv
  <2>3. CASE RestorePause(r)
    <3>1. Post(r) /\ ~Post(r)' /\ pause' = Restored
      BY <1>6, <2>3, PostServe DEF RestorePause
    <3>2. \A q \in Requests : Post(q)' => pause'.paused
      <4> SUFFICES ASSUME NEW q \in Requests, Post(q)' PROVE pause'.paused
        OBVIOUS
      <4>1. q # r /\ Post(q) /\ pause.paused
        BY <1>1, <2>1, <3>1 DEF PauseInv
      <4>2. FALSE \notin pause.restore
        BY <1>1, <3>1, <4>1 DEF PauseInv
      <4>3. pause.restore \in {{}, {TRUE}}
        BY <1>3, <4>2
      <4>4. QED
        BY <3>1, <4>1, <4>3 DEF Restored
    <3>3. FALSE \notin pause'.restore
      BY <3>1 DEF Restored
    <3>4. ~raced => pause' = [paused |-> manual, restore |-> {}]
      <4>1. CASE pause = [paused |-> manual, restore |-> {}]
        BY <3>1, <4>1 DEF Restored
      <4>2. CASE pause = [paused |-> TRUE, restore |-> {manual}]
        <5>1. pause.restore = {manual}
          BY <4>2
        <5>2. QED
          BY <1>3, <3>1, <5>1, RestoredPause
      <4>3. QED
        BY <1>1, <4>1, <4>2 DEF PauseInv
    <3>5. QED
      BY <2>1, <3>2, <3>3, <3>4 DEF PauseInv
  <2>4. CASE ~StashPause(r) /\ ~RestorePause(r)
    <3>1. UNCHANGED pause /\ \A q \in Requests : Post(q)' <=> Post(q)
      BY <1>6, <2>1, <2>4, PostServe
    <3>2. QED
      BY <1>1, <2>1, <3>1 DEF PauseInv
  <2>5. QED
    BY <2>2, <2>3, <2>4
<1>7. ASSUME UNCHANGED <<pc, flow, raced, manual>>
      PROVE  \A q \in Requests : Post(q)' <=> Post(q)
  BY <1>7 DEF Post
<1>8. ASSUME NEW r \in Requests, Help(r) \/ HelperDies(r) PROVE PauseInv'
  <2>1. /\ UNCHANGED <<pc, flow, raced, manual, pause>>
        /\ server' = server \/ (server = "down" /\ server' = "boot")
    BY <1>8
       DEF Help, HelperGivesUp, MoveAside, MoveIn, HelperRestarts, HelperDies,
           HelperUnchanged, request
  <2>2. QED
    BY <1>1, <1>7, <2>1 DEF PauseInv
<1>9. CASE Boot /\ server # "relaunch"
  <2>1. UNCHANGED <<pc, flow, raced, manual>> /\ server # "up"
    BY <1>9
       DEF Boot, Start, BootRestoresPause, Healthy, Unhealthy, CheckRaises,
           DiscardBackup, GatePasses, SwapAside, SwapBack, PinnedReinstall,
           RollBack, Relaunch, GateFails, BootUnchanged, request
  <2>2. \A q \in Requests : ~Post(q) /\ ~Post(q)'
    BY <1>2, <1>7, <2>1
  <2>3. CASE BootRestoresPause
    <3>1. ~raced => pause' = [paused |-> manual, restore |-> {}]
      <4>1. CASE pause = [paused |-> manual, restore |-> {}]
        BY <2>3, <4>1 DEF BootRestoresPause, Restored
      <4>2. CASE pause = [paused |-> TRUE, restore |-> {manual}]
        <5>1. pause.restore = {manual}
          BY <4>2
        <5>2. QED
          BY <1>3, <2>3, <5>1, RestoredPause DEF BootRestoresPause
      <4>3. QED
        BY <1>1, <4>1, <4>2 DEF PauseInv
    <3>2. QED
      BY <2>1, <2>2, <3>1 DEF PauseInv
  <2>4. CASE ~BootRestoresPause
    <3>1. UNCHANGED pause /\ (server \in {"down", "boot"} => server' = "boot")
      BY <1>9, <2>4
         DEF Boot, Start, BootRestoresPause, Healthy, Unhealthy, CheckRaises,
             DiscardBackup, GatePasses, SwapAside, SwapBack, PinnedReinstall,
             RollBack, Relaunch, GateFails, BootUnchanged
    <3>2. QED
      BY <1>1, <2>1, <2>2, <3>1 DEF PauseInv
  <2>5. QED
    BY <2>3, <2>4
<1>10. CASE /\ UNCHANGED <<pc, flow, raced, manual, pause>>
            /\ server' = server \/ server = "relaunch"
  <2>1. server = "relaunch" => \A q \in Requests : ~Post(q)
    BY <1>2
  <2>2. QED
    BY <1>1, <1>7, <1>10, <2>1 DEF PauseInv
<1>11. QED
  BY <1>4, <1>5, <1>6, <1>8, <1>9, <1>10, Turns
     DEF vars, Claim, ForceStart, Retrigger, JobEnds, JobStep, process, request

-----------------------------------------------------------------------------
(* The drained queue.                                                      *)

LEMMA DrainStep == IInv /\ [Next]_vars => DrainInv'
<1> SUFFICES ASSUME IInv, [Next]_vars PROVE DrainInv'
  OBVIOUS
<1> DEFINE Dry(r) == pc[r] \in Applying \cup {"requeue"} /\ flow[r] # "none"
           Holds(r) == /\ \A j \in Jobs : jobs[j] # "running"
                       /\ ~raced => killing = {}
                       /\ flow[r] = "cancel_and_restart" /\ ~raced /\ pc[r] # "requeue" =>
                            \A j \in listed[r] : jobs[j] # "cancelled"
<1>1. TypeOK /\ ThreadInv /\ PauseInv /\ \A r \in Requests : Dry(r) => Holds(r)
  BY DEF IInv, DrainInv
<1> SUFFICES \A r \in Requests : Dry(r)' => Holds(r)'
  BY DEF DrainInv
<1>2. \A r \in Requests : Dry(r) => Past(r) /\ pause.paused
  BY <1>1 DEF Past, Post, PauseInv, Applying
<1>3. Running = {} => killing = {} /\ \A j \in Jobs : jobs[j] # "running"
  BY <1>1 DEF TypeOK, Running
<1>4. CASE DeathSteps
  BY <1>1, <1>4, DiesShape DEF DeathSteps, Applying
<1>5. ASSUME NEW r \in Requests, NEW f \in Flows, Apply(r, f)
      PROVE  \A q \in Requests : Dry(q)' => Holds(q)'
  <2>1. /\ UNCHANGED <<jobs, killing, raced>>
        /\ pc' = [pc EXCEPT ![r] = "read"] /\ flow' = [flow EXCEPT ![r] = f]
        /\ listed' = [listed EXCEPT ![r] = {}]
    BY <1>5 DEF Apply, Goto, queue
  <2>2. /\ pc'[r] = "read"
        /\ \A q \in Requests \ {r} :
             pc'[q] = pc[q] /\ flow'[q] = flow[q] /\ listed'[q] = listed[q]
    BY <1>1, <2>1, Tables
  <2>3. QED
    BY <1>1, <2>1, <2>2 DEF Applying
<1>6. ASSUME NEW r \in Requests, Serve(r), ~Restart(r)
      PROVE  \A q \in Requests : Dry(q)' => Holds(q)'
  <2>1. /\ UNCHANGED flow /\ (~raced' => ~raced)
        /\ \A q \in Requests \ {r} : pc'[q] = pc[q] /\ listed'[q] = listed[q]
        /\ Past(r) \/ pc[r] \in {"read", "take"}
    BY <1>6, ServeFrame
  <2>2. /\ \A j \in Jobs : jobs'[j] = "running" => jobs[j] = "running"
        /\ \A j \in Jobs : jobs'[j] = "cancelled" => jobs[j] = "cancelled"
    BY <1>1, <1>6, Tables
       DEF queue, Serve, ReadGuard, TakeGuard, StashPause, CancelRunning, Drained,
           DrainTimesOut, Requeue, Requeued, Fetched, PipxUpgrade, Clean, Extract,
           Spawn, AwaitHealth, ApplyFails, ClearGuard, RestorePause
  <2>3. UNCHANGED killing \/ CancelRunning(r)
    BY <1>6
       DEF queue, Serve, ReadGuard, TakeGuard, StashPause, Drained, DrainTimesOut,
           Requeue, Requeued, Fetched, PipxUpgrade, Clean, Extract, Spawn,
           AwaitHealth, ApplyFails, ClearGuard, RestorePause
  <2>4. UNCHANGED listed \/ CancelRunning(r)
    BY <1>6
       DEF request, Serve, ReadGuard, TakeGuard, StashPause, Drained, DrainTimesOut,
           Requeue, Requeued, Fetched, PipxUpgrade, Clean, Extract, Spawn,
           AwaitHealth, ApplyFails, ClearGuard, RestorePause
  <2>5. ASSUME NEW q \in Requests \ {r}, Dry(q)' PROVE Holds(q)'
    <3>1. Dry(q) /\ Holds(q) /\ Past(q)
      BY <1>1, <1>2, <2>1, <2>5
    <3>2. CASE CancelRunning(r)
      <4>1. Past(r) /\ raced
        BY <1>1, <3>1, <3>2 DEF CancelRunning, Past, ThreadInv
      <4>2. QED
        BY <2>1, <2>2, <3>1, <4>1
    <3>3. CASE ~CancelRunning(r)
      <4>1. listed'[q] \subseteq Jobs
        BY <1>1, <2>1, Tables
      <4>2. QED
        BY <2>1, <2>2, <2>3, <2>4, <3>1, <3>3, <4>1
    <3>4. QED
      BY <3>2, <3>3
  <2>6. ASSUME Dry(r)' PROVE Holds(r)'
    <3>1. CASE CancelRunning(r)
      <4>1. Running = {} /\ pc'[r] = "requeue" /\ killing' = killing \cup Running
        BY <1>1, <2>6, <3>1, Tables DEF CancelRunning, Goto, Applying
      <4>2. QED
        BY <1>3, <2>2, <4>1
    <3>2. CASE Drained(r)
      <4>1. Running = {} /\ pc'[r] = (IF flow[r] = "cancel_and_restart" THEN "requeue" ELSE "fetch")
        BY <1>1, <3>2, Tables DEF Drained, Goto
      <4>2. UNCHANGED <<killing, flow>>
        BY <3>2 DEF Drained, queue, request
      <4>3. QED
        BY <1>3, <2>2, <4>1, <4>2
    <3>3. CASE Requeued(r)
      <4>1. /\ pc[r] = "requeue" /\ Dry(r) /\ UNCHANGED <<jobs, killing, listed, flow, raced>>
            /\ \A j \in listed[r] : jobs[j] # "cancelled"
        BY <2>1, <2>6, <3>3 DEF Requeued, queue, request
      <4>2. QED
        BY <1>1, <4>1
    <3>4. CASE ~CancelRunning(r) /\ ~Drained(r) /\ ~Requeued(r)
      <4>1. Dry(r) /\ (pc[r] = "requeue" => pc'[r] = "requeue")
        BY <1>1, <1>6, <2>1, <2>6, <3>4, Tables
           DEF Applying, Goto, Serve, ReadGuard, TakeGuard, StashPause,
               DrainTimesOut, Requeue, Fetched, PipxUpgrade, Clean, Extract, Spawn,
               AwaitHealth, ApplyFails, ClearGuard, RestorePause
      <4>2. listed'[r] \subseteq Jobs /\ UNCHANGED <<killing, listed>>
        BY <1>1, <2>3, <2>4, <3>4, Tables
      <4>3. QED
        BY <1>1, <2>1, <2>2, <4>1, <4>2
    <3>5. QED
      BY <3>1, <3>2, <3>3, <3>4
  <2>7. QED
    BY <2>5, <2>6
<1>7. CASE UNCHANGED <<pc, flow, listed, raced, jobs, killing>>
  BY <1>1, <1>7
<1>8. ASSUME NEW j \in Jobs, Claim(j) PROVE \A q \in Requests : Dry(q)' => Holds(q)'
  <2>1. ~pause.paused /\ UNCHANGED <<pc, flow>>
    BY <1>8 DEF Claim, JobStep, request
  <2>2. QED
    BY <1>2, <2>1
<1>9. ASSUME NEW j \in Jobs, ForceStart(j) PROVE \A q \in Requests : Dry(q)' => Holds(q)'
  <2>1. UNCHANGED <<pc, flow, listed, raced, killing>> /\ jobs' = [jobs EXCEPT ![j] = "forced"]
    BY <1>9 DEF ForceStart, JobStep, request
  <2>2. \A q \in Requests : listed[q] \subseteq Jobs
    BY <1>1, Tables
  <2>3. \A i \in Jobs : jobs'[i] \in {jobs[i], "forced"}
    BY <1>1, <2>1, Tables
  <2>4. QED
    BY <1>1, <2>1, <2>2, <2>3
<1>10. ASSUME NEW j \in Jobs, JobEnds(j) PROVE \A q \in Requests : Dry(q)' => Holds(q)'
  <2>1. UNCHANGED <<pc, flow, listed, raced>> /\ killing' \subseteq killing
    BY <1>10 DEF JobEnds, JobStep, request
  <2>2. \A q \in Requests : listed[q] \subseteq Jobs
    BY <1>1, Tables
  <2>3. \A i \in Jobs : jobs'[i] \in {jobs[i], "ended"} \/ (jobs'[i] = "cancelled" /\ killing # {})
    BY <1>1, <1>10, Tables DEF JobEnds
  <2>4. QED
    BY <1>1, <2>1, <2>2, <2>3
<1>11. ASSUME NEW j \in Jobs, Retrigger(j) PROVE \A q \in Requests : Dry(q)' => Holds(q)'
  <2>1. UNCHANGED <<pc, flow, listed, raced, killing>> /\ jobs' = [jobs EXCEPT ![j] = "pending"]
    BY <1>11 DEF Retrigger, JobStep, request
  <2>2. \A q \in Requests : listed[q] \subseteq Jobs
    BY <1>1, Tables
  <2>3. \A i \in Jobs : jobs'[i] \in {jobs[i], "pending"}
    BY <1>1, <2>1, Tables
  <2>4. QED
    BY <1>1, <2>1, <2>2, <2>3
<1>12. QED
  BY <1>4, <1>5, <1>6, <1>7, <1>8, <1>9, <1>10, <1>11, Turns
     DEF vars, Help, HelperGivesUp, MoveAside, MoveIn, HelperRestarts, HelperDies,
         HelperUnchanged, Boot, Start, BootRestoresPause, Healthy, Unhealthy,
         CheckRaises, DiscardBackup, GatePasses, SwapAside, SwapBack,
         PinnedReinstall, RollBack, Relaunch, GateFails, BootUnchanged, process,
         request, queue

-----------------------------------------------------------------------------
(* The installed trees.                                                    *)

LEMMA TreeStep == IInv /\ [Next]_vars => TreeInv'
<1> SUFFICES ASSUME IInv, [Next]_vars PROVE TreeInv'
  OBVIOUS
<1> SUFFICES ASSUME ~raced
             PROVE  /\ \A q, r \in Requests :
                         helper'[q] # "none" /\ helper'[r] # "none" => q = r
                    /\ method' = "native" => ServerTrees' /\ \A r \in Requests : StageTrees(r)'
  <2>1. UNCHANGED raced \/ \E r \in Requests : TakeGuard(r)
    BY DEF Next, vars, Apply, Serve, ReadGuard, TakeGuard, StashPause, CancelRunning,
    Drained, DrainTimesOut, Requeue, Requeued, Fetched, PipxUpgrade, Clean, Extract,
    Spawn, AwaitHealth, Restart, ApplyFails, ClearGuard, RestorePause, Help,
    HelperGivesUp, MoveAside, MoveIn, HelperRestarts, HelperDies, HelperUnchanged,
    Boot, Start, BootRestoresPause, Healthy, Unhealthy, CheckRaises, DiscardBackup,
    GatePasses, SwapAside, SwapBack, PinnedReinstall, RollBack, Relaunch, GateFails,
    BootUnchanged, Claim, ForceStart, Retrigger, JobEnds, JobStep, Crash, process, queue,
    request
  <2>2. ASSUME NEW r \in Requests, TakeGuard(r) PROVE raced => raced'
    BY <2>2, Zenon DEF TakeGuard
  <2>3. QED
    BY <2>1, <2>2 DEF TreeInv
<1>1. TypeOK /\ ThreadInv /\ method \in {"pipx", "native"}
  BY SelfUpdateAssumption DEF IInv, TypeOK
<1>2. /\ \A q, r \in Requests : helper[q] # "none" /\ helper[r] # "none" => q = r
      /\ method = "native" => ServerTrees /\ \A r \in Requests : StageTrees(r)
  BY DEF IInv, TreeInv
<1>3. \A q \in Requests : helper[q] \in {"none", "waiting", "free", "moved", "swapped"}
  BY <1>1, Tables
<1>4. spent.crashes \in Nat
  BY <1>1, SelfUpdateAssumption DEF TypeOK
<1>5. \A q \in Requests : pc[q] # "idle" => server = "up" /\ version = "old"
  BY <1>1 DEF ThreadInv
<1>6. CASE DeathSteps
  <2>1. /\ UNCHANGED <<method, dirs>> /\ \A q \in Requests : pc'[q] = "idle"
        /\ server' = "down" \/ (server' = "boot" /\ version' = dirs.live
                                 /\ dirs.live \in {"old", "new"}
                                 /\ (method = "pipx" \/ server = "relaunch"))
        /\ spent'.crashes \in Nat => spent'.crashes >= spent.crashes
        /\ server = "back" => spent'.crashes > 0
    BY <1>1, <1>6, DiesShape DEF DeathSteps
  <2>2. \A q \in Requests :
          helper'[q] = IF helper[q] = "waiting" THEN "free" ELSE helper[q]
    BY <1>1, <1>6, DiesShape DEF DeathSteps
  <2>3. spent.crashes > 0 => spent'.crashes > 0
    <3>1. spent'.crashes \in Nat
      <4>1. TypeOK'
        BY TypeStep
      <4>2. QED
        BY <4>1, SelfUpdateAssumption DEF TypeOK
    <3>2. QED
      BY <1>4, <2>1, <3>1
  <2>4. ASSUME method = "native" PROVE ServerTrees'
    <3>1. ServerTrees
      BY <1>2, <2>4
    <3>2. \A q \in Requests : helper[q] = "moved" => helper'[q] = "moved"
      BY <2>2
    <3>3. QED
      BY <2>1, <2>3, <2>4, <3>1, <3>2 DEF ServerTrees
  <2>5. ASSUME method = "native", NEW q \in Requests PROVE StageTrees(q)'
    <3>1. StageTrees(q)
      BY <1>2, <2>5
    <3>2. CASE helper[q] = "waiting"
      <4>1. pc[q] \in {"await", "restart"} /\ helper'[q] = "free" /\ server = "up"
        BY <1>1, <2>2, <3>2 DEF ThreadInv
      <4>2. QED
        BY <2>1, <2>5, <3>1, <4>1 DEF StageTrees
    <3>3. CASE helper[q] # "waiting"
      <4>1. helper'[q] = helper[q] /\ pc'[q] = "idle"
        BY <2>1, <2>2, <3>3
      <4>2. QED
        BY <2>1, <2>5, <3>1, <4>1 DEF StageTrees
    <3>4. QED
      BY <3>2, <3>3
  <2>6. QED
    BY <1>2, <2>1, <2>2, <2>4, <2>5
<1>7. ASSUME UNCHANGED <<method, server, version, helper, dirs, spent.crashes>>,
             \A q \in Requests : pc'[q] = pc[q] \/ pc'[q] \notin
               {"extract", "spawn", "await", "restart"}
      PROVE  /\ \A q, r \in Requests :
                         helper'[q] # "none" /\ helper'[r] # "none" => q = r
             /\ method' = "native" => ServerTrees' /\ \A r \in Requests : StageTrees(r)'
  BY <1>2, <1>7 DEF ServerTrees, StageTrees
<1>8. ASSUME NEW r \in Requests, NEW f \in Flows, Apply(r, f)
      PROVE  /\ \A p, q \in Requests :
                         helper'[p] # "none" /\ helper'[q] # "none" => p = q
             /\ method' = "native" => ServerTrees' /\ \A q \in Requests : StageTrees(q)'
  <2>1. UNCHANGED <<method, server, version, helper, dirs>> /\ Goto(r, "read")
        /\ spent' = [spent EXCEPT !.applies = @ + 1]
    BY <1>8 DEF Apply
  <2>2. UNCHANGED <<method, server, version, helper, dirs, spent.crashes>>
    BY <1>1, <2>1 DEF TypeOK
  <2>3. \A q \in Requests : pc'[q] = pc[q] \/ pc'[q] = "read"
    BY <1>1, <2>1, Tables DEF Goto
  <2>4. QED
    BY <1>7, <2>2, <2>3
<1>9. ASSUME NEW r \in Requests, Serve(r), ~Restart(r)
      PROVE  /\ \A p, q \in Requests :
                         helper'[p] # "none" /\ helper'[q] # "none" => p = q
             /\ method' = "native" => ServerTrees' /\ \A q \in Requests : StageTrees(q)'
  <2>1. /\ UNCHANGED <<method, manual, server, version, spent, flow>>
        /\ \A q \in Requests \ {r} : pc'[q] = pc[q] /\ helper'[q] = helper[q]
        /\ pc[r] # "idle" /\ server = "up" /\ version = "old"
        /\ helper'[r] = helper[r] \/ Spawn(r)
    BY <1>9, ServeFrame
  <2>2. ASSUME method = "pipx" PROVE \A q \in Requests : helper'[q] = "none"
    <3>1. ~Spawn(r) /\ \A q \in Requests : helper[q] = "none"
      BY <1>1, <2>2 DEF ThreadInv, Spawn
    <3>2. QED
      BY <2>1, <3>1
  <2>3. ASSUME method = "native", ~Past(r)
        PROVE  UNCHANGED <<helper, dirs>> /\ pc'[r] \in {"idle", "take", "fetch", "stash"}
    BY <1>1, <1>9, <2>1, <2>3, Tables
DEF Past, Goto, Draining, Applying, Serve, ReadGuard, TakeGuard, StashPause,
    CancelRunning, Drained, DrainTimesOut, Requeue, Requeued, Fetched, PipxUpgrade,
    Clean, Extract, Spawn, AwaitHealth, Restart, ApplyFails, ClearGuard,
    RestorePause, process, queue, request
  <2>4. ASSUME method = "native", Past(r)
        PROVE  /\ \A q \in Requests \ {r} :
                    helper[q] = "none" /\ pc[q] \notin {"extract", "spawn", "await", "restart"}
               /\ helper[r] \in {"none", "waiting"}
               /\ dirs.live = "old" /\ server = "up" /\ dirs.backup \in {"absent", "old"}
    <3>1. \A q \in Requests \ {r} : ~Past(q) /\ pc[q] \in {"idle", "read", "take"}
      BY <1>1, <2>4 DEF ThreadInv, Past
    <3>2. \A q \in Requests : helper[q] \in {"none", "waiting"}
      BY <1>2, <1>3, <2>1, <2>4 DEF StageTrees
    <3>3. \A q \in Requests \ {r} : helper[q] = "none"
      BY <1>1, <3>1, <3>2 DEF ThreadInv
    <3>4. QED
      BY <1>2, <2>1, <2>4, <3>1, <3>2, <3>3 DEF ServerTrees
  <2>5. ASSUME method = "native", Past(r)
        PROVE  ServerTrees' /\ \A q \in Requests : StageTrees(q)'
    <3>1. /\ dirs'.live = "old" /\ dirs'.backup \in {"absent", "old"}
          /\ \/ UNCHANGED dirs
             \/ Clean(r) /\ dirs'.backup = "absent" /\ dirs'.staged = "part"
             \/ Extract(r) /\ dirs'.backup = dirs.backup /\ dirs'.staged = "new"
      <4>1. \A q \in Requests \ {r} : pc[q] # "extract"
        BY <2>4, <2>5
      <4>2. ~PipxUpgrade(r)
        BY <1>1, <2>5 DEF ThreadInv, PipxUpgrade
      <4>3. Clean(r) => dirs'.live = "old" /\ dirs'.backup = "absent" /\ dirs'.staged = "part"
        BY <1>1, <2>4, <2>5 DEF Clean, TypeOK
      <4>4. Extract(r) => dirs'.live = "old" /\ dirs'.backup = dirs.backup
                          /\ dirs'.staged = "new"
        BY <1>1, <2>4, <2>5, <4>1 DEF Extract, TypeOK
      <4>5. Clean(r) \/ Extract(r) \/ UNCHANGED dirs
        BY <1>9, <4>2
DEF Serve, ReadGuard, TakeGuard, StashPause, CancelRunning, Drained, DrainTimesOut,
    Requeue, Requeued, Fetched, PipxUpgrade, Clean, Extract, Spawn, AwaitHealth,
    Restart, ApplyFails, ClearGuard, RestorePause, process, queue, request
      <4>6. QED
        BY <2>4, <2>5, <4>3, <4>4, <4>5
    <3>2. ServerTrees'
      BY <2>1, <3>1 DEF ServerTrees
    <3>3. \A q \in Requests \ {r} : StageTrees(q)'
      BY <2>1, <2>4, <2>5 DEF StageTrees
    <3>4. /\ pc'[r] = "extract" => Clean(r)
          /\ pc'[r] = "spawn" => Extract(r)
          /\ pc'[r] = "await" => Spawn(r)
          /\ pc'[r] = "restart" => AwaitHealth(r) \/ pc[r] = "restart"
      BY <1>1, <1>9, <2>5, Tables
DEF ThreadInv, Goto, Draining, Applying, Serve, ReadGuard, TakeGuard, StashPause,
    CancelRunning, Drained, DrainTimesOut, Requeue, Requeued, Fetched, PipxUpgrade,
    Clean, Extract, Spawn, AwaitHealth, Restart, ApplyFails, ClearGuard,
    RestorePause
    <3>5. helper'[r] \in {"none", "waiting"}
      BY <1>1, <2>1, <2>4, <2>5, Tables DEF Spawn
    <3>6. StageTrees(r)
      BY <1>2, <2>5
    <3>7. CASE Clean(r)
      <4>1. pc'[r] = "extract"
        BY <1>1, <3>7, Tables DEF Clean, Goto
      <4>2. dirs'.backup = "absent" /\ dirs'.staged = "part"
        BY <1>1, <2>5, <3>7 DEF Clean, TypeOK
      <4>3. QED
        BY <3>1, <3>2, <3>3, <3>5, <4>1, <4>2 DEF StageTrees
    <3>8. CASE Extract(r)
      <4>1. pc[r] = "extract" /\ pc'[r] = "spawn"
        BY <1>1, <3>8, Tables DEF Extract, Goto
      <4>2. dirs'.staged = "new" /\ dirs'.backup = "absent"
        <5>1. ~Clean(r) /\ dirs.backup = "absent"
          BY <3>6, <4>1 DEF Clean, StageTrees
        <5>2. dirs' = [dirs EXCEPT !.staged = "new"]
          BY <2>4, <2>5, <3>8 DEF Extract
        <5>3. QED
          BY <1>1, <5>1, <5>2 DEF TypeOK
      <4>3. QED
        BY <3>1, <3>2, <3>3, <3>5, <4>1, <4>2 DEF StageTrees
    <3>9. CASE ~Clean(r) /\ ~Extract(r)
      <4>1. UNCHANGED dirs
        BY <3>1, <3>9
      <4>2. pc'[r] = "extract" \/ pc'[r] = "spawn" => FALSE
        BY <3>4, <3>9
      <4>3. pc'[r] \in {"await", "restart"} => pc[r] \in {"spawn", "await", "restart"}
        BY <3>4 DEF Spawn, AwaitHealth
      <4>4. QED
        BY <3>2, <3>3, <3>5, <3>6, <4>1, <4>2, <4>3 DEF StageTrees
    <3>10. QED
      BY <3>2, <3>3, <3>7, <3>8, <3>9
  <2>6. QED
    BY <1>1, <1>2, <1>7, <2>1, <2>2, <2>3, <2>4, <2>5
<1>10. ASSUME NEW r \in Requests, Help(r) \/ HelperDies(r)
       PROVE  /\ \A p, q \in Requests :
                         helper'[p] # "none" /\ helper'[q] # "none" => p = q
              /\ method' = "native" => ServerTrees' /\ \A q \in Requests : StageTrees(q)'
  <2>1. /\ UNCHANGED <<method, pc>>
        /\ \A q \in Requests \ {r} : helper'[q] = helper[q]
        /\ helper[r] # "none"
    BY <1>1, <1>10, Tables
DEF HelperAt, Help, HelperGivesUp, MoveAside, MoveIn, HelperRestarts, HelperDies,
    HelperUnchanged, request
  <2>2. /\ method = "native" /\ ServerTrees /\ StageTrees(r)
        /\ \A q \in Requests \ {r} : helper[q] = "none" /\ StageTrees(q)
    BY <1>1, <1>2, <2>1 DEF ThreadInv
  <2>3. CASE HelperGivesUp(r)
    <3>1. helper[r] = "waiting" /\ helper'[r] = "none" /\ UNCHANGED <<server, version, dirs, spent>>
      BY <1>1, <2>3, Tables DEF HelperGivesUp, HelperAt, HelperUnchanged
    <3>2. QED
      BY <2>1, <2>2, <3>1 DEF ServerTrees, StageTrees
  <2>4. CASE HelperDies(r)
    <3>1. helper'[r] = "none" /\ UNCHANGED <<server, version, dirs>> /\ spent'.crashes > 0
      BY <1>1, <1>4, <2>4, Tables DEF HelperDies, HelperAt, TypeOK
    <3>2. QED
      BY <2>1, <2>2, <3>1 DEF ServerTrees, StageTrees
  <2>5. ASSUME server = "down", \A q \in Requests : pc[q] = "idle",
               UNCHANGED <<server, version, spent>>,
               dirs'.backup \in {"absent", "old"},
               \/ helper'[r] = "none" /\ dirs'.live \in {"old", "new"}
               \/ /\ helper'[r] = "moved" /\ dirs'.live = "absent"
                  /\ dirs'.backup = "old" /\ dirs'.staged = "new"
               \/ helper'[r] = "swapped" /\ dirs'.live = "new" /\ dirs'.backup = "old"
        PROVE  ServerTrees' /\ \A q \in Requests : StageTrees(q)'
    BY <2>1, <2>2, <2>5 DEF ServerTrees, StageTrees
  <2>6. helper[r] \in {"free", "moved", "swapped"} =>
          server = "down" /\ \A q \in Requests : pc[q] = "idle"
    BY <1>5, <2>2 DEF StageTrees
  <2>7. CASE MoveAside(r)
    <3>1. /\ helper[r] = "free" /\ helper'[r] = "moved"
          /\ dirs' = [dirs EXCEPT !.backup = dirs.live, !.live = "absent"]
          /\ UNCHANGED <<server, version, spent>>
      BY <1>1, <2>2, <2>7, Tables DEF MoveAside, HelperAt, HelperUnchanged, StageTrees
    <3>2. dirs'.live = "absent" /\ dirs'.backup = "old" /\ dirs'.staged = "new"
      BY <1>1, <2>2, <3>1 DEF TypeOK, StageTrees
    <3>3. QED
      BY <2>1, <2>2, <2>5, <2>6, <3>1, <3>2
  <2>8. CASE MoveIn(r)
    <3>1. /\ helper[r] = "moved" /\ UNCHANGED <<server, version, spent>>
          /\ dirs.live = "absent" /\ dirs.backup = "old" /\ dirs.staged = "new"
      BY <1>1, <2>2, <2>8, Tables DEF MoveIn, HelperUnchanged, StageTrees
    <3>2. \/ /\ dirs' = [dirs EXCEPT !.live = dirs.staged, !.staged = "absent"]
             /\ helper'[r] = "swapped"
          \/ /\ dirs' = [dirs EXCEPT !.live = dirs.backup, !.backup = "absent"]
             /\ helper'[r] = "none"
      BY <1>1, <2>8, <3>1, Tables DEF MoveIn, HelperAt
    <3>3. \/ helper'[r] = "swapped" /\ dirs'.live = "new" /\ dirs'.backup = "old"
          \/ helper'[r] = "none" /\ dirs'.live = "old" /\ dirs'.backup = "absent"
      BY <1>1, <3>1, <3>2 DEF TypeOK
    <3>4. QED
      BY <2>1, <2>2, <2>5, <2>6, <3>1, <3>3
  <2>9. CASE HelperRestarts(r)
    <3>1. /\ helper[r] = "swapped" /\ helper'[r] = "none" /\ UNCHANGED <<dirs, spent>>
          /\ server' = "boot" /\ version' = dirs.live /\ dirs.live = "new"
      BY <1>1, <2>2, <2>6, <2>9, Tables
         DEF HelperRestarts, HelperAt, HelperUnchanged, StageTrees
    <3>2. QED
      BY <2>1, <2>2, <2>6, <3>1 DEF ServerTrees, StageTrees
  <2>10. QED
    <3>1. \A p, q \in Requests : helper'[p] # "none" /\ helper'[q] # "none" => p = q
      BY <2>1, <2>2
    <3>2. QED
      BY <1>10, <2>1, <2>3, <2>4, <2>7, <2>8, <2>9, <3>1 DEF Help
<1>11. CASE Boot /\ server # "relaunch"
  <2>1. UNCHANGED <<method, pc, helper, spent>> /\ server # "up"
    BY <1>11
DEF Boot, Start, BootRestoresPause, Healthy, Unhealthy, CheckRaises, DiscardBackup,
    GatePasses, SwapAside, SwapBack, PinnedReinstall, RollBack, Relaunch, GateFails,
    BootUnchanged
  <2>2. \A q \in Requests : pc[q] = "idle"
    BY <1>5, <2>1
  <2>3. ASSUME method = "native" PROVE ServerTrees' /\ \A q \in Requests : StageTrees(q)'
    <3>1. ServerTrees /\ \A q \in Requests : StageTrees(q)
      BY <1>2, <2>3
    <3>2. CASE Start
      BY <2>1, <2>2, <3>1, <3>2 DEF Start, ServerTrees, StageTrees
    <3>3. ASSUME server # "down"
          PROVE  \A q \in Requests : helper[q] \notin {"free", "moved", "swapped"}
      BY <3>1, <3>3 DEF StageTrees
    <3>4. ASSUME server # "down", server' # "down", ServerTrees'
          PROVE  \A q \in Requests : StageTrees(q)'
      BY <2>1, <2>2, <3>3, <3>4 DEF StageTrees
    <3>5. CASE DiscardBackup
      <4>1. /\ dirs'.live = dirs.live /\ dirs'.backup = "absent"
            /\ server = "discard" /\ server' = "pass" /\ UNCHANGED version
        BY <1>1, <3>5 DEF DiscardBackup, TypeOK
      <4>2. QED
        BY <2>1, <3>1, <3>4, <4>1 DEF ServerTrees
    <3>6. CASE SwapAside
      <4>1. /\ server = "aside" /\ UNCHANGED version
            /\ \/ server' = "fail" /\ UNCHANGED dirs
               \/ /\ server' = "back" /\ dirs.backup # "absent" /\ dirs'.backup = dirs.backup
                  /\ dirs'.quarantine = dirs.live /\ dirs'.live = "absent"
        BY <1>1, <3>6 DEF SwapAside, TypeOK
      <4>2. QED
        BY <2>1, <3>1, <3>4, <4>1 DEF ServerTrees
    <3>7. CASE SwapBack
      <4>1. /\ server = "back" /\ UNCHANGED version /\ server' \in {"rolled_back", "fail"}
            /\ \/ dirs'.live = dirs.backup /\ dirs'.backup = "absent"
               \/ dirs'.live = dirs.quarantine /\ dirs'.backup = dirs.backup
        BY <1>1, <3>7 DEF SwapBack, TypeOK
      <4>2. QED
        BY <2>1, <3>1, <3>4, <4>1 DEF ServerTrees
    <3>8. CASE ~Start /\ ~DiscardBackup /\ ~SwapAside /\ ~SwapBack
      <4>1. /\ UNCHANGED <<dirs, version>> /\ server' # "back" /\ server' # "down"
            /\ server \notin {"down", "back"}
        BY <1>1, <1>11, <2>3, <3>8
DEF ThreadInv, Boot, Start, BootRestoresPause, Healthy, Unhealthy, CheckRaises,
    DiscardBackup, GatePasses, SwapAside, SwapBack, PinnedReinstall, RollBack,
    Relaunch, GateFails, BootUnchanged
      <4>2. QED
        BY <2>1, <3>1, <3>4, <4>1 DEF ServerTrees
    <3>9. QED
      BY <3>2, <3>5, <3>6, <3>7, <3>8
  <2>4. QED
    BY <1>2, <2>1, <2>3
<1>12. CASE server = "relaunch" /\ server' = "fail"
              /\ UNCHANGED <<method, version, dirs, helper, pc, spent>>
  <2>1. method = "native" => \A q \in Requests : StageTrees(q)'
    BY <1>2, <1>12 DEF StageTrees
  <2>2. method = "native" => ServerTrees'
    BY <1>2, <1>12 DEF ServerTrees
  <2>3. QED
    BY <1>2, <1>12, <2>1, <2>2
<1>13. CASE UNCHANGED <<method, pc, server, version, helper, dirs, spent>>
  BY <1>7, <1>13
<1>14. QED
  BY <1>6, <1>8, <1>9, <1>10, <1>11, <1>12, <1>13, Turns
DEF vars, Claim, ForceStart, Retrigger, JobEnds, JobStep, process

-----------------------------------------------------------------------------
(* The phase of the guard.                                                 *)

LEMMA PhaseStep == IInv /\ [Next]_vars => PhaseInv'
<1> SUFFICES ASSUME IInv, [Next]_vars PROVE PhaseInv'
  OBVIOUS
<1>1. TypeOK /\ ThreadInv /\ PhaseInv /\ method \in {"pipx", "native"}
  BY SelfUpdateAssumption DEF IInv, TypeOK
<1>2. \A q \in Requests : pc[q] # "idle" => server = "up" /\ version = "old"
  BY <1>1 DEF ThreadInv
<1>3. ASSUME ~raced, server \notin {"down", "up"}
      PROVE  \A q \in Requests : ~Past(q) /\ helper[q] = "none"
  <2>1. \A q \in Requests : pc[q] = "idle" /\ helper[q] # "waiting"
    BY <1>1, <1>2, <1>3 DEF ThreadInv
  <2>2. method = "native" => \A q \in Requests : helper[q] \notin {"free", "moved", "swapped"}
    BY <1>3 DEF IInv, TreeInv, StageTrees
  <2>3. QED
    BY <1>1, <2>1, <2>2, Tables DEF ThreadInv, Past
<1>4. CASE DeathSteps
  <2>1. /\ UNCHANGED <<guard, dirs, raced>> /\ server' \in {"down", "boot"}
        /\ \A q \in Requests : ~Past(q)' /\ (helper'[q] # "none" => helper[q] # "none")
    BY <1>1, <1>4, DiesShape DEF DeathSteps, Past
  <2>2. QED
    BY <1>1, <2>1 DEF PhaseInv
<1>5. ASSUME NEW r \in Requests, NEW f \in Flows, Apply(r, f) PROVE PhaseInv'
  <2>1. /\ UNCHANGED <<guard, dirs, raced, server, helper>>
        /\ \A q \in Requests : Past(q)' => Past(q)
    BY <1>1, <1>5, Tables DEF Apply, Goto, Past
  <2>2. QED
    BY <1>1, <2>1 DEF PhaseInv
<1>6. ASSUME NEW r \in Requests, Serve(r), ~Restart(r) PROVE PhaseInv'
  <2>1. /\ UNCHANGED server /\ server = "up" /\ version = "old"
        /\ \A q \in Requests \ {r} : pc'[q] = pc[q] /\ helper'[q] = helper[q]
        /\ UNCHANGED raced \/ TakeGuard(r)
        /\ helper'[r] = helper[r] \/ Spawn(r)
        /\ ~raced' => ~raced
    BY <1>6, ServeFrame
  <2>2. /\ guard'.previous \in {"none", "old"}
        /\ UNCHANGED guard \/ guard'.phase # "rolled_back"
    <3>1. \/ UNCHANGED guard \/ TakeGuard(r)
          \/ guard' = Cleared("idle")
          \/ \E p \in {"verifying", "applying", "awaiting_health"} : guard' = InPhase(p)
      BY <1>6
DEF Serve, ReadGuard, TakeGuard, StashPause, CancelRunning, Drained, DrainTimesOut,
    Requeue, Requeued, Fetched, PipxUpgrade, Clean, Extract, Spawn, AwaitHealth,
    Restart, ApplyFails, ClearGuard, RestorePause, process, queue, request
    <3>2. TakeGuard(r) => guard'.previous = "old" /\ guard'.phase # "rolled_back"
      BY <2>1 DEF TakeGuard
    <3>3. QED
      BY <1>1, <3>1, <3>2 DEF PhaseInv, TypeOK, Cleared, InPhase
  <2>3. ~Past(r) => /\ UNCHANGED <<dirs, helper>>
                    /\ guard'.phase # "rolled_back" \/ (UNCHANGED guard /\ ~Past(r)')
    BY <1>1, <1>6, <2>1, Tables
DEF Past, Goto, Draining, Applying, Failing, TypeOK, Serve, ReadGuard, TakeGuard,
    StashPause, CancelRunning, Drained, DrainTimesOut, Requeue, Requeued, Fetched,
    PipxUpgrade, Clean, Extract, Spawn, AwaitHealth, Restart, ApplyFails,
    ClearGuard, RestorePause, process, queue, request
  <2>4. QED
    <3>1. CASE guard'.phase # "rolled_back"
      BY <2>1, <2>2, <3>1 DEF PhaseInv
    <3>2. CASE UNCHANGED guard /\ Past(r)
      BY <1>1, <2>1, <2>2, <3>2 DEF PhaseInv, Past
    <3>3. CASE UNCHANGED guard /\ ~Past(r) /\ ~Past(r)'
      BY <1>1, <2>1, <2>2, <2>3, <3>3 DEF PhaseInv, Past
    <3>4. QED
      BY <2>2, <2>3, <3>1, <3>2, <3>3
<1>7. ASSUME NEW r \in Requests, Help(r) \/ HelperDies(r) PROVE PhaseInv'
  <2>1. /\ UNCHANGED <<guard, pc, raced>> /\ helper[r] # "none"
        /\ \A q \in Requests : helper'[q] # "none" => helper[q] # "none"
        /\ UNCHANGED server \/ server' = "boot"
    BY <1>1, <1>7, Tables
DEF HelperAt, Help, HelperGivesUp, MoveAside, MoveIn, HelperRestarts, HelperDies,
    HelperUnchanged, request
  <2>2. ~raced => guard.phase # "rolled_back" /\ server \in {"down", "up"}
    BY <1>1, <1>3, <2>1 DEF PhaseInv
  <2>3. QED
    BY <1>1, <2>1, <2>2 DEF PhaseInv, Past
<1>8. CASE Boot /\ server # "relaunch"
  <2>1. UNCHANGED <<pc, helper, raced>> /\ server # "up"
    BY <1>8
DEF request, Boot, Start, BootRestoresPause, Healthy, Unhealthy, CheckRaises,
    DiscardBackup, GatePasses, SwapAside, SwapBack, PinnedReinstall, RollBack,
    Relaunch, GateFails, BootUnchanged
  <2>2. ~raced /\ server # "down" => \A q \in Requests : ~Past(q)' /\ helper'[q] = "none"
    BY <1>3, <2>1 DEF Past
  <2>3. CASE RollBack
    <3>1. /\ guard'.phase = "rolled_back" /\ ~guard'.inProgress
          /\ guard'.previous = guard.previous
          /\ server = "rolled_back" /\ server' = "relaunch" /\ UNCHANGED dirs
      BY <1>1, <2>3 DEF RollBack, Cleared, TypeOK
    <3>2. QED
      BY <1>1, <2>1, <2>2, <3>1 DEF PhaseInv
  <2>4. CASE GatePasses \/ GateFails
    <3>1. /\ guard'.phase = "idle" /\ guard'.previous = guard.previous
          /\ server' = "up" /\ UNCHANGED dirs
      BY <1>1, <2>4 DEF GatePasses, GateFails, Cleared, TypeOK
    <3>2. QED
      BY <1>1, <2>1, <3>1 DEF PhaseInv
  <2>5. CASE PinnedReinstall \/ SwapBack
    <3>1. /\ UNCHANGED guard /\ server \in {"reinstall", "back"}
          /\ server' \in {"rolled_back", "fail"}
      BY <2>5 DEF PinnedReinstall, SwapBack
    <3>2. guard.phase = "awaiting_health"
      BY <1>1, <3>1 DEF PhaseInv
    <3>3. ~raced /\ server' = "rolled_back" => dirs'.live = "old"
      <4>1. CASE PinnedReinstall
        BY <1>1, <4>1 DEF PinnedReinstall, PhaseInv, TypeOK
      <4>2. CASE SwapBack
        <5>1. ~raced => dirs.backup = "old"
          BY <1>1, <4>2 DEF IInv, TreeInv, ThreadInv, ServerTrees, SwapBack
        <5>2. QED
          BY <1>1, <4>2, <5>1 DEF SwapBack, TypeOK
      <4>3. QED
        BY <2>5, <4>1, <4>2
    <3>4. QED
      BY <1>1, <2>1, <3>1, <3>2, <3>3 DEF PhaseInv
  <2>6. CASE DiscardBackup \/ SwapAside \/ Unhealthy \/ Healthy \/ CheckRaises
    <3>1. /\ UNCHANGED guard /\ guard.phase = "awaiting_health"
          /\ server' # "rolled_back"
      BY <1>1, <2>6
         DEF DiscardBackup, SwapAside, Unhealthy, Healthy, CheckRaises, PhaseInv,
             BootUnchanged
    <3>2. QED
      BY <1>1, <2>1, <3>1 DEF PhaseInv
  <2>7. CASE Start \/ BootRestoresPause
    <3>1. /\ UNCHANGED <<guard, dirs>> /\ server \in {"down", "boot"}
          /\ server' \in {"boot", "up"} \/ (server' = "gate" /\ guard.phase = "awaiting_health")
      BY <2>7 DEF Start, BootRestoresPause
    <3>2. QED
      BY <1>1, <2>1, <3>1 DEF PhaseInv, Past
  <2>8. QED
    BY <1>8, <2>3, <2>4, <2>5, <2>6, <2>7 DEF Boot, Relaunch
<1>9. CASE /\ UNCHANGED <<guard, dirs, pc, helper, raced>>
           /\ server' = server \/ server' = "fail"
  BY <1>1, <1>9 DEF PhaseInv, Past
<1>10. QED
  BY <1>4, <1>5, <1>6, <1>7, <1>8, <1>9, Turns
DEF vars, Claim, ForceStart, Retrigger, JobEnds, JobStep, process, request

-----------------------------------------------------------------------------
(* Who answers for the guard.                                              *)

\* A request that is to clear the guard or to hand it to the health gate.
Answers(r) == pc[r] \in Draining \cup Applying \cup {"clear"}

\* GuardOwned is inductive beside IInv.
GuardOwned ==
    ~raced =>
      /\ guard.inProgress =>
           \/ \E r \in Requests : Answers(r)
           \/ server # "up" /\ guard.phase = "awaiting_health"
           \/ spent.crashes > 0 /\ guard.phase # "awaiting_health"
      /\ \A r \in Requests : pc[r] = "restart" => guard.phase = "awaiting_health"

LEMMA GuardServe ==
    ASSUME IInv, GuardOwned, NEW r \in Requests, Serve(r), ~Restart(r)
    PROVE  GuardOwned'
<1>1. TypeOK /\ ThreadInv
  BY DEF IInv
<1>2. /\ UNCHANGED <<server, spent>> /\ server = "up"
      /\ \A q \in Requests \ {r} : pc'[q] = pc[q]
      /\ ~raced' => ~raced
  BY ServeFrame
<1>3. CASE TakeGuard(r)
  <2>1. pc'[r] \in {"stash", "fetch"}
    BY <1>1, <1>3, Tables DEF TakeGuard, Goto
  <2>2. ~raced' => \A q \in Requests \ {r} : pc'[q] # "restart"
    BY <1>2, <1>3 DEF TakeGuard, Overlaps
  <2>3. Answers(r)'
    BY <2>1 DEF Answers, Draining, Applying
  <2>4. QED
    BY <2>1, <2>2, <2>3 DEF GuardOwned
<1>4. CASE ReadGuard(r) \/ RestorePause(r)
  <2>1. ~Answers(r) /\ pc'[r] # "restart" /\ UNCHANGED <<guard, raced>>
    BY <1>1, <1>4, Tables
       DEF ReadGuard, RestorePause, Goto, Answers, Draining, Applying, request
  <2>2. QED
    BY <1>2, <2>1 DEF GuardOwned, Answers
<1>5. CASE ClearGuard(r)
  <2>1. ~guard'.inProgress /\ pc'[r] # "restart" /\ Past(r)
    BY <1>1, <1>5, Tables DEF ClearGuard, Cleared, Goto, TypeOK, Past
  <2>2. ~raced' => \A q \in Requests : pc'[q] # "restart"
    BY <1>1, <1>2, <2>1 DEF ThreadInv, Past
  <2>3. QED
    BY <2>1, <2>2 DEF GuardOwned
<1>6. CASE ~TakeGuard(r) /\ ~ReadGuard(r) /\ ~RestorePause(r) /\ ~ClearGuard(r)
  <2>1. Answers(r)' /\ UNCHANGED raced
    BY <1>1, <1>6, Tables
       DEF Answers, Draining, Applying, Goto, Serve, StashPause, CancelRunning,
           Drained, DrainTimesOut, Requeue, Requeued, Fetched, PipxUpgrade, Clean,
           Extract, Spawn, AwaitHealth, Restart, ApplyFails, request
  <2>2. Past(r)
    BY <1>6 DEF Past, Serve, StashPause, CancelRunning, Drained, DrainTimesOut,
                Requeue, Requeued, Fetched, PipxUpgrade, Clean, Extract, Spawn,
                AwaitHealth, Restart, ApplyFails
  <2>3. pc'[r] = "restart" => guard'.phase = "awaiting_health"
    BY <1>1, <1>6, Tables
       DEF Goto, TypeOK, InPhase, Serve, StashPause, CancelRunning, Drained,
           DrainTimesOut, Requeue, Requeued, Fetched, PipxUpgrade, Clean, Extract,
           Spawn, AwaitHealth, Restart, ApplyFails
  <2>4. ~raced => \A q \in Requests \ {r} : pc'[q] # "restart"
    BY <1>1, <1>2, <2>2 DEF ThreadInv, Past
  <2>5. QED
    BY <2>1, <2>3, <2>4 DEF GuardOwned
<1>7. QED
  BY <1>3, <1>4, <1>5, <1>6

LEMMA GuardStep == IInv /\ GuardOwned /\ [Next]_vars => GuardOwned'
<1> SUFFICES ASSUME IInv, GuardOwned, [Next]_vars PROVE GuardOwned'
  OBVIOUS
<1>1. TypeOK /\ ThreadInv /\ PhaseInv
  BY DEF IInv
<1>2. spent.crashes \in Nat
  BY <1>1, SelfUpdateAssumption DEF TypeOK
<1>3. \A q \in Requests : pc[q] # "idle" => server = "up"
  BY <1>1 DEF ThreadInv
<1>4. ASSUME NEW r \in Requests, Restart(r) PROVE GuardOwned'
  <2>1. /\ UNCHANGED <<guard, raced, spent>> /\ server' \in {"down", "boot"}
        /\ pc[r] = "restart" /\ \A q \in Requests : pc'[q] = "idle"
    BY <1>1, <1>4, DiesShape DEF Restart
  <2>2. QED
    BY <2>1 DEF GuardOwned
<1>5. CASE Crash
  <2>1. /\ UNCHANGED <<guard, raced>> /\ server' = "down"
        /\ \A q \in Requests : pc'[q] = "idle"
    BY <1>1, <1>5, DiesShape DEF Crash
  <2>2. spent'.crashes = spent.crashes + 1
    BY <1>1, <1>5 DEF Crash, TypeOK
  <2>3. spent'.crashes > 0
    BY <1>2, <2>2
  <2>4. QED
    BY <2>1, <2>3 DEF GuardOwned
<1>6. ASSUME NEW r \in Requests, NEW f \in Flows, Apply(r, f) PROVE GuardOwned'
  <2>1. /\ UNCHANGED <<guard, raced, server>> /\ server = "up"
        /\ spent'.crashes = spent.crashes
    BY <1>1, <1>6 DEF Apply, TypeOK
  <2>2. /\ ~Answers(r) /\ pc'[r] # "restart"
        /\ \A q \in Requests \ {r} : pc'[q] = pc[q]
    BY <1>1, <1>6, Tables DEF Apply, Goto, Answers, Draining, Applying
  <2>3. QED
    BY <2>1, <2>2 DEF GuardOwned, Answers
<1>7. ASSUME NEW r \in Requests, Serve(r), ~Restart(r) PROVE GuardOwned'
  BY <1>7, GuardServe
<1>8. ASSUME NEW r \in Requests, Help(r) \/ HelperDies(r) PROVE GuardOwned'
  <2>1. UNCHANGED <<guard, raced, pc>> /\ (UNCHANGED server \/ server' = "boot")
    BY <1>8
       DEF Help, HelperDies, HelperGivesUp, MoveAside, MoveIn, HelperRestarts,
           HelperUnchanged, request
  <2>2. \/ UNCHANGED spent
        \/ spent' = [spent EXCEPT !.crashes = @ + 1]
    BY <1>8
       DEF Help, HelperDies, HelperGivesUp, MoveAside, MoveIn, HelperRestarts,
           HelperUnchanged
  <2>3. spent.crashes > 0 => spent'.crashes > 0
    BY <1>1, <1>2, <2>2 DEF TypeOK
  <2>4. QED
    BY <2>1, <2>3 DEF GuardOwned, Answers
<1>9. CASE Boot
  <2>1. CASE GatePasses \/ RollBack \/ GateFails
    <3>1. ~guard'.inProgress /\ UNCHANGED pc /\ server # "up"
      BY <1>1, <2>1 DEF GatePasses, RollBack, GateFails, Cleared, TypeOK, BootUnchanged
    <3>2. QED
      BY <1>3, <3>1 DEF GuardOwned
  <2>2. CASE Relaunch
    <3>1. /\ UNCHANGED <<guard, raced, spent>> /\ server' # "up" /\ server # "up"
          /\ \A q \in Requests : pc'[q] = "idle" \/ pc'[q] = pc[q]
      BY <1>1, <2>2, DiesShape DEF Relaunch
    <3>2. QED
      BY <1>3, <3>1 DEF GuardOwned, Answers, Draining, Applying
  <2>3. CASE BootRestoresPause
    <3>1. /\ UNCHANGED <<guard, raced, spent, pc>> /\ server = "boot"
          /\ server' = IF guard.phase = "awaiting_health" THEN "gate" ELSE "up"
      BY <2>3 DEF BootRestoresPause, BootUnchanged, request
    <3>2. QED
      BY <1>3, <3>1 DEF GuardOwned, Answers
  <2>4. CASE \/ Start \/ Healthy \/ Unhealthy \/ CheckRaises
             \/ DiscardBackup \/ SwapAside \/ SwapBack \/ PinnedReinstall
    <3>1. /\ UNCHANGED <<guard, raced, spent, pc>> /\ server # "up" /\ server' # "up"
      BY <2>4
         DEF Start, Healthy, Unhealthy, CheckRaises, DiscardBackup, SwapAside,
             SwapBack, PinnedReinstall, BootUnchanged, request
    <3>2. QED
      BY <3>1 DEF GuardOwned, Answers
  <2>5. QED
    BY <1>9, <2>1, <2>2, <2>3, <2>4 DEF Boot
<1>10. CASE UNCHANGED <<guard, raced, server, spent, pc>>
  BY <1>10 DEF GuardOwned, Answers
<1>11. QED
  BY <1>4, <1>5, <1>6, <1>7, <1>8, <1>9, <1>10
     DEF Next, vars, Claim, ForceStart, Retrigger, JobEnds, JobStep, process, request

-----------------------------------------------------------------------------
(* The theorems.                                                           *)

LEMMA NextInv == IInv /\ [Next]_vars => IInv'
BY TypeStep, ThreadStep, PauseStep, DrainStep, TreeStep, PhaseStep DEF IInv

\* The inductive invariant: who holds the guard, the pause and the stash, what
\* the directories hold at each stage, and what the guard says of it
\* (routes.py, apply.py, native.py, health_gate.py and main.py of the server).
THEOREM Inductive == Spec => []IInv
BY InitInv, NextInv, PTL DEF Spec

\* Every variable keeps its type.
THEOREM TypeCorrect == Spec => []TypeOK
<1>1. IInv => TypeOK
  BY DEF IInv
<1>2. QED
  BY <1>1, Inductive, PTL

\* DrainHolds: from the drain to the restart only force-started jobs run, and
\* none of the killed jobs was triggered again too early to be queued (apply.py:
\* 455-460 and 515-593, queue.py's _claim_next): the pool is paused before the
\* drain and stays so until the request is over, whatever other requests do, and
\* no killed run outlives the drain.  A trigger that finds nothing it can queue
\* is beyond it.
THEOREM DrainIsKept == Spec => []DrainHolds
<1>1. IInv => DrainHolds
  BY DEF IInv, DrainInv, DrainHolds, Applying
<1>2. QED
  BY <1>1, Inductive, PTL

\* PauseSettled: once no request is past the guard, Auto-Processing is paused
\* exactly if the user paused it, through failures, crashes and reboots
\* (settings/service.py:402-462, apply.py:621-652, main.py:302).
THEOREM PauseIsTheUsers == Spec => []PauseSettled
<1>1. ASSUME IInv PROVE PauseSettled
  <2>1. Quiet => server = "up" /\ \A r \in Requests : ~Post(r)
    BY DEF Quiet, Post, Applying
  <2>2. QED
    BY <1>1, <2>1 DEF IInv, PauseInv, PauseSettled
<1>2. QED
  BY <1>1, Inductive, PTL

\* Recoverable: at every moment the install directory is complete, or the
\* retained backup is and one of the two renames is under way or was cut by a
\* death (native.py:46-70 and 426-433, health_gate.py:254-301).
THEOREM InstallIsRecoverable == Spec => []Recoverable
<1>1. ASSUME IInv PROVE Recoverable
  <2>1. method \in {"pipx", "native"}
    BY <1>1, SelfUpdateAssumption DEF IInv, TypeOK
  <2>2. QED
    BY <1>1, <2>1 DEF IInv, ThreadInv, TreeInv, ServerTrees, Recoverable
<1>2. QED
  BY <1>1, Inductive, PTL

\* RolledBackIsOld: when the status says "rolled_back", the installed version is
\* the one the failed update started from (health_gate.py:393-451).
THEOREM RolledBackIsTrue == Spec => []RolledBackIsOld
<1>1. IInv => RolledBackIsOld
  BY DEF IInv, PhaseInv, RolledBackIsOld
<1>2. QED
  BY <1>1, Inductive, PTL

\* GuardOwned: with one request at a time, the in-progress guard is never set
\* without somebody to clear it: a request on its way to the except clause or to
\* the restart, or the health gate of the next boot; unless a death cut the
\* update before it was handed to the gate (service.py:90-110, apply.py:45,
\* health_gate.py:54).  It is the safety half of GuardReleased.
THEOREM GuardIsAnswered == Spec => []GuardOwned
<1>1. Init => GuardOwned
  BY DEF Init, GuardOwned
<1>2. QED
  BY <1>1, InitInv, NextInv, GuardStep, PTL DEF Spec
=============================================================================
