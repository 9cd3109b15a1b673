----------------------------- MODULE SelfUpdate -----------------------------
(***************************************************************************)
(* The self-update of one installation: the persisted guard and phase of   *)
(* self_update/service.py, the apply endpoint with its in-flight-job flows *)
(* (routes.py, apply.py), the staged native install and its detached       *)
(* finish-update process (native.py), the one-shot Auto-Processing Pause   *)
(* (settings/service.py) and the health gate of the next boot              *)
(* (health_gate.py, main.py).  Requests run in threads of the server, so   *)
(* every database write and every file operation is a step of its own; the *)
(* server and the helper may die between any two.                          *)
(***************************************************************************)
EXTENDS Naturals, FiniteSets

CONSTANTS
    Requests,    \* the threads that serve POST /self-update/apply
    Jobs,        \* the jobs of the queue
    Methods,     \* the install methods to consider, of "pipx" and "native"
    MaxApplies,  \* bound on the requests accepted
    MaxCrashes   \* bound on the deaths of the server and of the helper

ASSUME SelfUpdateAssumption ==
    /\ Methods \subseteq {"pipx", "native"}
    /\ MaxApplies \in Nat /\ MaxCrashes \in Nat

Flows == {"none", "cancel_and_restart", "wait_and_restart"}

Phases == {"idle", "preparing", "downloading", "verifying", "applying",
           "awaiting_health", "rolled_back"}

\* What an install directory holds; "part" is an extraction that is not done.
Trees == {"absent", "part", "old", "new"}

\* A request that holds the guard, before and after its jobs are drained.
Draining == {"stash", "cancel", "drain", "requeue"}
Applying == {"fetch", "clean", "extract", "install", "spawn", "await", "restart"}
Failing  == {"clear", "restore"}

\* The boot of the server, up to the end of its health gate.
Booting == {"boot", "gate", "discard", "pass", "aside", "back", "reinstall",
            "rolled_back", "relaunch", "fail"}

VARIABLES
    method,   \* "pipx" or "native"
    manual,   \* history: Auto-Processing was paused by the user
    guard,    \* the row of self_update_state: inProgress, phase, previous
    pause,    \* auto_processing_paused and its restore value (or none)
    dirs,     \* the install directory and its siblings; pipx has only live
    server,   \* "down", a stage of the boot, or "up"
    version,  \* the version of the code the server runs
    pc,       \* what each request does next, or "idle"
    flow,     \* the flow each request asked for
    listed,   \* the running jobs a cancel_and_restart found and cancelled
    helper,   \* each request's finish-update process
    jobs,     \* the status of each job; "forced" is running, force-started,
              \* "ended" is done or failed, "cancelled" is killed, "skipped" is
              \* killed, and triggered again in vain
    killing,  \* the running jobs that have been hard-cancelled
    raced,    \* history: a request took the guard beside another one
    spent     \* what is used of each bound

vars == <<method, manual, guard, pause, dirs, server, version, pc, flow,
          listed, helper, jobs, killing, raced, spent>>

Running == {j \in Jobs : jobs[j] \in {"running", "forced"}}

TypeOK ==
    /\ method \in Methods /\ manual \in BOOLEAN
    /\ guard \in [inProgress : BOOLEAN, phase : Phases,
                  previous : {"none", "old", "new"}]
    /\ pause \in [paused : BOOLEAN, restore : {{}, {TRUE}, {FALSE}}]
    /\ dirs \in [live : Trees, staged : Trees, backup : Trees, quarantine : Trees]
    /\ server \in {"down", "up"} \cup Booting
    /\ version \in {"old", "new"}
    /\ pc \in [Requests -> {"idle", "read", "take"} \cup Draining \cup Applying
                             \cup Failing]
    /\ flow \in [Requests -> Flows]
    /\ listed \in [Requests -> SUBSET Jobs]
    /\ helper \in [Requests -> {"none", "waiting", "free", "moved", "swapped"}]
    /\ jobs \in [Jobs -> {"pending", "running", "forced", "cancelled",
                          "skipped", "ended"}]
    /\ killing \subseteq Running
    /\ raced \in BOOLEAN
    /\ spent \in [applies : 0..MaxApplies, crashes : 0..MaxCrashes]

Init ==
    /\ method \in Methods /\ manual \in BOOLEAN
    /\ guard = [inProgress |-> FALSE, phase |-> "idle", previous |-> "none"]
    /\ pause = [paused |-> manual, restore |-> {}]
    /\ dirs = [live |-> "old", staged |-> "absent", backup |-> "absent",
               quarantine |-> "absent"]
    /\ server = "up" /\ version = "old"
    /\ pc = [r \in Requests |-> "idle"]
    /\ flow = [r \in Requests |-> "none"]
    /\ listed = [r \in Requests |-> {}]
    /\ helper = [r \in Requests |-> "none"]
    /\ jobs = [j \in Jobs |-> "pending"]
    /\ killing = {} /\ raced = FALSE
    /\ spent = [applies |-> 0, crashes |-> 0]

-----------------------------------------------------------------------------
(* The parts of the state a step leaves alone.                             *)

process == <<method, manual, server, version, helper, spent>>
queue   == <<jobs, killing>>
request == <<flow, listed, raced>>

Goto(r, stage) == pc' = [pc EXCEPT ![r] = stage]

\* clear_self_update and set_self_update_phase.
Cleared(phase) == [guard EXCEPT !.inProgress = FALSE, !.phase = phase]
InPhase(phase) == [guard EXCEPT !.phase = phase]

\* restore_auto_processing_pause: a no-op when nothing is stashed.
Restored ==
    IF pause.restore = {} THEN pause
    ELSE [paused |-> CHOOSE stashed \in pause.restore : TRUE, restore |-> {}]

\* A process image is replaced or gone: its threads and its running jobs are
\* gone with it (restart rehydration fails the rows still RUNNING), and the
\* helpers that wait for its pid see it exit.
Dies ==
    /\ pc' = [r \in Requests |-> "idle"]
    /\ flow' = [r \in Requests |-> "none"]
    /\ listed' = [r \in Requests |-> {}]
    /\ jobs' = [j \in Jobs |-> IF j \in Running THEN "ended" ELSE jobs[j]]
    /\ killing' = {}
    /\ helper' = [r \in Requests |-> IF helper[r] = "waiting" THEN "free"
                                                              ELSE helper[r]]

-----------------------------------------------------------------------------
(* The apply endpoint.                                                     *)

\* A newer stable release is known; with no flow the number of running jobs
\* is read once, here; a native install takes no flow.
Apply(r, f) ==
    /\ server = "up" /\ pc[r] = "idle" /\ version = "old"
    /\ spent.applies < MaxApplies
    /\ f = "none" => Running = {}
    /\ f # "none" => method = "pipx"
    /\ Goto(r, "read")
    /\ flow' = [flow EXCEPT ![r] = f]
    /\ listed' = [listed EXCEPT ![r] = {}]
    /\ spent' = [spent EXCEPT !.applies = @ + 1]
    /\ UNCHANGED <<method, manual, guard, pause, dirs, server, version, helper,
                   queue, raced>>

\* begin_self_update reads the guard ...
ReadGuard(r) ==
    /\ pc[r] = "read"
    /\ Goto(r, IF guard.inProgress THEN "idle" ELSE "take")
    /\ UNCHANGED <<process, request, queue, guard, pause, dirs>>

\* Another request is past the guard.
Overlaps(r) == \E q \in Requests \ {r} : pc[q] \notin {"idle", "read", "take"}

\* ... and takes it, in a second statement.
TakeGuard(r) ==
    /\ pc[r] = "take"
    /\ guard' = [inProgress |-> TRUE, previous |-> version,
                 phase |-> IF flow[r] = "none" THEN "downloading" ELSE "preparing"]
    /\ Goto(r, IF flow[r] = "none" THEN "fetch" ELSE "stash")
    /\ raced' = (raced \/ Overlaps(r))
    /\ UNCHANGED <<process, flow, listed, queue, pause, dirs>>

-----------------------------------------------------------------------------
(* apply_with_flow: pause the pool, then cancel or wait for what it runs.  *)

ForgetfulStash(r) ==
    /\ pc[r] = "stash"
    /\ pause' = [paused |-> TRUE, restore |-> {FALSE}]
    /\ Goto(r, IF flow[r] = "cancel_and_restart" THEN "cancel" ELSE "drain")
    /\ UNCHANGED <<process, request, queue, guard, dirs>>

StashPause(r) ==
    /\ pc[r] = "stash"
    /\ pause' = [paused |-> TRUE, restore |-> {pause.paused}]
    /\ Goto(r, IF flow[r] = "cancel_and_restart" THEN "cancel" ELSE "drain")
    /\ UNCHANGED <<process, request, queue, guard, dirs>>

CancelRunning(r) ==
    /\ pc[r] = "cancel"
    /\ listed' = [listed EXCEPT ![r] = Running]
    /\ killing' = killing \cup Running
    /\ Goto(r, IF Running = {} THEN "requeue" ELSE "drain")
    /\ UNCHANGED <<process, flow, raced, jobs, guard, pause, dirs>>

DrainedEager(r) ==
    /\ pc[r] = "drain"
    /\ Running \subseteq killing
    /\ Goto(r, IF flow[r] = "cancel_and_restart" THEN "requeue" ELSE "fetch")
    /\ UNCHANGED <<process, request, queue, guard, pause, dirs>>

\* wait_no_running has seen the last running job end ...
Drained(r) ==
    /\ pc[r] = "drain"
    /\ Running = {}
    /\ Goto(r, IF flow[r] = "cancel_and_restart" THEN "requeue" ELSE "fetch")
    /\ UNCHANGED <<process, request, queue, guard, pause, dirs>>

\* ... or has given up.
DrainTimesOut(r) ==
    /\ pc[r] = "drain"
    /\ Running # {}
    /\ Goto(r, "clear")
    /\ UNCHANGED <<process, request, queue, guard, pause, dirs>>

\* trigger_file of one of the listed jobs, whose result nobody looks at.  The
\* file of a killed job is queued again; or nothing is, because the file cannot
\* be probed or has nothing left to do.  The trigger of a job that is pending or
\* that runs, its killed run included, is a duplicate and changes nothing.  (That
\* a downmix is queued, whatever was cancelled, is not told apart.)
Requeue(r) ==
    /\ pc[r] = "requeue"
    /\ \E j \in listed[r], outcome \in {"pending", "skipped"} :
          jobs[j] = "cancelled" /\ jobs' = [jobs EXCEPT ![j] = outcome]
    /\ UNCHANGED <<process, pc, request, killing, guard, pause, dirs>>

Requeued(r) ==
    /\ pc[r] = "requeue"
    /\ \A j \in listed[r] : jobs[j] # "cancelled"
    /\ Goto(r, "fetch")
    /\ UNCHANGED <<process, request, queue, guard, pause, dirs>>

-----------------------------------------------------------------------------
(* _run_guarded_apply and apply_native_update.                             *)

\* The release is downloaded and its checksum matches.
Fetched(r) ==
    /\ pc[r] = "fetch"
    /\ guard' = InPhase("verifying")
    /\ Goto(r, IF method = "native" THEN "clean" ELSE "install")
    /\ UNCHANGED <<process, request, queue, pause, dirs>>

\* pipx upgrade; its failure may leave the old or the new version installed.
PipxUpgrade(r) ==
    /\ pc[r] = "install"
    /\ guard' = InPhase("applying")
    /\ \/ dirs' = [dirs EXCEPT !.live = "new"] /\ Goto(r, "await")
       \/ \E t \in {"old", "new"} :
             dirs' = [dirs EXCEPT !.live = t] /\ Goto(r, "clear")
    /\ UNCHANGED <<process, request, queue, pause>>

\* Earlier staging and backup directories are removed, extraction begins ...
Clean(r) ==
    /\ pc[r] = "clean"
    /\ dirs' = [dirs EXCEPT !.staged = "part", !.backup = "absent"]
    /\ Goto(r, "extract")
    /\ UNCHANGED <<process, request, queue, guard, pause>>

\* ... and ends.  If a helper has moved the directory away it fails.
Extract(r) ==
    /\ pc[r] = "extract"
    /\ dirs.staged # "absent"
    /\ dirs' = [dirs EXCEPT !.staged =
                   IF \E q \in Requests \ {r} : pc[q] = "extract" THEN "part" ELSE "new"]
    /\ guard' = InPhase("applying")
    /\ Goto(r, "spawn")
    /\ UNCHANGED <<process, request, queue, pause>>

\* The finish-update process is started from the staged tree.
Spawn(r) ==
    /\ pc[r] = "spawn" /\ helper[r] = "none"
    /\ helper' = [helper EXCEPT ![r] = "waiting"]
    /\ Goto(r, "await")
    /\ UNCHANGED <<method, manual, server, version, spent, request, queue, guard,
                   pause, dirs>>

AwaitHealth(r) ==
    /\ pc[r] = "await"
    /\ guard' = InPhase("awaiting_health")
    /\ Goto(r, "restart")
    /\ UNCHANGED <<process, request, queue, pause, dirs>>

\* os.execv of the installed code, or os._exit for the helper to take over.
Restart(r) ==
    /\ pc[r] = "restart"
    /\ Dies
    /\ IF method = "native"
       THEN server' = "down" /\ UNCHANGED version
       ELSE server' = "boot" /\ version' = dirs.live
    /\ UNCHANGED <<method, manual, guard, pause, dirs, raced, spent>>

\* The failures on the way (download, extraction, trigger_file, Popen, execv)
\* all end in the same except clause.
ApplyFails(r) ==
    /\ \/ pc[r] \in {"requeue", "fetch", "extract", "spawn"}
       \/ pc[r] = "restart" /\ method = "pipx"
    /\ Goto(r, "clear")
    /\ UNCHANGED <<process, request, queue, guard, pause, dirs>>

ClearKeepsGuard(r) ==
    /\ pc[r] = "clear"
    /\ guard' = InPhase("idle")
    /\ Goto(r, IF flow[r] = "none" THEN "idle" ELSE "restore")
    /\ UNCHANGED <<process, request, queue, pause, dirs>>

ClearGuard(r) ==
    /\ pc[r] = "clear"
    /\ guard' = Cleared("idle")
    /\ Goto(r, IF flow[r] = "none" THEN "idle" ELSE "restore")
    /\ UNCHANGED <<process, request, queue, pause, dirs>>

RestorePause(r) ==
    /\ pc[r] = "restore"
    /\ pause' = Restored
    /\ Goto(r, "idle")
    /\ UNCHANGED <<process, request, queue, guard, dirs>>

-----------------------------------------------------------------------------
(* The finish-update process, started from the staged tree: finish_native_ *)
(* update and swap_install_dir.                                            *)

HelperUnchanged == UNCHANGED <<method, manual, spent, request, queue, guard, pause>>

HelperAt(r, stage) == helper' = [helper EXCEPT ![r] = stage]

\* wait_for_pid_exit times out: the install directory is left untouched.
HelperGivesUp(r) ==
    /\ helper[r] = "waiting"
    /\ HelperAt(r, "none")
    /\ HelperUnchanged /\ UNCHANGED <<server, version, pc, dirs>>

\* The old process is gone.  os.replace onto a directory that exists fails.
MoveAside(r) ==
    /\ helper[r] = "free"
    /\ IF dirs.live # "absent" /\ dirs.backup = "absent"
       THEN dirs' = [dirs EXCEPT !.backup = dirs.live, !.live = "absent"]
            /\ HelperAt(r, "moved")
       ELSE HelperAt(r, "none") /\ UNCHANGED dirs
    /\ HelperUnchanged /\ UNCHANGED <<server, version, pc>>

\* The second rename; when it fails the first one is undone.
MoveInNotUndone(r) ==
    /\ helper[r] = "moved"
    /\ \/ /\ dirs.staged # "absent" /\ dirs.live = "absent"
          /\ dirs' = [dirs EXCEPT !.live = dirs.staged, !.staged = "absent"]
          /\ HelperAt(r, "swapped")
       \/ HelperAt(r, "none") /\ UNCHANGED dirs
    /\ HelperUnchanged /\ UNCHANGED <<server, version, pc>>

MoveIn(r) ==
    /\ helper[r] = "moved"
    /\ \/ /\ dirs.staged # "absent" /\ dirs.live = "absent"
          /\ dirs' = [dirs EXCEPT !.live = dirs.staged, !.staged = "absent"]
          /\ HelperAt(r, "swapped")
       \/ /\ dirs.live = "absent" /\ dirs.backup # "absent"
          /\ dirs' = [dirs EXCEPT !.live = dirs.backup, !.backup = "absent"]
          /\ HelperAt(r, "none")
       \/ /\ dirs.live # "absent" \/ dirs.backup = "absent"
          /\ HelperAt(r, "none") /\ UNCHANGED dirs
    /\ HelperUnchanged /\ UNCHANGED <<server, version, pc>>

\* The helper becomes the server, from the directory it has put in place.  A
\* half-extracted tree does not start, and the port of a server that runs is
\* taken.
HelperRestarts(r) ==
    /\ helper[r] = "swapped"
    /\ HelperAt(r, "none")
    /\ IF server = "down" /\ dirs.live \in {"old", "new"}
       THEN server' = "boot" /\ version' = dirs.live
       ELSE UNCHANGED <<server, version>>
    /\ HelperUnchanged /\ UNCHANGED <<pc, dirs>>

HelperDies(r) ==
    /\ helper[r] # "none"
    /\ spent.crashes < MaxCrashes
    /\ HelperAt(r, "none")
    /\ spent' = [spent EXCEPT !.crashes = @ + 1]
    /\ UNCHANGED <<method, manual, request, queue, guard, pause, server, version,
                   pc, dirs>>

-----------------------------------------------------------------------------
(* The boot: the lifespan of main.py and resolve_awaiting_health.          *)

BootUnchanged == UNCHANGED <<method, manual, spent, pc, helper, request, queue>>

\* The operator, or what supervises the server, starts what is installed; not
\* while a helper is about to do it.
Start ==
    /\ server = "down" /\ dirs.live \in {"old", "new"}
    /\ \A r \in Requests : helper[r] = "none"
    /\ server' = "boot" /\ version' = dirs.live
    /\ BootUnchanged /\ UNCHANGED <<guard, pause, dirs>>

\* The pause is restored before the pool starts; the gate comes after it.
BootRestoresPause ==
    /\ server = "boot"
    /\ pause' = Restored
    /\ server' = IF guard.phase = "awaiting_health" THEN "gate" ELSE "up"
    /\ BootUnchanged /\ UNCHANGED <<guard, dirs, version>>

\* The health checks, which may also raise.
Healthy ==
    /\ server = "gate"
    /\ server' = IF method = "native" THEN "discard" ELSE "pass"
    /\ BootUnchanged /\ UNCHANGED <<guard, pause, dirs, version>>

Unhealthy ==
    /\ server = "gate"
    /\ server' = IF method = "native" THEN "aside" ELSE "reinstall"
    /\ BootUnchanged /\ UNCHANGED <<guard, pause, dirs, version>>

CheckRaises ==
    /\ server = "gate"
    /\ server' = "fail"
    /\ BootUnchanged /\ UNCHANGED <<guard, pause, dirs, version>>

\* The retained old install is no longer needed.
DiscardBackup ==
    /\ server = "discard"
    /\ dirs' = [dirs EXCEPT !.backup = "absent"]
    /\ server' = "pass"
    /\ BootUnchanged /\ UNCHANGED <<guard, pause, version>>

GatePasses ==
    /\ server = "pass"
    /\ guard' = Cleared("idle")
    /\ server' = "up"
    /\ BootUnchanged /\ UNCHANGED <<pause, dirs, version>>

\* _swap_back_native: the new install goes to quarantine ...
SwapAside ==
    /\ server = "aside"
    /\ IF dirs.backup # "absent" /\ dirs.live # "absent"
       THEN dirs' = [dirs EXCEPT !.quarantine = dirs.live, !.live = "absent"]
            /\ server' = "back"
       ELSE server' = "fail" /\ UNCHANGED dirs
    /\ BootUnchanged /\ UNCHANGED <<guard, pause, version>>

\* ... and the old one comes back, or the first rename is undone.
SwapBack ==
    /\ server = "back"
    /\ \/ /\ dirs.backup # "absent" /\ dirs.live = "absent"
          /\ dirs' = [dirs EXCEPT !.live = dirs.backup, !.backup = "absent",
                                  !.quarantine = "absent"]
          /\ server' = "rolled_back"
       \/ /\ dirs.live = "absent"
          /\ dirs' = [dirs EXCEPT !.live = dirs.quarantine, !.quarantine = "absent"]
          /\ server' = "fail"
    /\ BootUnchanged /\ UNCHANGED <<guard, pause, version>>

ReinstallUnchecked ==
    /\ server = "reinstall"
    /\ guard.previous # "none"
    /\ \E t \in {dirs.live, guard.previous} : dirs' = [dirs EXCEPT !.live = t]
    /\ server' = "rolled_back"
    /\ BootUnchanged /\ UNCHANGED <<guard, pause, version>>

\* pip install of the version the request recorded.
PinnedReinstall ==
    /\ server = "reinstall"
    /\ \/ /\ guard.previous # "none"
          /\ dirs' = [dirs EXCEPT !.live = guard.previous]
          /\ server' = "rolled_back"
       \/ /\ server' = "fail"
          /\ \E t \in {dirs.live, guard.previous} \ {"none"} :
                dirs' = [dirs EXCEPT !.live = t]
    /\ BootUnchanged /\ UNCHANGED <<guard, pause, version>>

RollBack ==
    /\ server = "rolled_back"
    /\ guard' = Cleared("rolled_back")
    /\ server' = "relaunch"
    /\ BootUnchanged /\ UNCHANGED <<pause, dirs, version>>

\* The rolled-back install is executed, the jobs the pool had claimed die with
\* the process; or execv fails.
Relaunch ==
    /\ server = "relaunch"
    /\ \/ /\ dirs.live \in {"old", "new"}
          /\ Dies /\ server' = "boot" /\ version' = dirs.live
       \/ server' = "fail"
          /\ UNCHANGED <<version, pc, flow, listed, queue, helper>>
    /\ UNCHANGED <<method, manual, spent, raced, guard, pause, dirs>>

\* A roll-back that fails leaves the server running what it runs.
GateFails ==
    /\ server = "fail"
    /\ guard' = Cleared("idle")
    /\ server' = "up"
    /\ BootUnchanged /\ UNCHANGED <<pause, dirs, version>>

-----------------------------------------------------------------------------
(* The job queue: the pool claims unless paused, from the boot on.         *)

PoolRuns == server \notin {"down", "boot"}

JobStep == UNCHANGED <<process, pc, request, guard, pause, dirs>>

Claim(j) ==
    /\ PoolRuns /\ ~pause.paused /\ jobs[j] = "pending"
    /\ jobs' = [jobs EXCEPT ![j] = "running"]
    /\ JobStep /\ UNCHANGED killing

\* A force-start ignores the pause.
ForceStart(j) ==
    /\ server = "up" /\ jobs[j] = "pending"
    /\ jobs' = [jobs EXCEPT ![j] = "forced"]
    /\ JobStep /\ UNCHANGED killing

\* A scan, a webhook or the user triggers a file whose job is over.
Retrigger(j) ==
    /\ server = "up" /\ jobs[j] \in {"cancelled", "skipped", "ended"}
    /\ jobs' = [jobs EXCEPT ![j] = "pending"]
    /\ JobStep /\ UNCHANGED killing

\* A hard-cancelled job may still come to its own end.
JobEnds(j) ==
    /\ j \in Running
    /\ \/ jobs' = [jobs EXCEPT ![j] = "ended"]
       \/ j \in killing /\ jobs' = [jobs EXCEPT ![j] = "cancelled"]
    /\ killing' = killing \ {j}
    /\ JobStep

Crash ==
    /\ server # "down" /\ spent.crashes < MaxCrashes
    /\ Dies
    /\ server' = "down"
    /\ spent' = [spent EXCEPT !.crashes = @ + 1]
    /\ UNCHANGED <<method, manual, version, raced, guard, pause, dirs>>

-----------------------------------------------------------------------------
\* A request, a helper and the boot go on until they end.
Serve(r) ==
    \/ ReadGuard(r) \/ TakeGuard(r) \/ StashPause(r) \/ CancelRunning(r)
    \/ Drained(r) \/ DrainTimesOut(r) \/ Requeue(r) \/ Requeued(r)
    \/ Fetched(r) \/ PipxUpgrade(r) \/ Clean(r) \/ Extract(r) \/ Spawn(r)
    \/ AwaitHealth(r) \/ Restart(r) \/ ApplyFails(r) \/ ClearGuard(r)
    \/ RestorePause(r)

Help(r) ==
    HelperGivesUp(r) \/ MoveAside(r) \/ MoveIn(r) \/ HelperRestarts(r)

Boot ==
    \/ Start \/ BootRestoresPause \/ Healthy \/ Unhealthy \/ CheckRaises
    \/ DiscardBackup \/ GatePasses \/ SwapAside \/ SwapBack \/ PinnedReinstall
    \/ RollBack \/ Relaunch \/ GateFails

Next ==
    \/ \E r \in Requests, f \in Flows : Apply(r, f)
    \/ \E r \in Requests : Serve(r) \/ Help(r) \/ HelperDies(r)
    \/ Boot \/ Crash
    \/ \E j \in Jobs : Claim(j) \/ ForceStart(j) \/ Retrigger(j) \/ JobEnds(j)

Spec == Init /\ [][Next]_vars

FairSpec ==
    /\ Spec
    /\ \A r \in Requests : WF_vars(Serve(r)) /\ WF_vars(Help(r))
    /\ WF_vars(Boot)

-----------------------------------------------------------------------------
(* Properties.                                                             *)

\* From the drain to the restart no job runs that was not force-started: the
\* pause taken before the drain keeps the pool from claiming another.  And no
\* job that the flow killed was triggered again while its own run was still
\* dying, where the trigger is dropped as a duplicate and the job stays
\* "cancelled" (apply.py:455-460 and 515-593, queue.py's _claim_next and
\* wait_no_running).  What the trigger then does is not promised: a file that
\* cannot be probed just then is skipped without a word, where CONTEXT.md:113
\* says requeued.  Another request of the flow may have killed the job again.
DrainHolds ==
    \A r \in Requests :
        pc[r] \in Applying /\ flow[r] # "none" =>
            /\ \A j \in Jobs : jobs[j] # "running"
            /\ flow[r] = "cancel_and_restart" /\ ~raced =>
                  \A j \in listed[r] : jobs[j] # "cancelled"

\* The installation directory holds a complete tree, except between the two
\* renames of a swap or a swap-back, or after a death there; and then the
\* retained backup is the complete old install (native.py:46-70 and 426-433,
\* health_gate.py:254-301).
Recoverable ==
    \/ dirs.live \in {"old", "new"}
    \/ /\ dirs.live = "absent" /\ dirs.backup = "old"
       /\ \/ \E r \in Requests : helper[r] = "moved"
          \/ server = "back"
          \/ spent.crashes > 0
    \/ raced

\* The status "rolled_back" is the truth: what is installed is the version the
\* failed update started from, through crashes and repeated boots
\* (health_gate.py:393-451).
RolledBackIsOld ==
    guard.phase = "rolled_back" /\ ~raced =>
        ~guard.inProgress /\ dirs.live = "old"

Quiet == server = "up" /\ \A r \in Requests : pc[r] \in {"idle", "read", "take"}

\* Once no request is past the guard, Auto-Processing is paused exactly if the
\* user paused it, whatever failed or died meanwhile
\* (settings/service.py:402-462, apply.py:621-652, main.py:302).
PauseSettled ==
    Quiet /\ ~raced => pause = [paused |-> manual, restore |-> {}]

\* No failure leaves the guard stuck, and neither does a death once the new
\* version has been handed to the health gate; but a swap cut in two needs
\* the operator, and two requests may trip over each other
\* (apply.py:45, health_gate.py:54).
GuardReleased ==
    guard.inProgress /\ (spent.crashes = 0 \/ guard.phase = "awaiting_health")
        ~> \/ ~guard.inProgress
           \/ raced
           \/ dirs.live = "absent"
           \/ spent.crashes > 0 /\ guard.phase # "awaiting_health"
=============================================================================
