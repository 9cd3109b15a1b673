---------------------------- MODULE WantedProofs ----------------------------
(***************************************************************************)
(* Proofs about Wanted, for any languages, allow list, files and workers: *)
(* what the program holds of a file stays true of it until the Arr server  *)
(* replaces it.  RowsSettle and WantedIsServed, which also need fairness,  *)
(* are left to TLC; this is the part of their argument that needs none.    *)
(***************************************************************************)
EXTENDS Wanted, TLAPS

-----------------------------------------------------------------------------
(* Types.                                                                  *)

LEMMA StatusType ==
  ASSUME NEW l, NEW streams, NEW langs
  PROVE  StatusOf(l, streams, langs) \in MediaTargetStatus
  BY DEF StatusOf, MediaTargetStatus

\* A bounded step counts itself and nothing else.
LEMMA CountType ==
  ASSUME TypeOK, NEW what \in {"upgrades", "manual", "failures", "toggles"},
         NEW max \in Nat, Counted(what, max)
  PROVE  count' \in [{"upgrades", "manual", "failures", "toggles"} -> Nat]
  BY DEF Counted, TypeOK

\* A trigger that begins or goes on is again in one of its places.
LEMMA ProbeType ==
  ASSUME TypeOK, NEW t \in Trigger, NEW langs \in SUBSET Lang, Probe(t, langs)
  PROVE  /\ call' = [call EXCEPT ![t] = [at |-> "probed", streams |-> file, langs |-> langs]]
         /\ call' \in [Trigger -> {Idle} \cup Call \cup ReadCall]
         /\ UNCHANGED <<file, row, tracked, job, ended, recent>>
<1>1. [at |-> "probed", streams |-> file, langs |-> langs] \in Call
  BY DEF Call, TypeOK
<1>2. QED
  BY <1>1 DEF Probe, TypeOK

\* What a trigger that has probed holds.
LEMMA CallFields ==
  ASSUME TypeOK, NEW t \in Trigger, call[t].at \in {"probed", "read", "tracked"}
  PROVE  /\ call[t].streams \in Content /\ call[t].langs \in SUBSET Lang
         /\ call[t].at = "read" => call[t] \in ReadCall
<1>1. call[t] \in {Idle} \cup Call \cup ReadCall
  BY DEF TypeOK
<1>2. call[t] # Idle
  BY DEF Idle
<1>3. QED
  BY <1>1, <1>2 DEF Call, ReadCall

\* What a job in a worker holds.
LEMMA JobFields ==
  ASSUME TypeOK, job.at = "running"
  PROVE  job.streams \in Content /\ job.langs \in SUBSET Lang /\ job.by \in Worker
<1>1. job \in {NoJob} \cup PendingJob \cup RunningJob
  BY DEF TypeOK
<1>2. job \in RunningJob
  BY <1>1 DEF NoJob, PendingJob
<1>3. QED
  BY <1>2 DEF RunningJob

LEMMA EndedFields ==
  ASSUME TypeOK, NEW w \in Worker, ended[w].at \in {"ended", "recorded"}
  PROVE  ended[w] \in EndedJob /\ ended[w].added \in SUBSET Lang
<1>1. ended[w] \in {NoJob, Dead} \cup EndedJob
  BY DEF TypeOK
<1>2. ended[w] # NoJob /\ ended[w] # Dead
  BY DEF NoJob, Dead
<1>3. QED
  BY <1>1, <1>2 DEF EndedJob

\* The steps of a trigger, once it has probed.
LEMMA ReadShape ==
  ASSUME TypeOK, NEW t \in Trigger, ReadRows(t)
  PROVE  /\ call' = [call EXCEPT ![t] = [at |-> "read", streams |-> call[t].streams,
                                         langs |-> call[t].langs, seen |-> row]]
         /\ call' \in [Trigger -> {Idle} \cup Call \cup ReadCall]
<1>1. call[t].streams \in Content /\ call[t].langs \in SUBSET Lang
  BY CallFields DEF ReadRows
<1>2. [at |-> "read", streams |-> call[t].streams, langs |-> call[t].langs, seen |-> row]
        \in ReadCall
  BY <1>1 DEF ReadCall, TypeOK
<1>3. QED
  BY <1>2 DEF ReadRows, TypeOK

\* What is written is what was there or what the probe says.
LEMMA WrittenShape ==
  ASSUME NEW c, NEW l \in Lang
  PROVE  \/ Written(c)[l] = row[l]
         \/ /\ c.streams[l] # "absent"
            /\ Written(c)[l] = StatusOf(l, c.streams, c.langs)
<1> DEFINE status == StatusOf(l, c.streams, c.langs)
<1>1. Written(c)[l] = IF c.streams[l] = "absent" \/ c.seen[l] = status THEN row[l] ELSE status
  BY DEF Written
<1> HIDE DEF status
<1>2. QED
  BY <1>1 DEF status

LEMMA UpsertShape ==
  ASSUME TypeOK, NEW t \in Trigger, UpsertTrackedMedia(t)
  PROVE  /\ call' = [call EXCEPT ![t] = [at |-> "tracked", streams |-> call[t].streams,
                                         langs |-> call[t].langs]]
         /\ call' \in [Trigger -> {Idle} \cup Call \cup ReadCall]
         /\ row' \in Rows
<1>1. call[t].streams \in Content /\ call[t].langs \in SUBSET Lang
  BY CallFields DEF UpsertTrackedMedia
<1>2. [at |-> "tracked", streams |-> call[t].streams, langs |-> call[t].langs] \in Call
  BY <1>1 DEF Call
<1>3. row' \in Rows
  <2>1. row' = Written(call[t])
    BY DEF UpsertTrackedMedia
  <2>2. \A l \in Lang : Written(call[t])[l] \in MediaTargetStatus \cup {"none"}
    BY WrittenShape, StatusType DEF TypeOK, Rows
  <2>3. Written(call[t]) = [l \in Lang |-> Written(call[t])[l]]
    BY DEF Written
  <2>4. QED
    BY <2>1, <2>2, <2>3 DEF Rows
<1>4. QED
  BY <1>2, <1>3 DEF UpsertTrackedMedia, TypeOK

LEMMA ErrorShape ==
  ASSUME TypeOK, NEW t \in Trigger, IntegrityError(t)
  PROVE  /\ call' = [call EXCEPT ![t] = Idle]
         /\ call' \in [Trigger -> {Idle} \cup Call \cup ReadCall]
         /\ UNCHANGED <<file, posted, row, tracked, job, ended, recent, count>>
  BY DEF IntegrityError, TypeOK

LEMMA EnqueueShape ==
  ASSUME TypeOK, NEW t \in Trigger, Enqueue(t)
  PROVE  /\ call' = [call EXCEPT ![t] = Idle]
         /\ call' \in [Trigger -> {Idle} \cup Call \cup ReadCall]
         /\ job' = job \/ job' \in PendingJob
         /\ UNCHANGED <<file, posted, row, tracked, ended, recent, count>>
<1>1. call[t].langs \in SUBSET Lang
  BY CallFields DEF Enqueue
<1>2. [at |-> "pending", langs |-> call[t].langs] \in PendingJob
  BY <1>1 DEF PendingJob
<1>3. QED
  BY <1>2 DEF Enqueue, TypeOK

\* A claim gives the job the file as it is.
LEMMA ClaimShape ==
  ASSUME TypeOK, NEW w \in Worker, Claim(w)
  PROVE  /\ job' \in RunningJob /\ job'.streams = file
         /\ ended' = [ended EXCEPT ![w] = [at |-> "running", added |-> {}]]
         /\ ended' \in [Worker -> {NoJob, Dead} \cup EndedJob]
         /\ UNCHANGED <<file, posted, row, tracked, call, recent, count>>
<1>1. job.langs \in SUBSET Lang
  <2>1. job \in PendingJob
    BY DEF Claim, TypeOK, RunningJob, NoJob
  <2>2. QED
    BY <2>1 DEF PendingJob
<1>2. [at |-> "running", added |-> {}] \in EndedJob
  BY DEF EndedJob
<1>3. job' \in RunningJob /\ job'.streams = file
  BY <1>1 DEF Claim, RunningJob, TypeOK
<1>4. ended' = [ended EXCEPT ![w] = [at |-> "running", added |-> {}]]
  BY DEF Claim
<1>5. QED
  BY <1>2, <1>3, <1>4 DEF Claim, TypeOK

\* What a successful job adds, it adds to the streams it probed.
LEMMA SucceedShape ==
  ASSUME TypeOK, Succeed
  PROVE  \E added \in SUBSET Lang :
           /\ job.at = "running" /\ job' = NoJob
           /\ \A l \in added : job.streams[l] = "missing"
           /\ file' = IF added = {} THEN file
                      ELSE [l \in Lang |-> IF l \in added THEN "done" ELSE job.streams[l]]
           /\ ended' = [ended EXCEPT ![job.by] = [at |-> "ended", added |-> added]]
           /\ UNCHANGED <<posted, row, tracked, call, recent, count>>
<1> DEFINE added == Missing(job.streams, job.langs)
<1>1. added \in SUBSET Lang /\ \A l \in added : job.streams[l] = "missing"
  BY DEF Missing, Qualifies
<1>2. QED
  BY <1>1 DEF Succeed

LEMMA TypeStep == TypeOK /\ [Next]_vars => TypeOK'
<1> SUFFICES ASSUME TypeOK, [Next]_vars PROVE TypeOK'
  OBVIOUS
<1>0. Allowed \subseteq Lang /\ Contents \subseteq Content
      /\ MaxUpgrades \in Nat /\ MaxManual \in Nat /\ MaxFailures \in Nat /\ MaxToggles \in Nat
  BY WantedAssumption
<1>1. ASSUME NEW c \in Contents, Upgrade(c) PROVE TypeOK'
  BY <1>0, <1>1, CountType DEF Upgrade, TypeOK
<1>2. CASE SetTracked
  BY <1>0, <1>2, CountType DEF SetTracked, TypeOK
<1>3. CASE WindowPasses
  BY <1>3 DEF WindowPasses, TypeOK
<1>4. CASE ScanProbe
  BY <1>0, <1>4, ProbeType DEF ScanProbe, Trigger, TypeOK
<1>5. CASE WebhookProbe
  BY <1>0, <1>5, ProbeType DEF WebhookProbe, Trigger, TypeOK
<1>6. ASSUME NEW extra \in SUBSET (Lang \ Allowed), ManualProbe(extra) PROVE TypeOK'
  <2>1. Allowed \cup extra \in SUBSET Lang
    BY <1>0
  <2>2. QED
    BY <1>0, <1>6, <2>1, ProbeType, CountType DEF ManualProbe, Trigger, TypeOK
<1>7. ASSUME NEW t \in Trigger, ReadRows(t) \/ UpsertTrackedMedia(t) PROVE TypeOK'
  <2>1. UNCHANGED <<file, posted, tracked, job, ended, recent, count>>
    BY <1>7 DEF ReadRows, UpsertTrackedMedia
  <2>2. call' \in [Trigger -> {Idle} \cup Call \cup ReadCall]
    BY <1>7, ReadShape, UpsertShape
  <2>3. row' \in Rows
    BY <1>7, UpsertShape DEF ReadRows, TypeOK
  <2>4. QED
    BY <2>1, <2>2, <2>3 DEF TypeOK
<1>8. ASSUME NEW t \in Trigger, IntegrityError(t) \/ Enqueue(t) PROVE TypeOK'
  BY <1>8, ErrorShape, EnqueueShape DEF TypeOK
<1>9. ASSUME NEW w \in Worker, Claim(w) PROVE TypeOK'
  BY <1>9, ClaimShape DEF TypeOK
<1>10. CASE Succeed
  <2>1. PICK added \in SUBSET Lang :
          /\ job' = NoJob
          /\ \A l \in added : job.streams[l] = "missing"
          /\ file' = IF added = {} THEN file
                     ELSE [l \in Lang |-> IF l \in added THEN "done" ELSE job.streams[l]]
          /\ ended' = [ended EXCEPT ![job.by] = [at |-> "ended", added |-> added]]
          /\ UNCHANGED <<posted, row, tracked, call, recent, count>>
    BY <1>10, SucceedShape
  <2>2. job.streams \in Content /\ job.by \in Worker
    BY <1>10, JobFields DEF Succeed
  <2>3. file' \in Content
    BY <2>1, <2>2 DEF Content, TypeOK
  <2>4. ended' \in [Worker -> {NoJob, Dead} \cup EndedJob]
    <3>1. [at |-> "ended", added |-> added] \in EndedJob
      BY DEF EndedJob
    <3>2. QED
      BY <2>1, <2>2, <3>1 DEF TypeOK
  <2>5. QED
    BY <2>1, <2>3, <2>4 DEF TypeOK
<1>11. CASE Fail
  <2>1. [at |-> "ended", added |-> {}] \in EndedJob
    BY DEF EndedJob
  <2>2. count' \in [{"upgrades", "manual", "failures", "toggles"} -> Nat]
    BY <1>0, <1>11, CountType DEF Fail
  <2>3. ended' \in [Worker -> {NoJob, Dead} \cup EndedJob]
    BY <1>11, <2>1, JobFields DEF Fail, TypeOK
  <2>4. QED
    BY <1>11, <2>2, <2>3 DEF Fail, TypeOK
<1>12. ASSUME NEW w \in Worker, RecordHistory(w) PROVE TypeOK'
  <2>1. ended[w].added \in SUBSET Lang
    BY <1>12, EndedFields DEF RecordHistory
  <2>2. [at |-> "recorded", added |-> ended[w].added] \in EndedJob
    BY <2>1 DEF EndedJob
  <2>3. QED
    BY <1>12, <2>2 DEF RecordHistory, TypeOK
<1>13. ASSUME NEW w \in Worker, NEW l \in Lang, RecordTargetProcessed(w, l) PROVE TypeOK'
  <2>1. ended[w].added \in SUBSET Lang
    BY <1>13, EndedFields DEF RecordTargetProcessed
  <2>2. [at |-> "recorded", added |-> ended[w].added \ {l}] \in EndedJob
    BY <2>1 DEF EndedJob
  <2>3. row' \in Rows
    BY <1>13 DEF RecordTargetProcessed, TypeOK, Rows, MediaTargetStatus
  <2>4. QED
    BY <1>13, <2>2, <2>3 DEF RecordTargetProcessed, TypeOK
<1>14. ASSUME NEW w \in Worker, Return(w) PROVE TypeOK'
  BY <1>14 DEF Return, TypeOK
<1>15. ASSUME NEW w \in Worker, RecorderRaises(w) PROVE TypeOK'
  BY <1>0, <1>15, CountType DEF RecorderRaises, TypeOK
<1>16. CASE UNCHANGED vars
  BY <1>16 DEF vars, TypeOK
<1>17. QED
  BY <1>1, <1>2, <1>3, <1>4, <1>5, <1>6, <1>7, <1>8, <1>9, <1>10, <1>11,
     <1>12, <1>13, <1>14, <1>15, <1>16
  DEF Next, Runs, Records

\* Type correctness of the file, its rows, the triggers' calls and the job.
THEOREM TypeCorrect == Spec => []TypeOK
<1>1. Init => TypeOK
  <2> SUFFICES ASSUME Init PROVE TypeOK
    OBVIOUS
  <2>1. count \in [{"upgrades", "manual", "failures", "toggles"} -> Nat]
    BY DEF Init
  <2>2. file \in Content /\ row \in Rows
    BY WantedAssumption DEF Init, Rows
  <2>3. /\ call \in [Trigger -> {Idle} \cup Call \cup ReadCall]
        /\ ended \in [Worker -> {NoJob, Dead} \cup EndedJob]
    BY DEF Init
  <2>4. QED
    BY <2>1, <2>2, <2>3 DEF Init, TypeOK
<1>2. QED
  BY <1>1, TypeStep, PTL DEF Spec

-----------------------------------------------------------------------------
(* What the program holds of the file, as long as no one replaces it.      *)

\* The file is as it was probed, but for tracks that a job has added since.
Behind(streams) ==
    \A l \in Lang : \/ file[l] = streams[l]
                    \/ streams[l] = "missing" /\ file[l] = "done"

\* The triggers have probed this file, the job runs on it as it is, what the job
\* is about to record it has made, and no row claims what the file has not.
Undisturbed ==
    /\ \A t \in Trigger :
         call[t].at \in {"probed", "read", "tracked"} => Behind(call[t].streams)
    /\ job.at = "running" => job.streams = file
    /\ \A w \in Worker :
         ended[w].at \in {"ended", "recorded"} => \A l \in ended[w].added : file[l] = "done"
    /\ \A l \in Lang : row[l] = "PROCESSED" => file[l] = "done"

\* The tracks of the file only become more.
Grows == Behind(file)'

LEMMA PlacesOf ==
  /\ NoJob.at = "none" /\ Idle.at = "idle" /\ Dead.at = "dead"
  /\ \A j \in PendingJob : j.at = "pending"
  BY DEF NoJob, Idle, Dead, PendingJob

\* A probe sees the file as it is.
LEMMA ProbeKeeps ==
  ASSUME TypeOK, Undisturbed, NEW t \in Trigger, NEW langs \in SUBSET Lang, Probe(t, langs)
  PROVE  Undisturbed' /\ UNCHANGED file
<1>1. /\ call' = [call EXCEPT ![t] = [at |-> "probed", streams |-> file, langs |-> langs]]
      /\ UNCHANGED <<file, row, job, ended>>
  BY ProbeType
<1>2. \A u \in Trigger : \/ call'[u] = call[u]
                         \/ call'[u].streams = file
  BY <1>1 DEF TypeOK
<1>3. \A u \in Trigger : (call[u].at \in {"probed", "read", "tracked"} => Behind(call[u].streams))'
  BY <1>1, <1>2 DEF Undisturbed, Behind
<1>4. QED
  BY <1>1, <1>3 DEF Undisturbed

\* What a trigger writes of the file it probed, the file still bears out.
LEMMA UpsertKeeps ==
  ASSUME TypeOK, Undisturbed, NEW t \in Trigger, UpsertTrackedMedia(t)
  PROVE  Undisturbed'
<1>1. UNCHANGED <<file, job, ended>> /\ call[t].at = "read"
  BY DEF UpsertTrackedMedia
<1>2. \A u \in Trigger :
        /\ call'[u].streams = call[u].streams
        /\ call'[u].at \in {"probed", "read", "tracked"} => call[u].at \in {"probed", "read", "tracked"}
  BY <1>1, UpsertShape DEF TypeOK
<1>3. \A u \in Trigger : (call[u].at \in {"probed", "read", "tracked"} => Behind(call[u].streams))'
  BY <1>1, <1>2 DEF Undisturbed, Behind
<1>4. ASSUME NEW l \in Lang, row'[l] = "PROCESSED" PROVE file[l] = "done"
  <2>0. row' = Written(call[t])
    BY DEF UpsertTrackedMedia
  <2>1. CASE row'[l] = row[l]
    BY <1>4, <2>1 DEF Undisturbed
  <2>2. CASE /\ call[t].streams[l] # "absent"
             /\ row'[l] = StatusOf(l, call[t].streams, call[t].langs)
    <3>1. call[t].streams[l] # "missing"
      BY <1>4, <2>2 DEF StatusOf, Qualifies
    <3>2. call[t].streams[l] \in {"absent", "missing", "done"}
      BY <1>1, CallFields DEF Content
    <3>3. Behind(call[t].streams)
      BY <1>1 DEF Undisturbed
    <3>4. QED
      BY <2>2, <3>1, <3>2, <3>3 DEF Behind
  <2>3. QED
    BY <2>0, <2>1, <2>2, WrittenShape
<1>5. QED
  BY <1>1, <1>3, <1>4 DEF Undisturbed

\* The job adds to the file it probed, which is still the file there is.
LEMMA SucceedKeeps ==
  ASSUME TypeOK, Undisturbed, Succeed
  PROVE  Undisturbed' /\ Grows
<1>1. PICK added \in SUBSET Lang :
        /\ job.at = "running" /\ job' = NoJob
        /\ \A l \in added : job.streams[l] = "missing"
        /\ file' = IF added = {} THEN file
                   ELSE [l \in Lang |-> IF l \in added THEN "done" ELSE job.streams[l]]
        /\ ended' = [ended EXCEPT ![job.by] = [at |-> "ended", added |-> added]]
        /\ UNCHANGED <<posted, row, tracked, call, recent, count>>
  BY SucceedShape
<1>2. job.streams = file
  BY <1>1 DEF Undisturbed
<1>3. \A l \in Lang : file'[l] = IF l \in added THEN "done" ELSE file[l]
  BY <1>1, <1>2
<1>4. Grows
  BY <1>1, <1>2, <1>3 DEF Grows, Behind
<1>5. \A t \in Trigger : (call[t].at \in {"probed", "read", "tracked"} => Behind(call[t].streams))'
  BY <1>1, <1>2, <1>3 DEF Undisturbed, Behind
<1>6. ASSUME NEW w \in Worker
      PROVE  (ended[w].at \in {"ended", "recorded"} => \A l \in ended[w].added : file[l] = "done")'
  <2>1. CASE w = job.by
    <3>1. ended'[w].added = added
      BY <1>1, <2>1 DEF TypeOK
    <3>2. QED
      BY <1>3, <3>1, SMT DEF TypeOK
  <2>2. CASE w # job.by
    <3>1. ended'[w] = ended[w]
      BY <1>1, <2>2 DEF TypeOK
    <3>2. ended[w].at \in {"ended", "recorded"}
            => \A l \in ended[w].added : l \in Lang /\ file[l] = "done"
      BY EndedFields DEF Undisturbed
    <3>3. QED
      BY <1>3, <3>1, <3>2
  <2>3. QED
    BY <2>1, <2>2
<1>7. (job.at = "running" => job.streams = file)'
  BY <1>1, PlacesOf
<1>8. \A l \in Lang : (row[l] = "PROCESSED" => file[l] = "done")'
  BY <1>1, <1>3 DEF Undisturbed
<1>9. QED
  BY <1>4, <1>5, <1>6, <1>7, <1>8 DEF Undisturbed

LEMMA UndisturbedStep ==
  ASSUME TypeOK, Undisturbed, [Next]_vars, ~\E c \in Contents : Upgrade(c)
  PROVE  Undisturbed' /\ Grows
<1>0. ASSUME UNCHANGED file PROVE Grows
  BY <1>0 DEF Grows, Behind
<1>1. CASE SetTracked
  BY <1>0, <1>1 DEF SetTracked, Undisturbed, Behind
<1>2. CASE WindowPasses
  BY <1>0, <1>2 DEF WindowPasses, Undisturbed, Behind
<1>3. CASE ScanProbe
  BY <1>0, <1>3, ProbeKeeps, WantedAssumption DEF ScanProbe, Trigger
<1>4. CASE WebhookProbe
  BY <1>0, <1>4, ProbeKeeps, WantedAssumption DEF WebhookProbe, Trigger
<1>5. ASSUME NEW extra \in SUBSET (Lang \ Allowed), ManualProbe(extra)
      PROVE  Undisturbed' /\ Grows
  BY <1>0, <1>5, ProbeKeeps, WantedAssumption DEF ManualProbe, Trigger
<1>6. ASSUME NEW t \in Trigger, ReadRows(t) PROVE Undisturbed' /\ Grows
  <2>1. UNCHANGED <<file, row, job, ended>> /\ call[t].at = "probed"
    BY <1>6 DEF ReadRows
  <2>2. \A u \in Trigger : \/ call'[u] = call[u]
                           \/ call[u].at = "probed" /\ call'[u].streams = call[u].streams
    BY <1>6, <2>1, ReadShape DEF TypeOK
  <2>3. QED
    BY <1>0, <2>1, <2>2 DEF Undisturbed, Behind
<1>7. ASSUME NEW t \in Trigger, UpsertTrackedMedia(t) PROVE Undisturbed' /\ Grows
  BY <1>0, <1>7, UpsertKeeps DEF UpsertTrackedMedia
<1>8. ASSUME NEW t \in Trigger, IntegrityError(t) \/ Enqueue(t) PROVE Undisturbed' /\ Grows
  <2>1. \A u \in Trigger : call'[u] = call[u] \/ call'[u].at = "idle"
    BY <1>8, ErrorShape, EnqueueShape, PlacesOf DEF TypeOK
  <2>2. UNCHANGED <<file, row, ended>> /\ (job' = job \/ job'.at = "pending")
    BY <1>8, ErrorShape, EnqueueShape, PlacesOf
  <2>3. QED
    BY <1>0, <2>1, <2>2 DEF Undisturbed, Behind
<1>9. ASSUME NEW w \in Worker, Claim(w) PROVE Undisturbed' /\ Grows
  <2>1. UNCHANGED <<file, row, call>> /\ job'.streams = file
    BY <1>9, ClaimShape
  <2>2. \A v \in Worker : ended'[v] = ended[v] \/ ended'[v].at = "running"
    BY <1>9, ClaimShape DEF TypeOK
  <2>3. QED
    BY <1>0, <2>1, <2>2 DEF Undisturbed, Behind
<1>10. CASE Succeed
  BY <1>10, SucceedKeeps
<1>11. CASE Fail
  <2>1. UNCHANGED <<file, row, call>> /\ job'.at = "none"
    BY <1>11, PlacesOf DEF Fail
  <2>2. \A v \in Worker : ended'[v] = ended[v] \/ ended'[v].added = {}
    BY <1>11, JobFields DEF Fail, TypeOK
  <2>3. QED
    BY <1>0, <2>1, <2>2 DEF Undisturbed, Behind
<1>12. ASSUME NEW w \in Worker, RecordHistory(w) PROVE Undisturbed' /\ Grows
  <2>1. UNCHANGED <<file, row, call, job>> /\ ended[w].at = "ended"
    BY <1>12 DEF RecordHistory
  <2>2. \A v \in Worker : \/ ended'[v] = ended[v]
                          \/ ended[v].at = "ended" /\ ended'[v].added = ended[v].added
    BY <1>12 DEF RecordHistory, TypeOK
  <2>3. QED
    BY <1>0, <2>1, <2>2 DEF Undisturbed, Behind
<1>13. ASSUME NEW w \in Worker, NEW l \in Lang, RecordTargetProcessed(w, l)
       PROVE  Undisturbed' /\ Grows
  <2>1. UNCHANGED <<file, call, job>> /\ ended[w].at = "recorded" /\ l \in ended[w].added
    BY <1>13 DEF RecordTargetProcessed
  <2>2. \A v \in Worker : \/ ended'[v] = ended[v]
                          \/ ended[v].at = "recorded" /\ ended'[v].added \subseteq ended[v].added
    BY <1>13 DEF RecordTargetProcessed, TypeOK
  <2>3. \A k \in Lang : row'[k] = "PROCESSED" => k = l \/ row[k] = "PROCESSED"
    BY <1>13 DEF RecordTargetProcessed, TypeOK, Rows
  <2>4. file[l] = "done"
    BY <2>1 DEF Undisturbed
  <2>5. QED
    BY <1>0, <2>1, <2>2, <2>3, <2>4 DEF Undisturbed, Behind
<1>14. ASSUME NEW w \in Worker, Return(w) \/ RecorderRaises(w) PROVE Undisturbed' /\ Grows
  <2>1. UNCHANGED <<file, row, call, job>>
    BY <1>14 DEF Return, RecorderRaises
  <2>2. \A v \in Worker : ended'[v] = ended[v] \/ ended'[v].at \in {"none", "dead"}
    BY <1>14, PlacesOf DEF Return, RecorderRaises, TypeOK
  <2>3. QED
    BY <1>0, <2>1, <2>2 DEF Undisturbed, Behind
<1>15. CASE UNCHANGED vars
  BY <1>0, <1>15 DEF vars, Undisturbed, Behind
<1>16. QED
  BY <1>1, <1>2, <1>3, <1>4, <1>5, <1>6, <1>7, <1>8, <1>9, <1>10, <1>11, <1>12,
     <1>13, <1>14, <1>15
  DEF Next, Runs, Records

\* From any moment at which what the program holds is true of the file, only an
\* upgrade by the Arr server makes it false: no stale probe, late record or run
\* writes a false PROCESSED row, and none takes a track from the file.
THEOREM OnlyUpgradesDisturb ==
  Spec => [][Undisturbed /\ ~(\E c \in Contents : Upgrade(c)) => Undisturbed' /\ Grows]_vars
<1>1. TypeOK /\ [Next]_vars =>
        [Undisturbed /\ ~(\E c \in Contents : Upgrade(c)) => Undisturbed' /\ Grows]_vars
  BY UndisturbedStep
<1>2. QED
  BY <1>1, TypeCorrect, PTL DEF Spec

=============================================================================
