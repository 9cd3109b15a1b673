--------------------------- MODULE JobQueueProofs ---------------------------
(***************************************************************************)
(* Proofs about JobQueue, for any set of jobs, any pool size and any       *)
(* bounds. IInv is the inductive invariant; its parts follow the threads,  *)
(* the shutdown, the pause, the history table and the priorities.          *)
(***************************************************************************)
EXTENDS JobQueue, FiniteSetTheorems, TLAPS

-----------------------------------------------------------------------------
(* The inductive invariant.                                                *)

\* A job that runs has left PENDING; a busy pool thread and the job it runs
\* determine each other.
ThreadInv ==
    /\ \A j \in Job : stage[j] # "idle" => status[j] \notin {"none", "pending"}
    /\ \A j \in Job : stage[j] # "idle" /\ runner[j] \in Worker
                        => worker[runner[j]] = "busy"
    /\ \A w \in Worker : worker[w] = "busy"
                        => \E j \in Job : stage[j] # "idle" /\ runner[j] = w
    /\ \A i, j \in Job : /\ stage[i] # "idle" /\ stage[j] # "idle"
                         /\ runner[i] = runner[j] /\ runner[i] \in Worker
                         => i = j

\* Once the flag is set nobody is about to claim, and every forced thread still
\* at work is on the list to join.
ShutdownInv ==
    /\ shutdown # "up" =>
         /\ LockFree
         /\ \A j \in Job : stage[j] # "idle" /\ runner[j] = Forced => j \in joinSet
    /\ shutdown = "returned" =>
         /\ \A w \in Worker : worker[w] \in {"exited", "dead"}
         /\ Running = {}

PauseInv == quiesced => paused /\ QuiescedPoolIsIdle

\* What the calls that enqueue and cancel know of the job and its row.
CallerInv ==
    \A j \in Job :
      /\ enqueuer[j] = "new" =>
           /\ status[j] = "none" /\ row[j].status = "none"
           /\ runs[j] = 0 /\ canceller[j] = "no"
      /\ enqueuer[j] \in {"inserted", "recording"} /\ row[j].status # "none" =>
           status[j] \notin {"none", "pending"}
      /\ enqueuer[j] = "recording" =>
           /\ snapshot[j].loaded = "none" \/ snapshot[j].status # "pending"
           /\ snapshot[j].status # "pending" => status[j] \notin {"none", "pending"}
      /\ canceller[j] # "no" => status[j] = "none" /\ stage[j] = "idle"

\* A pipeline that was started has left a row that can never again be taken
\* for a pending one.
RunInv ==
    \A j \in Job :
      /\ runs[j] # 0 =>
           /\ runs[j] = 1
           /\ row[j].status \notin {"none", "pending"}
           /\ status[j] # "pending" /\ canceller[j] = "no"
           /\ stage[j] \notin {"claimed", "recording"}
      /\ stage[j] \in {"pipeline", "ended", "closing", "effects"} => runs[j] # 0
      /\ stage[j] = "recording" /\ loaded[j] \notin {"none", "pending"} =>
           row[j].status \notin {"none", "pending"}
      /\ stage[j] \in {"claimed", "recording"} => status[j] = "running"

PriorityInv ==
    /\ NewJobsLast
    /\ \A j \in Job :
         /\ enqueuer[j] \in {"inserted", "recording"} => priority[j] < nextPriority
         /\ enqueuer[j] = "recording" => snapshot[j].priority < nextPriority

IInv == /\ TypeOK /\ ThreadInv /\ ActiveCount /\ ShutdownInv /\ PauseInv
        /\ CallerInv /\ RunInv /\ NoOrphanedRow /\ PriorityInv

-----------------------------------------------------------------------------
(* Types.                                                                  *)

\* What record_job_history writes is a row.
LEMMA WrittenType ==
  ASSUME NEW j \in Job, NEW found, NEW st \in JobStatus \cup {"none"},
         NEW pr \in Int, row \in [Job -> Row]
  PROVE  Written(j, found, st, pr) \in Row
  BY DEF Written, Row

\* Every step keeps the types.
LEMMA TypeStep == TypeOK /\ [Next]_vars => TypeOK'
<1> SUFFICES ASSUME TypeOK, [Next]_vars PROVE TypeOK'
  OBVIOUS
<1> USE DEF TypeOK, memory, threads, callers, control, bounds,
           Row, NoRow, Snapshot, NoSnapshot, Notified, WorkerState, Stage
<1>1. ASSUME NEW j \in Job, Enqueue(j) PROVE TypeOK'
  BY <1>1 DEF Enqueue, JobStatus
<1>2. ASSUME NEW j \in Job, EnqueueLookup(j) PROVE TypeOK'
  BY <1>2 DEF EnqueueLookup, JobStatus
<1>3. ASSUME NEW j \in Job, EnqueueRecord(j) PROVE TypeOK'
  <2>1. snapshot[j].status \in JobStatus /\ snapshot[j].priority \in Int
    OBVIOUS
  <2>2. row' \in [Job -> Row]
    <3>1. CASE ~Conflict(j, snapshot[j].loaded) /\ row' =
                 [row EXCEPT ![j] = Written(j, snapshot[j].loaded,
                                            snapshot[j].status, snapshot[j].priority)]
      BY <3>1, <2>1, WrittenType
    <3>2. CASE row' = row
      BY <3>2
    <3>3. QED BY <1>3, <3>1, <3>2 DEF EnqueueRecord
  <2>3. faults' \in 0..MaxFaults
    BY <1>3, BoundAssumption DEF EnqueueRecord
  <2>4. snapshot' \in [Job -> Snapshot]
    BY <1>3 DEF EnqueueRecord, JobStatus
  <2>5. QED BY <1>3, <2>2, <2>3, <2>4 DEF EnqueueRecord
<1>4. ASSUME NEW j \in Job, Cancel(j) PROVE TypeOK'
  BY <1>4 DEF Cancel, JobStatus
<1>5. ASSUME NEW j \in Job, DeleteHistory(j) PROVE TypeOK'
  <2>1. row' \in [Job -> Row]
    BY <1>5 DEF DeleteHistory
  <2>2. faults' \in 0..MaxFaults
    BY <1>5, BoundAssumption DEF DeleteHistory
  <2>3. canceller' \in [Job -> {"no", "removed", "done", "failed"}]
    BY <1>5 DEF DeleteHistory
  <2>4. QED BY <1>5, <2>1, <2>2, <2>3 DEF DeleteHistory
<1>6. ASSUME NEW j \in Job, BumpToFront(j) PROVE TypeOK'
  BY <1>6 DEF BumpToFront, Lowest, Pending
<1>7. ASSUME NEW j \in Job, ForceStart(j) PROVE TypeOK'
  BY <1>7 DEF ForceStart, JobStatus
<1>8. ASSUME NEW j \in Job, RunnerLookup(j) PROVE TypeOK'
  BY <1>8 DEF RunnerLookup
<1>9. ASSUME NEW j \in Job, RunnerRecord(j) PROVE TypeOK'
  <2>1. row' \in [Job -> Row]
    <3>1. status[j] \in JobStatus \cup {"none"} /\ priority[j] \in Int
      OBVIOUS
    <3>2. Written(j, loaded[j], status[j], priority[j]) \in Row
      BY <3>1, WrittenType
    <3>3. QED BY <1>9, <3>2 DEF RunnerRecord
  <2>2. runs' \in [Job -> Nat]
    <3>1. runs' = runs \/ runs' = [runs EXCEPT ![j] = runs[j] + 1]
      BY <1>9 DEF RunnerRecord
    <3>2. QED BY <3>1
  <2>3. stage' \in [Job -> Stage]
    BY <1>9 DEF RunnerRecord
  <2>4. QED BY <1>9, <2>1, <2>2, <2>3 DEF RunnerRecord
<1>10. ASSUME NEW j \in Job, RunnerRecordFails(j) PROVE TypeOK'
  BY <1>10, BoundAssumption DEF RunnerRecordFails
<1>11. ASSUME NEW j \in Job, FinishJob(j) PROVE TypeOK'
  BY <1>11 DEF FinishJob, JobStatus
<1>12. ASSUME NEW j \in Job, TrackedMediaFails(j) PROVE TypeOK'
  BY <1>12, BoundAssumption DEF TrackedMediaFails
<1>13. ASSUME NEW j \in Job, Release(j) PROVE TypeOK'
  BY <1>13 DEF Release, AfterRun
<1>14. ASSUME NEW w \in Worker, CheckPause(w) PROVE TypeOK'
  BY <1>14 DEF CheckPause
<1>15. ASSUME NEW w \in Worker, CheckPauseFails(w) PROVE TypeOK'
  BY <1>15, BoundAssumption DEF CheckPauseFails
<1>16. ASSUME NEW w \in Worker, Claim(w) PROVE TypeOK'
  <2>1. CASE worker' = [worker EXCEPT ![w] = "waiting"]
               /\ UNCHANGED <<status, active, runner, stage>>
    BY <1>16, <2>1 DEF Claim
  <2>2. ASSUME NEW j \in Lowest(Pending),
               status' = [status EXCEPT ![j] = "running"], active' = active + 1,
               runner' = [runner EXCEPT ![j] = w],
               stage' = [stage EXCEPT ![j] = "claimed"],
               worker' = [worker EXCEPT ![w] = "busy"]
        PROVE  TypeOK'
    BY <1>16, <2>2 DEF Claim, Lowest, Pending, JobStatus
  <2>3. QED BY <1>16, <2>1, <2>2 DEF Claim
<1>17. ASSUME NEW w \in Worker, PollTimeout(w) PROVE TypeOK'
  BY <1>17 DEF PollTimeout
<1>18. ASSUME NEW w \in Worker, ExitLoop(w) PROVE TypeOK'
  BY <1>18 DEF ExitLoop
<1>19. ASSUME NEW b \in BOOLEAN, SetPaused(b) PROVE TypeOK'
  BY <1>19 DEF SetPaused
<1>20. CASE WaitNoRunning
  BY <1>20 DEF WaitNoRunning
<1>21. CASE Shutdown
  BY <1>21 DEF Shutdown, Running
<1>22. CASE ShutdownReturns
  BY <1>22 DEF ShutdownReturns
<1>23. CASE Restart
  <2>1. /\ row' \in [Job -> Row]
        /\ status' \in [Job -> JobStatus \cup {"none"}]
    BY <1>23 DEF Restart, RehydratedRows, Rebuildable, JobStatus
  <2>2. priority' \in [Job -> Int] /\ nextPriority' \in Int
    BY <1>23 DEF Restart, Seeds, Recorded
  <2>3. restarts' \in 0..MaxRestarts /\ faults' \in 0..MaxFaults
    BY <1>23, BoundAssumption DEF Restart
  <2>4. snapshot' \in [Job -> Snapshot]
    BY <1>23 DEF Restart, JobStatus
  <2>5. /\ enqueuer' \in [Job -> {"new", "inserted", "recording", "returned"}]
        /\ canceller' \in [Job -> {"no", "removed", "done", "failed"}]
    BY <1>23 DEF Restart
  <2>6. /\ worker' \in [Worker -> WorkerState] /\ stage' \in [Job -> Stage]
        /\ runner' \in [Job -> Worker \cup {Forced}]
        /\ loaded' \in [Job -> JobStatus \cup {"none"}]
    BY <1>23 DEF Restart
  <2>7. /\ active' \in Int /\ runs' \in [Job -> Nat]
    BY <1>23 DEF Restart
  <2>8. paused' \in BOOLEAN /\ quiesced' \in BOOLEAN
    BY <1>23 DEF Restart
  <2>9. shutdown' \in {"up", "joining", "returned"} /\ joinSet' \in SUBSET Job
    BY <1>23 DEF Restart
  <2>10. QED BY <2>1, <2>2, <2>3, <2>4, <2>5, <2>6, <2>7, <2>8, <2>9
<1>24. CASE UNCHANGED vars
  BY <1>24 DEF vars
<1>25. QED
  BY <1>1, <1>2, <1>3, <1>4, <1>5, <1>6, <1>7, <1>8, <1>9, <1>10, <1>11,
     <1>12, <1>13, <1>14, <1>15, <1>16, <1>17, <1>18, <1>19, <1>20, <1>21,
     <1>22, <1>23, <1>24
  DEF Next, Request, CallerStep, RunStep, PoolStep

-----------------------------------------------------------------------------
(* Threads, shutdown, callers, history rows, priorities.                  *)

\* Claim and force_start only take a job nobody runs, and a thread that
\* has none; the end of a run frees both.
LEMMA ThreadStep ==
  TypeOK /\ ThreadInv /\ CallerInv /\ [Next]_vars => ThreadInv'
<1> SUFFICES ASSUME TypeOK /\ ThreadInv /\ CallerInv, [Next]_vars
             PROVE  ThreadInv'
  OBVIOUS
<1> USE DEF TypeOK, ThreadInv, memory, threads, callers, control, bounds,
           Notified
<1>1. ASSUME NEW j \in Job, Enqueue(j) PROVE ThreadInv'
  BY <1>1 DEF Enqueue, CallerInv
<1>2. ASSUME NEW j \in Job, EnqueueLookup(j) PROVE ThreadInv'
  BY <1>2 DEF EnqueueLookup
<1>3. ASSUME NEW j \in Job, EnqueueRecord(j) PROVE ThreadInv'
  BY <1>3 DEF EnqueueRecord
<1>4. ASSUME NEW j \in Job, Cancel(j) PROVE ThreadInv'
  BY <1>4 DEF Cancel
<1>5. ASSUME NEW j \in Job, DeleteHistory(j) PROVE ThreadInv'
  BY <1>5 DEF DeleteHistory
<1>6. ASSUME NEW j \in Job, BumpToFront(j) PROVE ThreadInv'
  BY <1>6 DEF BumpToFront, Lowest, Pending
<1>7. ASSUME NEW j \in Job, ForceStart(j) PROVE ThreadInv'
  BY <1>7, WorkerAssumption DEF ForceStart
<1>8. ASSUME NEW j \in Job, RunnerLookup(j) PROVE ThreadInv'
  BY <1>8 DEF RunnerLookup
<1>9. ASSUME NEW j \in Job, RunnerRecord(j) PROVE ThreadInv'
  BY <1>9 DEF RunnerRecord
<1>10. ASSUME NEW j \in Job, RunnerRecordFails(j) PROVE ThreadInv'
  BY <1>10 DEF RunnerRecordFails
<1>11. ASSUME NEW j \in Job, FinishJob(j) PROVE ThreadInv'
  BY <1>11 DEF FinishJob
<1>12. ASSUME NEW j \in Job, TrackedMediaFails(j) PROVE ThreadInv'
  BY <1>12 DEF TrackedMediaFails
<1>13. ASSUME NEW j \in Job, Release(j) PROVE ThreadInv'
  BY <1>13 DEF Release, AfterRun
<1>14. ASSUME NEW w \in Worker, CheckPause(w) PROVE ThreadInv'
  BY <1>14 DEF CheckPause
<1>15. ASSUME NEW w \in Worker, CheckPauseFails(w) PROVE ThreadInv'
  BY <1>15 DEF CheckPauseFails
<1>16. ASSUME NEW w \in Worker, Claim(w) PROVE ThreadInv'
  BY <1>16 DEF Claim, Lowest, Pending
<1>17. ASSUME NEW w \in Worker, PollTimeout(w) PROVE ThreadInv'
  BY <1>17 DEF PollTimeout
<1>18. ASSUME NEW w \in Worker, ExitLoop(w) PROVE ThreadInv'
  BY <1>18 DEF ExitLoop
<1>19. ASSUME NEW b \in BOOLEAN, SetPaused(b) PROVE ThreadInv'
  BY <1>19 DEF SetPaused
<1>20. CASE WaitNoRunning
  BY <1>20 DEF WaitNoRunning
<1>21. CASE Shutdown
  BY <1>21 DEF Shutdown
<1>22. CASE ShutdownReturns
  BY <1>22 DEF ShutdownReturns
<1>23. CASE Restart
  BY <1>23 DEF Restart
<1>24. CASE UNCHANGED vars
  BY <1>24 DEF vars
<1>25. QED
  BY <1>1, <1>2, <1>3, <1>4, <1>5, <1>6, <1>7, <1>8, <1>9, <1>10, <1>11,
     <1>12, <1>13, <1>14, <1>15, <1>16, <1>17, <1>18, <1>19, <1>20, <1>21,
     <1>22, <1>23, <1>24
  DEF Next, Request, CallerStep, RunStep, PoolStep

\* After the flag is set force_start and the pool claim nothing more, so the
\* list of forced threads that shutdown() took stays complete.
LEMMA ShutdownStep ==
  TypeOK /\ ThreadInv /\ ShutdownInv /\ [Next]_vars => ShutdownInv'
<1> SUFFICES ASSUME TypeOK /\ ThreadInv /\ ShutdownInv, [Next]_vars
             PROVE  ShutdownInv'
  OBVIOUS
<1> USE DEF TypeOK, ShutdownInv, LockFree, Running,
           memory, threads, callers, control, bounds, Notified
<1>1. ASSUME NEW j \in Job, Enqueue(j) PROVE ShutdownInv'
  BY <1>1 DEF Enqueue
<1>2. ASSUME NEW j \in Job, EnqueueLookup(j) PROVE ShutdownInv'
  BY <1>2 DEF EnqueueLookup
<1>3. ASSUME NEW j \in Job, EnqueueRecord(j) PROVE ShutdownInv'
  BY <1>3 DEF EnqueueRecord
<1>4. ASSUME NEW j \in Job, Cancel(j) PROVE ShutdownInv'
  BY <1>4 DEF Cancel
<1>5. ASSUME NEW j \in Job, DeleteHistory(j) PROVE ShutdownInv'
  BY <1>5 DEF DeleteHistory
<1>6. ASSUME NEW j \in Job, BumpToFront(j) PROVE ShutdownInv'
  BY <1>6 DEF BumpToFront, Lowest, Pending
<1>7. ASSUME NEW j \in Job, ForceStart(j) PROVE ShutdownInv'
  BY <1>7 DEF ForceStart
<1>8. ASSUME NEW j \in Job, RunnerLookup(j) PROVE ShutdownInv'
  BY <1>8 DEF RunnerLookup
<1>9. ASSUME NEW j \in Job, RunnerRecord(j) PROVE ShutdownInv'
  BY <1>9 DEF RunnerRecord
<1>10. ASSUME NEW j \in Job, RunnerRecordFails(j) PROVE ShutdownInv'
  BY <1>10 DEF RunnerRecordFails
<1>11. ASSUME NEW j \in Job, FinishJob(j) PROVE ShutdownInv'
  BY <1>11 DEF FinishJob
<1>12. ASSUME NEW j \in Job, TrackedMediaFails(j) PROVE ShutdownInv'
  BY <1>12 DEF TrackedMediaFails
<1>13. ASSUME NEW j \in Job, Release(j) PROVE ShutdownInv'
  BY <1>13 DEF Release, AfterRun, ThreadInv
<1>14. ASSUME NEW w \in Worker, CheckPause(w) PROVE ShutdownInv'
  BY <1>14 DEF CheckPause
<1>15. ASSUME NEW w \in Worker, CheckPauseFails(w) PROVE ShutdownInv'
  BY <1>15 DEF CheckPauseFails
<1>16. ASSUME NEW w \in Worker, Claim(w) PROVE ShutdownInv'
  BY <1>16 DEF Claim, Lowest, Pending
<1>17. ASSUME NEW w \in Worker, PollTimeout(w) PROVE ShutdownInv'
  BY <1>17 DEF PollTimeout
<1>18. ASSUME NEW w \in Worker, ExitLoop(w) PROVE ShutdownInv'
  BY <1>18 DEF ExitLoop
<1>19. ASSUME NEW b \in BOOLEAN, SetPaused(b) PROVE ShutdownInv'
  BY <1>19 DEF SetPaused
<1>20. CASE WaitNoRunning
  BY <1>20 DEF WaitNoRunning
<1>21. CASE Shutdown
  BY <1>21 DEF Shutdown
<1>22. CASE ShutdownReturns
  BY <1>22 DEF ShutdownReturns, ThreadInv
<1>23. CASE Restart
  BY <1>23 DEF Restart
<1>24. CASE UNCHANGED vars
  BY <1>24 DEF vars
<1>25. QED
  BY <1>1, <1>2, <1>3, <1>4, <1>5, <1>6, <1>7, <1>8, <1>9, <1>10, <1>11,
     <1>12, <1>13, <1>14, <1>15, <1>16, <1>17, <1>18, <1>19, <1>20, <1>21,
     <1>22, <1>23, <1>24
  DEF Next, Request, CallerStep, RunStep, PoolStep

\* The call that enqueued a job still records it as PENDING only where no
\* claim has left a row; a cancelled job is out of _jobs for good.
LEMMA CallerInvStep ==
  TypeOK /\ ThreadInv /\ CallerInv /\ [Next]_vars => CallerInv'
<1> SUFFICES ASSUME TypeOK /\ ThreadInv /\ CallerInv, [Next]_vars
             PROVE  CallerInv'
  OBVIOUS
<1> USE DEF TypeOK, CallerInv, ThreadInv, memory, threads, callers, control,
           bounds, Notified
<1>1. ASSUME NEW j \in Job, Enqueue(j) PROVE CallerInv'
  BY <1>1 DEF Enqueue
<1>2. ASSUME NEW j \in Job, EnqueueLookup(j) PROVE CallerInv'
  BY <1>2 DEF EnqueueLookup
<1>3. ASSUME NEW j \in Job, EnqueueRecord(j) PROVE CallerInv'
  BY <1>3 DEF EnqueueRecord, Written, Conflict, NoSnapshot
<1>4. ASSUME NEW j \in Job, Cancel(j) PROVE CallerInv'
  BY <1>4 DEF Cancel
<1>5. ASSUME NEW j \in Job, DeleteHistory(j) PROVE CallerInv'
  BY <1>5 DEF DeleteHistory, NoRow
<1>6. ASSUME NEW j \in Job, BumpToFront(j) PROVE CallerInv'
  BY <1>6 DEF BumpToFront, Lowest, Pending
<1>7. ASSUME NEW j \in Job, ForceStart(j) PROVE CallerInv'
  BY <1>7 DEF ForceStart
<1>8. ASSUME NEW j \in Job, RunnerLookup(j) PROVE CallerInv'
  BY <1>8 DEF RunnerLookup
<1>9. ASSUME NEW j \in Job, RunnerRecord(j) PROVE CallerInv'
  BY <1>9 DEF RunnerRecord, Written, Conflict
<1>10. ASSUME NEW j \in Job, RunnerRecordFails(j) PROVE CallerInv'
  BY <1>10 DEF RunnerRecordFails
<1>11. ASSUME NEW j \in Job, FinishJob(j) PROVE CallerInv'
  BY <1>11 DEF FinishJob
<1>12. ASSUME NEW j \in Job, TrackedMediaFails(j) PROVE CallerInv'
  BY <1>12 DEF TrackedMediaFails
<1>13. ASSUME NEW j \in Job, Release(j) PROVE CallerInv'
  BY <1>13 DEF Release, AfterRun, ThreadInv
<1>14. ASSUME NEW w \in Worker, CheckPause(w) PROVE CallerInv'
  BY <1>14 DEF CheckPause
<1>15. ASSUME NEW w \in Worker, CheckPauseFails(w) PROVE CallerInv'
  BY <1>15 DEF CheckPauseFails
<1>16. ASSUME NEW w \in Worker, Claim(w) PROVE CallerInv'
  BY <1>16 DEF Claim, Lowest, Pending
<1>17. ASSUME NEW w \in Worker, PollTimeout(w) PROVE CallerInv'
  BY <1>17 DEF PollTimeout
<1>18. ASSUME NEW w \in Worker, ExitLoop(w) PROVE CallerInv'
  BY <1>18 DEF ExitLoop
<1>19. ASSUME NEW b \in BOOLEAN, SetPaused(b) PROVE CallerInv'
  BY <1>19 DEF SetPaused
<1>20. CASE WaitNoRunning
  BY <1>20 DEF WaitNoRunning
<1>21. CASE Shutdown
  BY <1>21 DEF Shutdown
<1>22. CASE ShutdownReturns
  BY <1>22 DEF ShutdownReturns
<1>23. CASE Restart
  BY <1>23 DEF Restart, RehydratedRows, Rebuildable, Recorded, NoSnapshot
<1>24. CASE UNCHANGED vars
  BY <1>24 DEF vars
<1>25. QED
  BY <1>1, <1>2, <1>3, <1>4, <1>5, <1>6, <1>7, <1>8, <1>9, <1>10, <1>11,
     <1>12, <1>13, <1>14, <1>15, <1>16, <1>17, <1>18, <1>19, <1>20, <1>21,
     <1>22, <1>23, <1>24
  DEF Next, Request, CallerStep, RunStep, PoolStep

\* RUNNING is committed before a pipeline starts and PENDING is never
\* written over it, so neither a claim nor a restart runs the job again.
LEMMA RunInvStep ==
  TypeOK /\ ThreadInv /\ CallerInv /\ RunInv /\ [Next]_vars => RunInv'
<1> SUFFICES ASSUME TypeOK /\ ThreadInv /\ CallerInv /\ RunInv, [Next]_vars
             PROVE  RunInv'
  OBVIOUS
<1> USE DEF TypeOK, RunInv, ThreadInv, CallerInv, memory, threads, callers,
           control, bounds, Notified
<1>1. ASSUME NEW j \in Job, Enqueue(j) PROVE RunInv'
  BY <1>1 DEF Enqueue
<1>2. ASSUME NEW j \in Job, EnqueueLookup(j) PROVE RunInv'
  BY <1>2 DEF EnqueueLookup
<1>3. ASSUME NEW j \in Job, EnqueueRecord(j) PROVE RunInv'
  <2>1. row' = row \/ /\ ~Conflict(j, snapshot[j].loaded)
                      /\ row' = [row EXCEPT ![j] =
                                    Written(j, snapshot[j].loaded, snapshot[j].status,
                                            snapshot[j].priority)]
    BY <1>3 DEF EnqueueRecord
  <2>2. row[j].status \notin {"none", "pending"}
          => row'[j].status \notin {"none", "pending"}
    <3>1. snapshot[j].status # "none"
      BY DEF Snapshot, JobStatus
    <3>2. QED BY <1>3, <2>1, <3>1 DEF EnqueueRecord, Written, Conflict
  <2>3. \A i \in Job : i # j => row'[i] = row[i]
    BY <2>1
  <2>4. QED BY <1>3, <2>2, <2>3 DEF EnqueueRecord
<1>4. ASSUME NEW j \in Job, Cancel(j) PROVE RunInv'
  BY <1>4 DEF Cancel
<1>5. ASSUME NEW j \in Job, DeleteHistory(j) PROVE RunInv'
  BY <1>5 DEF DeleteHistory, NoRow
<1>6. ASSUME NEW j \in Job, BumpToFront(j) PROVE RunInv'
  BY <1>6 DEF BumpToFront, Lowest, Pending
<1>7. ASSUME NEW j \in Job, ForceStart(j) PROVE RunInv'
  BY <1>7 DEF ForceStart
<1>8. ASSUME NEW j \in Job, RunnerLookup(j) PROVE RunInv'
  BY <1>8 DEF RunnerLookup
<1>9. ASSUME NEW j \in Job, RunnerRecord(j) PROVE RunInv'
  BY <1>9 DEF RunnerRecord, Written, Conflict
<1>10. ASSUME NEW j \in Job, RunnerRecordFails(j) PROVE RunInv'
  BY <1>10 DEF RunnerRecordFails
<1>11. ASSUME NEW j \in Job, FinishJob(j) PROVE RunInv'
  BY <1>11 DEF FinishJob
<1>12. ASSUME NEW j \in Job, TrackedMediaFails(j) PROVE RunInv'
  BY <1>12 DEF TrackedMediaFails
<1>13. ASSUME NEW j \in Job, Release(j) PROVE RunInv'
  BY <1>13 DEF Release, AfterRun
<1>14. ASSUME NEW w \in Worker, CheckPause(w) PROVE RunInv'
  BY <1>14 DEF CheckPause
<1>15. ASSUME NEW w \in Worker, CheckPauseFails(w) PROVE RunInv'
  BY <1>15 DEF CheckPauseFails
<1>16. ASSUME NEW w \in Worker, Claim(w) PROVE RunInv'
  BY <1>16 DEF Claim, Lowest, Pending
<1>17. ASSUME NEW w \in Worker, PollTimeout(w) PROVE RunInv'
  BY <1>17 DEF PollTimeout
<1>18. ASSUME NEW w \in Worker, ExitLoop(w) PROVE RunInv'
  BY <1>18 DEF ExitLoop
<1>19. ASSUME NEW b \in BOOLEAN, SetPaused(b) PROVE RunInv'
  BY <1>19 DEF SetPaused
<1>20. CASE WaitNoRunning
  BY <1>20 DEF WaitNoRunning
<1>21. CASE Shutdown
  BY <1>21 DEF Shutdown
<1>22. CASE ShutdownReturns
  BY <1>22 DEF ShutdownReturns
<1>23. CASE Restart
  BY <1>23 DEF Restart, RehydratedRows, Rebuildable, Recorded, NoSnapshot
<1>24. CASE UNCHANGED vars
  BY <1>24 DEF vars
<1>25. QED
  BY <1>1, <1>2, <1>3, <1>4, <1>5, <1>6, <1>7, <1>8, <1>9, <1>10, <1>11,
     <1>12, <1>13, <1>14, <1>15, <1>16, <1>17, <1>18, <1>19, <1>20, <1>21,
     <1>22, <1>23, <1>24
  DEF Next, Request, CallerStep, RunStep, PoolStep

\* The row follows the job: RUNNING is written by the job's own thread, and
\* start-up flips it to FAILED.
LEMMA OrphanStep ==
  TypeOK /\ ThreadInv /\ CallerInv /\ NoOrphanedRow /\ [Next]_vars => NoOrphanedRow'
<1> SUFFICES ASSUME TypeOK /\ ThreadInv /\ CallerInv /\ NoOrphanedRow, [Next]_vars
             PROVE  NoOrphanedRow'
  OBVIOUS
<1> USE DEF TypeOK, NoOrphanedRow, ThreadInv, CallerInv, memory, threads,
           callers, control, bounds, Notified
<1>1. ASSUME NEW j \in Job, Enqueue(j) PROVE NoOrphanedRow'
  BY <1>1 DEF Enqueue
<1>2. ASSUME NEW j \in Job, EnqueueLookup(j) PROVE NoOrphanedRow'
  BY <1>2 DEF EnqueueLookup
<1>3. ASSUME NEW j \in Job, EnqueueRecord(j) PROVE NoOrphanedRow'
  BY <1>3 DEF EnqueueRecord, Written, Conflict, NoSnapshot
<1>4. ASSUME NEW j \in Job, Cancel(j) PROVE NoOrphanedRow'
  BY <1>4 DEF Cancel
<1>5. ASSUME NEW j \in Job, DeleteHistory(j) PROVE NoOrphanedRow'
  BY <1>5 DEF DeleteHistory, NoRow
<1>6. ASSUME NEW j \in Job, BumpToFront(j) PROVE NoOrphanedRow'
  BY <1>6 DEF BumpToFront, Lowest, Pending
<1>7. ASSUME NEW j \in Job, ForceStart(j) PROVE NoOrphanedRow'
  BY <1>7 DEF ForceStart
<1>8. ASSUME NEW j \in Job, RunnerLookup(j) PROVE NoOrphanedRow'
  BY <1>8 DEF RunnerLookup
<1>9. ASSUME NEW j \in Job, RunnerRecord(j) PROVE NoOrphanedRow'
  BY <1>9 DEF RunnerRecord, Written, Conflict
<1>10. ASSUME NEW j \in Job, RunnerRecordFails(j) PROVE NoOrphanedRow'
  BY <1>10 DEF RunnerRecordFails
<1>11. ASSUME NEW j \in Job, FinishJob(j) PROVE NoOrphanedRow'
  BY <1>11 DEF FinishJob
<1>12. ASSUME NEW j \in Job, TrackedMediaFails(j) PROVE NoOrphanedRow'
  BY <1>12 DEF TrackedMediaFails
<1>13. ASSUME NEW j \in Job, Release(j) PROVE NoOrphanedRow'
  BY <1>13 DEF Release, AfterRun
<1>14. ASSUME NEW w \in Worker, CheckPause(w) PROVE NoOrphanedRow'
  BY <1>14 DEF CheckPause
<1>15. ASSUME NEW w \in Worker, CheckPauseFails(w) PROVE NoOrphanedRow'
  BY <1>15 DEF CheckPauseFails
<1>16. ASSUME NEW w \in Worker, Claim(w) PROVE NoOrphanedRow'
  BY <1>16 DEF Claim, Lowest, Pending
<1>17. ASSUME NEW w \in Worker, PollTimeout(w) PROVE NoOrphanedRow'
  BY <1>17 DEF PollTimeout
<1>18. ASSUME NEW w \in Worker, ExitLoop(w) PROVE NoOrphanedRow'
  BY <1>18 DEF ExitLoop
<1>19. ASSUME NEW b \in BOOLEAN, SetPaused(b) PROVE NoOrphanedRow'
  BY <1>19 DEF SetPaused
<1>20. CASE WaitNoRunning
  BY <1>20 DEF WaitNoRunning
<1>21. CASE Shutdown
  BY <1>21 DEF Shutdown
<1>22. CASE ShutdownReturns
  BY <1>22 DEF ShutdownReturns
<1>23. CASE Restart
  BY <1>23 DEF Restart, RehydratedRows, Rebuildable, Recorded, NoSnapshot
<1>24. CASE UNCHANGED vars
  BY <1>24 DEF vars
<1>25. QED
  BY <1>1, <1>2, <1>3, <1>4, <1>5, <1>6, <1>7, <1>8, <1>9, <1>10, <1>11,
     <1>12, <1>13, <1>14, <1>15, <1>16, <1>17, <1>18, <1>19, <1>20, <1>21,
     <1>22, <1>23, <1>24
  DEF Next, Request, CallerStep, RunStep, PoolStep

\* Every priority that is in memory, in a row or on its way to one stays
\* below _next_priority.
LEMMA PriorityStep ==
  TypeOK /\ ThreadInv /\ PriorityInv /\ [Next]_vars => PriorityInv'
<1> SUFFICES ASSUME TypeOK /\ ThreadInv /\ PriorityInv, [Next]_vars
             PROVE  PriorityInv'
  OBVIOUS
<1> USE DEF TypeOK, PriorityInv, NewJobsLast, ThreadInv, Row, Snapshot,
           memory, threads, callers, control, bounds, Notified
<1>1. ASSUME NEW j \in Job, Enqueue(j) PROVE PriorityInv'
  BY <1>1 DEF Enqueue
<1>2. ASSUME NEW j \in Job, EnqueueLookup(j) PROVE PriorityInv'
  BY <1>2 DEF EnqueueLookup
<1>3. ASSUME NEW j \in Job, EnqueueRecord(j) PROVE PriorityInv'
  <2>1. \A i \in Job : row'[i] = row[i]
          \/ (i = j /\ row'[i].priority = snapshot[j].priority)
    BY <1>3 DEF EnqueueRecord, Written
  <2>2. \A i \in Job : row'[i].status # "none" => row'[i].priority < nextPriority
    <3>1. row'[j].status # "none" => row'[j].priority < nextPriority
      BY <1>3, <2>1 DEF EnqueueRecord, Written, Conflict
    <3>2. QED BY <2>1, <3>1
  <2>3. QED BY <1>3, <2>2 DEF EnqueueRecord, NoSnapshot
<1>4. ASSUME NEW j \in Job, Cancel(j) PROVE PriorityInv'
  BY <1>4 DEF Cancel
<1>5. ASSUME NEW j \in Job, DeleteHistory(j) PROVE PriorityInv'
  <2>1. \A i \in Job : row'[i] = row[i] \/ row'[i].status = "none"
    BY <1>5 DEF DeleteHistory, NoRow
  <2>2. QED BY <1>5, <2>1 DEF DeleteHistory
<1>6. ASSUME NEW j \in Job, BumpToFront(j) PROVE PriorityInv'
  BY <1>6 DEF BumpToFront, Lowest, Pending
<1>7. ASSUME NEW j \in Job, ForceStart(j) PROVE PriorityInv'
  BY <1>7 DEF ForceStart
<1>8. ASSUME NEW j \in Job, RunnerLookup(j) PROVE PriorityInv'
  BY <1>8 DEF RunnerLookup
<1>9. ASSUME NEW j \in Job, RunnerRecord(j) PROVE PriorityInv'
  BY <1>9 DEF RunnerRecord, Written, Conflict
<1>10. ASSUME NEW j \in Job, RunnerRecordFails(j) PROVE PriorityInv'
  BY <1>10 DEF RunnerRecordFails
<1>11. ASSUME NEW j \in Job, FinishJob(j) PROVE PriorityInv'
  BY <1>11 DEF FinishJob
<1>12. ASSUME NEW j \in Job, TrackedMediaFails(j) PROVE PriorityInv'
  BY <1>12 DEF TrackedMediaFails
<1>13. ASSUME NEW j \in Job, Release(j) PROVE PriorityInv'
  BY <1>13 DEF Release, AfterRun
<1>14. ASSUME NEW w \in Worker, CheckPause(w) PROVE PriorityInv'
  BY <1>14 DEF CheckPause
<1>15. ASSUME NEW w \in Worker, CheckPauseFails(w) PROVE PriorityInv'
  BY <1>15 DEF CheckPauseFails
<1>16. ASSUME NEW w \in Worker, Claim(w) PROVE PriorityInv'
  BY <1>16 DEF Claim, Lowest, Pending
<1>17. ASSUME NEW w \in Worker, PollTimeout(w) PROVE PriorityInv'
  BY <1>17 DEF PollTimeout
<1>18. ASSUME NEW w \in Worker, ExitLoop(w) PROVE PriorityInv'
  BY <1>18 DEF ExitLoop
<1>19. ASSUME NEW b \in BOOLEAN, SetPaused(b) PROVE PriorityInv'
  BY <1>19 DEF SetPaused
<1>20. CASE WaitNoRunning
  BY <1>20 DEF WaitNoRunning
<1>21. CASE Shutdown
  BY <1>21 DEF Shutdown
<1>22. CASE ShutdownReturns
  BY <1>22 DEF ShutdownReturns
<1>23. CASE Restart
  BY <1>23 DEF Restart, RehydratedRows, Rebuildable, Recorded, Seeds, NoSnapshot
<1>24. CASE UNCHANGED vars
  BY <1>24 DEF vars
<1>25. QED
  BY <1>1, <1>2, <1>3, <1>4, <1>5, <1>6, <1>7, <1>8, <1>9, <1>10, <1>11,
     <1>12, <1>13, <1>14, <1>15, <1>16, <1>17, <1>18, <1>19, <1>20, <1>21,
     <1>22, <1>23, <1>24
  DEF Next, Request, CallerStep, RunStep, PoolStep

-----------------------------------------------------------------------------
(* Counting running jobs, and the pause.                                  *)

\* Only finitely many jobs run, so Cardinality counts them.
LEMMA RunningFinite == IsFiniteSet(Running)
  BY JobAssumption, FS_Subset DEF Running

\* Each claim adds one running job and one to _active; each end of a run,
\* clean or by an error, takes one of both.
LEMMA ActiveStep ==
  TypeOK /\ ThreadInv /\ ActiveCount /\ [Next]_vars => ActiveCount'
<1> SUFFICES ASSUME TypeOK /\ ThreadInv /\ ActiveCount, [Next]_vars
             PROVE  ActiveCount'
  OBVIOUS
<1> USE DEF TypeOK, ActiveCount, memory, threads, callers, control, bounds
<1>1. ASSUME NEW j \in Job, Enqueue(j) PROVE ActiveCount'
  <2>1. Running' = Running
    BY <1>1 DEF Enqueue, Running
  <2>2. QED BY <1>1, <2>1 DEF Enqueue
<1>2. ASSUME NEW j \in Job, EnqueueLookup(j) PROVE ActiveCount'
  <2>1. Running' = Running
    BY <1>2 DEF EnqueueLookup, Running
  <2>2. QED BY <1>2, <2>1 DEF EnqueueLookup
<1>3. ASSUME NEW j \in Job, EnqueueRecord(j) PROVE ActiveCount'
  <2>1. Running' = Running
    BY <1>3 DEF EnqueueRecord, Running
  <2>2. QED BY <1>3, <2>1 DEF EnqueueRecord
<1>4. ASSUME NEW j \in Job, Cancel(j) PROVE ActiveCount'
  <2>1. Running' = Running
    BY <1>4 DEF Cancel, Running
  <2>2. QED BY <1>4, <2>1 DEF Cancel
<1>5. ASSUME NEW j \in Job, DeleteHistory(j) PROVE ActiveCount'
  <2>1. Running' = Running
    BY <1>5 DEF DeleteHistory, Running
  <2>2. QED BY <1>5, <2>1 DEF DeleteHistory
<1>6. ASSUME NEW j \in Job, BumpToFront(j) PROVE ActiveCount'
  <2>1. Running' = Running
    BY <1>6 DEF BumpToFront, Running
  <2>2. QED BY <1>6, <2>1 DEF BumpToFront
<1>7. ASSUME NEW j \in Job, ForceStart(j) PROVE ActiveCount'
  <2>1. j \notin Running
    BY <1>7 DEF ForceStart, ThreadInv, Running
  <2>2. Running' = Running \cup {j}
    BY <1>7 DEF ForceStart, Running
  <2>3. QED BY <1>7, <2>1, <2>2, RunningFinite, FS_AddElement DEF ForceStart
<1>8. ASSUME NEW j \in Job, RunnerLookup(j) PROVE ActiveCount'
  <2>1. Running' = Running
    BY <1>8 DEF RunnerLookup, Running
  <2>2. QED BY <1>8, <2>1 DEF RunnerLookup
<1>9. ASSUME NEW j \in Job, RunnerRecord(j) PROVE ActiveCount'
  <2>1. Running' = Running
    BY <1>9 DEF RunnerRecord, Running
  <2>2. QED BY <1>9, <2>1 DEF RunnerRecord
<1>10. ASSUME NEW j \in Job, RunnerRecordFails(j) PROVE ActiveCount'
  <2>1. Running' = Running
    BY <1>10 DEF RunnerRecordFails, Running
  <2>2. QED BY <1>10, <2>1 DEF RunnerRecordFails
<1>11. ASSUME NEW j \in Job, FinishJob(j) PROVE ActiveCount'
  <2>1. Running' = Running
    BY <1>11 DEF FinishJob, Running
  <2>2. QED BY <1>11, <2>1 DEF FinishJob
<1>12. ASSUME NEW j \in Job, TrackedMediaFails(j) PROVE ActiveCount'
  <2>1. Running' = Running
    BY <1>12 DEF TrackedMediaFails, Running
  <2>2. QED BY <1>12, <2>1 DEF TrackedMediaFails
<1>13. ASSUME NEW j \in Job, Release(j) PROVE ActiveCount'
  <2>1. j \in Running
    BY <1>13 DEF Release, Running
  <2>2. Running' = Running \ {j}
    BY <1>13 DEF Release, Running
  <2>3. QED BY <1>13, <2>1, <2>2, RunningFinite, FS_RemoveElement DEF Release
<1>14. ASSUME NEW w \in Worker, CheckPause(w) PROVE ActiveCount'
  <2>1. Running' = Running
    BY <1>14 DEF CheckPause, Running
  <2>2. QED BY <1>14, <2>1 DEF CheckPause
<1>15. ASSUME NEW w \in Worker, CheckPauseFails(w) PROVE ActiveCount'
  <2>1. Running' = Running
    BY <1>15 DEF CheckPauseFails, Running
  <2>2. QED BY <1>15, <2>1 DEF CheckPauseFails
<1>16. ASSUME NEW w \in Worker, Claim(w) PROVE ActiveCount'
  <2>1. CASE UNCHANGED <<status, active, runner, stage>>
    BY <1>16, <2>1 DEF Claim, Running
  <2>2. ASSUME NEW j \in Lowest(Pending), active' = active + 1,
               stage' = [stage EXCEPT ![j] = "claimed"]
        PROVE  ActiveCount'
    <3>1. j \in Job /\ j \notin Running
      BY <2>2 DEF Lowest, Pending, ThreadInv, Running
    <3>2. Running' = Running \cup {j}
      BY <2>2, <3>1 DEF Running
    <3>3. QED BY <2>2, <3>1, <3>2, RunningFinite, FS_AddElement
  <2>3. QED BY <1>16, <2>1, <2>2 DEF Claim
<1>17. ASSUME NEW w \in Worker, PollTimeout(w) PROVE ActiveCount'
  <2>1. Running' = Running
    BY <1>17 DEF PollTimeout, Running
  <2>2. QED BY <1>17, <2>1 DEF PollTimeout
<1>18. ASSUME NEW w \in Worker, ExitLoop(w) PROVE ActiveCount'
  <2>1. Running' = Running
    BY <1>18 DEF ExitLoop, Running
  <2>2. QED BY <1>18, <2>1 DEF ExitLoop
<1>19. ASSUME NEW b \in BOOLEAN, SetPaused(b) PROVE ActiveCount'
  <2>1. Running' = Running
    BY <1>19 DEF SetPaused, Running
  <2>2. QED BY <1>19, <2>1 DEF SetPaused
<1>20. CASE WaitNoRunning
  <2>1. Running' = Running
    BY <1>20 DEF WaitNoRunning, Running
  <2>2. QED BY <1>20, <2>1 DEF WaitNoRunning
<1>21. CASE Shutdown
  <2>1. Running' = Running
    BY <1>21 DEF Shutdown, Running
  <2>2. QED BY <1>21, <2>1 DEF Shutdown
<1>22. CASE ShutdownReturns
  <2>1. Running' = Running
    BY <1>22 DEF ShutdownReturns, Running
  <2>2. QED BY <1>22, <2>1 DEF ShutdownReturns
<1>23. CASE Restart
  <2>1. Running' = {}
    BY <1>23 DEF Restart, Running
  <2>2. QED BY <1>23, <2>1, FS_EmptySet DEF Restart
<1>24. CASE UNCHANGED vars
  BY <1>24 DEF vars, Running
<1>25. QED
  BY <1>1, <1>2, <1>3, <1>4, <1>5, <1>6, <1>7, <1>8, <1>9, <1>10, <1>11,
     <1>12, <1>13, <1>14, <1>15, <1>16, <1>17, <1>18, <1>19, <1>20, <1>21,
     <1>22, <1>23, <1>24
  DEF Next, Request, CallerStep, RunStep, PoolStep

\* While the pause that wait_no_running waited under is in force no pool
\* thread gets past the pause check.
LEMMA PauseStep ==
  TypeOK /\ ThreadInv /\ ActiveCount /\ PauseInv /\ [Next]_vars => PauseInv'
<1> SUFFICES ASSUME TypeOK /\ ThreadInv /\ ActiveCount /\ PauseInv, [Next]_vars
             PROVE  PauseInv'
  OBVIOUS
<1> USE DEF TypeOK, PauseInv, QuiescedPoolIsIdle, LockFree,
           memory, threads, callers, control, bounds, Notified
<1>1. ASSUME NEW j \in Job, Enqueue(j) PROVE PauseInv'
  BY <1>1 DEF Enqueue
<1>2. ASSUME NEW j \in Job, EnqueueLookup(j) PROVE PauseInv'
  BY <1>2 DEF EnqueueLookup
<1>3. ASSUME NEW j \in Job, EnqueueRecord(j) PROVE PauseInv'
  BY <1>3 DEF EnqueueRecord
<1>4. ASSUME NEW j \in Job, Cancel(j) PROVE PauseInv'
  BY <1>4 DEF Cancel
<1>5. ASSUME NEW j \in Job, DeleteHistory(j) PROVE PauseInv'
  BY <1>5 DEF DeleteHistory
<1>6. ASSUME NEW j \in Job, BumpToFront(j) PROVE PauseInv'
  BY <1>6 DEF BumpToFront
<1>7. ASSUME NEW j \in Job, ForceStart(j) PROVE PauseInv'
  BY <1>7 DEF ForceStart
<1>8. ASSUME NEW j \in Job, RunnerLookup(j) PROVE PauseInv'
  BY <1>8 DEF RunnerLookup
<1>9. ASSUME NEW j \in Job, RunnerRecord(j) PROVE PauseInv'
  BY <1>9 DEF RunnerRecord
<1>10. ASSUME NEW j \in Job, RunnerRecordFails(j) PROVE PauseInv'
  BY <1>10 DEF RunnerRecordFails
<1>11. ASSUME NEW j \in Job, FinishJob(j) PROVE PauseInv'
  BY <1>11 DEF FinishJob
<1>12. ASSUME NEW j \in Job, TrackedMediaFails(j) PROVE PauseInv'
  BY <1>12 DEF TrackedMediaFails
<1>13. ASSUME NEW j \in Job, Release(j) PROVE PauseInv'
  BY <1>13 DEF Release, AfterRun, ThreadInv
<1>14. ASSUME NEW w \in Worker, CheckPause(w) PROVE PauseInv'
  BY <1>14 DEF CheckPause
<1>15. ASSUME NEW w \in Worker, CheckPauseFails(w) PROVE PauseInv'
  BY <1>15 DEF CheckPauseFails
<1>16. ASSUME NEW w \in Worker, Claim(w) PROVE PauseInv'
  BY <1>16 DEF Claim
<1>17. ASSUME NEW w \in Worker, PollTimeout(w) PROVE PauseInv'
  BY <1>17 DEF PollTimeout
<1>18. ASSUME NEW w \in Worker, ExitLoop(w) PROVE PauseInv'
  BY <1>18 DEF ExitLoop
<1>19. ASSUME NEW b \in BOOLEAN, SetPaused(b) PROVE PauseInv'
  BY <1>19 DEF SetPaused
<1>20. CASE WaitNoRunning
  <2>1. Running = {}
    BY <1>20, RunningFinite, FS_EmptySet DEF WaitNoRunning, ActiveCount
  <2>2. QED BY <1>20, <2>1 DEF WaitNoRunning, ThreadInv, Running
<1>21. CASE Shutdown
  BY <1>21 DEF Shutdown
<1>22. CASE ShutdownReturns
  BY <1>22 DEF ShutdownReturns
<1>23. CASE Restart
  BY <1>23 DEF Restart
<1>24. CASE UNCHANGED vars
  BY <1>24 DEF vars
<1>25. QED
  BY <1>1, <1>2, <1>3, <1>4, <1>5, <1>6, <1>7, <1>8, <1>9, <1>10, <1>11,
     <1>12, <1>13, <1>14, <1>15, <1>16, <1>17, <1>18, <1>19, <1>20, <1>21,
     <1>22, <1>23, <1>24
  DEF Next, Request, CallerStep, RunStep, PoolStep

-----------------------------------------------------------------------------
(* The invariant is inductive.                                             *)

\* The process starts with an empty queue and an empty table.
LEMMA InitInv == Init => IInv
<1> SUFFICES ASSUME Init PROVE IInv
  OBVIOUS
<1> USE DEF Init
<1>1. TypeOK
  <2>1. NoRow \in Row /\ NoSnapshot \in Snapshot
    BY DEF Row, NoRow, Snapshot, NoSnapshot, JobStatus
  <2>2. 0 \in 0..MaxRestarts /\ 0 \in 0..MaxFaults
    BY BoundAssumption
  <2>3. /\ status \in [Job -> JobStatus \cup {"none"}]
        /\ priority \in [Job -> Int] /\ nextPriority \in Int /\ active \in Int
        /\ worker \in [Worker -> WorkerState]
        /\ runner \in [Job -> Worker \cup {Forced}]
        /\ stage \in [Job -> Stage]
        /\ loaded \in [Job -> JobStatus \cup {"none"}]
    BY DEF WorkerState, Stage
  <2>4. /\ enqueuer \in [Job -> {"new", "inserted", "recording", "returned"}]
        /\ snapshot \in [Job -> Snapshot]
        /\ canceller \in [Job -> {"no", "removed", "done", "failed"}]
        /\ row \in [Job -> Row]
    BY <2>1
  <2>5. /\ paused \in BOOLEAN /\ quiesced \in BOOLEAN
        /\ shutdown \in {"up", "joining", "returned"}
        /\ joinSet \in SUBSET Job /\ runs \in [Job -> Nat]
    OBVIOUS
  <2>6. QED
    BY <2>2, <2>3, <2>4, <2>5 DEF TypeOK
<1>2. Running = {}
  BY DEF Running
<1>3. ActiveCount
  BY <1>2, FS_EmptySet DEF ActiveCount
<1>4. ThreadInv /\ ShutdownInv /\ PauseInv
  BY DEF ThreadInv, ShutdownInv, PauseInv
<1>5. CallerInv /\ RunInv /\ NoOrphanedRow /\ PriorityInv
  BY DEF CallerInv, RunInv, NoOrphanedRow, PriorityInv, NewJobsLast, NoRow
<1>6. QED
  BY <1>1, <1>3, <1>4, <1>5 DEF IInv

\* Every operation of the queue, every step of a thread, every fault and every
\* restart keeps it.
LEMMA NextInv == IInv /\ [Next]_vars => IInv'
  BY TypeStep, ThreadStep, ActiveStep, ShutdownStep, PauseStep, CallerInvStep,
     RunInvStep, OrphanStep, PriorityStep
  DEF IInv

-----------------------------------------------------------------------------
(* The theorems.                                                           *)

\* IInv holds in every reachable state: the theorems below are parts of it or
\* follow from it.
THEOREM Inductive == Spec => []IInv
  BY InitInv, NextInv, PTL DEF Spec

\* The state of the queue, of its threads and of the table keeps its type.
THEOREM TypeCorrect == Spec => []TypeOK
<1>1. IInv => TypeOK
  BY DEF IInv
<1>2. QED
  BY <1>1, Inductive, PTL

\* _active is the number of claimed jobs, even after a thread died of an error.
THEOREM ActiveCounts == Spec => []ActiveCount
<1>1. IInv => ActiveCount
  BY DEF IInv
<1>2. QED
  BY <1>1, Inductive, PTL

\* A pool thread that is busy runs exactly one job; any other runs none.
THEOREM ThreadsExclusive == Spec => []OneJobPerThread
<1>1. IInv => OneJobPerThread
  <2> SUFFICES ASSUME IInv, NEW w \in Worker
               PROVE  Cardinality({j \in Running : runner[j] = w}) =
                      IF worker[w] = "busy" THEN 1 ELSE 0
    BY DEF OneJobPerThread
  <2>1. CASE worker[w] = "busy"
    <3>1. PICK j \in Job : stage[j] # "idle" /\ runner[j] = w
      BY <2>1 DEF IInv, ThreadInv
    <3>2. {i \in Running : runner[i] = w} = {j}
      BY <3>1 DEF IInv, ThreadInv, Running
    <3>3. QED
      BY <2>1, <3>2, FS_Singleton
  <2>2. CASE worker[w] # "busy"
    <3>1. {i \in Running : runner[i] = w} = {}
      BY <2>2 DEF IInv, ThreadInv, Running
    <3>2. QED
      BY <2>2, <3>1, FS_EmptySet
  <2>3. QED
    BY <2>1, <2>2
<1>2. QED
  BY <1>1, Inductive, PTL

\* No job's pipeline is ever started twice, whatever is killed, fails or is
\* restarted in between.
THEOREM AtMostOneRunHolds == Spec => []AtMostOneRun
<1>1. IInv => AtMostOneRun
  BY DEF IInv, RunInv, AtMostOneRun, TypeOK
<1>2. QED
  BY <1>1, Inductive, PTL

\* A newly enqueued job always sorts behind every job and every row.
THEOREM NewJobsAreLast == Spec => []NewJobsLast
<1>1. IInv => NewJobsLast
  BY DEF IInv, PriorityInv
<1>2. QED
  BY <1>1, Inductive, PTL

\* No RUNNING row outlives, in this process, the run it stands for.
THEOREM NoRowIsOrphaned == Spec => []NoOrphanedRow
<1>1. IInv => NoOrphanedRow
  BY DEF IInv
<1>2. QED
  BY <1>1, Inductive, PTL

\* A job that cancel() took out of the queue never runs in this process.
THEOREM CancelledStaysOut == Spec => []CancelledNeverRuns
<1>1. IInv => CancelledNeverRuns
  BY DEF IInv, CallerInv, CancelledNeverRuns
<1>2. QED
  BY <1>1, Inductive, PTL

\* A self-update that saw the queue idle under its own pause keeps the pool
\* idle until the pause is lifted.
THEOREM QuiescedStaysIdle == Spec => []QuiescedPoolIsIdle
<1>1. IInv => QuiescedPoolIsIdle
  BY DEF IInv, PauseInv, QuiescedPoolIsIdle
<1>2. QED
  BY <1>1, Inductive, PTL

\* shutdown() returns only when no thread, of the pool or forced, runs a job,
\* and none will.
THEOREM ShutdownIsClean == Spec => []ShutdownDrains
<1>1. IInv => ShutdownDrains
  BY DEF IInv, ShutdownInv, ShutdownDrains
<1>2. QED
  BY <1>1, Inductive, PTL

-----------------------------------------------------------------------------
(* The queue takes a job only through the life that JobLife allows.        *)

Lives == [j \in Job |-> LifeOf(j)]

\* A step after which every job is where it was is no step of JobLife.
LEMMA LivesKept ==
  ASSUME \A j \in Job : LifeOf(j)' = LifeOf(j), UNCHANGED <<shutdown, restarts>>
  PROVE  UNCHANGED Life!vars
<1>1. Lives' = Lives
  BY DEF Lives
<1>2. QED
  BY <1>1 DEF Life!vars, Lives

\* A step that moves one job is the move of JobLife.
LEMMA LifeMoves ==
  ASSUME NEW j \in Job, NEW old, NEW new, LifeOf(j) = old, LifeOf(j)' = new,
         \A i \in Job \ {j} : LifeOf(i)' = LifeOf(i), UNCHANGED <<shutdown, restarts>>
  PROVE  Life!Becomes(j, old, new)
<1>1. Lives' = [Lives EXCEPT ![j] = new]
  BY DEF Lives
<1>2. Lives[j] = old
  BY DEF Lives
<1>3. QED
  BY <1>1, <1>2 DEF Life!Becomes, Lives

\* ... and a step of JobLife if it moves the job at all.
LEMMA LifeNext ==
  ASSUME NEW j \in Job, LifeOf(j)' # LifeOf(j),
         \/ Life!Enqueue(j) \/ Life!Start(j) \/ Life!End(j) \/ Life!Cancel(j)
  PROVE  Life!Next
<1>1. j \in {i \in Job : Lives'[i] # Lives[i]}
  BY DEF Lives
<1>2. QED
  BY <1>1 DEF Life!Next, Lives

\* What a thread or caller knows of a job agrees with where the job is.
LEMMA LifeFacts ==
  ASSUME IInv, NEW j \in Job
  PROVE  /\ enqueuer[j] = "new" => LifeOf(j) = "unused"
         /\ status[j] \in {"pending", "running"} => LifeOf(j) = status[j]
         /\ status[j] = "pending" => runs[j] = 0 /\ enqueuer[j] # "new"
         /\ stage[j] = "pipeline" => runs[j] # 0
         /\ status[j] = "none" /\ enqueuer[j] # "new" =>
              LifeOf(j) = IF runs[j] # 0 THEN "ended" ELSE "gone"
  BY DEF IInv, RunInv, CallerInv, ThreadInv, LifeOf

\* A claim, by the pool or by force_start, starts a pending job, and only while
\* the queue is up.
LEMMA ClaimStarts ==
  ASSUME IInv, NEW j \in Job, shutdown = "up", status[j] = "pending",
         status' = [status EXCEPT ![j] = "running"],
         UNCHANGED <<runs, enqueuer, shutdown, restarts>>
  PROVE  Life!Next
<1>1. LifeOf(j) = "pending" /\ LifeOf(j)' = "running"
  BY DEF LifeOf, IInv, TypeOK
<1>2. \A i \in Job \ {j} : LifeOf(i)' = LifeOf(i)
  BY DEF LifeOf, IInv, TypeOK
<1>3. Life!Becomes(j, "pending", "running")
  BY <1>1, <1>2, LifeMoves
<1>4. Life!Start(j)
  BY <1>3 DEF Life!Start
<1>5. QED
  BY <1>1, <1>4, LifeNext

\* Every step of the queue is a step of JobLife or changes nothing that JobLife
\* shows.
LEMMA LifeStep == IInv /\ [Next]_vars => [Life!Next]_(Life!vars)
<1> SUFFICES ASSUME IInv, [Next]_vars PROVE Life!Next \/ UNCHANGED Life!vars
  OBVIOUS
<1> DEFINE Quiet == UNCHANGED <<status, runs, enqueuer, shutdown, restarts>>
<1>q. ASSUME Quiet PROVE UNCHANGED Life!vars
  <2>1. \A j \in Job : LifeOf(j)' = LifeOf(j)
    BY <1>q DEF LifeOf
  <2>2. QED
    BY <1>q, <2>1, LivesKept
<1> HIDE DEF Quiet
<1> USE DEF memory, threads, callers, control, bounds
<1>1. ASSUME NEW j \in Job, Enqueue(j) PROVE Life!Next
  <2>1. LifeOf(j) = "unused"
    BY <1>1, LifeFacts DEF Enqueue
  <2>2. LifeOf(j)' = "pending" /\ \A i \in Job \ {j} : LifeOf(i)' = LifeOf(i)
    BY <1>1 DEF Enqueue, LifeOf, IInv, TypeOK
  <2>3. Life!Becomes(j, "unused", "pending")
    BY <1>1, <2>1, <2>2, LifeMoves DEF Enqueue
  <2>4. QED
    BY <2>1, <2>2, <2>3, LifeNext DEF Life!Enqueue
<1>2. ASSUME NEW j \in Job, EnqueueLookup(j) PROVE UNCHANGED Life!vars
  <2>1. \A i \in Job : LifeOf(i)' = LifeOf(i)
    BY <1>2 DEF EnqueueLookup, LifeOf, IInv, TypeOK
  <2>2. QED
    BY <1>2, <2>1, LivesKept DEF EnqueueLookup
<1>3. ASSUME NEW j \in Job, EnqueueRecord(j) PROVE UNCHANGED Life!vars
  <2>1. \A i \in Job : LifeOf(i)' = LifeOf(i)
    BY <1>3 DEF EnqueueRecord, LifeOf, IInv, TypeOK
  <2>2. QED
    BY <1>3, <2>1, LivesKept DEF EnqueueRecord
<1>4. ASSUME NEW j \in Job, Cancel(j) PROVE Life!Next
  <2>1. LifeOf(j) = "pending" /\ runs[j] = 0 /\ enqueuer[j] # "new"
    BY <1>4, LifeFacts DEF Cancel
  <2>2. LifeOf(j)' = "gone" /\ \A i \in Job \ {j} : LifeOf(i)' = LifeOf(i)
    BY <1>4, <2>1 DEF Cancel, LifeOf, IInv, TypeOK
  <2>3. Life!Becomes(j, "pending", "gone")
    BY <1>4, <2>1, <2>2, LifeMoves DEF Cancel
  <2>4. QED
    BY <2>1, <2>2, <2>3, LifeNext DEF Life!Cancel
<1>5. ASSUME NEW j \in Job, DeleteHistory(j) PROVE Quiet
  BY <1>5 DEF DeleteHistory, Quiet
<1>6. ASSUME NEW j \in Job, BumpToFront(j) PROVE Quiet
  BY <1>6 DEF BumpToFront, Quiet
<1>7. ASSUME NEW j \in Job, ForceStart(j) PROVE Life!Next
  BY <1>7, ClaimStarts DEF ForceStart
<1>8. ASSUME NEW j \in Job, RunnerLookup(j) PROVE Quiet
  BY <1>8 DEF RunnerLookup, Quiet
<1>9. ASSUME NEW j \in Job, RunnerRecord(j) PROVE UNCHANGED Life!vars
  <2>1. CASE stage[j] = "recording"
    \* The run begins, but the job was already claimed.
    <3>1. status[j] = "running"
      BY <2>1 DEF IInv, RunInv
    <3>2. \A i \in Job : LifeOf(i)' = LifeOf(i)
      BY <1>9, <2>1, <3>1 DEF RunnerRecord, LifeOf, IInv, TypeOK
    <3>3. QED
      BY <1>9, <3>2, LivesKept DEF RunnerRecord
  <2>2. CASE stage[j] = "closing"
    BY <1>9, <1>q, <2>2 DEF RunnerRecord, Quiet
  <2>3. QED
    BY <1>9, <2>1, <2>2 DEF RunnerRecord
<1>10. ASSUME NEW j \in Job, RunnerRecordFails(j) PROVE Quiet
  BY <1>10 DEF RunnerRecordFails, Quiet
<1>11. ASSUME NEW j \in Job, FinishJob(j) PROVE Life!Next \/ UNCHANGED Life!vars
  <2>1. runs[j] # 0
    BY <1>11, LifeFacts DEF FinishJob
  <2>2. LifeOf(j)' = "ended" /\ \A i \in Job \ {j} : LifeOf(i)' = LifeOf(i)
    BY <1>11, <2>1 DEF FinishJob, LifeOf, IInv, TypeOK
  <2>3. CASE status[j] = "running"
    <3>1. LifeOf(j) = "running"
      BY <2>3, LifeFacts
    <3>2. Life!Becomes(j, "running", "ended")
      BY <1>11, <2>2, <3>1, LifeMoves DEF FinishJob
    <3>3. QED
      BY <2>2, <3>1, <3>2, LifeNext DEF Life!End
  <2>4. CASE status[j] # "running"
    <3>1. LifeOf(j) = "ended"
      BY <1>11, <2>1, <2>4 DEF FinishJob, LifeOf, IInv, ThreadInv
    <3>2. QED
      BY <1>11, <2>2, <3>1, LivesKept DEF FinishJob
  <2>5. QED
    BY <2>3, <2>4
<1>12. ASSUME NEW j \in Job, TrackedMediaFails(j) PROVE Quiet
  BY <1>12 DEF TrackedMediaFails, Quiet
<1>13. ASSUME NEW j \in Job, Release(j) PROVE Quiet
  BY <1>13 DEF Release, Quiet
<1>14. ASSUME NEW w \in Worker, CheckPause(w) PROVE Quiet
  BY <1>14 DEF CheckPause, Quiet
<1>15. ASSUME NEW w \in Worker, CheckPauseFails(w) PROVE Quiet
  BY <1>15 DEF CheckPauseFails, Quiet
<1>16. ASSUME NEW w \in Worker, Claim(w) PROVE Life!Next \/ UNCHANGED Life!vars
  \* The thread is inside the lock, so shutdown() has not set its flag.
  <2>1. shutdown = "up"
    BY <1>16 DEF Claim, IInv, ShutdownInv, LockFree
  <2>2. CASE Pending = {} /\ UNCHANGED status
    BY <1>16, <1>q, <2>2 DEF Claim, Quiet
  <2>3. ASSUME NEW j \in Lowest(Pending), status' = [status EXCEPT ![j] = "running"]
        PROVE  Life!Next
    <3>1. j \in Job /\ status[j] = "pending"
      BY DEF Lowest, Pending
    <3>2. QED
      BY <1>16, <2>1, <2>3, <3>1, ClaimStarts DEF Claim
  <2>4. QED
    BY <1>16, <2>2, <2>3 DEF Claim
<1>17. ASSUME NEW w \in Worker, PollTimeout(w) PROVE Quiet
  BY <1>17 DEF PollTimeout, Quiet
<1>18. ASSUME NEW w \in Worker, ExitLoop(w) PROVE Quiet
  BY <1>18 DEF ExitLoop, Quiet
<1>19. ASSUME NEW b \in BOOLEAN, SetPaused(b) PROVE Quiet
  BY <1>19 DEF SetPaused, Quiet
<1>20. CASE WaitNoRunning
  <2>1. Quiet
    BY <1>20 DEF WaitNoRunning, Quiet
  <2>2. QED
    BY <1>q, <2>1
<1>21. CASE Shutdown
  <2>1. Lives' = Lives
    BY <1>21 DEF Shutdown, Lives, LifeOf
  <2>2. Life!Close
    BY <1>21, <2>1 DEF Shutdown, Life!Close, Lives
  <2>3. QED
    BY <2>2 DEF Life!Next
<1>22. CASE ShutdownReturns
  <2>1. Lives' = Lives
    BY <1>22 DEF ShutdownReturns, Lives, LifeOf
  <2>2. QED
    BY <1>22, <2>1 DEF ShutdownReturns, Life!vars, Lives
<1>23. CASE Restart
  <2>1. ASSUME NEW j \in Job PROVE LifeOf(j)' \in Life!AfterRestart(LifeOf(j))
    <3>1. PICK c \in BOOLEAN :
            status' = [i \in Job |-> IF i \in Rebuildable(c) THEN "pending" ELSE "none"]
      BY <1>23 DEF Restart
    <3>2. status[j] \in JobStatus \cup {"none"}
      BY DEF IInv, TypeOK
    <3>3. /\ \/ status'[j] = "pending" /\ row[j].status = "pending"
             \/ status'[j] = "none"
          /\ runs'[j] = runs[j]
          /\ enqueuer'[j] = "new" <=> enqueuer[j] = "new"
      BY <1>23, <3>1 DEF Restart, Rebuildable
    <3>4. /\ runs[j] # 0 => row[j].status # "pending"
          /\ enqueuer[j] = "new" => row[j].status = "none" /\ runs[j] = 0 /\ status[j] = "none"
          /\ status[j] = "pending" => runs[j] = 0
      BY DEF IInv, RunInv, CallerInv
    <3>5. QED
      BY <3>2, <3>3, <3>4 DEF LifeOf, Life!AfterRestart, JobStatus
  <2>2. Lives' = [j \in Job |-> Lives'[j]] /\ \A j \in Job : Lives'[j] \in Life!AfterRestart(Lives[j])
    BY <2>1 DEF Lives
  <2>3. Life!Restart
    BY <1>23, <2>2 DEF Restart, Life!Restart, Lives
  <2>4. QED
    BY <2>3 DEF Life!Next
<1>24. CASE UNCHANGED vars
  BY <1>24, <1>q DEF vars, Quiet
<1>25. QED
  BY <1>q, <1>1, <1>2, <1>3, <1>4, <1>5, <1>6, <1>7, <1>8, <1>9, <1>10, <1>11,
     <1>12, <1>13, <1>14, <1>15, <1>16, <1>17, <1>18, <1>19, <1>20, <1>21,
     <1>22, <1>23, <1>24
  DEF Next, Request, CallerStep, RunStep, PoolStep

\* Only a pending job is started or cancelled, nothing starts once shutdown()
\* has begun, and no restart brings back a job whose run had begun: the queue,
\* the table and the start-up pass together implement JobLife.
THEOREM LifeImplemented == Spec => ImplementsLife
<1>1. Init => Life!Init
  <2> SUFFICES ASSUME Init PROVE Life!Init
    OBVIOUS
  <2>1. Lives = [j \in Job |-> "unused"]
    BY DEF Init, Lives, LifeOf
  <2>2. QED
    BY <2>1 DEF Init, Life!Init, Lives
<1>2. QED
  BY <1>1, LifeStep, Inductive, PTL DEF Spec, ImplementsLife, Life!Spec

-----------------------------------------------------------------------------
(* No wake-up is lost: what PendingIsServed and ShutdownTerminates rest on. *)

\* A thread sleeps without a timeout only while there is nothing to claim, and
\* none sleeps or holds the lock once shutdown() has begun.
WakeUps ==
    /\ \A w \in Worker : worker[w] = "waiting" => Pending = {}
    /\ shutdown # "up" =>
         \A w \in Worker : worker[w] \notin {"waiting", "polling", "open"}

LEMMA WakeUpStep == IInv /\ WakeUps /\ [Next]_vars => WakeUps'
<1> SUFFICES ASSUME IInv, WakeUps, [Next]_vars PROVE WakeUps'
  OBVIOUS
<1> TypeOK /\ ShutdownInv
  BY DEF IInv
<1> USE DEF TypeOK, WakeUps, Pending, memory, threads, callers, control, bounds, Notified
<1>1. ASSUME NEW j \in Job, Enqueue(j) PROVE WakeUps'
  BY <1>1 DEF Enqueue
<1>2. ASSUME NEW j \in Job, EnqueueLookup(j) PROVE WakeUps'
  BY <1>2 DEF EnqueueLookup
<1>3. ASSUME NEW j \in Job, EnqueueRecord(j) PROVE WakeUps'
  BY <1>3 DEF EnqueueRecord
<1>4. ASSUME NEW j \in Job, Cancel(j) PROVE WakeUps'
  BY <1>4 DEF Cancel
<1>5. ASSUME NEW j \in Job, DeleteHistory(j) PROVE WakeUps'
  BY <1>5 DEF DeleteHistory
<1>6. ASSUME NEW j \in Job, BumpToFront(j) PROVE WakeUps'
  BY <1>6 DEF BumpToFront, Lowest
<1>7. ASSUME NEW j \in Job, ForceStart(j) PROVE WakeUps'
  BY <1>7 DEF ForceStart
<1>8. ASSUME NEW j \in Job, RunnerLookup(j) PROVE WakeUps'
  BY <1>8 DEF RunnerLookup
<1>9. ASSUME NEW j \in Job, RunnerRecord(j) PROVE WakeUps'
  BY <1>9 DEF RunnerRecord
<1>10. ASSUME NEW j \in Job, RunnerRecordFails(j) PROVE WakeUps'
  BY <1>10 DEF RunnerRecordFails
<1>11. ASSUME NEW j \in Job, FinishJob(j) PROVE WakeUps'
  BY <1>11 DEF FinishJob
<1>12. ASSUME NEW j \in Job, TrackedMediaFails(j) PROVE WakeUps'
  BY <1>12 DEF TrackedMediaFails
<1>13. ASSUME NEW j \in Job, Release(j) PROVE WakeUps'
  BY <1>13 DEF Release, AfterRun
<1>14. ASSUME NEW w \in Worker, CheckPause(w) PROVE WakeUps'
  BY <1>14 DEF CheckPause
<1>15. ASSUME NEW w \in Worker, CheckPauseFails(w) PROVE WakeUps'
  BY <1>15 DEF CheckPauseFails
<1>16. ASSUME NEW w \in Worker, Claim(w) PROVE WakeUps'
  BY <1>16 DEF Claim, Lowest, ShutdownInv, LockFree
<1>17. ASSUME NEW w \in Worker, PollTimeout(w) PROVE WakeUps'
  BY <1>17 DEF PollTimeout
<1>18. ASSUME NEW w \in Worker, ExitLoop(w) PROVE WakeUps'
  BY <1>18 DEF ExitLoop
<1>19. ASSUME NEW b \in BOOLEAN, SetPaused(b) PROVE WakeUps'
  BY <1>19 DEF SetPaused
<1>20. CASE WaitNoRunning
  BY <1>20 DEF WaitNoRunning
<1>21. CASE Shutdown
  BY <1>21 DEF Shutdown, LockFree
<1>22. CASE ShutdownReturns
  BY <1>22 DEF ShutdownReturns
<1>23. CASE Restart
  BY <1>23 DEF Restart
<1>24. CASE UNCHANGED vars
  BY <1>24 DEF vars
<1>25. QED
  BY <1>1, <1>2, <1>3, <1>4, <1>5, <1>6, <1>7, <1>8, <1>9, <1>10, <1>11,
     <1>12, <1>13, <1>14, <1>15, <1>16, <1>17, <1>18, <1>19, <1>20, <1>21,
     <1>22, <1>23, <1>24
  DEF Next, Request, CallerStep, RunStep, PoolStep

\* However enqueues, claims, cancels, pauses, restarts and shutdown() interleave,
\* no pool thread sleeps beside a pending job or through a shutdown().
THEOREM NoWakeUpIsLost == Spec => []WakeUps
<1>1. Init => WakeUps
  BY DEF Init, WakeUps
<1>2. QED
  BY <1>1, WakeUpStep, Inductive, PTL DEF Spec

=============================================================================
