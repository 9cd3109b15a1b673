------------------------------ MODULE JobQueue ------------------------------
(***************************************************************************)
(* The job queue of Collapsarr: the in-memory job map, the fixed pool of   *)
(* worker threads and the dedicated "Process Now" threads that run jobs    *)
(* (collapsarr/jobs/queue.py), the job_history table they write            *)
(* (collapsarr/jobs/history.py) and the start-up pass that rebuilds the    *)
(* queue from that table after a restart (collapsarr/jobs/rehydrate.py).   *)
(*                                                                         *)
(* Threads interleave at the points where the code can be preempted: every *)
(* `with self._cond` block is one step, except the pool's claim, which     *)
(* reads the pause setting from the database while it holds the lock and   *)
(* is therefore two steps; a history write is a SELECT followed, later, by *)
(* its commit.                                                             *)
(***************************************************************************)
EXTENDS Integers, FiniteSets

CONSTANTS
    Job,              \* the job ids that callers may ever enqueue
    DefaultAudioJob,  \* those of kind SET_DEFAULT_AUDIO; the others are DOWNMIX
    Worker,           \* the pool's threads: max_concurrency of them
    Forced,           \* the dedicated thread of a force-started job
    BumpFloor,        \* bound: priorities are not bumped below -BumpFloor
    MaxRestarts,      \* bound: how often the process is killed and booted again
    MaxFaults         \* bound: how many database calls fail on their own

ASSUME WorkerAssumption == IsFiniteSet(Worker) /\ Worker # {} /\ Forced \notin Worker
ASSUME JobAssumption    == IsFiniteSet(Job) /\ DefaultAudioJob \subseteq Job
ASSUME BoundAssumption  == BumpFloor \in Nat /\ MaxRestarts \in Nat /\ MaxFaults \in Nat

VARIABLES
    status,        \* Job.status of each job in _jobs; "none": not in _jobs
    priority,      \* Job.priority
    nextPriority,  \* _next_priority
    active,        \* _active
    worker,        \* what each pool thread is doing
    runner,        \* which thread runs the job, while stage says one does
    stage,         \* how far _run_job has got with the job
    loaded,        \* the row status that the runner's open SELECT returned
    enqueuer,      \* how far the call that enqueued the job has got
    snapshot,      \* what that call's record_job_history loaded and computed
    canceller,     \* how far _cancel_one has got with the job
    row,           \* the job_history table; status "none": no row
    paused,        \* GlobalSettings.auto_processing_paused
    quiesced,      \* wait_no_running returned, and the pause is still in force
    shutdown,      \* "up", "joining" (_shutdown set), "returned"
    joinSet,       \* the force-start threads that shutdown() joins
    runs,          \* history variable: how often the job's pipeline was started
    restarts, faults

memory  == <<status, priority, nextPriority, active>>
threads == <<worker, runner, stage, loaded>>
callers == <<enqueuer, snapshot, canceller>>
control == <<paused, quiesced, shutdown, joinSet>>
bounds  == <<restarts, faults>>
vars    == <<memory, threads, callers, row, control, runs, bounds>>

-----------------------------------------------------------------------------
(* Types.                                                                  *)

JobStatus == {"pending", "running", "succeeded", "failed"}
Row       == [status : JobStatus \cup {"none"}, priority : Int]
NoRow     == [status |-> "none", priority |-> 0]
Snapshot  == [loaded : JobStatus \cup {"none"}, status : JobStatus, priority : Int]
NoSnapshot == [loaded |-> "none", status |-> "pending", priority |-> 0]

\* An "open" pool thread is inside _claim_next, holds the lock and has read that
\* claiming is not paused; "waiting" is in cond.wait() without a timeout,
\* "polling" in cond.wait(1.0).
WorkerState == {"ready", "open", "waiting", "polling", "busy", "exited", "dead"}

Stage == {"idle",                  \* no thread runs the job
          "claimed", "recording",  \* to record the RUNNING transition
          "pipeline",
          "ended", "closing",      \* to record the terminal status
          "effects",               \* tracked media, notifications, hook
          "raised"}                \* an error is leaving _run_job

-----------------------------------------------------------------------------
(* Helpers.                                                                *)

LockFree == \A w \in Worker : worker[w] # "open"
\* Slip: the scan of _jobs forgets the status filter for a job at work.
PendingOrRunning == {j \in Job : status[j] \in {"pending", "running"}}
Pending  == {j \in Job : status[j] = "pending"}
Running  == {j \in Job : stage[j] # "idle"}
Lowest(S) == {j \in S : \A i \in S : priority[j] <= priority[i]}

\* _cond.notify_all(): every thread in cond.wait() tries to claim again.
Notified == [w \in Worker |->
               IF worker[w] \in {"waiting", "polling"} THEN "ready" ELSE worker[w]]

\* The thread of job j is over or back in its loop: an exception that leaves
\* _run_job also leaves _worker_loop and ends the pool thread.
AfterRun(j) == IF runner[j] \notin Worker THEN Notified
               ELSE [Notified EXCEPT ![runner[j]] =
                       IF stage[j] = "raised" THEN "dead" ELSE "ready"]

\* record_job_history at commit: the row that was looked up must still be
\* there (StaleDataError) or still be missing (job_id is unique:
\* IntegrityError).
Conflict(j, found) == (found = "none") # (row[j].status = "none")

\* The ORM writes a column of an existing row only if it changed since the
\* SELECT.
Written(j, found, st, pr) ==
    [status   |-> IF found = st THEN row[j].status ELSE st,
     priority |-> pr]

-----------------------------------------------------------------------------
Init ==
    /\ status = [j \in Job |-> "none"]
    /\ priority = [j \in Job |-> 0]
    /\ nextPriority = 0
    /\ active = 0
    /\ worker = [w \in Worker |-> "ready"]
    /\ runner = [j \in Job |-> Forced]
    /\ stage = [j \in Job |-> "idle"]
    /\ loaded = [j \in Job |-> "none"]
    /\ enqueuer = [j \in Job |-> "new"]
    /\ snapshot = [j \in Job |-> NoSnapshot]
    /\ canceller = [j \in Job |-> "no"]
    /\ row = [j \in Job |-> NoRow]
    /\ paused = FALSE
    /\ quiesced = FALSE
    /\ shutdown = "up"
    /\ joinSet = {}
    /\ runs = [j \in Job |-> 0]
    /\ restarts = 0
    /\ faults = 0

-----------------------------------------------------------------------------
(* Callers of the queue.                                                   *)

\* Slip: notify_all() is forgotten.
EnqueueSilently(j) ==
    /\ enqueuer[j] = "new" /\ LockFree
    /\ status' = [status EXCEPT ![j] = "pending"]
    /\ priority' = [priority EXCEPT ![j] = nextPriority]
    /\ nextPriority' = nextPriority + 1
    /\ enqueuer' = [enqueuer EXCEPT ![j] = "inserted"]
    /\ UNCHANGED <<active, threads, snapshot, canceller, row, control, runs, bounds>>

\* _enqueue, up to the end of the locked block.
Enqueue(j) ==
    /\ enqueuer[j] = "new" /\ LockFree
    /\ status' = [status EXCEPT ![j] = "pending"]
    /\ priority' = [priority EXCEPT ![j] = nextPriority]
    /\ nextPriority' = nextPriority + 1
    /\ worker' = Notified
    /\ enqueuer' = [enqueuer EXCEPT ![j] = "inserted"]
    /\ UNCHANGED <<active, runner, stage, loaded, snapshot, canceller,
                   row, control, runs, bounds>>

\* _enqueue goes on, without the lock, to record the job: look its row up and
\* compute the columns. A job cancelled meanwhile is still PENDING in itself.
EnqueueLookup(j) ==
    /\ enqueuer[j] = "inserted"
    /\ snapshot' = [snapshot EXCEPT ![j] =
                      [loaded   |-> row[j].status,
                       status   |-> IF status[j] = "none" THEN "pending" ELSE status[j],
                       priority |-> priority[j]]]
    /\ enqueuer' = [enqueuer EXCEPT ![j] = "recording"]
    /\ UNCHANGED <<memory, threads, canceller, row, control, runs, bounds>>

\* ... and commit. An error is the caller's: the job stays queued.
EnqueueRecord(j) ==
    /\ enqueuer[j] = "recording"
    /\ LET s == snapshot[j] IN
         \/ /\ ~Conflict(j, s.loaded)
            /\ row' = [row EXCEPT ![j] = Written(j, s.loaded, s.status, s.priority)]
            /\ UNCHANGED faults
         \/ Conflict(j, s.loaded) /\ UNCHANGED <<row, faults>>
         \/ faults < MaxFaults /\ faults' = faults + 1 /\ UNCHANGED row
    /\ enqueuer' = [enqueuer EXCEPT ![j] = "returned"]
    /\ snapshot' = [snapshot EXCEPT ![j] = NoSnapshot]
    /\ UNCHANGED <<memory, threads, canceller, control, runs, restarts>>

\* Slip: any job in _jobs is removed, PENDING or not.
CancelAny(j) ==
    /\ canceller[j] = "no" /\ LockFree
    /\ status[j] # "none"
    /\ status' = [status EXCEPT ![j] = "none"]
    /\ worker' = Notified
    /\ canceller' = [canceller EXCEPT ![j] = "removed"]
    /\ UNCHANGED <<priority, nextPriority, active, runner, stage, loaded,
                   enqueuer, snapshot, row, control, runs, bounds>>

\* _cancel_one, first half: JobQueue.cancel takes a PENDING job out of _jobs.
Cancel(j) ==
    /\ canceller[j] = "no" /\ LockFree
    /\ status[j] = "pending"
    /\ status' = [status EXCEPT ![j] = "none"]
    /\ worker' = Notified
    /\ canceller' = [canceller EXCEPT ![j] = "removed"]
    /\ UNCHANGED <<priority, nextPriority, active, runner, stage, loaded,
                   enqueuer, snapshot, row, control, runs, bounds>>

\* _cancel_one, second half: delete_job_history, which may itself fail.
DeleteHistory(j) ==
    /\ canceller[j] = "removed"
    /\ \/ /\ row' = [row EXCEPT ![j] = NoRow]
          /\ canceller' = [canceller EXCEPT ![j] = "done"]
          /\ UNCHANGED faults
       \/ /\ faults < MaxFaults /\ faults' = faults + 1
          /\ canceller' = [canceller EXCEPT ![j] = "failed"]
          /\ UNCHANGED row
    /\ UNCHANGED <<memory, threads, enqueuer, snapshot, control, runs, restarts>>

\* bump_to_front: one below every pending job; the row is not touched.
BumpToFront(j) ==
    /\ status[j] = "pending" /\ LockFree
    /\ \E i \in Lowest(Pending) :
         /\ priority[i] > -BumpFloor
         /\ priority' = [priority EXCEPT ![j] = priority[i] - 1]
    /\ worker' = Notified
    /\ UNCHANGED <<status, nextPriority, active, runner, stage, loaded,
                   callers, row, control, runs, bounds>>

\* Slip: the shutdown check is forgotten.
ForceStartAlways(j) ==
    /\ LockFree
    /\ status[j] = "pending"
    /\ status' = [status EXCEPT ![j] = "running"]
    /\ active' = active + 1
    /\ runner' = [runner EXCEPT ![j] = Forced]
    /\ stage' = [stage EXCEPT ![j] = "claimed"]
    /\ UNCHANGED <<priority, nextPriority, worker, loaded, callers, row,
                   control, runs, bounds>>

\* force_start: claim the job for a thread of its own, whatever the pause and
\* the pool say.
ForceStart(j) ==
    /\ shutdown = "up" /\ LockFree
    /\ status[j] = "pending"
    /\ status' = [status EXCEPT ![j] = "running"]
    /\ active' = active + 1
    /\ runner' = [runner EXCEPT ![j] = Forced]
    /\ stage' = [stage EXCEPT ![j] = "claimed"]
    /\ UNCHANGED <<priority, nextPriority, worker, loaded, callers, row,
                   control, runs, bounds>>

-----------------------------------------------------------------------------
(* The pool: _worker_loop and _claim_next.                                 *)

\* Take the lock and read the pause setting. Paused: wait for a notification or
\* the poll interval. Not paused: go on, and the lock stays taken.
CheckPause(w) ==
    /\ worker[w] = "ready" /\ LockFree
    /\ shutdown = "up"
    /\ worker' = [worker EXCEPT ![w] = IF paused THEN "polling" ELSE "open"]
    /\ UNCHANGED <<memory, runner, stage, loaded, callers, row, control, runs, bounds>>

\* Reading the setting fails: nothing catches the error, the thread ends.
CheckPauseFails(w) ==
    /\ worker[w] = "ready" /\ LockFree
    /\ shutdown = "up"
    /\ faults < MaxFaults /\ faults' = faults + 1
    /\ worker' = [worker EXCEPT ![w] = "dead"]
    /\ UNCHANGED <<memory, runner, stage, loaded, callers, row, control,
                   runs, restarts>>

\* Not paused: claim a job of the lowest priority, or wait for a notification.
Claim(w) ==
    /\ worker[w] = "open"
    /\ \/ \E j \in Lowest(Pending) :
            /\ status' = [status EXCEPT ![j] = "running"]
            /\ active' = active + 1
            /\ runner' = [runner EXCEPT ![j] = w]
            /\ stage' = [stage EXCEPT ![j] = "claimed"]
            /\ worker' = [worker EXCEPT ![w] = "busy"]
       \/ /\ Pending = {}
          /\ worker' = [worker EXCEPT ![w] = "waiting"]
          /\ UNCHANGED <<status, active, runner, stage>>
    /\ UNCHANGED <<priority, nextPriority, loaded, callers, row, control,
                   runs, bounds>>

\* _PAUSE_POLL_INTERVAL_SECONDS have passed.
PollTimeout(w) ==
    /\ worker[w] = "polling"
    /\ worker' = [worker EXCEPT ![w] = "ready"]
    /\ UNCHANGED <<memory, runner, stage, loaded, callers, row, control,
                   runs, bounds>>

\* _claim_next returns None after shutdown() and the loop ends.
ExitLoop(w) ==
    /\ worker[w] = "ready" /\ LockFree
    /\ shutdown # "up"
    /\ worker' = [worker EXCEPT ![w] = "exited"]
    /\ UNCHANGED <<memory, runner, stage, loaded, callers, row, control,
                   runs, bounds>>

-----------------------------------------------------------------------------
(* Running a claimed job: _run_job, on whichever thread claimed it.         *)

\* record_job_history looks the row up: for RUNNING, or for the outcome.
RunnerLookup(j) ==
    /\ \/ stage[j] = "claimed" /\ stage' = [stage EXCEPT ![j] = "recording"]
       \/ stage[j] = "ended"   /\ stage' = [stage EXCEPT ![j] = "closing"]
    /\ loaded' = [loaded EXCEPT ![j] = row[j].status]
    /\ UNCHANGED <<memory, worker, runner, callers, row, control, runs, bounds>>

\* ... and commits. The pipeline starts only once RUNNING is on disk.
RunnerRecord(j) ==
    /\ stage[j] \in {"recording", "closing"}
    /\ ~Conflict(j, loaded[j])
    /\ row' = [row EXCEPT ![j] = Written(j, loaded[j], status[j], priority[j])]
    /\ \/ /\ stage[j] = "recording"
          /\ stage' = [stage EXCEPT ![j] = "pipeline"]
          /\ runs' = [runs EXCEPT ![j] = @ + 1]
       \/ /\ stage[j] = "closing"
          /\ stage' = [stage EXCEPT ![j] = "effects"]
          /\ UNCHANGED runs
    /\ loaded' = [loaded EXCEPT ![j] = "none"]
    /\ UNCHANGED <<memory, worker, runner, callers, control, bounds>>

\* The commit fails, on a conflict or on its own: _run_job is left at once.
RunnerRecordFails(j) ==
    /\ stage[j] \in {"recording", "closing"}
    /\ \/ Conflict(j, loaded[j]) /\ UNCHANGED faults
       \/ faults < MaxFaults /\ faults' = faults + 1
    /\ stage' = [stage EXCEPT ![j] = "raised"]
    /\ loaded' = [loaded EXCEPT ![j] = "none"]
    /\ UNCHANGED <<memory, worker, runner, callers, row, control,
                   runs, restarts>>

\* The pipeline returns or raises, and the outcome becomes the job's status. A
\* run that cancel_running killed is one of those that fail: signalling the
\* handle changes nothing here.
FinishJob(j) ==
    /\ stage[j] = "pipeline" /\ LockFree
    /\ \E outcome \in {"succeeded", "failed"} :
         status' = [status EXCEPT ![j] = outcome]
    /\ stage' = [stage EXCEPT ![j] = "ended"]
    /\ UNCHANGED <<priority, nextPriority, active, worker, runner, loaded, callers,
                   row, control, runs, bounds>>

\* Recording tracked media, done for a successful job, raises; the other side
\* effects (notification, Plex, terminal hook) swallow their errors.
TrackedMediaFails(j) ==
    /\ stage[j] = "effects" /\ status[j] = "succeeded"
    /\ faults < MaxFaults /\ faults' = faults + 1
    /\ stage' = [stage EXCEPT ![j] = "raised"]
    /\ UNCHANGED <<memory, worker, runner, loaded, callers, row, control, runs, restarts>>

\* Slip: no finally block, so an error skips the release of the claim.
ReleaseUnlessRaised(j) ==
    /\ stage[j] \in {"effects", "raised"} /\ LockFree
    /\ active' = IF stage[j] = "raised" THEN active ELSE active - 1
    /\ worker' = AfterRun(j)
    /\ stage' = [stage EXCEPT ![j] = "idle"]
    /\ runner' = [runner EXCEPT ![j] = Forced]
    /\ UNCHANGED <<status, priority, nextPriority, loaded, callers, row, control,
                   runs, bounds>>

\* The finally block, and what becomes of the thread after it.
Release(j) ==
    /\ stage[j] \in {"effects", "raised"} /\ LockFree
    /\ active' = active - 1
    /\ worker' = AfterRun(j)
    /\ stage' = [stage EXCEPT ![j] = "idle"]
    /\ runner' = [runner EXCEPT ![j] = Forced]
    /\ UNCHANGED <<status, priority, nextPriority, loaded, callers, row, control,
                   runs, bounds>>

-----------------------------------------------------------------------------
(* Pause, self-update, shutdown, restart.                                  *)

\* The settings row changes: by an operator, or forced by a self-update. The
\* queue's lock is not involved.
SetPaused(b) ==
    /\ paused # b
    /\ paused' = b
    /\ quiesced' = (quiesced /\ b)
    /\ UNCHANGED <<memory, threads, callers, row, shutdown, joinSet, runs, bounds>>

\* Slip: _active is read without the lock.
WaitNoRunningUnlocked ==
    /\ paused /\ ~quiesced /\ active = 0
    /\ quiesced' = TRUE
    /\ UNCHANGED <<memory, threads, callers, row, paused, shutdown, joinSet, runs, bounds>>

\* wait_no_running returns True to a self-update that has forced the pause.
WaitNoRunning ==
    /\ paused /\ ~quiesced
    /\ LockFree /\ active = 0
    /\ quiesced' = TRUE
    /\ UNCHANGED <<memory, threads, callers, row, paused, shutdown, joinSet, runs, bounds>>

\* Slip: the sleeping threads are not woken.
ShutdownSilently ==
    /\ shutdown = "up" /\ LockFree
    /\ shutdown' = "joining"
    /\ joinSet' = {j \in Running : runner[j] = Forced}
    /\ UNCHANGED <<memory, threads, callers, row, paused, quiesced, runs, bounds>>

\* shutdown(): set the flag, wake everyone, take the list of threads to join.
Shutdown ==
    /\ shutdown = "up" /\ LockFree
    /\ shutdown' = "joining"
    /\ worker' = Notified
    /\ joinSet' = {j \in Running : runner[j] = Forced}
    /\ UNCHANGED <<memory, runner, stage, loaded, callers, row, paused,
                   quiesced, runs, bounds>>

\* ... and return once all of them have ended.
ShutdownReturns ==
    /\ shutdown = "joining"
    /\ \A w \in Worker : worker[w] \in {"exited", "dead"}
    /\ joinSet \cap Running = {}
    /\ shutdown' = "returned"
    /\ UNCHANGED <<memory, threads, callers, row, paused, quiesced, joinSet, runs, bounds>>

\* Slip: only PENDING rows count.
RecordedPending == {j \in Job : row[j].status = "pending"}

\* seed_next_priority on a fresh queue: one above every row, whatever its
\* status, and never below the initial 0.
Recorded == {j \in Job : row[j].status # "none"}
Seeds == {n \in {0} \cup {row[j].priority + 1 : j \in Recorded} :
            n >= 0 /\ \A j \in Recorded : row[j].priority < n}

\* Slip: an interrupted run is queued again.
RebuildableOrRunning(configured) ==
    {j \in Job : row[j].status \in {"pending", "running"}
                  /\ (j \in DefaultAudioJob => configured)}

\* rehydrate_pending_jobs on the table: a RUNNING row lost its job, and a
\* SET_DEFAULT_AUDIO row can be rebuilt only while a preference is configured.
Rebuildable(configured) ==
    {j \in Job : row[j].status = "pending" /\ (j \in DefaultAudioJob => configured)}

\* Slip: RUNNING rows are left as they are.
RehydratedPendingRows(configured) ==
    [j \in Job |->
       IF row[j].status = "pending" /\ j \notin Rebuildable(configured)
       THEN [row[j] EXCEPT !.status = "failed"]
       ELSE row[j]]

RehydratedRows(configured) ==
    [j \in Job |->
       IF \/ row[j].status = "running"
          \/ row[j].status = "pending" /\ j \notin Rebuildable(configured)
       THEN [row[j] EXCEPT !.status = "failed"]
       ELSE row[j]]

\* The process dies, at any moment, and the next one boots: the lifespan builds
\* the queue, rehydrates it and starts the pool before any request is served.
Restart ==
    /\ restarts < MaxRestarts /\ restarts' = restarts + 1
    /\ \E configured \in BOOLEAN :
         /\ row' = RehydratedRows(configured)
         /\ status' = [j \in Job |-> IF j \in Rebuildable(configured)
                                     THEN "pending" ELSE "none"]
    /\ priority' = [j \in Job |-> row[j].priority]
    /\ nextPriority' \in Seeds
    /\ active' = 0
    /\ worker' = [w \in Worker |-> "ready"]
    /\ runner' = [j \in Job |-> Forced]
    /\ stage' = [j \in Job |-> "idle"]
    /\ loaded' = [j \in Job |-> "none"]
    /\ enqueuer' = [j \in Job |-> IF enqueuer[j] = "new" THEN "new" ELSE "returned"]
    /\ snapshot' = [j \in Job |-> NoSnapshot]
    /\ canceller' = [j \in Job |-> "no"]
    /\ quiesced' = FALSE
    /\ shutdown' = "up"
    /\ joinSet' = {}
    /\ UNCHANGED <<paused, runs, faults>>

-----------------------------------------------------------------------------
(* The specification.                                                      *)

PoolStep(w) == CheckPause(w) \/ Claim(w) \/ PollTimeout(w) \/ ExitLoop(w)

RunStep(j) == \/ RunnerLookup(j) \/ RunnerRecord(j) \/ RunnerRecordFails(j)
              \/ FinishJob(j) \/ TrackedMediaFails(j) \/ Release(j)

CallerStep(j) == EnqueueLookup(j) \/ EnqueueRecord(j) \/ DeleteHistory(j)

Request(j) == Enqueue(j) \/ Cancel(j) \/ BumpToFront(j) \/ ForceStart(j)

Next ==
    \/ \E j \in Job : Request(j) \/ CallerStep(j) \/ RunStep(j)
    \/ \E w \in Worker : PoolStep(w) \/ CheckPauseFails(w)
    \/ \E b \in BOOLEAN : SetPaused(b)
    \/ WaitNoRunning \/ Shutdown \/ ShutdownReturns \/ Restart

Spec == Init /\ [][Next]_vars

\* The operating system runs every live thread; ffmpeg and ffprobe run under a
\* timeout, so the pipeline returns. Nothing makes a request, a fault or a
\* restart happen.
Fairness ==
    /\ \A w \in Worker : SF_vars(PoolStep(w))
    /\ \A j \in Job : SF_vars(RunStep(j)) /\ WF_vars(CallerStep(j))
    /\ WF_vars(ShutdownReturns)

FairSpec == Spec /\ Fairness

-----------------------------------------------------------------------------
(* Properties.                                                             *)

TypeOK ==
    /\ status \in [Job -> JobStatus \cup {"none"}]
    /\ priority \in [Job -> Int]
    /\ nextPriority \in Int
    /\ active \in Int
    /\ worker \in [Worker -> WorkerState]
    /\ runner \in [Job -> Worker \cup {Forced}]
    /\ stage \in [Job -> Stage]
    /\ loaded \in [Job -> JobStatus \cup {"none"}]
    /\ enqueuer \in [Job -> {"new", "inserted", "recording", "returned"}]
    /\ snapshot \in [Job -> Snapshot]
    /\ canceller \in [Job -> {"no", "removed", "done", "failed"}]
    /\ row \in [Job -> Row]
    /\ paused \in BOOLEAN /\ quiesced \in BOOLEAN
    /\ shutdown \in {"up", "joining", "returned"}
    /\ joinSet \in SUBSET Job
    /\ runs \in [Job -> Nat]
    /\ restarts \in 0..MaxRestarts /\ faults \in 0..MaxFaults

\* _active counts exactly the jobs that a thread, of the pool or forced, has
\* claimed and not yet finished with, even when the thread dies of an error
\* (_run_job's finally block): what wait_idle and wait_no_running rely on.
ActiveCount == active = Cardinality(Running)

\* No two runs share a pool thread, and a job that runs was claimed once: a
\* busy thread has exactly one job, an idle or dead one has none (_claim_next
\* and force_start against each other).
OneJobPerThread ==
    \A w \in Worker : Cardinality({j \in Running : runner[j] = w}) =
                      IF worker[w] = "busy" THEN 1 ELSE 0

\* The pipeline, which rewrites the media file, is started at most once for a
\* job, over every interleaving, failed write, kill and restart: the RUNNING
\* row is on disk before it starts, and start-up never requeues such a row.
AtMostOneRun == \A j \in Job : runs[j] <= 1

\* Every job in _jobs and every row of the table, whatever its status, sorts
\* before the next job to be enqueued (_enqueue, seed_next_priority).
NewJobsLast ==
    \A j \in Job : /\ status[j] # "none" => priority[j] < nextPriority
                   /\ row[j].status # "none" => row[j].priority < nextPriority

\* A row never says "running" for a job no thread of this process has claimed
\* (the orphaned rows rehydrate_pending_jobs flips to FAILED).
NoOrphanedRow ==
    \A j \in Job : row[j].status = "running" => status[j] \notin {"none", "pending"}

\* A job that cancel() removed does not run, now or later in this process,
\* whichever of claim, force_start and cancel came first.
CancelledNeverRuns ==
    \A j \in Job : canceller[j] # "no" => status[j] = "none" /\ stage[j] = "idle"

\* When wait_no_running has returned to a self-update that forced the pause,
\* no pool thread holds a job or can still claim one: the setting is read
\* inside the lock that the waiter also takes.
QuiescedPoolIsIdle ==
    quiesced => \A w \in Worker : worker[w] \notin {"busy", "open"}

\* When shutdown() has returned no job is being run by any thread.
ShutdownDrains == shutdown = "returned" => Running = {}

\* What a caller sees of a job; "ended" is also a run that a restart cut short.
LifeOf(j) == IF status[j] \in {"pending", "running"} THEN status[j]
             ELSE IF runs[j] # 0 THEN "ended"
             ELSE IF enqueuer[j] = "new" THEN "unused" ELSE "gone"

Life == INSTANCE JobLife WITH
    life   <- [j \in Job |-> LifeOf(j)],
    closed <- shutdown # "up",
    boots  <- restarts

\* Over every race only a pending job is started or cancelled, nothing starts
\* after shutdown(), a job that has ended never comes back, and a restart brings
\* back none whose run had begun (queue.py, rehydrate.py).
ImplementsLife == Life!Spec

\* A pending job is claimed or cancelled, unless claiming is paused, the queue
\* shuts down or the whole pool is gone: no wake-up is lost (_cond).
PendingIsServed ==
    \A j \in Job :
      status[j] = "pending" ~>
        \/ status[j] # "pending" \/ paused \/ shutdown # "up"
        \/ \A w \in Worker : worker[w] \in {"exited", "dead"}

\* Once begun, shutdown() returns: every thread it joins ends.
ShutdownTerminates == shutdown = "joining" ~> shutdown # "joining"

\* "living for the process lifetime" (queue.py): no pool thread ends before
\* shutdown() is called.
PoolLivesOn == shutdown = "up" => \A w \in Worker : worker[w] # "dead"

=============================================================================
