---------------------------- MODULE JobScheduler ----------------------------
(***************************************************************************)
(* The job scheduler of Collapsarr (collapsarr/jobs/scheduler.py): the     *)
(* duplicate check every trigger goes through, the Auto-Queue top-up, the  *)
(* cancelling calls and "Process Now", as run at the same time by request  *)
(* threads, the scan thread and the threads that finish jobs.              *)
(*                                                                         *)
(* Of the queue itself only what those calls see remains: a job's status,  *)
(* its file, and whether its terminal row is in job_history (JobQueue.tla  *)
(* has the rest). A read or a write of the queue is one step, and so is a  *)
(* database query; between two of them any thread may run.                 *)
(***************************************************************************)
EXTENDS Integers, Sequences, FiniteSets

CONSTANTS
    File,      \* the media files
    Job,       \* the job ids that may ever be used (a bound on enqueues)
    Caller,    \* request threads and the scan thread
    Walk,      \* the monitored files in the order top_up walks them
    Limit,     \* AUTO_QUEUE_LIMIT
    MaxCalls,  \* bound: how many calls are in progress at a time
    NoFile, NoJob, NoThread

ASSUME NameAssumption ==
    NoFile \notin File /\ NoJob \notin Job /\ NoThread \notin Caller \cup Job
ASSUME JobAssumption  == IsFiniteSet(Job)
ASSUME WalkAssumption == Walk \in Seq(File) /\ Limit \in Nat /\ MaxCalls \in Nat

VARIABLES
    status,       \* Job.status, and whether the job is in the queue at all
    file,         \* Job.file_path
    filled,       \* history variable: the jobs that top_up enqueued
    recorded,     \* the job's terminal row, and how old it is
    down,         \* the queue's shutdown() has begun
    enqueueLock,  \* the thread that holds _enqueue_lock
    topUpLock,    \* the thread that holds _top_up_lock
    call          \* what each thread is doing in the scheduler

queue == <<status, file, filled, recorded, down>>
locks == <<enqueueLock, topUpLock>>
vars  == <<queue, locks, call>>

\* The thread that runs job j goes by the name j: it calls top_up at the end.
Thread == Caller \cup Job

-----------------------------------------------------------------------------
(* Types.                                                                  *)

\* "gone": removed from the queue by a cancel; the object still says PENDING. A
\* job whose thread died before the pipeline stays "running" for ever.
Status == {"unused", "pending", "running", "ended", "gone"}
\* "past": the row is older than the window, or could not be written.
Recorded == {"no", "recent", "past"}

\* "auto" and "fill" (top_up) respect the Recently-Processed Window, "manual"
\* and "now" (process_now) bypass it.
Mode == {"none", "auto", "manual", "now", "fill"}
Windowed(m) == m \in {"auto", "fill"}

\* In the order of the code: process_now looks for a job; the duplicate check
\* in its two halves; probing; waiting for _enqueue_lock; enqueue; what
\* process_now does with the job; clear_queue's loop; waiting for _top_up_lock;
\* top_up's loop.
Place == {"idle", "find", "active", "window", "probe", "lock", "insert",
          "force", "settle", "reply", "clear", "topUp", "walk"}

Call == [at : Place, mode : Mode, file : File \cup {NoFile}, job : Job \cup {NoJob},
         next : 1..(Len(Walk) + 1), count : Nat, todo : SUBSET Job]

-----------------------------------------------------------------------------
(* Helpers.                                                                *)

Active == {j \in Job : status[j] \in {"pending", "running"}}
ActiveOn(f) == {j \in Active : file[j] = f}
Pending == {j \in Job : status[j] = "pending"}
Unused == {j \in Job : status[j] = "unused"}

Begun(at, m, f) == [at |-> at, mode |-> m, file |-> f, job |-> NoJob,
                    next |-> 1, count |-> 0, todo |-> {}]
Returned == Begun("idle", "none", NoFile)
Filling == Begun("topUp", "fill", NoFile)
\* top_up at its n-th file, with k jobs counted; process_now with its job.
Walking(at, f, n, k) == [at |-> at, mode |-> "fill", file |-> f, job |-> NoJob,
                         next |-> n, count |-> k, todo |-> {}]
Acting(at, j) == [at |-> at, mode |-> "now", file |-> NoFile, job |-> j,
                  next |-> 1, count |-> 0, todo |-> {}]
Clearing(s) == [at |-> "clear", mode |-> "fill", file |-> NoFile, job |-> NoJob,
                next |-> 1, count |-> 0, todo |-> s]

At(t, at) == call[t].at = at
Free(t) == At(t, "idle") /\ Cardinality({u \in Thread : ~At(u, "idle")}) < MaxCalls
Moves(t, at) == call' = [call EXCEPT ![t].at = at]
Becomes(t, c) == call' = [call EXCEPT ![t] = c]

\* The `with` block is left, if the thread is in it.
Leaves(lock, t) == IF lock = t THEN NoThread ELSE lock

\* What the caller of enqueue_file goes on with, given the job or None.
AfterEnqueueFile(t, r) ==
    IF call[t].mode = "fill"
    THEN Walking("walk", NoFile, call[t].next,
                 IF r = NoJob THEN call[t].count ELSE call[t].count + 1)
    ELSE IF call[t].mode = "now" /\ r # NoJob
    THEN Acting("force", r)
    ELSE Returned

\* enqueue_file returns None, from wherever it is.
Skips(t) ==
    /\ Becomes(t, AfterEnqueueFile(t, NoJob))
    /\ enqueueLock' = Leaves(enqueueLock, t)
    /\ UNCHANGED topUpLock

\* The duplicate check found nothing: the first one leads to the probe, the
\* second, under the lock, to the queue.
NoDuplicate(t) == Moves(t, IF enqueueLock = t THEN "insert" ELSE "probe")

-----------------------------------------------------------------------------
Init ==
    /\ status = [j \in Job |-> "unused"]
    /\ file = [j \in Job |-> NoFile]
    /\ filled = {}
    /\ recorded = [j \in Job |-> "no"]
    /\ down = FALSE
    /\ enqueueLock = NoThread
    /\ topUpLock = NoThread
    /\ call = [t \in Thread |-> Returned]

-----------------------------------------------------------------------------
(* Calls begin.                                                            *)

\* A webhook, one file of requeue_all_failed or of a bulk default-audio
\* request ("auto"); a trigger, requeue or default-audio request ("manual").
Request(c, f, m) ==
    /\ Free(c) /\ m \in {"auto", "manual"}
    /\ Becomes(c, Begun("active", m, f))
    /\ UNCHANGED <<queue, locks>>

ProcessNow(c, f) ==
    /\ Free(c)
    /\ Becomes(c, Begun("find", "now", f))
    /\ UNCHANGED <<queue, locks>>

\* scan_once, once the library is mirrored.
Scan(c) ==
    /\ Free(c)
    /\ Becomes(c, Filling)
    /\ UNCHANGED <<queue, locks>>

\* cancel_job on a queued job: out of the queue, its row deleted (which may
\* fail), then a top-up. A running one is only signalled before the top-up.
CancelJob(c, j) ==
    /\ Free(c)
    /\ \/ /\ status[j] = "pending"
          /\ status' = [status EXCEPT ![j] = "gone"]
          /\ Becomes(c, Filling) \/ Becomes(c, Returned)
       \/ /\ status[j] = "running"
          /\ Becomes(c, Filling)
          /\ UNCHANGED status
    /\ UNCHANGED <<file, filled, recorded, down, locks>>

\* clear_queue takes the ids of the queued jobs ...
ClearQueue(c) ==
    /\ Free(c)
    /\ Becomes(c, Clearing(Pending))
    /\ UNCHANGED <<queue, locks>>

\* Slip: every job on the list is cancelled, whatever became of it.
ClearNextUnchecked(t) ==
    /\ At(t, "clear")
    /\ \/ \E j \in call[t].todo :
            /\ status' = [status EXCEPT ![j] = "gone"]
            /\ Becomes(t, Clearing(call[t].todo \ {j})) \/ Becomes(t, Returned)
       \/ call[t].todo = {} /\ Becomes(t, Filling) /\ UNCHANGED status
    /\ UNCHANGED <<file, filled, recorded, down, locks>>

\* ... cancels each that is still queued (its row's deletion may fail, which
\* ends the call), and tops up once at the end.
ClearNext(t) ==
    /\ At(t, "clear")
    /\ \/ \E j \in call[t].todo :
            \/ /\ status' = IF status[j] = "pending"
                            THEN [status EXCEPT ![j] = "gone"] ELSE status
               /\ Becomes(t, Clearing(call[t].todo \ {j}))
            \/ /\ status[j] = "pending"
               /\ status' = [status EXCEPT ![j] = "gone"]
               /\ Becomes(t, Returned)
       \/ call[t].todo = {} /\ Becomes(t, Filling) /\ UNCHANGED status
    /\ UNCHANGED <<file, filled, recorded, down, locks>>

-----------------------------------------------------------------------------
(* enqueue_file and trigger_set_default_audio.                             *)

\* _is_active, the first half of _is_duplicate.
IsActive(t) ==
    /\ At(t, "active")
    /\ IF ActiveOn(call[t].file) # {} THEN Skips(t)
       ELSE /\ IF Windowed(call[t].mode) THEN Moves(t, "window") ELSE NoDuplicate(t)
            /\ UNCHANGED locks
    /\ UNCHANGED queue

\* _is_recently_processed, the second: a terminal row inside the window.
IsRecentlyProcessed(t) ==
    /\ At(t, "window")
    /\ IF \E j \in Job : file[j] = call[t].file /\ recorded[j] = "recent"
       THEN Skips(t)
       ELSE NoDuplicate(t) /\ UNCHANGED locks
    /\ UNCHANGED queue

\* Unprobeable, Not Tracked or nothing to do: skip; otherwise go on.
Probe(t) ==
    /\ At(t, "probe")
    /\ Skips(t) \/ (Moves(t, "lock") /\ UNCHANGED locks)
    /\ UNCHANGED queue

\* Slip: no second duplicate check under the lock.
TakeEnqueueLockUnchecked(t) ==
    /\ At(t, "lock") /\ enqueueLock = NoThread
    /\ enqueueLock' = t
    /\ Moves(t, "insert")
    /\ UNCHANGED <<queue, topUpLock>>

\* With the lock taken, the duplicate check starts again.
TakeEnqueueLock(t) ==
    /\ At(t, "lock") /\ enqueueLock = NoThread
    /\ enqueueLock' = t
    /\ Moves(t, "active")
    /\ UNCHANGED <<queue, topUpLock>>

\* JobQueue.enqueue: the job is in the queue even if recording it then raises,
\* which takes the whole call, and both locks, with it.
Insert(t) ==
    /\ At(t, "insert")
    /\ \E j \in Unused :
         /\ status' = [status EXCEPT ![j] = "pending"]
         /\ file' = [file EXCEPT ![j] = call[t].file]
         /\ filled' = IF call[t].mode = "fill" THEN filled \cup {j} ELSE filled
         /\ \/ Becomes(t, AfterEnqueueFile(t, j)) /\ UNCHANGED topUpLock
            \/ Becomes(t, Returned) /\ topUpLock' = Leaves(topUpLock, t)
    /\ enqueueLock' = Leaves(enqueueLock, t)
    /\ UNCHANGED <<recorded, down>>

-----------------------------------------------------------------------------
(* process_now.                                                            *)

\* _find_active_job. A running job is handed back, a queued one forced.
FindActive(t) ==
    /\ At(t, "find")
    /\ \/ /\ ActiveOn(call[t].file) = {}
          /\ Moves(t, "active")
       \/ \E j \in ActiveOn(call[t].file) :
            Becomes(t, Acting(IF status[j] = "pending" THEN "force" ELSE "reply", j))
    /\ UNCHANGED <<queue, locks>>

\* Slip: whatever state the job is in meanwhile, it is started.
ForceStartAny(t) ==
    /\ At(t, "force")
    /\ IF ~down
       THEN status' = [status EXCEPT ![call[t].job] = "running"] /\ Moves(t, "reply")
       ELSE Moves(t, "settle") /\ UNCHANGED status
    /\ UNCHANGED <<file, filled, recorded, down, locks>>

\* JobQueue.force_start: True, or "too late".
ForceStart(t) ==
    /\ At(t, "force")
    /\ IF ~down /\ status[call[t].job] = "pending"
       THEN status' = [status EXCEPT ![call[t].job] = "running"] /\ Moves(t, "reply")
       ELSE Moves(t, "settle") /\ UNCHANGED status
    /\ UNCHANGED <<file, filled, recorded, down, locks>>

\* Slip: too late is taken to mean that someone else started the job.
SettleTrusting(t) == At(t, "settle") /\ Moves(t, "reply") /\ UNCHANGED <<queue, locks>>

\* _settled_job_or_none reads the status again, from the job object itself, and
\* returns None if nobody started the job.
Settle(t) ==
    /\ At(t, "settle")
    /\ IF status[call[t].job] \in {"pending", "gone"}
       THEN Becomes(t, Returned) ELSE Moves(t, "reply")
    /\ UNCHANGED <<queue, locks>>

\* process_now returns its job, and the route answers "enqueued".
Reply(t) == At(t, "reply") /\ Becomes(t, Returned) /\ UNCHANGED <<queue, locks>>

-----------------------------------------------------------------------------
(* top_up.                                                                 *)

TopUpReturns(t) == Becomes(t, Returned) /\ topUpLock' = Leaves(topUpLock, t)

\* Slip: the count and the walk run without the lock.
CountPendingUnlocked(t) ==
    /\ At(t, "topUp")
    /\ \/ Becomes(t, Returned)
       \/ Becomes(t, Walking("walk", NoFile, 1, Cardinality(Pending)))
    /\ UNCHANGED <<queue, locks>>

\* Take _top_up_lock. Auto-Queuing Pause ends the pass; otherwise _count_pending.
CountPending(t) ==
    /\ At(t, "topUp") /\ topUpLock = NoThread
    /\ \/ Becomes(t, Returned) /\ UNCHANGED topUpLock
       \/ /\ Becomes(t, Walking("walk", NoFile, 1, Cardinality(Pending)))
          /\ topUpLock' = t
    /\ UNCHANGED <<queue, enqueueLock>>

\* Slip: the walk starts over until the limit is reached.
WalkOnAround(t) ==
    /\ At(t, "walk")
    /\ IF call[t].count >= Limit \/ Walk = <<>>
       THEN TopUpReturns(t)
       ELSE /\ LET n == call[t].next
                   m == IF n > Len(Walk) THEN 1 ELSE n
               IN  \/ Becomes(t, Walking("walk", NoFile, m + 1, call[t].count))
                   \/ Becomes(t, Walking("active", Walk[m], m + 1, call[t].count))
            /\ UNCHANGED topUpLock
    /\ UNCHANGED <<queue, enqueueLock>>

\* At the limit or at the end of the files: done. Otherwise the next file is
\* tried, or is left out because its instance's list could not be fetched.
WalkOn(t) ==
    /\ At(t, "walk")
    /\ IF call[t].count >= Limit \/ call[t].next > Len(Walk)
       THEN TopUpReturns(t)
       ELSE /\ LET n == call[t].next IN
                 \/ Becomes(t, Walking("walk", NoFile, n + 1, call[t].count))
                 \/ Becomes(t, Walking("active", Walk[n], n + 1, call[t].count))
            /\ UNCHANGED topUpLock
    /\ UNCHANGED <<queue, enqueueLock>>

\* A query or a request raises something nobody handles: the call is left, and
\* every `with` block with it. With all of Job used up, an enqueue ends so too.
CallFails(t) ==
    /\ \/ call[t].at \in {"window", "probe", "walk"}
       \/ At(t, "insert") /\ Unused = {}
    /\ Becomes(t, Returned)
    /\ enqueueLock' = Leaves(enqueueLock, t)
    /\ topUpLock' = Leaves(topUpLock, t)
    /\ UNCHANGED queue

-----------------------------------------------------------------------------
(* The queue: jobs run, end and are recorded.                              *)

Claim(j) ==
    /\ ~down /\ status[j] = "pending"
    /\ status' = [status EXCEPT ![j] = "running"]
    /\ UNCHANGED <<file, filled, recorded, down, locks, call>>

Finish(j) ==
    /\ status[j] = "running"
    /\ status' = [status EXCEPT ![j] = "ended"]
    /\ UNCHANGED <<file, filled, recorded, down, locks, call>>

\* The terminal row is written, and the job-terminal hook tops up, unless
\* recording the tracked media raises first.
Record(j) ==
    /\ status[j] = "ended" /\ recorded[j] = "no"
    /\ recorded' = [recorded EXCEPT ![j] = "recent"]
    /\ (Free(j) /\ Becomes(j, Filling)) \/ UNCHANGED call
    /\ UNCHANGED <<status, file, filled, down, locks>>

RecordFails(j) ==
    /\ status[j] = "ended" /\ recorded[j] = "no"
    /\ recorded' = [recorded EXCEPT ![j] = "past"]
    /\ UNCHANGED <<status, file, filled, down, locks, call>>

\* recently_processed_window_minutes have passed since the row's ended_at.
WindowPasses(j) ==
    /\ recorded[j] = "recent"
    /\ recorded' = [recorded EXCEPT ![j] = "past"]
    /\ UNCHANGED <<status, file, filled, down, locks, call>>

StopQueue ==
    /\ ~down /\ down' = TRUE
    /\ UNCHANGED <<status, file, filled, recorded, locks, call>>

-----------------------------------------------------------------------------
(* The specification.                                                      *)

CallStep(t) ==
    \/ IsActive(t) \/ IsRecentlyProcessed(t) \/ Probe(t)
    \/ TakeEnqueueLock(t) \/ Insert(t)
    \/ FindActive(t) \/ ForceStart(t) \/ Settle(t) \/ Reply(t)
    \/ ClearNext(t) \/ CountPending(t) \/ WalkOn(t) \/ CallFails(t)

JobStep(j) == Claim(j) \/ Finish(j) \/ Record(j) \/ RecordFails(j)
              \/ WindowPasses(j)

CallerBegins(c) ==
    \/ \E f \in File : ProcessNow(c, f) \/ \E m \in Mode : Request(c, f, m)
    \/ \E j \in Job : CancelJob(c, j)
    \/ Scan(c) \/ ClearQueue(c)

Next ==
    \/ \E t \in Thread : CallStep(t)
    \/ \E j \in Job : JobStep(j)
    \/ \E c \in Caller : CallerBegins(c)
    \/ StopQueue

Spec == Init /\ [][Next]_vars

\* The operating system runs every thread and hands a lock to a thread that
\* keeps waiting for it; probes and fetches run under a timeout. Nothing makes
\* a call begin, and no property waits for a job to run.
Fairness == \A t \in Thread : SF_vars(CallStep(t))

FairSpec == Spec /\ Fairness

-----------------------------------------------------------------------------
(* Properties.                                                             *)

\* Types, and process_now at its last steps has a job to act on.
TypeOK ==
    /\ status \in [Job -> Status]
    /\ file \in [Job -> File \cup {NoFile}]
    /\ filled \in SUBSET Job
    /\ recorded \in [Job -> Recorded]
    /\ down \in BOOLEAN
    /\ enqueueLock \in Thread \cup {NoThread}
    /\ topUpLock \in Thread \cup {NoThread}
    /\ call \in [Thread -> Call]
    /\ \A t \in Thread : call[t].at \in {"force", "settle", "reply"} => call[t].job \in Job

\* No two jobs are queued or running for one file, whichever triggers, top-ups,
\* forced starts and cancels overlap (enqueue_file's second duplicate check).
OneActivePerFile == \A i, j \in Active : file[i] = file[j] => i = j

\* Top-ups never have more than AUTO_QUEUE_LIMIT jobs of theirs waiting in the
\* queue, however many run at once (_top_up_lock).
AutoBudget == Cardinality(Pending \cap filled) <= Limit

\* A job that process_now hands back was really started: it is running or has
\* run, never still queued or cancelled (_settled_job_or_none).
ProcessNowHonest ==
    \A t \in Thread : At(t, "reply") => status[call[t].job] \in {"running", "ended"}

\* Every call returns: no lock is left taken on any way out, and the two locks
\* are never waited for in a circle (top_up's "Re-entrancy/deadlock").
CallsReturn == \A t \in Thread : call[t].at # "idle" ~> At(t, "idle")

\* The jobs of a file hold it one after the other, each from its enqueue to
\* its end, and none comes back after its end.
Holder(f) == IF ActiveOn(f) = {} THEN NoJob ELSE CHOOSE j \in ActiveOn(f) : TRUE
Lease == INSTANCE FileLease WITH
           holder  <- [f \in File |-> Holder(f)],
           started <- [f \in File |-> \E j \in ActiveOn(f) : status[j] # "pending"],
           used    <- Job \ Unused
ImplementsLease == Lease!Spec

\* The calls do to the queue what JobQueue lets them do: none cancels or starts
\* a job that is not pending, and none starts one after shutdown(), however
\* stale what it read of the queue is (cancel, force_start).
Life == INSTANCE JobLife WITH life <- status, closed <- down, boots <- 0
ImplementsLife == Life!Spec

=============================================================================
