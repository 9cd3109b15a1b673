------------------------- MODULE JobSchedulerProofs -------------------------
(***************************************************************************)
(* Proofs about JobScheduler, for any files, jobs, callers, walk and       *)
(* limit, and any number of calls at a time.                               *)
(***************************************************************************)
EXTENDS JobScheduler, FiniteSetTheorems, TLAPS

-----------------------------------------------------------------------------
(* The inductive invariant.                                                *)

Trying == {"active", "window", "probe", "lock", "insert"}

\* Jobs in the queue have a file, and only they count as top_up's.
Filed ==
    \A j \in Job : /\ status[j] # "unused" => file[j] \in File
                   /\ j \in filled => status[j] # "unused"

\* A call knows its file or its job as long as it needs it.
NamesOf(t) ==
    /\ call[t].at \in Trying \cup {"find"} => call[t].file \in File
    /\ call[t].at \in {"force", "settle"} => status[call[t].job] # "unused"

Names == \A t \in Thread : NamesOf(t)

\* Who holds which lock follows from where each thread is.
LocksOf(t) ==
    /\ call[t].at = "insert" => enqueueLock = t
    /\ enqueueLock = t => call[t].at \in {"active", "window", "insert"}
    /\ call[t].mode = "fill" => call[t].at \in Trying \cup {"clear", "topUp", "walk"}
    /\ call[t].at = "walk" => call[t].mode = "fill"
    /\ call[t].mode = "fill" /\ call[t].at \in Trying \cup {"walk"} => topUpLock = t
    /\ topUpLock = t => call[t].mode = "fill" /\ call[t].at \in Trying \cup {"walk"}

Locks == \A t \in Thread : LocksOf(t)

\* What the duplicate check found under the lock stays true until the insert.
CheckedBy(t) == enqueueLock = t /\ call[t].at \in {"window", "insert"}
                  => ActiveOn(call[t].file) = {}

Checked == \A t \in Thread : CheckedBy(t)

\* top_up's count is never below the number of its jobs that wait.
Waiting == Cardinality(Pending \cap filled)

CountedBy(t) ==
    topUpLock = t =>
      /\ Waiting <= call[t].count
      /\ call[t].at # "walk" => call[t].count < Limit

Counted == \A t \in Thread : CountedBy(t)

IInv == TypeOK /\ Filed /\ Names /\ Locks /\ Checked /\ Counted
        /\ OneActivePerFile /\ AutoBudget /\ ProcessNowHonest

-----------------------------------------------------------------------------
(* Types.                                                                  *)

\* Every shape a call record takes is a Call; the last line says what reading
\* its fields gives.
LEMMA CallTypes ==
  /\ \A a \in Place, m \in Mode, f \in File \cup {NoFile} : Begun(a, m, f) \in Call
  /\ \A a \in Place, f \in File \cup {NoFile}, n \in 1..(Len(Walk) + 1), k \in Nat :
       Walking(a, f, n, k) \in Call
  /\ \A a \in Place, j \in Job \cup {NoJob} : Acting(a, j) \in Call
  /\ \A s \in SUBSET Job : Clearing(s) \in Call
  /\ Returned \in Call /\ Filling \in Call
  <1>1. 1 \in 1..(Len(Walk) + 1)
    BY WalkAssumption
  <1>2. \A a \in Place, m \in Mode, f \in File \cup {NoFile} : Begun(a, m, f) \in Call
    BY <1>1 DEF Begun, Call
  <1>3. \A a \in Place, f \in File \cup {NoFile}, n \in 1..(Len(Walk) + 1), k \in Nat :
          Walking(a, f, n, k) \in Call
    BY DEF Walking, Call, Mode
  <1>4. \A a \in Place, j \in Job \cup {NoJob} : Acting(a, j) \in Call
    BY <1>1 DEF Acting, Call, Mode
  <1>5. \A s \in SUBSET Job : Clearing(s) \in Call
    BY <1>1 DEF Clearing, Call, Mode, Place
  <1>6. Returned \in Call /\ Filling \in Call
    BY <1>2 DEF Returned, Filling, Place, Mode
  <1> QED
    BY <1>2, <1>3, <1>4, <1>5, <1>6

LEMMA CallFields ==
  ASSUME TypeOK, NEW t \in Thread
  PROVE  /\ call[t] \in Call
         /\ call[t].at \in Place /\ call[t].mode \in Mode
         /\ call[t].file \in File \cup {NoFile} /\ call[t].job \in Job \cup {NoJob}
         /\ call[t].next \in 1..(Len(Walk) + 1) /\ call[t].count \in Nat
         /\ call[t].todo \in SUBSET Job
  BY DEF TypeOK, Call

LEMMA AfterType ==
  ASSUME TypeOK, NEW t \in Thread, NEW r \in Job \cup {NoJob}
  PROVE  AfterEnqueueFile(t, r) \in Call
  <1>1. /\ call[t].next \in 1..(Len(Walk) + 1)
        /\ call[t].count \in Nat /\ call[t].count + 1 \in Nat
    BY CallFields
  <1>2. "walk" \in Place /\ "force" \in Place
    BY DEF Place
  <1>3. CASE call[t].mode = "fill"
    BY <1>1, <1>2, <1>3, CallTypes DEF AfterEnqueueFile
  <1>4. CASE call[t].mode # "fill"
    BY <1>2, <1>4, CallTypes DEF AfterEnqueueFile
  <1> QED
    BY <1>3, <1>4

LEMMA TypeInit == Init => TypeOK
  <1>1. Returned \in Call /\ Returned.at = "idle"
    BY CallTypes DEF Returned, Begun
  <1> QED
    BY <1>1 DEF Init, TypeOK, Status, Recorded

\* A step that changes one thread's call to a well-formed one.
LEMMA CallStepType ==
  ASSUME TypeOK, NEW t \in Thread, NEW c \in Call, Becomes(t, c),
         c.at \in {"force", "settle", "reply"} => c.job \in Job
  PROVE  /\ call' \in [Thread -> Call]
         /\ \A u \in Thread : call'[u].at \in {"force", "settle", "reply"} => call'[u].job \in Job
  BY DEF TypeOK, Becomes

LEMMA MovesType ==
  ASSUME TypeOK, NEW t \in Thread, NEW a \in Place, Moves(t, a),
         a \in {"force", "settle", "reply"} => call[t].job \in Job
  PROVE  /\ call' \in [Thread -> Call]
         /\ \A u \in Thread : call'[u].at \in {"force", "settle", "reply"} => call'[u].job \in Job
         /\ \A u \in Thread : u # t => call'[u] = call[u]
         /\ call'[t].at = a /\ call'[t].mode = call[t].mode /\ call'[t].file = call[t].file
         /\ call'[t].job = call[t].job /\ call'[t].next = call[t].next
         /\ call'[t].count = call[t].count /\ call'[t].todo = call[t].todo
  BY DEF TypeOK, Moves, Call

\* The places of the calls that are built whole.
LEMMA ReturnedAt ==
  /\ Returned.at = "idle" /\ Filling.at = "topUp"
  /\ \A a, m, f : Begun(a, m, f).at = a
  /\ \A s : Clearing(s).at = "clear"
  /\ \A a, f, n, k : Walking(a, f, n, k).at = a
  BY DEF Returned, Filling, Begun, Clearing, Walking

\* process_now goes on to force_start only with a job.
LEMMA AfterJob ==
  ASSUME NEW t, NEW r \in Job \cup {NoJob}
  PROVE  AfterEnqueueFile(t, r).at \in {"force", "settle", "reply"}
           => AfterEnqueueFile(t, r).job \in Job
  BY DEF AfterEnqueueFile, Walking, Acting, Returned, Begun

LEMMA PendingFinite == IsFiniteSet(Pending)
  BY JobAssumption, FS_Subset DEF Pending

\* Every step keeps the types.
LEMMA TypeStep == TypeOK /\ [Next]_vars => TypeOK'
  <1> SUFFICES ASSUME TypeOK, [Next]_vars PROVE TypeOK'
    OBVIOUS
  <1>1. ASSUME NEW t \in Thread, IsActive(t) PROVE TypeOK'
    <2> DEFINE r == AfterEnqueueFile(t, NoJob)
    <2>1. r \in Call /\ (r.at \in {"force", "settle", "reply"} => r.job \in Job)
      BY AfterType, AfterJob
    <2>2. "window" \in Place /\ "insert" \in Place /\ "probe" \in Place /\ "lock" \in Place
      BY DEF Place
    <2>3. CASE Skips(t)
      <3>1. Becomes(t, r)
        BY <2>3 DEF Skips
      <3> QED
        BY <1>1, <2>1, <2>3, <3>1, CallStepType
           DEF TypeOK, Skips, Leaves, IsActive, queue
    <2>4. CASE UNCHANGED locks /\ \E a \in {"window", "insert", "probe", "lock"} : Moves(t, a)
      BY <1>1, <2>2, <2>4, MovesType DEF TypeOK, IsActive, queue, locks
    <2> QED
      BY <1>1, <2>3, <2>4 DEF IsActive, NoDuplicate
  <1>2. ASSUME NEW t \in Thread, IsRecentlyProcessed(t) PROVE TypeOK'
    <2> DEFINE r == AfterEnqueueFile(t, NoJob)
    <2>1. r \in Call /\ (r.at \in {"force", "settle", "reply"} => r.job \in Job)
      BY AfterType, AfterJob
    <2>2. "window" \in Place /\ "insert" \in Place /\ "probe" \in Place /\ "lock" \in Place
      BY DEF Place
    <2>3. CASE Skips(t)
      <3>1. Becomes(t, r)
        BY <2>3 DEF Skips
      <3> QED
        BY <1>2, <2>1, <2>3, <3>1, CallStepType
           DEF TypeOK, Skips, Leaves, IsRecentlyProcessed, queue
    <2>4. CASE UNCHANGED locks /\ \E a \in {"window", "insert", "probe", "lock"} : Moves(t, a)
      BY <1>2, <2>2, <2>4, MovesType DEF TypeOK, IsRecentlyProcessed, queue, locks
    <2> QED
      BY <1>2, <2>3, <2>4 DEF IsRecentlyProcessed, NoDuplicate
  <1>3. ASSUME NEW t \in Thread, Probe(t) PROVE TypeOK'
    <2> DEFINE r == AfterEnqueueFile(t, NoJob)
    <2>1. r \in Call /\ (r.at \in {"force", "settle", "reply"} => r.job \in Job)
      BY AfterType, AfterJob
    <2>2. "window" \in Place /\ "insert" \in Place /\ "probe" \in Place /\ "lock" \in Place
      BY DEF Place
    <2>3. CASE Skips(t)
      <3>1. Becomes(t, r)
        BY <2>3 DEF Skips
      <3> QED
        BY <1>3, <2>1, <2>3, <3>1, CallStepType DEF TypeOK, Skips, Leaves, Probe, queue
    <2>4. CASE UNCHANGED locks /\ \E a \in {"window", "insert", "probe", "lock"} : Moves(t, a)
      BY <1>3, <2>2, <2>4, MovesType DEF TypeOK, Probe, queue, locks
    <2> QED
      BY <1>3, <2>3, <2>4 DEF Probe, NoDuplicate
  <1>4. ASSUME NEW t \in Thread, TakeEnqueueLock(t) PROVE TypeOK'
    <2>1. "active" \in Place
      BY DEF Place
    <2> QED
      BY <1>4, <2>1, MovesType DEF TypeOK, TakeEnqueueLock, queue
  <1>5. ASSUME NEW t \in Thread, Insert(t) PROVE TypeOK'
    <2> PICK j \in Unused :
           /\ status' = [status EXCEPT ![j] = "pending"]
           /\ file' = [file EXCEPT ![j] = call[t].file]
           /\ filled' = IF call[t].mode = "fill" THEN filled \cup {j} ELSE filled
           /\ \/ Becomes(t, AfterEnqueueFile(t, j)) /\ UNCHANGED topUpLock
              \/ Becomes(t, Returned) /\ topUpLock' = Leaves(topUpLock, t)
      BY <1>5 DEF Insert
    <2>1. j \in Job
      BY DEF Unused
    <2>2. /\ status' \in [Job -> Status] /\ file' \in [Job -> File \cup {NoFile}]
          /\ filled' \in SUBSET Job
      BY <2>1, CallFields DEF TypeOK, Status
    <2>3. topUpLock' \in Thread \cup {NoThread} /\ enqueueLock' \in Thread \cup {NoThread}
      BY <1>5 DEF TypeOK, Insert, Leaves
    <2>4. /\ call' \in [Thread -> Call]
          /\ \A u \in Thread : call'[u].at \in {"force", "settle", "reply"} => call'[u].job \in Job
      <3>1. CASE Becomes(t, AfterEnqueueFile(t, j))
        BY <2>1, <3>1, AfterType, AfterJob, CallStepType
      <3>2. CASE Becomes(t, Returned)
        BY <3>2, CallTypes, ReturnedAt, CallStepType
      <3> QED
        BY <3>1, <3>2
    <2> QED
      BY <1>5, <2>2, <2>3, <2>4 DEF TypeOK, Insert
  <1>6. ASSUME NEW t \in Thread, FindActive(t) PROVE TypeOK'
    <2>1. "active" \in Place /\ "force" \in Place /\ "reply" \in Place
      BY DEF Place
    <2>2. CASE Moves(t, "active")
      BY <1>6, <2>1, <2>2, MovesType DEF TypeOK, FindActive, queue, locks
    <2>3. ASSUME NEW j \in ActiveOn(call[t].file),
                 Becomes(t, Acting(IF status[j] = "pending" THEN "force" ELSE "reply", j))
          PROVE TypeOK'
      <3> DEFINE c == Acting(IF status[j] = "pending" THEN "force" ELSE "reply", j)
      <3>1. c \in Call /\ c.job \in Job
        BY <2>1, CallTypes DEF ActiveOn, Active, Acting
      <3> QED
        BY <1>6, <2>3, <3>1, CallStepType DEF TypeOK, FindActive, queue, locks
    <2> QED
      BY <1>6, <2>2, <2>3 DEF FindActive
  <1>7. ASSUME NEW t \in Thread, ForceStart(t) PROVE TypeOK'
    <2>1. "settle" \in Place /\ "reply" \in Place /\ call[t].job \in Job
      BY <1>7 DEF Place, TypeOK, ForceStart, At
    <2>2. \/ Moves(t, "settle") \/ Moves(t, "reply") \/ Becomes(t, Returned)
      BY <1>7 DEF ForceStart
    <2>3. /\ call' \in [Thread -> Call]
          /\ \A u \in Thread : call'[u].at \in {"force", "settle", "reply"} => call'[u].job \in Job
      <3>1. CASE Moves(t, "settle")
        BY <2>1, <3>1, MovesType
      <3>2. CASE Moves(t, "reply")
        BY <2>1, <3>2, MovesType
      <3>3. CASE Becomes(t, Returned)
        BY <3>3, CallTypes, ReturnedAt, CallStepType
      <3> QED
        BY <2>2, <3>1, <3>2, <3>3
    <2> QED
      BY <1>7, <2>1, <2>3 DEF TypeOK, ForceStart, queue, locks, Status
  <1>8. ASSUME NEW t \in Thread, Settle(t) PROVE TypeOK'
    <2>1. "settle" \in Place /\ "reply" \in Place /\ call[t].job \in Job
      BY <1>8 DEF Place, TypeOK, Settle, At
    <2>2. \/ Moves(t, "settle") \/ Moves(t, "reply") \/ Becomes(t, Returned)
      BY <1>8 DEF Settle
    <2>3. /\ call' \in [Thread -> Call]
          /\ \A u \in Thread : call'[u].at \in {"force", "settle", "reply"} => call'[u].job \in Job
      <3>1. CASE Moves(t, "settle")
        BY <2>1, <3>1, MovesType
      <3>2. CASE Moves(t, "reply")
        BY <2>1, <3>2, MovesType
      <3>3. CASE Becomes(t, Returned)
        BY <3>3, CallTypes, ReturnedAt, CallStepType
      <3> QED
        BY <2>2, <3>1, <3>2, <3>3
    <2> QED
      BY <1>8, <2>1, <2>3 DEF TypeOK, Settle, queue, locks, Status
  <1>9. ASSUME NEW t \in Thread, Reply(t) PROVE TypeOK'
    <2>1. "settle" \in Place /\ "reply" \in Place /\ call[t].job \in Job
      BY <1>9 DEF Place, TypeOK, Reply, At
    <2>2. \/ Moves(t, "settle") \/ Moves(t, "reply") \/ Becomes(t, Returned)
      BY <1>9 DEF Reply
    <2>3. /\ call' \in [Thread -> Call]
          /\ \A u \in Thread : call'[u].at \in {"force", "settle", "reply"} => call'[u].job \in Job
      <3>1. CASE Moves(t, "settle")
        BY <2>1, <3>1, MovesType
      <3>2. CASE Moves(t, "reply")
        BY <2>1, <3>2, MovesType
      <3>3. CASE Becomes(t, Returned)
        BY <3>3, CallTypes, ReturnedAt, CallStepType
      <3> QED
        BY <2>2, <3>1, <3>2, <3>3
    <2> QED
      BY <1>9, <2>1, <2>3 DEF TypeOK, Reply, queue, locks, Status
  <1>10. ASSUME NEW t \in Thread, ClearNext(t) PROVE TypeOK'
    <2>1. /\ status' \in [Job -> Status]
          /\ UNCHANGED <<file, filled, recorded, down, locks>>
      BY <1>10 DEF TypeOK, ClearNext, Status
    <2>2. \E s \in SUBSET Job : Becomes(t, Clearing(s)) \/ Becomes(t, Returned) \/ Becomes(t, Filling)
      BY <1>10, CallFields DEF ClearNext
    <2>3. \E c \in Call : Becomes(t, c) /\ c.at \notin {"force", "settle", "reply"}
      BY <2>2, CallTypes, ReturnedAt
    <2> QED
      BY <2>1, <2>3, CallStepType DEF TypeOK, locks
  <1>11. ASSUME NEW t \in Thread, CountPending(t) PROVE TypeOK'
    <2>1. Cardinality(Pending) \in Nat /\ 1 \in 1..(Len(Walk) + 1) /\ "walk" \in Place
      BY PendingFinite, FS_CardinalityType, WalkAssumption DEF Place
    <2>2. \E c \in Call : Becomes(t, c) /\ c.at \notin {"force", "settle", "reply"}
      <3>1. Walking("walk", NoFile, 1, Cardinality(Pending)) \in Call
        BY <2>1, CallTypes
      <3>2. Returned \in Call
        BY CallTypes
      <3> QED
        BY <1>11, <3>1, <3>2, ReturnedAt DEF CountPending
    <2> QED
      BY <1>11, <2>2, CallStepType DEF TypeOK, CountPending, queue
  <1>12. ASSUME NEW t \in Thread, WalkOn(t) PROVE TypeOK'
    <2>1. CASE TopUpReturns(t)
      <3>1. \E c \in Call : Becomes(t, c) /\ c.at \notin {"force", "settle", "reply"}
        BY <2>1, CallTypes, ReturnedAt DEF TopUpReturns
      <3> QED
        BY <1>12, <2>1, <3>1, CallStepType
           DEF TypeOK, WalkOn, TopUpReturns, Leaves, queue
    <2>2. CASE ~TopUpReturns(t)
      <3> DEFINE n == call[t].next
                 k == call[t].count
      <3>1. /\ UNCHANGED <<queue, locks>>
            /\ n \in 1..(Len(Walk) + 1) /\ ~(n > Len(Walk)) /\ k \in Nat
            /\ \/ Becomes(t, Walking("walk", NoFile, n + 1, k))
               \/ Becomes(t, Walking("active", Walk[n], n + 1, k))
        BY <1>12, <2>2, CallFields DEF WalkOn, locks
      <3>2. /\ n + 1 \in 1..(Len(Walk) + 1) /\ Walk[n] \in File
            /\ "walk" \in Place /\ "active" \in Place
        BY <3>1, WalkAssumption DEF Place
      <3>3. \E c \in Call : Becomes(t, c) /\ c.at \notin {"force", "settle", "reply"}
        <4>1. Walking("walk", NoFile, n + 1, k) \in Call
          BY <3>1, <3>2, CallTypes
        <4>2. Walking("active", Walk[n], n + 1, k) \in Call
          BY <3>1, <3>2, CallTypes
        <4> QED
          BY <3>1, <4>1, <4>2, ReturnedAt
      <3> QED
        BY <3>1, <3>3, CallStepType DEF TypeOK, queue, locks
    <2> QED
      BY <2>1, <2>2
  <1>13. ASSUME NEW t \in Thread, CallFails(t) PROVE TypeOK'
    <2>1. \E c \in Call : Becomes(t, c) /\ c.at \notin {"force", "settle", "reply"}
      BY <1>13, CallTypes, ReturnedAt DEF CallFails
    <2> QED
      BY <1>13, <2>1, CallStepType DEF TypeOK, CallFails, Leaves, queue
  <1>14. ASSUME NEW j \in Job, Claim(j) PROVE TypeOK'
    BY <1>14 DEF TypeOK, Claim, locks, Status, Recorded
  <1>15. ASSUME NEW j \in Job, Finish(j) PROVE TypeOK'
    BY <1>15 DEF TypeOK, Finish, locks, Status, Recorded
  <1>16. ASSUME NEW j \in Job, Record(j) PROVE TypeOK'
    <2>1. /\ call' \in [Thread -> Call]
          /\ \A u \in Thread : call'[u].at \in {"force", "settle", "reply"} => call'[u].job \in Job
      <3>1. CASE Becomes(j, Filling)
        BY <3>1, CallTypes, ReturnedAt, CallStepType DEF Thread
      <3> QED
        BY <1>16, <3>1 DEF Record, TypeOK
    <2> QED
      BY <1>16, <2>1 DEF TypeOK, Record, locks, Recorded
  <1>17. ASSUME NEW j \in Job, RecordFails(j) PROVE TypeOK'
    BY <1>17 DEF TypeOK, RecordFails, locks, Status, Recorded
  <1>18. ASSUME NEW j \in Job, WindowPasses(j) PROVE TypeOK'
    BY <1>18 DEF TypeOK, WindowPasses, locks, Status, Recorded
  <1>19. ASSUME NEW c \in Caller, NEW f \in File, ProcessNow(c, f) PROVE TypeOK'
    <2>1. c \in Thread /\ "find" \in Place /\ "active" \in Place /\ "now" \in Mode
      BY DEF Thread, Place, Mode
    <2>2. \E b \in Call : Becomes(c, b) /\ b.at \notin {"force", "settle", "reply"}
      BY <1>19, <2>1, CallTypes, ReturnedAt DEF ProcessNow, Pending
    <2> QED
      BY <1>19, <2>1, <2>2, CallStepType DEF TypeOK, ProcessNow, queue, locks
  <1>20. ASSUME NEW c \in Caller, NEW f \in File, NEW m \in Mode, Request(c, f, m) PROVE TypeOK'
    <2>1. c \in Thread /\ "find" \in Place /\ "active" \in Place /\ "now" \in Mode
      BY DEF Thread, Place, Mode
    <2>2. \E b \in Call : Becomes(c, b) /\ b.at \notin {"force", "settle", "reply"}
      BY <1>20, <2>1, CallTypes, ReturnedAt DEF Request, Pending
    <2> QED
      BY <1>20, <2>1, <2>2, CallStepType DEF TypeOK, Request, queue, locks
  <1>21. ASSUME NEW c \in Caller, NEW j \in Job, CancelJob(c, j) PROVE TypeOK'
    <2>1. c \in Thread
      BY DEF Thread
    <2>2. \E b \in Call : Becomes(c, b) /\ b.at \notin {"force", "settle", "reply"}
      BY <1>21, CallTypes, ReturnedAt DEF CancelJob
    <2> QED
      BY <1>21, <2>1, <2>2, CallStepType DEF TypeOK, CancelJob, locks, Status
  <1>22. ASSUME NEW c \in Caller, Scan(c) PROVE TypeOK'
    <2>1. c \in Thread /\ "find" \in Place /\ "active" \in Place /\ "now" \in Mode
      BY DEF Thread, Place, Mode
    <2>2. \E b \in Call : Becomes(c, b) /\ b.at \notin {"force", "settle", "reply"}
      BY <1>22, <2>1, CallTypes, ReturnedAt DEF Scan, Pending
    <2> QED
      BY <1>22, <2>1, <2>2, CallStepType DEF TypeOK, Scan, queue, locks
  <1>23. ASSUME NEW c \in Caller, ClearQueue(c) PROVE TypeOK'
    <2>1. c \in Thread /\ "find" \in Place /\ "active" \in Place /\ "now" \in Mode
      BY DEF Thread, Place, Mode
    <2>2. \E b \in Call : Becomes(c, b) /\ b.at \notin {"force", "settle", "reply"}
      BY <1>23, <2>1, CallTypes, ReturnedAt DEF ClearQueue, Pending
    <2> QED
      BY <1>23, <2>1, <2>2, CallStepType DEF TypeOK, ClearQueue, queue, locks
  <1>24. ASSUME StopQueue PROVE TypeOK'
    BY <1>24 DEF TypeOK, StopQueue, locks
  <1>25. ASSUME UNCHANGED vars PROVE TypeOK'
    BY <1>25 DEF TypeOK, vars, queue, locks
  <1> QED
    BY <1>1, <1>2, <1>3, <1>4, <1>5, <1>6, <1>7, <1>8, <1>9, <1>10, <1>11, <1>12, <1>13,
       <1>14, <1>15, <1>16, <1>17, <1>18, <1>19, <1>20, <1>21, <1>22, <1>23, <1>24, <1>25
       DEF Next, CallStep, JobStep, CallerBegins

-----------------------------------------------------------------------------
(* What each step of a call does to the thread's record, field by field.   *)

Others(t) == \A u \in Thread : u # t => call'[u] = call[u]

Kept(t) == /\ call'[t].mode = call[t].mode /\ call'[t].file = call[t].file
           /\ call'[t].job = call[t].job /\ call'[t].count = call[t].count

Over(t) == call'[t].at = "idle" /\ call'[t].mode = "none"

\* enqueue_file has returned r.
Given(t, r) ==
    /\ call[t].mode = "fill" =>
         /\ call'[t].at = "walk" /\ call'[t].mode = "fill"
         /\ call'[t].count = IF r = NoJob THEN call[t].count ELSE call[t].count + 1
    /\ call[t].mode # "fill" =>
         /\ call'[t].mode # "fill"
         /\ \/ call'[t].at = "idle"
            \/ call'[t].at = "force" /\ call'[t].job = r /\ r # NoJob

Skipped(t) == Given(t, NoJob) /\ enqueueLock' = Leaves(enqueueLock, t) /\ topUpLock' = topUpLock

LEMMA BecomesShape ==
  ASSUME TypeOK, NEW t \in Thread, NEW c, Becomes(t, c)
  PROVE  Others(t) /\ call'[t] = c
  BY DEF TypeOK, Becomes, Others

LEMMA MovesShape ==
  ASSUME TypeOK, NEW t \in Thread, NEW a \in Place, a \notin {"force", "settle", "reply"}, Moves(t, a)
  PROVE  Others(t) /\ Kept(t) /\ call'[t].at = a
  BY MovesType DEF Others, Kept

LEMMA OverShape ==
  ASSUME TypeOK, NEW t \in Thread, Becomes(t, Returned)
  PROVE  Others(t) /\ Over(t)
  BY BecomesShape DEF Over, Returned, Begun

LEMMA GivenShape ==
  ASSUME TypeOK, NEW t \in Thread, NEW r \in Job \cup {NoJob}, Becomes(t, AfterEnqueueFile(t, r))
  PROVE  Others(t) /\ Given(t, r)
  <1>1. Others(t) /\ call'[t] = AfterEnqueueFile(t, r)
    BY BecomesShape
  <1>2. CASE call[t].mode = "fill"
    BY <1>1, <1>2 DEF AfterEnqueueFile, Walking, Given
  <1>3. CASE call[t].mode # "fill"
    BY <1>1, <1>3 DEF AfterEnqueueFile, Acting, Returned, Begun, Given
  <1> QED
    BY <1>2, <1>3, <1>1

LEMMA SkipsShape ==
  ASSUME TypeOK, NEW t \in Thread, Skips(t)
  PROVE  Others(t) /\ Skipped(t)
  BY GivenShape DEF Skips, Skipped

LEMMA NoDuplicateShape ==
  ASSUME TypeOK, NEW t \in Thread, NoDuplicate(t)
  PROVE  /\ Others(t) /\ Kept(t)
         /\ enqueueLock = t => call'[t].at = "insert"
         /\ enqueueLock # t => call'[t].at = "probe"
  <1>1. "insert" \in Place /\ "probe" \in Place
    BY DEF Place
  <1>2. CASE enqueueLock = t
    BY <1>1, <1>2, MovesShape DEF NoDuplicate
  <1>3. CASE enqueueLock # t
    BY <1>1, <1>3, MovesShape DEF NoDuplicate
  <1> QED
    BY <1>2, <1>3

LEMMA IsActiveShape ==
  ASSUME TypeOK, NEW t \in Thread, IsActive(t)
  PROVE  /\ Others(t) /\ call[t].at = "active" /\ UNCHANGED queue
         /\ \/ Skipped(t)
            \/ /\ ActiveOn(call[t].file) = {}
               /\ UNCHANGED locks /\ Kept(t)
               /\ \/ call'[t].at = "window"
                  \/ enqueueLock = t /\ call'[t].at = "insert"
                  \/ enqueueLock # t /\ call'[t].at = "probe"
  <1>1. call[t].at = "active" /\ UNCHANGED queue
    BY DEF IsActive, At
  <1>2. CASE Skips(t)
    BY <1>1, <1>2, SkipsShape
  <1>3. CASE ActiveOn(call[t].file) = {} /\ UNCHANGED locks /\ Moves(t, "window")
    <2>1. "window" \in Place
      BY DEF Place
    <2>2. Others(t) /\ Kept(t) /\ call'[t].at = "window"
      BY <1>3, <2>1, MovesShape
    <2> QED
      BY <1>1, <1>3, <2>2
  <1>4. CASE ActiveOn(call[t].file) = {} /\ UNCHANGED locks /\ NoDuplicate(t)
    BY <1>1, <1>4, NoDuplicateShape
  <1> QED
    BY <1>2, <1>3, <1>4 DEF IsActive

LEMMA IsRecentlyProcessedShape ==
  ASSUME TypeOK, NEW t \in Thread, IsRecentlyProcessed(t)
  PROVE  /\ Others(t) /\ call[t].at = "window" /\ UNCHANGED queue
         /\ \/ Skipped(t)
            \/ /\ UNCHANGED locks /\ Kept(t)
               /\ \/ enqueueLock = t /\ call'[t].at = "insert"
                  \/ enqueueLock # t /\ call'[t].at = "probe"
  BY SkipsShape, NoDuplicateShape DEF IsRecentlyProcessed, At

LEMMA ProbeShape ==
  ASSUME TypeOK, NEW t \in Thread, Probe(t)
  PROVE  /\ Others(t) /\ call[t].at = "probe" /\ UNCHANGED queue
         /\ Skipped(t) \/ (UNCHANGED locks /\ Kept(t) /\ call'[t].at = "lock")
  <1>1. "lock" \in Place
    BY DEF Place
  <1> QED
    BY <1>1, SkipsShape, MovesShape DEF Probe, At

LEMMA TakeEnqueueLockShape ==
  ASSUME TypeOK, NEW t \in Thread, TakeEnqueueLock(t)
  PROVE  /\ Others(t) /\ call[t].at = "lock" /\ UNCHANGED queue
         /\ enqueueLock = NoThread /\ enqueueLock' = t /\ topUpLock' = topUpLock
         /\ Kept(t) /\ call'[t].at = "active"
  <1>1. "active" \in Place
    BY DEF Place
  <1> QED
    BY <1>1, MovesShape DEF TakeEnqueueLock, At

LEMMA InsertShape ==
  ASSUME TypeOK, NEW t \in Thread, Insert(t)
  PROVE  /\ Others(t) /\ call[t].at = "insert"
         /\ enqueueLock' = Leaves(enqueueLock, t) /\ UNCHANGED <<recorded, down>>
         /\ \E j \in Unused :
              /\ status' = [status EXCEPT ![j] = "pending"]
              /\ file' = [file EXCEPT ![j] = call[t].file]
              /\ filled' = IF call[t].mode = "fill" THEN filled \cup {j} ELSE filled
              /\ \/ Given(t, j) /\ topUpLock' = topUpLock
                 \/ Over(t) /\ topUpLock' = Leaves(topUpLock, t)
  <1>1. PICK j \in Unused :
           /\ status' = [status EXCEPT ![j] = "pending"]
           /\ file' = [file EXCEPT ![j] = call[t].file]
           /\ filled' = IF call[t].mode = "fill" THEN filled \cup {j} ELSE filled
           /\ \/ Becomes(t, AfterEnqueueFile(t, j)) /\ UNCHANGED topUpLock
              \/ Becomes(t, Returned) /\ topUpLock' = Leaves(topUpLock, t)
    BY DEF Insert
  <1>2. j \in Job
    BY DEF Unused
  <1>3. /\ Others(t)
        /\ \/ Given(t, j) /\ topUpLock' = topUpLock
           \/ Over(t) /\ topUpLock' = Leaves(topUpLock, t)
    BY <1>1, <1>2, GivenShape, OverShape
  <1> QED
    BY <1>1, <1>3 DEF Insert, At

LEMMA FindActiveShape ==
  ASSUME TypeOK, NEW t \in Thread, FindActive(t)
  PROVE  /\ Others(t) /\ call[t].at = "find" /\ UNCHANGED <<queue, locks>>
         /\ \/ Kept(t) /\ call'[t].at = "active"
            \/ /\ call'[t].mode = "now" /\ call'[t].job \in Active
               /\ call'[t].at = IF status[call'[t].job] = "pending" THEN "force" ELSE "reply"
  <1>1. CASE Moves(t, "active")
    <2>1. "active" \in Place
      BY DEF Place
    <2> QED
      BY <1>1, <2>1, MovesShape DEF FindActive, At
  <1>2. ASSUME NEW j \in ActiveOn(call[t].file),
               Becomes(t, Acting(IF status[j] = "pending" THEN "force" ELSE "reply", j))
        PROVE  /\ Others(t) /\ call'[t].mode = "now" /\ call'[t].job \in Active
               /\ call'[t].at = IF status[call'[t].job] = "pending" THEN "force" ELSE "reply"
    BY <1>2, BecomesShape DEF Acting, ActiveOn
  <1> QED
    BY <1>1, <1>2 DEF FindActive, At

\* force_start, settling and the reply.
LEMMA ActShape ==
  ASSUME TypeOK, NEW t \in Thread, ForceStart(t) \/ Settle(t) \/ Reply(t)
  PROVE  /\ Others(t) /\ call[t].at \in {"force", "settle", "reply"} /\ UNCHANGED locks
         /\ \/ call'[t].at \in {"settle", "reply"} /\ Kept(t)
            \/ Over(t)
         /\ call'[t].at \in {"settle", "reply"} => call'[t].job = call[t].job
         /\ call'[t].at = "settle" => call[t].at = "force"
         /\ call'[t].at = "reply" => call[t].at \in {"force", "settle"}
  <1>1. /\ call[t].at \in {"force", "settle", "reply"} /\ call[t].job \in Job /\ UNCHANGED locks
        /\ "settle" \in Place /\ "reply" \in Place
    BY DEF ForceStart, Settle, Reply, At, TypeOK, Place
  <1>2. \/ Moves(t, "settle") /\ call[t].at = "force"
        \/ Moves(t, "reply") /\ call[t].at \in {"force", "settle"}
        \/ Becomes(t, Returned)
    BY DEF ForceStart, Settle, Reply, At
  <1>3. ASSUME NEW a \in {"settle", "reply"}, Moves(t, a)
        PROVE  Others(t) /\ Kept(t) /\ call'[t].at = a
    BY <1>1, <1>3, MovesType DEF Others, Kept
  <1>4. CASE Becomes(t, Returned)
    BY <1>1, <1>4, OverShape DEF Over
  <1> QED
    BY <1>1, <1>2, <1>3, <1>4 DEF Kept

LEMMA ClearNextShape ==
  ASSUME TypeOK, NEW t \in Thread, ClearNext(t)
  PROVE  /\ Others(t) /\ call[t].at = "clear" /\ UNCHANGED <<file, filled, recorded, down, locks>>
         /\ Over(t) \/ (call'[t].mode = "fill" /\ call'[t].at \in {"clear", "topUp"})
         /\ status' = status \/ \E j \in Pending : status' = [status EXCEPT ![j] = "gone"]
  <1>1. /\ call[t].at = "clear" /\ UNCHANGED <<file, filled, recorded, down, locks>>
        /\ status' = status \/ \E j \in Pending : status' = [status EXCEPT ![j] = "gone"]
    BY CallFields DEF ClearNext, At, Pending
  <1>2. \/ Becomes(t, Returned) \/ Becomes(t, Filling)
        \/ \E j \in call[t].todo : Becomes(t, Clearing(call[t].todo \ {j}))
    BY DEF ClearNext
  <1>3. CASE Becomes(t, Returned)
    BY <1>1, <1>3, OverShape
  <1>4. CASE Becomes(t, Filling)
    BY <1>1, <1>4, BecomesShape DEF Filling, Begun
  <1>5. ASSUME NEW j, Becomes(t, Clearing(call[t].todo \ {j}))
        PROVE  Others(t) /\ call'[t].mode = "fill" /\ call'[t].at = "clear"
    BY <1>5, BecomesShape DEF Clearing
  <1> QED
    BY <1>1, <1>2, <1>3, <1>4, <1>5

LEMMA CountPendingShape ==
  ASSUME TypeOK, NEW t \in Thread, CountPending(t)
  PROVE  /\ Others(t) /\ call[t].at = "topUp" /\ topUpLock = NoThread
         /\ UNCHANGED <<queue, enqueueLock>>
         /\ \/ Over(t) /\ topUpLock' = topUpLock
            \/ /\ topUpLock' = t /\ call'[t].at = "walk" /\ call'[t].mode = "fill"
               /\ call'[t].count = Cardinality(Pending)
  <1>1. CASE Becomes(t, Returned) /\ UNCHANGED topUpLock
    BY <1>1, OverShape DEF CountPending, At
  <1>2. CASE Becomes(t, Walking("walk", NoFile, 1, Cardinality(Pending))) /\ topUpLock' = t
    BY <1>2, BecomesShape DEF CountPending, At, Walking
  <1> QED
    BY <1>1, <1>2 DEF CountPending

LEMMA WalkOnShape ==
  ASSUME TypeOK, NEW t \in Thread, WalkOn(t)
  PROVE  /\ Others(t) /\ call[t].at = "walk" /\ UNCHANGED <<queue, enqueueLock>>
         /\ \/ Over(t) /\ topUpLock' = Leaves(topUpLock, t)
            \/ /\ topUpLock' = topUpLock /\ call'[t].mode = "fill"
               /\ call[t].count < Limit /\ call'[t].count = call[t].count
               /\ \/ call'[t].at = "walk"
                  \/ call'[t].at = "active" /\ call'[t].file \in File
  <1> DEFINE n == call[t].next
             k == call[t].count
  <1>1. call[t].at = "walk" /\ UNCHANGED <<queue, enqueueLock>>
    BY DEF WalkOn, At
  <1>2. CASE TopUpReturns(t)
    BY <1>1, <1>2, OverShape DEF TopUpReturns
  <1>3. CASE ~TopUpReturns(t)
    <2>1. /\ topUpLock' = topUpLock /\ ~(k >= Limit) /\ ~(n > Len(Walk))
          /\ \/ Becomes(t, Walking("walk", NoFile, n + 1, k))
             \/ Becomes(t, Walking("active", Walk[n], n + 1, k))
      BY <1>3 DEF WalkOn
    <2>2. k < Limit /\ Walk[n] \in File
      BY <2>1, CallFields, WalkAssumption
    <2> QED
      BY <1>1, <2>1, <2>2, BecomesShape DEF Walking
  <1> QED
    BY <1>2, <1>3

LEMMA CallFailsShape ==
  ASSUME TypeOK, NEW t \in Thread, CallFails(t)
  PROVE  /\ Others(t) /\ Over(t) /\ UNCHANGED queue
         /\ call[t].at \in {"window", "probe", "walk", "insert"}
         /\ enqueueLock' = Leaves(enqueueLock, t) /\ topUpLock' = Leaves(topUpLock, t)
  BY OverShape DEF CallFails, At


LEMMA BeginsShape ==
  ASSUME TypeOK, NEW c \in Caller, CallerBegins(c)
  PROVE  /\ Others(c) /\ call[c].at = "idle" /\ UNCHANGED locks
         /\ UNCHANGED <<file, filled, recorded, down>>
         /\ \/ call'[c].at \in {"find", "active"} /\ call'[c].mode # "fill" /\ call'[c].file \in File
            \/ call'[c].at \in {"topUp", "clear"} /\ call'[c].mode = "fill"
            \/ Over(c)
         /\ status' = status \/ \E j \in Pending : status' = [status EXCEPT ![j] = "gone"]
  <1>1. c \in Thread
    BY DEF Thread
  <1>2. ASSUME NEW f \in File, ProcessNow(c, f) \/ \E m \in Mode : Request(c, f, m)
        PROVE  /\ Others(c) /\ call[c].at = "idle" /\ UNCHANGED <<queue, locks>>
               /\ call'[c].at \in {"find", "active"} /\ call'[c].mode # "fill" /\ call'[c].file \in File
    <2>1. Free(c) /\ UNCHANGED <<queue, locks>>
      BY <1>2 DEF ProcessNow, Request
    <2>2. \E m \in {"now", "auto", "manual"}, a \in {"find", "active"} : Becomes(c, Begun(a, m, f))
      BY <1>2 DEF ProcessNow, Request
    <2> QED
      BY <1>1, <2>1, <2>2, BecomesShape DEF Free, At, Begun
  <1>3. ASSUME NEW j \in Job, CancelJob(c, j)
        PROVE  /\ Others(c) /\ call[c].at = "idle" /\ UNCHANGED <<file, filled, recorded, down, locks>>
               /\ Over(c) \/ (call'[c].at = "topUp" /\ call'[c].mode = "fill")
               /\ status' = status \/ \E i \in Pending : status' = [status EXCEPT ![i] = "gone"]
    <2>1. Becomes(c, Filling) \/ Becomes(c, Returned)
      BY <1>3 DEF CancelJob
    <2>2. Others(c) /\ (Over(c) \/ (call'[c].at = "topUp" /\ call'[c].mode = "fill"))
      BY <1>1, <2>1, BecomesShape, OverShape DEF Filling, Begun
    <2> QED
      BY <1>3, <2>2 DEF CancelJob, Free, At, Pending
  <1>4. ASSUME Scan(c) \/ ClearQueue(c)
        PROVE  /\ Others(c) /\ call[c].at = "idle" /\ UNCHANGED <<queue, locks>>
               /\ call'[c].at \in {"topUp", "clear"} /\ call'[c].mode = "fill"
    BY <1>1, <1>4, BecomesShape DEF Scan, ClearQueue, Free, At, Filling, Begun, Clearing
  <1> QED
    BY <1>2, <1>3, <1>4 DEF queue, CallerBegins

LEMMA RecordShape ==
  ASSUME TypeOK, NEW j \in Job, Record(j)
  PROVE  /\ UNCHANGED <<status, file, filled, down, locks>>
         /\ \/ call' = call
            \/ /\ Others(j) /\ call[j].at = "idle"
               /\ call'[j].at = "topUp" /\ call'[j].mode = "fill"
  <1>1. j \in Thread
    BY DEF Thread
  <1>2. CASE Free(j) /\ Becomes(j, Filling)
    BY <1>1, <1>2, BecomesShape DEF Record, Free, At, Filling, Begun
  <1> QED
    BY <1>2 DEF Record


-----------------------------------------------------------------------------
(* Whose turn it is: a step acts for one thread, or leaves all calls alone. *)

\* Lock l, now m, was kept, given back or taken by t.
Handled(l, m, t) == m \in {l, Leaves(l, t)} \/ (l = NoThread /\ m = t)

Turn(t) == /\ Others(t)
           /\ Handled(enqueueLock, enqueueLock', t) /\ Handled(topUpLock, topUpLock', t)

Quiet == UNCHANGED <<call, locks>>

Acts(t) == \/ CallStep(t)
           \/ t \in Job /\ Record(t) /\ call' # call
           \/ t \in Caller /\ CallerBegins(t)


\* Every step is a turn of one thread or leaves calls and locks alone.
LEMMA Turns == TypeOK /\ [Next]_vars => (Quiet \/ \E u \in Thread : Acts(u) /\ Turn(u))
  <1> SUFFICES ASSUME TypeOK, [Next]_vars PROVE (Quiet \/ \E u \in Thread : Acts(u) /\ Turn(u))
    OBVIOUS
  <1>1. ASSUME NEW t \in Thread, IsActive(t)
        PROVE  Quiet \/ \E u \in Thread : Acts(u) /\ Turn(u)
    BY <1>1, IsActiveShape DEF Turn, Handled, Acts, CallStep, Skipped, locks
  <1>2. ASSUME NEW t \in Thread, IsRecentlyProcessed(t)
        PROVE  Quiet \/ \E u \in Thread : Acts(u) /\ Turn(u)
    BY <1>2, IsRecentlyProcessedShape DEF Turn, Handled, Acts, CallStep, Skipped, locks
  <1>3. ASSUME NEW t \in Thread, Probe(t)
        PROVE  Quiet \/ \E u \in Thread : Acts(u) /\ Turn(u)
    BY <1>3, ProbeShape DEF Turn, Handled, Acts, CallStep, Skipped, locks
  <1>4. ASSUME NEW t \in Thread, TakeEnqueueLock(t)
        PROVE  Quiet \/ \E u \in Thread : Acts(u) /\ Turn(u)
    BY <1>4, TakeEnqueueLockShape DEF Turn, Handled, Acts, CallStep, locks
  <1>5. ASSUME NEW t \in Thread, Insert(t)
        PROVE  Quiet \/ \E u \in Thread : Acts(u) /\ Turn(u)
    BY <1>5, InsertShape DEF Turn, Handled, Acts, CallStep, locks
  <1>6. ASSUME NEW t \in Thread, FindActive(t)
        PROVE  Quiet \/ \E u \in Thread : Acts(u) /\ Turn(u)
    BY <1>6, FindActiveShape DEF Turn, Handled, Acts, CallStep, locks
  <1>7. ASSUME NEW t \in Thread, ForceStart(t)
        PROVE  Quiet \/ \E u \in Thread : Acts(u) /\ Turn(u)
    BY <1>7, ActShape DEF Turn, Handled, Acts, CallStep, locks
  <1>8. ASSUME NEW t \in Thread, Settle(t)
        PROVE  Quiet \/ \E u \in Thread : Acts(u) /\ Turn(u)
    BY <1>8, ActShape DEF Turn, Handled, Acts, CallStep, locks
  <1>9. ASSUME NEW t \in Thread, Reply(t)
        PROVE  Quiet \/ \E u \in Thread : Acts(u) /\ Turn(u)
    BY <1>9, ActShape DEF Turn, Handled, Acts, CallStep, locks
  <1>10. ASSUME NEW t \in Thread, ClearNext(t)
         PROVE  Quiet \/ \E u \in Thread : Acts(u) /\ Turn(u)
    BY <1>10, ClearNextShape DEF Turn, Handled, Acts, CallStep, locks
  <1>11. ASSUME NEW t \in Thread, CountPending(t)
         PROVE  Quiet \/ \E u \in Thread : Acts(u) /\ Turn(u)
    BY <1>11, CountPendingShape DEF Turn, Handled, Acts, CallStep, locks
  <1>12. ASSUME NEW t \in Thread, WalkOn(t)
         PROVE  Quiet \/ \E u \in Thread : Acts(u) /\ Turn(u)
    BY <1>12, WalkOnShape DEF Turn, Handled, Acts, CallStep, locks
  <1>13. ASSUME NEW t \in Thread, CallFails(t)
         PROVE  Quiet \/ \E u \in Thread : Acts(u) /\ Turn(u)
    BY <1>13, CallFailsShape DEF Turn, Handled, Acts, CallStep, locks
  <1>14. ASSUME NEW j \in Job, Claim(j)
         PROVE  Quiet \/ \E u \in Thread : Acts(u) /\ Turn(u)
    BY <1>14 DEF Quiet, Claim, locks
  <1>15. ASSUME NEW j \in Job, Finish(j)
         PROVE  Quiet \/ \E u \in Thread : Acts(u) /\ Turn(u)
    BY <1>15 DEF Quiet, Finish, locks
  <1>16. ASSUME NEW j \in Job, Record(j)
         PROVE  Quiet \/ \E u \in Thread : Acts(u) /\ Turn(u)
    BY <1>16, RecordShape DEF Turn, Handled, Quiet, Acts, locks, Thread
  <1>17. ASSUME NEW j \in Job, RecordFails(j)
         PROVE  Quiet \/ \E u \in Thread : Acts(u) /\ Turn(u)
    BY <1>17 DEF Quiet, RecordFails, locks
  <1>18. ASSUME NEW j \in Job, WindowPasses(j)
         PROVE  Quiet \/ \E u \in Thread : Acts(u) /\ Turn(u)
    BY <1>18 DEF Quiet, WindowPasses, locks
  <1>19. ASSUME NEW c \in Caller, CallerBegins(c)
         PROVE  Quiet \/ \E u \in Thread : Acts(u) /\ Turn(u)
    BY <1>19, BeginsShape DEF Turn, Handled, Acts, locks, Thread
  <1>20. ASSUME StopQueue
         PROVE  Quiet \/ \E u \in Thread : Acts(u) /\ Turn(u)
    BY <1>20 DEF Quiet, StopQueue, locks
  <1>21. ASSUME UNCHANGED vars
         PROVE  Quiet \/ \E u \in Thread : Acts(u) /\ Turn(u)
    BY <1>21 DEF Quiet, vars, locks
  <1> QED
    BY <1>1, <1>2, <1>3, <1>4, <1>5, <1>6, <1>7, <1>8, <1>9, <1>10, <1>11, <1>12, <1>13,
       <1>14, <1>15, <1>16, <1>17, <1>18, <1>19, <1>20, <1>21
       DEF Next, CallStep, JobStep

-----------------------------------------------------------------------------
(* The parts of the invariant.                                             *)

\* A thread that acts takes and leaves locks with the places they go with.
LEMMA LocksActs ==
  ASSUME TypeOK, Locks, NEW t \in Thread, Acts(t)
  PROVE  LocksOf(t)'
  <1>0. LocksOf(t) /\ t # NoThread
    BY NameAssumption DEF Locks, Thread
  <1>1. CASE IsActive(t)
    BY <1>1, <1>0, IsActiveShape
       DEF LocksOf, Trying, Skipped, Given, Over, Kept, Leaves, locks
  <1>2. CASE IsRecentlyProcessed(t)
    BY <1>2, <1>0, IsRecentlyProcessedShape
       DEF LocksOf, Trying, Skipped, Given, Over, Kept, Leaves, locks
  <1>3. CASE Probe(t)
    BY <1>3, <1>0, ProbeShape
       DEF LocksOf, Trying, Skipped, Given, Over, Kept, Leaves, locks
  <1>4. CASE TakeEnqueueLock(t)
    BY <1>4, <1>0, TakeEnqueueLockShape
       DEF LocksOf, Trying, Skipped, Given, Over, Kept, Leaves, locks
  <1>5. CASE Insert(t)
    BY <1>5, <1>0, InsertShape
       DEF LocksOf, Trying, Skipped, Given, Over, Kept, Leaves, locks
  <1>6. CASE FindActive(t)
    BY <1>6, <1>0, FindActiveShape
       DEF LocksOf, Trying, Skipped, Given, Over, Kept, Leaves, locks
  <1>7. CASE ForceStart(t)
    BY <1>7, <1>0, ActShape
       DEF LocksOf, Trying, Skipped, Given, Over, Kept, Leaves, locks
  <1>8. CASE Settle(t)
    BY <1>8, <1>0, ActShape
       DEF LocksOf, Trying, Skipped, Given, Over, Kept, Leaves, locks
  <1>9. CASE Reply(t)
    BY <1>9, <1>0, ActShape
       DEF LocksOf, Trying, Skipped, Given, Over, Kept, Leaves, locks
  <1>10. CASE ClearNext(t)
    BY <1>10, <1>0, ClearNextShape
       DEF LocksOf, Trying, Skipped, Given, Over, Kept, Leaves, locks
  <1>11. CASE CountPending(t)
    BY <1>11, <1>0, CountPendingShape
       DEF LocksOf, Trying, Skipped, Given, Over, Kept, Leaves, locks
  <1>12. CASE WalkOn(t)
    BY <1>12, <1>0, WalkOnShape
       DEF LocksOf, Trying, Skipped, Given, Over, Kept, Leaves, locks
  <1>13. CASE CallFails(t)
    BY <1>13, <1>0, CallFailsShape
       DEF LocksOf, Trying, Skipped, Given, Over, Kept, Leaves, locks
  <1>14. ASSUME t \in Job, Record(t), call' # call PROVE LocksOf(t)'
    BY <1>14, <1>0, RecordShape
       DEF LocksOf, Trying, Skipped, Given, Over, Kept, Leaves, locks
  <1>15. ASSUME t \in Caller, CallerBegins(t) PROVE LocksOf(t)'
    BY <1>15, <1>0, BeginsShape
       DEF LocksOf, Trying, Skipped, Given, Over, Kept, Leaves, locks
  <1> QED
    BY <1>1, <1>2, <1>3, <1>4, <1>5, <1>6, <1>7, <1>8,
       <1>9, <1>10, <1>11, <1>12, <1>13, <1>14, <1>15
       DEF Acts, CallStep

LEMMA LocksStep == TypeOK /\ Locks /\ [Next]_vars => Locks'
  <1> SUFFICES ASSUME TypeOK, Locks, [Next]_vars PROVE Locks'
    OBVIOUS
  <1>1. CASE Quiet
    BY <1>1 DEF Quiet, Locks, LocksOf, locks
  <1>2. ASSUME NEW t \in Thread, Acts(t), Turn(t) PROVE Locks'
    BY <1>2, LocksActs, NameAssumption
       DEF Turn, Handled, Others, Leaves, Locks, LocksOf, Thread
  <1> QED
    BY <1>1, <1>2, Turns

\* Apart from an insert, jobs only move on: none joins the queue or comes back.
MovesOn(j) ==
    \/ status'[j] = status[j]
    \/ status[j] = "pending" /\ status'[j] \in {"running", "gone"}
    \/ status[j] = "running" /\ status'[j] = "ended"

Shrinks == UNCHANGED <<file, filled>> /\ \A j \in Job : MovesOn(j)

\* What a step does to the queue.
LEMMA QueueStep == TypeOK /\ [Next]_vars => (Shrinks \/ \E u \in Thread : Insert(u))
  <1> SUFFICES ASSUME TypeOK, [Next]_vars PROVE (Shrinks \/ \E u \in Thread : Insert(u))
    OBVIOUS
  <1>1. ASSUME NEW t \in Thread, IsActive(t)
        PROVE  Shrinks \/ \E u \in Thread : Insert(u)
    BY <1>1, IsActiveShape DEF Shrinks, MovesOn, queue
  <1>2. ASSUME NEW t \in Thread, IsRecentlyProcessed(t)
        PROVE  Shrinks \/ \E u \in Thread : Insert(u)
    BY <1>2, IsRecentlyProcessedShape DEF Shrinks, MovesOn, queue
  <1>3. ASSUME NEW t \in Thread, Probe(t)
        PROVE  Shrinks \/ \E u \in Thread : Insert(u)
    BY <1>3, ProbeShape DEF Shrinks, MovesOn, queue
  <1>4. ASSUME NEW t \in Thread, TakeEnqueueLock(t)
        PROVE  Shrinks \/ \E u \in Thread : Insert(u)
    BY <1>4, TakeEnqueueLockShape DEF Shrinks, MovesOn, queue
  <1>5. ASSUME NEW t \in Thread, Insert(t)
        PROVE  Shrinks \/ \E u \in Thread : Insert(u)
    BY <1>5
  <1>6. ASSUME NEW t \in Thread, FindActive(t)
        PROVE  Shrinks \/ \E u \in Thread : Insert(u)
    BY <1>6, FindActiveShape DEF Shrinks, MovesOn, queue
  <1>7. ASSUME NEW t \in Thread, ForceStart(t)
        PROVE  Shrinks \/ \E u \in Thread : Insert(u)
    BY <1>7 DEF Shrinks, MovesOn, ForceStart, TypeOK
  <1>8. ASSUME NEW t \in Thread, Settle(t)
        PROVE  Shrinks \/ \E u \in Thread : Insert(u)
    BY <1>8 DEF Shrinks, MovesOn, Settle, queue
  <1>9. ASSUME NEW t \in Thread, Reply(t)
        PROVE  Shrinks \/ \E u \in Thread : Insert(u)
    BY <1>9 DEF Shrinks, MovesOn, Reply, queue
  <1>10. ASSUME NEW t \in Thread, ClearNext(t)
         PROVE  Shrinks \/ \E u \in Thread : Insert(u)
    BY <1>10, ClearNextShape DEF Shrinks, MovesOn, TypeOK, Pending
  <1>11. ASSUME NEW t \in Thread, CountPending(t)
         PROVE  Shrinks \/ \E u \in Thread : Insert(u)
    BY <1>11, CountPendingShape DEF Shrinks, MovesOn, queue
  <1>12. ASSUME NEW t \in Thread, WalkOn(t)
         PROVE  Shrinks \/ \E u \in Thread : Insert(u)
    BY <1>12, WalkOnShape DEF Shrinks, MovesOn, queue
  <1>13. ASSUME NEW t \in Thread, CallFails(t)
         PROVE  Shrinks \/ \E u \in Thread : Insert(u)
    BY <1>13, CallFailsShape DEF Shrinks, MovesOn, queue
  <1>14. ASSUME NEW j \in Job, Claim(j)
         PROVE  Shrinks \/ \E u \in Thread : Insert(u)
    BY <1>14 DEF Shrinks, MovesOn, Claim, TypeOK
  <1>15. ASSUME NEW j \in Job, Finish(j)
         PROVE  Shrinks \/ \E u \in Thread : Insert(u)
    BY <1>15 DEF Shrinks, MovesOn, Finish, TypeOK
  <1>16. ASSUME NEW j \in Job, Record(j)
         PROVE  Shrinks \/ \E u \in Thread : Insert(u)
    BY <1>16 DEF Shrinks, MovesOn, Record
  <1>17. ASSUME NEW j \in Job, RecordFails(j)
         PROVE  Shrinks \/ \E u \in Thread : Insert(u)
    BY <1>17 DEF Shrinks, MovesOn, RecordFails, TypeOK
  <1>18. ASSUME NEW j \in Job, WindowPasses(j)
         PROVE  Shrinks \/ \E u \in Thread : Insert(u)
    BY <1>18 DEF Shrinks, MovesOn, WindowPasses, TypeOK
  <1>19. ASSUME NEW c \in Caller, CallerBegins(c)
         PROVE  Shrinks \/ \E u \in Thread : Insert(u)
    BY <1>19, BeginsShape DEF Shrinks, MovesOn, TypeOK, Pending
  <1>20. ASSUME StopQueue
         PROVE  Shrinks \/ \E u \in Thread : Insert(u)
    BY <1>20 DEF Shrinks, MovesOn, StopQueue
  <1>21. ASSUME UNCHANGED vars
         PROVE  Shrinks \/ \E u \in Thread : Insert(u)
    BY <1>21 DEF Shrinks, MovesOn, vars, queue
  <1> QED
    BY <1>1, <1>2, <1>3, <1>4, <1>5, <1>6, <1>7, <1>8, <1>9, <1>10, <1>11, <1>12, <1>13,
       <1>14, <1>15, <1>16, <1>17, <1>18, <1>19, <1>20, <1>21
       DEF Next, CallStep, JobStep

\* What an insert does to the queue.
Inserted(t, j) ==
    /\ j \in Unused /\ status'[j] = "pending" /\ file'[j] = call[t].file
    /\ \A i \in Job : i # j => status'[i] = status[i] /\ file'[i] = file[i]
    /\ filled' = IF call[t].mode = "fill" THEN filled \cup {j} ELSE filled
    /\ Active' = Active \cup {j} /\ Pending' = Pending \cup {j}

LEMMA InsertFacts ==
  ASSUME TypeOK, NEW t \in Thread, Insert(t)
  PROVE  /\ Others(t) /\ call[t].at = "insert" /\ enqueueLock' = Leaves(enqueueLock, t)
         /\ \E j \in Job :
              /\ Inserted(t, j)
              /\ \/ Given(t, j) /\ topUpLock' = topUpLock
                 \/ Over(t) /\ topUpLock' = Leaves(topUpLock, t)
  <1>1. PICK j \in Unused :
           /\ status' = [status EXCEPT ![j] = "pending"]
           /\ file' = [file EXCEPT ![j] = call[t].file]
           /\ filled' = IF call[t].mode = "fill" THEN filled \cup {j} ELSE filled
           /\ \/ Given(t, j) /\ topUpLock' = topUpLock
              \/ Over(t) /\ topUpLock' = Leaves(topUpLock, t)
    BY InsertShape
  <1>2. /\ j \in Job /\ status'[j] = "pending" /\ file'[j] = call[t].file
        /\ \A i \in Job : i # j => status'[i] = status[i] /\ file'[i] = file[i]
    BY <1>1 DEF Unused, TypeOK
  <1>3. Active' = Active \cup {j} /\ Pending' = Pending \cup {j}
    BY <1>2 DEF Active, Pending
  <1>4. Inserted(t, j)
    BY <1>1, <1>2, <1>3 DEF Inserted
  <1> QED
    BY <1>1, <1>2, <1>4, InsertShape

LEMMA ShrinkFacts ==
  ASSUME Shrinks
  PROVE  /\ Active' \subseteq Active /\ Pending' \subseteq Pending
         /\ \A f : ActiveOn(f)' \subseteq ActiveOn(f)
  BY DEF Shrinks, MovesOn, Active, Pending, ActiveOn

\* A job that is in use stays so, and one that was started stays started.
LEMMA JobStays ==
  ASSUME TypeOK, [Next]_vars, NEW j \in Job
  PROVE  /\ status[j] # "unused" => status'[j] # "unused"
         /\ status[j] \in {"running", "ended"} => status'[j] \in {"running", "ended"}
  <1>1. CASE Shrinks
    BY <1>1 DEF Shrinks, MovesOn
  <1>2. ASSUME NEW t \in Thread, Insert(t)
        PROVE  /\ status[j] # "unused" => status'[j] # "unused"
               /\ status[j] \in {"running", "ended"} => status'[j] \in {"running", "ended"}
    BY <1>2, InsertFacts DEF Inserted, Unused
  <1> QED
    BY <1>1, <1>2, QueueStep

\* Jobs in the queue go on having a file.
LEMMA FiledStep == TypeOK /\ Filed /\ Names /\ [Next]_vars => Filed'
  <1> SUFFICES ASSUME TypeOK, Filed, Names, [Next]_vars PROVE Filed'
    OBVIOUS
  <1>1. CASE Shrinks
    BY <1>1 DEF Filed, Shrinks, MovesOn
  <1>2. ASSUME NEW t \in Thread, Insert(t) PROVE Filed'
    <2>1. call[t].file \in File
      BY <1>2, InsertFacts DEF Names, NamesOf, Trying
    <2> QED
      BY <1>2, <2>1, InsertFacts DEF Filed, Inserted, Unused
  <1> QED
    BY <1>1, <1>2, QueueStep

\* A thread that acts knows the file or the job it goes on with.
LEMMA NamesActs ==
  ASSUME TypeOK, Names, [Next]_vars, NEW t \in Thread, Acts(t)
  PROVE  NamesOf(t)'
  <1>0. NamesOf(t)
    BY DEF Names
  <1>1. CASE IsActive(t)
    BY <1>1, <1>0, IsActiveShape, JobStays
       DEF NamesOf, Trying, Skipped, Given, Over, Kept, TypeOK
  <1>2. CASE IsRecentlyProcessed(t)
    BY <1>2, <1>0, IsRecentlyProcessedShape, JobStays
       DEF NamesOf, Trying, Skipped, Given, Over, Kept, TypeOK
  <1>3. CASE Probe(t)
    BY <1>3, <1>0, ProbeShape, JobStays
       DEF NamesOf, Trying, Skipped, Given, Over, Kept, TypeOK
  <1>4. CASE TakeEnqueueLock(t)
    BY <1>4, <1>0, TakeEnqueueLockShape, JobStays
       DEF NamesOf, Trying, Skipped, Given, Over, Kept, TypeOK
  <1>5. CASE Insert(t)
    BY <1>5, <1>0, InsertFacts, JobStays
       DEF NamesOf, Trying, Skipped, Given, Over, Kept, Inserted, TypeOK
  <1>6. CASE FindActive(t)
    BY <1>6, <1>0, FindActiveShape, JobStays
       DEF NamesOf, Trying, Skipped, Given, Over, Kept, Active, TypeOK
  <1>7. CASE ForceStart(t)
    BY <1>7, <1>0, ActShape, JobStays
       DEF NamesOf, Trying, Skipped, Given, Over, Kept, TypeOK
  <1>8. CASE Settle(t)
    BY <1>8, <1>0, ActShape, JobStays
       DEF NamesOf, Trying, Skipped, Given, Over, Kept, TypeOK
  <1>9. CASE Reply(t)
    BY <1>9, <1>0, ActShape, JobStays
       DEF NamesOf, Trying, Skipped, Given, Over, Kept, TypeOK
  <1>10. CASE ClearNext(t)
    BY <1>10, <1>0, ClearNextShape, JobStays
       DEF NamesOf, Trying, Skipped, Given, Over, Kept, TypeOK
  <1>11. CASE CountPending(t)
    BY <1>11, <1>0, CountPendingShape, JobStays
       DEF NamesOf, Trying, Skipped, Given, Over, Kept, TypeOK
  <1>12. CASE WalkOn(t)
    BY <1>12, <1>0, WalkOnShape, JobStays
       DEF NamesOf, Trying, Skipped, Given, Over, Kept, TypeOK
  <1>13. CASE CallFails(t)
    BY <1>13, <1>0, CallFailsShape, JobStays
       DEF NamesOf, Trying, Skipped, Given, Over, Kept, TypeOK
  <1>14. ASSUME t \in Job, Record(t), call' # call PROVE NamesOf(t)'
    BY <1>14, <1>0, RecordShape, JobStays
       DEF NamesOf, Trying, Skipped, Given, Over, Kept, TypeOK
  <1>15. ASSUME t \in Caller, CallerBegins(t) PROVE NamesOf(t)'
    BY <1>15, <1>0, BeginsShape, JobStays
       DEF NamesOf, Trying, Skipped, Given, Over, Kept, TypeOK
  <1> QED
    BY <1>1, <1>2, <1>3, <1>4, <1>5, <1>6, <1>7, <1>8,
       <1>9, <1>10, <1>11, <1>12, <1>13, <1>14, <1>15
       DEF Acts, CallStep

LEMMA NamesStep == TypeOK /\ Names /\ [Next]_vars => Names'
  <1> SUFFICES ASSUME TypeOK, Names, [Next]_vars PROVE Names'
    OBVIOUS
  <1>1. ASSUME NEW u \in Thread, call'[u] = call[u] PROVE NamesOf(u)'
    BY <1>1, JobStays DEF Names, NamesOf, TypeOK
  <1>2. CASE Quiet
    BY <1>1, <1>2 DEF Quiet, Names
  <1>3. ASSUME NEW t \in Thread, Acts(t), Turn(t) PROVE Names'
    BY <1>1, <1>3, NamesActs DEF Turn, Others, Names
  <1> QED
    BY <1>2, <1>3, Turns

\* A file that a thread finds free under the lock is free.
LEMMA CheckedActs ==
  ASSUME TypeOK, Names, Locks, Checked, Shrinks, NEW t \in Thread, Acts(t)
  PROVE  CheckedBy(t)'
  <1>0. CheckedBy(t) /\ LocksOf(t) /\ t # NoThread
    BY NameAssumption DEF Checked, Locks, Thread
  <1>1. CASE IsActive(t)
    BY <1>1, <1>0, IsActiveShape, ShrinkFacts
       DEF CheckedBy, LocksOf, Skipped, Given, Over, Kept, Leaves, locks
  <1>2. CASE IsRecentlyProcessed(t)
    BY <1>2, <1>0, IsRecentlyProcessedShape, ShrinkFacts
       DEF CheckedBy, LocksOf, Skipped, Given, Over, Kept, Leaves, locks
  <1>3. CASE Probe(t)
    BY <1>3, <1>0, ProbeShape, ShrinkFacts
       DEF CheckedBy, LocksOf, Skipped, Given, Over, Kept, Leaves, locks
  <1>4. CASE TakeEnqueueLock(t)
    BY <1>4, <1>0, TakeEnqueueLockShape, ShrinkFacts
       DEF CheckedBy, LocksOf, Skipped, Given, Over, Kept, Leaves, locks
  <1>5. CASE Insert(t)
    BY <1>5, InsertFacts DEF Shrinks, MovesOn, Inserted, Unused
  <1>6. CASE FindActive(t)
    BY <1>6, <1>0, FindActiveShape, ShrinkFacts
       DEF CheckedBy, LocksOf, Skipped, Given, Over, Kept, Leaves, locks
  <1>7. CASE ForceStart(t)
    BY <1>7, <1>0, ActShape, ShrinkFacts
       DEF CheckedBy, LocksOf, Skipped, Given, Over, Kept, Leaves, locks
  <1>8. CASE Settle(t)
    BY <1>8, <1>0, ActShape, ShrinkFacts
       DEF CheckedBy, LocksOf, Skipped, Given, Over, Kept, Leaves, locks
  <1>9. CASE Reply(t)
    BY <1>9, <1>0, ActShape, ShrinkFacts
       DEF CheckedBy, LocksOf, Skipped, Given, Over, Kept, Leaves, locks
  <1>10. CASE ClearNext(t)
    BY <1>10, <1>0, ClearNextShape, ShrinkFacts
       DEF CheckedBy, LocksOf, Skipped, Given, Over, Kept, Leaves, locks
  <1>11. CASE CountPending(t)
    BY <1>11, <1>0, CountPendingShape, ShrinkFacts
       DEF CheckedBy, LocksOf, Skipped, Given, Over, Kept, Leaves, locks
  <1>12. CASE WalkOn(t)
    BY <1>12, <1>0, WalkOnShape, ShrinkFacts
       DEF CheckedBy, LocksOf, Skipped, Given, Over, Kept, Leaves, locks
  <1>13. CASE CallFails(t)
    BY <1>13, <1>0, CallFailsShape, ShrinkFacts
       DEF CheckedBy, LocksOf, Skipped, Given, Over, Kept, Leaves, locks
  <1>14. ASSUME t \in Job, Record(t), call' # call PROVE CheckedBy(t)'
    BY <1>14, <1>0, RecordShape, ShrinkFacts
       DEF CheckedBy, LocksOf, Skipped, Given, Over, Kept, Leaves, locks
  <1>15. ASSUME t \in Caller, CallerBegins(t) PROVE CheckedBy(t)'
    BY <1>15, <1>0, BeginsShape, ShrinkFacts
       DEF CheckedBy, LocksOf, Skipped, Given, Over, Kept, Leaves, locks
  <1> QED
    BY <1>1, <1>2, <1>3, <1>4, <1>5, <1>6, <1>7, <1>8,
       <1>9, <1>10, <1>11, <1>12, <1>13, <1>14, <1>15
       DEF Acts, CallStep

\* An insert gives its lock back, so no check stands that it could refute.
LEMMA CheckedStep == TypeOK /\ Names /\ Locks /\ Checked /\ [Next]_vars => Checked'
  <1> SUFFICES ASSUME TypeOK, Names, Locks, Checked, [Next]_vars PROVE Checked'
    OBVIOUS
  <1>1. CASE Shrinks
    <2>1. CASE Quiet
      BY <1>1, <2>1, ShrinkFacts DEF Quiet, Checked, CheckedBy, locks
    <2>2. ASSUME NEW t \in Thread, Acts(t), Turn(t) PROVE Checked'
      BY <1>1, <2>2, CheckedActs, ShrinkFacts, NameAssumption
         DEF Turn, Handled, Others, Leaves, Checked, CheckedBy, Thread
    <2> QED
      BY <2>1, <2>2, Turns
  <1>2. ASSUME NEW t \in Thread, Insert(t) PROVE Checked'
    <2>1. enqueueLock' = NoThread
      BY <1>2, InsertFacts DEF Locks, LocksOf, Leaves
    <2> QED
      BY <2>1, NameAssumption DEF Checked, CheckedBy, Thread
  <1> QED
    BY <1>1, <1>2, QueueStep

\* The file of an insert has no active job, so the new one is its only one.
LEMMA OneActiveStep ==
  TypeOK /\ Locks /\ Checked /\ OneActivePerFile /\ [Next]_vars => OneActivePerFile'
  <1> SUFFICES ASSUME TypeOK, Locks, Checked, OneActivePerFile, [Next]_vars
               PROVE  OneActivePerFile'
    OBVIOUS
  <1>1. CASE Shrinks
    BY <1>1, ShrinkFacts DEF OneActivePerFile, Shrinks
  <1>2. ASSUME NEW t \in Thread, Insert(t) PROVE OneActivePerFile'
    <2>1. ActiveOn(call[t].file) = {}
      BY <1>2, InsertFacts DEF Locks, LocksOf, Checked, CheckedBy
    <2>2. PICK j \in Job : Inserted(t, j)
      BY <1>2, InsertFacts
    <2>3. \A i \in Active : i # j /\ file'[i] = file[i] /\ file[i] # call[t].file
      BY <2>1, <2>2 DEF Inserted, Unused, Active, ActiveOn
    <2> QED
      BY <2>2, <2>3 DEF OneActivePerFile, Inserted
  <1> QED
    BY <1>1, <1>2, QueueStep

\* The number of waiting jobs of top_up, and how a step changes it.
LEMMA WaitingType == Waiting \in Nat /\ IsFiniteSet(Pending \cap filled)
                     /\ Cardinality(Pending) \in Nat /\ Waiting <= Cardinality(Pending)
  <1>1. IsFiniteSet(Pending \cap filled)
    BY PendingFinite, FS_Subset
  <1> QED
    BY <1>1, PendingFinite, FS_CardinalityType, FS_Subset DEF Waiting

LEMMA WaitingShrinks ==
  ASSUME Shrinks
  PROVE  Waiting' \in Nat /\ Waiting' <= Waiting
  <1>1. Pending' \cap filled' \subseteq Pending \cap filled
    BY ShrinkFacts DEF Shrinks
  <1> QED
    BY <1>1, WaitingType, FS_Subset, FS_CardinalityType DEF Waiting

LEMMA WaitingInsert ==
  ASSUME TypeOK, Filed, NEW t \in Thread, NEW j \in Job, Inserted(t, j)
  PROVE  Waiting' = IF call[t].mode = "fill" THEN Waiting + 1 ELSE Waiting
  <1>1. j \notin Pending \cap filled
    BY DEF Inserted, Unused, Filed
  <1>2. CASE call[t].mode = "fill"
    <2>1. Pending' \cap filled' = (Pending \cap filled) \cup {j}
      BY <1>2 DEF Inserted, Filed, Unused
    <2> QED
      BY <1>1, <1>2, <2>1, WaitingType, FS_AddElement DEF Waiting
  <1>3. CASE call[t].mode # "fill"
    <2>1. Pending' \cap filled' = Pending \cap filled
      BY <1>3 DEF Inserted, Filed, Unused
    <2> QED
      BY <1>3, <2>1 DEF Waiting
  <1> QED
    BY <1>2, <1>3

\* While no job joins the queue, top_up's count stays high enough.
LEMMA CountedActs ==
  ASSUME TypeOK, Locks, Counted, Shrinks, NEW t \in Thread, Acts(t)
  PROVE  CountedBy(t)'
  <1>0. /\ CountedBy(t) /\ LocksOf(t) /\ call[t].count \in Nat /\ t # NoThread
        /\ Waiting' \in Nat /\ Waiting \in Nat /\ Waiting' <= Waiting
    BY NameAssumption, CallFields, WaitingShrinks, WaitingType
       DEF Counted, Locks, Thread
  <1>1. CASE IsActive(t)
    BY <1>1, <1>0, IsActiveShape
       DEF CountedBy, LocksOf, Trying, Skipped, Given, Over, Kept, Leaves, locks
  <1>2. CASE IsRecentlyProcessed(t)
    BY <1>2, <1>0, IsRecentlyProcessedShape
       DEF CountedBy, LocksOf, Trying, Skipped, Given, Over, Kept, Leaves, locks
  <1>3. CASE Probe(t)
    BY <1>3, <1>0, ProbeShape
       DEF CountedBy, LocksOf, Trying, Skipped, Given, Over, Kept, Leaves, locks
  <1>4. CASE TakeEnqueueLock(t)
    BY <1>4, <1>0, TakeEnqueueLockShape
       DEF CountedBy, LocksOf, Trying, Skipped, Given, Over, Kept, Leaves, locks
  <1>5. CASE Insert(t)
    BY <1>5, InsertFacts DEF Shrinks, MovesOn, Inserted, Unused
  <1>6. CASE FindActive(t)
    BY <1>6, <1>0, FindActiveShape
       DEF CountedBy, LocksOf, Trying, Skipped, Given, Over, Kept, Leaves, locks
  <1>7. CASE ForceStart(t)
    BY <1>7, <1>0, ActShape
       DEF CountedBy, LocksOf, Trying, Skipped, Given, Over, Kept, Leaves, locks
  <1>8. CASE Settle(t)
    BY <1>8, <1>0, ActShape
       DEF CountedBy, LocksOf, Trying, Skipped, Given, Over, Kept, Leaves, locks
  <1>9. CASE Reply(t)
    BY <1>9, <1>0, ActShape
       DEF CountedBy, LocksOf, Trying, Skipped, Given, Over, Kept, Leaves, locks
  <1>10. CASE ClearNext(t)
    BY <1>10, <1>0, ClearNextShape
       DEF CountedBy, LocksOf, Trying, Skipped, Given, Over, Kept, Leaves, locks
  <1>11. CASE CountPending(t)
    BY <1>11, <1>0, CountPendingShape, WaitingType
       DEF CountedBy, LocksOf, Trying, Skipped, Given, Over, Kept, Leaves, locks
  <1>12. CASE WalkOn(t)
    BY <1>12, <1>0, WalkOnShape
       DEF CountedBy, LocksOf, Trying, Skipped, Given, Over, Kept, Leaves, locks
  <1>13. CASE CallFails(t)
    BY <1>13, <1>0, CallFailsShape
       DEF CountedBy, LocksOf, Trying, Skipped, Given, Over, Kept, Leaves, locks
  <1>14. ASSUME t \in Job, Record(t), call' # call PROVE CountedBy(t)'
    BY <1>14, <1>0, RecordShape
       DEF CountedBy, LocksOf, Trying, Skipped, Given, Over, Kept, Leaves, locks
  <1>15. ASSUME t \in Caller, CallerBegins(t) PROVE CountedBy(t)'
    BY <1>15, <1>0, BeginsShape
       DEF CountedBy, LocksOf, Trying, Skipped, Given, Over, Kept, Leaves, locks
  <1> QED
    BY <1>1, <1>2, <1>3, <1>4, <1>5, <1>6, <1>7, <1>8,
       <1>9, <1>10, <1>11, <1>12, <1>13, <1>14, <1>15
       DEF Acts, CallStep

LEMMA CountedStep == TypeOK /\ Filed /\ Locks /\ Counted /\ [Next]_vars => Counted'
  <1> SUFFICES ASSUME TypeOK, Filed, Locks, Counted, [Next]_vars PROVE Counted'
    OBVIOUS
  <1>1. CASE Shrinks
    <2>1. ASSUME NEW u \in Thread, call'[u] = call[u], topUpLock' = u => topUpLock = u
          PROVE  CountedBy(u)'
      <3>1. /\ CountedBy(u) /\ call[u].count \in Nat
            /\ Waiting \in Nat /\ Waiting' \in Nat /\ Waiting' <= Waiting
        BY <1>1, CallFields, WaitingType, WaitingShrinks DEF Counted
      <3> QED
        BY <2>1, <3>1 DEF CountedBy
    <2>2. CASE Quiet
      BY <2>1, <2>2 DEF Quiet, Counted, locks
    <2>3. ASSUME NEW t \in Thread, Acts(t), Turn(t) PROVE Counted'
      <3>1. \A u \in Thread : u # t => call'[u] = call[u] /\ (topUpLock' = u => topUpLock = u)
        BY <2>3, NameAssumption DEF Turn, Handled, Others, Leaves, Thread
      <3> QED
        BY <1>1, <2>1, <2>3, <3>1, CountedActs DEF Counted
    <2> QED
      BY <2>2, <2>3, Turns
  <1>2. ASSUME NEW t \in Thread, Insert(t) PROVE Counted'
    <2>1. PICK j \in Job : /\ Inserted(t, j)
                           /\ \/ Given(t, j) /\ topUpLock' = topUpLock
                              \/ Over(t) /\ topUpLock' = Leaves(topUpLock, t)
      BY <1>2, InsertFacts
    <2>2. Others(t) /\ call[t].at = "insert" /\ j # NoJob /\ NoThread \notin Thread
      BY <1>2, InsertFacts, NameAssumption DEF Thread
    <2>3. Waiting \in Nat /\ Waiting' = IF call[t].mode = "fill" THEN Waiting + 1 ELSE Waiting
      BY <2>1, WaitingInsert, WaitingType
    <2> SUFFICES ASSUME NEW u \in Thread PROVE CountedBy(u)'
      BY DEF Counted
    <2>4. CountedBy(u) /\ LocksOf(u) /\ LocksOf(t) /\ call[u].count \in Nat
      BY CallFields DEF Counted, Locks
    <2>5. CASE u = t
      BY <2>1, <2>2, <2>3, <2>4, <2>5
         DEF CountedBy, LocksOf, Trying, Given, Over, Leaves
    <2>6. CASE u # t
      BY <2>1, <2>2, <2>3, <2>4, <2>6 DEF CountedBy, LocksOf, Trying, Others, Leaves
    <2> QED
      BY <2>5, <2>6
  <1> QED
    BY <1>1, <1>2, QueueStep

\* A top-up inserts only below the limit.
LEMMA BudgetStep ==
  TypeOK /\ Filed /\ Locks /\ Counted /\ AutoBudget /\ [Next]_vars => AutoBudget'
  <1> SUFFICES ASSUME TypeOK, Filed, Locks, Counted, AutoBudget, [Next]_vars
               PROVE  AutoBudget'
    OBVIOUS
  <1>1. Waiting \in Nat /\ Waiting <= Limit /\ Limit \in Nat
    BY WaitingType, WalkAssumption DEF AutoBudget, Waiting
  <1>2. CASE Shrinks
    <2>1. Waiting' \in Nat /\ Waiting' <= Waiting
      BY <1>2, WaitingShrinks
    <2>2. Waiting' <= Limit
      BY <1>1, <2>1
    <2> QED
      BY <2>2 DEF AutoBudget, Waiting
  <1>3. ASSUME NEW t \in Thread, Insert(t) PROVE AutoBudget'
    <2>1. PICK j \in Job : Inserted(t, j)
      BY <1>3, InsertFacts
    <2>2. Waiting' = IF call[t].mode = "fill" THEN Waiting + 1 ELSE Waiting
      BY <2>1, WaitingInsert
    <2>3. /\ call[t].at = "insert" /\ CountedBy(t) /\ LocksOf(t)
          /\ call[t].count \in Nat
      BY <1>3, InsertFacts, CallFields DEF Locks, Counted
    <2>4. Waiting' <= Limit
      BY <1>1, <2>2, <2>3 DEF CountedBy, LocksOf, Trying
    <2> QED
      BY <2>4 DEF AutoBudget, Waiting
  <1> QED
    BY <1>2, <1>3, QueueStep

HonestOf(t) == call[t].at = "reply" => status[call[t].job] \in {"running", "ended"}

LEMMA MovesAt ==
  ASSUME TypeOK, NEW t \in Thread, NEW a, Moves(t, a)
  PROVE  call'[t].at = a
  BY DEF TypeOK, Moves, Call

\* A thread that acts replies only with a job that was started.
LEMMA HonestActs ==
  ASSUME TypeOK, Names, Locks, ProcessNowHonest, NEW t \in Thread, Acts(t)
  PROVE  HonestOf(t)'
  <1>0. HonestOf(t) /\ LocksOf(t)
    BY DEF ProcessNowHonest, HonestOf, At, Locks
  <1>1. CASE IsActive(t)
    BY <1>1, <1>0, IsActiveShape
       DEF HonestOf, LocksOf, Trying, Skipped, Given, Over, Kept
  <1>2. CASE IsRecentlyProcessed(t)
    BY <1>2, <1>0, IsRecentlyProcessedShape
       DEF HonestOf, LocksOf, Trying, Skipped, Given, Over, Kept
  <1>3. CASE Probe(t)
    BY <1>3, <1>0, ProbeShape
       DEF HonestOf, LocksOf, Trying, Skipped, Given, Over, Kept
  <1>4. CASE TakeEnqueueLock(t)
    BY <1>4, <1>0, TakeEnqueueLockShape
       DEF HonestOf, LocksOf, Trying, Skipped, Given, Over, Kept
  <1>5. CASE Insert(t)
    BY <1>5, <1>0, InsertShape
       DEF HonestOf, LocksOf, Trying, Skipped, Given, Over, Kept
  <1>6. CASE FindActive(t)
    BY <1>6, <1>0, FindActiveShape
       DEF HonestOf, LocksOf, Trying, Skipped, Given, Over, Kept, Active, queue
  <1>7. CASE ForceStart(t)
    <2>1. call[t].at = "force" /\ call[t].job \in Job
      BY <1>7 DEF ForceStart, At, TypeOK
    <2>2. call'[t].at = "reply" => status'[call[t].job] = "running"
      BY <1>7, <2>1, MovesAt DEF ForceStart, TypeOK
    <2> QED
      BY <1>7, <2>2, ActShape DEF HonestOf
  <1>8. CASE Settle(t)
    <2>1. /\ call[t].at = "settle" /\ call[t].job \in Job /\ status' = status
          /\ status[call[t].job] \in Status \ {"unused"}
      BY <1>8 DEF Settle, At, TypeOK, Names, NamesOf, queue
    <2>2. call'[t].at = "reply" => status[call[t].job] \notin {"pending", "gone"}
      BY <1>8, <2>1, OverShape DEF Settle, Over
    <2> QED
      BY <1>8, <2>1, <2>2, ActShape DEF HonestOf, Status
  <1>9. CASE Reply(t)
    BY <1>9, OverShape DEF Reply, Over, HonestOf
  <1>10. CASE ClearNext(t)
    BY <1>10, <1>0, ClearNextShape
       DEF HonestOf, LocksOf, Trying, Skipped, Given, Over, Kept
  <1>11. CASE CountPending(t)
    BY <1>11, <1>0, CountPendingShape
       DEF HonestOf, LocksOf, Trying, Skipped, Given, Over, Kept
  <1>12. CASE WalkOn(t)
    BY <1>12, <1>0, WalkOnShape
       DEF HonestOf, LocksOf, Trying, Skipped, Given, Over, Kept
  <1>13. CASE CallFails(t)
    BY <1>13, <1>0, CallFailsShape
       DEF HonestOf, LocksOf, Trying, Skipped, Given, Over, Kept
  <1>14. ASSUME t \in Job, Record(t), call' # call PROVE HonestOf(t)'
    BY <1>14, <1>0, RecordShape
       DEF HonestOf, LocksOf, Trying, Skipped, Given, Over, Kept
  <1>15. ASSUME t \in Caller, CallerBegins(t) PROVE HonestOf(t)'
    BY <1>15, <1>0, BeginsShape
       DEF HonestOf, LocksOf, Trying, Skipped, Given, Over, Kept
  <1> QED
    BY <1>1, <1>2, <1>3, <1>4, <1>5, <1>6, <1>7, <1>8,
       <1>9, <1>10, <1>11, <1>12, <1>13, <1>14, <1>15
       DEF Acts, CallStep

LEMMA HonestStep ==
  TypeOK /\ Names /\ Locks /\ ProcessNowHonest /\ [Next]_vars => ProcessNowHonest'
  <1> SUFFICES ASSUME TypeOK, Names, Locks, ProcessNowHonest, [Next]_vars
               PROVE  ProcessNowHonest'
    OBVIOUS
  <1>1. ASSUME NEW u \in Thread, call'[u] = call[u] PROVE HonestOf(u)'
    BY <1>1, JobStays DEF ProcessNowHonest, HonestOf, At, TypeOK
  <1>2. \A u \in Thread : HonestOf(u)'
    <2>1. CASE Quiet
      BY <1>1, <2>1 DEF Quiet
    <2>2. ASSUME NEW t \in Thread, Acts(t), Turn(t) PROVE \A u \in Thread : HonestOf(u)'
      BY <1>1, <2>2, HonestActs DEF Turn, Others
    <2> QED
      BY <2>1, <2>2, Turns
  <1> QED
    BY <1>2 DEF ProcessNowHonest, HonestOf, At

-----------------------------------------------------------------------------
(* The theorems.                                                           *)

LEMMA InitInvariant == Init => IInv
  <1> SUFFICES ASSUME Init PROVE IInv
    OBVIOUS
  <1>1. TypeOK
    BY TypeInit
  <1>2. /\ \A j \in Job : status[j] = "unused"
        /\ \A t \in Thread : call[t].at = "idle" /\ call[t].mode = "none"
        /\ filled = {} /\ enqueueLock = NoThread /\ topUpLock = NoThread
    BY DEF Init, Returned, Begun
  <1>3. Filed /\ Names /\ Locks
    BY <1>2, NameAssumption DEF Filed, Names, NamesOf, Locks, LocksOf, Trying, Thread
  <1>4. Checked /\ Counted /\ OneActivePerFile /\ ProcessNowHonest
    BY <1>2, NameAssumption
       DEF Checked, CheckedBy, Counted, CountedBy, OneActivePerFile, Active,
           ProcessNowHonest, At, Thread
  <1>5. AutoBudget
    <2>1. Pending \cap filled = {}
      BY <1>2
    <2> QED
      BY <2>1, FS_EmptySet, WalkAssumption DEF AutoBudget
  <1> QED
    BY <1>1, <1>3, <1>4, <1>5 DEF IInv

\* The invariant is inductive, part by part.
LEMMA InvariantStep == IInv /\ [Next]_vars => IInv'
  BY TypeStep, FiledStep, NamesStep, LocksStep, CheckedStep, CountedStep, OneActiveStep,
     BudgetStep, HonestStep
     DEF IInv

\* All of it holds in every reachable state.
THEOREM InvariantHolds == Spec => []IInv
  BY InitInvariant, InvariantStep, PTL DEF Spec

\* Types hold in every reachable state, and process_now never acts on no job.
THEOREM TypeCorrect == Spec => []TypeOK
  <1>1. IInv => TypeOK
    BY DEF IInv
  <1> QED
    BY <1>1, InvariantHolds, PTL

\* enqueue_file's two duplicate checks and its lock keep every file to one
\* queued or running job, whatever runs at the same time.
THEOREM OneActivePerFileHolds == Spec => []OneActivePerFile
  <1>1. IInv => OneActivePerFile
    BY DEF IInv
  <1> QED
    BY <1>1, InvariantHolds, PTL

\* However many top-ups run, their waiting jobs stay within AUTO_QUEUE_LIMIT.
THEOREM AutoBudgetHolds == Spec => []AutoBudget
  <1>1. IInv => AutoBudget
    BY DEF IInv
  <1> QED
    BY <1>1, InvariantHolds, PTL

\* A job that process_now hands back has been started.
THEOREM ProcessNowHonestHolds == Spec => []ProcessNowHonest
  <1>1. IInv => ProcessNowHonest
    BY DEF IInv
  <1> QED
    BY <1>1, InvariantHolds, PTL

-----------------------------------------------------------------------------
(* The scheduler implements FileLease.                                     *)

OneMoves == \A i, j \in Job : status'[i] # status[i] /\ status'[j] # status[j] => i = j

\* A step changes the status of one job at most.
LEMMA OneMovesStep == TypeOK /\ [Next]_vars => OneMoves
  <1> SUFFICES ASSUME TypeOK, [Next]_vars PROVE OneMoves
    OBVIOUS
  <1>1. ASSUME NEW t \in Thread, IsActive(t) PROVE OneMoves
    BY <1>1, IsActiveShape DEF OneMoves, queue
  <1>2. ASSUME NEW t \in Thread, IsRecentlyProcessed(t) PROVE OneMoves
    BY <1>2, IsRecentlyProcessedShape DEF OneMoves, queue
  <1>3. ASSUME NEW t \in Thread, Probe(t) PROVE OneMoves
    BY <1>3, ProbeShape DEF OneMoves, queue
  <1>4. ASSUME NEW t \in Thread, TakeEnqueueLock(t) PROVE OneMoves
    BY <1>4, TakeEnqueueLockShape DEF OneMoves, queue
  <1>5. ASSUME NEW t \in Thread, Insert(t) PROVE OneMoves
    BY <1>5, InsertFacts DEF OneMoves, Inserted
  <1>6. ASSUME NEW t \in Thread, FindActive(t) PROVE OneMoves
    BY <1>6, FindActiveShape DEF OneMoves, queue
  <1>7. ASSUME NEW t \in Thread, ForceStart(t) PROVE OneMoves
    BY <1>7 DEF OneMoves, ForceStart, TypeOK
  <1>8. ASSUME NEW t \in Thread, Settle(t) PROVE OneMoves
    BY <1>8 DEF OneMoves, Settle, queue
  <1>9. ASSUME NEW t \in Thread, Reply(t) PROVE OneMoves
    BY <1>9 DEF OneMoves, Reply, queue
  <1>10. ASSUME NEW t \in Thread, ClearNext(t) PROVE OneMoves
    BY <1>10, ClearNextShape DEF OneMoves, TypeOK, Pending
  <1>11. ASSUME NEW t \in Thread, CountPending(t) PROVE OneMoves
    BY <1>11, CountPendingShape DEF OneMoves, queue
  <1>12. ASSUME NEW t \in Thread, WalkOn(t) PROVE OneMoves
    BY <1>12, WalkOnShape DEF OneMoves, queue
  <1>13. ASSUME NEW t \in Thread, CallFails(t) PROVE OneMoves
    BY <1>13, CallFailsShape DEF OneMoves, queue
  <1>14. ASSUME NEW j \in Job, Claim(j) PROVE OneMoves
    BY <1>14 DEF OneMoves, Claim, TypeOK
  <1>15. ASSUME NEW j \in Job, Finish(j) PROVE OneMoves
    BY <1>15 DEF OneMoves, Finish, TypeOK
  <1>16. ASSUME NEW j \in Job, Record(j) PROVE OneMoves
    BY <1>16 DEF OneMoves, Record
  <1>17. ASSUME NEW j \in Job, RecordFails(j) PROVE OneMoves
    BY <1>17 DEF OneMoves, RecordFails, TypeOK
  <1>18. ASSUME NEW j \in Job, WindowPasses(j) PROVE OneMoves
    BY <1>18 DEF OneMoves, WindowPasses, TypeOK
  <1>19. ASSUME NEW c \in Caller, CallerBegins(c) PROVE OneMoves
    BY <1>19, BeginsShape DEF OneMoves, TypeOK, Pending
  <1>20. ASSUME StopQueue PROVE OneMoves
    BY <1>20 DEF OneMoves, StopQueue
  <1>21. ASSUME UNCHANGED vars PROVE OneMoves
    BY <1>21 DEF OneMoves, vars, queue
  <1> QED
    BY <1>1, <1>2, <1>3, <1>4, <1>5, <1>6, <1>7, <1>8, <1>9, <1>10, <1>11, <1>12, <1>13,
       <1>14, <1>15, <1>16, <1>17, <1>18, <1>19, <1>20, <1>21
       DEF Next, CallStep, JobStep

H == [f \in File |-> Holder(f)]
S == [f \in File |-> \E j \in ActiveOn(f) : status[j] # "pending"]
U == Job \ Unused

\* The holder of a file is its active job, before and after a step.
LEMMA HolderIs ==
  ASSUME OneActivePerFile
  PROVE  \A f : /\ ActiveOn(f) = {} => Holder(f) = NoJob
                /\ \A j \in ActiveOn(f) : Holder(f) = j /\ ActiveOn(f) = {j}
  BY DEF OneActivePerFile, Holder, ActiveOn

LEMMA HolderWillBe ==
  ASSUME OneActivePerFile'
  PROVE  \A f : /\ ActiveOn(f)' = {} => Holder(f)' = NoJob
                /\ \A j \in ActiveOn(f)' : Holder(f)' = j /\ ActiveOn(f)' = {j}
  BY DEF OneActivePerFile, Holder, ActiveOn

LEMMA HolderKept ==
  ASSUME OneActivePerFile, OneActivePerFile', NEW f, ActiveOn(f)' = ActiveOn(f)
  PROVE  Holder(f)' = Holder(f)
  BY HolderIs, HolderWillBe

\* An insert acquires the file.
LEMMA InsertAcquires ==
  ASSUME IInv, IInv', NEW t \in Thread, Insert(t)
  PROVE  Lease!Next
  <1> DEFINE f == call[t].file
  <1>1. PICK j \in Job : Inserted(t, j)
    BY InsertFacts DEF IInv
  <1>2. f \in File /\ ActiveOn(f) = {}
    BY InsertFacts DEF IInv, Names, NamesOf, Trying, Locks, LocksOf, Checked, CheckedBy
  <1>3. \A g : ActiveOn(g)' = IF g = f THEN {j} ELSE ActiveOn(g)
    BY <1>1, <1>2 DEF Inserted, ActiveOn, Active, Unused
  <1>4. \A i \in Active : status'[i] = status[i]
    BY <1>1 DEF Inserted, Active, Unused
  <1>5. H' = [H EXCEPT ![f] = j]
    <2>1. \A g \in File : Holder(g)' = IF g = f THEN j ELSE Holder(g)
      <3> SUFFICES ASSUME NEW g \in File PROVE Holder(g)' = IF g = f THEN j ELSE Holder(g)
        OBVIOUS
      <3>1. CASE g = f
        BY <1>3, <3>1, HolderWillBe DEF IInv
      <3>2. CASE g # f
        BY <1>3, <3>2, HolderKept DEF IInv
      <3> QED
        BY <3>1, <3>2
    <2> QED
      BY <1>2, <2>1 DEF H
  <1>6. S' = S
    <2>1. \A g \in File : (\E i \in ActiveOn(g)' : status'[i] # "pending")
                          <=> \E i \in ActiveOn(g) : status[i] # "pending"
      BY <1>1, <1>2, <1>3, <1>4 DEF Inserted, ActiveOn
    <2> QED
      BY <2>1 DEF S
  <1>7. j \notin U /\ U' = U \cup {j}
    BY <1>1 DEF U, Inserted, Unused
  <1>8. H[f] = NoJob
    BY <1>2, HolderIs DEF H, IInv
  <1> QED
    BY <1>1, <1>2, <1>5, <1>6, <1>7, <1>8
       DEF Lease!Next, Lease!Acquire, H, S, U, Inserted

\* A job that moves on starts its run on the file, or releases the file.
LEMMA MoveMaps ==
  ASSUME IInv, IInv', Shrinks, OneMoves, NEW k \in Job, status'[k] # status[k]
  PROVE  Lease!Next
  <1>1. /\ file' = file /\ MovesOn(k) /\ status[k] \in {"pending", "running"}
        /\ \A i \in Job : i # k => status'[i] = status[i]
    BY DEF Shrinks, OneMoves, MovesOn
  <1>2. PICK f \in File : f = file[k]
    <2>1. Filed
      BY DEF IInv
    <2>2. status[k] # "unused"
      BY <1>1
    <2>3. file[k] \in File
      BY <2>1, <2>2 DEF Filed
    <2> QED
      BY <2>3
  <1>3. /\ MovesOn(k) /\ \A i \in Job : i # k => status'[i] = status[i]
        /\ file' = file /\ k \in ActiveOn(f) /\ file[k] = f
    BY <1>1, <1>2 DEF ActiveOn, Active
  <1>4. ActiveOn(f) = {k} /\ H[f] = k /\ k # NoJob
    BY <1>3, HolderIs, NameAssumption DEF IInv, H
  <1>5. \A g \in File : g # f => ActiveOn(g)' = ActiveOn(g) /\ k \notin ActiveOn(g)
    BY <1>3 DEF ActiveOn, Active
  <1>6. U' = U
    BY <1>3 DEF U, Unused, MovesOn
  <1>7. \A g \in File : g # f => Holder(g)' = Holder(g)
    BY <1>5, HolderKept DEF IInv
  <1>8. \A g \in File : g # f => ((\E i \in ActiveOn(g)' : status'[i] # "pending")
                                 <=> \E i \in ActiveOn(g) : status[i] # "pending")
    BY <1>3, <1>5 DEF ActiveOn, Active
  <1>9. CASE status[k] = "pending" /\ status'[k] = "running"
    <2>1. ActiveOn(f)' = {k}
      BY <1>3, <1>4, <1>9 DEF ActiveOn, Active
    <2>2. Holder(f)' = Holder(f)
      BY <2>1, <1>4, HolderKept DEF IInv
    <2>3. H' = H
      <3>1. \A g \in File : Holder(g)' = Holder(g)
        BY <1>7, <2>2
      <3> QED
        BY <3>1 DEF H
    <2>4. ~S[f] /\ S' = [S EXCEPT ![f] = TRUE]
      <3>1. \A g \in File : (\E i \in ActiveOn(g)' : status'[i] # "pending")
                            = IF g = f THEN TRUE ELSE \E i \in ActiveOn(g) : status[i] # "pending"
        BY <1>9, <1>8, <2>1
      <3>2. ~\E i \in ActiveOn(f) : status[i] # "pending"
        BY <1>4, <1>9
      <3> QED
        BY <1>3, <3>1, <3>2 DEF S
    <2> QED
      BY <1>3, <1>4, <1>6, <2>3, <2>4 DEF Lease!Next, Lease!Start, H, S, U
  <1>10. CASE status'[k] \in {"gone", "ended"}
    <2>1. ActiveOn(f)' = {}
      BY <1>3, <1>4, <1>10 DEF ActiveOn, Active
    <2>2. Holder(f)' = NoJob
      BY <2>1, HolderWillBe DEF IInv
    <2>3. H' = [H EXCEPT ![f] = NoJob]
      <3>1. \A g \in File : Holder(g)' = IF g = f THEN NoJob ELSE Holder(g)
        BY <1>7, <2>2
      <3> QED
        BY <1>3, <3>1 DEF H
    <2>4. S' = [S EXCEPT ![f] = FALSE]
      <3>1. \A g \in File : (\E i \in ActiveOn(g)' : status'[i] # "pending")
                            = IF g = f THEN FALSE ELSE \E i \in ActiveOn(g) : status[i] # "pending"
        BY <1>8, <2>1
      <3> QED
        BY <1>3, <3>1 DEF S
    <2> QED
      BY <1>3, <1>4, <1>6, <2>3, <2>4 DEF Lease!Next, Lease!Release, H, S, U
  <1> QED
    BY <1>3, <1>9, <1>10 DEF MovesOn

\* A step that leaves every status alone leaves the leases alone.
LEMMA QuietMaps ==
  ASSUME IInv, IInv', Shrinks, \A k \in Job : status'[k] = status[k]
  PROVE  UNCHANGED Lease!vars
  <1>1. Active' = Active /\ Unused' = Unused /\ file' = file
    BY DEF Active, Unused, Shrinks
  <1>2. \A f \in File : ActiveOn(f)' = ActiveOn(f)
    BY <1>1 DEF ActiveOn
  <1>3. \A f \in File : Holder(f)' = Holder(f)
    BY <1>2, HolderKept DEF IInv
  <1>4. \A f \in File : (\E i \in ActiveOn(f)' : status'[i] # "pending")
                        <=> \E i \in ActiveOn(f) : status[i] # "pending"
    BY <1>2 DEF ActiveOn, Active
  <1>5. H' = H /\ S' = S /\ U' = U
    BY <1>1, <1>3, <1>4 DEF H, S, U
  <1> QED
    BY <1>5 DEF Lease!vars, H, S, U

\* The jobs of a file hold it one after the other, each from its enqueue to its
\* end: the scheduler implements FileLease.
THEOREM LeaseImplemented == Spec => ImplementsLease
  <1>1. Init => Lease!Init
    <2> SUFFICES ASSUME Init PROVE Lease!Init
      OBVIOUS
    <2>1. \A f : ActiveOn(f) = {}
      BY DEF Init, ActiveOn, Active
    <2>2. Job \ Unused = {}
      BY DEF Init, Unused
    <2> QED
      BY <2>1, <2>2 DEF Lease!Init, Holder
  <1>2. IInv /\ IInv' /\ [Next]_vars => [Lease!Next]_Lease!vars
    <2> SUFFICES ASSUME IInv, IInv', [Next]_vars PROVE [Lease!Next]_Lease!vars
      OBVIOUS
    <2>1. TypeOK
      BY DEF IInv
    <2>2. CASE Shrinks
      BY <2>1, <2>2, OneMovesStep, MoveMaps, QuietMaps
    <2>3. ASSUME NEW t \in Thread, Insert(t) PROVE Lease!Next
      BY <2>3, InsertAcquires
    <2> QED
      BY <2>1, <2>2, <2>3, QueueStep
  <1> QED
    BY <1>1, <1>2, InvariantHolds, PTL DEF Spec, ImplementsLease, Lease!Spec

-----------------------------------------------------------------------------
(* The scheduler does to the queue only what JobLife allows.               *)

\* The queue stays up or down, and starts nothing if it is down.
DownHolds ==
    /\ down' = down
    /\ \A j \in Job : status[j] = "pending" /\ status'[j] = "running" => ~down

LEMMA DownStep == TypeOK /\ [Next]_vars => DownHolds \/ StopQueue
  <1> SUFFICES ASSUME TypeOK, [Next]_vars PROVE DownHolds \/ StopQueue
    OBVIOUS
  <1>1. ASSUME NEW t \in Thread, IsActive(t) PROVE DownHolds
    BY <1>1, IsActiveShape DEF DownHolds, queue
  <1>2. ASSUME NEW t \in Thread, IsRecentlyProcessed(t) PROVE DownHolds
    BY <1>2, IsRecentlyProcessedShape DEF DownHolds, queue
  <1>3. ASSUME NEW t \in Thread, Probe(t) PROVE DownHolds
    BY <1>3, ProbeShape DEF DownHolds, queue
  <1>4. ASSUME NEW t \in Thread, TakeEnqueueLock(t) PROVE DownHolds
    BY <1>4, TakeEnqueueLockShape DEF DownHolds, queue
  <1>5. ASSUME NEW t \in Thread, Insert(t) PROVE DownHolds
    BY <1>5, InsertShape DEF DownHolds, Unused, TypeOK
  <1>6. ASSUME NEW t \in Thread, FindActive(t) PROVE DownHolds
    BY <1>6, FindActiveShape DEF DownHolds, queue
  <1>7. ASSUME NEW t \in Thread, ForceStart(t) PROVE DownHolds
    BY <1>7 DEF DownHolds, ForceStart, TypeOK
  <1>8. ASSUME NEW t \in Thread, Settle(t) PROVE DownHolds
    BY <1>8 DEF DownHolds, Settle, queue
  <1>9. ASSUME NEW t \in Thread, Reply(t) PROVE DownHolds
    BY <1>9 DEF DownHolds, Reply, queue
  <1>10. ASSUME NEW t \in Thread, ClearNext(t) PROVE DownHolds
    BY <1>10, ClearNextShape DEF DownHolds, TypeOK, Pending
  <1>11. ASSUME NEW t \in Thread, CountPending(t) PROVE DownHolds
    BY <1>11, CountPendingShape DEF DownHolds, queue
  <1>12. ASSUME NEW t \in Thread, WalkOn(t) PROVE DownHolds
    BY <1>12, WalkOnShape DEF DownHolds, queue
  <1>13. ASSUME NEW t \in Thread, CallFails(t) PROVE DownHolds
    BY <1>13, CallFailsShape DEF DownHolds, queue
  <1>14. ASSUME NEW j \in Job, Claim(j) PROVE DownHolds
    BY <1>14 DEF DownHolds, Claim, TypeOK
  <1>15. ASSUME NEW j \in Job, Finish(j) PROVE DownHolds
    BY <1>15 DEF DownHolds, Finish, TypeOK
  <1>16. ASSUME NEW j \in Job, Record(j) PROVE DownHolds
    BY <1>16 DEF DownHolds, Record
  <1>17. ASSUME NEW j \in Job, RecordFails(j) PROVE DownHolds
    BY <1>17 DEF DownHolds, RecordFails, TypeOK
  <1>18. ASSUME NEW j \in Job, WindowPasses(j) PROVE DownHolds
    BY <1>18 DEF DownHolds, WindowPasses, TypeOK
  <1>19. ASSUME NEW c \in Caller, CallerBegins(c) PROVE DownHolds
    BY <1>19, BeginsShape DEF DownHolds, TypeOK, Pending
  <1>20. CASE UNCHANGED vars
    BY <1>20 DEF DownHolds, vars, queue
  <1> QED
    BY <1>1, <1>2, <1>3, <1>4, <1>5, <1>6, <1>7, <1>8, <1>9, <1>10, <1>11, <1>12, <1>13,
       <1>14, <1>15, <1>16, <1>17, <1>18, <1>19, <1>20
       DEF Next, CallStep, JobStep

\* A step that leaves the queue up or down and changes one status is a step of
\* JobLife.
LEMMA MoveLives ==
  ASSUME TypeOK, TypeOK', DownHolds, OneMoves, NEW j \in Job, status'[j] # status[j],
         MovesOn(j) \/ (status[j] = "unused" /\ status'[j] = "pending")
  PROVE  Life!Next
  <1>1. status' = [status EXCEPT ![j] = status'[j]]
    BY DEF TypeOK, OneMoves
  <1>2. down' = down
    BY DEF DownHolds
  <1>3. CASE status[j] = "unused" /\ status'[j] = "pending"
    BY <1>1, <1>2, <1>3 DEF Life!Enqueue, Life!Becomes, Life!Next
  <1>4. CASE status[j] = "pending" /\ status'[j] = "running"
    BY <1>1, <1>2, <1>4 DEF DownHolds, Life!Start, Life!Becomes, Life!Next
  <1>5. CASE status[j] = "pending" /\ status'[j] = "gone"
    BY <1>1, <1>2, <1>5 DEF Life!Cancel, Life!Becomes, Life!Next
  <1>6. CASE status[j] = "running" /\ status'[j] = "ended"
    BY <1>1, <1>2, <1>6 DEF Life!End, Life!Becomes, Life!Next
  <1> QED
    BY <1>3, <1>4, <1>5, <1>6 DEF MovesOn

\* However stale a call's view of the queue is, it starts and cancels only what
\* is pending, starts nothing once the queue is down and brings nothing back.
THEOREM LifeImplemented == Spec => ImplementsLife
  <1>1. Init => Life!Init
    BY DEF Init, Life!Init
  <1>2. IInv /\ IInv' /\ [Next]_vars => [Life!Next]_(Life!vars)
    <2> SUFFICES ASSUME IInv, IInv', [Next]_vars PROVE Life!Next \/ UNCHANGED Life!vars
      OBVIOUS
    <2>1. TypeOK /\ TypeOK' /\ OneMoves
      BY OneMovesStep DEF IInv
    <2>2. \A j \in Job : MovesOn(j) \/ (status[j] = "unused" /\ status'[j] = "pending")
      <3>1. ASSUME NEW t \in Thread, Insert(t), NEW j \in Job
            PROVE  MovesOn(j) \/ (status[j] = "unused" /\ status'[j] = "pending")
        BY <2>1, <3>1, InsertFacts DEF Inserted, Unused, MovesOn
      <3> QED
        BY <2>1, <3>1, QueueStep DEF Shrinks
    <2>3. CASE StopQueue
      BY <2>3 DEF StopQueue, Life!Close, Life!Next
    <2>4. CASE DownHolds /\ \E j \in Job : status'[j] # status[j]
      BY <2>1, <2>2, <2>4, MoveLives
    <2>5. CASE DownHolds /\ \A j \in Job : status'[j] = status[j]
      <3>1. status' = status
        BY <2>1, <2>5 DEF TypeOK
      <3> QED
        BY <2>5, <3>1 DEF DownHolds, Life!vars
    <2> QED
      BY <2>1, <2>3, <2>4, <2>5, DownStep
  <1> QED
    BY <1>1, <1>2, InvariantHolds, PTL DEF Spec, ImplementsLife, Life!Spec

-----------------------------------------------------------------------------
(* The two locks are never waited for in a circle.                         *)

\* A thread that is kept from its next step by a lock; at any other place the
\* code goes on whatever the rest of the state is.
Blocked(t) == \/ At(t, "lock") /\ enqueueLock # NoThread
              \/ At(t, "topUp") /\ topUpLock # NoThread

\* The thread that has the lock t waits for; it is inside its `with` block.
BlockedBy(t, u) == \/ At(t, "lock") /\ enqueueLock = u
                   \/ At(t, "topUp") /\ topUpLock = u

\* Behind a blocked thread there is, at most one thread further on, one that
\* can go on.
NoDeadlock ==
    \A t \in Thread : Blocked(t) =>
      \E u \in Thread :
        /\ BlockedBy(t, u)
        /\ ~At(u, "idle")
        /\ ~Blocked(u) \/ \E v \in Thread : BlockedBy(u, v) /\ ~At(v, "idle") /\ ~Blocked(v)

\* Top-ups, which enqueue with their lock held, and triggers never wait for each
\* other in a circle, and no lock belongs to a call that has returned.
THEOREM NoDeadlockHolds == Spec => []NoDeadlock
  <1>1. IInv => NoDeadlock
    <2> SUFFICES ASSUME IInv, NEW t \in Thread, Blocked(t)
                 PROVE  \E u \in Thread :
                          /\ BlockedBy(t, u) /\ ~At(u, "idle")
                          /\ \/ ~Blocked(u)
                             \/ \E v \in Thread : BlockedBy(u, v) /\ ~At(v, "idle") /\ ~Blocked(v)
      BY DEF NoDeadlock
    <2>1. /\ enqueueLock \in Thread \cup {NoThread} /\ topUpLock \in Thread \cup {NoThread}
          /\ \A u \in Thread : LocksOf(u)
      BY DEF IInv, TypeOK, Locks
    <2>2. ASSUME NEW u \in Thread, enqueueLock = u
          PROVE  ~At(u, "idle") /\ ~Blocked(u)
      BY <2>1, <2>2 DEF LocksOf, Blocked, At
    <2>3. CASE At(t, "lock")
      BY <2>1, <2>2, <2>3 DEF Blocked, BlockedBy, At
    <2>4. CASE At(t, "topUp")
      <3>1. topUpLock \in Thread /\ BlockedBy(t, topUpLock)
        BY <2>1, <2>4 DEF Blocked, BlockedBy, At
      <3>2. call[topUpLock].at \in Trying \cup {"walk"}
        BY <2>1, <3>1 DEF LocksOf
      <3>3. ~At(topUpLock, "idle") /\ ~At(topUpLock, "topUp")
        BY <3>2 DEF Trying, At
      <3>4. CASE Blocked(topUpLock)
        <4>1. enqueueLock \in Thread /\ BlockedBy(topUpLock, enqueueLock)
          BY <2>1, <3>3, <3>4 DEF Blocked, BlockedBy
        <4> QED
          BY <2>2, <3>1, <3>3, <4>1
      <3> QED
        BY <3>1, <3>3, <3>4
    <2> QED
      BY <2>3, <2>4 DEF Blocked
  <1> QED
    BY <1>1, InvariantHolds, PTL

=============================================================================
