------------------------------ MODULE JobLife ------------------------------
(***************************************************************************)
(* What the job queue promises its callers about a job id, at the grain of *)
(* the queue's own documentation ("only a pending job can be cancelled or  *)
(* force-started", jobs/queue.py; "a crash never loses a queued job",      *)
(* jobs/rehydrate.py).  JobQueue implements it with threads, a lock and a  *)
(* table; JobScheduler, which keeps of the queue only what its calls see,  *)
(* takes no other steps on it.                                             *)
(***************************************************************************)
EXTENDS Integers

CONSTANT Job

VARIABLES
    life,     \* "unused", "pending", "running", "ended" or "gone" (cancelled)
    closed,   \* shutdown() has begun
    boots     \* how often the program was started again

vars == <<life, closed, boots>>

Init ==
    /\ life = [j \in Job |-> "unused"]
    /\ closed = FALSE
    /\ boots = 0

Becomes(j, old, new) ==
    /\ life[j] = old
    /\ life' = [life EXCEPT ![j] = new]
    /\ UNCHANGED <<closed, boots>>

Enqueue(j) == Becomes(j, "unused", "pending")

\* Nothing begins to run once the queue shuts down.
Start(j) == ~closed /\ Becomes(j, "pending", "running")

End(j) == Becomes(j, "running", "ended")

Cancel(j) == Becomes(j, "pending", "gone")

Close ==
    /\ ~closed /\ closed' = TRUE
    /\ UNCHANGED <<life, boots>>

\* After a restart of the program a job that was queued, claimed or cancelled
\* may be pending, as its row says; one whose run began is over, and no id that
\* was never used comes into being.
AfterRestart(old) ==
    CASE old = "unused"  -> {"unused"}
      [] old = "pending" -> {"pending", "gone"}
      [] old = "running" -> {"pending", "ended", "gone"}
      [] old = "gone"    -> {"pending", "gone"}
      [] old = "ended"   -> {"ended"}

Restart ==
    /\ boots' = boots + 1
    /\ life' = [j \in Job |-> life'[j]]
    /\ \A j \in Job : life'[j] \in AfterRestart(life[j])
    /\ closed' = FALSE

Next ==
    \/ \E j \in {i \in Job : life'[i] # life[i]} :
         Enqueue(j) \/ Start(j) \/ End(j) \/ Cancel(j)
    \/ Close \/ Restart

Spec == Init /\ [][Next]_vars
=============================================================================
