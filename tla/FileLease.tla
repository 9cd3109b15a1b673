----------------------------- MODULE FileLease -----------------------------
(***************************************************************************)
(* What the job scheduler promises about a media file: jobs hold it one at *)
(* a time, and each job id holds one file once. The downmix rewrites the   *)
(* file in place, so two holders would overwrite each other's work         *)
(* (collapsarr/jobs/scheduler.py, "De-duplication").                       *)
(***************************************************************************)
CONSTANTS File, Job, NoJob

VARIABLES
    holder,   \* the job that is queued or running for the file, or NoJob
    started,  \* that job has begun to run
    used      \* the jobs that hold or have held a file

vars == <<holder, started, used>>

Init ==
    /\ holder = [f \in File |-> NoJob]
    /\ started = [f \in File |-> FALSE]
    /\ used = {}

\* A file nobody holds is queued for a new job.
Acquire(f, j) ==
    /\ holder[f] = NoJob /\ j \notin used
    /\ holder' = [holder EXCEPT ![f] = j]
    /\ used' = used \cup {j}
    /\ UNCHANGED started

Start(f) ==
    /\ holder[f] # NoJob /\ ~started[f]
    /\ started' = [started EXCEPT ![f] = TRUE]
    /\ UNCHANGED <<holder, used>>

\* The run ends, or a job that has not begun is cancelled.
Release(f) ==
    /\ holder[f] # NoJob
    /\ holder' = [holder EXCEPT ![f] = NoJob]
    /\ started' = [started EXCEPT ![f] = FALSE]
    /\ UNCHANGED used

Next == \E f \in File : Start(f) \/ Release(f) \/ \E j \in Job : Acquire(f, j)

Spec == Init /\ [][Next]_vars

=============================================================================
