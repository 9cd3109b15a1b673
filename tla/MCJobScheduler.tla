--------------------------- MODULE MCJobScheduler ---------------------------
(***************************************************************************)
(* Values for the constants of JobScheduler.                               *)
(***************************************************************************)
EXTENDS JobScheduler, TLC

CONSTANTS f1, f2

WalkBoth == <<f1, f2>>
WalkOne == <<f1>>

\* The files differ by their place in the walk; jobs and callers do not.
Symmetric == Permutations(Job) \cup Permutations(Caller)

=============================================================================
