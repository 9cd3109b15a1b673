----------------------------- MODULE MCJobQueue -----------------------------
(* Small instances of JobQueue for TLC.                                    *)
EXTENDS JobQueue, TLC

CONSTANTS j1, j2, w1, w2

TwoJobs == {j1, j2}
TwoWorkers == {w1, w2}
OneWorker == {w1}
NoJobs == {}
Symmetry == Permutations(TwoJobs) \cup Permutations(TwoWorkers)
\* The restart run leaves out the note that a self-update saw an idle queue, on
\* which nothing but the note itself depends.
RestartScope == ~quiesced

\* The liveness run leaves out what no queue thread waits for: the note that a
\* self-update saw an idle queue, the cancellation and the forced start of j1
\* (those of j2 stay), and requests that arrive once shutdown() has begun.
LivenessScope ==
    /\ ~quiesced
    /\ canceller[j1] = "no"
    /\ stage[j1] # "idle" => runner[j1] # Forced

NoRequestAfterShutdown ==
    shutdown # "up" => UNCHANGED <<paused, nextPriority>>

=============================================================================
