---------------------------- MODULE AtomicSwap -----------------------------
(***************************************************************************)
(* What the downmix engine promises about a media file, whatever happens   *)
(* to its subprocesses and to the program: the path is replaced in one     *)
(* step, at most once in a run, by the same file with tracks added, and    *)
(* the run reports success exactly when it replaced it                     *)
(* (downmix/apply.py, "the app's core data-safety guarantee").  The        *)
(* promise about the content is void in a run during which somebody else   *)
(* put another file under the path.                                        *)
(***************************************************************************)

CONSTANTS Files,           \* the contents the path may have
          Extends(_, _)    \* the second content is the first, with additions

VARIABLES file,       \* the content under the path
          phase,      \* "idle", "running" or "replaced"
          outcome,    \* what the last run to end reported
          disturbed   \* another file was put there since the run began

vars == <<file, phase, outcome, disturbed>>

TypeOK ==
    /\ file \in Files
    /\ phase \in {"idle", "running", "replaced"}
    /\ outcome \in {"none", "success", "nothing_to_do", "failed", "raised"}
    /\ disturbed \in BOOLEAN

Init ==
    /\ file \in Files
    /\ phase = "idle"
    /\ outcome = "none"
    /\ disturbed = FALSE

Begin ==
    /\ phase = "idle"
    /\ phase' = "running"
    /\ outcome' = "none"
    /\ disturbed' = FALSE
    /\ UNCHANGED file

Replace ==
    /\ phase = "running"
    /\ phase' = "replaced"
    /\ file' \in Files
    /\ disturbed \/ Extends(file, file')
    /\ UNCHANGED <<outcome, disturbed>>

Report ==
    /\ \/ phase = "running" /\ outcome' \in {"nothing_to_do", "failed", "raised"}
       \/ phase = "replaced" /\ outcome' = "success"
    /\ phase' = "idle"
    /\ UNCHANGED <<file, disturbed>>

\* The program may die at any time: the path then holds the old or the new file.
Crash ==
    /\ phase # "idle"
    /\ phase' = "idle"
    /\ UNCHANGED <<file, outcome, disturbed>>

\* Sonarr or Radarr puts another file under the same path.
Upgrade ==
    /\ file' \in Files
    /\ disturbed' = TRUE
    /\ UNCHANGED <<phase, outcome>>

Next == Begin \/ Replace \/ Report \/ Crash \/ Upgrade

Spec == Init /\ [][Next]_vars
=============================================================================
