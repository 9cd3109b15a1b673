----------------------------- MODULE MCLibrary ------------------------------
(***************************************************************************)
(* Small instance of Library for TLC: one series and its two episodes.     *)
(***************************************************************************)
EXTENDS Library, TLC

CONSTANTS s, e1, e2, A, loop, hook, t1, t2, MCEffort

MCParent == s :> Null @@ e1 :> s @@ e2 :> s

\* What happens from outside, in all: imports, removals, toggles and instances
\* created.
Scope == count.imports + count.removals + count.toggles + count.switches <= MCEffort
=============================================================================
