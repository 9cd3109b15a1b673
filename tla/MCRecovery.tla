----------------------------- MODULE MCRecovery -----------------------------
(***************************************************************************)
(* Small instance of Recovery for TLC: two builds, and uploads of an old   *)
(* backup and of a database of another program.                            *)
(***************************************************************************)
EXTENDS Recovery, TLC

CONSTANTS r1, r2, MCEffort

MCUploads ==
    {[content |-> -1, revision |-> 1, state |-> "whole"],
     [content |-> -2, revision |-> 1, state |-> "foreign"]}

\* What happens from outside, in all: transactions, backups and deletions,
\* restores, counted twice, and faults.
Scope == spent.writes + spent.backups + 2 * spent.staged + spent.faults <= MCEffort
=============================================================================
