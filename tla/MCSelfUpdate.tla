---------------------------- MODULE MCSelfUpdate ----------------------------
(***************************************************************************)
(* Small instance of SelfUpdate for TLC.                                   *)
(***************************************************************************)
EXTENDS SelfUpdate, TLC

CONSTANTS r1, r2, j1

=============================================================================
