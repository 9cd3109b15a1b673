----------------------------- MODULE MCNotices ------------------------------
(***************************************************************************)
(* Small instance of Notices for TLC: the first stable release is running. *)
(***************************************************************************)
EXTENDS Notices

CONSTANTS arr, loop, request

MCRunning == [channel |-> "stable", number |-> 0]
=============================================================================
