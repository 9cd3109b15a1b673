------------------------------ MODULE MCWanted ------------------------------
(***************************************************************************)
(* Small instance of Wanted for TLC: an allowed language and a filtered    *)
(* one, in files that have either, both, and the target or not.            *)
(***************************************************************************)
EXTENDS Wanted, TLC

CONSTANT MCEffort   \* how many of the counted steps happen in one behaviour

MCContents ==
    {[eng |-> "missing", fre |-> "missing"], [eng |-> "done", fre |-> "missing"],
     [eng |-> "absent", fre |-> "done"]}

\* The counted steps come from outside, so no fair step is cut off.
Scope ==
    count["upgrades"] + count["manual"] + count["failures"] + count["toggles"] <= MCEffort
=============================================================================
