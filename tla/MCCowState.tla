------------------------------ MODULE MCCowState ------------------------------
(* States that share and unshare their maps, small enough for TLC. *)
EXTENDS CowState, TLC

CONSTANTS s1, s2, s3, x, v1

MCSlot     == {s1, s2, s3}
MCName     == {x}
MCValue    == {v1}
MCExported == {x}
MCAddr     == 1..3
Slots      == Permutations(MCSlot)
MCSize     == [n \in MCName \cup MCValue |-> IF n = v1 THEN 3 ELSE 1]
===============================================================================
