----------------------------- MODULE MCBusySync -----------------------------
(* Two or three appointments, ranked against the order of their keys; the   *)
(* ids from 10 on are the second account's.                                 *)
EXTENDS BusySync, TLC

CONSTANTS A, B, t1, t2

MCRank == [k \in Keys |-> 10 - k]
MCOwner == [i \in Ids |-> IF i < 10 THEN A ELSE B]
MCSymmetry == Permutations(Times)
=============================================================================
