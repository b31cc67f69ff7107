---------------------------- MODULE MCGroundwater ----------------------------
(* Station 1, in the upper tier, is broken; station 2, in the deep one, is   *)
(* not.                                                                      *)
EXTENDS Groundwater
=============================================================================
