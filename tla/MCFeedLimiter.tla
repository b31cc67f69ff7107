---------------------------- MODULE MCFeedLimiter ----------------------------
(* Clients are alike, so the runs take them up to permutation.              *)
EXTENDS FeedLimiter, TLC

CONSTANTS c1, c2, c3, c4

MCSymmetry == Permutations(Clients)
=============================================================================
