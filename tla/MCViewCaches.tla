---------------------------- MODULE MCViewCaches ----------------------------
(* Lifetimes in the order the constants of the code have: the board's error *)
(* outlives a board, every other error is shorter than a payload.           *)
EXTENDS ViewCaches

MCTtl == [v \in Views |-> CASE v = "transit" -> 1 [] v \in {"history", "admins"} -> 3
                             [] OTHER -> 2]
MCErrorTtl == [v \in Views |-> CASE v \in {"history", "radar"} -> 0 [] v = "transit" -> 2
                                  [] OTHER -> 1]
=============================================================================
