---------------------------- MODULE MCMirrorSync ----------------------------
EXTENDS MirrorSync, TLC
CONSTANTS f1, f2, k1, k2, A, B, cA, cB
\* k1 is an appointment of f1; k2 is one of f2 where there is an f2, else of f1.
MCKeyFeed == [k \in Keys |-> IF k = k2 /\ f2 \in Feeds THEN f2 ELSE f1]
\* Which source has which collection at the start is a matter of naming.
MCInit == Init /\ (A \in Calendars => coll[A] = cA)
MCFairSpec == MCInit /\ [][Next]_vars /\ WF_vars(SyncStep)
CalendarSymmetry == Permutations(Calendars) \cup Permutations(Cols)
=============================================================================
