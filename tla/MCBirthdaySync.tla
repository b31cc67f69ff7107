---------------------------- MODULE MCBirthdaySync ----------------------------
(* One or two persons of one or two contact sources, two Google accounts and
   two collections; calendars of a kind are interchangeable. *)
EXTENDS BirthdaySync, TLC

CONSTANTS f1, f2, k1, k2, S, A, B, cA, cB

MCKeyFeed == [k \in Keys |-> IF k = k2 /\ f2 \in Feeds THEN f2 ELSE f1]
MCSymmetry == Permutations(Accounts) \cup Permutations(Cols)
=============================================================================
