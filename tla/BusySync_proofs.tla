--------------------------- MODULE BusySync_proofs ---------------------------
(***************************************************************************)
(* Theorems about BusySync, for every value of its constants: type         *)
(* correctness and that a block follows the winner of its range; and, with *)
(* one Google account, that a range a run has visited stays covered, and   *)
(* that an undisturbed run ends with one block for every range, both save  *)
(* for blocks the user changed or a request left in doubt.                 *)
(***************************************************************************)
EXTENDS BusySync, TLAPS, WellFoundedInduction

-----------------------------------------------------------------------------
(* The inductive invariant. *)

TypesOK ==
    /\ enabled \in BOOLEAN
    /\ token \in Accounts \cup {Null} /\ switches \in 0..MaxSwitches
    /\ mapping \in [Keys -> Row \cup {Null}]
    /\ status \in {"never", "ok", "error"}
    /\ wanted \in [Keys -> Times \cup {Null}]
    /\ blocks \in [Ids -> Block \cup {Null}]
    /\ edits \in 0..MaxEdits /\ faults \in 0..MaxFaults
    /\ touched \subseteq Ids
    /\ pc \in {"idle", "list", "write", "delete", "orphan"}
    /\ acct \in Accounts \cup {Null}
    /\ desired \in [Keys -> Times \cup {Null}]
    /\ rows \in [Keys -> Row \cup {Null}]
    /\ listed \subseteq Ids /\ drifted \subseteq listed
    /\ todo \subseteq Keys /\ known \subseteq Ids /\ deleted \subseteq Ids
    /\ disturbed \in BOOLEAN

\* What is still to be visited in each phase.
PhaseOK ==
    /\ pc = "idle" => /\ ~disturbed /\ rows = NoRows /\ desired = NoTimes
    /\ pc # "idle" => acct \in Accounts
    /\ pc \in {"idle", "list"} => todo = {} /\ known = {}
    /\ pc \in {"idle", "list", "write"} => deleted = {}
    /\ pc = "write" => todo \subseteq Kept(desired)
    /\ pc = "delete" => todo \subseteq Kept(rows) \ Kept(desired)
    /\ pc = "orphan" => todo = {}

\* No two rows name one block.
Distinct(f) == \A j, k \in Keys : f[j] # Null /\ f[k] # Null /\ f[j].id = f[k].id => j = k

HasRow(i) == \E k \in Keys : rows[k] # Null /\ rows[k].id = i

\* A stored row is the run's row, or that of a block the run inserted.
Linked ==
    pc # "idle" =>
        \A k \in Keys : mapping[k] # Null =>
            IF rows[k] # Null THEN mapping[k].id = rows[k].id
            ELSE mapping[k].id \in known /\ ~HasRow(mapping[k].id)

\* Rows that are known are wanted, rows of deleted blocks are not.
Sorted ==
    /\ \A k \in Keys : rows[k] # Null /\ rows[k].id \in known => desired[k] # Null
    /\ \A i \in deleted : \E k \in Keys : rows[k] # Null /\ desired[k] = Null /\ rows[k].id = i
    /\ pc \in {"delete", "orphan"} =>
          \A k \in Keys : rows[k] # Null /\ desired[k] = Null /\ k \notin todo
                            => rows[k].id \in deleted

Rows == Distinct(mapping) /\ Distinct(rows) /\ Linked /\ Sorted

\* Wanted appointments differ in their times, and no row is spare that one
\* of them without a row could have adopted.
Merged ==
    /\ \A j, k \in Keys : desired[j] # Null /\ desired[j] = desired[k] => j = k
    /\ \A j, k \in Keys :
          desired[k] # Null /\ rows[k] = Null /\ rows[j] # Null /\ desired[j] = Null
             => rows[j].time # desired[k]

Holds(i, t) == blocks[i] # Null /\ blocks[i].time = t
HoldsOrDoubtful(i, t) == i \in touched \/ Holds(i, t)

\* A row tells the time of its block, unless the block is in doubt.
RowsTrue ==
    /\ \A k \in Keys : mapping[k] # Null => HoldsOrDoubtful(mapping[k].id, mapping[k].time)
    /\ \A k \in Keys :
          /\ rows[k] # Null /\ desired[k] # Null
          /\ pc = "list" \/ (pc = "write" /\ k \in todo)
          => HoldsOrDoubtful(rows[k].id, rows[k].time)

\* What stands for a visited appointment: its row's block or an inserted one.
Stands(k, i) ==
    /\ i \in known /\ HoldsOrDoubtful(i, desired[k])
    /\ IF rows[k] # Null THEN i = rows[k].id ELSE ~HasRow(i)
    /\ mapping[k] # Null => mapping[k].id = i

Covered == \A k \in Keys : desired[k] # Null /\ Visited(k) => \E i \in Ids : Stands(k, i)

Own1(i) == blocks[i] # Null /\ Owner[i] = acct

\* The run knows of every block there is, and deleted ones are gone.
Seen ==
    /\ pc \in {"write", "delete", "orphan"} =>
          \A i \in Ids : Own1(i) => i \in listed \cup known
    /\ \A i \in deleted : ~Own1(i)

\* Without interference the stored rows follow the run's work.
InStep ==
    pc # "idle" /\ ~disturbed =>
        /\ \A k \in Keys :
              IF desired[k] # Null
              THEN IF Visited(k) THEN /\ mapping[k] # Null /\ mapping[k].id \in known
                                      /\ mapping[k].time = desired[k]
                                 ELSE mapping[k] = rows[k]
              ELSE IF pc \in {"delete", "orphan"} /\ k \notin todo
                   THEN mapping[k] = Null ELSE mapping[k] = rows[k]
        /\ \A i \in known : \E k \in Keys : mapping[k] # Null /\ mapping[k].id = i

Rest == PhaseOK /\ Rows /\ Merged /\ RowsTrue /\ Covered /\ Seen /\ InStep

-----------------------------------------------------------------------------
(* Helpers: what CHOOSE chooses, and what the adoption makes of the rows. *)

LEMMA LeastExists ==
    ASSUME NEW S, S \subseteq Nat, S # {}
    PROVE  \E m \in S : \A n \in S : m <= n
<1>1. PICK m \in S : \A n \in S : ~(<<n, m>> \in OpToRel(<, Nat))
  BY WFMin, NatLessThanWellFounded
<1>2. \A n \in S : ~(n < m)
  BY <1>1 DEF OpToRel
<1> QED
  BY <1>2

\* The id of an insert is new to the calendar, to the rows and to the run.
LEMMA NewIdIsNew ==
    ASSUME Fresh # {}
    PROVE  /\ NewId \in Ids /\ Owner[NewId] = acct /\ blocks[NewId] = Null
           /\ NewId \notin listed \cup known \cup deleted
           /\ \A k \in Keys : mapping[k] # Null => mapping[k].id # NewId
           /\ \A k \in Keys : rows[k] # Null => rows[k].id # NewId
<1>1. Fresh \subseteq Nat
  BY BusyAssumption DEF Fresh
<1>2. NewId \in Fresh
  <2>1. \E i \in Fresh : \A j \in Fresh : i <= j
    BY <1>1, LeastExists
  <2> QED
    BY <2>1 DEF NewId
<1> QED
  BY <1>2 DEF Fresh

LEMMA AdoptedIsSpare ==
    ASSUME NEW k \in Keys, Heir(k)
    PROVE  Adopted(k) \in Spare(Slots[k])
<1>1. Spare(Slots[k]) \subseteq Nat /\ Spare(Slots[k]) # {}
  BY BusyAssumption DEF Spare, Kept, Heir
<1>2. \E j \in Spare(Slots[k]) : \A i \in Spare(Slots[k]) : j <= i
  BY <1>1, LeastExists
<1> QED
  BY <1>2 DEF Adopted

\* Of the appointments in one range one wins.
LEMMA WinnersDiffer ==
    ASSUME TypesOK, NEW j \in Keys, NEW k \in Keys, Slots[j] # Null, Slots[j] = Slots[k]
    PROVE  j = k
<1>1. Wins(j) /\ Wins(k) /\ wanted[j] = wanted[k]
  BY DEF Slots
<1>2. Rank[j] <= Rank[k] /\ Rank[k] <= Rank[j] /\ Rank[j] \in Nat /\ Rank[k] \in Nat
  BY <1>1, BusyAssumption DEF Wins
<1> QED
  BY <1>2, BusyAssumption

LEMMA SlotsTyped == ASSUME TypesOK PROVE Slots \in [Keys -> Times \cup {Null}]
BY DEF Slots, TypesOK

\* Every row after the adoption is a row from before it, under its own key or
\* under the key of the heir, which wants the time the row has.
LEMMA AdoptionMoves ==
    ASSUME TypesOK, NEW k \in Keys
    PROVE  /\ Heir(k) => /\ Adopted(k) \in Keys /\ mapping[Adopted(k)] # Null
                         /\ Slots[Adopted(k)] = Null
                         /\ mapping[Adopted(k)].time = Slots[k]
                         /\ Adoption[k] = mapping[Adopted(k)]
           /\ ~Heir(k) /\ (\E h \in Keys : Heir(h) /\ Adopted(h) = k) => Adoption[k] = Null
           /\ ~Heir(k) /\ ~(\E h \in Keys : Heir(h) /\ Adopted(h) = k)
                => Adoption[k] = mapping[k]
<1>1. Heir(k) => Adopted(k) \in Spare(Slots[k])
  BY AdoptedIsSpare
<1>2. Heir(k) => /\ Adopted(k) \in Keys /\ mapping[Adopted(k)] # Null
                 /\ Slots[Adopted(k)] = Null /\ mapping[Adopted(k)].time = Slots[k]
  BY <1>1 DEF Spare, Kept
<1> QED
  BY <1>2 DEF Adoption

LEMMA AdoptionTyped == ASSUME TypesOK PROVE Adoption \in [Keys -> Row \cup {Null}]
<1>1. \A k \in Keys : Adoption[k] \in Row \cup {Null}
  BY AdoptionMoves DEF TypesOK
<1> QED
  BY <1>1 DEF Adoption

\* No two rows get the same block.
LEMMA AdoptionDistinct ==
    ASSUME TypesOK, Distinct(mapping)
    PROVE  Distinct(Adoption)
<1> SUFFICES ASSUME NEW j \in Keys, NEW k \in Keys, Adoption[j] # Null,
                    Adoption[k] # Null, Adoption[j].id = Adoption[k].id
             PROVE  j = k
  BY DEF Distinct
<1>1. CASE Heir(j) /\ Heir(k)
  <2>1. mapping[Adopted(j)].id = mapping[Adopted(k)].id
    BY <1>1, AdoptionMoves
  <2>2. Adopted(j) = Adopted(k)
    BY <1>1, <2>1, AdoptionMoves DEF Distinct
  <2>3. Slots[j] = Slots[k] /\ Slots[j] # Null
    BY <1>1, <2>2, AdoptionMoves DEF Heir
  <2> QED
    BY <2>3, WinnersDiffer
<1>2. CASE Heir(j) /\ ~Heir(k)
  <2>1. Adoption[k] = mapping[k] /\ Adopted(j) # k
    BY <1>2, AdoptionMoves
  <2> QED
    BY <1>2, <2>1, AdoptionMoves DEF Distinct
<1>3. CASE ~Heir(j) /\ Heir(k)
  <2>1. Adoption[j] = mapping[j] /\ Adopted(k) # j
    BY <1>3, AdoptionMoves
  <2> QED
    BY <1>3, <2>1, AdoptionMoves DEF Distinct
<1>4. CASE ~Heir(j) /\ ~Heir(k)
  BY <1>4, AdoptionMoves DEF Distinct
<1> QED
  BY <1>1, <1>2, <1>3, <1>4

-----------------------------------------------------------------------------
(* Types. *)

LEMMA ForgetRunTyped ==
    ASSUME ForgetRun
    PROVE  /\ acct' \in Accounts \cup {Null} /\ desired' \in [Keys -> Times \cup {Null}]
           /\ rows' \in [Keys -> Row \cup {Null}] /\ listed' \subseteq Ids
           /\ drifted' \subseteq listed' /\ todo' \subseteq Keys /\ known' \subseteq Ids
           /\ deleted' \subseteq Ids /\ disturbed' \in BOOLEAN
BY DEF ForgetRun, NoTimes, NoRows

LEMMA BodyTyped ==
    ASSUME TypesOK, NEW k \in Keys, desired[k] # Null
    PROVE  Body(k) \in Block /\ Body(k) # Null
<1>1. desired[k] \in Times
  BY DEF TypesOK
<1>2. Body(k) \in Block
  BY <1>1 DEF Body, Block
<1> QED
  BY <1>2, NullIsNoRecord

\* What a request leaves in the calendar are blocks.
LEMMA EffectTyped ==
    ASSUME TypesOK, PhaseOK, NEW b, NEW t, Effect(b, t)
    PROVE  b \in [Ids -> Block \cup {Null}] /\ t \subseteq Ids
<1>1. CASE pc = "write"
  <2>1. PICK k \in todo :
             \/ /\ rows[k] = Null /\ Fresh # {}
                /\ b = [blocks EXCEPT ![NewId] = Body(k)] /\ t = touched \ {NewId}
             \/ /\ rows[k] # Null
                /\ b = [blocks EXCEPT ![rows[k].id] = Body(k)]
                /\ t = touched \cup {rows[k].id}
    BY <1>1 DEF Effect
  <2>2. k \in Keys /\ Body(k) \in Block
    BY <1>1, BodyTyped DEF TypesOK, PhaseOK, Kept
  <2>3. rows[k] # Null => rows[k].id \in Ids
    BY <2>2 DEF TypesOK, Row
  <2> QED
    BY <2>1, <2>2, <2>3 DEF TypesOK
<1>2. CASE pc = "delete"
  <2>1. PICK k \in todo : b = Removed(rows[k].id) /\ t = touched \cup {rows[k].id}
    BY <1>2 DEF Effect
  <2>2. rows[k].id \in Ids
    BY <1>2 DEF TypesOK, PhaseOK, Kept, Row
  <2> QED
    BY <2>1, <2>2 DEF TypesOK, Removed
<1>3. CASE pc = "orphan"
  BY <1>3 DEF Effect, TypesOK, Removed, Orphans
<1> QED
  BY <1>1, <1>2, <1>3 DEF Effect

LEMMA InitTyped == Init => TypesOK
<1> SUFFICES ASSUME Init PROVE TypesOK
  OBVIOUS
<1>1. NoRows \in [Keys -> Row \cup {Null}] /\ NoTimes \in [Keys -> Times \cup {Null}]
  BY DEF NoRows, NoTimes
<1>2. blocks \in [Ids -> Block \cup {Null}]
  BY DEF Init
<1>3. 0 \in 0..MaxSwitches /\ 0 \in 0..MaxEdits /\ 0 \in 0..MaxFaults
  BY BusyAssumption
<1> QED
  BY <1>1, <1>2, <1>3 DEF Init, TypesOK

LEMMA StepTyped == TypesOK /\ Rest /\ [Next]_vars => TypesOK'
<1> SUFFICES ASSUME TypesOK, Rest, [Next]_vars PROVE TypesOK'
  OBVIOUS
<1> USE DEF TypesOK
<1>1. CASE StartBusy
  <2>1. mapping' \in [Keys -> Row \cup {Null}] /\ rows' \in [Keys -> Row \cup {Null}]
    BY <1>1, AdoptionTyped DEF StartBusy
  <2>2. desired' \in [Keys -> Times \cup {Null}]
    BY <1>1, SlotsTyped DEF StartBusy
  <2>3. acct' \in Accounts \cup {Null} /\ pc' = "list"
    BY <1>1 DEF StartBusy
  <2>4. UNCHANGED <<settings, status, wanted, google, faults, listing, progress, disturbed>>
    BY <1>1 DEF StartBusy
  <2> QED
    BY <2>1, <2>2, <2>3, <2>4 DEF settings, google, listing, progress
<1>2. CASE AdoptionCut
  <2>1. mapping' \in [Keys -> Row \cup {Null}]
    <3>1. PICK k \in Keys : mapping' = [mapping EXCEPT ![Adopted(k)] = Null]
      BY <1>2 DEF AdoptionCut
    <3> QED
      BY <3>1
  <2>3. faults' \in 0..MaxFaults
    BY <1>2, BusyAssumption DEF AdoptionCut
  <2>2. UNCHANGED <<settings, status, wanted, google, run, disturbed>>
    BY <1>2 DEF AdoptionCut
  <2> QED
    BY <2>1, <2>2, <2>3 DEF settings, google, run, snapshot, listing, progress
<1>3. CASE ListBlocks
  BY <1>3 DEF ListBlocks, settings, google, snapshot, Kept
<1>4. CASE EndWrites \/ EndDeletes
  BY <1>4 DEF EndWrites, EndDeletes, settings, google, snapshot, listing, progress, Kept
<1>5. CASE FinishBusy
  BY <1>5, ForgetRunTyped DEF FinishBusy, settings, google
<1>6. ASSUME NEW k \in Keys, InsertBlock(k) PROVE TypesOK'
  <2>1. k \in todo /\ pc = "write" /\ desired[k] # Null
    BY <1>6 DEF InsertBlock, Visit, Rest, PhaseOK, Kept
  <2>2. Body(k) \in Block /\ NewId \in Ids
    BY <1>6, <2>1, BodyTyped, NewIdIsNew DEF InsertBlock
  <2>3. [id |-> NewId, time |-> desired[k]] \in Row
    BY <2>1, <2>2 DEF Row
  <2> QED
    BY <1>6, <2>2, <2>3 DEF InsertBlock, Visit, settings, snapshot, listing
<1>7. ASSUME NEW k \in Keys, LeaveBlock(k) PROVE TypesOK'
  <2>1. rows[k].id \in Ids
    BY <1>7 DEF LeaveBlock, Row
  <2> QED
    BY <1>7, <2>1 DEF LeaveBlock, Visit, settings, google, snapshot, listing
<1>8. ASSUME NEW k \in Keys, PatchBlock(k) PROVE TypesOK'
  <2>1. desired[k] \in Times
    BY <1>8 DEF PatchBlock, Visit, Rest, PhaseOK, Kept
  <2>2. Body(k) \in Block /\ rows[k] \in Row
    BY <1>8, <2>1, BodyTyped, BusyAssumption DEF PatchBlock
  <2>3. [rows[k] EXCEPT !.time = desired[k]] \in Row /\ rows[k].id \in Ids
    BY <2>1, <2>2 DEF Row
  <2> QED
    BY <1>8, <2>2, <2>3 DEF PatchBlock, Visit, settings, snapshot, listing
<1>9. ASSUME NEW k \in Keys, PatchRefused(k) PROVE TypesOK'
  BY <1>9, ForgetRunTyped DEF PatchRefused, settings, google
<1>10. ASSUME NEW k \in Keys, DeleteBlock(k) PROVE TypesOK'
  <2>1. rows[k].id \in Ids
    BY <1>10 DEF DeleteBlock, Visit, Rest, PhaseOK, Kept, Row
  <2> QED
    BY <1>10, <2>1 DEF DeleteBlock, Visit, Removed, settings, snapshot, listing
<1>11. ASSUME NEW i \in Ids, DeleteOrphan(i) PROVE TypesOK'
  BY <1>11 DEF DeleteOrphan, Removed, settings, snapshot, progress
<1>12. ASSUME NEW i \in Ids, UserChangesBlock(i) PROVE TypesOK'
  <2>1. blocks[i] \in Block
    BY <1>12 DEF UserChangesBlock
  <2>2. blocks' \in [Ids -> Block \cup {Null}]
    BY <1>12, <2>1 DEF UserChangesBlock, Block
  <2> QED
    BY <1>12, <2>2, BusyAssumption
       DEF UserChangesBlock, Interfere, settings, run, snapshot, listing, progress
<1>13. CASE RunDies
  <2>1. blocks' \in [Ids -> Block \cup {Null}] /\ touched' \subseteq Ids
    BY <1>13, EffectTyped DEF RunDies, Rest
  <2> QED
    <3>1. ForgetRun /\ pc' = "idle" /\ status' \in {"error", status}
      BY <1>13 DEF RunDies
    <3>2. faults' \in 0..MaxFaults
      BY <1>13, BusyAssumption DEF RunDies
    <3>3. UNCHANGED <<enabled, token, switches, mapping, wanted, edits>>
      BY <1>13 DEF RunDies, settings
    <3> QED
      BY <2>1, <3>1, <3>2, <3>3, ForgetRunTyped
<1>14. CASE RefreshToken \/ UpdateBusySync \/ CalendarChanges
  BY <1>14 DEF RefreshToken, UpdateBusySync, CalendarChanges, settings, google, run,
               snapshot, listing, progress
<1>15. CASE Disconnect \/ \E a \in Accounts : ConnectAccount(a)
  <2>1. mapping' \in [Keys -> Row \cup {Null}] /\ token' \in Accounts \cup {Null}
    BY <1>15 DEF Disconnect, ConnectAccount, NoRows
  <2>3. switches' \in 0..MaxSwitches
    BY <1>15, BusyAssumption DEF Disconnect, ConnectAccount
  <2>4. disturbed' \in BOOLEAN
    BY <1>15 DEF Disconnect, ConnectAccount, Interfere
  <2>2. UNCHANGED <<enabled, status, wanted, google, faults, run>>
    BY <1>15 DEF Disconnect, ConnectAccount
  <2> QED
    BY <2>1, <2>2, <2>3, <2>4 DEF google, run, snapshot, listing, progress
<1>16. CASE UNCHANGED vars
  BY <1>16 DEF vars, settings, google, run, snapshot, listing, progress
<1> QED
  BY <1>1, <1>2, <1>3, <1>4, <1>5, <1>6, <1>7, <1>8, <1>9, <1>10, <1>11, <1>12, <1>13,
     <1>14, <1>15, <1>16 DEF Next

-----------------------------------------------------------------------------
(* The rest of the invariant, one lemma per action. *)

LEMMA InitRest == Init => Rest
<1> SUFFICES ASSUME Init PROVE Rest
  OBVIOUS
<1>1. /\ mapping = [k \in Keys |-> Null] /\ rows = [k \in Keys |-> Null]
      /\ desired = [k \in Keys |-> Null] /\ pc = "idle" /\ todo = {} /\ known = {}
      /\ deleted = {} /\ ~disturbed
  BY DEF Init, NoRows, NoTimes
<1>2. PhaseOK
  BY <1>1 DEF PhaseOK, NoRows, NoTimes
<1>3. Rows
  BY <1>1 DEF Rows, Distinct, Linked, Sorted
<1>4. Merged /\ RowsTrue
  BY <1>1 DEF Merged, RowsTrue
<1>5. Covered /\ Seen /\ InStep
  BY <1>1 DEF Covered, Seen, InStep
<1> QED
  BY <1>2, <1>3, <1>4, <1>5 DEF Rest

\* A run that begins.
LEMMA StartRest ==
    ASSUME TypesOK, Rest, StartBusy
    PROVE  Rest'
<1>1. /\ pc = "idle" /\ token # Null /\ pc' = "list" /\ acct' = token
      /\ desired' = Slots /\ rows' = Adoption /\ mapping' = Adoption
      /\ UNCHANGED <<blocks, touched, known, deleted, todo, listed, disturbed>>
  BY DEF StartBusy, google, listing, progress
<1>2. known' = {} /\ deleted' = {} /\ todo' = {}
  BY <1>1 DEF Rest, PhaseOK
<1>3. PhaseOK'
  BY <1>1, <1>2 DEF PhaseOK, TypesOK
<1>4. Rows'
  <2>1. Distinct(Adoption)
    BY AdoptionDistinct DEF Rest, Rows
  <2> QED
    BY <1>1, <1>2, <2>1 DEF Rows, Distinct, Linked, Sorted
<1>5. Merged'
  <2>1. \A j, k \in Keys : Slots[j] # Null /\ Slots[j] = Slots[k] => j = k
    BY WinnersDiffer
  <2>2. ASSUME NEW j \in Keys, NEW k \in Keys, Slots[k] # Null, Adoption[k] = Null,
               Adoption[j] # Null, Slots[j] = Null, Adoption[j].time = Slots[k]
        PROVE  FALSE
    <3>1. ~Heir(j) /\ Adoption[j] = mapping[j]
      BY <2>2, AdoptionMoves DEF Heir
    <3>2. j \in Spare(Slots[k])
      BY <2>2, <3>1 DEF Spare, Kept
    <3>3. mapping[k] = Null
      BY <2>2, AdoptionMoves
    <3>4. Heir(k)
      BY <2>2, <3>2, <3>3 DEF Heir
    <3> QED
      BY <2>2, <3>4, AdoptionMoves
  <2> QED
    BY <1>1, <2>1, <2>2 DEF Merged
<1>6. RowsTrue'
  <2>1. ASSUME NEW k \in Keys, Adoption[k] # Null
        PROVE  HoldsOrDoubtful(Adoption[k].id, Adoption[k].time)
    <3>1. PICK j \in Keys : Adoption[k] = mapping[j]
      BY <2>1, AdoptionMoves
    <3> QED
      BY <2>1, <3>1 DEF Rest, RowsTrue
  <2> QED
    BY <1>1, <2>1 DEF RowsTrue, HoldsOrDoubtful, Holds
<1>7. Covered' /\ Seen' /\ InStep'
  BY <1>1, <1>2 DEF Covered, Visited, Seen, InStep
<1> QED
  BY <1>3, <1>4, <1>5, <1>6, <1>7 DEF Rest

LEMMA ListRest ==
    ASSUME TypesOK, Rest, ListBlocks
    PROVE  Rest'
<1>1. /\ pc = "list" /\ pc' = "write" /\ todo' = Kept(desired)
      /\ listed' = {i \in Ids : Present(i)} /\ known = {} /\ deleted = {} /\ todo = {}
      /\ UNCHANGED <<mapping, blocks, touched, acct, desired, rows, known, deleted,
                     disturbed>>
  BY DEF ListBlocks, google, snapshot, Rest, PhaseOK
<1>2. PhaseOK'
  BY <1>1 DEF PhaseOK, Kept, Rest
<1>3. Rows'
  BY <1>1 DEF Rest, Rows, Distinct, Linked, HasRow, Sorted
<1>4. Merged'
  BY <1>1 DEF Rest, Merged
<1>5. RowsTrue'
  BY <1>1 DEF Rest, RowsTrue, HoldsOrDoubtful, Holds
<1>6. Covered'
  BY <1>1 DEF Covered, Visited, Kept
<1>7. Seen'
  BY <1>1 DEF Seen, Own1, Present
<1>8. InStep'
  BY <1>1 DEF Rest, InStep, Visited, Kept
<1> QED
  BY <1>2, <1>3, <1>4, <1>5, <1>6, <1>7, <1>8 DEF Rest

LEMMA InsertRest ==
    ASSUME TypesOK, Rest, NEW k \in Keys, InsertBlock(k)
    PROVE  Rest'
<1>1. PICK n \in Ids :
      /\ n = NewId /\ Owner[n] = acct /\ blocks[n] = Null
      /\ n \notin listed \cup known \cup deleted
      /\ \A j \in Keys : mapping[j] # Null => mapping[j].id # n
      /\ \A j \in Keys : rows[j] # Null => rows[j].id # n
  BY NewIdIsNew DEF InsertBlock
<1>2. /\ pc = "write" /\ k \in todo /\ todo' = todo \ {k} /\ rows[k] = Null
      /\ desired[k] # Null
      /\ UNCHANGED <<pc, acct, desired, rows, listed, deleted, disturbed>>
      /\ known' = known \cup {n} /\ touched' = touched \ {n}
  BY <1>1 DEF InsertBlock, Visit, snapshot, listing, Rest, PhaseOK, Kept
<1>3. /\ blocks'[n] = Body(k) /\ Body(k) # Null /\ Body(k).time = desired[k]
      /\ \A i \in Ids : i # n => blocks'[i] = blocks[i]
  BY <1>1, <1>2, BodyTyped DEF InsertBlock, TypesOK, Body
<1>4. /\ mapping'[k] = [id |-> n, time |-> desired[k]]
      /\ \A j \in Keys : j # k => mapping'[j] = mapping[j]
  BY <1>1 DEF InsertBlock, TypesOK
<1>5. mapping'[k] # Null /\ mapping'[k].id = n /\ mapping'[k].time = desired[k]
  <2>1. [id |-> n, time |-> desired[k]] \in Row
    BY <1>1, <1>2 DEF Row, TypesOK
  <2> QED
    BY <1>4, <2>1, NullIsNoRecord
<1>6. PhaseOK'
  BY <1>2 DEF Rest, PhaseOK, Kept
<1>7. Rows'
  <2>1. Distinct(mapping') /\ Distinct(rows')
    BY <1>1, <1>2, <1>4, <1>5 DEF Rest, Rows, Distinct
  <2>2. Linked'
    BY <1>1, <1>2, <1>4, <1>5 DEF Rest, Rows, Linked, HasRow
  <2>3. Sorted'
    BY <1>1, <1>2 DEF Rest, Rows, Sorted
  <2> QED
    BY <2>1, <2>2, <2>3 DEF Rows, Distinct
<1>8. Merged'
  BY <1>2 DEF Rest, Merged
<1>9. RowsTrue'
  <2>1. ASSUME NEW i \in Ids, i # n, NEW t, HoldsOrDoubtful(i, t)
        PROVE  HoldsOrDoubtful(i, t)'
    BY <1>2, <1>3, <2>1 DEF HoldsOrDoubtful, Holds
  <2>2. HoldsOrDoubtful(n, desired[k])'
    BY <1>2, <1>3 DEF HoldsOrDoubtful, Holds
  <2>3. ASSUME NEW j \in Keys, mapping'[j] # Null
        PROVE  HoldsOrDoubtful(mapping[j].id, mapping[j].time)'
    <3>1. CASE j = k
      BY <1>2, <1>5, <2>2, <3>1 DEF HoldsOrDoubtful, Holds
    <3>2. CASE j # k
      <4>1. mapping[j] # Null /\ mapping[j].id \in Ids /\ mapping[j].id # n
        BY <1>1, <1>4, <2>3, <3>2 DEF TypesOK, Row
      <4>2. HoldsOrDoubtful(mapping[j].id, mapping[j].time)
        BY <4>1 DEF Rest, RowsTrue
      <4> QED
        BY <1>2, <1>3, <1>4, <3>2, <4>1, <4>2 DEF HoldsOrDoubtful, Holds
    <3> QED
      BY <3>1, <3>2
  <2>4. ASSUME NEW j \in Keys, rows[j] # Null, desired[j] # Null, j \in todo
        PROVE  HoldsOrDoubtful(rows[j].id, rows[j].time)'
    <3>1. rows[j].id \in Ids /\ rows[j].id # n
      BY <1>1, <2>4 DEF TypesOK, Row
    <3>2. HoldsOrDoubtful(rows[j].id, rows[j].time)
      BY <1>2, <2>4 DEF Rest, RowsTrue
    <3> QED
      BY <1>2, <1>3, <3>1, <3>2 DEF HoldsOrDoubtful, Holds
  <2> QED
    BY <1>2, <2>3, <2>4 DEF RowsTrue
<1>10. Covered'
  <2>1. ASSUME NEW j \in Keys, desired[j] # Null, j \notin todo
        PROVE  \E i \in Ids : Stands(j, i)'
    <3>1. PICK i \in Ids : Stands(j, i)
      BY <1>2, <2>1 DEF Rest, Covered, Visited
    <3>2. i \in known /\ i # n
      BY <1>1, <3>1 DEF Stands
    <3>3. Stands(j, i)'
      BY <1>2, <1>3, <1>4, <2>1, <3>1, <3>2 DEF Stands, HoldsOrDoubtful, Holds, HasRow
    <3> QED
      BY <3>3
  <2>2. Stands(k, n)'
    BY <1>1, <1>2, <1>3, <1>5 DEF Stands, HoldsOrDoubtful, Holds, HasRow
  <2> QED
    BY <1>1, <1>2, <2>1, <2>2 DEF Covered, Visited
<1>11. Seen'
  BY <1>1, <1>2, <1>3 DEF Rest, Seen, Own1, TypesOK
<1>12. InStep'
  <2>1. ASSUME ~disturbed
        PROVE  \A j \in Keys :
                  IF desired[j] # Null
                  THEN IF j \notin todo' THEN /\ mapping'[j] # Null /\ mapping'[j].id \in known'
                                              /\ mapping'[j].time = desired[j]
                                         ELSE mapping'[j] = rows[j]
                  ELSE mapping'[j] = rows[j]
    BY <1>2, <1>4, <1>5, <2>1 DEF Rest, InStep, Visited
  <2>2. ASSUME ~disturbed
        PROVE  \A i \in known' : \E j \in Keys : mapping'[j] # Null /\ mapping'[j].id = i
    <3>1. \A i \in known : \E j \in Keys : mapping[j] # Null /\ mapping[j].id = i
      BY <1>2, <2>2 DEF Rest, InStep
    <3>2. mapping[k] = Null
      BY <1>2, <2>2 DEF Rest, InStep, Visited
    <3> QED
      BY <1>2, <1>4, <1>5, <3>1, <3>2
  <2> QED
    BY <1>2, <2>1, <2>2 DEF InStep, Visited
<1> QED
  BY <1>6, <1>7, <1>8, <1>9, <1>10, <1>11, <1>12 DEF Rest

LEMMA LeaveRest ==
    ASSUME TypesOK, Rest, NEW k \in Keys, LeaveBlock(k)
    PROVE  Rest'
<1>1. /\ pc = "write" /\ k \in todo /\ todo' = todo \ {k} /\ rows[k] # Null
      /\ desired[k] # Null /\ rows[k].time = desired[k] /\ rows[k].id \in Ids
      /\ UNCHANGED <<mapping, blocks, touched, pc, acct, desired, rows, listed, deleted,
                     disturbed>>
      /\ known' = known \cup {rows[k].id}
  BY DEF LeaveBlock, Settled, Visit, google, snapshot, listing, Rest, PhaseOK, Kept,
         TypesOK, Row
<1>2. PhaseOK'
  BY <1>1 DEF Rest, PhaseOK, Kept
<1>3. Rows'
  <2>1. Linked'
    BY <1>1 DEF Rest, Rows, Linked, HasRow
  <2>2. Sorted'
    BY <1>1 DEF Rest, Rows, Distinct, Sorted
  <2> QED
    BY <1>1, <2>1, <2>2 DEF Rest, Rows, Distinct
<1>4. Merged'
  BY <1>1 DEF Rest, Merged
<1>5. RowsTrue'
  BY <1>1 DEF Rest, RowsTrue, HoldsOrDoubtful, Holds
<1>6. Covered'
  <2>1. ASSUME NEW j \in Keys, desired[j] # Null, j \notin todo
        PROVE  \E i \in Ids : Stands(j, i)'
    <3>1. PICK i \in Ids : Stands(j, i)
      BY <1>1, <2>1 DEF Rest, Covered, Visited
    <3>2. Stands(j, i)'
      BY <1>1, <3>1 DEF Stands, HoldsOrDoubtful, Holds, HasRow
    <3> QED
      BY <3>2
  <2>2. \E i \in Ids : Stands(k, i)'
    <3>1. HoldsOrDoubtful(rows[k].id, desired[k])
      BY <1>1 DEF Rest, RowsTrue
    <3>2. PICK i \in Ids : i = rows[k].id
      BY <1>1
    <3>3. Stands(k, i)'
      BY <1>1, <3>1, <3>2 DEF Stands, HoldsOrDoubtful, Holds, Rest, Rows, Linked
    <3> QED
      BY <3>3
  <2> QED
    BY <1>1, <2>1, <2>2 DEF Covered, Visited
<1>7. Seen'
  BY <1>1 DEF Rest, Seen, Own1
<1>8. InStep'
  <2>1. ~disturbed => mapping[k] = rows[k]
    BY <1>1 DEF Rest, InStep, Visited
  <2> QED
    BY <1>1, <2>1 DEF Rest, InStep, Visited
<1> QED
  BY <1>2, <1>3, <1>4, <1>5, <1>6, <1>7, <1>8 DEF Rest

LEMMA PatchRest ==
    ASSUME TypesOK, Rest, NEW k \in Keys, PatchBlock(k)
    PROVE  Rest'
<1>1. /\ pc = "write" /\ k \in todo /\ todo' = todo \ {k} /\ rows[k] # Null
      /\ desired[k] # Null /\ rows[k] \in Row
      /\ UNCHANGED <<pc, acct, desired, rows, listed, deleted, disturbed>>
  BY DEF PatchBlock, Visit, snapshot, listing, Rest, PhaseOK, Kept, TypesOK
<1>2. PICK n \in Ids : n = rows[k].id /\ Owner[n] = acct
  BY <1>1 DEF PatchBlock, Row
<1>3. known' = known \cup {n}
  BY <1>2 DEF PatchBlock
<1>4. /\ blocks'[n] = IF blocks[n] = Null THEN Null ELSE Body(k)
      /\ \A i \in Ids : i # n => blocks'[i] = blocks[i]
  BY <1>2 DEF PatchBlock, TypesOK
<1>5. Body(k) # Null /\ Body(k).time = desired[k]
  BY <1>1, BodyTyped DEF Body
<1>6. /\ \A i \in Ids : i # n => (i \in touched' <=> i \in touched)
      /\ blocks[n] # Null => n \notin touched'
      /\ blocks[n] = Null => (n \in touched' <=> n \in touched)
  BY <1>2 DEF PatchBlock, Present
<1>7. /\ mapping'[k] # Null /\ mapping'[k].id = n /\ mapping'[k].time = desired[k]
      /\ \A j \in Keys : j # k => mapping'[j] = mapping[j]
  <2>1. mapping'[k] = [rows[k] EXCEPT !.time = desired[k]]
    BY DEF PatchBlock, TypesOK
  <2>2. desired[k] \in Times
    BY <1>1 DEF TypesOK
  <2>3. mapping'[k] \in Row /\ mapping'[k].id = n /\ mapping'[k].time = desired[k]
    BY <1>1, <1>2, <2>1, <2>2 DEF Row
  <2>4. \A j \in Keys : j # k => mapping'[j] = mapping[j]
    BY DEF PatchBlock, TypesOK
  <2> QED
    BY <2>3, <2>4, NullIsNoRecord
<1>8. HoldsOrDoubtful(n, desired[k])'
  <2>1. blocks[n] = Null => n \in touched
    <3>1. HoldsOrDoubtful(rows[k].id, rows[k].time)
      BY <1>1 DEF Rest, RowsTrue
    <3> QED
      BY <1>2, <3>1 DEF HoldsOrDoubtful, Holds
  <2> QED
    BY <1>1, <1>4, <1>5, <1>6, <2>1 DEF HoldsOrDoubtful, Holds
<1>9. ASSUME NEW j \in Keys, j # k
      PROVE  /\ mapping[j] # Null => mapping[j].id \in Ids /\ mapping[j].id # n
             /\ rows[j] # Null => rows[j].id \in Ids /\ rows[j].id # n
  <2>1. rows[j] # Null => rows[j].id # n
    BY <1>1, <1>2, <1>9 DEF Rest, Rows, Distinct
  <2>2. mapping[j] # Null => mapping[j].id # n
    BY <1>1, <1>2, <2>1 DEF Rest, Rows, Linked, HasRow
  <2> QED
    BY <2>1, <2>2 DEF TypesOK, Row
<1>10. PhaseOK'
  BY <1>1, <1>3 DEF Rest, PhaseOK, Kept
<1>11. Rows'
  <2>1. Distinct(mapping') /\ Distinct(rows')
    BY <1>1, <1>7, <1>9 DEF Rest, Rows, Distinct
  <2>2. Linked'
    BY <1>1, <1>2, <1>3, <1>7 DEF Rest, Rows, Linked, HasRow
  <2>3. Sorted'
    BY <1>1, <1>3, <1>9 DEF Rest, Rows, Sorted
  <2> QED
    BY <2>1, <2>2, <2>3 DEF Rows, Distinct
<1>12. Merged'
  BY <1>1 DEF Rest, Merged
<1>13. RowsTrue'
  <2>1. ASSUME NEW j \in Keys, mapping'[j] # Null
        PROVE  HoldsOrDoubtful(mapping[j].id, mapping[j].time)'
    <3>1. CASE j = k
      BY <1>7, <1>8, <1>1, <3>1 DEF HoldsOrDoubtful, Holds
    <3>2. CASE j # k
      <4>1. HoldsOrDoubtful(mapping[j].id, mapping[j].time)
        BY <1>7, <2>1, <3>2 DEF Rest, RowsTrue
      <4> QED
        BY <1>4, <1>6, <1>7, <1>9, <2>1, <3>2, <4>1 DEF HoldsOrDoubtful, Holds
    <3> QED
      BY <3>1, <3>2
  <2>2. ASSUME NEW j \in Keys, rows[j] # Null, desired[j] # Null, j \in todo, j # k
        PROVE  HoldsOrDoubtful(rows[j].id, rows[j].time)'
    <3>1. HoldsOrDoubtful(rows[j].id, rows[j].time)
      BY <1>1, <2>2 DEF Rest, RowsTrue
    <3> QED
      BY <1>1, <1>4, <1>6, <1>9, <2>2, <3>1 DEF HoldsOrDoubtful, Holds
  <2> QED
    BY <1>1, <2>1, <2>2 DEF RowsTrue
<1>14. Covered'
  <2>1. ASSUME NEW j \in Keys, desired[j] # Null, j \notin todo
        PROVE  \E i \in Ids : Stands(j, i)'
    <3>1. PICK i \in Ids : Stands(j, i)
      BY <1>1, <2>1 DEF Rest, Covered, Visited
    <3>2. i # n
      BY <1>1, <1>2, <1>9, <2>1, <3>1 DEF Stands, HasRow
    <3>3. Stands(j, i)'
      BY <1>1, <1>3, <1>4, <1>6, <1>7, <2>1, <3>1, <3>2
         DEF Stands, HoldsOrDoubtful, Holds, HasRow
    <3> QED
      BY <3>3
  <2>2. Stands(k, n)'
    BY <1>1, <1>2, <1>3, <1>7, <1>8 DEF Stands, HoldsOrDoubtful, Holds
  <2> QED
    BY <1>1, <2>1, <2>2 DEF Covered, Visited
<1>15. Seen'
  BY <1>1, <1>3, <1>4 DEF Rest, PhaseOK, Seen, Own1
<1>16. InStep'
  <2>1. ~disturbed => mapping[k] = rows[k]
    BY <1>1 DEF Rest, InStep, Visited
  <2>2. ASSUME ~disturbed
        PROVE  \A i \in known' : \E j \in Keys : mapping'[j] # Null /\ mapping'[j].id = i
    <3>1. \A i \in known : \E j \in Keys : mapping[j] # Null /\ mapping[j].id = i
      BY <1>1, <2>2 DEF Rest, InStep
    <3> QED
      BY <1>1, <1>2, <1>3, <1>7, <2>1, <2>2, <3>1
  <2> QED
    BY <1>1, <1>3, <1>7, <2>2 DEF Rest, InStep, Visited
<1> QED
  BY <1>10, <1>11, <1>12, <1>13, <1>14, <1>15, <1>16 DEF Rest

LEMMA EndWritesRest ==
    ASSUME TypesOK, Rest, EndWrites
    PROVE  Rest'
<1>1. /\ pc = "write" /\ todo = {} /\ pc' = "delete" /\ deleted = {}
      /\ todo' = {k \in Keys : rows[k] # Null /\ desired[k] = Null}
      /\ UNCHANGED <<mapping, blocks, touched, acct, desired, rows, listed, known, deleted,
                     disturbed>>
  BY DEF EndWrites, google, snapshot, listing, Rest, PhaseOK, Kept
<1>2. PhaseOK'
  BY <1>1 DEF Rest, PhaseOK, Kept
<1>3. Rows'
  BY <1>1 DEF Rest, Rows, Distinct, Linked, HasRow, Sorted
<1>4. Merged' /\ RowsTrue'
  BY <1>1 DEF Rest, Merged, RowsTrue, HoldsOrDoubtful, Holds
<1>5. Covered'
  <2>1. ASSUME NEW j \in Keys, desired[j] # Null
        PROVE  \E i \in Ids : Stands(j, i)'
    <3>1. PICK i \in Ids : Stands(j, i)
      BY <1>1, <2>1 DEF Rest, Covered, Visited
    <3>2. Stands(j, i)'
      BY <1>1, <3>1 DEF Stands, HoldsOrDoubtful, Holds, HasRow
    <3> QED
      BY <3>2
  <2> QED
    BY <1>1, <2>1 DEF Covered
<1>6. Seen'
  BY <1>1 DEF Rest, Seen, Own1
<1>7. InStep'
  BY <1>1 DEF Rest, InStep, Visited
<1> QED
  BY <1>2, <1>3, <1>4, <1>5, <1>6, <1>7 DEF Rest

LEMMA EndDeletesRest ==
    ASSUME TypesOK, Rest, EndDeletes
    PROVE  Rest'
<1>1. /\ pc = "delete" /\ todo = {} /\ pc' = "orphan"
      /\ UNCHANGED <<mapping, blocks, touched, acct, desired, rows, listed, todo, known,
                     deleted, disturbed>>
  BY DEF EndDeletes, google, snapshot, listing, progress
<1>2. PhaseOK'
  BY <1>1 DEF Rest, PhaseOK, Kept
<1>3. Rows'
  BY <1>1 DEF Rest, Rows, Distinct, Linked, HasRow, Sorted
<1>4. Merged' /\ RowsTrue'
  BY <1>1 DEF Rest, Merged, RowsTrue, HoldsOrDoubtful, Holds
<1>5. Covered'
  <2>1. ASSUME NEW j \in Keys, desired[j] # Null
        PROVE  \E i \in Ids : Stands(j, i)'
    <3>1. PICK i \in Ids : Stands(j, i)
      BY <1>1, <2>1 DEF Rest, Covered, Visited
    <3>2. Stands(j, i)'
      BY <1>1, <3>1 DEF Stands, HoldsOrDoubtful, Holds, HasRow
    <3> QED
      BY <3>2
  <2> QED
    BY <1>1, <2>1 DEF Covered
<1>6. Seen'
  BY <1>1 DEF Rest, Seen, Own1
<1>7. InStep'
  BY <1>1 DEF Rest, InStep, Visited
<1> QED
  BY <1>2, <1>3, <1>4, <1>5, <1>6, <1>7 DEF Rest

LEMMA DeleteRest ==
    ASSUME TypesOK, Rest, NEW k \in Keys, DeleteBlock(k)
    PROVE  Rest'
<1>1. /\ pc = "delete" /\ k \in todo /\ todo' = todo \ {k} /\ rows[k] # Null
      /\ desired[k] = Null
      /\ UNCHANGED <<pc, acct, desired, rows, listed, drifted, known, disturbed>>
  BY DEF DeleteBlock, Visit, snapshot, listing, Rest, PhaseOK, Kept
<1>2. PICK n \in Ids : n = rows[k].id
  BY <1>1 DEF TypesOK, Row
<1>3. /\ deleted' = deleted \cup {n} /\ touched' = touched \ {n}
      /\ n \notin known
  BY <1>1, <1>2 DEF DeleteBlock, Rest, Rows, Sorted
<1>4. /\ \A i \in Ids : i # n => blocks'[i] = blocks[i]
      /\ blocks'[n] = Null \/ Owner[n] # acct
  BY <1>2 DEF DeleteBlock, Removed, Present, TypesOK
<1>5. mapping'[k] = Null /\ \A j \in Keys : j # k => mapping'[j] = mapping[j]
  BY DEF DeleteBlock, TypesOK
<1>6. ASSUME NEW j \in Keys, j # k, mapping[j] # Null
      PROVE  mapping[j].id \in Ids /\ mapping[j].id # n
  <2>1. rows[j] # Null => rows[j].id # n
    BY <1>1, <1>2, <1>6 DEF Rest, Rows, Distinct
  <2> QED
    BY <1>1, <1>2, <1>6, <2>1 DEF Rest, Rows, Linked, HasRow, TypesOK, Row
<1>7. PhaseOK'
  BY <1>1 DEF Rest, PhaseOK, Kept
<1>8. Rows'
  <2>1. Distinct(mapping') /\ Distinct(rows')
    BY <1>1, <1>5 DEF Rest, Rows, Distinct
  <2>2. Linked'
    BY <1>1, <1>5 DEF Rest, Rows, Linked, HasRow
  <2>3. Sorted'
    BY <1>1, <1>2, <1>3 DEF Rest, Rows, Sorted
  <2> QED
    BY <2>1, <2>2, <2>3 DEF Rows, Distinct
<1>9. Merged'
  BY <1>1 DEF Rest, Merged
<1>10. RowsTrue'
  <2>1. ASSUME NEW j \in Keys, mapping'[j] # Null
        PROVE  HoldsOrDoubtful(mapping[j].id, mapping[j].time)'
    <3>1. j # k /\ mapping'[j] = mapping[j]
      BY <1>5, <2>1
    <3>2. HoldsOrDoubtful(mapping[j].id, mapping[j].time)
      BY <2>1, <3>1 DEF Rest, RowsTrue
    <3> QED
      BY <1>3, <1>4, <1>6, <2>1, <3>1, <3>2 DEF HoldsOrDoubtful, Holds
  <2> QED
    BY <1>1, <2>1 DEF RowsTrue
<1>11. Covered'
  <2>1. ASSUME NEW j \in Keys, desired[j] # Null
        PROVE  \E i \in Ids : Stands(j, i)'
    <3>1. PICK i \in Ids : Stands(j, i)
      BY <1>1, <2>1 DEF Rest, Covered, Visited
    <3>2. i # n
      BY <1>3, <3>1 DEF Stands
    <3>3. Stands(j, i)'
      BY <1>1, <1>3, <1>4, <1>5, <2>1, <3>1, <3>2
         DEF Stands, HoldsOrDoubtful, Holds, HasRow
    <3> QED
      BY <3>3
  <2> QED
    BY <1>1, <2>1 DEF Covered
<1>12. Seen'
  BY <1>1, <1>3, <1>4 DEF Rest, Seen, Own1, TypesOK
<1>13. InStep'
  <2>1. ASSUME ~disturbed
        PROVE  \A i \in known' : \E j \in Keys : mapping'[j] # Null /\ mapping'[j].id = i
    <3>1. \A i \in known : \E j \in Keys : mapping[j] # Null /\ mapping[j].id = i
      BY <1>1, <2>1 DEF Rest, InStep
    <3>2. mapping[k] = rows[k]
      BY <1>1, <2>1 DEF Rest, InStep
    <3> QED
      BY <1>1, <1>2, <1>3, <1>5, <3>1, <3>2
  <2> QED
    BY <1>1, <1>5, <2>1 DEF Rest, InStep, Visited
<1> QED
  BY <1>7, <1>8, <1>9, <1>10, <1>11, <1>12, <1>13 DEF Rest

LEMMA OrphanRest ==
    ASSUME TypesOK, Rest, NEW n \in Ids, DeleteOrphan(n)
    PROVE  Rest'
<1>1. /\ pc = "orphan" /\ n \notin known /\ n \notin deleted /\ todo = {}
      /\ listed' = listed \ {n}
      /\ UNCHANGED <<mapping, touched, pc, acct, desired, rows, todo, known, deleted,
                     disturbed>>
  BY DEF DeleteOrphan, Orphans, snapshot, progress, Rest, PhaseOK
<1>2. /\ \A i \in Ids : i # n => blocks'[i] = blocks[i]
      /\ blocks'[n] = Null \/ Owner[n] # acct
  BY DEF DeleteOrphan, Removed, Present, TypesOK
<1>3. ASSUME NEW j \in Keys, mapping[j] # Null
      PROVE  mapping[j].id \in Ids /\ mapping[j].id # n
  <2>1. CASE rows[j] = Null
    BY <1>1, <1>3, <2>1 DEF Rest, Rows, Linked, TypesOK, Row
  <2>2. CASE rows[j] # Null /\ desired[j] # Null
    <3>1. PICK i \in Ids : Stands(j, i)
      BY <1>1, <2>2 DEF Rest, Covered, Visited
    <3> QED
      BY <1>1, <1>3, <2>2, <3>1 DEF Stands, Rest, Rows, Linked
  <2>3. CASE rows[j] # Null /\ desired[j] = Null
    <3>1. rows[j].id \in deleted
      BY <1>1, <2>3 DEF Rest, Rows, Sorted
    <3> QED
      BY <1>1, <1>3, <2>3, <3>1 DEF Rest, Rows, Linked, TypesOK, Row
  <2> QED
    BY <2>1, <2>2, <2>3
<1>4. PhaseOK'
  BY <1>1 DEF Rest, PhaseOK
<1>5. Rows' /\ Merged'
  BY <1>1 DEF Rest, Rows, Distinct, Linked, HasRow, Sorted, Merged
<1>6. RowsTrue'
  <2>1. ASSUME NEW j \in Keys, mapping[j] # Null
        PROVE  HoldsOrDoubtful(mapping[j].id, mapping[j].time)'
    <3>1. HoldsOrDoubtful(mapping[j].id, mapping[j].time)
      BY <2>1 DEF Rest, RowsTrue
    <3> QED
      BY <1>1, <1>2, <1>3, <2>1, <3>1 DEF HoldsOrDoubtful, Holds
  <2> QED
    BY <1>1, <2>1 DEF RowsTrue
<1>7. Covered'
  <2>1. ASSUME NEW j \in Keys, desired[j] # Null
        PROVE  \E i \in Ids : Stands(j, i)'
    <3>1. PICK i \in Ids : Stands(j, i)
      BY <1>1, <2>1 DEF Rest, Covered, Visited
    <3>2. Stands(j, i)'
      BY <1>1, <1>2, <3>1 DEF Stands, HoldsOrDoubtful, Holds, HasRow
    <3> QED
      BY <3>2
  <2> QED
    BY <1>1, <2>1 DEF Covered
<1>8. Seen'
  BY <1>1, <1>2 DEF Rest, Seen, Own1, TypesOK
<1>9. InStep'
  BY <1>1 DEF Rest, InStep, Visited
<1> QED
  BY <1>4, <1>5, <1>6, <1>7, <1>8, <1>9 DEF Rest

\* A run that is over leaves the mapping behind, and nothing else.
LEMMA ForgetRest ==
    ASSUME Distinct(mapping), ForgetRun, pc' = "idle", UNCHANGED mapping,
           \A k \in Keys : mapping[k] # Null => HoldsOrDoubtful(mapping[k].id, mapping[k].time)'
    PROVE  Rest'
<1>1. /\ \A k \in Keys : rows'[k] = Null /\ desired'[k] = Null
      /\ rows' = NoRows /\ desired' = NoTimes /\ ~disturbed'
      /\ todo' = {} /\ known' = {} /\ deleted' = {}
  BY DEF ForgetRun, NoRows, NoTimes
<1>2. PhaseOK'
  BY <1>1 DEF PhaseOK, NoRows, NoTimes
<1>3. Rows' /\ Merged'
  BY <1>1 DEF Rows, Distinct, Linked, Sorted, Merged
<1>4. RowsTrue'
  BY <1>1 DEF RowsTrue
<1>5. Covered' /\ Seen' /\ InStep'
  BY <1>1 DEF Covered, Seen, InStep
<1> QED
  BY <1>2, <1>3, <1>4, <1>5 DEF Rest

\* What a request leaves behind that got no answer: its block is in doubt.
LEMMA EffectInDoubt ==
    ASSUME TypesOK, Rest, Effect(blocks', touched'), NEW k \in Keys, mapping[k] # Null,
           UNCHANGED mapping
    PROVE  HoldsOrDoubtful(mapping[k].id, mapping[k].time)'
<1>1. mapping[k].id \in Ids /\ HoldsOrDoubtful(mapping[k].id, mapping[k].time)
  BY DEF Rest, RowsTrue, TypesOK, Row
<1>2. SUFFICES \E n \in Ids :
                 /\ \A i \in Ids : i # n => /\ blocks'[i] = blocks[i]
                                            /\ i \in touched => i \in touched'
                 /\ mapping[k].id = n => n \in touched'
  BY <1>1, <1>2 DEF HoldsOrDoubtful, Holds
<1>3. CASE pc = "write"
  <2>1. PICK j \in todo :
             \/ /\ rows[j] = Null /\ Fresh # {}
                /\ blocks' = [blocks EXCEPT ![NewId] = Body(j)] /\ touched' = touched \ {NewId}
             \/ /\ rows[j] # Null
                /\ blocks' = [blocks EXCEPT ![rows[j].id] = Body(j)]
                /\ touched' = touched \cup {rows[j].id}
    BY <1>3 DEF Effect
  <2>2. CASE rows[j] = Null
    <3>1. NewId \in Ids /\ mapping[k].id # NewId
      BY <2>1, <2>2, NewIdIsNew
    <3> QED
      BY <2>1, <2>2, <3>1 DEF TypesOK
  <2>3. CASE rows[j] # Null
    <3>1. rows[j].id \in Ids
      BY <2>3 DEF TypesOK, Row
    <3> QED
      BY <2>1, <2>3, <3>1 DEF TypesOK
  <2> QED
    BY <2>2, <2>3
<1>4. CASE pc = "delete"
  <2>1. PICK j \in todo : blocks' = Removed(rows[j].id) /\ touched' = touched \cup {rows[j].id}
    BY <1>4 DEF Effect
  <2>2. rows[j].id \in Ids
    BY <1>4 DEF TypesOK, Rest, PhaseOK, Kept, Row
  <2> QED
    BY <2>1, <2>2 DEF TypesOK, Removed
<1>5. CASE pc = "orphan"
  <2>1. PICK i \in Ids : blocks' = Removed(i) /\ touched' = touched \cup {i}
    BY <1>5 DEF Effect, Orphans, TypesOK
  <2> QED
    BY <2>1 DEF TypesOK, Removed
<1> QED
  BY <1>3, <1>4, <1>5 DEF Effect

LEMMA EndRest ==
    ASSUME TypesOK, Rest,
           FinishBusy \/ RunDies \/ \E k \in Keys : PatchRefused(k)
    PROVE  Rest'
<1>1. ForgetRun /\ pc' = "idle" /\ UNCHANGED mapping
  BY DEF FinishBusy, RunDies, PatchRefused
<1>2. ASSUME NEW k \in Keys, mapping[k] # Null
      PROVE  HoldsOrDoubtful(mapping[k].id, mapping[k].time)'
  <2>1. CASE UNCHANGED <<blocks, touched>>
    BY <1>1, <1>2, <2>1 DEF Rest, RowsTrue, HoldsOrDoubtful, Holds
  <2>2. CASE Effect(blocks', touched')
    BY <1>1, <1>2, <2>2, EffectInDoubt
  <2> QED
    BY <2>1, <2>2 DEF FinishBusy, RunDies, PatchRefused, google
<1>3. Distinct(mapping)
  BY DEF Rest, Rows
<1> QED
  BY <1>1, <1>2, <1>3, ForgetRest

\* What user and admin do.
LEMMA UserRest ==
    ASSUME TypesOK, Rest, NEW n \in Ids, UserChangesBlock(n)
    PROVE  Rest'
<1>1. /\ touched' = touched \cup {n} /\ disturbed' = (pc # "idle") /\ blocks[n] # Null
      /\ UNCHANGED <<mapping, pc, acct, desired, rows, listed, todo, known, deleted>>
  BY DEF UserChangesBlock, Interfere, run, snapshot, listing, progress
<1>2. \A i \in Ids : i # n => blocks'[i] = blocks[i]
  BY DEF UserChangesBlock, TypesOK
<1>3. ASSUME NEW i \in Ids, NEW t, HoldsOrDoubtful(i, t)
      PROVE  HoldsOrDoubtful(i, t)'
  BY <1>1, <1>2, <1>3 DEF HoldsOrDoubtful, Holds
<1>4. PhaseOK'
  BY <1>1 DEF Rest, PhaseOK
<1>5. Rows' /\ Merged'
  BY <1>1 DEF Rest, Rows, Distinct, Linked, HasRow, Sorted, Merged
<1>6. RowsTrue'
  <2>1. ASSUME NEW j \in Keys, mapping[j] # Null
        PROVE  HoldsOrDoubtful(mapping[j].id, mapping[j].time)'
    <3>1. mapping[j].id \in Ids /\ HoldsOrDoubtful(mapping[j].id, mapping[j].time)
      BY <2>1 DEF Rest, RowsTrue, TypesOK, Row
    <3> QED
      BY <1>1, <1>2, <3>1 DEF HoldsOrDoubtful, Holds
  <2>2. ASSUME NEW j \in Keys, rows[j] # Null, desired[j] # Null,
               pc = "list" \/ (pc = "write" /\ j \in todo)
        PROVE  HoldsOrDoubtful(rows[j].id, rows[j].time)'
    <3>1. rows[j].id \in Ids /\ HoldsOrDoubtful(rows[j].id, rows[j].time)
      BY <2>2 DEF Rest, RowsTrue, TypesOK, Row
    <3> QED
      BY <1>1, <1>2, <3>1 DEF HoldsOrDoubtful, Holds
  <2> QED
    BY <1>1, <2>1, <2>2 DEF RowsTrue
<1>7. Covered'
  <2>1. ASSUME NEW j \in Keys, desired[j] # Null, Visited(j)
        PROVE  \E i \in Ids : Stands(j, i)'
    <3>1. PICK i \in Ids : Stands(j, i)
      BY <2>1 DEF Rest, Covered
    <3>2. Stands(j, i)'
      BY <1>1, <1>2, <3>1 DEF Stands, HoldsOrDoubtful, Holds, HasRow
    <3> QED
      BY <3>2
  <2> QED
    BY <1>1, <2>1 DEF Covered, Visited
<1>8. Seen'
  BY <1>1, <1>2 DEF Rest, Seen, Own1, TypesOK
<1>9. InStep'
  BY <1>1 DEF InStep
<1> QED
  BY <1>4, <1>5, <1>6, <1>7, <1>8, <1>9 DEF Rest

LEMMA AdminRest ==
    ASSUME TypesOK, Rest, Disconnect \/ \E a \in Accounts : ConnectAccount(a)
    PROVE  Rest'
<1>1. /\ disturbed' = (pc # "idle")
      /\ UNCHANGED <<blocks, touched, pc, acct, desired, rows, listed, todo, known, deleted>>
      /\ \A k \in Keys : mapping'[k] \in {Null, mapping[k]}
  BY DEF Disconnect, ConnectAccount, Interfere, NoRows, google, run, snapshot, listing,
         progress
<1>2. PhaseOK'
  BY <1>1 DEF Rest, PhaseOK
<1>3. Rows' /\ Merged'
  <2>1. Distinct(mapping') /\ Distinct(rows')
    BY <1>1 DEF Rest, Rows, Distinct
  <2>2. Linked' /\ Sorted' /\ Merged'
    BY <1>1 DEF Rest, Rows, Linked, HasRow, Sorted, Merged
  <2> QED
    BY <2>1, <2>2 DEF Rows, Distinct
<1>4. RowsTrue'
  BY <1>1 DEF Rest, RowsTrue, HoldsOrDoubtful, Holds
<1>5. Covered'
  BY <1>1 DEF Rest, Covered, Visited, Stands, HoldsOrDoubtful, Holds, HasRow
<1>6. Seen'
  BY <1>1 DEF Rest, Seen, Own1
<1>7. InStep'
  BY <1>1 DEF InStep
<1> QED
  BY <1>2, <1>3, <1>4, <1>5, <1>6, <1>7 DEF Rest

\* Steps that touch nothing the invariant is about, or lose a row while no
\* run is under way.
LEMMA QuietRest ==
    ASSUME TypesOK, Rest,
           \/ AdoptionCut \/ RefreshToken \/ UpdateBusySync \/ CalendarChanges
           \/ UNCHANGED vars
    PROVE  Rest'
<1>1. UNCHANGED <<blocks, touched, pc, acct, desired, rows, listed, todo, known, deleted,
                  disturbed>>
  BY DEF AdoptionCut, RefreshToken, UpdateBusySync, CalendarChanges, vars, google, run,
         snapshot, listing, progress
<1>2. /\ \A k \in Keys : mapping'[k] \in {Null, mapping[k]}
      /\ pc # "idle" => UNCHANGED mapping
  <2>1. CASE AdoptionCut
    <3>1. PICK k \in Keys : mapping' = [mapping EXCEPT ![Adopted(k)] = Null]
      BY <2>1 DEF AdoptionCut
    <3> QED
      BY <2>1, <3>1 DEF AdoptionCut, TypesOK
  <2>2. CASE ~AdoptionCut
    BY <2>2 DEF RefreshToken, UpdateBusySync, CalendarChanges, vars
  <2> QED
    BY <2>1, <2>2
<1>3. PhaseOK'
  BY <1>1 DEF Rest, PhaseOK
<1>4. Rows' /\ Merged'
  <2>1. Distinct(mapping') /\ Distinct(rows')
    BY <1>1, <1>2 DEF Rest, Rows, Distinct
  <2>2. Linked' /\ Sorted' /\ Merged'
    BY <1>1, <1>2 DEF Rest, Rows, Linked, HasRow, Sorted, Merged
  <2> QED
    BY <2>1, <2>2 DEF Rows, Distinct
<1>5. RowsTrue'
  BY <1>1, <1>2 DEF Rest, RowsTrue, HoldsOrDoubtful, Holds
<1>6. Covered'
  <2>1. CASE pc = "idle"
    BY <1>1, <2>1 DEF Covered, Visited
  <2>2. CASE pc # "idle"
    BY <1>1, <1>2, <2>2 DEF Rest, Covered, Visited, Stands, HoldsOrDoubtful, Holds, HasRow
  <2> QED
    BY <2>1, <2>2
<1>7. Seen'
  BY <1>1 DEF Rest, Seen, Own1
<1>8. InStep'
  BY <1>1, <1>2 DEF Rest, InStep, Visited
<1> QED
  BY <1>3, <1>4, <1>5, <1>6, <1>7, <1>8 DEF Rest

LEMMA StepRest == TypesOK /\ Rest /\ [Next]_vars => Rest'
BY StartRest, ListRest, InsertRest, LeaveRest, PatchRest, EndWritesRest, DeleteRest,
   EndDeletesRest, OrphanRest, EndRest, UserRest, AdminRest, QuietRest DEF Next

IInv == TypesOK /\ Rest

LEMMA AlwaysIInv == Spec => []IInv
<1>1. Init => IInv
  BY InitTyped, InitRest DEF IInv
<1>2. IInv /\ [Next]_vars => IInv'
  BY StepTyped, StepRest DEF IInv
<1> QED
  BY <1>1, <1>2, PTL DEF Spec

\* A deleted row's block is none that a wanted appointment has.
LEMMA DeletedIsUnknown == IInv => deleted \subseteq Ids \ known
BY DEF IInv, TypesOK, Rest, Rows, Sorted

-----------------------------------------------------------------------------
(* Theorems. *)

\* Every reachable state is type correct; in particular no run ever deletes a
\* block that it also counts as known.
THEOREM TypeCorrect == Spec => []TypeOK
<1>1. IInv => TypeOK
  BY DeletedIsUnknown DEF IInv, TypesOK, TypeOK
<1> QED
  BY <1>1, AlwaysIInv, PTL

\* A block follows the winner of its range: no run inserts one where it has
\* the row of another appointment that it will delete.
THEOREM BlocksFollowWinners == Spec => NoChurn
<1>1. ASSUME IInv, NEW k \in Keys, InsertBlock(k), NEW j \in Kept(rows), desired[j] = Null
      PROVE  rows[j].time # desired[k]
  <2>1. desired[k] # Null /\ rows[k] = Null
    BY <1>1 DEF IInv, Rest, PhaseOK, InsertBlock, Visit, Kept
  <2> QED
    BY <1>1, <2>1 DEF IInv, Rest, Merged, Kept
<1>2. IInv /\ [Next]_vars =>
        \A k \in Keys :
          InsertBlock(k) =>
             \A j \in Kept(rows) : desired[j] = Null => rows[j].time # desired[k]
  BY <1>1
<1> QED
  BY <1>2, AlwaysIInv, PTL DEF Spec, NoChurn

\* What the next two theorems assume: one Google account, as the settings page
\* intends.  With two, rows may name blocks of the other one's calendar.
OneAccount == \A a, b \in Accounts : a = b

LEMMA AllOwn ==
    ASSUME OneAccount, IInv, pc # "idle", NEW i \in Ids
    PROVE  Owner[i] = acct
BY BusyAssumption DEF OneAccount, IInv, TypesOK, Rest, PhaseOK

\* With one account a range that a run has visited stays covered until the run
\* ends, whatever failed or died before and during it; except when the block
\* that the run counts on for that very range was changed by the user or left in
\* doubt by a request, and by no request set right since.
THEOREM RangesStayCovered == OneAccount => (Spec => []StaysCovered)
<1> SUFFICES ASSUME OneAccount PROVE Spec => []StaysCovered
  OBVIOUS
<1>1. ASSUME IInv, NEW k \in Kept(desired), Visited(k)
      PROVE  \/ \E i \in Own(acct) : blocks[i].time = desired[k]
             \/ \E i \in touched : BlockOf(k, i)
  <2>1. PICK i \in Ids : Stands(k, i)
    BY <1>1 DEF IInv, Rest, Covered, Kept
  <2>2. CASE i \in touched
    <3>1. BlockOf(k, i)
      BY <2>1 DEF Stands, BlockOf, HasRow, Kept
    <3> QED
      BY <2>2, <3>1
  <2>3. CASE i \notin touched
    <3>1. blocks[i] # Null /\ blocks[i].time = desired[k]
      BY <2>1, <2>3 DEF Stands, HoldsOrDoubtful, Holds
    <3>2. Owner[i] = acct
      BY <1>1, AllOwn DEF Visited
    <3> QED
      BY <3>1, <3>2 DEF Own
  <2> QED
    BY <2>2, <2>3
<1>2. IInv => StaysCovered
  BY <1>1 DEF StaysCovered
<1> QED
  BY <1>2, AlwaysIInv, PTL

\* An undisturbed run ends with one row for every occupied range, whose block is
\* there at its time, and with no other block: whatever happened before it, except
\* that the block of a row may still be as the user, or an unanswered request, left
\* it.
THEOREM RunsReconcile == OneAccount => (Spec => BusyRunReconciles)
<1> SUFFICES ASSUME OneAccount PROVE Spec => BusyRunReconciles
  OBVIOUS
<1>1. ASSUME IInv, FinishBusy, ~disturbed
      PROVE  /\ Kept(mapping) = Kept(desired)
             /\ \A k \in Kept(mapping) :
                   /\ mapping[k].time = desired[k]
                   /\ \/ mapping[k].id \in touched
                      \/ /\ mapping[k].id \in Own(acct)
                         /\ blocks[mapping[k].id].time = desired[k]
                   /\ \A j \in Kept(mapping) \ {k} :
                         mapping[j].id # mapping[k].id /\ mapping[j].time # mapping[k].time
             /\ Own(acct) \subseteq {mapping[k].id : k \in Kept(mapping)}
  <2>1. pc = "orphan" /\ todo = {} /\ listed \subseteq known \cup deleted
    BY <1>1 DEF FinishBusy, Orphans, IInv, Rest, PhaseOK
  <2>2. \A k \in Keys : /\ desired[k] # Null => /\ mapping[k] # Null
                                                /\ mapping[k].time = desired[k]
                        /\ desired[k] = Null => mapping[k] = Null
    BY <1>1, <2>1 DEF IInv, Rest, InStep, Visited
  <2>3. Kept(mapping) = Kept(desired)
    BY <2>2 DEF Kept
  <2>4. ASSUME NEW k \in Kept(mapping)
        PROVE  /\ mapping[k].time = desired[k]
               /\ \/ mapping[k].id \in touched
                  \/ /\ mapping[k].id \in Own(acct)
                     /\ blocks[mapping[k].id].time = desired[k]
               /\ \A j \in Kept(mapping) \ {k} :
                     mapping[j].id # mapping[k].id /\ mapping[j].time # mapping[k].time
    <3>1. k \in Keys /\ mapping[k] # Null /\ desired[k] # Null /\ mapping[k].time = desired[k]
      BY <2>2, <2>4 DEF Kept
    <3>2. mapping[k].id \in Ids /\ HoldsOrDoubtful(mapping[k].id, desired[k])
      BY <1>1, <3>1 DEF IInv, TypesOK, Row, Rest, RowsTrue
    <3>3. Owner[mapping[k].id] = acct
      BY <1>1, <2>1, <3>2, AllOwn
    <3>4. ASSUME NEW j \in Kept(mapping) \ {k}
          PROVE  mapping[j].id # mapping[k].id /\ mapping[j].time # mapping[k].time
      <4>1. j \in Keys /\ mapping[j] # Null /\ j # k /\ mapping[j].time = desired[j]
        BY <2>2, <3>4 DEF Kept
      <4> QED
        BY <1>1, <3>1, <4>1 DEF IInv, Rest, Rows, Distinct, Merged
    <3> QED
      BY <3>1, <3>2, <3>3, <3>4 DEF HoldsOrDoubtful, Holds, Own
  <2>5. ASSUME NEW i \in Own(acct) PROVE i \in {mapping[k].id : k \in Kept(mapping)}
    <3>1. i \in Ids /\ Own1(i)
      BY <2>5 DEF Own, Own1
    <3>2. i \in known
      BY <1>1, <2>1, <3>1 DEF IInv, Rest, Seen
    <3>3. PICK k \in Keys : mapping[k] # Null /\ mapping[k].id = i
      BY <1>1, <2>1, <3>2 DEF IInv, Rest, InStep
    <3> QED
      BY <3>3 DEF Kept
  <2> QED
    BY <2>3, <2>4, <2>5
<1>2. IInv /\ [Next]_vars =>
       (FinishBusy /\ ~disturbed /\ token = acct =>
             /\ Kept(mapping) = Kept(desired)
             /\ \A k \in Kept(mapping) :
                   /\ mapping[k].time = desired[k]
                   /\ \/ mapping[k].id \in touched
                      \/ /\ mapping[k].id \in Own(acct)
                         /\ blocks[mapping[k].id].time = desired[k]
                   /\ \A j \in Kept(mapping) \ {k} :
                         mapping[j].id # mapping[k].id /\ mapping[j].time # mapping[k].time
             /\ Own(acct) \subseteq {mapping[k].id : k \in Kept(mapping)})
  BY <1>1
<1> QED
  BY <1>2, AlwaysIInv, PTL DEF Spec, BusyRunReconciles
=============================================================================
