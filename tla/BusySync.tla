------------------------------- MODULE BusySync -------------------------------
(***************************************************************************)
(* The busy sync (app/busy_sync.py, app/google_busy.py): every time range  *)
(* the selected calendars occupy gets one neutral "Busy MV" block in the   *)
(* primary calendar of the Google account that gave the write token.       *)
(*                                                                         *)
(* A run merges the wanted appointments by time range, renames the mapping *)
(* rows of ranges whose winner changed, lists its own blocks, and then     *)
(* inserts and patches, deletes the blocks of rows nobody wants, and       *)
(* deletes listed blocks it knows nothing of.  Google takes no             *)
(* precondition: a request names an event id.                              *)
(*                                                                         *)
(* A request and the row stored after its response are one step here: what *)
(* the server did before a response that never came is a failed request    *)
(* with its effect, and admin and user may act between any two requests.   *)
(***************************************************************************)
EXTENDS Naturals, FiniteSets

CONSTANTS
    Keys,        \* source keys in the order their strings sort
    Rank,        \* the order (source_id, uid, key) that picks a slot's winner
    Times,       \* occupied time ranges: start, end and all-day flag
    Accounts,    \* Google accounts
    Ids,         \* Google event ids; the least unused one is given out next
    Owner,       \* the account in whose calendar an event id was issued
    Null,
    MaxFaults,   \* bound on failed requests and crashes
    MaxEdits,    \* bound on changes the user makes to blocks
    MaxSwitches, \* bound on connecting and disconnecting an account
    AdminMidRun  \* may admin requests arrive while a run is under way?

ASSUME BusyAssumption ==
    /\ Keys \subseteq Nat
    /\ Rank \in [Keys -> Nat]
    /\ \A j, k \in Keys : Rank[j] = Rank[k] => j = k
    /\ Ids \subseteq Nat /\ Owner \in [Ids -> Accounts]
    /\ Null \notin Times \cup Accounts \cup Ids
    /\ MaxFaults \in Nat /\ MaxEdits \in Nat /\ MaxSwitches \in Nat
    /\ AdminMidRun \in BOOLEAN

VARIABLES
    enabled,   \* busy_sync_enabled
    token,     \* account of google_busywrite_token.json, or Null: no file
    switches,  \* times an account was connected or disconnected
    mapping,   \* busy_blocks: the row of each key, or Null
    status,    \* last_error of busy_sync_status
    wanted,    \* what desired_source_events returns: time of each key, or Null
    blocks,    \* the blocks in Google: content of each event id, or Null
    edits,     \* changes the user made to blocks so far
    faults,    \* failed requests and crashes so far
    touched,   \* ids of blocks the user changed, or a request left in doubt
    pc,        \* what the run awaits
    acct,      \* the account whose tokens the run holds in memory
    desired,   \* time of each slot's winner, Null for all other keys
    rows,      \* the run's copy of the mapping, after the adoption
    listed,    \* ids of the blocks listed at the start of the run
    drifted,   \* those of them whose visibility was not the default
    todo,      \* keys of the current phase still to be visited
    known,     \* known_ids
    deleted,   \* deleted_ids
    disturbed  \* user or admin interfered since the run began

settings == <<enabled, token, switches>>
google == <<blocks, edits, touched>>
snapshot == <<acct, desired, rows>>
listing == <<listed, drifted>>
progress == <<todo, known, deleted>>
run == <<pc, snapshot, listing, progress>>
vars == <<settings, mapping, status, wanted, google, faults, run, disturbed>>

Row == [id : Ids, time : Times]
Block == [time : Times, private : BOOLEAN]
ASSUME NullIsNoRecord == Null \notin Row \cup Block

NoTimes == [k \in Keys |-> Null]
NoRows == [k \in Keys |-> Null]
Kept(f) == {k \in Keys : f[k] # Null}

TypeOK ==
    /\ enabled \in BOOLEAN
    /\ token \in Accounts \cup {Null} /\ switches \in 0..MaxSwitches
    /\ mapping \in [Keys -> Row \cup {Null}]
    /\ status \in {"never", "ok", "error"}
    /\ wanted \in [Keys -> Times \cup {Null}]
    /\ blocks \in [Ids -> Block \cup {Null}]
    /\ edits \in 0..MaxEdits /\ faults \in 0..MaxFaults
    /\ touched \subseteq Ids
    /\ pc \in {"idle", "list", "write", "delete", "orphan"}
    /\ acct \in Accounts \cup {Null}
    /\ desired \in [Keys -> Times \cup {Null}]
    /\ rows \in [Keys -> Row \cup {Null}]
    /\ listed \subseteq Ids /\ drifted \subseteq listed
    /\ todo \subseteq Keys /\ known \subseteq Ids /\ deleted \subseteq Ids \ known
    /\ disturbed \in BOOLEAN

Init ==
    /\ enabled = FALSE /\ token = Null /\ switches = 0 /\ mapping = NoRows /\ status = "never"
    /\ wanted = NoTimes
    /\ blocks = [i \in Ids |-> Null] /\ edits = 0 /\ faults = 0 /\ touched = {}
    /\ pc = "idle" /\ acct = Null /\ desired = NoTimes /\ rows = NoRows
    /\ listed = {} /\ drifted = {} /\ todo = {} /\ known = {} /\ deleted = {}
    /\ disturbed = FALSE

ForgetRun ==
    /\ acct' = Null /\ desired' = NoTimes /\ rows' = NoRows
    /\ listed' = {} /\ drifted' = {}
    /\ todo' = {} /\ known' = {} /\ deleted' = {}
    /\ disturbed' = FALSE

-----------------------------------------------------------------------------
\* merge_busy_events: of the appointments in one time range the lowest rank
\* wins, and only winners are written.
Wins(k) == \A j \in Keys : wanted[j] = wanted[k] => Rank[k] <= Rank[j]
MutEveryoneWins == wanted
Slots == [k \in Keys |-> IF Wins(k) THEN wanted[k] ELSE Null]

\* _adopt_existing_blocks: rows the diff would delete, by the time they hold.
Spare(t) == {j \in Kept(mapping) : Slots[j] = Null /\ mapping[j].time = t}
Heir(k) == Slots[k] # Null /\ mapping[k] = Null /\ Spare(Slots[k]) # {}
Adopted(k) == CHOOSE j \in Spare(Slots[k]) : \A i \in Spare(Slots[k]) : j <= i

\* The mapping with the row of a slot's former winner under its new one.
MutNoAdoption == mapping
MutAdoptCopies ==
    [k \in Keys |-> IF Heir(k) THEN mapping[Adopted(k)] ELSE mapping[k]]
Adoption ==
    [k \in Keys |->
        IF Heir(k) THEN mapping[Adopted(k)]
        ELSE IF \E h \in Keys : Heir(h) /\ Adopted(h) = k THEN Null
        ELSE mapping[k]]

StartBusy ==
    /\ pc = "idle" /\ enabled /\ token # Null
    /\ pc' = "list"
    /\ acct' = token
    /\ desired' = Slots
    /\ rows' = Adoption /\ mapping' = Adoption
    /\ UNCHANGED <<settings, status, wanted, google, faults, listing, progress,
                   disturbed>>

\* The process dies between dropping a row and storing it under its new key.
AdoptionCut ==
    /\ pc = "idle" /\ enabled /\ token # Null
    /\ faults < MaxFaults /\ faults' = faults + 1
    /\ \E k \in Keys : Heir(k) /\ mapping' = [mapping EXCEPT ![Adopted(k)] = Null]
    /\ UNCHANGED <<settings, status, wanted, google, run, disturbed>>

Present(i) == blocks[i] # Null /\ Owner[i] = acct

ListBlocks ==
    /\ pc = "list"
    /\ listed' = {i \in Ids : Present(i)}
    /\ drifted' = {i \in Ids : Present(i) /\ blocks[i].private}
    /\ pc' = "write" /\ todo' = Kept(desired)
    /\ UNCHANGED <<settings, mapping, status, wanted, google, faults, snapshot,
                   known, deleted, disturbed>>

\* The id Google gives out next: no block or row has it, nor does the run.
\* Ids bounds the inserts: none without an id left.
Fresh ==
    {i \in Ids :
        /\ Owner[i] = acct
        /\ blocks[i] = Null /\ i \notin listed \cup known \cup deleted
        /\ \A k \in Keys : \A f \in {mapping, rows} : f[k] # Null => f[k].id # i}
NewId == CHOOSE i \in Fresh : \A j \in Fresh : i <= j

\* event_body: what an insert or a patch writes.
Body(k) == [time |-> desired[k], private |-> FALSE]

Visit(k, phase) == pc = phase /\ k \in todo /\ todo' = todo \ {k}

InsertBlock(k) ==
    /\ Visit(k, "write") /\ rows[k] = Null /\ Fresh # {}
    /\ blocks' = [blocks EXCEPT ![NewId] = Body(k)]
    /\ mapping' = [mapping EXCEPT ![k] = [id |-> NewId, time |-> desired[k]]]
    /\ known' = known \cup {NewId} /\ touched' = touched \ {NewId}
    /\ UNCHANGED <<settings, status, wanted, edits, faults, pc, snapshot, listing,
                   deleted, disturbed>>

\* The block needs no PATCH: times agree and no visibility drift was listed.
Settled(k) == rows[k].time = desired[k] /\ rows[k].id \notin drifted

LeaveBlock(k) ==
    /\ Visit(k, "write") /\ rows[k] # Null /\ Settled(k)
    /\ known' = known \cup {rows[k].id}
    /\ UNCHANGED <<settings, mapping, status, wanted, google, faults, pc, snapshot,
                   listing, deleted, disturbed>>

\* A block the user deleted stays deleted, whatever Google answers.
PatchBlock(k) ==
    /\ Visit(k, "write") /\ rows[k] # Null /\ ~Settled(k)
    /\ Owner[rows[k].id] = acct
    /\ blocks' = [blocks EXCEPT ![rows[k].id] =
                     IF @ = Null THEN @ ELSE Body(k)]
    /\ mapping' = [mapping EXCEPT ![k] = [rows[k] EXCEPT !.time = desired[k]]]
    /\ known' = known \cup {rows[k].id}
    /\ touched' = touched \ {i \in {rows[k].id} : Present(i)}
    /\ UNCHANGED <<settings, status, wanted, edits, faults, pc, snapshot, listing,
                   deleted, disturbed>>

\* Google knows no such event, or none any more: the run ends here.
PatchRefused(k) ==
    /\ pc = "write" /\ k \in todo /\ rows[k] # Null /\ ~Settled(k)
    /\ ~Present(rows[k].id)
    /\ pc' = "idle" /\ ForgetRun /\ status' = "error"
    /\ UNCHANGED <<settings, mapping, wanted, google, faults>>

EndWrites ==
    /\ pc = "write" /\ todo = {}
    /\ pc' = "delete" /\ todo' = {k \in Kept(rows) : desired[k] = Null}
    /\ UNCHANGED <<settings, mapping, status, wanted, google, faults, snapshot,
                   listing, known, deleted, disturbed>>

\* A block that is not there counts as deleted.
Removed(i) == IF Present(i) THEN [blocks EXCEPT ![i] = Null] ELSE blocks

DeleteBlock(k) ==
    /\ Visit(k, "delete")
    /\ blocks' = Removed(rows[k].id)
    /\ mapping' = [mapping EXCEPT ![k] = Null]
    /\ deleted' = deleted \cup {rows[k].id}
    /\ touched' = touched \ {rows[k].id}
    /\ UNCHANGED <<settings, status, wanted, edits, faults, pc, snapshot, listing,
                   known, disturbed>>

EndDeletes ==
    /\ pc = "delete" /\ todo = {}
    /\ pc' = "orphan"
    /\ UNCHANGED <<settings, mapping, status, wanted, google, faults, snapshot,
                   listing, progress, disturbed>>

\* Listed blocks that no wanted row accounts for.
MutOrphansByPatch == listed \ (deleted \cup {i \in known : i \in drifted})
Orphans == listed \ (known \cup deleted)

DeleteOrphan(i) ==
    /\ pc = "orphan" /\ i \in Orphans
    /\ blocks' = Removed(i)
    /\ listed' = listed \ {i} /\ drifted' = drifted \ {i}
    /\ UNCHANGED <<settings, mapping, status, wanted, edits, touched, faults, pc,
                   snapshot, progress, disturbed>>

FinishBusy ==
    /\ pc = "orphan" /\ Orphans = {}
    /\ pc' = "idle" /\ ForgetRun /\ status' = "ok"
    /\ UNCHANGED <<settings, mapping, wanted, google, faults>>

\* The request the run is at, and what the server may have done about it when
\* the response is lost or the process dies: insert, patch or delete.
Effect(b, t) ==
    \/ /\ pc = "write"
       /\ \E k \in todo :
             \/ /\ rows[k] = Null /\ Fresh # {}
                /\ b = [blocks EXCEPT ![NewId] = Body(k)] /\ t = touched \ {NewId}
             \/ /\ rows[k] # Null /\ ~Settled(k) /\ Present(rows[k].id)
                /\ b = [blocks EXCEPT ![rows[k].id] = Body(k)]
                /\ t = touched \cup {rows[k].id}
    \/ /\ pc = "delete"
       /\ \E k \in todo : b = Removed(rows[k].id) /\ t = touched \cup {rows[k].id}
    \/ /\ pc = "orphan"
       /\ \E i \in Orphans : b = Removed(i) /\ t = touched \cup {i}

\* A request fails, and the run with it, or the process dies.
RunDies ==
    /\ pc # "idle" /\ faults < MaxFaults /\ faults' = faults + 1
    /\ \/ UNCHANGED <<blocks, touched>>
       \/ Effect(blocks', touched')
    /\ pc' = "idle" /\ ForgetRun /\ status' \in {"error", status}
    /\ UNCHANGED <<settings, mapping, wanted, edits>>

\* An expired or rejected access token is refreshed, and the token file is
\* written anew with the tokens the run holds.
RefreshToken ==
    /\ pc # "idle" /\ token # acct
    /\ token' = acct
    /\ UNCHANGED <<enabled, switches, mapping, status, wanted, google, faults, run,
                   disturbed>>

-----------------------------------------------------------------------------
\* Admin requests, and what the calendars hold for the next run.

AdminTurn == pc = "idle" \/ AdminMidRun
Interfere == disturbed' = (pc # "idle")

\* A run under way no longer looks at the switch or the calendars.
UpdateBusySync ==
    /\ pc = "idle" /\ enabled' = ~enabled
    /\ UNCHANGED <<token, switches, mapping, status, wanted, google, faults, run,
                   disturbed>>

CalendarChanges ==
    /\ pc = "idle"
    /\ \E k \in Keys, t \in Times \cup {Null} :
          wanted[k] # t /\ wanted' = [wanted EXCEPT ![k] = t]
    /\ UNCHANGED <<settings, mapping, status, google, faults, run, disturbed>>

\* A connection replaces the one there is; nothing else is touched.
ConnectAccount(a) ==
    /\ AdminTurn /\ switches < MaxSwitches /\ switches' = switches + 1
    /\ token' = a /\ Interfere
    /\ UNCHANGED <<enabled, mapping, status, wanted, google, faults, run>>

Disconnect ==
    /\ AdminTurn /\ switches < MaxSwitches /\ switches' = switches + 1
    /\ token' = Null /\ mapping' = NoRows /\ Interfere
    /\ UNCHANGED <<enabled, status, wanted, google, faults, run>>

\* The user edits the calendar in Google: deletes, moves or hides a block.
UserChangesBlock(i) ==
    /\ blocks[i] # Null /\ edits < MaxEdits /\ edits' = edits + 1
    /\ \/ blocks' = [blocks EXCEPT ![i] = Null]
       \/ \E t \in Times \ {blocks[i].time} : blocks' = [blocks EXCEPT ![i].time = t]
       \/ ~blocks[i].private /\ blocks' = [blocks EXCEPT ![i].private = TRUE]
    /\ touched' = touched \cup {i} /\ Interfere
    /\ UNCHANGED <<settings, mapping, status, wanted, faults, run>>

Next ==
    \/ StartBusy \/ AdoptionCut \/ ListBlocks \/ EndWrites \/ EndDeletes \/ FinishBusy
    \/ \E k \in Keys : \/ InsertBlock(k) \/ LeaveBlock(k) \/ PatchBlock(k)
                       \/ PatchRefused(k) \/ DeleteBlock(k)
    \/ \E i \in Ids : DeleteOrphan(i) \/ UserChangesBlock(i)
    \/ RunDies \/ RefreshToken
    \/ UpdateBusySync \/ CalendarChanges \/ Disconnect
    \/ \E a \in Accounts : ConnectAccount(a)

Spec == Init /\ [][Next]_vars

-----------------------------------------------------------------------------
Own(a) == {i \in Ids : blocks[i] # Null /\ Owner[i] = a}

\* When a run ends that nobody interfered with, every occupied time range has
\* exactly one block of the add-on, at that time, known by a row with that
\* time, and no other block is left: whatever crashed or failed before.  The
\* exceptions are blocks the user changed, or a request left in doubt, and
\* that no request has set right since (busy_sync.py: _reconcile).
BusyRunReconciles ==
    [][FinishBusy /\ ~disturbed /\ token = acct =>
          /\ Kept(mapping) = Kept(desired)
          /\ \A k \in Kept(mapping) :
                /\ mapping[k].time = desired[k]
                /\ \/ mapping[k].id \in touched
                   \/ /\ mapping[k].id \in Own(acct)
                      /\ blocks[mapping[k].id].time = desired[k]
                /\ \A j \in Kept(mapping) \ {k} :
                      mapping[j].id # mapping[k].id /\ mapping[j].time # mapping[k].time
          /\ Own(acct) \subseteq {mapping[k].id : k \in Kept(mapping)}]_vars

\* The run has visited a wanted appointment.
Visited(k) == pc \in {"delete", "orphan"} \/ (pc = "write" /\ k \notin todo)

\* The block the run counts on for appointment k: its row's, or the inserted one.
\* (Rows dropped by a disconnection during the run no longer tell which it was.)
BlockOf(k, i) ==
    /\ i \in known
    /\ rows[k] # Null => rows[k].id = i
    /\ rows[k] = Null => \A j \in Kept(rows) : rows[j].id # i
    /\ mapping[k] # Null => mapping[k].id = i

\* From the moment a run has visited an occupied time range until it ends, the
\* range has a block in the calendar: no PATCH of another range's block, no
\* deletion of an unwanted row's block and none of an orphan takes it away (the
\* order of the three phases of _reconcile, known_ids and deleted_ids).  The
\* exception is a range whose own block the user deleted or changed, or an
\* unanswered request left in doubt, and that no request has set right since:
\* such a range may really be left without one, because the run counts on what
\* its row says and deletes an orphan at the same range.  Before its visit a range may be
\* without a block for a while: the PATCH of a row's block to its appointment's
\* new time may come before the insert for the range it leaves.
StaysCovered ==
    \A k \in Kept(desired) :
        Visited(k) => \/ \E i \in Own(acct) : blocks[i].time = desired[k]
                      \/ \E i \in touched : BlockOf(k, i)

\* "For every appointment [...] this maintains exactly one neutral "Busy MV"
\* block" (busy_sync.py), that is, after every run that nobody interfered with
\* and that reports no error.
ExactlyOneBlock ==
    [][FinishBusy /\ ~disturbed /\ token = acct =>
          \A k \in Kept(desired) :
             Cardinality({i \in Own(acct) : blocks[i].time = desired[k]}) = 1]_vars

\* A run does not write a block for a time range whose block it then deletes
\* because another appointment now stands for the range (_adopt_existing_blocks:
\* "a pointless change in Roland's real calendar").
NoChurn ==
    [][\A k \in Keys :
          InsertBlock(k) =>
             \A j \in Kept(rows) : desired[j] = Null => rows[j].time # desired[k]]_vars

\* The mapping names only blocks in the calendar of the connected account
\* (delete_google_write_token: "reconciliation must start from an empty mapping
\* rather than risk patching/deleting events in the newly connected account").
MappingIsOfAccount ==
    token # Null => \A k \in Kept(mapping) : Owner[mapping[k].id] = token
=============================================================================
