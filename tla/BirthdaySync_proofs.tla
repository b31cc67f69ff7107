------------------------- MODULE BirthdaySync_proofs -------------------------
(***************************************************************************)
(* Theorems about BirthdaySync, for every value of its constants: type     *)
(* correctness; series are deleted only on verified data, and no row of    *)
(* another collection drives a deletion; no second series of a person is   *)
(* written; and an undisturbed run leaves every person as wanted.          *)
(*                                                                         *)
(* The last two rest on three invariants: what a run sets out to do        *)
(* (Orderly), what rows, lists and requests tell of the series (Doubts),   *)
(* and where an undisturbed run stands with each person (Tracked).         *)
(***************************************************************************)
EXTENDS BirthdaySync, TLAPS

-----------------------------------------------------------------------------
(* Typing of the helpers. *)

\* A target in use has a place of its own kind.
LEMMA PlaceTyped ==
    ASSUME PlaceOK, NEW t \in Targets, place[t] # Null
    PROVE  /\ place[t] \in Places
           /\ t = "google" => place[t] \in Accounts
           /\ t = "caldav" => place[t] \in Cols
BY DEF PlaceOK, Targets, Places

\* When there is no run, its local variables have their initial values.
LEMMA ForgetRunTyped ==
    ASSUME ForgetRun
    PROVE  RunOK' /\ PlaceOK' /\ WorkOK'
<1>1. RunOK'
  <2>1. results' \in [Feeds -> Outcome] /\ wanted' \in [Keys -> Vals \cup {Null}]
    BY DEF ForgetRun, Outcome
  <2>2. old' \in [Targets -> [Keys -> Row \cup {Null}]]
    <3>1. NoRows \in [Keys -> Row \cup {Null}]
      BY DEF NoRows
    <3> QED
      BY <3>1 DEF ForgetRun
  <2>3. seenEdits' \in 0..MaxEdits
    BY CalDavAssumption DEF ForgetRun
  <2> QED
    BY <2>1, <2>2, <2>3 DEF ForgetRun, RunOK
<1>2. PlaceOK'
  BY DEF ForgetRun, PlaceOK, NoTargets, NoListing, EmptyCollection, Collection, Targets
<1>3. WorkOK'
  BY DEF ForgetRun, WorkOK
<1> QED
  BY <1>1, <1>2, <1>3

LEMMA EmptyIsCollection == EmptyCollection \in Collection
BY DEF EmptyCollection, Collection

\* What the server stores for a request is a copy.
LEMMA WrittenIsCopy ==
    ASSUME NEW v \in Vals
    PROVE  Written(v) \in Copy /\ Written(v) # NoCopy
<1>1. Written(v) \in Copy
  BY CalDavAssumption DEF Written, Copy
<1> QED
  BY <1>1, NullsAreNoCopies

\* A listed series is an ETag, at CalDAV, and has a content.
LEMMA HeldTyped ==
    ASSUME PlaceOK, NEW t \in Targets, NEW u \in Held(listing[t])
    PROVE  /\ u \in Url /\ EtagOf(t, listing[t][u]) \in Etag
           /\ listing[t][u].val \in Vals
BY DEF PlaceOK, Held, Collection, Copy, Etag, EtagOf

\* The rows of a run are rows or Null.
LEMMA OldTyped ==
    ASSUME RunOK, NEW t \in Targets, NEW k \in Keys, old[t][k] # Null
    PROVE  /\ old[t][k].url \in Url /\ old[t][k].etag \in Etag
           /\ old[t][k].val \in Vals
BY DEF RunOK, Row

Ops == {"create", "update", "refresh", "delete", "discard", "orphan", "extra"}

LEMMA ReqTyped ==
    ASSUME NEW op \in Ops, NEW t \in Targets, NEW k \in Keys, NEW u \in Url,
           NEW e \in Etag, NEW v \in Vals
    PROVE  Req(op, t, k, u, e, v) \in Request /\ Req(op, t, k, u, e, v).at = t
BY DEF Req, Request, Ops

LEMMA SyncOneTyped ==
    ASSUME TypeOK, NEW t \in Targets, NEW k \in Keys, wanted[k] # Null,
           NEW u \in Held(listing[t]) \cup {Null}
    PROVE  \A r \in SyncOne(t, k, u) : r \in Request /\ r.at = t
<1>1. wanted[k] \in Vals
  BY DEF TypeOK, RunOK
<1>2. ResourceUrl(k) \in Url /\ NoEtag \in Etag
  BY CalDavAssumption DEF ResourceUrl, Url, Etag
<1>3. CASE u = Null
  BY <1>1, <1>2, <1>3, ReqTyped DEF SyncOne, Ops
<1>4. CASE u # Null
  <2>1. u \in Url /\ EtagOf(t, listing[t][u]) \in Etag
    BY <1>4, HeldTyped DEF TypeOK
  <2> QED
    BY <1>1, <1>4, <2>1, ReqTyped DEF SyncOne, Ops
<1> QED
  BY <1>3, <1>4

LEMMA RemoveOneTyped ==
    ASSUME TypeOK, NEW t \in Targets, NEW k \in Keys,
           NEW u \in Held(listing[t]) \cup {Null}
    PROVE  \A r \in RemoveOne(t, k, u) : r \in Request /\ r.at = t
<1>1. CASE u = Null
  <2>1. CASE old[t][k] = Null
    BY <1>1, <2>1 DEF RemoveOne
  <2>2. CASE old[t][k] # Null
    <3>1. /\ old[t][k].url \in Url /\ old[t][k].etag \in Etag
          /\ old[t][k].val \in Vals
      BY <2>2, OldTyped DEF TypeOK
    <3> QED
      BY <1>1, <2>2, <3>1, ReqTyped DEF RemoveOne, Ops
  <2> QED
    BY <2>1, <2>2
<1>2. CASE u # Null
  <2>1. /\ u \in Url /\ EtagOf(t, listing[t][u]) \in Etag
        /\ listing[t][u].val \in Vals
    BY <1>2, HeldTyped DEF TypeOK
  <2>2. old[t][k] # Null => old[t][k].val \in Vals
    BY OldTyped DEF TypeOK
  <2> QED
    BY <1>2, <2>1, <2>2, ReqTyped DEF RemoveOne, Ops
<1> QED
  BY <1>1, <1>2

\* Everything a reconciler will do is a request to its target.
LEMMA ReconcileTyped ==
    ASSUME TypeOK, NEW t \in Targets, NEW own \in Indexes(t)
    PROVE  \A r \in ReconcileTarget(t, own) : r \in Request /\ r.at = t
<1>1. ASSUME NEW k \in Keys
      PROVE  own[k] \in Held(listing[t]) \cup {Null}
  BY DEF Indexes
<1>2. ASSUME NEW k \in Keys, wanted[k] # Null
      PROVE  \A r \in SyncOne(t, k, own[k]) : r \in Request /\ r.at = t
  BY <1>1, <1>2, SyncOneTyped
<1>3. ASSUME NEW k \in Keys
      PROVE  \A r \in RemoveOne(t, k, own[k]) : r \in Request /\ r.at = t
  BY <1>1, RemoveOneTyped
<1>4. ASSUME NEW u \in Held(listing[t])
      PROVE  LET r == Req("extra", t, u.key, u, EtagOf(t, listing[t][u]), listing[t][u].val)
             IN  r \in Request /\ r.at = t
  <2>1. u \in Url /\ u.key \in Keys
    BY DEF Held, Url
  <2>2. EtagOf(t, listing[t][u]) \in Etag /\ listing[t][u].val \in Vals
    BY HeldTyped DEF TypeOK
  <2> QED
    BY <2>1, <2>2, ReqTyped DEF Ops
<1> QED
  BY <1>2, <1>3, <1>4 DEF ReconcileTarget

\* A stored row is a row of its target's own kind of place.
LEMMA StoreRowTyped ==
    ASSUME TypeOK, NEW r \in Request, place[r.at] # Null, NEW u \in Url,
           NEW e \in Etag, StoreRow(r, u, e)
    PROVE  RowsOK'
<1> DEFINE row == [place |-> place[r.at], url |-> u, etag |-> e, val |-> r.val]
<1>1. /\ r.at \in Targets /\ r.key \in Keys /\ r.val \in Vals
  BY DEF Request
<1>2. /\ row \in Row /\ row.place = place[r.at]
      /\ r.at = "google" => row.place \in Accounts
      /\ r.at = "caldav" => row.place \in Cols
  BY <1>1, PlaceTyped DEF TypeOK, Row
<1> HIDE DEF row
<1>3. /\ rows \in [Targets -> [Keys -> Row \cup {Null}]]
      /\ rows' = [rows EXCEPT ![r.at][r.key] = row]
  BY DEF TypeOK, RowsOK, StoreRow, row
<1>4. rows' \in [Targets -> [Keys -> Row \cup {Null}]]
  BY <1>1, <1>2, <1>3
<1>5. \A t \in Targets, k \in Keys :
         rows'[t][k] = IF t = r.at /\ k = r.key THEN row ELSE rows[t][k]
  BY <1>1, <1>3
<1>6. "google" \in Targets /\ "caldav" \in Targets
  BY DEF Targets
<1>7. \A k \in Keys :
         /\ rows'["google"][k] # Null => rows'["google"][k].place \in Accounts
         /\ rows'["caldav"][k] # Null => rows'["caldav"][k].place \in Cols
  BY <1>2, <1>5, <1>6 DEF TypeOK, RowsOK
<1> QED
  BY <1>4, <1>7 DEF RowsOK

LEMMA DropRowTyped ==
    ASSUME RowsOK, NEW r \in Request, DropRow(r)
    PROVE  RowsOK'
<1>1. r.at \in Targets /\ r.key \in Keys
  BY DEF Request
<1>2. rows' \in [Targets -> [Keys -> Row \cup {Null}]]
  BY <1>1 DEF RowsOK, DropRow
<1>3. \A t \in Targets, k \in Keys : rows'[t][k] = Null \/ rows'[t][k] = rows[t][k]
  BY <1>1 DEF RowsOK, DropRow
<1>4. "google" \in Targets /\ "caldav" \in Targets
  BY DEF Targets
<1> QED
  BY <1>2, <1>3, <1>4 DEF RowsOK

\* What leaves a row in doubt is a resource of the row's place.
LEMMA LeftBehindTyped ==
    ASSUME RowsOK, NEW t \in Targets, NEW k \in Keys, NEW p
    PROVE  LeftBehind(t, k, p) \subseteq Places \X Url
BY DEF RowsOK, LeftBehind, Row

LEMMA ClearRowsTyped ==
    ASSUME TypeOK, NEW t \in Targets, ClearRows(t)
    PROVE  RowsOK' /\ doubt' \subseteq Places \X Url
<1>1. NoRows \in [Keys -> Row \cup {Null}] /\ \A k \in Keys : NoRows[k] = Null
  BY DEF NoRows
<1>2. rows' \in [Targets -> [Keys -> Row \cup {Null}]]
  BY <1>1 DEF TypeOK, RowsOK, ClearRows
<1>3. \A s \in Targets, k \in Keys : rows'[s][k] = Null \/ rows'[s][k] = rows[s][k]
  BY <1>1 DEF TypeOK, RowsOK, ClearRows
<1>4. "google" \in Targets /\ "caldav" \in Targets
  BY DEF Targets
<1>5. RowsOK'
  BY <1>2, <1>3, <1>4 DEF TypeOK, RowsOK
<1>6. \A k \in Keys : LeftBehind(t, k, Null) \subseteq Places \X Url
  BY LeftBehindTyped DEF TypeOK
<1>7. UNION {LeftBehind(t, k, Null) : k \in Keys} \subseteq Places \X Url
  BY <1>6
<1>8. doubt' \subseteq Places \X Url
  BY <1>7 DEF TypeOK, WorldOK, ClearRows
<1> QED
  BY <1>5, <1>8

LEMMA LandsTyped ==
    ASSUME NEW r \in Request
    PROVE  Lands(r) \subseteq Url
BY DEF Lands, Request

\* A request stores a copy or removes one.
LEMMA AfterTyped ==
    ASSUME NEW r \in Request
    PROVE  /\ After(r) \in Copy \cup {NoCopy}
           /\ r.op \in Writes => After(r) \in Copy /\ EtagOf(r.at, After(r)) \in Etag
           /\ After(r) = NoCopy => r.op \notin Writes
BY WrittenIsCopy DEF After, Request, EtagOf, Etag

LEMMA DoneTyped ==
    ASSUME WorldOK, PlaceOK, NEW r \in Request, place[r.at] # Null, NEW u \in Url
    PROVE  Done(r, u) \in [Places -> Collection]
<1>1. place[r.at] \in Places
  BY PlaceTyped DEF Request
<1>2. After(r) \in Copy \cup {NoCopy}
  BY AfterTyped
<1> QED
  BY <1>1, <1>2 DEF Done, WorldOK, Collection

LEMMA LeftOverTyped ==
    ASSUME PlaceOK, WorkOK
    PROVE  LeftOver \subseteq Places \X Url
<1>1. ASSUME NEW r \in work
      PROVE  place[r.at] \in Places /\ r.url \in Url
  BY PlaceTyped DEF WorkOK, Request
<1> QED
  BY <1>1 DEF LeftOver

-----------------------------------------------------------------------------
(* Type correctness, one lemma per group of actions. *)

LEMMA InitTyped == Init => TypeOK
<1> SUFFICES ASSUME Init PROVE TypeOK
  OBVIOUS
<1>1. NoRows \in [Keys -> Row \cup {Null}] /\ \A k \in Keys : NoRows[k] = Null
  BY DEF NoRows
<1>2. SettingsOK
  BY DEF Init, SettingsOK
<1>3. RowsOK
  BY <1>1 DEF Init, RowsOK, Targets
<1>4. WorldOK
  BY CalDavAssumption, BirthdayAssumption, EmptyIsCollection DEF Init, WorldOK
<1>5. RunOK
  <2>1. results \in [Feeds -> Outcome] /\ wanted \in [Keys -> Vals \cup {Null}]
    BY DEF Init, Outcome
  <2>2. old \in [Targets -> [Keys -> Row \cup {Null}]]
    BY <1>1 DEF Init
  <2>3. seenEdits \in 0..MaxEdits
    BY CalDavAssumption DEF Init
  <2> QED
    BY <2>1, <2>2, <2>3 DEF Init, RunOK
<1>6. PlaceOK /\ WorkOK
  BY EmptyIsCollection DEF Init, PlaceOK, WorkOK, NoTargets, NoListing, Targets
<1> QED
  BY <1>2, <1>3, <1>4, <1>5, <1>6 DEF TypeOK

LEMMA FetchSourcesTyped == TypeOK /\ FetchSources => TypeOK'
<1> SUFFICES ASSUME TypeOK, FetchSources PROVE TypeOK'
  OBVIOUS
<1>1. SettingsOK' /\ RowsOK'
  BY DEF TypeOK, SettingsOK, RowsOK, FetchSources, settings
<1>2. WorldOK'
  BY DEF TypeOK, WorldOK, FetchSources, world
<1>3. RunOK'
  BY DEF TypeOK, RunOK, FetchSources
<1>4. PlaceOK' /\ WorkOK'
  BY DEF TypeOK, PlaceOK, WorkOK, FetchSources, lists
<1> QED
  BY <1>1, <1>2, <1>3, <1>4 DEF TypeOK

LEMMA StartBirthdayTyped == TypeOK /\ StartBirthday => TypeOK'
<1> SUFFICES ASSUME TypeOK, StartBirthday PROVE TypeOK'
  OBVIOUS
<1> DEFINE where == [t \in Targets |-> IF t = "google" THEN GoogleAccount
                                                       ELSE CaldavCollection]
<1>1. SettingsOK' /\ RowsOK' /\ WorldOK'
  BY DEF TypeOK, SettingsOK, RowsOK, WorldOK, StartBirthday, settings, world
<1>2. CASE ForgetRun
  BY <1>1, <1>2, ForgetRunTyped DEF TypeOK
<1>3. CASE ~ForgetRun
  <2>1. /\ pc' = "list" /\ place' = where /\ toList' = {t \in Targets : where[t] # Null}
        /\ wanted' = DesiredBirthdays /\ ids' = sourceIds /\ old' = rows
        /\ seenEdits' = edits /\ disturbed' = FALSE
        /\ UNCHANGED <<results, listing, work, conflicts>>
        /\ pc = "stages"
    BY <1>3 DEF StartBirthday
  <2>2. /\ GoogleAccount \in Accounts \cup {Null}
        /\ CaldavCollection \in Cols \cup {Null}
    BY DEF TypeOK, SettingsOK, GoogleAccount, CaldavCollection
  <2>3. DesiredBirthdays \in [Keys -> Vals \cup {Null}]
    BY DEF TypeOK, SettingsOK, DesiredBirthdays
  <2>4. RunOK'
    BY <2>1, <2>3 DEF TypeOK, SettingsOK, RowsOK, WorldOK, RunOK
  <2>5. PlaceOK'
    BY <2>1, <2>2 DEF TypeOK, PlaceOK, Targets
  <2>6. WorkOK'
    BY <2>1 DEF TypeOK, WorkOK
  <2> QED
    BY <1>1, <2>4, <2>5, <2>6 DEF TypeOK
<1> QED
  BY <1>2, <1>3

LEMMA ListSeriesTyped == TypeOK /\ ListSeries => TypeOK'
<1> SUFFICES ASSUME TypeOK, ListSeries PROVE TypeOK'
  OBVIOUS
<1>1. SettingsOK' /\ RowsOK' /\ WorldOK' /\ RunOK'
  BY DEF TypeOK, SettingsOK, RowsOK, WorldOK, RunOK, ListSeries, settings, world, plan
<1>2. WorkOK'
  BY DEF TypeOK, WorkOK, ListSeries, plan
<1>3. First(toList) \in toList /\ First(toList) \in Targets
  BY DEF TypeOK, PlaceOK, ListSeries, First, Targets
<1>4. store[place[First(toList)]] \in Collection
  BY <1>3, PlaceTyped DEF TypeOK, PlaceOK, WorldOK
<1>5. PlaceOK'
  BY <1>3, <1>4 DEF TypeOK, PlaceOK, ListSeries, plan
<1> QED
  BY <1>1, <1>2, <1>5 DEF TypeOK

LEMMA JudgeTyped == TypeOK /\ Judge => TypeOK'
<1> SUFFICES ASSUME TypeOK, Judge PROVE TypeOK'
  OBVIOUS
<1>1. SettingsOK' /\ RowsOK' /\ WorldOK'
  BY DEF TypeOK, SettingsOK, RowsOK, WorldOK, Judge, settings, world
<1>2. CASE ForgetRun
  BY <1>1, <1>2, ForgetRunTyped DEF TypeOK
<1>3. CASE ~ForgetRun
  <2>1. /\ pc' = "work" /\ UNCHANGED <<plan, lists, conflicts, disturbed>>
        /\ \E g \in Indexes("google"), c \in Indexes("caldav") :
              work' = UNION {ReconcileTarget(t, IF t = "google" THEN g ELSE c) :
                                t \in UsedTargets}
    BY <1>3 DEF Judge
  <2>2. PICK g \in Indexes("google"), c \in Indexes("caldav") :
           work' = UNION {ReconcileTarget(t, IF t = "google" THEN g ELSE c) :
                             t \in UsedTargets}
    BY <2>1
  <2>3. ASSUME NEW t \in UsedTargets
        PROVE  \A r \in ReconcileTarget(t, IF t = "google" THEN g ELSE c) :
                  r \in Request /\ r.at = t /\ place[t] # Null
    <3>1. t \in Targets /\ place[t] # Null /\ (t # "google" => t = "caldav")
      BY DEF UsedTargets, Targets
    <3>2. (IF t = "google" THEN g ELSE c) \in Indexes(t)
      BY <3>1
    <3> QED
      BY <3>1, <3>2, ReconcileTyped
  <2>4. \A r \in work' : r \in Request /\ place[r.at] # Null
    BY <2>2, <2>3
  <2>5. RunOK' /\ PlaceOK'
    BY <2>1 DEF TypeOK, RunOK, PlaceOK, plan, lists
  <2>6. WorkOK'
    BY <2>1, <2>4 DEF WorkOK, plan
  <2> QED
    BY <1>1, <2>5, <2>6 DEF TypeOK
<1> QED
  BY <1>2, <1>3

\* A step of the reconciler takes one request off the list.
LEMMA OneOff ==
    ASSUME TypeOK, NEW r, Due(r), work' = work \ {r},
           UNCHANGED <<pc, plan, lists, disturbed>>, conflicts' \in BOOLEAN
    PROVE  /\ RunOK' /\ PlaceOK' /\ WorkOK'
           /\ r \in Request /\ r.at \in Targets /\ r.key \in Keys /\ place[r.at] # Null
<1>1. RunOK'
  BY DEF TypeOK, RunOK, plan
<1>2. PlaceOK'
  BY DEF TypeOK, PlaceOK, plan, lists
<1>3. WorkOK'
  BY DEF TypeOK, WorkOK, plan
<1>4. r \in Request /\ place[r.at] # Null
  BY DEF TypeOK, WorkOK, Due
<1> QED
  BY <1>1, <1>2, <1>3, <1>4 DEF Request

LEMMA LocalTyped ==
    ASSUME TypeOK, NEW r \in work, Local(r)
    PROVE  TypeOK'
<1>1. /\ RunOK' /\ PlaceOK' /\ WorkOK'
      /\ r \in Request /\ r.at \in Targets /\ r.key \in Keys /\ place[r.at] # Null
  BY OneOff DEF Local, TypeOK, RunOK
<1>2. SettingsOK'
  BY DEF TypeOK, SettingsOK, Local, settings
<1>3. r.url \in Url /\ r.etag \in Etag
  BY <1>1 DEF Request
<1>4. StoreRow(r, r.url, r.etag) \/ DropRow(r)
  BY DEF Local
<1>5. RowsOK'
  BY <1>1, <1>3, <1>4, StoreRowTyped, DropRowTyped DEF TypeOK
<1>6. WorldOK'
  BY <1>1, LeftBehindTyped DEF TypeOK, WorldOK, Local
<1> QED
  BY <1>1, <1>2, <1>5, <1>6 DEF TypeOK

LEMMA SendRequestTyped ==
    ASSUME TypeOK, NEW r \in work, SendRequest(r)
    PROVE  TypeOK'
<1>1. /\ RunOK' /\ PlaceOK' /\ WorkOK'
      /\ r \in Request /\ r.at \in Targets /\ r.key \in Keys /\ place[r.at] # Null
  BY OneOff DEF SendRequest, TypeOK, RunOK
<1>2. SettingsOK'
  BY DEF TypeOK, SettingsOK, SendRequest, settings
<1>3. PICK u \in Lands(r) :
        /\ store' = Done(r, u) \/ UNCHANGED store
        /\ doubt' = (IF Accepts(r, u) THEN doubt \ {<<place[r.at], u>>} ELSE doubt)
                       \cup LeftBehind(r.at, r.key, place[r.at])
        /\ IF r.op \in Writes THEN StoreRow(r, u, EtagOf(r.at, After(r)))
           ELSE IF r.op = "delete" THEN DropRow(r)
           ELSE UNCHANGED rows
  BY DEF SendRequest
<1>4. u \in Url
  BY <1>1, LandsTyped
<1>5. RowsOK'
  <2>1. CASE r.op \in Writes
    <3>1. EtagOf(r.at, After(r)) \in Etag
      BY <1>1, <2>1, AfterTyped
    <3> QED
      BY <1>1, <1>3, <1>4, <2>1, <3>1, StoreRowTyped
  <2>2. CASE r.op \notin Writes
    BY <1>1, <1>3, <2>2, DropRowTyped DEF TypeOK, RowsOK
  <2> QED
    BY <2>1, <2>2
<1>6. store' \in [Places -> Collection]
  BY <1>1, <1>3, <1>4, DoneTyped DEF TypeOK, WorldOK
<1>7. doubt' \subseteq Places \X Url
  BY <1>1, <1>3, LeftBehindTyped DEF TypeOK, WorldOK
<1>8. WorldOK'
  BY <1>6, <1>7 DEF TypeOK, WorldOK, SendRequest
<1> QED
  BY <1>1, <1>2, <1>5, <1>8 DEF TypeOK

LEMMA ConflictTyped ==
    ASSUME TypeOK, NEW r \in work, Conflict(r)
    PROVE  TypeOK'
<1>1. RunOK' /\ PlaceOK' /\ WorkOK'
  BY OneOff DEF Conflict
<1>2. SettingsOK' /\ RowsOK' /\ WorldOK'
  BY DEF TypeOK, SettingsOK, RowsOK, WorldOK, Conflict, settings, world
<1> QED
  BY <1>1, <1>2 DEF TypeOK

LEMMA RunEndsTyped ==
    ASSUME TypeOK, FinishBirthday \/ RunDies \/ \E r \in work : PatchRefused(r)
    PROVE  TypeOK'
<1>1. CASE FinishBirthday
  <2>1. SettingsOK' /\ RowsOK' /\ WorldOK'
    BY <1>1 DEF TypeOK, SettingsOK, RowsOK, WorldOK, FinishBirthday, settings, world
  <2> QED
    BY <1>1, <2>1, ForgetRunTyped DEF TypeOK, FinishBirthday
<1>2. CASE RunDies
  <2>1. SettingsOK' /\ RowsOK'
    BY <1>2 DEF TypeOK, SettingsOK, RowsOK, RunDies, settings
  <2>2. troubles' \in 0..MaxTroubles /\ edits' \in 0..MaxEdits
    BY <1>2, BirthdayAssumption DEF TypeOK, WorldOK, RunDies, Trouble
  <2>3. LeftOver \subseteq Places \X Url
    BY LeftOverTyped DEF TypeOK
  <2>4. store' \in [Places -> Collection] /\ doubt' \subseteq Places \X Url
    <3>1. CASE UNCHANGED store /\ doubt' = doubt \cup LeftOver
      BY <2>3, <3>1 DEF TypeOK, WorldOK
    <3>2. CASE \E r \in work : \E u \in Lands(r) :
                  /\ store' = Done(r, u)
                  /\ doubt' = doubt \cup {<<place[r.at], u>>} \cup LeftOver
      <4>1. PICK r \in work : \E u \in Lands(r) :
                  /\ store' = Done(r, u)
                  /\ doubt' = doubt \cup {<<place[r.at], u>>} \cup LeftOver
        BY <3>2
      <4>2. PICK u \in Lands(r) :
                  /\ store' = Done(r, u)
                  /\ doubt' = doubt \cup {<<place[r.at], u>>} \cup LeftOver
        BY <4>1
      <4>3. r \in Request /\ place[r.at] # Null
        BY DEF TypeOK, WorkOK
      <4>4. u \in Url /\ place[r.at] \in Places
        BY <4>3, LandsTyped, PlaceTyped DEF TypeOK, Request
      <4>5. store' \in [Places -> Collection]
        BY <4>2, <4>3, <4>4, DoneTyped DEF TypeOK
      <4> QED
        BY <2>3, <4>2, <4>4, <4>5 DEF TypeOK, WorldOK
    <3> QED
      BY <1>2, <3>1, <3>2 DEF RunDies
  <2> QED
    BY <1>2, <2>1, <2>2, <2>4, ForgetRunTyped DEF TypeOK, WorldOK, RunDies
<1>3. CASE \E r \in work : PatchRefused(r)
  <2>1. SettingsOK' /\ RowsOK'
    BY <1>3 DEF TypeOK, SettingsOK, RowsOK, PatchRefused, settings
  <2>2. WorldOK'
    BY <1>3, LeftOverTyped DEF TypeOK, WorldOK, PatchRefused
  <2> QED
    BY <1>3, <2>1, <2>2, ForgetRunTyped DEF TypeOK, PatchRefused
<1> QED
  BY <1>1, <1>2, <1>3

LEMMA RefreshTokenTyped == TypeOK /\ RefreshToken => TypeOK'
<1> SUFFICES ASSUME TypeOK, RefreshToken PROVE TypeOK'
  OBVIOUS
<1>1. SettingsOK'
  BY DEF TypeOK, SettingsOK, PlaceOK, RefreshToken, settings
<1>2. RowsOK' /\ WorldOK' /\ RunOK' /\ PlaceOK' /\ WorkOK'
  BY DEF TypeOK, RowsOK, WorldOK, RunOK, PlaceOK, WorkOK, RefreshToken, world, run,
         plan, lists
<1> QED
  BY <1>1, <1>2 DEF TypeOK

\* Admin and user leave the run's variables alone.
LEMMA RunUntouched ==
    ASSUME TypeOK, UNCHANGED run, Interfere
    PROVE  RunOK' /\ PlaceOK' /\ WorkOK'
BY DEF TypeOK, RunOK, PlaceOK, WorkOK, run, plan, lists, Interfere

\* One more trouble is within the bound.
LEMMA TroubleTyped ==
    ASSUME WorldOK, Trouble
    PROVE  troubles' \in 0..MaxTroubles
BY BirthdayAssumption DEF WorldOK, Trouble

LEMMA AdminTyped == TypeOK /\ AdminStep => TypeOK'
<1> SUFFICES ASSUME TypeOK, AdminStep PROVE TypeOK'
  OBVIOUS
<1> USE DEF AdminTurn
<1>0. "google" \in Targets /\ "caldav" \in Targets
  BY DEF Targets
<1>1. ASSUME NEW on \in BOOLEAN, NEW g \in BOOLEAN, NEW t \in Calendars \cup {Null},
             NEW new \in SUBSET Feeds, UpdateBirthdaySync(on, g, t, new)
      PROVE  TypeOK'
  <2>1. SettingsOK'
    BY <1>1 DEF TypeOK, SettingsOK, UpdateBirthdaySync
  <2>2. RowsOK' /\ doubt' \subseteq Places \X Url
    BY <1>0, <1>1, ClearRowsTyped DEF TypeOK, RowsOK, WorldOK, UpdateBirthdaySync
  <2>3. WorldOK'
    BY <1>1, <2>2, TroubleTyped DEF TypeOK, WorldOK, UpdateBirthdaySync
  <2> QED
    BY <1>1, <2>1, <2>2, <2>3, RunUntouched DEF TypeOK, UpdateBirthdaySync
<1>2. ASSUME NEW s \in Calendars, DeleteCalendar(s)
      PROVE  TypeOK'
  <2>1. SettingsOK'
    BY <1>2 DEF TypeOK, SettingsOK, DeleteCalendar
  <2>2. RowsOK' /\ doubt' \subseteq Places \X Url
    BY <1>0, <1>2, ClearRowsTyped DEF TypeOK, RowsOK, WorldOK, DeleteCalendar
  <2>3. WorldOK'
    BY <1>2, <2>2, TroubleTyped DEF TypeOK, WorldOK, DeleteCalendar
  <2> QED
    BY <1>2, <2>1, <2>2, <2>3, RunUntouched DEF TypeOK, DeleteCalendar
<1>3. ASSUME NEW s \in Calendars, NEW c \in Cols, RepointCalendar(s, c)
      PROVE  TypeOK'
  <2>1. SettingsOK' /\ RowsOK'
    BY <1>3 DEF TypeOK, SettingsOK, RowsOK, RepointCalendar
  <2>2. WorldOK'
    BY <1>3, TroubleTyped DEF TypeOK, WorldOK, RepointCalendar, world
  <2> QED
    BY <1>3, <2>1, <2>2, RunUntouched DEF TypeOK, RepointCalendar
<1>4. ASSUME NEW f \in Feeds, NEW deleted \in BOOLEAN, HideFeed(f, deleted)
      PROVE  TypeOK'
  <2>1. SettingsOK' /\ RowsOK'
    BY <1>4 DEF TypeOK, SettingsOK, RowsOK, HideFeed
  <2>2. WorldOK'
    BY <1>4, TroubleTyped DEF TypeOK, WorldOK, HideFeed, world
  <2> QED
    BY <1>4, <2>1, <2>2, RunUntouched DEF TypeOK, HideFeed
<1>5. ASSUME NEW a \in Accounts, ConnectAccount(a)
      PROVE  TypeOK'
  <2>1. SettingsOK' /\ RowsOK'
    BY <1>5 DEF TypeOK, SettingsOK, RowsOK, ConnectAccount, settings
  <2>2. WorldOK'
    BY <1>5, TroubleTyped DEF TypeOK, WorldOK, ConnectAccount, world
  <2> QED
    BY <1>5, <2>1, <2>2, RunUntouched DEF TypeOK, ConnectAccount
<1>6. CASE Disconnect
  <2>1. SettingsOK'
    BY <1>6 DEF TypeOK, SettingsOK, Disconnect, settings
  <2>2. RowsOK' /\ doubt' \subseteq Places \X Url
    BY <1>0, <1>6, ClearRowsTyped DEF Disconnect
  <2>3. WorldOK'
    BY <1>6, <2>2, TroubleTyped DEF TypeOK, WorldOK, Disconnect
  <2> QED
    BY <1>6, <2>1, <2>2, <2>3, RunUntouched DEF TypeOK, Disconnect
<1> QED
  BY <1>1, <1>2, <1>3, <1>4, <1>5, <1>6 DEF AdminStep

LEMMA TouchTyped ==
    ASSUME TypeOK, NEW p \in Places, NEW u \in Url, NEW copy \in Copy \cup {NoCopy},
           Touch(p, u, copy)
    PROVE  TypeOK'
<1>1. SettingsOK' /\ RowsOK'
  BY DEF TypeOK, SettingsOK, RowsOK, Touch, settings
<1>2. store' \in [Places -> Collection]
  BY DEF TypeOK, WorldOK, Touch, Collection
<1>3. edits' \in 0..MaxEdits
  BY CalDavAssumption DEF TypeOK, WorldOK, Touch
<1>4. WorldOK'
  BY <1>2, <1>3, TroubleTyped DEF TypeOK, WorldOK, Touch
<1> QED
  BY <1>1, <1>4, RunUntouched DEF TypeOK, Touch

\* What the user makes of a series is a copy.
LEMMA EditedIsCopy ==
    ASSUME WorldOK, NEW p \in Places, NEW u \in Url, store[p][u] # NoCopy,
           edits < MaxEdits
    PROVE  [store[p][u] EXCEPT !.by = edits + 1] \in Copy
<1>1. store[p][u] \in Copy
  BY DEF WorldOK, Collection
<1>2. edits + 1 \in 0..MaxEdits
  BY CalDavAssumption DEF WorldOK
<1> QED
  BY <1>1, <1>2 DEF Copy

LEMMA UserTyped == TypeOK /\ UserStep => TypeOK'
<1> SUFFICES ASSUME TypeOK, UserStep PROVE TypeOK'
  OBVIOUS
<1>1. PICK p \in Places, u \in Url :
         EditSeries(p, u) \/ RemoveSeries(p, u) \/ \E v \in Url : ImportSeries(p, u, v)
  BY DEF UserStep
<1>2. CASE EditSeries(p, u)
  BY <1>2, EditedIsCopy, TouchTyped DEF TypeOK, EditSeries, Touch
<1>3. CASE RemoveSeries(p, u)
  BY <1>3, TouchTyped DEF RemoveSeries
<1>4. ASSUME NEW v \in Url, ImportSeries(p, u, v)
      PROVE  TypeOK'
  BY <1>4, EditedIsCopy, TouchTyped DEF TypeOK, ImportSeries, Touch
<1> QED
  BY <1>1, <1>2, <1>3, <1>4

\* Every reachable state is type correct; the rows of each target name places of
\* the target's kind, and a run has work only for targets in use.
THEOREM TypeCorrect == Spec => []TypeOK
<1>1. Init => TypeOK
  BY InitTyped
<1>2. TypeOK /\ [Next]_vars => TypeOK'
  <2> SUFFICES ASSUME TypeOK, [Next]_vars PROVE TypeOK'
    OBVIOUS
  <2>1. CASE RunStep
    BY <2>1, FetchSourcesTyped, StartBirthdayTyped, ListSeriesTyped, JudgeTyped,
       LocalTyped, SendRequestTyped, ConflictTyped, RunEndsTyped DEF RunStep
  <2>2. CASE RunDies
    BY <2>2, RunEndsTyped
  <2>3. CASE RefreshToken \/ AdminStep \/ UserStep
    BY <2>3, RefreshTokenTyped, AdminTyped, UserTyped
  <2>4. CASE UNCHANGED vars
    BY <2>4 DEF TypeOK, SettingsOK, RowsOK, WorldOK, RunOK, PlaceOK, WorkOK, vars,
                settings, world, run, plan, lists
  <2> QED
    BY <2>1, <2>2, <2>3, <2>4 DEF Next
<1> QED
  BY <1>1, <1>2, PTL DEF Spec

-----------------------------------------------------------------------------
(* What a run sets out to do. *)

\* Rows and requests of a person name series of that person.
Named ==
    /\ \A t \in Targets, k \in Keys :
          /\ rows[t][k] # Null => rows[t][k].url.key = k
          /\ old[t][k] # Null => old[t][k].url.key = k
    /\ \A r \in work : r.url.key = r.key

\* Of two requests for one person at one target, one takes an extra series away;
\* the other leaves that one alone, and creates none.
OneMain ==
    \A q, r \in work :
       q.at = r.at /\ q.key = r.key /\ q # r
          => "extra" \in {q.op, r.op} /\ "create" \notin {q.op, r.op} /\ q.url # r.url

Orderly == Named /\ OneMain

\* The request that makes k's series u as wanted, and the one for an extra series.
Main(t, k, u) == IF wanted[k] # Null THEN SyncOne(t, k, u) ELSE RemoveOne(t, k, u)
Extra(t, u) == Req("extra", t, u.key, u, EtagOf(t, listing[t][u]), listing[t][u].val)

Planned(t, own) ==
    (UNION {Main(t, k, own[k]) : k \in Keys})
    \cup {Extra(t, u) : u \in {x \in Held(listing[t]) : x # own[x.key]}}

LEMMA ReconcilePlanned ==
    ASSUME NEW t \in Targets, NEW own
    PROVE  ReconcileTarget(t, own) = Planned(t, own)
BY DEF ReconcileTarget, Planned, Main, Extra

\* The series that counts for a person is listed and the person's.
LEMMA IndexedIsOwn ==
    ASSUME NEW t \in Targets, NEW own \in Indexes(t), NEW k \in Keys
    PROVE  /\ own[k] \in Held(listing[t]) \cup {Null}
           /\ own[k] # Null => own[k].key = k
           /\ own[k] = Null => \A u \in Held(listing[t]) : u.key # k
BY DEF Indexes

\* The request for a person, at most one: what it does and when there is none.
LEMMA MainIsOne ==
    ASSUME NEW t \in Targets, NEW k \in Keys, NEW u, NEW q \in Main(t, k, u),
           NEW r \in Main(t, k, u)
    PROVE  q = r
BY DEF Main, SyncOne, RemoveOne

LEMMA MainWanted ==
    ASSUME NEW t \in Targets, NEW k \in Keys, NEW u, wanted[k] # Null
    PROVE  /\ \A r \in Main(t, k, u) :
                 /\ r.at = t /\ r.key = k /\ r.val = wanted[k]
                 /\ r.op \in {"create", "update", "refresh"}
                 /\ r.op = "create" <=> u = Null
                 /\ r.url = IF u = Null THEN ResourceUrl(k) ELSE u
                 /\ r.op = "refresh" => old[t][k] # Null /\ old[t][k].val = wanted[k]
           /\ Main(t, k, u) = {} =>
                 /\ u # Null /\ old[t][k] # Null /\ old[t][k].val = wanted[k]
                 /\ old[t][k].url = u /\ old[t][k].place = place[t]
<1> DEFINE e == EtagOf(t, listing[t][u])
           row == old[t][k]
           val == wanted[k]
<1>1. /\ u = Null => Main(t, k, u) = {Req("create", t, k, ResourceUrl(k), NoEtag, val)}
      /\ u # Null /\ (row = Null \/ row.val # val)
            => Main(t, k, u) = {Req("update", t, k, u, e, val)}
      /\ u # Null /\ row # Null /\ row.val = val
            => \/ Main(t, k, u) = {Req("refresh", t, k, u, e, val)}
               \/ Main(t, k, u) = {} /\ row.url = u /\ row.place = place[t]
  BY DEF Main, SyncOne, Differs
<1> HIDE DEF e, row, val
<1>2. \A r \in Main(t, k, u) :
         /\ r.at = t /\ r.key = k /\ r.val = val
         /\ r.op \in {"create", "update", "refresh"}
         /\ r.op = "create" <=> u = Null
         /\ r.url = IF u = Null THEN ResourceUrl(k) ELSE u
         /\ r.op = "refresh" => row # Null /\ row.val = val
  BY <1>1 DEF Req
<1>3. Main(t, k, u) = {} =>
         u # Null /\ row # Null /\ row.val = val /\ row.url = u /\ row.place = place[t]
  BY <1>1
<1> QED
  BY <1>2, <1>3 DEF row, val

LEMMA MainUnwanted ==
    ASSUME NEW t \in Targets, NEW k \in Keys, NEW u, wanted[k] = Null
    PROVE  /\ \A r \in Main(t, k, u) :
                 /\ r.at = t /\ r.key = k /\ r.op \in {"delete", "discard", "orphan"}
                 /\ r.url = IF u = Null THEN old[t][k].url ELSE u
                 /\ u = Null => old[t][k] # Null /\ r.op # "orphan"
                 /\ r.op = "orphan" => old[t][k] = Null
                 /\ r.op = "discard" =>
                       u = Null /\ old[t][k] # Null /\ old[t][k].place # place[t]
           /\ Main(t, k, u) = {} => u = Null /\ old[t][k] = Null
<1> DEFINE e == EtagOf(t, listing[t][u])
           row == old[t][k]
<1>1. /\ row # Null /\ u # Null => Main(t, k, u) = {Req("delete", t, k, u, e, row.val)}
      /\ row # Null /\ u = Null
            => \/ Main(t, k, u) = {Req("delete", t, k, row.url, row.etag, row.val)}
               \/ /\ Main(t, k, u) = {Req("discard", t, k, row.url, row.etag, row.val)}
                  /\ row.place # place[t]
      /\ row = Null /\ u # Null
            => Main(t, k, u) = {Req("orphan", t, k, u, e, listing[t][u].val)}
      /\ row = Null /\ u = Null => Main(t, k, u) = {}
  BY DEF Main, RemoveOne, Owns
<1> HIDE DEF e, row
<1>2. \A r \in Main(t, k, u) :
         /\ r.at = t /\ r.key = k /\ r.op \in {"delete", "discard", "orphan"}
         /\ r.url = IF u = Null THEN row.url ELSE u
         /\ u = Null => row # Null /\ r.op # "orphan"
         /\ r.op = "orphan" => row = Null
         /\ r.op = "discard" => u = Null /\ row # Null /\ row.place # place[t]
  BY <1>1 DEF Req
<1>3. Main(t, k, u) = {} => u = Null /\ row = Null
  BY <1>1
<1> QED
  BY <1>2, <1>3 DEF row

\* Whoever a request is for, it is for one person at one target.
LEMMA MainFor ==
    ASSUME NEW t \in Targets, NEW k \in Keys, NEW u, NEW r \in Main(t, k, u)
    PROVE  r.at = t /\ r.key = k /\ r.op # "extra" /\ (u # Null => r.url = u)
           /\ (r.op = "create" => u = Null)
BY MainWanted, MainUnwanted

LEMMA ExtraFor ==
    ASSUME NEW t \in Targets, NEW u \in Held(listing[t])
    PROVE  /\ Extra(t, u).at = t /\ Extra(t, u).key = u.key /\ Extra(t, u).url = u
           /\ Extra(t, u).op = "extra" /\ u \in Url /\ u.key \in Keys
           /\ Extra(t, u).etag = EtagOf(t, listing[t][u])
BY DEF Extra, Req, Held, Url

\* The run's variables after the second verdict.
LEMMA JudgePlans ==
    ASSUME TypeOK, Judge, ~ForgetRun
    PROVE  /\ pc = "list" /\ toList = {} /\ pc' = "work"
           /\ UNCHANGED <<plan, lists, conflicts, disturbed, rows, world>>
           /\ \E own : /\ \A t \in UsedTargets : own[t] \in Indexes(t)
                       /\ work' = UNION {Planned(t, own[t]) : t \in UsedTargets}
<1>1. PICK g \in Indexes("google"), c \in Indexes("caldav") :
         work' = UNION {ReconcileTarget(t, IF t = "google" THEN g ELSE c) :
                           t \in UsedTargets}
  BY DEF Judge
<1> DEFINE own == [t \in Targets |-> IF t = "google" THEN g ELSE c]
<1>2. \A t \in UsedTargets : /\ t \in Targets /\ own[t] \in Indexes(t)
                             /\ own[t] = IF t = "google" THEN g ELSE c
  BY DEF UsedTargets, Targets
<1> HIDE DEF own
<1>3. work' = UNION {Planned(t, own[t]) : t \in UsedTargets}
  BY <1>1, <1>2, ReconcilePlanned
<1> QED
  BY <1>2, <1>3 DEF Judge

\* A planned request is the main one of its person or takes an extra away.
LEMMA PlannedOne ==
    ASSUME NEW own, \A t \in UsedTargets : own[t] \in Indexes(t),
           NEW r \in UNION {Planned(t, own[t]) : t \in UsedTargets}
    PROVE  /\ r.at \in UsedTargets /\ r.at \in Targets /\ r.key \in Keys
           /\ own[r.at] \in Indexes(r.at)
           /\ IF r.op # "extra" THEN r \in Main(r.at, r.key, own[r.at][r.key])
              ELSE /\ r.url \in Held(listing[r.at]) /\ r.url.key = r.key
                   /\ r.url # own[r.at][r.key] /\ r = Extra(r.at, r.url)
<1>1. PICK t \in UsedTargets : r \in Planned(t, own[t])
  OBVIOUS
<1>2. t \in Targets /\ own[t] \in Indexes(t)
  BY DEF UsedTargets
<1>3. CASE \E k \in Keys : r \in Main(t, k, own[t][k])
  BY <1>1, <1>2, <1>3, MainFor
<1>4. CASE \E u \in Held(listing[t]) : u # own[t][u.key] /\ r = Extra(t, u)
  BY <1>1, <1>2, <1>4, ExtraFor
<1> QED
  BY <1>1, <1>3, <1>4 DEF Planned

\* Where a request lands it is its person's series.
LEMMA RequestLands ==
    ASSUME TypeOK, Orderly, NEW r \in work, NEW u \in Lands(r)
    PROVE  /\ r \in Request /\ r.at \in Targets /\ r.key \in Keys
           /\ place[r.at] # Null /\ place[r.at] \in Places /\ u \in Url
           /\ u.key = r.key /\ (r.op # "create" => u = r.url)
<1>1. r \in Request /\ place[r.at] # Null
  BY DEF TypeOK, WorkOK
<1>2. r.at \in Targets /\ r.key \in Keys
  BY <1>1 DEF Request
<1>3. u.key = r.key /\ (r.op # "create" => u = r.url)
  BY DEF Lands, Orderly, Named
<1> QED
  BY <1>1, <1>2, <1>3, LandsTyped, PlaceTyped DEF TypeOK

LEMMA OrderlyInit == Init => Orderly
BY DEF Init, Orderly, Named, OneMain, NoRows

LEMMA OrderlyJudge == TypeOK /\ Orderly /\ Judge => Orderly'
<1> SUFFICES ASSUME TypeOK, Orderly, Judge PROVE Orderly'
  OBVIOUS
<1>1. CASE ForgetRun
  BY <1>1 DEF ForgetRun, Judge, Orderly, Named, OneMain, NoRows
<1>2. CASE ~ForgetRun
  <2>1. UNCHANGED <<rows, old>>
    BY <1>2, JudgePlans DEF plan
  <2>2. PICK own : /\ \A t \in UsedTargets : own[t] \in Indexes(t)
                   /\ work' = UNION {Planned(t, own[t]) : t \in UsedTargets}
    BY <1>2, JudgePlans
  <2>3. ASSUME NEW r \in work'
        PROVE  /\ r.at \in Targets /\ r.key \in Keys /\ own[r.at] \in Indexes(r.at)
               /\ IF r.op # "extra" THEN r \in Main(r.at, r.key, own[r.at][r.key])
                  ELSE /\ r.url \in Held(listing[r.at]) /\ r.url.key = r.key
                       /\ r.url # own[r.at][r.key] /\ r = Extra(r.at, r.url)
    BY <2>2, PlannedOne
  <2>4. ASSUME NEW r \in work'
        PROVE  r.url.key = r.key
    <3> DEFINE u == own[r.at][r.key]
    <3>1. /\ r.at \in Targets /\ r.key \in Keys
          /\ r.op # "extra" => r \in Main(r.at, r.key, u)
          /\ u # Null => u.key = r.key
      BY <2>3, IndexedIsOwn
    <3> HIDE DEF u
    <3>2. CASE r.op # "extra" /\ wanted[r.key] # Null
      <4>1. r.url = IF u = Null THEN ResourceUrl(r.key) ELSE u
        BY <3>1, <3>2, MainWanted
      <4> QED
        BY <3>1, <4>1 DEF ResourceUrl
    <3>3. CASE r.op # "extra" /\ wanted[r.key] = Null
      BY <3>1, <3>3, MainUnwanted DEF Orderly, Named
    <3> QED
      BY <2>3, <3>2, <3>3
  <2>5. ASSUME NEW q \in work', NEW r \in work', q.at = r.at, q.key = r.key, q # r
        PROVE  "extra" \in {q.op, r.op} /\ "create" \notin {q.op, r.op} /\ q.url # r.url
    <3> DEFINE u == own[r.at][r.key]
    <3>1. /\ r.at \in Targets /\ r.key \in Keys
          /\ u = Null => \A x \in Held(listing[r.at]) : x.key # r.key
      BY <2>3, IndexedIsOwn
    <3>2. /\ q.op # "extra" => q \in Main(r.at, r.key, u)
          /\ r.op # "extra" => r \in Main(r.at, r.key, u)
          /\ q.op = "extra" => /\ q.url \in Held(listing[r.at]) /\ q.url.key = r.key
                               /\ q.url # u /\ q = Extra(r.at, q.url)
          /\ r.op = "extra" => /\ r.url \in Held(listing[r.at]) /\ r.url.key = r.key
                               /\ r.url # u /\ r = Extra(r.at, r.url)
      BY <2>3, <2>5
    <3> HIDE DEF u
    <3>3. CASE q.op # "extra" /\ r.op # "extra"
      BY <2>5, <3>1, <3>2, <3>3, MainIsOne
    <3>4. CASE q.op = "extra" /\ r.op = "extra"
      BY <2>5, <3>2, <3>4
    <3>5. CASE q.op = "extra" /\ r.op # "extra"
      BY <3>1, <3>2, <3>5, MainFor
    <3>6. CASE q.op # "extra" /\ r.op = "extra"
      BY <3>1, <3>2, <3>6, MainFor
    <3> QED
      BY <3>3, <3>4, <3>5, <3>6
  <2> QED
    BY <2>1, <2>4, <2>5 DEF Orderly, Named, OneMain
<1> QED
  BY <1>1, <1>2

LEMMA OrderlySend ==
    ASSUME TypeOK, Orderly, NEW r \in work, Local(r) \/ SendRequest(r)
    PROVE  Orderly'
<1>1. work' = work \ {r} /\ UNCHANGED old
  BY DEF Local, SendRequest, plan
<1>2. /\ r.at \in Targets /\ r.key \in Keys /\ r.url.key = r.key
  BY DEF TypeOK, WorkOK, Request, Orderly, Named
<1>3. \/ UNCHANGED rows \/ DropRow(r)
      \/ \E u, e : u.key = r.key /\ StoreRow(r, u, e)
  BY <1>2, RequestLands DEF Local, SendRequest
<1>4. ASSUME NEW t \in Targets, NEW k \in Keys, rows'[t][k] # Null
      PROVE  rows'[t][k].url.key = k
  <2>1. CASE UNCHANGED rows
    BY <1>4, <2>1 DEF Orderly, Named
  <2>2. CASE DropRow(r)
    BY <1>2, <1>4, <2>2 DEF Orderly, Named, DropRow, TypeOK, RowsOK
  <2>3. ASSUME NEW u, NEW e, u.key = r.key, StoreRow(r, u, e)
        PROVE  rows'[t][k].url.key = k
    BY <1>2, <1>4, <2>3 DEF Orderly, Named, StoreRow, TypeOK, RowsOK
  <2> QED
    BY <1>3, <2>1, <2>2, <2>3
<1> QED
  BY <1>1, <1>4 DEF Orderly, Named, OneMain

\* The admin only clears rows.
LEMMA RowsCleared ==
    ASSUME TypeOK, AdminStep \/ UserStep \/ RefreshToken
    PROVE  /\ UNCHANGED run
           /\ \A t \in Targets, k \in Keys : rows'[t][k] \in {rows[t][k], Null}
<1>1. UNCHANGED run
  BY DEF RefreshToken, AdminStep, UserStep, UpdateBirthdaySync, DeleteCalendar,
         RepointCalendar, HideFeed, ConnectAccount, Disconnect, EditSeries,
         RemoveSeries, ImportSeries, Touch
<1>2. UNCHANGED rows \/ \E t \in Targets : ClearRows(t)
  BY DEF RefreshToken, AdminStep, UserStep, UpdateBirthdaySync, DeleteCalendar,
         RepointCalendar, HideFeed, ConnectAccount, Disconnect, EditSeries,
         RemoveSeries, ImportSeries, Touch, Targets
<1>3. ASSUME NEW s \in Targets, ClearRows(s), NEW t \in Targets, NEW k \in Keys
      PROVE  rows'[t][k] \in {rows[t][k], Null}
  BY <1>3 DEF TypeOK, RowsOK, ClearRows, NoRows
<1> QED
  BY <1>1, <1>2, <1>3

LEMMA OrderlyStays == TypeOK /\ Orderly /\ [Next]_vars => Orderly'
<1> SUFFICES ASSUME TypeOK, Orderly, [Next]_vars PROVE Orderly'
  OBVIOUS
<1>1. ASSUME UNCHANGED old, work' \subseteq work,
             \A t \in Targets, k \in Keys : rows'[t][k] \in {rows[t][k], Null}
      PROVE  Orderly'
  BY <1>1 DEF Orderly, Named, OneMain
<1>2. ASSUME ForgetRun, UNCHANGED rows
      PROVE  Orderly'
  BY <1>2 DEF Orderly, Named, OneMain, ForgetRun, NoRows
<1>3. CASE StartBirthday
  <2>1. CASE ForgetRun
    BY <1>2, <1>3, <2>1 DEF StartBirthday
  <2>2. CASE ~ForgetRun
    BY <1>3, <2>2 DEF StartBirthday, Orderly, Named, OneMain
  <2> QED
    BY <2>1, <2>2
<1>4. CASE FetchSources \/ ListSeries
  BY <1>1, <1>4 DEF FetchSources, ListSeries, plan
<1>5. CASE Judge
  BY <1>5, OrderlyJudge
<1>6. CASE FinishBirthday \/ RunDies \/ \E r \in work : PatchRefused(r)
  BY <1>2, <1>6 DEF FinishBirthday, RunDies, PatchRefused
<1>7. ASSUME NEW r \in work, Local(r) \/ SendRequest(r) \/ Conflict(r)
      PROVE  Orderly'
  BY <1>1, <1>7, OrderlySend DEF Conflict, plan
<1>8. CASE RefreshToken \/ AdminStep \/ UserStep
  BY <1>1, <1>8, RowsCleared DEF run, plan
<1>9. CASE UNCHANGED vars
  BY <1>1, <1>9 DEF vars, run, plan
<1> QED
  BY <1>3, <1>4, <1>5, <1>6, <1>7, <1>8, <1>9 DEF Next, RunStep

LEMMA StaysOrderly == Spec => [](TypeOK /\ Orderly)
BY OrderlyInit, OrderlyStays, TypeCorrect, PTL DEF Spec

\* What the add-on changes at a place it changes by a request of its run.
LEMMA WrittenByRequest ==
    ASSUME TypeOK, Orderly, Next, NEW p \in Places, NEW u \in Url, AddOnWrites(p, u)
    PROVE  \E r \in work : /\ r.op \in Writes \cup Deletes /\ p = place[r.at]
                           /\ u \in Lands(r) /\ Accepts(r, u)
                           /\ store'[p][u] = After(r)
<1>1. store' # store
  BY DEF AddOnWrites
<1>2. ~UserStep
  <2>1. edits + 1 # edits
    BY CalDavAssumption DEF TypeOK, WorldOK
  <2> QED
    BY <2>1 DEF AddOnWrites, UserStep, EditSeries, RemoveSeries, ImportSeries, Touch
<1>3. \E r \in work : /\ r.op \in Writes \cup Deletes
                      /\ \E v \in Lands(r) : Accepts(r, v) /\ store' = Done(r, v)
  BY <1>1, <1>2
     DEF Next, RunStep, AdminStep, RunDies, RefreshToken, FetchSources, StartBirthday,
         ListSeries, Judge, FinishBirthday, Local, SendRequest, Conflict, PatchRefused,
         UpdateBirthdaySync, DeleteCalendar, RepointCalendar, HideFeed, ConnectAccount,
         Disconnect, world
<1>4. PICK r \in work : /\ r.op \in Writes \cup Deletes
                        /\ \E v \in Lands(r) : Accepts(r, v) /\ store' = Done(r, v)
  BY <1>3
<1>5. PICK v \in Lands(r) : Accepts(r, v) /\ store' = Done(r, v)
  BY <1>4
<1>6. place[r.at] \in Places /\ v \in Url
  BY RequestLands
<1>7. p = place[r.at] /\ u = v /\ store'[p][u] = After(r)
  BY <1>5, <1>6 DEF AddOnWrites, Done, TypeOK, WorldOK, Collection
<1> QED
  BY <1>4, <1>5, <1>7

-----------------------------------------------------------------------------
(* Deletions. *)

\* The grounds on which a run may delete.
Grounds ==
    /\ ~SourceFailed(ids, results)
    /\ Mapped(wanted) # {} \/ SourcesVerifiedFresh(ids, results)

\* A row drives a deletion at CalDAV only where its series is.
Addressed(r) ==
    r.op = "delete" /\ r.at = "caldav"
        => \/ r.url \in Held(listing["caldav"])
           \/ old["caldav"][r.key].place = place["caldav"]

\* Whatever is still to be deleted has its grounds and its address.
WorkJustified ==
    \A r \in work : (r.op \in Deletes => Grounds) /\ Addressed(r)

\* What a reconciler deletes was mapped or listed, and is addressed.
LEMMA ReconcileJustified ==
    ASSUME TypeOK, NEW t \in Targets, NEW own \in Indexes(t),
           NEW r \in ReconcileTarget(t, own)
    PROVE  /\ r.op \in Deletes => AllMapped(old) # {} \/ Held(listing[t]) # {}
           /\ Addressed(r)
<1>1. ASSUME NEW k \in Keys
      PROVE  own[k] \in Held(listing[t]) \cup {Null}
  BY DEF Indexes
<1>2. ASSUME NEW k \in Keys, r \in SyncOne(t, k, own[k])
      PROVE  r.op \notin Deletes
  BY <1>2 DEF SyncOne, Req, Deletes
<1>3. ASSUME NEW k \in Keys, r \in RemoveOne(t, k, own[k])
      PROVE  /\ r.op \in Deletes => AllMapped(old) # {} \/ Held(listing[t]) # {}
             /\ Addressed(r)
  <2>1. old[t][k] # Null => AllMapped(old) # {}
    <3>1. <<t, k>> \in Targets \X Keys /\ <<t, k>>[1] = t /\ <<t, k>>[2] = k
      OBVIOUS
    <3> QED
      BY <3>1 DEF AllMapped
  <2>2. own[k] # Null => own[k] \in Held(listing[t])
    BY <1>1
  <2>3. CASE old[t][k] # Null /\ own[k] # Null
    BY <1>3, <2>1, <2>2, <2>3 DEF RemoveOne, Req, Addressed
  <2>4. CASE old[t][k] # Null /\ own[k] = Null
    BY <1>3, <2>1, <2>4 DEF RemoveOne, Req, Addressed, Owns, Deletes
  <2>5. CASE old[t][k] = Null
    BY <1>3, <2>2, <2>5 DEF RemoveOne, Req, Addressed
  <2> QED
    BY <2>3, <2>4, <2>5
<1>4. ASSUME NEW u \in Held(listing[t]),
             r = Req("extra", t, u.key, u, EtagOf(t, listing[t][u]), listing[t][u].val)
      PROVE  Held(listing[t]) # {} /\ Addressed(r)
  BY <1>4 DEF Req, Addressed
<1>5. \/ \E k \in Keys : r \in SyncOne(t, k, own[k]) \/ r \in RemoveOne(t, k, own[k])
      \/ \E u \in Held(listing[t]) :
            r = Req("extra", t, u.key, u, EtagOf(t, listing[t][u]), listing[t][u].val)
  BY DEF ReconcileTarget
<1> QED
  BY <1>2, <1>3, <1>4, <1>5 DEF Addressed, Deletes

\* What is listed at a target in use counts as remote.
LEMMA ListedIsRemote ==
    ASSUME NEW t \in Targets, Held(listing[t]) # {}
    PROVE  {p \in Targets \X Url : listing[p[1]][p[2]] # NoCopy} # {}
<1>1. PICK u \in Url : listing[t][u] # NoCopy
  BY DEF Held
<1>2. <<t, u>> \in Targets \X Url /\ <<t, u>>[1] = t /\ <<t, u>>[2] = u
  OBVIOUS
<1> QED
  BY <1>1, <1>2

\* The second verdict of the guard covers everything the run will do.
LEMMA JudgeJustified == TypeOK /\ Judge => WorkJustified'
<1> SUFFICES ASSUME TypeOK, Judge PROVE WorkJustified'
  OBVIOUS
<1>1. CASE ForgetRun
  BY <1>1 DEF ForgetRun, WorkJustified
<1>2. CASE ~ForgetRun
  <2> DEFINE remote == {p \in Targets \X Url : listing[p[1]][p[2]] # NoCopy}
  <2>1. /\ UNCHANGED <<plan, lists>>
        /\ SkipReason(ids, results, Mapped(wanted), AllMapped(old), remote) = "run"
        /\ \E g \in Indexes("google"), c \in Indexes("caldav") :
              work' = UNION {ReconcileTarget(t, IF t = "google" THEN g ELSE c) :
                                t \in UsedTargets}
    BY <1>2 DEF Judge
  <2>2. /\ ~SourceFailed(ids, results)
        /\ \/ Mapped(wanted) # {}
           \/ SourcesVerifiedFresh(ids, results)
           \/ AllMapped(old) = {} /\ remote = {}
    BY <2>1 DEF SkipReason
  <2>3. PICK g \in Indexes("google"), c \in Indexes("caldav") :
           work' = UNION {ReconcileTarget(t, IF t = "google" THEN g ELSE c) :
                             t \in UsedTargets}
    BY <2>1
  <2>4. ASSUME NEW t \in UsedTargets,
               NEW r \in ReconcileTarget(t, IF t = "google" THEN g ELSE c)
        PROVE  (r.op \in Deletes => Grounds) /\ Addressed(r)
    <3>1. t \in Targets /\ (t # "google" => t = "caldav")
      BY DEF UsedTargets, Targets
    <3>2. (IF t = "google" THEN g ELSE c) \in Indexes(t)
      BY <3>1
    <3>3. /\ r.op \in Deletes => AllMapped(old) # {} \/ Held(listing[t]) # {}
          /\ Addressed(r)
      BY <3>1, <3>2, ReconcileJustified
    <3>4. Held(listing[t]) # {} => remote # {}
      BY <3>1, ListedIsRemote
    <3> QED
      BY <2>2, <3>3, <3>4 DEF Grounds
  <2>5. \A r \in work' : (r.op \in Deletes => Grounds) /\ Addressed(r)
    BY <2>3, <2>4
  <2> QED
    BY <2>1, <2>5 DEF WorkJustified, Grounds, Addressed, plan, lists, Mapped,
                      SourceFailed, SourcesVerifiedFresh
<1> QED
  BY <1>1, <1>2

LEMMA WorkStaysJustified == TypeOK /\ WorkJustified /\ [Next]_vars => WorkJustified'
<1> SUFFICES ASSUME TypeOK, WorkJustified, [Next]_vars PROVE WorkJustified'
  OBVIOUS
<1>1. ASSUME work' = {} PROVE WorkJustified'
  BY <1>1 DEF WorkJustified
<1>2. ASSUME UNCHANGED <<plan, listing>>, work' \subseteq work PROVE WorkJustified'
  BY <1>2 DEF WorkJustified, Grounds, Addressed, plan, Mapped, SourceFailed,
              SourcesVerifiedFresh
<1>3. CASE FetchSources \/ StartBirthday \/ ListSeries
  <2>1. work = {}
    BY <1>3 DEF TypeOK, WorkOK, FetchSources, StartBirthday, ListSeries
  <2> QED
    BY <1>1, <1>3, <2>1 DEF FetchSources, StartBirthday, ListSeries, ForgetRun
<1>4. CASE Judge
  BY <1>4, JudgeJustified
<1>5. CASE FinishBirthday \/ RunDies \/ \E r \in work : PatchRefused(r)
  BY <1>1, <1>5 DEF FinishBirthday, RunDies, PatchRefused, ForgetRun
<1>6. CASE \E r \in work : Local(r) \/ SendRequest(r) \/ Conflict(r)
  <2>1. UNCHANGED <<plan, listing>> /\ work' \subseteq work
    BY <1>6 DEF Local, SendRequest, Conflict, plan, lists
  <2> QED
    BY <1>2, <2>1
<1>7. CASE RefreshToken \/ AdminStep \/ UserStep \/ UNCHANGED vars
  <2>1. UNCHANGED run
    BY <1>7 DEF RefreshToken, AdminStep, UserStep, UpdateBirthdaySync, DeleteCalendar,
                RepointCalendar, HideFeed, ConnectAccount, Disconnect, EditSeries,
                RemoveSeries, ImportSeries, Touch, vars
  <2> QED
    BY <1>2, <2>1 DEF run, lists
<1> QED
  BY <1>3, <1>4, <1>5, <1>6, <1>7 DEF Next, RunStep

LEMMA Justified == Spec => [](TypeOK /\ WorkJustified)
<1>1. Init => WorkJustified
  BY DEF Init, WorkJustified
<1> QED
  BY <1>1, WorkStaysJustified, TypeCorrect, PTL DEF Spec

\* The add-on takes a series away only by a request to delete it.
LEMMA RemovedByRequest ==
    ASSUME TypeOK, Orderly, Next, NEW p \in Places, NEW u \in Url, AddOnWrites(p, u),
           store'[p][u] = NoCopy
    PROVE  \E r \in work : r.op \in Deletes
<1>1. PICK r \in work : r.op \in Writes \cup Deletes /\ After(r) = NoCopy
  BY WrittenByRequest
<1>2. r \in Request
  BY DEF TypeOK, WorkOK
<1> QED
  BY <1>1, <1>2, AfterTyped

\* Series are deleted only in a run in which no selected source failed, and
\* without anything wanted only when every selected source was read without
\* error in that run.
THEOREM DeletesAreGuarded == Spec => BirthdaysGuarded
<1>1. TypeOK /\ Orderly /\ WorkJustified /\ [Next]_vars =>
        [\A p \in Places, u \in Url :
            AddOnWrites(p, u) /\ store'[p][u] = NoCopy
               => /\ \A s \in ids : results[s] # "error"
                  /\ \/ Mapped(wanted) # {}
                     \/ ids # {} /\ \A s \in ids : results[s] = "ok"]_vars
  BY RemovedByRequest
     DEF WorkJustified, Grounds, SourceFailed, SourcesVerifiedFresh
<1> QED
  BY <1>1, Justified, StaysOrderly, PTL DEF Spec, BirthdaysGuarded

\* What is deleted at CalDAV was listed there, or its row is of there, whatever
\* became of the source's URL and of the mapping.
THEOREM DeletesAreAddressed == Spec => DeletesAddressOwn
<1>1. TypeOK /\ WorkJustified /\ [Next]_vars =>
        [\A r \in work :
            SendRequest(r) /\ r.op = "delete" /\ r.at = "caldav"
               => \/ r.url \in Held(listing["caldav"])
                  \/ old["caldav"][r.key].place = place["caldav"]]_vars
  BY DEF WorkJustified, Addressed
<1> QED
  BY <1>1, Justified, PTL DEF Spec, DeletesAddressOwn

-----------------------------------------------------------------------------
(* No second series. *)

\* Every series of k at p was put there by the user since the run began.
EditedSince(p, k) ==
    \A v \in Url : v.key = k /\ store[p][v] # NoCopy => store[p][v].by > seenEdits

\* What a target holds beyond its list came from the user since.
Seen ==
    pc = "list" =>
       \A t \in Targets \ toList : place[t] # Null =>
          \A v \in Url : store[place[t]][v] # NoCopy
                            => v \in Held(listing[t]) \/ store[place[t]][v].by > seenEdits

\* A series is still to be created only where the add-on has none of the person.
Creating == \A r \in work : r.op = "create" => EditedSince(place[r.at], r.key)

Alone == seenEdits <= edits /\ Seen /\ Creating

\* Two targets in use are never the same place.
LEMMA PlacesApart ==
    ASSUME PlaceOK, NEW s \in Targets, NEW t \in Targets, place[s] # Null,
           place[s] = place[t]
    PROVE  s = t
BY BirthdayAssumption DEF PlaceOK, Targets

LEMMA AloneInit == Init => Alone
BY CalDavAssumption DEF Init, Alone, Seen, Creating

\* Without a run there is nothing to hold.
LEMMA AloneIdle ==
    ASSUME TypeOK, work' = {}, pc' # "list", seenEdits' <= edits'
    PROVE  Alone'
BY DEF Alone, Seen, Creating

LEMMA AloneForgotten ==
    ASSUME TypeOK, ForgetRun, UNCHANGED edits
    PROVE  Alone'
<1>1. seenEdits' <= edits'
  BY CalDavAssumption DEF ForgetRun, TypeOK, WorldOK
<1> QED
  BY <1>1, AloneIdle DEF ForgetRun

LEMMA AloneFetch == TypeOK /\ Orderly /\ Alone /\ FetchSources => Alone'
<1> SUFFICES ASSUME TypeOK, Orderly, Alone, FetchSources PROVE Alone'
  OBVIOUS
<1>1. work' = {} /\ pc' = "stages" /\ UNCHANGED <<seenEdits, edits>>
  BY DEF TypeOK, WorkOK, FetchSources, world
<1> QED
  BY <1>1, AloneIdle DEF Alone

LEMMA AloneStart == TypeOK /\ Orderly /\ Alone /\ StartBirthday => Alone'
<1> SUFFICES ASSUME TypeOK, Orderly, Alone, StartBirthday PROVE Alone'
  OBVIOUS
<1>1. CASE ForgetRun
  BY <1>1, AloneForgotten DEF StartBirthday, world
<1>2. CASE ~ForgetRun
  <2>1. /\ toList' = {t \in Targets : place'[t] # Null} /\ seenEdits' = edits
        /\ work' = {} /\ UNCHANGED edits
    BY <1>2 DEF TypeOK, WorkOK, StartBirthday, world
  <2>2. seenEdits' <= edits'
    BY <2>1, CalDavAssumption DEF TypeOK, WorldOK
  <2> QED
    BY <2>1, <2>2 DEF Alone, Seen, Creating
<1> QED
  BY <1>1, <1>2

LEMMA AloneList == TypeOK /\ Orderly /\ Alone /\ ListSeries => Alone'
<1> SUFFICES ASSUME TypeOK, Orderly, Alone, ListSeries PROVE Alone'
  OBVIOUS
<1> DEFINE t == First(toList)
<1>1. /\ listing' = [listing EXCEPT ![t] = store[place[t]]] /\ toList' = toList \ {t}
      /\ UNCHANGED <<pc, place, seenEdits, store, edits, work>> /\ pc = "list"
  BY DEF ListSeries, plan, world
<1>2. work' = {}
  BY <1>1 DEF TypeOK, WorkOK
<1>3. t \in Targets /\ listing \in [Targets -> Collection]
  BY DEF TypeOK, PlaceOK, ListSeries, First, Targets
<1> HIDE DEF t
<1>4. ASSUME NEW s \in Targets \ toList', place[s] # Null, NEW v \in Url,
             store[place[s]][v] # NoCopy
      PROVE  listing'[s][v] # NoCopy \/ store[place[s]][v].by > seenEdits
  <2>1. CASE s = t
    BY <1>1, <1>3, <1>4, <2>1
  <2>2. CASE s # t
    BY <1>1, <1>3, <1>4, <2>2 DEF Alone, Seen, Held
  <2> QED
    BY <2>1, <2>2
<1>5. Seen'
  BY <1>1, <1>4 DEF Seen, Held
<1> QED
  BY <1>1, <1>2, <1>5 DEF Alone, Creating

LEMMA AloneJudge == TypeOK /\ Orderly /\ Alone /\ Judge => Alone'
<1> SUFFICES ASSUME TypeOK, Orderly, Alone, Judge PROVE Alone'
  OBVIOUS
<1>1. CASE ForgetRun
  BY <1>1, AloneForgotten DEF Judge, world
<1>2. CASE ~ForgetRun
  <2>1. /\ pc = "list" /\ toList = {} /\ pc' = "work"
        /\ UNCHANGED <<place, seenEdits, listing, edits, store>>
    BY <1>2, JudgePlans DEF plan, lists, world
  <2>2. PICK own : /\ \A t \in UsedTargets : own[t] \in Indexes(t)
                   /\ work' = UNION {Planned(t, own[t]) : t \in UsedTargets}
    BY <1>2, JudgePlans
  <2>3. Creating'
    <3>1. ASSUME NEW r \in work', r.op = "create", NEW v \in Url, v.key = r.key,
                 store[place[r.at]][v] # NoCopy
          PROVE  store[place[r.at]][v].by > seenEdits
      <4>1. /\ r.at \in Targets /\ place[r.at] # Null /\ own[r.at] \in Indexes(r.at)
            /\ r.key \in Keys /\ r \in Main(r.at, r.key, own[r.at][r.key])
        BY <2>2, <3>1, PlannedOne DEF UsedTargets
      <4>2. own[r.at][r.key] = Null
        BY <3>1, <4>1, MainFor
      <4>3. v \notin Held(listing[r.at])
        BY <3>1, <4>1, <4>2, IndexedIsOwn
      <4> QED
        BY <2>1, <3>1, <4>1, <4>3 DEF Alone, Seen
    <3> QED
      BY <2>1, <3>1 DEF Creating, EditedSince
  <2> QED
    BY <2>1, <2>3 DEF Alone, Seen
<1> QED
  BY <1>1, <1>2

\* What other creations rely on is not touched by a request of the run.
LEMMA OthersUndisturbed ==
    ASSUME TypeOK, Orderly, Alone, NEW r \in work, NEW u \in Lands(r),
           store' = Done(r, u), UNCHANGED <<place, seenEdits>>,
           NEW q \in work \ {r}, q.op = "create", r.op \in Writes \cup Deletes
    PROVE  EditedSince(place[q.at], q.key)'
<1>1. /\ r \in Request /\ r.at \in Targets /\ r.key \in Keys /\ place[r.at] # Null
      /\ place[r.at] \in Places /\ u \in Url /\ u.key = r.key
  BY RequestLands
<1>2. q.at \in Targets /\ q.key \in Keys /\ place[q.at] # Null /\ place[q.at] \in Places
  BY PlaceTyped DEF TypeOK, WorkOK, Request
<1>3. EditedSince(place[q.at], q.key)
  BY DEF Alone, Creating
<1>4. ASSUME NEW v \in Url, v.key = q.key, store'[place[q.at]][v] # NoCopy
      PROVE  store'[place[q.at]][v].by > seenEdits
  <2>1. CASE store'[place[q.at]][v] = store[place[q.at]][v]
    BY <1>3, <1>4, <2>1 DEF EditedSince
  <2>2. CASE store'[place[q.at]][v] # store[place[q.at]][v]
    <3>1. place[q.at] = place[r.at] /\ v = u /\ store'[place[q.at]][v] = After(r)
      BY <1>1, <1>2, <2>2 DEF Done, TypeOK, WorldOK, Collection
    <3>2. q.at = r.at
      BY <1>1, <1>2, <3>1, PlacesApart DEF TypeOK
    <3>3. r.op \in Writes
      BY <1>4, <3>1 DEF After
    <3>4. q = r
      BY <1>1, <1>4, <3>1, <3>2, <3>3 DEF Orderly, OneMain, Writes
    <3> QED
      BY <3>4
  <2> QED
    BY <2>1, <2>2
<1> QED
  BY <1>4 DEF EditedSince

LEMMA AloneSend ==
    ASSUME TypeOK, Orderly, Alone, NEW r \in work, SendRequest(r)
    PROVE  Alone'
<1>1. PICK u \in Lands(r) : store' = Done(r, u) \/ UNCHANGED store
  BY DEF SendRequest
<1>2. /\ work' = work \ {r} /\ UNCHANGED <<pc, place, seenEdits, listing, toList, edits>>
      /\ pc = "work" /\ r.op \in Writes \cup Deletes
  BY DEF SendRequest, plan, lists, Due
<1>3. Creating'
  <2>1. ASSUME NEW q \in work', q.op = "create"
        PROVE  EditedSince(place[q.at], q.key)'
    <3>1. CASE store' = Done(r, u)
      BY <1>2, <2>1, <3>1, OthersUndisturbed
    <3>2. CASE UNCHANGED store
      BY <1>2, <2>1, <3>2 DEF Alone, Creating, EditedSince
    <3> QED
      BY <1>1, <3>1, <3>2
  <2> QED
    BY <1>2, <2>1 DEF Creating, EditedSince
<1> QED
  BY <1>2, <1>3 DEF Alone, Seen

\* The user's own changes are the later ones.
LEMMA AloneTouch ==
    ASSUME TypeOK, Orderly, Alone, NEW p \in Places, NEW u \in Url, NEW copy, Touch(p, u, copy),
           copy # NoCopy => copy.by = edits + 1
    PROVE  Alone'
<1>1. /\ store' = [store EXCEPT ![p][u] = copy] /\ edits' = edits + 1
      /\ UNCHANGED <<pc, place, seenEdits, listing, toList, work>>
  BY DEF Touch, run, plan, lists
<1>2. /\ seenEdits <= edits' /\ edits + 1 > seenEdits
  BY <1>1, CalDavAssumption DEF Alone, TypeOK, WorldOK, RunOK
<1>3. ASSUME NEW o \in Places, NEW v \in Url, store'[o][v] # NoCopy
      PROVE  \/ store[o][v] # NoCopy /\ store'[o][v] = store[o][v]
             \/ store'[o][v].by > seenEdits
  BY <1>1, <1>2, <1>3 DEF TypeOK, WorldOK, Collection
<1>4. Seen'
  <2>1. ASSUME NEW t \in Targets, place[t] # Null
        PROVE  place[t] \in Places
    BY <2>1, PlaceTyped DEF TypeOK
  <2> QED
    BY <1>1, <1>3, <2>1 DEF Alone, Seen
<1>5. Creating'
  <2>1. ASSUME NEW r \in work
        PROVE  place[r.at] \in Places
    BY PlaceTyped DEF TypeOK, WorkOK, Request
  <2> QED
    BY <1>1, <1>3, <2>1 DEF Alone, Creating, EditedSince
<1> QED
  BY <1>1, <1>2, <1>4, <1>5 DEF Alone

LEMMA AloneUser == TypeOK /\ Orderly /\ Alone /\ UserStep => Alone'
<1> SUFFICES ASSUME TypeOK, Orderly, Alone, UserStep PROVE Alone'
  OBVIOUS
<1>1. PICK p \in Places, u \in Url :
         EditSeries(p, u) \/ RemoveSeries(p, u) \/ \E v \in Url : ImportSeries(p, u, v)
  BY DEF UserStep
<1>2. store[p][u] # NoCopy => [store[p][u] EXCEPT !.by = edits + 1].by = edits + 1
  BY DEF TypeOK, WorldOK, Collection, Copy
<1>3. CASE EditSeries(p, u)
  BY <1>2, <1>3, AloneTouch DEF EditSeries
<1>4. CASE RemoveSeries(p, u)
  BY <1>4, AloneTouch DEF RemoveSeries
<1>5. ASSUME NEW v \in Url, ImportSeries(p, u, v)
      PROVE  Alone'
  BY <1>2, <1>5, AloneTouch DEF ImportSeries
<1> QED
  BY <1>1, <1>3, <1>4, <1>5

LEMMA AloneStays == TypeOK /\ Orderly /\ Alone /\ [Next]_vars => Alone'
<1> SUFFICES ASSUME TypeOK, Orderly, Alone, [Next]_vars PROVE Alone'
  OBVIOUS
<1>1. ASSUME UNCHANGED <<pc, place, seenEdits, listing, toList, store, edits>>,
             work' \subseteq work
      PROVE  Alone'
  BY <1>1 DEF Alone, Seen, Creating, EditedSince
<1>2. CASE FetchSources \/ StartBirthday \/ ListSeries \/ Judge
  BY <1>2, AloneFetch, AloneStart, AloneList, AloneJudge
<1>3. CASE FinishBirthday \/ RunDies \/ \E r \in work : PatchRefused(r)
  BY <1>3, AloneForgotten DEF FinishBirthday, RunDies, PatchRefused, world
<1>4. ASSUME NEW r \in work, Local(r) \/ SendRequest(r) \/ Conflict(r)
      PROVE  Alone'
  BY <1>1, <1>4, AloneSend DEF Local, Conflict, plan, lists, world
<1>5. CASE UserStep
  BY <1>5, AloneUser
<1>6. CASE RefreshToken \/ AdminStep \/ UNCHANGED vars
  <2>1. UNCHANGED <<run, store, edits>>
    BY <1>6 DEF RefreshToken, AdminStep, UpdateBirthdaySync, DeleteCalendar,
                RepointCalendar, HideFeed, ConnectAccount, Disconnect, vars, world
  <2> QED
    BY <1>1, <2>1 DEF run, plan, lists
<1> QED
  BY <1>2, <1>3, <1>4, <1>5, <1>6 DEF Next, RunStep

LEMMA StaysAlone == Spec => [](TypeOK /\ Orderly /\ Alone)
BY AloneInit, AloneStays, StaysOrderly, PTL DEF Spec

\* The add-on never writes a second series of a person into a calendar, not
\* after a crash, a lost response, an account switched and switched back, or a
\* mapping that was cleared, unless the user put one there during the run: what
\* is created has no series of the person beside it but the user's own.
THEOREM NoSecondSeries == Spec => OneSeriesPerPerson
<1>1. ASSUME TypeOK, Orderly, Alone, Next, NEW p \in Places, NEW u \in Url, AddOnWrites(p, u),
             store[p][u] = NoCopy, NEW v \in Url, v.key = u.key, store[p][v] # NoCopy
      PROVE  store[p][v].by > seenEdits
  <2>1. PICK r \in work : /\ r.op \in Writes \cup Deletes /\ p = place[r.at]
                          /\ u \in Lands(r) /\ Accepts(r, u)
                          /\ store'[p][u] = After(r)
    BY <1>1, WrittenByRequest
  <2>2. After(r) # NoCopy
    BY <1>1, <2>1 DEF AddOnWrites
  <2>3. r.op = "create"
    BY <1>1, <2>1, <2>2 DEF Accepts, IfMatch
  <2>4. u.key = r.key
    BY <1>1, <2>1, <2>3, RequestLands DEF Writes
  <2> QED
    BY <1>1, <2>1, <2>3, <2>4 DEF Alone, Creating, EditedSince
<1>2. TypeOK /\ Orderly /\ Alone /\ [Next]_vars =>
        [\A p \in Places, u \in Url :
            AddOnWrites(p, u) /\ store[p][u] = NoCopy
               => \A v \in Url \ {u} : v.key = u.key /\ store[p][v] # NoCopy
                                          => store[p][v].by > seenEdits]_vars
  BY <1>1
<1> QED
  BY <1>2, StaysAlone, PTL DEF Spec, OneSeriesPerPerson

-----------------------------------------------------------------------------
(* What rows, lists and requests tell of the series. *)

Doubtful(p, u) == <<p, u>> \in doubt

\* An extra series is still to be taken away.
Leaving(t, u) == \E r \in work : r.op = "extra" /\ r.at = t /\ r.url = u

Home(t) == IF t = "google" THEN Accounts ELSE Cols

\* The row of u's person says what u says.
Told(t, p, u) ==
    /\ rows[t][u.key] # Null /\ rows[t][u.key].place = p
    /\ rows[t][u.key].val = store[p][u].val

\* A series that is not as its person's row says is in doubt or about to go.
RowsTell ==
    \A t \in Targets : \A p \in Home(t), u \in Url :
       store[p][u] # NoCopy
          => Doubtful(p, u) \/ Told(t, p, u) \/ (p = place[t] /\ Leaving(t, u))

\* Until a run writes, rows are as it read them or cleared, and a target holds
\* what was listed or what is in doubt.
ListTells ==
    pc = "list" =>
       /\ \A t \in Targets, k \in Keys : rows[t][k] \in {old[t][k], Null}
       /\ \A t \in Targets \ toList, u \in Url : place[t] # Null =>
             store[place[t]][u] \in {listing[t][u], NoCopy} \/ Doubtful(place[t], u)

\* Beside the series a request is about there are only extras and doubtful ones.
Covers(r) ==
    \A u \in Url : u.key = r.key /\ store[place[r.at]][u] # NoCopy
       => \/ Doubtful(place[r.at], u) \/ Leaving(r.at, u)
          \/ u = r.url /\ r.op # "create"

\* The requests that set or drop a row.
RowOps == {"create", "update", "refresh", "delete", "discard"}

WorkTells ==
    \A r \in work :
       /\ r.op \in RowOps => rows[r.at][r.key] \in {old[r.at][r.key], Null}
       /\ r.op \in {"create", "update", "delete"} => Covers(r)
       /\ r.op = "refresh" => old[r.at][r.key] # Null /\ old[r.at][r.key].val = r.val
       /\ r.op = "discard" =>
             old[r.at][r.key] # Null /\ old[r.at][r.key].place # place[r.at]
       /\ r.op = "extra" /\ r.at = "caldav" =>
             \/ store[place[r.at]][r.url] \in {r.etag, NoCopy}
             \/ Doubtful(place[r.at], r.url)

Doubts == RowsTell /\ ListTells /\ WorkTells

\* A target's place is of its kind, and the kinds have no place in common.
LEMMA HomesApart ==
    ASSUME NEW s \in Targets, NEW t \in Targets, NEW p \in Home(s)
    PROVE  p \in Places /\ (p \in Home(t) => s = t)
BY BirthdayAssumption DEF Home, Targets, Places

LEMMA PlaceAtHome ==
    ASSUME PlaceOK, NEW t \in Targets, place[t] # Null
    PROVE  place[t] \in Home(t) /\ place[t] \in Places
BY DEF PlaceOK, Home, Targets, Places

LEMMA DoubtsInit == Init => Doubts
BY HomesApart DEF Init, Doubts, RowsTell, ListTells, WorkTells, EmptyCollection

\* What a run that ends leaves unfinished is in doubt.
LEMMA DoubtsForgotten ==
    ASSUME TypeOK, Doubts, ForgetRun, UNCHANGED rows, doubt \cup LeftOver \subseteq doubt',
           \A p \in Places, u \in Url : store'[p][u] = store[p][u] \/ <<p, u>> \in doubt'
    PROVE  Doubts'
<1>1. ListTells' /\ WorkTells'
  BY DEF ForgetRun, ListTells, WorkTells
<1>2. ASSUME NEW t \in Targets, NEW p \in Home(t), NEW u \in Url, store'[p][u] # NoCopy,
             <<p, u>> \notin doubt'
      PROVE  Told(t, p, u)'
  <2>1. store'[p][u] = store[p][u] /\ ~Doubtful(p, u)
    BY <1>2, HomesApart DEF Doubtful
  <2>2. ~(p = place[t] /\ Leaving(t, u))
    BY <1>2 DEF Leaving, LeftOver
  <2> QED
    BY <1>2, <2>1, <2>2 DEF Doubts, RowsTell, Told
<1>3. RowsTell'
  BY <1>2 DEF RowsTell, Doubtful, Home
<1> QED
  BY <1>1, <1>3 DEF Doubts

\* Who does not belong to the run clears rows, which is doubted, or changes
\* series, which is doubted.
LEMMA DoubtsOutside ==
    ASSUME TypeOK, Doubts, UNCHANGED <<pc, place, old, toList, listing, work>>,
           doubt \subseteq doubt',
           \A t \in Targets, k \in Keys :
              \/ rows'[t][k] = rows[t][k]
              \/ rows'[t][k] = Null /\ LeftBehind(t, k, Null) \subseteq doubt',
           \A p \in Places, u \in Url : store'[p][u] = store[p][u] \/ <<p, u>> \in doubt'
    PROVE  Doubts'
<1>1. ASSUME NEW t \in Targets, NEW p \in Home(t), NEW u \in Url, store'[p][u] # NoCopy,
             <<p, u>> \notin doubt'
      PROVE  Told(t, p, u)' \/ (p = place[t] /\ Leaving(t, u)')
  <2>1. store'[p][u] = store[p][u] /\ ~Doubtful(p, u)
    BY <1>1, HomesApart DEF Doubtful
  <2>2. Leaving(t, u)' <=> Leaving(t, u)
    BY DEF Leaving
  <2>3. CASE Told(t, p, u)
    <3>1. u.key \in Keys
      BY DEF Url
    <3>2. p # Null
      BY HomesApart, BirthdayAssumption
    <3>3. <<p, u>> \in LeftBehind(t, u.key, Null)
      BY <2>3, <3>2 DEF LeftBehind, Told
    <3>4. rows'[t][u.key] = rows[t][u.key]
      BY <1>1, <3>1, <3>3
    <3> QED
      BY <2>1, <2>3, <3>4 DEF Told
  <2> QED
    BY <1>1, <2>1, <2>2, <2>3 DEF Doubts, RowsTell
<1>2. RowsTell'
  BY <1>1 DEF RowsTell, Doubtful, Home
<1>3. ListTells'
  <2>1. \A t \in Targets : place[t] # Null => place[t] \in Places
    BY PlaceAtHome DEF TypeOK
  <2>2. ASSUME pc = "list", NEW t \in Targets \ toList, NEW u \in Url, place[t] # Null
        PROVE  \/ store'[place[t]][u] \in {listing[t][u], NoCopy}
               \/ <<place[t], u>> \in doubt'
    BY <2>1, <2>2 DEF Doubts, ListTells, Doubtful
  <2>3. ASSUME pc = "list", NEW t \in Targets, NEW k \in Keys
        PROVE  rows'[t][k] \in {old[t][k], Null}
    BY <2>3 DEF Doubts, ListTells
  <2> QED
    BY <2>2, <2>3 DEF ListTells, Doubtful
<1>4. WorkTells'
  <2> SUFFICES ASSUME NEW r \in work
               PROVE  /\ r.op \in RowOps => rows'[r.at][r.key] \in {old[r.at][r.key], Null}
                      /\ r.op \in {"create", "update", "delete"} => Covers(r)'
                      /\ r.op = "refresh" =>
                            old[r.at][r.key] # Null /\ old[r.at][r.key].val = r.val
                      /\ r.op = "discard" =>
                            old[r.at][r.key] # Null /\ old[r.at][r.key].place # place[r.at]
                      /\ r.op = "extra" /\ r.at = "caldav" =>
                            \/ store'[place[r.at]][r.url] \in {r.etag, NoCopy}
                            \/ <<place[r.at], r.url>> \in doubt'
    BY DEF WorkTells, Doubtful
  <2>1. /\ r.at \in Targets /\ r.key \in Keys /\ r.url \in Url /\ place[r.at] \in Places
    BY PlaceAtHome DEF TypeOK, WorkOK, Request
  <2>2. r.op \in RowOps => rows'[r.at][r.key] \in {old[r.at][r.key], Null}
    BY <2>1 DEF Doubts, WorkTells
  <2>3. ASSUME r.op \in {"create", "update", "delete"}
        PROVE  Covers(r)'
    <3>1. Covers(r)
      BY <2>3 DEF Doubts, WorkTells
    <3> QED
      BY <2>1, <3>1 DEF Covers, Doubtful, Leaving
  <2>4. r.op = "extra" /\ r.at = "caldav" =>
           \/ store'[place[r.at]][r.url] \in {r.etag, NoCopy}
           \/ <<place[r.at], r.url>> \in doubt'
    BY <2>1 DEF Doubts, WorkTells, Doubtful
  <2> QED
    BY <2>2, <2>3, <2>4 DEF Doubts, WorkTells
<1> QED
  BY <1>2, <1>3, <1>4 DEF Doubts

LEMMA DoubtsAdmin == TypeOK /\ Doubts /\ AdminStep => Doubts'
<1> SUFFICES ASSUME TypeOK, Doubts, AdminStep PROVE Doubts'
  OBVIOUS
<1>1. UNCHANGED <<pc, place, old, toList, listing, work>> /\ UNCHANGED store
  BY RowsCleared DEF run, plan, lists, AdminStep, UpdateBirthdaySync, DeleteCalendar,
     RepointCalendar, HideFeed, ConnectAccount, Disconnect, world
<1>2. UNCHANGED <<rows, doubt>> \/ \E t \in Targets : ClearRows(t)
  BY DEF AdminStep, UpdateBirthdaySync, DeleteCalendar, RepointCalendar, HideFeed,
         ConnectAccount, Disconnect, world, Targets
<1>3. ASSUME NEW s \in Targets, ClearRows(s)
      PROVE  /\ doubt \subseteq doubt'
             /\ \A t \in Targets, k \in Keys :
                   \/ rows'[t][k] = rows[t][k]
                   \/ rows'[t][k] = Null /\ LeftBehind(t, k, Null) \subseteq doubt'
  <2>1. \A k \in Keys : LeftBehind(s, k, Null) \subseteq doubt'
    BY <1>3 DEF ClearRows
  <2>2. \A t \in Targets, k \in Keys :
           rows'[t][k] = IF t = s THEN Null ELSE rows[t][k]
    BY <1>3 DEF TypeOK, RowsOK, ClearRows, NoRows
  <2> QED
    BY <1>3, <2>1, <2>2 DEF ClearRows
<1> QED
  BY <1>1, <1>2, <1>3, DoubtsOutside

LEMMA DoubtsUser == TypeOK /\ Doubts /\ UserStep => Doubts'
<1> SUFFICES ASSUME TypeOK, Doubts, UserStep PROVE Doubts'
  OBVIOUS
<1>1. PICK p \in Places, u \in Url : \E copy : Touch(p, u, copy)
  BY DEF UserStep, EditSeries, RemoveSeries, ImportSeries
<1>2. UNCHANGED <<pc, place, old, toList, listing, work, rows>> /\ doubt \subseteq doubt'
  BY <1>1 DEF Touch, run, plan, lists
<1>3. \A o \in Places, v \in Url : store'[o][v] = store[o][v] \/ <<o, v>> \in doubt'
  BY <1>1 DEF Touch, TypeOK, WorldOK, Collection
<1> QED
  BY <1>2, <1>3, DoubtsOutside

LEMMA DoubtsStart == TypeOK /\ Doubts /\ StartBirthday => Doubts'
<1> SUFFICES ASSUME TypeOK, Doubts, StartBirthday PROVE Doubts'
  OBVIOUS
<1>1. work = {} /\ LeftOver = {} /\ UNCHANGED <<rows, store, doubt>>
  BY DEF StartBirthday, TypeOK, WorkOK, LeftOver, world
<1>2. CASE ForgetRun
  BY <1>1, <1>2, DoubtsForgotten
<1>3. CASE ~ForgetRun
  <2>1. /\ work' = {} /\ old' = rows /\ toList' = {t \in Targets : place'[t] # Null}
    BY <1>1, <1>3 DEF StartBirthday
  <2>2. RowsTell'
    BY <1>1, <2>1 DEF Doubts, RowsTell, Leaving, Told, Doubtful, Home
  <2> QED
    BY <1>1, <2>1, <2>2 DEF Doubts, ListTells, WorkTells
<1> QED
  BY <1>2, <1>3

LEMMA DoubtsList == TypeOK /\ Doubts /\ ListSeries => Doubts'
<1> SUFFICES ASSUME TypeOK, Doubts, ListSeries PROVE Doubts'
  OBVIOUS
<1> DEFINE t == First(toList)
<1>1. /\ listing' = [listing EXCEPT ![t] = store[place[t]]] /\ toList' = toList \ {t}
      /\ UNCHANGED <<pc, place, old, rows, store, doubt, work>> /\ pc = "list"
  BY DEF ListSeries, plan, world
<1>2. work = {}
  BY <1>1 DEF TypeOK, WorkOK
<1>3. t \in Targets /\ listing \in [Targets -> Collection]
  BY DEF TypeOK, PlaceOK, ListSeries, First, Targets
<1> HIDE DEF t
<1>4. ASSUME NEW s \in Targets \ toList', place[s] # Null, NEW u \in Url
      PROVE  store[place[s]][u] \in {listing'[s][u], NoCopy} \/ Doubtful(place[s], u)
  <2>1. CASE s = t
    BY <1>1, <1>3, <2>1
  <2>2. CASE s # t
    BY <1>1, <1>3, <1>4, <2>2 DEF Doubts, ListTells
  <2> QED
    BY <2>1, <2>2
<1>5. ListTells'
  BY <1>1, <1>4 DEF Doubts, ListTells, Doubtful
<1>6. RowsTell' /\ WorkTells'
  BY <1>1, <1>2 DEF Doubts, RowsTell, WorkTells, Leaving, Told, Doubtful
<1> QED
  BY <1>5, <1>6 DEF Doubts

LEMMA DoubtsJudge == TypeOK /\ Doubts /\ Judge => Doubts'
<1> SUFFICES ASSUME TypeOK, Doubts, Judge PROVE Doubts'
  OBVIOUS
<1>0. work = {} /\ LeftOver = {} /\ pc = "list" /\ toList = {}
      /\ UNCHANGED <<rows, store, doubt>>
  BY DEF Judge, TypeOK, WorkOK, LeftOver, world
<1>1. CASE ForgetRun
  BY <1>0, <1>1, DoubtsForgotten
<1>2. CASE ~ForgetRun
  <2>1. pc' = "work" /\ UNCHANGED <<place, old>>
    BY <1>2, JudgePlans DEF plan
  <2>2. PICK own : /\ \A t \in UsedTargets : own[t] \in Indexes(t)
                   /\ work' = UNION {Planned(t, own[t]) : t \in UsedTargets}
    BY <1>2, JudgePlans
  <2>3. RowsTell'
    BY <1>0, <2>1 DEF Doubts, RowsTell, Told, Doubtful, Leaving
  <2>4. ASSUME NEW r \in work'
        PROVE  /\ r.op \in RowOps => rows[r.at][r.key] \in {old[r.at][r.key], Null}
               /\ r.op = "refresh" =>
                     old[r.at][r.key] # Null /\ old[r.at][r.key].val = r.val
               /\ r.op = "discard" =>
                     old[r.at][r.key] # Null /\ old[r.at][r.key].place # place[r.at]
               /\ r.op = "extra" /\ r.at = "caldav" =>
                     \/ store[place[r.at]][r.url] \in {r.etag, NoCopy}
                     \/ Doubtful(place[r.at], r.url)
    <3>1. /\ r.at \in Targets /\ place[r.at] # Null /\ r.key \in Keys
          /\ IF r.op # "extra" THEN r \in Main(r.at, r.key, own[r.at][r.key])
             ELSE r.url \in Held(listing[r.at]) /\ r = Extra(r.at, r.url)
      BY <2>2, PlannedOne DEF UsedTargets
    <3>2. r.op \in RowOps => rows[r.at][r.key] \in {old[r.at][r.key], Null}
      BY <1>0, <3>1 DEF Doubts, ListTells
    <3>3. r.op = "refresh" =>
             old[r.at][r.key] # Null /\ old[r.at][r.key].val = r.val
      BY <3>1, MainWanted, MainUnwanted
    <3>4. r.op = "discard" =>
             old[r.at][r.key] # Null /\ old[r.at][r.key].place # place[r.at]
      BY <3>1, MainWanted, MainUnwanted
    <3>5. ASSUME r.op = "extra", r.at = "caldav"
          PROVE  \/ store[place[r.at]][r.url] \in {r.etag, NoCopy}
                 \/ Doubtful(place[r.at], r.url)
      <4>1. r.url \in Url /\ r.etag = listing[r.at][r.url]
        BY <3>1, <3>5, ExtraFor DEF EtagOf
      <4> QED
        BY <1>0, <3>1, <4>1 DEF Doubts, ListTells
    <3> QED
      BY <3>2, <3>3, <3>4, <3>5
  <2>5. ASSUME NEW r \in work', r.op \in {"create", "update", "delete"}
        PROVE  Covers(r)'
    <3>1. /\ r.at \in UsedTargets /\ r.at \in Targets /\ place[r.at] # Null
          /\ r.key \in Keys /\ own[r.at] \in Indexes(r.at)
          /\ r \in Main(r.at, r.key, own[r.at][r.key])
      BY <2>2, <2>5, PlannedOne DEF UsedTargets
    <3>2. ASSUME NEW u \in Url, u.key = r.key, store[place[r.at]][u] # NoCopy,
                 ~Doubtful(place[r.at], u), ~(u = r.url /\ r.op # "create")
          PROVE  Leaving(r.at, u)'
      <4>1. u \in Held(listing[r.at])
        BY <1>0, <3>1, <3>2 DEF Doubts, ListTells, Held
      <4>2. own[r.at][r.key] # Null
        BY <3>1, <3>2, <4>1, IndexedIsOwn
      <4>3. u # own[r.at][u.key]
        BY <3>1, <3>2, <4>2, MainFor
      <4>4. Extra(r.at, u) \in work'
        BY <2>2, <3>1, <4>1, <4>3 DEF Planned
      <4> QED
        BY <3>1, <4>1, <4>4, ExtraFor DEF Leaving
    <3> QED
      BY <1>0, <2>1, <3>2 DEF Covers, Doubtful
  <2>6. WorkTells'
    BY <1>0, <2>1, <2>4, <2>5 DEF WorkTells, Doubtful
  <2> QED
    BY <2>1, <2>3, <2>6 DEF Doubts, ListTells
<1> QED
  BY <1>1, <1>2

\* What one request of the run does: it leaves the list; it touches the row of
\* its person and, at u, one series of its person; no other doubt is removed.
Concerns(r, u) ==
    /\ u \in Url /\ u.key = r.key /\ (r.op # "create" => u = r.url)
    /\ work' = work \ {r} /\ UNCHANGED <<pc, place, old>>
    /\ \A t \in Targets, k \in Keys :
          rows'[t][k] = rows[t][k] \/ (t = r.at /\ k = r.key /\ r.op # "extra")
    /\ \A p \in Places, v \in Url :
          \/ /\ store'[p][v] = store[p][v]
             /\ <<p, v>> \in doubt => <<p, v>> \in doubt'
          \/ p = place[r.at] /\ v = u
    /\ r.op = "extra" =>
          store'[place[r.at]][r.url] = NoCopy \/ <<place[r.at], r.url>> \in doubt'

\* Nothing else of what is told changes with it.
LEMMA OthersTold ==
    ASSUME TypeOK, Orderly, Doubts, NEW r \in work, NEW u, pc = "work", Concerns(r, u),
           NEW t \in Targets, NEW p \in Home(t), NEW v \in Url, store'[p][v] # NoCopy,
           t # r.at \/ v.key # r.key
    PROVE  \/ <<p, v>> \in doubt' \/ Told(t, p, v)' \/ (p = place[t] /\ Leaving(t, v)')
<1>1. /\ r.at \in Targets /\ r.key \in Keys /\ place[r.at] \in Home(r.at)
      /\ r.url.key = r.key /\ v.key \in Keys /\ p \in Places
  BY PlaceAtHome, HomesApart DEF TypeOK, WorkOK, Request, Orderly, Named, Url
<1>2. ~(p = place[r.at] /\ v = u)
  BY <1>1, HomesApart DEF Concerns
<1>3. store'[p][v] = store[p][v] /\ (<<p, v>> \in doubt => <<p, v>> \in doubt')
  BY <1>1, <1>2 DEF Concerns
<1>4. rows'[t][v.key] = rows[t][v.key]
  BY <1>1 DEF Concerns
<1>5. p = place[t] /\ Leaving(t, v) => Leaving(t, v)'
  BY <1>1 DEF Leaving, Concerns
<1> QED
  BY <1>3, <1>4, <1>5 DEF Doubts, RowsTell, Told, Doubtful

\* What the other requests rely on stays.
LEMMA OthersTell ==
    ASSUME TypeOK, Orderly, Doubts, NEW r \in work, NEW u, pc = "work", Concerns(r, u)
    PROVE  WorkTells'
<1>1. /\ r.at \in Targets /\ r.key \in Keys /\ place[r.at] \in Places
      /\ r.url.key = r.key
  BY PlaceAtHome DEF TypeOK, WorkOK, Request, Orderly, Named
<1> SUFFICES ASSUME NEW q \in work', q # r
             PROVE  /\ q.op \in RowOps => rows'[q.at][q.key] \in {old[q.at][q.key], Null}
                    /\ q.op \in {"create", "update", "delete"} => Covers(q)'
                    /\ q.op = "refresh" =>
                          old[q.at][q.key] # Null /\ old[q.at][q.key].val = q.val
                    /\ q.op = "discard" =>
                          old[q.at][q.key] # Null /\ old[q.at][q.key].place # place[q.at]
                    /\ q.op = "extra" /\ q.at = "caldav" =>
                          \/ store'[place[q.at]][q.url] \in {q.etag, NoCopy}
                          \/ <<place[q.at], q.url>> \in doubt'
  BY DEF WorkTells, Doubtful, Concerns
<1>2. /\ q \in work /\ q.at \in Targets /\ q.key \in Keys /\ q.url \in Url
      /\ place[q.at] # Null /\ place[q.at] \in Places /\ q.url.key = q.key
  BY PlaceAtHome DEF TypeOK, WorkOK, Request, Orderly, Named, Concerns
<1>3. place[q.at] = place[r.at] => q.at = r.at
  BY <1>1, <1>2, PlacesApart DEF TypeOK
<1>4. q.at = r.at /\ q.key = r.key
         => "extra" \in {q.op, r.op} /\ "create" \notin {q.op, r.op} /\ q.url # r.url
  BY <1>2 DEF Orderly, OneMain
<1>5. ASSUME q.op \in RowOps
      PROVE  rows'[q.at][q.key] = rows[q.at][q.key]
  BY <1>2, <1>4, <1>5 DEF Concerns, RowOps
<1>6. ASSUME NEW v \in Url, v.key = q.key, v # r.url \/ q.at # r.at \/ q.key # r.key
      PROVE  /\ store'[place[q.at]][v] = store[place[q.at]][v]
             /\ <<place[q.at], v>> \in doubt => <<place[q.at], v>> \in doubt'
             /\ Leaving(q.at, v) => Leaving(q.at, v)'
  <2>1. ~(place[q.at] = place[r.at] /\ v = u)
    BY <1>3, <1>4, <1>6 DEF Concerns
  <2>2. Leaving(q.at, v) => Leaving(q.at, v)'
    BY <1>1, <1>6 DEF Leaving, Concerns
  <2> QED
    BY <1>2, <2>1, <2>2 DEF Concerns
<1>7. ASSUME q.op \in {"create", "update", "delete"}
      PROVE  Covers(q)'
  <2>1. Covers(q)
    BY <1>2, <1>7 DEF Doubts, WorkTells
  <2>2. ASSUME NEW v \in Url, v.key = q.key, store'[place[q.at]][v] # NoCopy
        PROVE  \/ <<place[q.at], v>> \in doubt' \/ Leaving(q.at, v)'
               \/ v = q.url /\ q.op # "create"
    <3>1. CASE v # r.url \/ q.at # r.at \/ q.key # r.key
      BY <1>6, <2>1, <2>2, <3>1 DEF Covers, Doubtful
    <3>2. CASE v = r.url /\ q.at = r.at /\ q.key = r.key
      BY <1>4, <1>7, <2>2, <3>2 DEF Concerns
    <3> QED
      BY <3>1, <3>2
  <2>3. UNCHANGED place
    BY DEF Concerns
  <2> QED
    BY <2>2, <2>3 DEF Covers, Doubtful
<1>8. ASSUME q.op = "extra", q.at = "caldav"
      PROVE  \/ store'[place[q.at]][q.url] \in {q.etag, NoCopy}
             \/ <<place[q.at], q.url>> \in doubt'
  <2>1. \/ store[place[q.at]][q.url] \in {q.etag, NoCopy}
        \/ Doubtful(place[q.at], q.url)
    BY <1>2, <1>8 DEF Doubts, WorkTells
  <2> QED
    BY <1>2, <1>4, <1>6, <2>1 DEF Doubtful
<1>9. /\ q.op \in RowOps => rows'[q.at][q.key] \in {old[q.at][q.key], Null}
      /\ q.op = "refresh" => old[q.at][q.key] # Null /\ old[q.at][q.key].val = q.val
      /\ q.op = "discard" => old[q.at][q.key] # Null /\ old[q.at][q.key].place # place[q.at]
  BY <1>2, <1>5 DEF Doubts, WorkTells
<1> QED
  BY <1>7, <1>8, <1>9

\* So it remains to see what becomes of the request's own person.
LEMMA DoubtsStep ==
    ASSUME TypeOK, Orderly, Doubts, NEW r \in work, NEW u, pc = "work", Concerns(r, u),
           \A p \in Home(r.at), v \in Url :
              v.key = r.key /\ store'[p][v] # NoCopy
                 => \/ <<p, v>> \in doubt' \/ Told(r.at, p, v)'
                    \/ p = place[r.at] /\ Leaving(r.at, v)'
    PROVE  Doubts'
<1>1. RowsTell'
  <2>1. ASSUME NEW t \in Targets, NEW p \in Home(t), NEW v \in Url, store'[p][v] # NoCopy
        PROVE  \/ <<p, v>> \in doubt' \/ Told(t, p, v)'
               \/ p = place[t] /\ Leaving(t, v)'
    <3>1. CASE t = r.at /\ v.key = r.key
      BY <2>1, <3>1
    <3>2. CASE t # r.at \/ v.key # r.key
      BY <2>1, <3>2, OthersTold
    <3> QED
      BY <3>1, <3>2
  <2>2. UNCHANGED place
    BY DEF Concerns
  <2> QED
    BY <2>1, <2>2 DEF RowsTell, Doubtful, Home
<1> QED
  BY <1>1, OthersTell DEF Doubts, ListTells, Concerns

\* A row that is given up leaves the series it told of in doubt, unless it is of
\* the place that is worked on.
LEMMA ToldIsLeft ==
    ASSUME NEW t \in Targets, NEW p, NEW q, NEW v \in Url, Told(t, p, v), p # q
    PROVE  <<p, v>> \in LeftBehind(t, v.key, q)
BY DEF Told, LeftBehind

LEMMA LocalConcerns ==
    ASSUME TypeOK, Orderly, NEW r \in work, Local(r)
    PROVE  Concerns(r, r.url)
<1>1. /\ work' = work \ {r} /\ UNCHANGED <<pc, place, old, store>>
      /\ r.op \in {"refresh", "discard"} /\ doubt \subseteq doubt'
      /\ StoreRow(r, r.url, r.etag) \/ DropRow(r)
  BY DEF Local, plan
<1>2. r.at \in Targets /\ r.key \in Keys /\ r.url \in Url /\ r.url.key = r.key
  BY DEF TypeOK, WorkOK, Request, Orderly, Named
<1>3. \A t \in Targets, k \in Keys :
         rows'[t][k] = rows[t][k] \/ (t = r.at /\ k = r.key)
  BY <1>1, <1>2 DEF StoreRow, DropRow, TypeOK, RowsOK
<1> QED
  BY <1>1, <1>2, <1>3 DEF Concerns

LEMMA DoubtsLocal ==
    ASSUME TypeOK, Orderly, Doubts, NEW r \in work, Local(r)
    PROVE  Doubts'
<1>1. /\ work' = work \ {r} /\ UNCHANGED <<pc, place, old, store>> /\ pc = "work"
      /\ doubt' = doubt \cup LeftBehind(r.at, r.key, place[r.at])
      /\ r.op \in {"refresh", "discard"}
  BY DEF Local, Due, plan
<1>2. /\ r.at \in Targets /\ r.key \in Keys /\ r.url \in Url /\ r.url.key = r.key
      /\ place[r.at] \in Home(r.at)
  BY PlaceAtHome DEF TypeOK, WorkOK, Request, Orderly, Named
<1>6. ASSUME NEW p \in Home(r.at), NEW v \in Url, v.key = r.key, store'[p][v] # NoCopy
      PROVE  \/ <<p, v>> \in doubt' \/ Told(r.at, p, v)'
             \/ p = place[r.at] /\ Leaving(r.at, v)'
  <2>1. Leaving(r.at, v) => Leaving(r.at, v)'
    BY <1>1 DEF Leaving
  <2>2. CASE Told(r.at, p, v) /\ p # place[r.at]
    BY <1>1, <1>2, <1>6, <2>2, ToldIsLeft
  <2>3. CASE Told(r.at, p, v) /\ p = place[r.at]
    <3>1. /\ rows[r.at][r.key] = old[r.at][r.key] /\ rows[r.at][r.key].place = place[r.at]
          /\ old[r.at][r.key].val = store[p][v].val
      BY <1>1, <1>6, <2>3 DEF Doubts, WorkTells, RowOps, Told
    <3>2. r.op = "refresh" /\ old[r.at][r.key].val = r.val
      BY <1>1, <3>1 DEF Doubts, WorkTells
    <3>3. StoreRow(r, r.url, r.etag)
      BY <3>2 DEF Local
    <3>4. rows'[r.at][r.key] = [place |-> place[r.at], url |-> r.url,
                                etag |-> r.etag, val |-> r.val]
      BY <1>2, <3>3 DEF StoreRow, TypeOK, RowsOK
    <3>5. rows'[r.at][r.key] # Null
      <4>1. /\ place[r.at] \in Places /\ r.url \in Url /\ r.etag \in Etag
            /\ r.val \in Vals
        BY PlaceAtHome DEF TypeOK, WorkOK, Request
      <4> QED
        BY <3>4, <4>1, NullIsNoRecord DEF Row
    <3> QED
      BY <1>1, <1>6, <2>3, <3>1, <3>2, <3>4, <3>5 DEF Told
  <2> QED
    BY <1>1, <1>2, <1>6, <2>1, <2>2, <2>3 DEF Doubts, RowsTell, Doubtful
<1> QED
  BY <1>1, <1>6, LocalConcerns, DoubtsStep

LEMMA DoubtsConflict ==
    ASSUME TypeOK, Orderly, Doubts, NEW r \in work, Conflict(r)
    PROVE  Doubts'
<1>1. /\ work' = work \ {r} /\ UNCHANGED <<pc, place, old, store, rows, doubt>>
      /\ pc = "work" /\ r.at = "caldav" /\ ~Accepts(r, r.url) /\ ~NoEffect(r, r.url)
      /\ r.op \in Writes \cup Deletes
  BY DEF Conflict, Due, plan, world
<1>2. /\ r.at \in Targets /\ r.url \in Url /\ r.url.key = r.key
      /\ place[r.at] \in Home(r.at) /\ place[r.at] \in Places
  BY PlaceAtHome DEF TypeOK, WorkOK, Request, Orderly, Named
<1>3. ASSUME r.op = "extra"
      PROVE  Doubtful(place[r.at], r.url)
  <2>1. store[place[r.at]][r.url] # NoCopy
    BY <1>1, <1>3 DEF NoEffect, Deletes
  <2>2. store[place[r.at]][r.url] # r.etag
    BY <1>1, <1>3, <2>1 DEF Accepts, IfMatch, Foreign
  <2> QED
    BY <1>1, <1>3, <2>1, <2>2 DEF Doubts, WorkTells
<1>4. Concerns(r, r.url)
  BY <1>1, <1>2, <1>3 DEF Concerns, Doubtful
<1>5. ASSUME NEW p \in Home(r.at), NEW v \in Url, v.key = r.key, store'[p][v] # NoCopy
      PROVE  \/ <<p, v>> \in doubt' \/ Told(r.at, p, v)'
             \/ p = place[r.at] /\ Leaving(r.at, v)'
  <2>1. \/ Doubtful(p, v) \/ Told(r.at, p, v) \/ (p = place[r.at] /\ Leaving(r.at, v))
    BY <1>1, <1>2, <1>5 DEF Doubts, RowsTell
  <2>2. Leaving(r.at, v) => Leaving(r.at, v)' \/ (r.op = "extra" /\ r.url = v)
    BY <1>1 DEF Leaving
  <2> QED
    BY <1>1, <1>3, <2>1, <2>2 DEF Doubtful, Told
<1> QED
  BY <1>1, <1>4, <1>5, DoubtsStep

\* How a request ends: carried out, or without an effect.
Sent(r, u) ==
    /\ \/ /\ Accepts(r, u) /\ store' = Done(r, u)
          /\ doubt' = (doubt \ {<<place[r.at], u>>})
                         \cup LeftBehind(r.at, r.key, place[r.at])
       \/ /\ NoEffect(r, u) /\ UNCHANGED store
          /\ doubt' = doubt \cup LeftBehind(r.at, r.key, place[r.at])
    /\ r.op \in Writes => StoreRow(r, u, EtagOf(r.at, After(r)))
    /\ r.op = "delete" => DropRow(r)
    /\ r.op \in {"orphan", "extra"} => UNCHANGED rows

LEMMA SentOrNot ==
    ASSUME TypeOK, Orderly, NEW r \in work, SendRequest(r)
    PROVE  \E u \in Lands(r) : Sent(r, u)
<1>1. PICK u \in Lands(r) :
         /\ \/ Accepts(r, u) /\ store' = Done(r, u)
            \/ NoEffect(r, u) /\ UNCHANGED store
         /\ doubt' = (IF Accepts(r, u) THEN doubt \ {<<place[r.at], u>>} ELSE doubt)
                        \cup LeftBehind(r.at, r.key, place[r.at])
         /\ IF r.op \in Writes THEN StoreRow(r, u, EtagOf(r.at, After(r)))
            ELSE IF r.op = "delete" THEN DropRow(r)
            ELSE UNCHANGED rows
  BY DEF SendRequest
<1>2. ~(NoEffect(r, u) /\ Accepts(r, u))
  BY DEF NoEffect, Accepts, IfMatch, Deletes
<1>3. /\ r.op \in Writes => StoreRow(r, u, EtagOf(r.at, After(r)))
      /\ r.op = "delete" => DropRow(r)
      /\ r.op \in {"orphan", "extra"} => UNCHANGED rows
  BY <1>1 DEF Writes
<1>4. \/ /\ Accepts(r, u) /\ store' = Done(r, u)
         /\ doubt' = (doubt \ {<<place[r.at], u>>}) \cup LeftBehind(r.at, r.key, place[r.at])
      \/ /\ NoEffect(r, u) /\ UNCHANGED store
         /\ doubt' = doubt \cup LeftBehind(r.at, r.key, place[r.at])
  BY <1>1, <1>2
<1> QED
  BY <1>3, <1>4 DEF Sent

\* What that does to the series and their doubts.
LEMMA SentEffect ==
    ASSUME TypeOK, Orderly, NEW r \in work, SendRequest(r), NEW u \in Lands(r), Sent(r, u)
    PROVE  /\ \A p \in Places, v \in Url :
                 \/ store'[p][v] = store[p][v]
                 \/ p = place[r.at] /\ v = u /\ store'[p][v] = After(r)
           /\ \A p, v : <<p, v>> \in doubt /\ ~(p = place[r.at] /\ v = u)
                           => <<p, v>> \in doubt'
           /\ r.op \in Deletes =>
                 \/ store'[place[r.at]][u] = NoCopy
                 \/ UNCHANGED store /\ doubt \subseteq doubt' /\ Foreign(r)
           /\ r.op \in Writes => \/ store'[place[r.at]][u] = After(r)
                                 \/ store'[place[r.at]][u] = NoCopy
<1> DEFINE p == place[r.at]
<1>1. p \in Places /\ u \in Url
  BY RequestLands
<1>2. store' = Done(r, u) =>
         /\ \A o \in Places, v \in Url :
               store'[o][v] = IF o = p /\ v = u THEN After(r) ELSE store[o][v]
         /\ store'[p][u] = After(r)
  BY <1>1 DEF Done, TypeOK, WorldOK, Collection
<1>3. \A o \in Places, v \in Url :
         \/ store'[o][v] = store[o][v]
         \/ o = p /\ v = u /\ store'[o][v] = After(r)
  BY <1>2 DEF Sent
<1>4. r.op \in Deletes =>
         \/ store'[p][u] = NoCopy
         \/ UNCHANGED store /\ doubt \subseteq doubt' /\ Foreign(r)
  BY <1>2 DEF Sent, After, NoEffect, Writes, Deletes
<1>5. r.op \in Writes => store'[p][u] = After(r) \/ store'[p][u] = NoCopy
  BY <1>2 DEF Sent, NoEffect, Foreign, Writes
<1> QED
  BY <1>3, <1>4, <1>5 DEF Sent

LEMMA SendConcerns ==
    ASSUME TypeOK, Orderly, NEW r \in work, SendRequest(r), NEW u \in Lands(r), Sent(r, u)
    PROVE  Concerns(r, u)
<1>1. /\ r.at \in Targets /\ r.key \in Keys /\ u \in Url /\ u.key = r.key
      /\ r.op # "create" => u = r.url
  BY RequestLands
<1>2. /\ work' = work \ {r} /\ UNCHANGED <<pc, place, old>>
      /\ r.op \in Writes \cup Deletes
  BY DEF SendRequest, plan
<1>3. \A t \in Targets, k \in Keys :
         rows'[t][k] = rows[t][k] \/ (t = r.at /\ k = r.key /\ r.op # "extra")
  <2>1. CASE r.op \in Writes
    BY <1>1, <2>1 DEF Sent, StoreRow, TypeOK, RowsOK, Writes
  <2>2. CASE r.op \in Deletes
    BY <1>1, <2>2 DEF Sent, DropRow, TypeOK, RowsOK, Deletes
  <2> QED
    BY <1>2, <2>1, <2>2
<1>4. r.op = "extra" => store'[place[r.at]][r.url] = NoCopy
  BY <1>1, SentEffect DEF Foreign, Deletes
<1> QED
  BY <1>1, <1>2, <1>3, <1>4, SentEffect DEF Concerns

\* The row of a series that was written tells of it.
LEMMA WrittenRow ==
    ASSUME TypeOK, Orderly, NEW r \in work, SendRequest(r), NEW u \in Lands(r), Sent(r, u),
           r.op \in Writes
    PROVE  /\ rows'[r.at][r.key] # Null /\ rows'[r.at][r.key].place = place[r.at]
           /\ rows'[r.at][r.key].url = u /\ rows'[r.at][r.key].val = r.val
           /\ After(r) # NoCopy /\ After(r).val = r.val
<1>1. /\ r \in Request /\ r.at \in Targets /\ r.key \in Keys /\ u \in Url
      /\ place[r.at] \in Places /\ r.val \in Vals
  BY RequestLands DEF Request
<1>2. rows'[r.at][r.key] = [place |-> place[r.at], url |-> u,
                            etag |-> EtagOf(r.at, After(r)), val |-> r.val]
  BY <1>1 DEF Sent, StoreRow, TypeOK, RowsOK
<1>3. EtagOf(r.at, After(r)) \in Etag
  BY <1>1, AfterTyped
<1>4. After(r) # NoCopy /\ After(r).val = r.val
  BY <1>1, WrittenIsCopy DEF After, Written
<1> QED
  BY <1>1, <1>2, <1>3, <1>4, NullIsNoRecord DEF Row

LEMMA DoubtsSend ==
    ASSUME TypeOK, Orderly, Doubts, NEW r \in work, SendRequest(r)
    PROVE  Doubts'
<1> DEFINE p == place[r.at]
<1>1. PICK u \in Lands(r) : Sent(r, u)
  BY SentOrNot
<1>2. /\ r \in Request /\ r.at \in Targets /\ r.key \in Keys /\ u \in Url /\ u.key = r.key
      /\ p \in Places /\ p \in Home(r.at) /\ (r.op # "create" => u = r.url)
  BY RequestLands, PlaceAtHome DEF TypeOK
<1>3. /\ work' = work \ {r} /\ pc = "work" /\ r.op \in Writes \cup Deletes
  BY DEF SendRequest, Due
<1>4. /\ \A o \in Places, v \in Url :
            store'[o][v] = store[o][v] \/ (o = p /\ v = u /\ store'[o][v] = After(r))
      /\ \A o, v : <<o, v>> \in doubt /\ ~(o = p /\ v = u) => <<o, v>> \in doubt'
      /\ r.op \in Deletes => \/ store'[p][u] = NoCopy
                             \/ UNCHANGED store /\ doubt \subseteq doubt' /\ Foreign(r)
      /\ r.op \in Writes => store'[p][u] = After(r) \/ store'[p][u] = NoCopy
  BY <1>1, SentEffect
<1>5. Concerns(r, u)
  BY <1>1, SendConcerns
<1> HIDE DEF p
<1>6. ASSUME NEW o \in Home(r.at), NEW v \in Url, v.key = r.key, store'[o][v] # NoCopy
      PROVE  \/ <<o, v>> \in doubt' \/ Told(r.at, o, v)'
             \/ o = p /\ Leaving(r.at, v)'
  <2>0. o \in Places
    BY <1>2, HomesApart
  <2>1. CASE o # p
    <3>1. store'[o][v] = store[o][v]
      BY <1>4, <2>0, <2>1
    <3>2. Doubtful(o, v) \/ Told(r.at, o, v)
      BY <1>2, <1>6, <2>1, <3>1 DEF Doubts, RowsTell, p
    <3>3. Told(r.at, o, v) => <<o, v>> \in doubt'
      <4>1. Told(r.at, o, v) => <<o, v>> \in LeftBehind(r.at, r.key, p)
        BY <1>2, <1>6, <2>1, ToldIsLeft
      <4> QED
        BY <1>1, <4>1 DEF Sent, p
    <3> QED
      BY <1>4, <2>1, <3>2, <3>3 DEF Doubtful
  <2>2. CASE o = p /\ v # u
    <3>1. store'[o][v] = store[o][v] /\ (Doubtful(o, v) => <<o, v>> \in doubt')
      BY <1>4, <2>0, <2>2 DEF Doubtful
    <3>2. Leaving(r.at, v) => Leaving(r.at, v)'
      BY <1>2, <1>3, <2>2 DEF Leaving
    <3>3. CASE r.op \in {"create", "update", "delete"}
      <4>1. Covers(r)
        BY <3>3 DEF Doubts, WorkTells
      <4> QED
        BY <1>2, <1>6, <2>2, <3>1, <3>2, <4>1 DEF Covers, p
    <3>4. CASE r.op \in {"orphan", "extra"}
      <4>1. UNCHANGED rows
        BY <1>1, <3>4 DEF Sent
      <4> QED
        BY <1>2, <1>6, <2>2, <3>1, <3>2, <4>1 DEF Doubts, RowsTell, Told, Doubtful, p
    <3> QED
      BY <1>3, <3>3, <3>4 DEF Writes, Deletes
  <2>3. CASE o = p /\ v = u /\ r.op \in Writes
    <3>1. store'[p][u] = After(r)
      BY <1>4, <1>6, <2>3
    <3> QED
      BY <1>1, <1>2, <2>3, <3>1, WrittenRow DEF Told, p
  <2>4. CASE o = p /\ v = u /\ r.op \in Deletes
    <3>1. UNCHANGED store /\ doubt \subseteq doubt' /\ Foreign(r)
      BY <1>4, <1>6, <2>4
    <3>2. r.op = "delete" /\ old[r.at][r.key].place # p
      BY <3>1 DEF Foreign, p
    <3>3. ~Told(r.at, p, v)
      BY <1>6, <3>2 DEF Told, Doubts, WorkTells, RowOps
    <3>4. Leaving(r.at, v) => Leaving(r.at, v)'
      BY <1>3, <3>2 DEF Leaving
    <3> QED
      BY <1>2, <1>6, <2>4, <3>1, <3>3, <3>4 DEF Doubts, RowsTell, Doubtful, p
  <2> QED
    BY <1>3, <2>1, <2>2, <2>3, <2>4
<1> QED
  BY <1>3, <1>5, <1>6, DoubtsStep DEF p

LEMMA DoubtsStay == TypeOK /\ Orderly /\ Doubts /\ [Next]_vars => Doubts'
<1> SUFFICES ASSUME TypeOK, Orderly, Doubts, [Next]_vars PROVE Doubts'
  OBVIOUS
<1>1. ASSUME UNCHANGED <<rows, store, doubt>>, work = {}, work' = {}, pc' # "list"
      PROVE  Doubts'
  BY <1>1 DEF Doubts, RowsTell, ListTells, WorkTells, Told, Doubtful, Leaving, Home
<1>2. CASE FetchSources
  <2>1. work = {}
    BY <1>2 DEF FetchSources, TypeOK, WorkOK
  <2> QED
    BY <1>1, <1>2, <2>1 DEF FetchSources, world
<1>3. CASE StartBirthday \/ ListSeries \/ Judge
  BY <1>3, DoubtsStart, DoubtsList, DoubtsJudge
<1>4. ASSUME NEW r \in work, Local(r) \/ SendRequest(r) \/ Conflict(r)
      PROVE  Doubts'
  BY <1>4, DoubtsLocal, DoubtsSend, DoubtsConflict
<1>5. CASE FinishBirthday \/ \E r \in work : PatchRefused(r)
  <2>1. /\ ForgetRun /\ UNCHANGED <<rows, store>> /\ doubt \cup LeftOver \subseteq doubt'
    BY <1>5 DEF FinishBirthday, PatchRefused, LeftOver, world
  <2> QED
    BY <2>1, DoubtsForgotten
<1>6. CASE RunDies
  <2>1. /\ ForgetRun /\ UNCHANGED rows /\ doubt \cup LeftOver \subseteq doubt'
    BY <1>6 DEF RunDies
  <2>2. \A p \in Places, u \in Url : store'[p][u] = store[p][u] \/ <<p, u>> \in doubt'
    <3>1. CASE UNCHANGED store
      BY <3>1
    <3>2. ASSUME NEW r \in work, NEW u \in Lands(r), store' = Done(r, u),
                 <<place[r.at], u>> \in doubt'
          PROVE  \A p \in Places, v \in Url :
                    store'[p][v] = store[p][v] \/ <<p, v>> \in doubt'
      BY <3>2, RequestLands DEF Done, TypeOK, WorldOK, Collection
    <3>3. UNCHANGED store \/ \E r \in work : \E u \in Lands(r) :
                                store' = Done(r, u) /\ <<place[r.at], u>> \in doubt'
      BY <1>6 DEF RunDies
    <3> QED
      BY <3>1, <3>2, <3>3
  <2> QED
    BY <2>1, <2>2, DoubtsForgotten
<1>7. CASE AdminStep \/ UserStep
  BY <1>7, DoubtsAdmin, DoubtsUser
<1>8. CASE RefreshToken \/ UNCHANGED vars
  <2>1. UNCHANGED <<rows, store, doubt>> /\ UNCHANGED <<pc, place, old, toList, listing, work>>
    BY <1>8 DEF RefreshToken, vars, run, plan, lists, world
  <2> QED
    BY <2>1, DoubtsOutside
<1> QED
  BY <1>2, <1>3, <1>4, <1>5, <1>6, <1>7, <1>8 DEF Next, RunStep

LEMMA StaysDoubted == Spec => [](TypeOK /\ Orderly /\ Doubts)
BY DoubtsInit, DoubtsStay, StaysOrderly, PTL DEF Spec

-----------------------------------------------------------------------------
(* A clean run. *)

\* What a run that is not disturbed has read still holds when it judges.
ListHolds ==
    pc = "list" /\ ~disturbed =>
       /\ rows = old
       /\ \A t \in Targets \ toList : place[t] # Null => listing[t] = store[place[t]]

Asked(t, k) == {r \in work : r.at = t /\ r.key = k}

\* k is not wanted: what t holds and tells of k is about to go.
Going(t, k) ==
    /\ \A u \in Url : u.key = k /\ store[place[t]][u] # NoCopy
          => \E r \in Asked(t, k) : r.url = u /\ r.op \in Deletes /\ ~Foreign(r)
    /\ rows[t][k] = Null \/ \E r \in Asked(t, k) : r.op \in {"delete", "discard"}
    /\ \A r \in Asked(t, k) : r.op \notin {"create", "update", "refresh"}

\* k is wanted and has no series: one is about to be created.
Coming(t, k) ==
    /\ \E r \in Asked(t, k) : r.op = "create" /\ r.val = wanted[k]
    /\ \A u \in Url : u.key = k => store[place[t]][u] = NoCopy

\* k is wanted and u is its series: the others are about to go, and the row tells
\* of u, or is about to.
StayingAt(t, k, u) ==
    /\ u.key = k /\ store[place[t]][u] # NoCopy /\ ~Leaving(t, u)
    /\ \A v \in Url \ {u} : v.key = k /\ store[place[t]][v] # NoCopy => Leaving(t, v)
    /\ \A r \in Asked(t, k) : r.op \in {"update", "refresh", "extra"}
    /\ \/ /\ rows[t][k] # Null /\ rows[t][k].place = place[t]
          /\ rows[t][k].url = u /\ rows[t][k].val = wanted[k]
          /\ \A r \in Asked(t, k) : r.op = "extra"
       \/ \E r \in Asked(t, k) : /\ r.op \in {"update", "refresh"}
                                 /\ r.url = u /\ r.val = wanted[k]

OnTrack(t, k) ==
    IF wanted[k] = Null THEN Going(t, k)
    ELSE Coming(t, k) \/ \E u \in Url : StayingAt(t, k, u)

RunOnTrack ==
    pc = "work" /\ ~disturbed /\ ~conflicts =>
       \A t \in Targets, k \in Keys : place[t] # Null => OnTrack(t, k)

Tracked == ListHolds /\ RunOnTrack

LEMMA TrackedForgotten ==
    ASSUME pc' \notin {"list", "work"} \/ disturbed'
    PROVE  Tracked'
BY DEF Tracked, ListHolds, RunOnTrack

LEMMA TrackedStart == TypeOK /\ StartBirthday => Tracked'
<1> SUFFICES ASSUME TypeOK, StartBirthday PROVE Tracked'
  OBVIOUS
<1>1. CASE ForgetRun
  BY <1>1, TrackedForgotten DEF ForgetRun
<1>2. CASE ~ForgetRun
  BY <1>2 DEF StartBirthday, Tracked, ListHolds, RunOnTrack
<1> QED
  BY <1>1, <1>2

LEMMA TrackedList == TypeOK /\ Tracked /\ ListSeries => Tracked'
<1> SUFFICES ASSUME TypeOK, Tracked, ListSeries PROVE Tracked'
  OBVIOUS
<1> DEFINE t == First(toList)
<1>1. /\ listing' = [listing EXCEPT ![t] = store[place[t]]] /\ toList' = toList \ {t}
      /\ UNCHANGED <<pc, place, old, rows, store, disturbed>> /\ pc = "list"
  BY DEF ListSeries, plan, world
<1>2. t \in Targets /\ listing \in [Targets -> Collection]
  BY DEF TypeOK, PlaceOK, ListSeries, First, Targets
<1> HIDE DEF t
<1>3. ASSUME ~disturbed, NEW s \in Targets \ toList', place[s] # Null
      PROVE  listing'[s] = store[place[s]]
  BY <1>1, <1>2, <1>3 DEF Tracked, ListHolds
<1> QED
  BY <1>1, <1>3 DEF Tracked, ListHolds, RunOnTrack

\* The second verdict puts every person on track.
LEMMA TrackedJudge == TypeOK /\ Orderly /\ Tracked /\ Judge => Tracked'
<1> SUFFICES ASSUME TypeOK, Orderly, Tracked, Judge PROVE Tracked'
  OBVIOUS
<1>1. CASE ForgetRun
  BY <1>1, TrackedForgotten DEF ForgetRun
<1>2. CASE ~ForgetRun /\ ~disturbed
  <2>1. /\ pc = "list" /\ toList = {} /\ pc' = "work"
        /\ UNCHANGED <<place, old, wanted, listing, rows, store, disturbed>>
    BY <1>2, JudgePlans DEF plan, lists, world
  <2>2. PICK own : /\ \A t \in UsedTargets : own[t] \in Indexes(t)
                   /\ work' = UNION {Planned(t, own[t]) : t \in UsedTargets}
    BY <1>2, JudgePlans
  <2>3. ASSUME NEW t \in Targets, NEW k \in Keys, place[t] # Null
        PROVE  OnTrack(t, k)'
    <3> DEFINE u == own[t][k]
               M == Main(t, k, u)
    <3>1. t \in UsedTargets /\ own[t] \in Indexes(t)
      BY <2>2, <2>3 DEF UsedTargets
    <3>2. rows = old /\ listing[t] = store[place[t]]
      BY <1>2, <2>1, <2>3 DEF Tracked, ListHolds
    <3>3. /\ u \in Held(listing[t]) \cup {Null} /\ (u # Null => u.key = k)
          /\ u = Null => \A v \in Held(listing[t]) : v.key # k
      BY <3>1, IndexedIsOwn
    <3>4. ASSUME NEW r \in Asked(t, k)'
          PROVE  /\ r.op # "extra" => r \in M
                 /\ r.op = "extra" => r.url # u
      BY <2>2, <3>4, PlannedOne DEF Asked
    <3>5. M \subseteq Asked(t, k)'
      BY <2>2, <3>1, MainFor DEF Planned, Asked
    <3>6. ASSUME NEW v \in Url, v.key = k, store[place[t]][v] # NoCopy, v # u
          PROVE  /\ Extra(t, v) \in Asked(t, k)' /\ Extra(t, v).url = v
                 /\ Extra(t, v).op = "extra" /\ Leaving(t, v)'
      <4>1. v \in Held(listing[t])
        BY <3>2, <3>6 DEF Held
      <4>2. Extra(t, v) \in work'
        BY <2>2, <3>1, <3>6, <4>1 DEF Planned
      <4> QED
        BY <3>6, <4>1, <4>2, ExtraFor DEF Asked, Leaving
    <3>7. ~Leaving(t, u)' \/ u = Null
      <4>1. ASSUME u # Null, NEW r \in work', r.op = "extra", r.at = t, r.url = u
            PROVE  FALSE
        BY <2>2, <3>3, <4>1, PlannedOne
      <4> QED
        BY <4>1 DEF Leaving
    <3>8. CASE wanted[k] = Null
      <4>1. /\ \A r \in M :
                  /\ r.op \in {"delete", "discard", "orphan"}
                  /\ r.op = "orphan" => old[t][k] = Null
                  /\ u # Null => r.url = u /\ r.op # "discard"
            /\ M = {} => u = Null /\ old[t][k] = Null
        BY <3>8, MainUnwanted
      <4> HIDE DEF M, u
      <4>2. ASSUME NEW v \in Url, v.key = k, store[place[t]][v] # NoCopy
            PROVE  \E r \in Asked(t, k)' : r.url = v /\ r.op \in Deletes /\ ~Foreign(r)'
        <5>1. CASE v # u
          BY <3>6, <4>2, <5>1 DEF Foreign, Deletes
        <5>2. CASE v = u
          <6>1. v \in Held(listing[t])
            BY <3>2, <4>2 DEF Held
          <6>2. u # Null
            BY <3>3, <4>2, <5>2, <6>1
          <6>3. PICK r \in M : r.url = v /\ r.op \in Deletes
            BY <4>1, <5>2, <6>2 DEF Deletes
          <6>4. r \in Asked(t, k)' /\ r.at = t
            BY <3>5, <6>3 DEF Asked
          <6> QED
            BY <2>1, <6>1, <6>3, <6>4 DEF Foreign
        <5> QED
          BY <5>1, <5>2
      <4>3. rows[t][k] = Null \/ \E r \in Asked(t, k)' : r.op \in {"delete", "discard"}
        BY <3>2, <3>5, <4>1
      <4>4. \A r \in Asked(t, k)' : r.op \notin {"create", "update", "refresh"}
        BY <3>4, <4>1
      <4>5. Going(t, k)'
        BY <2>1, <4>2, <4>3, <4>4 DEF Going
      <4> QED
        BY <2>1, <3>8, <4>5 DEF OnTrack
    <3>9. CASE wanted[k] # Null
      <4>1. /\ \A r \in M :
                  /\ r.val = wanted[k] /\ r.op \in {"create", "update", "refresh"}
                  /\ r.op = "create" <=> u = Null
                  /\ u # Null => r.url = u
            /\ M = {} =>
                  /\ u # Null /\ old[t][k] # Null /\ old[t][k].val = wanted[k]
                  /\ old[t][k].url = u /\ old[t][k].place = place[t]
        BY <3>9, MainWanted
      <4> HIDE DEF M, u
      <4>2. CASE u = Null
        <5>1. \E r \in Asked(t, k)' : r.op = "create" /\ r.val = wanted[k]
          BY <3>5, <4>1, <4>2
        <5>2. \A v \in Url : v.key = k => store[place[t]][v] = NoCopy
          BY <3>2, <3>3, <4>2 DEF Held
        <5>3. Coming(t, k)'
          BY <2>1, <5>1, <5>2 DEF Coming
        <5> QED
          BY <2>1, <3>9, <5>3 DEF OnTrack
      <4>3. CASE u # Null
        <5>1. u \in Url /\ u.key = k /\ store[place[t]][u] # NoCopy
          BY <3>2, <3>3, <4>3 DEF Held
        <5>2. \A r \in Asked(t, k)' : r.op \in {"update", "refresh", "extra"}
          BY <3>4, <4>1, <4>3
        <5>3. \/ /\ rows[t][k] # Null /\ rows[t][k].place = place[t]
                 /\ rows[t][k].url = u /\ rows[t][k].val = wanted[k]
                 /\ \A r \in Asked(t, k)' : r.op = "extra"
              \/ \E r \in Asked(t, k)' : /\ r.op \in {"update", "refresh"}
                                         /\ r.url = u /\ r.val = wanted[k]
          BY <3>2, <3>4, <3>5, <4>1, <4>3
        <5>4. ASSUME NEW w \in Url, w = u
              PROVE  StayingAt(t, k, w)'
          BY <2>1, <3>6, <3>7, <4>3, <5>1, <5>2, <5>3, <5>4 DEF StayingAt
        <5> QED
          BY <2>1, <3>9, <5>1, <5>4 DEF OnTrack
      <4> QED
        BY <4>2, <4>3
    <3> QED
      BY <3>8, <3>9
  <2> QED
    BY <2>1, <2>3 DEF Tracked, ListHolds, RunOnTrack
<1>3. CASE ~ForgetRun /\ disturbed
  BY <1>3, JudgePlans, TrackedForgotten
<1> QED
  BY <1>1, <1>2, <1>3

\* A request does not bring another person, or a person elsewhere, off track.
LEMMA OthersOnTrack ==
    ASSUME TypeOK, Orderly, NEW r \in work, NEW u, pc = "work", Concerns(r, u),
           UNCHANGED <<wanted, listing>>,
           NEW t \in Targets, NEW k \in Keys, place[t] # Null, OnTrack(t, k),
           t # r.at \/ k # r.key
    PROVE  OnTrack(t, k)'
<1>1. /\ r.at \in Targets /\ place[r.at] # Null /\ place[t] \in Places
      /\ UNCHANGED <<place, old>>
  BY PlaceAtHome DEF TypeOK, WorkOK, Request, Concerns
<1>2. ASSUME NEW v \in Url, v.key = k
      PROVE  store'[place[t]][v] = store[place[t]][v] /\ (Leaving(t, v)' <=> Leaving(t, v))
  <2>1. ~(place[t] = place[r.at] /\ v = u)
    BY <1>1, <1>2, PlacesApart DEF TypeOK, Concerns
  <2>2. Leaving(t, v)' <=> Leaving(t, v)
    BY <1>2 DEF Leaving, Concerns, Orderly, Named
  <2> QED
    BY <1>1, <2>1, <2>2 DEF Concerns
<1>3. rows'[t][k] = rows[t][k] /\ Asked(t, k)' = Asked(t, k)
  BY DEF Concerns, Asked
<1>4. \A q : Foreign(q)' <=> Foreign(q)
  BY <1>1 DEF Foreign
<1>5. CASE wanted[k] = Null
  <2>1. Going(t, k)
    BY <1>5 DEF OnTrack
  <2>2. ASSUME NEW v \in Url, v.key = k, store'[place[t]][v] # NoCopy
        PROVE  \E q \in Asked(t, k)' : q.url = v /\ q.op \in Deletes /\ ~Foreign(q)'
    BY <1>2, <1>3, <1>4, <2>1, <2>2 DEF Going
  <2>3. Going(t, k)'
    BY <1>1, <1>3, <2>1, <2>2 DEF Going
  <2> QED
    BY <1>5, <2>3 DEF OnTrack
<1>6. CASE wanted[k] # Null
  <2>1. CASE Coming(t, k)
    <3>1. \A v \in Url : v.key = k => store'[place[t]][v] = NoCopy
      BY <1>2, <2>1 DEF Coming
    <3>2. Coming(t, k)'
      BY <1>1, <1>3, <2>1, <3>1 DEF Coming
    <3> QED
      BY <1>6, <3>2 DEF OnTrack
  <2>2. ASSUME NEW w \in Url, StayingAt(t, k, w)
        PROVE  OnTrack(t, k)'
    <3>1. w.key = k /\ store'[place[t]][w] # NoCopy /\ ~Leaving(t, w)'
      BY <1>2, <2>2 DEF StayingAt
    <3>2. \A v \in Url \ {w} : v.key = k /\ store'[place[t]][v] # NoCopy => Leaving(t, v)'
      BY <1>2, <2>2 DEF StayingAt
    <3>3. StayingAt(t, k, w)'
      BY <1>1, <1>3, <2>2, <3>1, <3>2 DEF StayingAt
    <3> QED
      BY <1>6, <3>3 DEF OnTrack
  <2> QED
    BY <1>6, <2>1, <2>2 DEF OnTrack
<1> QED
  BY <1>5, <1>6

\* What is known of the others that are asked for one person with r.
LEMMA WithOthers ==
    ASSUME TypeOK, Orderly, NEW r \in work
    PROVE  /\ r \in Asked(r.at, r.key)
           /\ \A q \in Asked(r.at, r.key) : q # r =>
                 /\ "extra" \in {q.op, r.op} /\ "create" \notin {q.op, r.op}
                 /\ q.url # r.url
           /\ work' = work \ {r} => Asked(r.at, r.key)' = Asked(r.at, r.key) \ {r}
BY DEF Orderly, OneMain, Asked

\* Who is wanted is asked for by one of three requests, beside extras.
LEMMA WantedOps ==
    ASSUME TypeOK, Orderly, NEW r \in work, OnTrack(r.at, r.key), wanted[r.key] # Null
    PROVE  /\ r.op \in {"create", "update", "refresh", "extra"}
           /\ r.op = "create" => /\ Coming(r.at, r.key) /\ r.val = wanted[r.key]
                                 /\ Asked(r.at, r.key) = {r}
           /\ r.op # "create" => \E u \in Url : StayingAt(r.at, r.key, u)
<1>1. CASE Coming(r.at, r.key)
  BY <1>1, WithOthers DEF Coming
<1>2. ASSUME NEW u \in Url, StayingAt(r.at, r.key, u)
      PROVE  r.op \in {"update", "refresh", "extra"}
  BY <1>2, WithOthers DEF StayingAt
<1> QED
  BY <1>1, <1>2 DEF OnTrack

\* An update or a refresh is about the series that stays.
LEMMA StayingBy ==
    ASSUME TypeOK, Orderly, NEW r \in work, NEW u \in Url, StayingAt(r.at, r.key, u),
           r.op \in {"update", "refresh"}
    PROVE  /\ r.url = u /\ r.val = wanted[r.key]
           /\ \A q \in Asked(r.at, r.key) \ {r} : q.op = "extra"
BY WithOthers DEF StayingAt

LEMMA LocalOnTrack ==
    ASSUME TypeOK, Orderly, NEW r \in work, Local(r), OnTrack(r.at, r.key)
    PROVE  OnTrack(r.at, r.key)'
<1> DEFINE t == r.at
           k == r.key
<1>1. /\ work' = work \ {r} /\ UNCHANGED <<place, old, store, wanted, listing>>
      /\ r.op \in {"refresh", "discard"}
  BY DEF Local, plan, lists
<1>2. /\ t \in Targets /\ k \in Keys /\ r.url \in Url /\ r.etag \in Etag /\ r.val \in Vals
      /\ place[t] \in Places
  BY PlaceAtHome DEF TypeOK, WorkOK, Request
<1>3. Asked(t, k)' = Asked(t, k) \ {r}
  BY <1>1, WithOthers
<1>4. \A v : Leaving(t, v)' <=> Leaving(t, v)
  BY <1>1 DEF Leaving
<1>5. \A q : Foreign(q)' <=> Foreign(q)
  BY <1>1 DEF Foreign
<1>6. CASE wanted[k] = Null
  <2>1. Going(t, k)
    BY <1>6 DEF OnTrack
  <2>2. r.op = "discard" /\ rows'[t][k] = Null
    <3>1. r.op = "discard"
      BY <1>1, <2>1, WithOthers DEF Going
    <3> QED
      BY <1>2, <3>1 DEF Local, DropRow, TypeOK, RowsOK
  <2> HIDE DEF t, k
  <2>3. Going(t, k)'
    BY <1>1, <1>3, <1>5, <2>1, <2>2 DEF Going, Deletes
  <2> QED
    BY <1>1, <1>6, <2>3 DEF OnTrack, t, k
<1>7. CASE wanted[k] # Null
  <2>1. r.op = "refresh"
    BY <1>1, <1>7, WantedOps
  <2>2. PICK u \in Url : StayingAt(t, k, u)
    BY <1>7, <2>1, WantedOps
  <2>3. /\ r.url = u /\ r.val = wanted[k]
        /\ \A q \in Asked(t, k) \ {r} : q.op = "extra"
    BY <2>1, <2>2, StayingBy
  <2>4. rows'[t][k] = [place |-> place[t], url |-> r.url, etag |-> r.etag, val |-> r.val]
    BY <1>2, <2>1 DEF Local, StoreRow, TypeOK, RowsOK
  <2>5. rows'[t][k] # Null
    BY <1>2, <2>4, NullIsNoRecord DEF Row
  <2> HIDE DEF t, k
  <2>6. StayingAt(t, k, u)'
    BY <1>1, <1>3, <1>4, <2>2, <2>3, <2>4, <2>5 DEF StayingAt
  <2> QED
    BY <1>1, <1>7, <2>6 DEF OnTrack, t, k
<1> QED
  BY <1>6, <1>7

\* A series that was held, or is created, is there after it is written.
LEMMA SentIsHeld ==
    ASSUME TypeOK, Orderly, NEW r \in work, SendRequest(r), NEW u \in Lands(r), Sent(r, u),
           r.op \in Writes, r.op = "create" \/ store[place[r.at]][u] # NoCopy
    PROVE  store'[place[r.at]][u] # NoCopy
<1>1. ~NoEffect(r, u)
  BY DEF NoEffect, Foreign, Writes, Deletes
<1>2. store' = Done(r, u)
  BY <1>1 DEF Sent
<1>3. place[r.at] \in Places /\ u \in Url
  BY RequestLands
<1> QED
  BY <1>2, <1>3, WrittenRow DEF Done, TypeOK, WorldOK, Collection

LEMMA SendOnTrack ==
    ASSUME TypeOK, Orderly, NEW r \in work, SendRequest(r), OnTrack(r.at, r.key)
    PROVE  OnTrack(r.at, r.key)'
<1> DEFINE t == r.at
           k == r.key
<1>1. PICK u \in Lands(r) : Sent(r, u)
  BY SentOrNot
<1>2. /\ t \in Targets /\ k \in Keys /\ u \in Url /\ u.key = k
      /\ place[t] \in Places /\ (r.op # "create" => u = r.url)
  BY RequestLands
<1>3. /\ work' = work \ {r} /\ UNCHANGED <<place, old, wanted, listing>>
      /\ r.op \in Writes \cup Deletes
  BY DEF SendRequest, plan, lists
<1>4. /\ \A v \in Url \ {u} : store'[place[t]][v] = store[place[t]][v]
      /\ r.op \in Deletes => \/ store'[place[t]][u] = NoCopy
                             \/ UNCHANGED store /\ Foreign(r)
  BY <1>1, <1>2, SentEffect
<1>5. Asked(t, k)' = Asked(t, k) \ {r}
  BY <1>3, WithOthers
<1>6. \A q : Foreign(q)' <=> Foreign(q)
  BY <1>3 DEF Foreign
<1>7. r.op \in {"create", "update"} =>
         /\ rows'[t][k] # Null /\ rows'[t][k].place = place[t]
         /\ rows'[t][k].url = u /\ rows'[t][k].val = r.val
  BY <1>1, WrittenRow DEF Writes
<1>8. CASE wanted[k] = Null
  <2>1. Going(t, k)
    BY <1>8 DEF OnTrack
  <2>2. r.op \in Deletes
    BY <1>3, <2>1, WithOthers DEF Going, Writes
  <2>3. u = r.url
    BY <1>2, <2>2 DEF Deletes
  <2> HIDE DEF t, k
  <2>4. ASSUME NEW v \in Url, v.key = k, store'[place[t]][v] # NoCopy
        PROVE  \E q \in Asked(t, k)' : q.url = v /\ q.op \in Deletes /\ ~Foreign(q)'
    <3>1. store[place[t]][v] # NoCopy /\ (v = u => Foreign(r))
      BY <1>4, <2>2, <2>4
    <3>2. PICK q \in Asked(t, k) : q.url = v /\ q.op \in Deletes /\ ~Foreign(q)
      BY <2>1, <2>4, <3>1 DEF Going
    <3> QED
      BY <1>5, <1>6, <2>3, <3>1, <3>2
  <2>5. rows'[t][k] = Null \/ \E q \in Asked(t, k)' : q.op \in {"delete", "discard"}
    <3>1. CASE r.op = "delete"
      BY <1>1, <1>2, <3>1 DEF Sent, DropRow, TypeOK, RowsOK, t, k
    <3>2. CASE r.op \in {"orphan", "extra"}
      BY <1>1, <1>5, <2>1, <3>2 DEF Going, Sent
    <3> QED
      BY <2>2, <3>1, <3>2 DEF Deletes
  <2>6. Going(t, k)'
    BY <1>3, <1>5, <2>1, <2>4, <2>5 DEF Going
  <2> QED
    BY <1>3, <1>8, <2>6 DEF OnTrack, t, k
<1>9. CASE wanted[k] # Null /\ r.op = "create"
  <2>1. Coming(t, k) /\ r.val = wanted[k] /\ Asked(t, k) = {r}
    BY <1>9, WantedOps
  <2>2. store'[place[t]][u] # NoCopy
    BY <1>1, <1>9, SentIsHeld DEF Writes, Deletes
  <2>3. \A q \in work' : ~(q.at = t /\ q.key = k)
    BY <1>3, <2>1 DEF Asked
  <2>4. ~Leaving(t, u)'
    <3>1. \A q \in work' : q.url.key = q.key
      BY <1>3 DEF Orderly, Named
    <3> QED
      BY <1>2, <2>3, <3>1 DEF Leaving
  <2> HIDE DEF t, k
  <2>5. Asked(t, k)' = {}
    BY <1>5, <2>1
  <2>6. \A v \in Url \ {u} : v.key = k => store'[place[t]][v] = NoCopy
    BY <1>4, <2>1 DEF Coming
  <2>7. StayingAt(t, k, u)'
    BY <1>2, <1>3, <1>7, <1>9, <2>1, <2>2, <2>4, <2>5, <2>6 DEF StayingAt
  <2> QED
    BY <1>2, <1>3, <1>9, <2>7 DEF OnTrack, t, k
<1>10. CASE wanted[k] # Null /\ r.op = "update"
  <2>1. PICK w \in Url : StayingAt(t, k, w)
    BY <1>10, WantedOps
  <2>2. /\ w = u /\ r.val = wanted[k]
        /\ \A q \in Asked(t, k) \ {r} : q.op = "extra"
    BY <1>2, <1>10, <2>1, StayingBy
  <2>3. store'[place[t]][u] # NoCopy
    BY <1>1, <1>10, <2>1, <2>2, SentIsHeld DEF StayingAt, Writes
  <2>4. \A v : Leaving(t, v)' <=> Leaving(t, v)
    BY <1>3, <1>10 DEF Leaving
  <2> HIDE DEF t, k
  <2>5. StayingAt(t, k, u)'
    BY <1>2, <1>3, <1>4, <1>5, <1>7, <1>10, <2>1, <2>2, <2>3, <2>4 DEF StayingAt
  <2> QED
    BY <1>2, <1>3, <1>10, <2>5 DEF OnTrack, t, k
<1>11. CASE wanted[k] # Null /\ r.op = "extra"
  <2>1. PICK w \in Url : StayingAt(t, k, w)
    BY <1>11, WantedOps
  <2>2. u = r.url /\ w # u
    BY <1>2, <1>11, <2>1 DEF StayingAt, Leaving
  <2>3. store'[place[t]][u] = NoCopy
    BY <1>4, <1>11 DEF Foreign, Deletes
  <2>4. /\ \A v : v # u => (Leaving(t, v) => Leaving(t, v)')
        /\ \A v : Leaving(t, v)' => Leaving(t, v)
    BY <1>3, <2>2 DEF Leaving
  <2>5. UNCHANGED rows
    BY <1>1, <1>11 DEF Sent
  <2> HIDE DEF t, k
  <2>6. StayingAt(t, k, w)'
    BY <1>3, <1>4, <1>5, <1>11, <2>1, <2>2, <2>3, <2>4, <2>5 DEF StayingAt
  <2> QED
    BY <1>3, <1>11, <2>6 DEF OnTrack, t, k
<1>12. wanted[k] # Null => r.op \in {"create", "update", "extra"}
  BY <1>3, WantedOps DEF Writes, Deletes
<1> QED
  BY <1>8, <1>9, <1>10, <1>11, <1>12


LEMMA TrackedStep ==
    ASSUME TypeOK, Orderly, Tracked, NEW r \in work, Local(r) \/ SendRequest(r)
    PROVE  Tracked'
<1>1. PICK u : Concerns(r, u)
  BY LocalConcerns, SendConcerns, SentOrNot
<1>2. pc = "work" /\ UNCHANGED <<pc, place, wanted, listing, conflicts, disturbed>>
  BY DEF Local, SendRequest, Due, plan, lists
<1>3. ASSUME ~disturbed, ~conflicts, NEW t \in Targets, NEW k \in Keys, place[t] # Null
      PROVE  OnTrack(t, k)'
  <2>1. OnTrack(t, k)
    BY <1>2, <1>3 DEF Tracked, RunOnTrack
  <2>2. CASE t = r.at /\ k = r.key
    BY <2>1, <2>2, LocalOnTrack, SendOnTrack
  <2>3. CASE t # r.at \/ k # r.key
    BY <1>1, <1>2, <1>3, <2>1, <2>3, OthersOnTrack
  <2> QED
    BY <2>2, <2>3
<1> QED
  BY <1>2, <1>3 DEF Tracked, ListHolds, RunOnTrack

LEMMA TrackedStays == TypeOK /\ Orderly /\ Tracked /\ [Next]_vars => Tracked'
<1> SUFFICES ASSUME TypeOK, Orderly, Tracked, [Next]_vars PROVE Tracked'
  OBVIOUS
<1>1. CASE FetchSources
  BY <1>1, TrackedForgotten DEF FetchSources
<1>2. CASE StartBirthday \/ ListSeries \/ Judge
  BY <1>2, TrackedStart, TrackedList, TrackedJudge
<1>3. ASSUME NEW r \in work, Local(r) \/ SendRequest(r)
      PROVE  Tracked'
  BY <1>3, TrackedStep
<1>4. CASE \E r \in work : Conflict(r)
  BY <1>4 DEF Conflict, Due, Tracked, ListHolds, RunOnTrack
<1>5. CASE FinishBirthday \/ RunDies \/ \E r \in work : PatchRefused(r)
  BY <1>5, TrackedForgotten DEF FinishBirthday, RunDies, PatchRefused, ForgetRun
<1>6. CASE AdminStep \/ UserStep
  <2>1. Interfere /\ UNCHANGED pc
    BY <1>6, RowsCleared
       DEF AdminStep, UserStep, UpdateBirthdaySync, DeleteCalendar, RepointCalendar,
           HideFeed, ConnectAccount, Disconnect, EditSeries, RemoveSeries, ImportSeries,
           Touch, run
  <2> QED
    BY <2>1, TrackedForgotten DEF Interfere
<1>7. CASE RefreshToken \/ UNCHANGED vars
  <2>1. /\ UNCHANGED <<rows, store, disturbed>>
        /\ UNCHANGED <<pc, place, old, wanted, toList, listing, work, conflicts>>
    BY <1>7 DEF RefreshToken, vars, run, plan, lists, world
  <2> QED
    BY <2>1 DEF Tracked, ListHolds, RunOnTrack, OnTrack, Going, Coming, StayingAt, Asked,
                Leaving, Foreign
<1> QED
  BY <1>1, <1>2, <1>3, <1>4, <1>5, <1>6, <1>7 DEF Next, RunStep

LEMMA StaysTracked == Spec => [](TypeOK /\ Orderly /\ Doubts /\ Tracked)
<1>1. Init => Tracked
  BY DEF Init, Tracked, ListHolds, RunOnTrack
<1> QED
  BY <1>1, TrackedStays, StaysDoubted, PTL DEF Spec

\* A run that ends without a conflict, and that nobody interfered with, leaves
\* at each of its targets exactly one series and one row of every wanted person
\* and none of any other, whatever rows and series it found; what a series says
\* is as wanted unless it is in doubt.
THEOREM RunsReconcile == Spec => []BirthdayRunReconciles
<1>1. TypeOK /\ Doubts /\ Tracked => BirthdayRunReconciles
  <2> SUFFICES ASSUME TypeOK, Doubts, Tracked, CleanEnd, NEW t \in Targets, NEW k \in Keys,
                      place[t] # Null
               PROVE  ReconciledAt(t, k)
    BY DEF BirthdayRunReconciles
  <2>1. OnTrack(t, k) /\ work = {}
    BY DEF CleanEnd, Tracked, RunOnTrack
  <2>2. Asked(t, k) = {} /\ \A u : ~Leaving(t, u)
    BY <2>1 DEF Asked, Leaving
  <2>3. CASE wanted[k] = Null
    BY <2>1, <2>2, <2>3 DEF OnTrack, Going, ReconciledAt, Held
  <2>4. CASE wanted[k] # Null
    <3>1. PICK u \in Url : StayingAt(t, k, u)
      BY <2>1, <2>2, <2>4 DEF OnTrack, Coming
    <3>2. /\ u.key = k /\ store[place[t]][u] # NoCopy
          /\ \A v \in Url \ {u} : v.key = k => store[place[t]][v] = NoCopy
          /\ rows[t][k] # Null /\ rows[t][k].place = place[t]
          /\ rows[t][k].url = u /\ rows[t][k].val = wanted[k]
      BY <2>2, <3>1 DEF StayingAt
    <3>3. store[place[t]][u].val = wanted[k] \/ <<place[t], u>> \in doubt
      BY <2>2, <3>2, PlaceAtHome DEF TypeOK, Doubts, RowsTell, Told, Doubtful
    <3> QED
      BY <2>4, <3>2, <3>3 DEF ReconciledAt, Held
  <2> QED
    BY <2>3, <2>4
<1> QED
  BY <1>1, StaysTracked, PTL
=============================================================================
