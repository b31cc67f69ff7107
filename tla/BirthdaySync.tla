----------------------------- MODULE BirthdaySync -----------------------------
(***************************************************************************)
(* The birthday sync (app/birthday_sync.py): one yearly series per person  *)
(* of the selected contact sources, in the Google calendar of the write    *)
(* token, in a CalDAV calendar, or in both.  A run asks the data-loss      *)
(* guard, lists its own series at every target, asks again, and reconciles *)
(* Google first, then CalDAV; what fails at one target ends the run.       *)
(*                                                                         *)
(* A place is a Google account or a CalDAV collection, and holds series at *)
(* resources as CalDav describes them.  Google gives a new event a name of *)
(* its own, knows no ETags and takes no precondition.                      *)
(*                                                                         *)
(* A series' content stands for title, day and month: the year of a stored *)
(* start is never compared.  Everybody's next birthday lies in the window  *)
(* that is synced and listed, so absence of a person is always judged.     *)
(***************************************************************************)
EXTENDS CalDav, SyncGuard

CONSTANTS
    Feeds,       \* contact sources
    KeyFeed,     \* the source of each person
    Accounts,    \* Google accounts
    Calendars,   \* CalDAV sources
    Cols,        \* calendar collections
    Null,
    MaxTroubles, \* bound on user edits, failures and admin requests together
    CanRepoint,  \* may a CalDAV source's URL be changed?
    AdminMidRun  \* may an admin request arrive while a run is under way?

Targets == {"google", "caldav"}
Places == Accounts \cup Cols

ASSUME BirthdayAssumption ==
    /\ KeyFeed \in [Keys -> Feeds]
    /\ Accounts \cap Cols = {}
    /\ Null \notin Vals \cup Places \cup Calendars
    /\ MaxTroubles \in Nat
    /\ CanRepoint \in BOOLEAN /\ AdminMidRun \in BOOLEAN

VARIABLES
    enabled,    \* birthday_sync_enabled
    googleOn,   \* birthday_sync_google
    target,     \* birthday_sync_caldav_target_id
    sourceIds,  \* birthday_sync_source_ids
    token,      \* account of the write token file, or Null
    coll,       \* calendar_url of each existing CalDAV source
    rows,       \* birthday_blocks of each target
    events,     \* content of each person's stored event, or Null
    store,      \* the series at each place
    edits,      \* number of user edits so far
    troubles,   \* user edits, failures and admin requests so far
    doubt,      \* resources that may differ from what a row says (history)
    pc,         \* what the run awaits
    results,    \* outcome per contact source
    place,      \* the run's targets: the place of each, or Null
    wanted,     \* content of each person's series, or Null
    ids,        \* the sources the run was selected with
    old,        \* the rows as read
    toList,     \* targets still to be listed
    listing,    \* the series listed at each target
    seenEdits,  \* user edits when the run began
    work,       \* requests still to be made
    conflicts,  \* a precondition failed in this run
    disturbed   \* user or admin interfered since the run began

settings == <<enabled, googleOn, target, sourceIds, coll>>
world == <<store, edits, doubt>>
plan == <<results, place, wanted, ids, old, seenEdits>>
lists == <<toList, listing>>
run == <<pc, plan, lists, work, conflicts>>
vars == <<settings, token, rows, events, world, troubles, run, disturbed>>

Row == [place : Places, url : Url, etag : Etag, val : Vals]
ASSUME NullIsNoRecord == Null \notin Row

Request == [op : {"create", "update", "refresh", "delete", "discard", "orphan", "extra"},
            at : Targets, key : Keys, url : Url, etag : Etag, val : Vals]

NoRows == [k \in Keys |-> Null]
Mapped(f) == {k \in Keys : f[k] # Null}
NoTargets == [t \in Targets |-> Null]
NoListing == [t \in Targets |-> EmptyCollection]

SettingsOK ==
    /\ enabled \in BOOLEAN /\ googleOn \in BOOLEAN
    /\ target \in Calendars \cup {Null} /\ sourceIds \subseteq Feeds
    /\ token \in Accounts \cup {Null}
    /\ coll \in [Calendars -> Cols \cup {Null}]
    /\ events \in [Keys -> Vals \cup {Null}]

RowsOK ==
    /\ rows \in [Targets -> [Keys -> Row \cup {Null}]]
    /\ \A k \in Keys :
          /\ rows["google"][k] # Null => rows["google"][k].place \in Accounts
          /\ rows["caldav"][k] # Null => rows["caldav"][k].place \in Cols

WorldOK ==
    /\ store \in [Places -> Collection]
    /\ edits \in 0..MaxEdits /\ troubles \in 0..MaxTroubles
    /\ doubt \subseteq Places \X Url

RunOK ==
    /\ pc \in {"idle", "stages", "list", "work"}
    /\ results \in [Feeds -> Outcome]
    /\ wanted \in [Keys -> Vals \cup {Null}] /\ ids \subseteq Feeds
    /\ old \in [Targets -> [Keys -> Row \cup {Null}]]
    /\ seenEdits \in 0..MaxEdits
    /\ conflicts \in BOOLEAN /\ disturbed \in BOOLEAN

PlaceOK ==
    /\ place["google"] \in Accounts \cup {Null} /\ place["caldav"] \in Cols \cup {Null}
    /\ toList \subseteq Targets /\ \A t \in toList : place[t] # Null
    /\ listing \in [Targets -> Collection]

WorkOK ==
    /\ work \subseteq Request
    /\ pc # "work" => work = {}
    /\ \A r \in work : place[r.at] # Null

TypeOK == SettingsOK /\ RowsOK /\ WorldOK /\ RunOK /\ PlaceOK /\ WorkOK

ForgetRun ==
    /\ pc' = "idle" /\ results' = [f \in Feeds |-> "absent"]
    /\ place' = NoTargets /\ wanted' = [k \in Keys |-> Null] /\ ids' = {}
    /\ old' = [t \in Targets |-> NoRows] /\ seenEdits' = 0
    /\ toList' = {} /\ listing' = NoListing /\ work' = {} /\ conflicts' = FALSE
    /\ disturbed' = FALSE

Init ==
    /\ enabled \in BOOLEAN /\ googleOn \in BOOLEAN
    /\ target \in Calendars \cup {Null} /\ sourceIds \in SUBSET Feeds
    /\ token \in Accounts \cup {Null}
    /\ coll \in [Calendars -> Cols]
    /\ rows = [t \in Targets |-> NoRows]
    /\ events = [k \in Keys |-> Null]
    /\ store = [p \in Places |-> EmptyCollection]
    /\ edits = 0 /\ troubles = 0 /\ doubt = {}
    /\ pc = "idle" /\ results = [f \in Feeds |-> "absent"]
    /\ place = NoTargets /\ wanted = [k \in Keys |-> Null] /\ ids = {}
    /\ old = [t \in Targets |-> NoRows] /\ seenEdits = 0
    /\ toList = {} /\ listing = NoListing /\ work = {} /\ conflicts = FALSE
    /\ disturbed = FALSE

-----------------------------------------------------------------------------
\* The sources are fetched (app/sync.py); busy sync and mirror come next.  A
\* failed fetch leaves the events alone; those of a source that is disabled or
\* enabled meanwhile disappear or come back.
FetchSources ==
    /\ pc = "idle" /\ pc' = "stages"
    /\ results' \in [Feeds -> Outcome]
    /\ events' \in [Keys -> Vals \cup {Null}]
    /\ \A k \in Keys :
          results'[KeyFeed[k]] = "error" /\ events[k] # Null => events'[k] = events[k]
    /\ UNCHANGED <<settings, token, rows, world, troubles, place, wanted, ids,
                   old, seenEdits, lists, work, conflicts, disturbed>>

DesiredBirthdays == [k \in Keys |-> IF KeyFeed[k] \in sourceIds THEN events[k] ELSE Null]

AllMapped(m) == {p \in Targets \X Keys : m[p[1]][p[2]] # Null}

\* _build_targets.
GoogleAccount == IF googleOn THEN token ELSE Null
CaldavCollection == IF target = Null THEN Null ELSE coll[target]

StartBirthday ==
    /\ pc = "stages"
    /\ LET where == [t \in Targets |-> IF t = "google" THEN GoogleAccount
                                                       ELSE CaldavCollection]
           targets == {t \in Targets : where[t] # Null}
           verdict == SkipReason(sourceIds, results, Mapped(DesiredBirthdays),
                                 AllMapped(rows), {})
       IN  IF ~enabled \/ targets = {} \/ verdict # "run" THEN ForgetRun
           ELSE /\ pc' = "list" /\ place' = where /\ toList' = targets
                /\ wanted' = DesiredBirthdays /\ ids' = sourceIds /\ old' = rows
                /\ seenEdits' = edits /\ disturbed' = FALSE
                /\ UNCHANGED <<results, listing, work, conflicts>>
    /\ UNCHANGED <<settings, token, rows, events, world, troubles>>

First(targets) == IF "google" \in targets THEN "google" ELSE "caldav"

ListSeries ==
    /\ pc = "list" /\ toList # {}
    /\ LET t == First(toList)
       IN  /\ listing' = [listing EXCEPT ![t] = store[place[t]]]
           /\ toList' = toList \ {t}
    /\ UNCHANGED <<settings, token, rows, events, world, troubles, pc, plan,
                   work, conflicts, disturbed>>

-----------------------------------------------------------------------------
\* _Reconciler, for target t, with own[k] the listed series that counts for k.

Req(op, t, k, u, e, v) ==
    [op |-> op, at |-> t, key |-> k, url |-> u, etag |-> e, val |-> v]

\* Google has no ETags.
EtagOf(t, copy) == IF t = "google" THEN NoEtag ELSE copy

\* A row's address can be used at t: always at Google, by its URL at CalDAV.
MutOwnsAll(t, row) == TRUE
Owns(t, row) == t = "google" \/ row.place = place[t]

\* _differs, which ignores the year.
Differs(row, val) == row.val # val

SyncOne(t, k, u) ==
    LET row == old[t][k]
        val == wanted[k]
        etag == EtagOf(t, listing[t][u])
    IN  IF u = Null THEN {Req("create", t, k, ResourceUrl(k), NoEtag, val)}
        ELSE IF row = Null \/ Differs(row, val) THEN {Req("update", t, k, u, etag, val)}
        ELSE IF row.url # u \/ row.place # place[t] \/ row.etag # etag
             THEN {Req("refresh", t, k, u, etag, val)}
             ELSE {}

\* _remove_mapped and _handle_unmapped.
MutRemoveOnlyListed(t, k, u) ==
    IF u = Null THEN {}
    ELSE {Req(IF old[t][k] # Null THEN "delete" ELSE "orphan", t, k, u,
              EtagOf(t, listing[t][u]), listing[t][u].val)}
RemoveOne(t, k, u) ==
    LET row == old[t][k]
    IN  IF row # Null /\ u # Null
        THEN {Req("delete", t, k, u, EtagOf(t, listing[t][u]), row.val)}
        ELSE IF row # Null
        THEN {Req(IF Owns(t, row) THEN "delete" ELSE "discard", t, k, row.url, row.etag,
                  row.val)}
        ELSE IF u # Null
        THEN {Req("orphan", t, k, u, EtagOf(t, listing[t][u]), listing[t][u].val)}
        ELSE {}

\* The listed series that counts: any one of a person's.
MutMappedSeries(t) ==
    {own \in [Keys -> Held(listing[t]) \cup {Null}] :
        \A k \in Keys :
            LET row == old[t][k]
            IN  IF row # Null /\ row.url \in Held(listing[t])
                THEN own[k] = row.url ELSE own[k] = Null}
Indexes(t) ==
    {own \in [Keys -> Held(listing[t]) \cup {Null}] :
        \A k \in Keys :
            IF \E u \in Held(listing[t]) : u.key = k
            THEN own[k] # Null /\ own[k].key = k
            ELSE own[k] = Null}

ReconcileTarget(t, own) ==
    (UNION {IF wanted[k] # Null THEN SyncOne(t, k, own[k]) ELSE RemoveOne(t, k, own[k]) :
                k \in Keys})
    \cup {Req("extra", t, u.key, u, EtagOf(t, listing[t][u]), listing[t][u].val) :
              u \in {x \in Held(listing[t]) : x # own[x.key]}}

UsedTargets == {t \in Targets : place[t] # Null}

\* The guard's second verdict, and then everything the reconcilers will do.
Judge ==
    /\ pc = "list" /\ toList = {}
    /\ LET remote == {p \in Targets \X Url : listing[p[1]][p[2]] # NoCopy}
           verdict == SkipReason(ids, results, Mapped(wanted), AllMapped(old), remote)
       IN  IF verdict # "run" THEN ForgetRun
           ELSE /\ pc' = "work"
                /\ \E g \in Indexes("google"), c \in Indexes("caldav") :
                      work' = UNION {ReconcileTarget(t, IF t = "google" THEN g ELSE c) :
                                        t \in UsedTargets}
                /\ UNCHANGED <<plan, lists, conflicts, disturbed>>
    /\ UNCHANGED <<settings, token, rows, events, world, troubles>>

Phase(op) == CASE op \in {"create", "update", "refresh"} -> 1
               [] op \in {"delete", "discard"}           -> 2
               [] op = "orphan"                          -> 3
               [] op = "extra"                           -> 4

Due(r) ==
    /\ pc = "work" /\ r \in work
    /\ \A q \in work : /\ q.at # r.at => r.at = "google"
                       /\ q.at = r.at => Phase(r.op) <= Phase(q.op)

\* The series of k known so far to the mapping of t, if elsewhere than at p.
LeftBehind(t, k, p) ==
    IF rows[t][k] = Null \/ rows[t][k].place = p THEN {}
    ELSE {<<rows[t][k].place, u>> : u \in {x \in Url : x.key = k}}

StoreRow(r, u, etag) ==
    rows' = [rows EXCEPT ![r.at][r.key] =
                [place |-> place[r.at], url |-> u, etag |-> etag, val |-> r.val]]
DropRow(r) == rows' = [rows EXCEPT ![r.at][r.key] = Null]

\* What needs no request: _remember as reported, and a discarded row.
Local(r) ==
    /\ Due(r) /\ r.op \in {"refresh", "discard"}
    /\ IF r.op = "refresh" THEN StoreRow(r, r.url, r.etag) ELSE DropRow(r)
    /\ doubt' = doubt \cup LeftBehind(r.at, r.key, place[r.at])
    /\ work' = work \ {r}
    /\ UNCHANGED <<settings, token, events, store, edits, troubles, pc, plan, lists,
                   conflicts, disturbed>>

Writes == {"create", "update"}
Deletes == {"delete", "orphan", "extra"}

\* Where a request takes effect; an event Google creates gets an unused name.
Lands(r) ==
    IF r.at = "google" /\ r.op = "create"
    THEN {u \in Url : /\ u.key = r.key /\ store[place["google"]][u] = NoCopy
                      /\ \A m \in {rows, old} : m["google"][r.key] # Null =>
                                                   m["google"][r.key].url # u}
    ELSE {r.url}

\* A resource of an account other than the one a Google row was written for.
Foreign(r) == r.at = "google" /\ r.op = "delete" /\ r.url \notin Held(listing["google"])
              /\ old["google"][r.key].place # place["google"]

Accepts(r, u) ==
    LET there == store[place[r.at]]
    IN  /\ ~Foreign(r)
        /\ IF r.op = "create" THEN CreateAccepted(there, u)
           ELSE IF r.at = "google" THEN there[u] # NoCopy
           ELSE IfMatch(there, u, r.etag)

After(r) == IF r.op \in Writes THEN Written(r.val) ELSE NoCopy
Done(r, u) == [store EXCEPT ![place[r.at]][u] = After(r)]

\* A DELETE that finds nothing succeeds; a PATCH of a deleted event may.
NoEffect(r, u) ==
    /\ Foreign(r) \/ store[place[r.at]][u] = NoCopy
    /\ r.op \in Deletes \/ (r.at = "google" /\ r.op = "update")

\* A request, and the row stored after its response.
SendRequest(r) ==
    /\ Due(r) /\ r.op \in Writes \cup Deletes
    /\ \E u \in Lands(r) :
          /\ \/ Accepts(r, u) /\ store' = Done(r, u)
             \/ NoEffect(r, u) /\ UNCHANGED store
          /\ doubt' = (IF Accepts(r, u) THEN doubt \ {<<place[r.at], u>>} ELSE doubt)
                         \cup LeftBehind(r.at, r.key, place[r.at])
          /\ IF r.op \in Writes THEN StoreRow(r, u, EtagOf(r.at, After(r)))
             ELSE IF r.op = "delete" THEN DropRow(r)
             ELSE UNCHANGED rows
    /\ work' = work \ {r}
    /\ UNCHANGED <<settings, token, events, edits, troubles, pc, plan, lists,
                   conflicts, disturbed>>

\* A precondition failed: the row stays, the rest of the run goes on.
Conflict(r) ==
    /\ Due(r) /\ r.at = "caldav" /\ r.op \in Writes \cup Deletes
    /\ ~Accepts(r, r.url) /\ ~NoEffect(r, r.url)
    /\ conflicts' = TRUE /\ work' = work \ {r}
    /\ UNCHANGED <<settings, token, rows, events, world, troubles, pc, plan,
                   lists, disturbed>>

\* Duplicates a run that ends now leaves behind.
LeftOver == {<<place[r.at], r.url>> : r \in {q \in work : q.op = "extra"}}

\* Google knows no such event any more: the run ends here.
PatchRefused(r) ==
    /\ Due(r) /\ r.at = "google" /\ r.op = "update"
    /\ store[place["google"]][r.url] = NoCopy
    /\ ForgetRun /\ doubt' = doubt \cup LeftOver
    /\ UNCHANGED <<settings, token, rows, events, store, edits, troubles>>

FinishBirthday ==
    /\ pc = "work" /\ work = {}
    /\ ForgetRun
    /\ UNCHANGED <<settings, token, rows, events, world, troubles>>

Trouble == troubles < MaxTroubles /\ troubles' = troubles + 1

\* A request fails, and the run with it, or the process dies; the request it
\* was at may have been carried out.
RunDies ==
    /\ pc # "idle" /\ Trouble
    /\ \/ UNCHANGED store /\ doubt' = doubt \cup LeftOver
       \/ \E r \in work : \E u \in Lands(r) :
             /\ Due(r) /\ r.op \in Writes \cup Deletes /\ Accepts(r, u)
             /\ store' = Done(r, u)
             /\ doubt' = doubt \cup {<<place[r.at], u>>} \cup LeftOver
    /\ ForgetRun
    /\ UNCHANGED <<settings, token, rows, events, edits>>

\* The token file is written anew with the tokens the run holds.
RefreshToken ==
    /\ pc \in {"list", "work"} /\ place["google"] # Null /\ token # place["google"]
    /\ token' = place["google"]
    /\ UNCHANGED <<settings, rows, events, world, troubles, run, disturbed>>

-----------------------------------------------------------------------------
\* Admin requests, between two awaits of a run, and the user's changes.

AdminTurn ==
    /\ pc = "idle" \/ (AdminMidRun /\ ~(pc = "list" /\ toList = {}))
    /\ Trouble
Interfere == disturbed' = (pc # "idle")

ClearRows(t) ==
    /\ rows' = [rows EXCEPT ![t] = NoRows]
    /\ doubt' = doubt \cup UNION {LeftBehind(t, k, Null) : k \in Keys}

UpdateBirthdaySync(on, g, t, new) ==
    /\ AdminTurn /\ (t # Null => coll[t] # Null)
    /\ enabled' = on /\ googleOn' = g /\ target' = t /\ sourceIds' = new
    /\ IF t = target THEN UNCHANGED <<rows, doubt>> ELSE ClearRows("caldav")
    /\ Interfere
    /\ UNCHANGED <<coll, token, events, store, edits, run>>

DeleteCalendar(s) ==
    /\ AdminTurn /\ coll[s] # Null
    /\ coll' = [coll EXCEPT ![s] = Null]
    /\ IF target = s
       THEN target' = Null /\ ClearRows("caldav")
       ELSE UNCHANGED <<target, rows, doubt>>
    /\ Interfere
    /\ UNCHANGED <<enabled, googleOn, sourceIds, token, events, store, edits, run>>

RepointCalendar(s, c) ==
    /\ CanRepoint /\ AdminTurn /\ coll[s] \notin {c, Null}
    /\ coll' = [coll EXCEPT ![s] = c] /\ Interfere
    /\ UNCHANGED <<enabled, googleOn, target, sourceIds, token, rows, events,
                   world, run>>

\* A source is disabled or deleted: its events are gone from every view.
HideFeed(f, deleted) ==
    /\ AdminTurn
    /\ events' = [k \in Keys |-> IF KeyFeed[k] = f THEN Null ELSE events[k]]
    /\ sourceIds' = IF deleted THEN sourceIds \ {f} ELSE sourceIds
    /\ Interfere
    /\ UNCHANGED <<enabled, googleOn, target, coll, token, rows, world, run>>

ConnectAccount(a) ==
    /\ AdminTurn
    /\ token' = a /\ Interfere
    /\ UNCHANGED <<settings, rows, events, world, run>>

Disconnect ==
    /\ AdminTurn
    /\ token' = Null /\ ClearRows("google") /\ Interfere
    /\ UNCHANGED <<settings, events, store, edits, run>>

Touch(p, u, copy) ==
    /\ Trouble /\ edits < MaxEdits /\ edits' = edits + 1
    /\ store' = [store EXCEPT ![p][u] = copy] /\ doubt' = doubt \cup {<<p, u>>}
    /\ Interfere
    /\ UNCHANGED <<settings, token, rows, events, run>>

EditSeries(p, u) ==
    store[p][u] # NoCopy /\ Touch(p, u, [store[p][u] EXCEPT !.by = edits + 1])

RemoveSeries(p, u) == store[p][u] # NoCopy /\ Touch(p, u, NoCopy)

\* A restored backup: a second object with the same marker.
ImportSeries(p, u, v) ==
    /\ p \in Cols /\ store[p][u] # NoCopy /\ v.key = u.key /\ store[p][v] = NoCopy
    /\ Touch(p, v, [store[p][u] EXCEPT !.by = edits + 1])

-----------------------------------------------------------------------------
RunStep ==
    \/ FetchSources \/ StartBirthday \/ ListSeries \/ Judge \/ FinishBirthday
    \/ \E r \in work : Local(r) \/ SendRequest(r) \/ Conflict(r) \/ PatchRefused(r)

AdminStep ==
    \/ \E on, g \in BOOLEAN, t \in Calendars \cup {Null}, new \in SUBSET Feeds :
          UpdateBirthdaySync(on, g, t, new)
    \/ \E s \in Calendars : DeleteCalendar(s) \/ \E c \in Cols : RepointCalendar(s, c)
    \/ \E f \in Feeds, deleted \in BOOLEAN : HideFeed(f, deleted)
    \/ \E a \in Accounts : ConnectAccount(a)
    \/ Disconnect

UserStep ==
    \E p \in Places, u \in Url :
        EditSeries(p, u) \/ RemoveSeries(p, u) \/ \E v \in Url : ImportSeries(p, u, v)

Next == RunStep \/ RunDies \/ RefreshToken \/ AdminStep \/ UserStep

Spec == Init /\ [][Next]_vars

-----------------------------------------------------------------------------
\* A run that ends without a conflict, and that nobody interfered with, leaves
\* at each of its targets exactly one series and one row of every wanted person
\* and none of any other, whatever rows and series it found: rows of another
\* account or collection, lost responses, crashes, duplicates.  What a series
\* says is excused where it is in doubt: the user or a lost request wrote last,
\* a run ended before it removed this duplicate, or the person's row has been
\* that of another calendar since, and an unchanged row never rewrites its
\* series (birthday_sync.py: _Reconciler).
CleanEnd == pc = "work" /\ work = {} /\ ~conflicts /\ ~disturbed

ReconciledAt(t, k) ==
    LET series == {u \in Held(store[place[t]]) : u.key = k}
        row == rows[t][k]
    IN  IF wanted[k] = Null
        THEN series = {} /\ row = Null
        ELSE \E u \in series :
                /\ series = {u} /\ row # Null
                /\ row.place = place[t] /\ row.url = u /\ row.val = wanted[k]
                /\ \/ store[place[t]][u].val = wanted[k]
                   \/ <<place[t], u>> \in doubt

BirthdayRunReconciles ==
    CleanEnd => \A t \in Targets, k \in Keys : place[t] # Null => ReconciledAt(t, k)

\* The add-on changes a place in this step.
AddOnWrites(p, u) == store'[p][u] # store[p][u] /\ edits' = edits

\* The add-on never writes a second series of a person into a calendar, not
\* after a crash, a lost response, an account switched and switched back, or a
\* mapping that was cleared, unless the user put one there during the run
\* ("exactly ONE all-day entry per person").
OneSeriesPerPerson ==
    [][\A p \in Places, u \in Url :
          AddOnWrites(p, u) /\ store[p][u] = NoCopy
             => \A v \in Url \ {u} : v.key = u.key /\ store[p][v] # NoCopy
                                        => store[p][v].by > seenEdits]_vars

\* Series are deleted only in a run in which no selected source failed, and
\* without anything wanted only when every selected source was read without
\* error in that run (sync_guard.py), even when a target's mapping was lost.
BirthdaysGuarded ==
    [][\A p \in Places, u \in Url :
          AddOnWrites(p, u) /\ store'[p][u] = NoCopy
             => /\ \A s \in ids : results[s] # "error"
                /\ \/ Mapped(wanted) # {}
                   \/ ids # {} /\ \A s \in ids : results[s] = "ok"]_vars

\* A row of another collection never drives a deletion (update_birthday_sync:
\* resource URLs that "point into the old collection ... must never drive a
\* delete in the new one"): what goes at CalDAV was listed there, or its row is
\* of there, also when the source's URL was changed and the mapping kept.
DeletesAddressOwn ==
    [][\A r \in work :
          SendRequest(r) /\ r.op = "delete" /\ r.at = "caldav"
             => \/ r.url \in Held(listing["caldav"])
                \/ old["caldav"][r.key].place = place["caldav"]]_vars
=============================================================================
