------------------------------ MODULE MirrorSync ------------------------------
(***************************************************************************)
(* The one-way mirror (app/mirror_sync.py): appointments of the selected   *)
(* source calendars are copied into one CalDAV target calendar.  A run     *)
(*                                                                         *)
(*   fetches the source calendars (app/sync.py),                           *)
(*   drains the queue of calendars whose copies are to be removed,         *)
(*   asks the data-loss guard, lists the copies in the target, asks again, *)
(*   and reconciles: one request per appointment, mapping row or copy.     *)
(*                                                                         *)
(* Everything runs on one asyncio loop, so an admin request (app/admin.py) *)
(* can interleave with a run only where the run awaits a response.  Runs   *)
(* themselves are serialized by SYNC_LOCK.  The user may change copies in  *)
(* his calendar, and the process may die, at any moment.                   *)
(***************************************************************************)
EXTENDS CalDav, SyncGuard, Integers

CONSTANTS
    Feeds,        \* sources whose appointments can be mirrored
    Calendars,    \* CalDAV sources that can be the target
    Cols,         \* calendar collections on the server
    KeyFeed,      \* the source an appointment comes from
    MaxAttempts,  \* MAX_CLEANUP_ATTEMPTS
    MaxFaults,    \* bound on crashes and, without LongOutage, failed requests
    Null,
    NoUrl,        \* the calendar_url of a source whose config is incomplete
    AdminMidRun,  \* may admin requests arrive while a run is under way?
    SilentPut,    \* may the server answer a PUT without an ETag?
    CanMove,      \* may the user move a copy out of the listed window?
    CanExpire,    \* may appointments fall behind the window as days pass?
    CanRepoint,   \* may a calendar source's URL be changed?
    LongOutage    \* may requests fail again and again, without a bound?

ASSUME MirrorAssumption ==
    /\ KeyFeed \in [Keys -> Feeds]
    /\ MaxAttempts \in Nat \ {0}
    /\ MaxFaults \in Nat
    /\ Null \notin Feeds \cup Calendars \cup Cols \cup Vals
    /\ NoUrl \notin Cols \cup {Null}
    /\ {AdminMidRun, SilentPut, CanMove, CanExpire, CanRepoint, LongOutage}
           \subseteq BOOLEAN

VARIABLES
    \* settings and tables in the database
    enabled,    \* mirror_sync_enabled
    target,     \* the target's source id, or Null
    sourceIds,  \* the selected sources
    queue,      \* mirror_sync_cleanup: attempts so far of each pending order
    failed,     \* mirror_sync_cleanup: an order was given up on
    mapping,    \* mirror_events: the row of each key, or Null
    feedOn,     \* whether each feed is enabled, disabled or deleted
    events,     \* events table: content of each appointment, or Null
    coll,       \* calendar_url of each existing CalDAV source, else Null
    status,     \* mirror_sync_status
    \* the world
    cal,        \* what each collection holds of the add-on's copies
    past,       \* appointments that started before today
    edits,      \* number of user edits so far
    faults,     \* crashes so far and, without LongOutage, failed requests
    abandoned,  \* collections whose copies nobody can or will remove: given up
                \* on, or their source deleted or repointed (no code state)
    \* the run under way
    pc,         \* what the run awaits
    fetching,   \* feeds still to be fetched
    results,    \* outcome per feed
    snap,       \* what the run read: see NoSnap
    orders,     \* drain: the queue as read, without the entries visited
    kept,       \* drain: entries to be retried, as they will be stored
    gaveUp,     \* drain: the `failed' it will store
    lost,       \* drain: collections given up on
    purging,    \* drain: the calendar being emptied
    doomed,     \* drain: its listed copies still to be deleted
    missed,     \* drain: a copy refused to go
    work,       \* reconciler: requests still to be made
    sent,       \* reconciler: the request awaiting its response
    conflicts,  \* reconciler: a precondition failed in this run
    disturbed   \* user or admin interfered since the run took its snapshot

settings == <<enabled, target, sourceIds>>
orderbook == <<queue, failed, abandoned>>
sources == <<feedOn, events, coll>>
world == <<cal, past, edits>>
fetchState == <<fetching, results>>
drainState == <<orders, kept, gaveUp, lost, purging, doomed, missed>>
workState == <<work, sent, conflicts>>
runState == <<pc, fetchState, snap, drainState, workState>>
vars == <<settings, orderbook, sources, mapping, status, world, faults,
          runState, disturbed>>

-----------------------------------------------------------------------------
\* A mapping row: the URL the copy was written to (collection and name), its
\* last known ETag and the content it was written from.
Row == [col : Cols, url : Url, etag : Etag, val : Vals]

Ops == {"create", "update", "refresh", "delete", "discard", "orphan", "extra"}

\* One step of the reconciler, as decided from the snapshot and the listing.
Request == [op : Ops, key : Keys, url : Url, etag : Etag, val : Vals]

\* The reconciler goes through the wanted appointments, then the mapping
\* rows nobody wants, then orphaned copies, then duplicates.
Phase(op) == CASE op \in {"create", "update", "refresh"} -> 1
               [] op \in {"delete", "discard"}           -> 2
               [] op = "orphan"                          -> 3
               [] op = "extra"                           -> 4

NoSnap == [drainOn |-> FALSE, drainTarget |-> Null, src |-> Null, col |-> Null,
           ids |-> {}, wanted |-> [k \in Keys |-> Null],
           rows |-> [k \in Keys |-> Null], seenEdits |-> 0]

Snapshot == [drainOn : BOOLEAN, drainTarget : Calendars \cup {Null},
             src : Calendars \cup {Null}, col : Cols \cup {Null},
             ids : SUBSET Feeds, wanted : [Keys -> Vals \cup {Null}],
             rows : [Keys -> Row \cup {Null}], seenEdits : 0..MaxEdits]

\* The calendar being emptied: the source of the order, and its collection.
Purged == [src : Calendars, col : Cols]

NotQueued == -1
Attempts == {NotQueued} \cup 0..MaxAttempts - 1

Pending(q) == {s \in Calendars : q[s] # NotQueued}
NoOrders == [s \in Calendars |-> NotQueued]

Exists(s) == coll[s] # Null

\* _usable_caldav_source: it exists and its config is complete.
Usable(s) == coll[s] \in Cols

NoRows == [k \in Keys |-> Null]
Mapped(rows) == {k \in Keys : rows[k] # Null}

Doomed == [url : Url, etag : Copy]
Sent == [req : Request, reply : {"done", "conflict", "error"}, etag : Etag]
ASSUME NullIsNoRecord == Null \notin Purged \cup Row \cup Sent

StoredOK ==
    /\ enabled \in BOOLEAN
    /\ target \in Calendars \cup {Null}
    /\ sourceIds \subseteq Feeds
    /\ queue \in [Calendars -> Attempts]
    /\ failed \in BOOLEAN
    /\ mapping \in [Keys -> Row \cup {Null}]
    /\ feedOn \in [Feeds -> {"on", "off", "gone"}]
    /\ events \in [Keys -> Vals \cup {Null}]
    /\ coll \in [Calendars -> Cols \cup {NoUrl, Null}]
    /\ status \in {"never", "ok", "conflict", "error", "skipped"}

WorldOK ==
    /\ cal \in [Cols -> Collection]
    /\ past \subseteq Keys
    /\ edits \in 0..MaxEdits
    /\ faults \in 0..MaxFaults
    /\ abandoned \subseteq Cols

RunOK ==
    /\ pc \in {"idle", "fetch", "drain", "purge", "list", "work"}
    /\ fetching \subseteq Feeds
    /\ results \in [Feeds -> Outcome]
    /\ snap \in Snapshot
    /\ disturbed \in BOOLEAN
    /\ pc \in {"list", "work"} => snap.src # Null
    /\ snap.src # Null => snap.col # Null

DrainOK ==
    /\ orders \in [Calendars -> Attempts]
    /\ kept \in [Calendars -> Attempts]
    /\ gaveUp \in BOOLEAN
    /\ lost \subseteq Cols
    /\ purging \in Purged \cup {Null}
    /\ pc = "purge" => purging # Null
    /\ doomed \subseteq Doomed
    /\ missed \in BOOLEAN

WorkOK ==
    /\ work \subseteq Request
    /\ sent \in Sent \cup {Null}
    /\ conflicts \in BOOLEAN

TypeOK == StoredOK /\ WorldOK /\ RunOK /\ DrainOK /\ WorkOK

\* The collection each CalDAV source names at first: one of its own.
Init ==
    /\ enabled = FALSE /\ target = Null /\ sourceIds = {}
    /\ queue = NoOrders /\ failed = FALSE
    /\ mapping = NoRows
    /\ feedOn = [f \in Feeds |-> "on"]
    /\ events = [k \in Keys |-> Null]
    /\ coll \in [Calendars -> Cols]
    /\ \A s, t \in Calendars : s # t => coll[s] # coll[t]
    /\ status = "never"
    /\ cal = [c \in Cols |-> EmptyCollection]
    /\ past = {} /\ edits = 0 /\ faults = 0 /\ abandoned = {}
    /\ pc = "idle"
    /\ fetching = {} /\ results = [f \in Feeds |-> "absent"]
    /\ snap = NoSnap
    /\ orders = NoOrders /\ kept = NoOrders /\ gaveUp = FALSE /\ lost = {}
    /\ purging = Null /\ doomed = {} /\ missed = FALSE
    /\ work = {} /\ sent = Null /\ conflicts = FALSE
    /\ disturbed = FALSE

\* The run's local variables when there is no run.
ForgetRun ==
    /\ fetching' = {} /\ results' = [f \in Feeds |-> "absent"]
    /\ snap' = NoSnap
    /\ orders' = NoOrders /\ kept' = NoOrders /\ gaveUp' = FALSE /\ lost' = {}
    /\ purging' = Null /\ doomed' = {} /\ missed' = FALSE
    /\ work' = {} /\ sent' = Null /\ conflicts' = FALSE

Fault == faults < MaxFaults /\ faults' = faults + 1

\* A request to the server fails, or its response is lost.
RequestFails == IF LongOutage THEN UNCHANGED faults ELSE Fault

-----------------------------------------------------------------------------
(***************************************************************************)
(* Fetching (app/sync.py).  Every enabled source is fetched on its own;    *)
(* its stored appointments become what the fetch returned, or stay as they *)
(* are and the source is reported as failed.                               *)
(***************************************************************************)
StartSync ==
    /\ pc = "idle"
    /\ pc' = "fetch"
    /\ fetching' = {f \in Feeds : feedOn[f] = "on"}
    /\ results' = [f \in Feeds |-> "absent"]
    /\ UNCHANGED <<settings, orderbook, sources, mapping, status, world, faults,
                   snap, drainState, workState, disturbed>>

FetchOk(f) ==
    /\ pc = "fetch" /\ f \in fetching
    /\ \E new \in [{k \in Keys : KeyFeed[k] = f} -> Vals \cup {Null}] :
          \* a source deleted meanwhile has no row the events could refer to
          /\ feedOn[f] = "gone" => \A k \in DOMAIN new : new[k] = Null
          /\ events' = [k \in Keys |-> IF KeyFeed[k] = f THEN new[k] ELSE events[k]]
    /\ results' = [results EXCEPT ![f] = "ok"]
    /\ fetching' = fetching \ {f}
    /\ UNCHANGED <<settings, orderbook, feedOn, coll, mapping, status, world,
                   faults, pc, snap, drainState, workState, disturbed>>

FetchFailed(f) ==
    /\ pc = "fetch" /\ f \in fetching
    /\ results' = [results EXCEPT ![f] = "error"]
    /\ fetching' = fetching \ {f}
    /\ UNCHANGED <<settings, orderbook, sources, mapping, status, world, faults,
                   pc, snap, drainState, workState, disturbed>>

-----------------------------------------------------------------------------
(***************************************************************************)
(* run_mirror_sync up to the listing.  `enabled' and the target are read   *)
(* first, the drain follows, and only then the rest of the snapshot.       *)
(***************************************************************************)
\* Appointments to be copied: stored, of a selected and enabled source,
\* starting inside the window.
DesiredEvents(ids) ==
    [k \in Keys |-> IF /\ KeyFeed[k] \in ids
                       /\ feedOn[KeyFeed[k]] = "on"
                       /\ k \notin past
                    THEN events[k] ELSE Null]

\* The guard that needs no network; the run ends here or awaits the listing.
\* `s' is the state of snap the decision starts from.
Plan(s) ==
    LET wanted == DesiredEvents(sourceIds)
        verdict == SkipReason(sourceIds, results, Mapped(wanted),
                              Mapped(mapping), {})
    IN  IF s.src = Null
        THEN /\ pc' = "idle" /\ ForgetRun /\ UNCHANGED <<status, disturbed>>
        ELSE IF verdict # "run"
        THEN /\ pc' = "idle" /\ ForgetRun /\ status' = "skipped"
             /\ UNCHANGED disturbed
        ELSE /\ pc' = "list"
             /\ snap' = [s EXCEPT !.ids = sourceIds, !.wanted = wanted,
                                  !.rows = mapping]
             /\ disturbed' = FALSE
             /\ orders' = NoOrders /\ kept' = NoOrders /\ gaveUp' = FALSE /\ lost' = {}
             /\ purging' = Null /\ doomed' = {} /\ missed' = FALSE
             /\ UNCHANGED <<fetchState, workState, status>>

\* No order is pending.  The queue is drained even when the mirror is off:
\* "that is exactly the stop cleanly case".
MutDrainOnlyWhenOn(s) == Pending(queue) = {} \/ s.src = Null
NothingToDrain(s) == Pending(queue) = {}

StartMirror ==
    /\ pc = "fetch" /\ fetching = {}
    /\ LET usable == enabled /\ target # Null /\ Usable(target)
           s == [NoSnap EXCEPT
                   !.drainOn = enabled, !.drainTarget = target,
                   !.src = IF usable THEN target ELSE Null,
                   !.col = IF usable THEN coll[target] ELSE Null]
       IN  IF NothingToDrain(s)
           THEN Plan(s)
           ELSE /\ pc' = "drain"
                /\ snap' = s
                /\ orders' = queue /\ kept' = NoOrders /\ gaveUp' = failed
                /\ UNCHANGED <<fetchState, lost, purging, doomed, missed, workState,
                               status, disturbed>>
    /\ UNCHANGED <<settings, orderbook, sources, mapping, world, faults>>

-----------------------------------------------------------------------------
(***************************************************************************)
(* _drain_cleanup_queue: the calendars that are no longer the target are   *)
(* emptied one after the other.  The queue is read once, at the start, and *)
(* what is left of it is stored once, at the end.                          *)
(***************************************************************************)
\* Switched away and back before the drain ran, and still on.
MutStaleEvenWhenOff(s) == s = snap.drainTarget
Stale(s) == snap.drainOn /\ s = snap.drainTarget

Visit(s) == pc = "drain" /\ s \in Pending(orders)

DropStale(s) ==
    /\ Visit(s) /\ Stale(s)
    /\ orders' = [orders EXCEPT ![s] = NotQueued]
    /\ UNCHANGED <<settings, orderbook, sources, mapping, status, world, faults,
                   pc, fetchState, snap, kept, gaveUp, lost, purging, doomed,
                   missed, workState, disturbed>>

DropUnusable(s) ==
    /\ Visit(s) /\ ~Stale(s) /\ ~Usable(s)
    /\ orders' = [orders EXCEPT ![s] = NotQueued]
    /\ gaveUp' = TRUE
    /\ UNCHANGED <<settings, orderbook, sources, mapping, status, world, faults,
                   pc, fetchState, snap, kept, lost, purging, doomed, missed,
                   workState, disturbed>>

\* The cleanup window (400 days either way) holds every copy, moved or past.
PurgeList(s) ==
    /\ Visit(s) /\ ~Stale(s) /\ Usable(s)
    /\ purging' = [src |-> s, col |-> coll[s]]
    /\ \/ /\ doomed' = {[url |-> u, etag |-> cal[coll[s]][u]] :
                            u \in Held(cal[coll[s]])}
          /\ missed' = FALSE
          /\ UNCHANGED faults
       \/ RequestFails /\ doomed' = {} /\ missed' = TRUE
    /\ pc' = "purge"
    /\ snap' = [snap EXCEPT !.seenEdits = edits]
    /\ UNCHANGED <<settings, orderbook, sources, mapping, status, world,
                   fetchState, orders, kept, gaveUp, lost, workState,
                   disturbed>>

\* One DELETE.  A refusal is counted, the rest is still removed.
PurgeDelete(r) ==
    /\ pc = "purge" /\ r \in doomed
    /\ doomed' = doomed \ {r}
    /\ LET c == purging.col
           accepted == IfMatch(cal[c], r.url, r.etag)
           removed == [cal EXCEPT ![c][r.url] = NoCopy]
       IN  \/ /\ cal' = IF accepted THEN removed ELSE cal
              /\ missed' = (missed \/ (~accepted /\ cal[c][r.url] # NoCopy))
              /\ UNCHANGED faults
           \/ /\ RequestFails /\ missed' = TRUE
              /\ \/ UNCHANGED cal
                 \/ accepted /\ cal' = removed
    /\ UNCHANGED <<settings, orderbook, sources, mapping, status, past, edits,
                   pc, fetchState, snap, orders, kept, gaveUp, lost, purging,
                   workState, disturbed>>

\* The attempt that just failed was the last one.
MutGivesUpLate(attempts) == attempts > MaxAttempts
GivesUp(attempts) == attempts >= MaxAttempts

PurgeEnd ==
    /\ pc = "purge" /\ doomed = {}
    /\ LET s == purging.src
           attempts == orders[s] + 1
           giveUp == missed /\ GivesUp(attempts)
       IN  /\ orders' = [orders EXCEPT ![s] = NotQueued]
           /\ kept' = IF missed /\ ~giveUp THEN [kept EXCEPT ![s] = attempts]
                                           ELSE kept
           /\ gaveUp' = (gaveUp \/ giveUp)
           /\ lost' = IF giveUp THEN lost \cup {purging.col} ELSE lost
    /\ pc' = "drain"
    /\ purging' = Null /\ missed' = FALSE
    /\ UNCHANGED <<settings, orderbook, sources, mapping, status, world, faults,
                   fetchState, snap, doomed, workState, disturbed>>

StoreQueue(q, note) == queue' = q /\ failed' = note

DrainEnd ==
    /\ pc = "drain" /\ Pending(orders) = {}
    /\ StoreQueue(kept, gaveUp)
    /\ abandoned' = abandoned \cup lost
    /\ Plan(snap)
    /\ UNCHANGED <<settings, sources, mapping, world, faults>>

-----------------------------------------------------------------------------
(***************************************************************************)
(* The listing and the reconciler.  Everything it will do is decided by    *)
(* the snapshot and the listing; the requests then go out one at a time,   *)
(* and the row of a copy is stored only after the response.                *)
(***************************************************************************)
\* Copies whose date the mirror window covers.
Listed(store) == {u \in Held(store) : u.key \notin past /\ ~store[u].away}

Req(op, k, u, e, v) == [op |-> op, key |-> k, url |-> u, etag |-> e, val |-> v]

\* _differs: the row's content is not the appointment's.
MutDiffersInNothing(row, val) == FALSE
Differs(row, val) == row.val # val

\* _remove_mapped: the copy of an appointment nobody wants any more, at u when
\* it was listed, else where its row says, unless that is another calendar.
MutRemovalByRow(k, row, u, store) ==
    Req("delete", k, IF u # Null THEN u ELSE row.url, row.etag, row.val)
Removal(k, row, u, store) ==
    IF u # Null THEN Req("delete", k, u, store[u], row.val)
    ELSE IF row.col = snap.col THEN Req("delete", k, row.url, row.etag, row.val)
    ELSE Req("discard", k, row.url, row.etag, row.val)

\* What the reconciler does about key k, whose first listed copy is at
\* own[k] (Null when there is none).
KeyRequests(k, own, store) ==
    LET row == snap.rows[k]
        val == snap.wanted[k]
        etag == store[own[k]]
        stale == row.etag # etag \/ row.url # own[k] \/ row.col # snap.col
    IN  IF val # Null
        THEN IF own[k] = Null
             THEN {Req("create", k, ResourceUrl(k), NoEtag, val)}
             ELSE IF row = Null THEN {Req("update", k, own[k], etag, val)}
             ELSE IF Differs(row, val) THEN {Req("update", k, own[k], etag, val)}
             ELSE IF stale THEN {Req("refresh", k, own[k], etag, val)} ELSE {}
        ELSE IF row # Null THEN {Removal(k, row, own[k], store)}
        ELSE IF own[k] # Null THEN {Req("orphan", k, own[k], etag, etag.val)}
        ELSE {}

\* Duplicates go, even those of an appointment that is still wanted.
MutExtrasOfUnwanted(own, listed, store) ==
    {Req("extra", u.key, u, store[u], store[u].val) :
        u \in {x \in listed : x # own[x.key] /\ snap.wanted[x.key] = Null}}
ExtraRequests(own, listed, store) ==
    {Req("extra", u.key, u, store[u], store[u].val) :
        u \in {x \in listed : x # own[x.key]}}

Requests(own, listed, store) ==
    (UNION {KeyRequests(k, own, store) : k \in Keys})
    \cup ExtraRequests(own, listed, store)

\* _index_own: the first listed copy of a key is the one that counts.
Indexes(listed) ==
    {own \in [Keys -> listed \cup {Null}] :
        \A k \in Keys :
            IF \E u \in listed : u.key = k
            THEN own[k] # Null /\ own[k].key = k
            ELSE own[k] = Null}

ListCopies ==
    /\ pc = "list"
    /\ LET store == cal[snap.col]
           listed == Listed(store)
           verdict == SkipReason(snap.ids, results, Mapped(snap.wanted),
                                 Mapped(snap.rows), listed)
       IN  IF verdict # "run"
           THEN pc' = "idle" /\ ForgetRun /\ status' = "skipped"
           ELSE /\ pc' = "work"
                /\ \E own \in Indexes(listed) :
                      work' = Requests(own, listed, store)
                /\ snap' = [snap EXCEPT !.seenEdits = edits]
                /\ UNCHANGED <<fetchState, drainState, sent, conflicts, status>>
    /\ UNCHANGED <<settings, orderbook, sources, mapping, world, faults, disturbed>>

ListFailed ==
    /\ pc = "list"
    /\ RequestFails
    /\ pc' = "idle" /\ ForgetRun /\ status' = "error"
    /\ UNCHANGED <<settings, orderbook, sources, mapping, world, disturbed>>

\* The next request in the reconciler's order.
Due(r) ==
    /\ pc = "work" /\ sent = Null /\ r \in work
    /\ \A q \in work : Phase(r.op) <= Phase(q.op)

\* The row the reconciler stores for the copy at r.url.
StoreRow(r, etag) ==
    mapping' = [mapping EXCEPT ![r.key] =
                   [col |-> snap.col, url |-> r.url, etag |-> etag, val |-> r.val]]

DropRow(r) == mapping' = [mapping EXCEPT ![r.key] = Null]

Refresh(r) ==
    /\ Due(r) /\ r.op = "refresh"
    /\ StoreRow(r, r.etag)
    /\ work' = work \ {r}
    /\ UNCHANGED <<settings, orderbook, sources, status, world, faults, pc,
                   fetchState, snap, drainState, sent, conflicts, disturbed>>

Discard(r) ==
    /\ Due(r) /\ r.op = "discard"
    /\ DropRow(r)
    /\ work' = work \ {r}
    /\ UNCHANGED <<settings, orderbook, sources, status, world, faults, pc,
                   fetchState, snap, drainState, sent, conflicts, disturbed>>

\* The server's verdict on a request, and the URL's content if it is accepted.
Accepts(store, r) ==
    IF r.op = "create" THEN CreateAccepted(store, r.url)
                       ELSE IfMatch(store, r.url, r.etag)
AfterWrite(r) == IF r.op \in {"create", "update"} THEN Written(r.val) ELSE NoCopy

\* DELETE answers 404 when there is nothing to delete, a success to us.
AlreadyGone(store, r) ==
    r.op \in {"delete", "orphan", "extra"} /\ store[r.url] = NoCopy

PutEtags(r) == {AfterWrite(r)} \cup (IF SilentPut THEN {NoEtag} ELSE {})

Send(r) ==
    /\ Due(r) /\ r.op \notin {"refresh", "discard"}
    /\ work' = work \ {r}
    /\ LET store == cal[snap.col]
           written == [cal EXCEPT ![snap.col][r.url] = AfterWrite(r)]
       IN  IF Accepts(store, r)
           THEN /\ cal' = written
                /\ \E e \in IF r.op \in {"create", "update"} THEN PutEtags(r)
                                                             ELSE {NoEtag} :
                      sent' = [req |-> r, reply |-> "done", etag |-> e]
           ELSE /\ sent' = [req |-> r, etag |-> NoEtag,
                            reply |-> IF AlreadyGone(store, r) THEN "done"
                                                               ELSE "conflict"]
                /\ UNCHANGED cal
    /\ UNCHANGED <<settings, orderbook, sources, mapping, status, past, edits,
                   faults, pc, fetchState, snap, drainState, conflicts, disturbed>>

\* The request or its response is lost: the server may have acted on it.
SendFailed(r) ==
    /\ Due(r) /\ r.op \notin {"refresh", "discard"}
    /\ RequestFails
    /\ work' = work \ {r}
    /\ sent' = [req |-> r, reply |-> "error", etag |-> NoEtag]
    /\ \/ UNCHANGED cal
       \/ /\ Accepts(cal[snap.col], r)
          /\ cal' = [cal EXCEPT ![snap.col][r.url] = AfterWrite(r)]
    /\ UNCHANGED <<settings, orderbook, sources, mapping, status, past, edits,
                   pc, fetchState, snap, drainState, conflicts, disturbed>>

Settle ==
    /\ pc = "work" /\ sent # Null
    /\ LET r == sent.req
           keepsRow == r.op = "extra" /\ snap.wanted[r.key] # Null
       IN  \/ /\ sent.reply = "done"
              /\ IF r.op \in {"create", "update"} THEN StoreRow(r, sent.etag)
                 ELSE IF keepsRow THEN UNCHANGED mapping
                 ELSE DropRow(r)
              /\ sent' = Null
              /\ UNCHANGED <<pc, fetchState, snap, drainState, work, conflicts, status>>
           \/ /\ sent.reply = "conflict"
              /\ conflicts' = TRUE
              /\ sent' = Null
              /\ UNCHANGED <<mapping, pc, fetchState, snap, drainState, work, status>>
           \/ /\ sent.reply = "error"
              /\ pc' = "idle" /\ ForgetRun /\ status' = "error"
              /\ UNCHANGED mapping
    /\ UNCHANGED <<settings, orderbook, sources, world, faults, disturbed>>

Finish ==
    /\ pc = "work" /\ work = {} /\ sent = Null
    /\ pc' = "idle" /\ ForgetRun
    /\ status' = IF conflicts THEN "conflict" ELSE "ok"
    /\ UNCHANGED <<settings, orderbook, sources, mapping, world, faults, disturbed>>

\* The add-on is stopped or dies; what is stored stays, the run is lost.
Crash ==
    /\ pc # "idle"
    /\ Fault
    /\ pc' = "idle" /\ ForgetRun
    /\ UNCHANGED <<settings, orderbook, sources, mapping, status, world, disturbed>>

-----------------------------------------------------------------------------
(***************************************************************************)
(* Admin requests (app/admin.py).  Each handler runs without an await, so  *)
(* it is atomic and runs only while no run holds the event loop.           *)
(***************************************************************************)
RunAwaits == pc # "drain" /\ ~(pc = "work" /\ sent = Null)

AdminTurn == IF AdminMidRun THEN RunAwaits ELSE pc = "idle"

\* queue_mirror_sync_cleanup: one entry per source, and a fresh verdict.
MutQueuedAlone(s) == [NoOrders EXCEPT ![s] = 0]
Queued(s) == [queue EXCEPT ![s] = IF queue[s] = NotQueued THEN 0 ELSE queue[s]]

UpdateMirrorSync(on, t, ids) ==
    /\ AdminTurn
    /\ t # Null => Exists(t)
    /\ \A f \in ids : feedOn[f] # "gone"
    /\ IF t # target
       THEN /\ IF target # Null THEN StoreQueue(Queued(target), FALSE)
                                ELSE UNCHANGED <<queue, failed>>
            /\ mapping' = NoRows
       ELSE UNCHANGED <<queue, failed, mapping>>
    /\ target' = t /\ sourceIds' = ids /\ enabled' = on
    /\ abandoned' = abandoned \ {coll[s] : s \in {t, target} \ {Null}}
    /\ disturbed' = TRUE
    /\ UNCHANGED <<sources, status, world, faults, runState>>

CleanupMirrorSync ==
    /\ AdminTurn
    /\ target # Null
    /\ StoreQueue(Queued(target), FALSE)
    /\ mapping' = NoRows
    /\ enabled' = FALSE
    /\ abandoned' = abandoned \ {coll[target]}
    /\ disturbed' = TRUE
    /\ UNCHANGED <<target, sourceIds, sources, status, world, faults,
                   runState>>

\* delete_source of a CalDAV source: its credentials are gone, and with them
\* every way to reach the copies in its calendar.
DeleteCalendar(s) ==
    /\ AdminTurn
    /\ Exists(s)
    /\ coll' = [coll EXCEPT ![s] = Null]
    /\ abandoned' = abandoned \cup ({coll[s]} \cap Cols)
    /\ IF target = s
       THEN target' = Null /\ enabled' = FALSE /\ mapping' = NoRows
       ELSE UNCHANGED <<target, enabled, mapping>>
    /\ StoreQueue([queue EXCEPT ![s] = NotQueued], failed)
    /\ disturbed' = TRUE
    /\ UNCHANGED <<sourceIds, feedOn, events, status, world, faults, runState>>

DeleteFeed(f) ==
    /\ AdminTurn
    /\ feedOn[f] # "gone"
    /\ feedOn' = [feedOn EXCEPT ![f] = "gone"]
    /\ events' = [k \in Keys |-> IF KeyFeed[k] = f THEN Null ELSE events[k]]
    /\ sourceIds' = sourceIds \ {f}
    /\ disturbed' = TRUE
    /\ UNCHANGED <<enabled, target, orderbook, coll, mapping, status, world,
                   faults, runState>>

\* update_source: enabling or disabling a source ...
ToggleFeed(f) ==
    /\ AdminTurn
    /\ feedOn[f] # "gone"
    /\ feedOn' = [feedOn EXCEPT ![f] = IF @ = "on" THEN "off" ELSE "on"]
    /\ disturbed' = TRUE
    /\ UNCHANGED <<settings, orderbook, events, coll, mapping, status, world,
                   faults, runState>>

\* ... or pointing it at another calendar, or at none.
RepointCalendar(s, c) ==
    /\ CanRepoint /\ AdminTurn
    /\ Exists(s) /\ c # coll[s]
    /\ coll' = [coll EXCEPT ![s] = c]
    /\ abandoned' = abandoned \cup ({coll[s]} \cap Cols)
    /\ disturbed' = TRUE
    /\ UNCHANGED <<settings, queue, failed, feedOn, events, mapping, status, world,
                   faults, runState>>

-----------------------------------------------------------------------------
(***************************************************************************)
(* The user at his calendar, and the passing of days.                      *)
(***************************************************************************)
Touch(c, u, copy) ==
    /\ edits < MaxEdits /\ edits' = edits + 1
    /\ cal' = [cal EXCEPT ![c][u] = copy]
    /\ disturbed' = TRUE
    /\ UNCHANGED <<settings, orderbook, sources, mapping, status, past, faults,
                   runState>>

EditCopy(c, u) ==
    cal[c][u] # NoCopy /\ Touch(c, u, [cal[c][u] EXCEPT !.by = edits + 1])

MoveCopy(c, u) ==
    /\ CanMove /\ cal[c][u] # NoCopy
    /\ Touch(c, u, [cal[c][u] EXCEPT !.by = edits + 1, !.away = ~@])

RemoveCopy(c, u) == cal[c][u] # NoCopy /\ Touch(c, u, NoCopy)

\* A restored backup or an import: a second object with the same marker.
ImportCopy(c, u, v) ==
    /\ cal[c][u] # NoCopy /\ v.key = u.key /\ cal[c][v] = NoCopy
    /\ Touch(c, v, [cal[c][u] EXCEPT !.by = edits + 1])

\* Midnight passes: k starts before today, and so does its unmoved copy.
Expire(k) ==
    /\ CanExpire /\ pc = "idle" /\ k \notin past
    /\ past' = past \cup {k}
    /\ UNCHANGED <<settings, orderbook, sources, mapping, status, cal, edits,
                   faults, runState, disturbed>>

-----------------------------------------------------------------------------
FetchStep ==
    \/ StartSync
    \/ \E f \in Feeds : FetchOk(f) \/ FetchFailed(f)
    \/ StartMirror

DrainStep ==
    \/ \E s \in Calendars : DropStale(s) \/ DropUnusable(s) \/ PurgeList(s)
    \/ \E r \in doomed : PurgeDelete(r)
    \/ PurgeEnd
    \/ DrainEnd

ReconcileStep ==
    \/ ListCopies
    \/ ListFailed
    \/ \E r \in work : Refresh(r) \/ Discard(r) \/ Send(r) \/ SendFailed(r)
    \/ Settle
    \/ Finish

SyncStep == FetchStep \/ DrainStep \/ ReconcileStep

AdminStep ==
    \/ \E on \in BOOLEAN, t \in Calendars \cup {Null}, ids \in SUBSET Feeds :
          UpdateMirrorSync(on, t, ids)
    \/ CleanupMirrorSync
    \/ \E s \in Calendars : DeleteCalendar(s) \/ \E c \in Cols \cup {NoUrl} : RepointCalendar(s, c)
    \/ \E f \in Feeds : DeleteFeed(f) \/ ToggleFeed(f)

UserStep ==
    \/ \E c \in Cols, u \in Url :
          \/ EditCopy(c, u) \/ MoveCopy(c, u) \/ RemoveCopy(c, u)
          \/ \E v \in Url : ImportCopy(c, u, v)
    \/ \E k \in Keys : Expire(k)

Next == SyncStep \/ Crash \/ AdminStep \/ UserStep

Spec == Init /\ [][Next]_vars

\* The periodic task runs a sync again and again, and every request ends
\* (a response or the client's timeout).  Users and admins owe nothing.
FairSpec == Spec /\ WF_vars(SyncStep)
-----------------------------------------------------------------------------
(***************************************************************************)
(* Properties.                                                             *)
(***************************************************************************)
\* The server as the add-on's requests change it, in this step.
AddOnWrites(c, u) ==
    /\ cal'[c][u] # cal[c][u]
    /\ pc \in {"purge", "work"}
    /\ edits' = edits

\* The one request that names no version of the copy: it deletes a copy that
\* was not listed, by a row whose PUT was answered without an ETag.
NamesNoVersion == pc = "work" /\ sent'.req.op = "delete" /\ sent'.req.etag = NoEtag

\* A copy the user changed after the run had listed the calendar is neither
\* overwritten nor deleted: the If-Match of update_event and delete_event
\* "guards against clobbering a concurrent foreign change".  Their documented
\* fallback for an unknown ETag, "must still exist", is exempt.
NoClobberedEdit ==
    [][\A c \in Cols, u \in Url :
          AddOnWrites(c, u) /\ cal[c][u] # NoCopy /\ ~NamesNoVersion
             => cal[c][u].by <= snap.seenEdits]_vars

\* The reconciler takes copies out of the calendar only in a run in which no
\* selected source failed, and empties it only when every selected source was
\* read without error in that run (sync_guard.py: "one unlucky fetch would
\* otherwise wipe every written entry"), even when the mapping was lost.
GuardedDeletes ==
    [][\A c \in Cols, u \in Url :
          AddOnWrites(c, u) /\ pc = "work" /\ cal'[c][u] = NoCopy
             => /\ \A f \in snap.ids : results[f] # "error"
                /\ \/ Mapped(snap.wanted) # {}
                   \/ snap.ids # {} /\ \A f \in snap.ids : results[f] = "ok"]_vars

\* What the reconciler leaves behind for key k in the target's collection.
Reconciled(k) ==
    LET store == cal[snap.col]
        copies == {u \in Listed(store) : u.key = k}
        row == mapping[k]
    IN  IF snap.wanted[k] = Null
        THEN copies = {} /\ row = Null
        ELSE \E u \in copies :
                /\ copies = {u}
                /\ row # Null
                /\ row.col = snap.col /\ row.url = u
                /\ row.val = snap.wanted[k]
                /\ row.etag \in {store[u], NoEtag}

\* A run that ends without a conflict, and that neither the user nor the
\* admin interfered with, leaves exactly one listed copy and one mapping row
\* of each wanted appointment and none of any other, from whatever mapping
\* and calendar it started: after crashes, lost responses, a lost mapping,
\* duplicates, a repointed calendar.
CleanEnd ==
    pc = "work" /\ work = {} /\ sent = Null /\ ~conflicts /\ ~disturbed

CleanRunReconciles == CleanEnd => \A k \in Keys : Reconciled(k)

\* The copy such a run leaves behind says what its appointment says, unless
\* the user edited it: _differs tells "whether a mapped copy no longer matches
\* its source appointment".
CopyMatchesSource ==
    CleanEnd =>
        \A u \in Listed(cal[snap.col]) :
            cal[snap.col][u].by = 0 => cal[snap.col][u].val = snap.wanted[u.key]

\* No copy is forgotten: a collection with copies is the target's, has a
\* pending cleanup order, or was given up or cut off for all to see.
NoForgottenCopies ==
    \A c \in Cols :
        Held(cal[c]) # {} =>
            \/ c \in abandoned
            \/ \E s \in Calendars : coll[s] = c /\ (s = target \/ queue[s] # NotQueued)

\* Every cleanup order is resolved: carried out, or dropped with a note.
OrdersResolve ==
    \A s \in Calendars : queue[s] # NotQueued ~> queue[s] = NotQueued

\* While the mirror stays on, a conflict is not for ever: "the deletion is
\* retried next run with a fresh ETag from the listing", and after a refused
\* create "the next one re-reconciles" (mirror_sync.py).
ConflictsEnd ==
    status = "conflict" ~> (status # "conflict" \/ ~enabled \/ target = Null)

\* The mirror as a keeper of promises about each collection.
DutyOf(c) ==
    IF \E s \in Calendars : coll[s] = c /\ queue[s] # NotQueued THEN "owed"
    ELSE IF c \in abandoned THEN "abandoned"
    ELSE IF target = Null \/ coll[target] # c THEN "free"
    ELSE IF enabled THEN "active" ELSE "parked"

Duty == INSTANCE CalendarDuty WITH
            Calendars <- Cols,
            duty <- [c \in Cols |-> DutyOf(c)],
            holds <- [c \in Cols |-> Held(cal[c]) # {}],
            reach <- {coll[s] : s \in Calendars} \cap Cols,
            note <- failed

\* The mirror keeps the promises of CalendarDuty.
KeepsPromises == Duty!Spec
=============================================================================
