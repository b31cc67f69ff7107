-------------------------- MODULE MirrorSync_proofs --------------------------
(***************************************************************************)
(* Theorems about MirrorSync, for every value of its constants: type       *)
(* correctness; no copy is forgotten while the admin does not interfere    *)
(* with a run; deletions are guarded; no edit of the user is overwritten;  *)
(* a clean run leaves the calendar as wanted; every step keeps the         *)
(* promises of CalendarDuty; and without lost responses the copies say     *)
(* what their appointments say.                                            *)
(***************************************************************************)
EXTENDS MirrorSync, TLAPS

-----------------------------------------------------------------------------
(* Typing of the helpers. *)

\* What build_ical writes is a copy, and with the empty ETag an ETag.
LEMMA WrittenIsCopy ==
    ASSUME NEW v \in Vals
    PROVE  Written(v) \in Copy
BY CalDavAssumption DEF Written, Copy

\* When there is no run, its local variables have their initial values.
LEMMA ForgetRunTyped ==
    ASSUME ForgetRun, pc' = "idle", disturbed' \in BOOLEAN
    PROVE  RunOK' /\ DrainOK' /\ WorkOK'
<1>1. NoSnap \in Snapshot /\ NoSnap.src = Null
  BY CalDavAssumption DEF NoSnap, Snapshot
<1>2. RunOK'
  BY <1>1 DEF ForgetRun, RunOK, Outcome
<1>3. DrainOK'
  BY DEF ForgetRun, DrainOK, NoOrders, Attempts
<1>4. WorkOK'
  BY DEF ForgetRun, WorkOK
<1> QED
  BY <1>2, <1>3, <1>4

\* The wanted appointments are appointments or Null.
LEMMA WantedTyped ==
    ASSUME StoredOK
    PROVE  DesiredEvents(sourceIds) \in [Keys -> Vals \cup {Null}]
BY DEF StoredOK, DesiredEvents

\* Plan leaves well-typed run variables behind.
LEMMA PlanTyped ==
    ASSUME TypeOK, NEW s \in Snapshot, s.src # Null => s.col # Null, Plan(s)
    PROVE  RunOK' /\ DrainOK' /\ WorkOK' /\ status' \in {status, "skipped"}
<1> DEFINE wanted == DesiredEvents(sourceIds)
<1>1. CASE pc' = "idle" /\ ForgetRun
  <2>1. disturbed' \in BOOLEAN
    BY DEF TypeOK, RunOK, Plan
  <2>2. status' \in {status, "skipped"}
    BY DEF Plan
  <2> QED
    BY <1>1, <2>1, <2>2, ForgetRunTyped
<1>2. CASE ~(pc' = "idle" /\ ForgetRun)
  <2>1. /\ s.src # Null
        /\ pc' = "list"
        /\ snap' = [s EXCEPT !.ids = sourceIds, !.wanted = wanted, !.rows = mapping]
        /\ disturbed' = FALSE
        /\ orders' = NoOrders /\ kept' = NoOrders /\ gaveUp' = FALSE /\ lost' = {}
        /\ purging' = Null /\ doomed' = {} /\ missed' = FALSE
        /\ UNCHANGED <<fetchState, workState, status>>
    BY <1>2 DEF Plan
  <2>2. snap' \in Snapshot /\ snap'.src = s.src /\ snap'.col = s.col
    BY <2>1, WantedTyped DEF TypeOK, StoredOK, Snapshot
  <2>3. RunOK'
    BY <2>1, <2>2 DEF TypeOK, RunOK, fetchState
  <2>4. DrainOK'
    BY <2>1 DEF DrainOK, NoOrders, Attempts
  <2>5. WorkOK'
    BY <2>1 DEF TypeOK, WorkOK, workState
  <2> QED
    BY <2>1, <2>3, <2>4, <2>5
<1> QED
  BY <1>1, <1>2

\* Duplicates are removed by requests ...
LEMMA ExtraRequestsTyped ==
    ASSUME NEW store \in Collection, NEW listed \in SUBSET Held(store), NEW own
    PROVE  ExtraRequests(own, listed, store) \subseteq Request
<1>1. ASSUME NEW u \in listed
      PROVE  Req("extra", u.key, u, store[u], store[u].val) \in Request
  BY DEF Held, Collection, Copy, Etag, Req, Request, Ops, Url
<1> QED
  BY <1>1 DEF ExtraRequests

\* ... and so is what is done about each key.
LEMMA KeyRequestsTyped ==
    ASSUME TypeOK, snap.col # Null,
           NEW store \in Collection, NEW listed \in SUBSET Held(store),
           NEW own \in Indexes(listed), NEW k \in Keys
    PROVE  KeyRequests(k, own, store) \subseteq Request
<1> DEFINE row == snap.rows[k]
           val == snap.wanted[k]
<1>1. /\ row \in Row \cup {Null} /\ val \in Vals \cup {Null}
  BY DEF TypeOK, RunOK, Snapshot
<1>2. ASSUME NEW u \in Held(store)
      PROVE  u \in Url /\ store[u] \in Copy /\ store[u] \in Etag /\ store[u].val \in Vals
  BY DEF Held, Collection, Copy, Etag
<1>3. own[k] = Null \/ own[k] \in Held(store)
  BY DEF Indexes
<1>4. ResourceUrl(k) \in Url /\ NoEtag \in Etag
  BY CalDavAssumption DEF ResourceUrl, Url, Etag
<1>5. ASSUME NEW op \in Ops, NEW u \in Url, NEW e \in Etag, NEW v \in Vals
      PROVE  Req(op, k, u, e, v) \in Request
  BY DEF Req, Request
<1>6. ASSUME row # Null
      PROVE  row.url \in Url /\ row.etag \in Etag /\ row.val \in Vals
  BY <1>1, <1>6 DEF Row
<1>7. CASE val # Null
  BY <1>7, <1>1, <1>2, <1>3, <1>4, <1>5 DEF KeyRequests, Ops
<1>8. CASE val = Null /\ row # Null
  <2>1. Removal(k, row, own[k], store) \in Request
    BY <1>8, <1>2, <1>3, <1>5, <1>6 DEF Removal, Ops
  <2> QED
    BY <1>8, <2>1 DEF KeyRequests
<1>9. CASE val = Null /\ row = Null
  BY <1>9, <1>2, <1>3, <1>5 DEF KeyRequests, Ops
<1> QED
  BY <1>7, <1>8, <1>9

LEMMA RequestsTyped ==
    ASSUME TypeOK, snap.col # Null,
           NEW store \in Collection, NEW listed \in SUBSET Held(store),
           NEW own \in Indexes(listed)
    PROVE  Requests(own, listed, store) \subseteq Request
<1>1. \A k \in Keys : KeyRequests(k, own, store) \subseteq Request
  BY KeyRequestsTyped
<1>2. ExtraRequests(own, listed, store) \subseteq Request
  BY ExtraRequestsTyped
<1> QED
  BY <1>1, <1>2 DEF Requests

-----------------------------------------------------------------------------
(* Type correctness, one lemma per group of actions. *)

LEMMA InitTyped == Init => TypeOK
<1> SUFFICES ASSUME Init PROVE TypeOK
  OBVIOUS
<1>1. NoSnap \in Snapshot /\ NoSnap.src = Null
  BY CalDavAssumption DEF NoSnap, Snapshot
<1>2. StoredOK
  BY DEF Init, StoredOK, NoOrders, NoRows, Attempts
<1>3. WorldOK
  BY CalDavAssumption, MirrorAssumption
     DEF Init, WorldOK, EmptyCollection, Collection
<1>4. RunOK
  BY <1>1 DEF Init, RunOK, Outcome
<1>5. DrainOK
  BY DEF Init, DrainOK, NoOrders, Attempts
<1>6. WorkOK
  BY DEF Init, WorkOK
<1> QED
  BY <1>2, <1>3, <1>4, <1>5, <1>6 DEF TypeOK

\* Requests that fail keep the count of faults in its bound.
LEMMA FaultsTyped ==
    ASSUME WorldOK
    PROVE  /\ Fault => faults' \in 0..MaxFaults
           /\ RequestFails => faults' \in 0..MaxFaults
BY MirrorAssumption DEF WorldOK, Fault, RequestFails

LEMMA FetchTyped == TypeOK /\ FetchStep => TypeOK'
<1> SUFFICES ASSUME TypeOK, FetchStep PROVE TypeOK'
  OBVIOUS
<1> USE DEF TypeOK
<1>1. CASE StartSync
  BY <1>1 DEF StartSync, StoredOK, WorldOK, RunOK, DrainOK, WorkOK, Outcome,
              settings, orderbook, sources, world, drainState, workState
<1>2. ASSUME NEW f \in Feeds, FetchOk(f) PROVE TypeOK'
  <2>1. events' \in [Keys -> Vals \cup {Null}]
    BY <1>2 DEF FetchOk, StoredOK
  <2>2. results' \in [Feeds -> Outcome] /\ fetching' \subseteq Feeds
    BY <1>2 DEF FetchOk, RunOK, Outcome
  <2> QED
    BY <1>2, <2>1, <2>2
       DEF FetchOk, StoredOK, WorldOK, RunOK, DrainOK, WorkOK,
           settings, orderbook, world, drainState, workState
<1>3. ASSUME NEW f \in Feeds, FetchFailed(f) PROVE TypeOK'
  <2>1. results' \in [Feeds -> Outcome] /\ fetching' \subseteq Feeds
    BY <1>3 DEF FetchFailed, RunOK, Outcome
  <2> QED
    BY <1>3, <2>1
       DEF FetchFailed, StoredOK, WorldOK, RunOK, DrainOK, WorkOK,
           settings, orderbook, sources, world, drainState, workState
<1>4. CASE StartMirror
  <2> DEFINE usable == enabled /\ target # Null /\ Usable(target)
             s == [NoSnap EXCEPT
                     !.drainOn = enabled, !.drainTarget = target,
                     !.src = IF usable THEN target ELSE Null,
                     !.col = IF usable THEN coll[target] ELSE Null]
  <2>1. s \in Snapshot /\ (s.src # Null => s.col # Null)
    <3>1. NoSnap \in Snapshot
      BY CalDavAssumption DEF NoSnap, Snapshot
    <3>2. enabled \in BOOLEAN /\ target \in Calendars \cup {Null}
      BY DEF StoredOK
    <3>3. usable => coll[target] \in Cols /\ target \in Calendars
      BY DEF StoredOK, Usable
    <3>4. (IF usable THEN target ELSE Null) \in Calendars \cup {Null}
      BY <3>2
    <3>5. (IF usable THEN coll[target] ELSE Null) \in Cols \cup {Null}
      BY <3>3
    <3>6. s \in Snapshot
      BY <3>1, <3>2, <3>4, <3>5 DEF Snapshot
    <3>7. s.src = (IF usable THEN target ELSE Null)
          /\ s.col = (IF usable THEN coll[target] ELSE Null)
      BY DEF NoSnap
    <3> QED
      BY <3>3, <3>6, <3>7, MirrorAssumption
  <2>2. /\ UNCHANGED <<settings, orderbook, sources, mapping, world, faults>>
        /\ \/ Plan(s)
           \/ /\ pc' = "drain" /\ snap' = s
              /\ orders' = queue /\ kept' = NoOrders /\ gaveUp' = failed
              /\ UNCHANGED <<fetchState, lost, purging, doomed, missed, workState,
                             status, disturbed>>
    BY <1>4 DEF StartMirror
  <2>3. WorldOK'
    BY <2>2 DEF WorldOK, world, orderbook
  <2>4. CASE Plan(s)
    <3>1. RunOK' /\ DrainOK' /\ WorkOK' /\ status' \in {status, "skipped"}
      BY <2>1, <2>4, PlanTyped
    <3> QED
      BY <2>2, <2>3, <3>1 DEF StoredOK, settings, orderbook, sources
  <2>5. CASE ~Plan(s)
    <3>1. StoredOK'
      BY <2>2, <2>5 DEF StoredOK, settings, orderbook, sources
    <3>2. RunOK'
      BY <2>1, <2>2, <2>5 DEF RunOK, fetchState
    <3>3. DrainOK'
      BY <2>2, <2>5 DEF StoredOK, DrainOK, NoOrders, Attempts
    <3>4. WorkOK'
      BY <2>2, <2>5 DEF WorkOK, workState
    <3> QED
      BY <2>3, <3>1, <3>2, <3>3, <3>4
  <2> QED
    BY <2>4, <2>5
<1> QED
  BY <1>1, <1>2, <1>3, <1>4 DEF FetchStep

LEMMA DrainTyped == TypeOK /\ DrainStep => TypeOK'
<1> SUFFICES ASSUME TypeOK, DrainStep PROVE TypeOK'
  OBVIOUS
<1> USE DEF TypeOK
<1>1. ASSUME NEW s \in Calendars, DropStale(s) \/ DropUnusable(s) PROVE TypeOK'
  <2>1. orders' \in [Calendars -> Attempts] /\ gaveUp' \in BOOLEAN
    BY <1>1 DEF DropStale, DropUnusable, DrainOK, Attempts
  <2> QED
    BY <1>1, <2>1
       DEF DropStale, DropUnusable, StoredOK, WorldOK, RunOK, DrainOK, WorkOK,
           settings, orderbook, sources, world, fetchState, workState
<1>2. ASSUME NEW s \in Calendars, PurgeList(s) PROVE TypeOK'
  <2>1. purging' \in Purged /\ purging' # Null
    <3>1. purging' = [src |-> s, col |-> coll[s]] /\ coll[s] \in Cols
      BY <1>2 DEF PurgeList, Usable
    <3> QED
      BY <3>1, NullIsNoRecord DEF Purged
  <2>2. doomed' \subseteq Doomed /\ missed' \in BOOLEAN
    <3>1. coll[s] \in Cols
      BY <1>2 DEF PurgeList, Usable
    <3>2. {[url |-> u, etag |-> cal[coll[s]][u]] : u \in Held(cal[coll[s]])}
              \subseteq Doomed
      BY <3>1 DEF Doomed, Held, WorldOK, Collection
    <3> QED
      BY <1>2, <3>2 DEF PurgeList
  <2>3. snap' \in Snapshot /\ snap'.src = snap.src /\ snap'.col = snap.col
    BY <1>2 DEF PurgeList, RunOK, WorldOK, Snapshot
  <2>4. faults' \in 0..MaxFaults
    BY <1>2, FaultsTyped DEF PurgeList, WorldOK
  <2> QED
    BY <1>2, <2>1, <2>2, <2>3, <2>4
       DEF PurgeList, StoredOK, WorldOK, RunOK, DrainOK, WorkOK,
           settings, orderbook, sources, world, fetchState, workState
<1>3. ASSUME NEW r \in doomed, PurgeDelete(r) PROVE TypeOK'
  <2>1. cal' \in [Cols -> Collection]
    <3>1. purging.col \in Cols /\ r.url \in Url
      BY <1>3 DEF PurgeDelete, DrainOK, Purged, Doomed
    <3>2. \/ cal' = cal
          \/ cal' = [cal EXCEPT ![purging.col][r.url] = NoCopy]
      BY <1>3 DEF PurgeDelete
    <3> QED
      BY <3>1, <3>2 DEF WorldOK, Collection
  <2>2. doomed' \subseteq Doomed /\ missed' \in BOOLEAN
    BY <1>3 DEF PurgeDelete, DrainOK
  <2>3. faults' \in 0..MaxFaults
    BY <1>3, FaultsTyped DEF PurgeDelete, WorldOK
  <2> QED
    BY <1>3, <2>1, <2>2, <2>3
       DEF PurgeDelete, StoredOK, WorldOK, RunOK, DrainOK, WorkOK,
           settings, orderbook, sources, fetchState, workState
<1>4. CASE PurgeEnd
  <2> DEFINE s == purging.src
             attempts == orders[s] + 1
             giveUp == missed /\ GivesUp(attempts)
  <2>1. s \in Calendars /\ purging.col \in Cols
    BY <1>4 DEF PurgeEnd, DrainOK, Purged
  <2>2. orders' \in [Calendars -> Attempts]
    BY <1>4 DEF PurgeEnd, DrainOK, Attempts
  <2>3. kept' \in [Calendars -> Attempts]
    <3>1. ASSUME ~GivesUp(attempts) PROVE attempts \in Attempts
      BY <2>1, <3>1, MirrorAssumption DEF DrainOK, GivesUp, Attempts, NotQueued
    <3>2. kept' = IF missed /\ ~giveUp THEN [kept EXCEPT ![s] = attempts] ELSE kept
      BY <1>4 DEF PurgeEnd
    <3> QED
      BY <2>1, <3>1, <3>2 DEF DrainOK
  <2>4. gaveUp' \in BOOLEAN /\ lost' \subseteq Cols
    BY <1>4, <2>1 DEF PurgeEnd, DrainOK
  <2> QED
    BY <1>4, <2>2, <2>3, <2>4
       DEF PurgeEnd, StoredOK, WorldOK, RunOK, DrainOK, WorkOK,
           settings, orderbook, sources, world, fetchState, workState
<1>5. CASE DrainEnd
  <2>1. RunOK' /\ DrainOK' /\ WorkOK' /\ status' \in {status, "skipped"}
    BY <1>5, PlanTyped DEF DrainEnd, RunOK
  <2> QED
    BY <1>5, <2>1
       DEF DrainEnd, StoreQueue, StoredOK, WorldOK, DrainOK, settings, sources, world
<1> QED
  BY <1>1, <1>2, <1>3, <1>4, <1>5 DEF DrainStep

LEMMA ReconcileTyped == TypeOK /\ ReconcileStep => TypeOK'
<1> SUFFICES ASSUME TypeOK, ReconcileStep PROVE TypeOK'
  OBVIOUS
<1> USE DEF TypeOK
<1>1. CASE ListCopies
  <2>1. disturbed' \in BOOLEAN
    BY <1>1 DEF ListCopies, RunOK
  <2>2. CASE pc' = "idle" /\ ForgetRun /\ status' = "skipped"
    <3>1. RunOK' /\ DrainOK' /\ WorkOK'
      BY <2>1, <2>2, ForgetRunTyped
    <3> QED
      BY <1>1, <2>2, <3>1
         DEF ListCopies, StoredOK, WorldOK, settings, orderbook, sources, world
  <2>3. CASE ~(pc' = "idle" /\ ForgetRun /\ status' = "skipped")
    <3> DEFINE store == cal[snap.col]
               listed == Listed(store)
    <3>1. PICK own \in Indexes(listed) :
             work' = Requests(own, listed, store)
      BY <1>1, <2>3 DEF ListCopies
    <3>2. /\ pc' = "work"
          /\ snap' = [snap EXCEPT !.seenEdits = edits]
          /\ UNCHANGED <<fetchState, drainState, sent, conflicts, status>>
      BY <1>1, <2>3 DEF ListCopies
    <3>3. snap.col # Null /\ snap.col \in Cols
      BY <1>1 DEF ListCopies, RunOK, Snapshot
    <3>4. store \in Collection /\ listed \subseteq Held(store)
      BY <3>3 DEF WorldOK, Listed
    <3>5. work' \subseteq Request
      BY <3>1, <3>3, <3>4, RequestsTyped
    <3>6. snap' \in Snapshot /\ snap'.src = snap.src /\ snap'.col = snap.col
      BY <3>2 DEF RunOK, WorldOK, Snapshot
    <3>7. RunOK'
      BY <1>1, <2>1, <3>2, <3>6 DEF ListCopies, RunOK, fetchState
    <3> QED
      BY <1>1, <3>2, <3>5, <3>7
         DEF ListCopies, StoredOK, WorldOK, DrainOK, WorkOK,
             settings, orderbook, sources, world, drainState
  <2> QED
    BY <2>2, <2>3
<1>2. CASE ListFailed
  <2>1. RunOK' /\ DrainOK' /\ WorkOK'
    BY <1>2, ForgetRunTyped DEF ListFailed, RunOK
  <2> QED
    BY <1>2, <2>1, FaultsTyped
       DEF ListFailed, StoredOK, WorldOK, settings, orderbook, sources, world
<1>3. ASSUME NEW r \in work, Refresh(r) \/ Discard(r) PROVE TypeOK'
  <2>1. r \in Request
    BY DEF WorkOK
  <2>2. snap.col \in Cols
    BY <1>3 DEF Refresh, Discard, Due, RunOK, Snapshot
  <2>3. mapping' \in [Keys -> Row \cup {Null}]
    BY <1>3, <2>1, <2>2
       DEF Refresh, Discard, StoreRow, DropRow, StoredOK, Row, Request
  <2>4. work' \subseteq Request
    BY <1>3 DEF Refresh, Discard, WorkOK
  <2> QED
    BY <1>3, <2>3, <2>4
       DEF Refresh, Discard, StoredOK, WorldOK, RunOK, DrainOK, WorkOK, settings,
           orderbook, sources, world, fetchState, drainState
<1>4. ASSUME NEW r \in work, Send(r) \/ SendFailed(r) PROVE TypeOK'
  <2>1. r \in Request
    BY DEF WorkOK
  <2>2. snap.col \in Cols
    BY <1>4 DEF Send, SendFailed, Due, RunOK, Snapshot
  <2>3. AfterWrite(r) \in Copy \cup {NoCopy}
    BY <2>1, WrittenIsCopy DEF AfterWrite, Request
  <2>4. cal' \in [Cols -> Collection]
    <3>1. \/ cal' = cal
          \/ cal' = [cal EXCEPT ![snap.col][r.url] = AfterWrite(r)]
      BY <1>4 DEF Send, SendFailed
    <3>2. r.url \in Url
      BY <2>1 DEF Request
    <3> QED
      BY <2>2, <2>3, <3>1, <3>2 DEF WorldOK, Collection
  <2>5. sent' \in Sent
    <3>1. CASE SendFailed(r)
      BY <2>1, <3>1 DEF SendFailed, Sent, Etag
    <3>2. CASE Send(r) /\ Accepts(cal[snap.col], r)
      <4>1. PICK e \in IF r.op \in {"create", "update"} THEN PutEtags(r) ELSE {NoEtag} :
               sent' = [req |-> r, reply |-> "done", etag |-> e]
        BY <3>2 DEF Send
      <4>2. e \in Etag
        BY <2>1, WrittenIsCopy DEF PutEtags, AfterWrite, Etag, Request
      <4> QED
        BY <2>1, <4>1, <4>2 DEF Sent
    <3>3. CASE Send(r) /\ ~Accepts(cal[snap.col], r)
      BY <2>1, <3>3 DEF Send, Sent, Etag
    <3> QED
      BY <1>4, <3>1, <3>2, <3>3
  <2>6. work' \subseteq Request
    BY <1>4 DEF Send, SendFailed, WorkOK
  <2>7. faults' \in 0..MaxFaults
    BY <1>4, FaultsTyped DEF Send, SendFailed, WorldOK
  <2> QED
    BY <1>4, <2>4, <2>5, <2>6, <2>7
       DEF Send, SendFailed, StoredOK, WorldOK, RunOK, DrainOK, WorkOK, settings,
           orderbook, sources, fetchState, drainState
<1>5. CASE Settle
  <2>1. sent \in Sent /\ snap.col \in Cols
    BY <1>5 DEF Settle, WorkOK, RunOK, Snapshot
  <2>2. mapping' \in [Keys -> Row \cup {Null}]
    <3>1. \/ mapping' = mapping
          \/ StoreRow(sent.req, sent.etag)
          \/ DropRow(sent.req)
      BY <1>5 DEF Settle
    <3> QED
      BY <2>1, <3>1 DEF StoreRow, DropRow, StoredOK, Sent, Row, Request
  <2>3. StoredOK' /\ WorldOK'
    BY <1>5, <2>2
       DEF Settle, StoredOK, WorldOK, settings, orderbook, sources, world
  <2>4. CASE pc' = "idle" /\ ForgetRun
    BY <1>5, <2>3, <2>4, ForgetRunTyped DEF Settle, RunOK
  <2>5. CASE ~(pc' = "idle" /\ ForgetRun)
    <3>1. /\ sent' = Null /\ conflicts' \in {TRUE, conflicts}
          /\ UNCHANGED <<pc, fetchState, snap, drainState, work, disturbed>>
      BY <1>5, <2>5 DEF Settle
    <3> QED
      BY <2>3, <3>1 DEF RunOK, DrainOK, WorkOK, fetchState, drainState
  <2> QED
    BY <2>4, <2>5
<1>6. CASE Finish
  <2>1. RunOK' /\ DrainOK' /\ WorkOK'
    BY <1>6, ForgetRunTyped DEF Finish, RunOK
  <2> QED
    BY <1>6, <2>1
       DEF Finish, StoredOK, WorldOK, settings, orderbook, sources, world
<1> QED
  BY <1>1, <1>2, <1>3, <1>4, <1>5, <1>6 DEF ReconcileStep

LEMMA CrashTyped == TypeOK /\ Crash => TypeOK'
<1> SUFFICES ASSUME TypeOK, Crash PROVE TypeOK'
  OBVIOUS
<1> USE DEF TypeOK
<1>1. RunOK' /\ DrainOK' /\ WorkOK'
  BY ForgetRunTyped DEF Crash, RunOK
<1> QED
  BY <1>1, FaultsTyped
     DEF Crash, StoredOK, WorldOK, settings, orderbook, sources, world

\* Queueing an order stores a count of attempts.
LEMMA QueuedTyped ==
    ASSUME StoredOK, NEW s \in Calendars
    PROVE  Queued(s) \in [Calendars -> Attempts]
BY MirrorAssumption DEF StoredOK, Queued, Attempts

LEMMA AdminTyped == TypeOK /\ AdminStep => TypeOK'
<1> SUFFICES ASSUME TypeOK, AdminStep PROVE TypeOK'
  OBVIOUS
<1> USE DEF TypeOK, settings, orderbook, sources, world, runState, fetchState,
            drainState, workState
<1>1. ASSUME NEW on \in BOOLEAN, NEW t \in Calendars \cup {Null},
             NEW ids \in SUBSET Feeds, UpdateMirrorSync(on, t, ids)
      PROVE  TypeOK'
  <2>1. queue' \in [Calendars -> Attempts] /\ failed' \in BOOLEAN
    BY <1>1, QueuedTyped DEF UpdateMirrorSync, StoreQueue, StoredOK
  <2>2. mapping' \in [Keys -> Row \cup {Null}]
    BY <1>1 DEF UpdateMirrorSync, StoredOK, NoRows
  <2> QED
    BY <1>1, <2>1, <2>2
       DEF UpdateMirrorSync, StoredOK, WorldOK, RunOK, DrainOK, WorkOK
<1>2. CASE CleanupMirrorSync
  <2>1. queue' \in [Calendars -> Attempts] /\ failed' \in BOOLEAN
    BY <1>2, QueuedTyped DEF CleanupMirrorSync, StoreQueue, StoredOK
  <2>2. mapping' \in [Keys -> Row \cup {Null}]
    BY <1>2 DEF CleanupMirrorSync, StoredOK, NoRows
  <2> QED
    BY <1>2, <2>1, <2>2
       DEF CleanupMirrorSync, StoredOK, WorldOK, RunOK, DrainOK, WorkOK
<1>3. ASSUME NEW s \in Calendars, DeleteCalendar(s) PROVE TypeOK'
  <2>1. queue' \in [Calendars -> Attempts] /\ failed' \in BOOLEAN
    BY <1>3 DEF DeleteCalendar, StoreQueue, StoredOK, Attempts
  <2>2. mapping' \in [Keys -> Row \cup {Null}]
        /\ target' \in Calendars \cup {Null} /\ enabled' \in BOOLEAN
    BY <1>3 DEF DeleteCalendar, StoredOK, NoRows
  <2>3. coll' \in [Calendars -> Cols \cup {NoUrl, Null}] /\ abandoned' \subseteq Cols
    BY <1>3 DEF DeleteCalendar, StoredOK, WorldOK, Exists
  <2> QED
    BY <1>3, <2>1, <2>2, <2>3
       DEF DeleteCalendar, StoredOK, WorldOK, RunOK, DrainOK, WorkOK
<1>4. ASSUME NEW s \in Calendars, NEW c \in Cols \cup {NoUrl},
             RepointCalendar(s, c)
      PROVE  TypeOK'
  <2>1. coll' \in [Calendars -> Cols \cup {NoUrl, Null}] /\ abandoned' \subseteq Cols
    BY <1>4 DEF RepointCalendar, StoredOK, WorldOK, Exists
  <2> QED
    BY <1>4, <2>1
       DEF RepointCalendar, StoredOK, WorldOK, RunOK, DrainOK, WorkOK
<1>5. ASSUME NEW f \in Feeds, DeleteFeed(f) PROVE TypeOK'
  BY <1>5 DEF DeleteFeed, StoredOK, WorldOK, RunOK, DrainOK, WorkOK
<1>6. ASSUME NEW f \in Feeds, ToggleFeed(f) PROVE TypeOK'
  <2>1. feedOn' \in [Feeds -> {"on", "off", "gone"}]
    BY <1>6 DEF ToggleFeed, StoredOK
  <2> QED
    BY <1>6, <2>1 DEF ToggleFeed, StoredOK, WorldOK, RunOK, DrainOK, WorkOK
<1> QED
  BY <1>1, <1>2, <1>3, <1>4, <1>5, <1>6 DEF AdminStep

LEMMA UserTyped == TypeOK /\ UserStep => TypeOK'
<1> SUFFICES ASSUME TypeOK, UserStep PROVE TypeOK'
  OBVIOUS
<1> USE DEF TypeOK, settings, orderbook, sources, runState, fetchState,
            drainState, workState
<1>1. ASSUME NEW c \in Cols, NEW u \in Url, NEW copy \in Copy \cup {NoCopy},
             Touch(c, u, copy)
      PROVE  TypeOK'
  <2>1. cal' \in [Cols -> Collection]
    BY <1>1 DEF Touch, WorldOK, Collection
  <2>2. edits' \in 0..MaxEdits
    BY <1>1, CalDavAssumption DEF Touch, WorldOK
  <2> QED
    BY <1>1, <2>1, <2>2 DEF Touch, StoredOK, WorldOK, RunOK, DrainOK, WorkOK
<1>2. ASSUME NEW c \in Cols, NEW u \in Url, cal[c][u] # NoCopy, edits < MaxEdits
      PROVE  /\ cal[c][u] \in Copy
             /\ [cal[c][u] EXCEPT !.by = edits + 1] \in Copy
             /\ [cal[c][u] EXCEPT !.by = edits + 1, !.away = ~@] \in Copy
  <2>1. cal[c][u] \in Copy
    BY <1>2 DEF WorldOK, Collection
  <2>2. edits + 1 \in 0..MaxEdits
    BY <1>2, CalDavAssumption DEF WorldOK
  <2> QED
    BY <2>1, <2>2 DEF Copy
<1>3. ASSUME NEW c \in Cols, NEW u \in Url, EditCopy(c, u) \/ MoveCopy(c, u)
      PROVE  TypeOK'
  <2>1. cal[c][u] # NoCopy /\ edits < MaxEdits
    BY <1>3 DEF EditCopy, MoveCopy, Touch
  <2> QED
    BY <1>1, <1>2, <1>3, <2>1 DEF EditCopy, MoveCopy
<1>4. ASSUME NEW c \in Cols, NEW u \in Url, RemoveCopy(c, u) PROVE TypeOK'
  BY <1>1, <1>4 DEF RemoveCopy
<1>5. ASSUME NEW c \in Cols, NEW u \in Url, NEW v \in Url, ImportCopy(c, u, v)
      PROVE  TypeOK'
  <2>1. cal[c][u] # NoCopy /\ edits < MaxEdits
    BY <1>5 DEF ImportCopy, Touch
  <2> QED
    BY <1>1, <1>2, <1>5, <2>1 DEF ImportCopy
<1>6. ASSUME NEW k \in Keys, Expire(k) PROVE TypeOK'
  BY <1>6 DEF Expire, StoredOK, WorldOK, RunOK, DrainOK, WorkOK
<1> QED
  BY <1>3, <1>4, <1>5, <1>6 DEF UserStep

\* Type correctness: whatever the sync, the admin, the user and crashes do,
\* the database, the calendars and the run's variables stay what they are
\* meant to be.  A pending order has always been tried less than
\* MAX_CLEANUP_ATTEMPTS times, and a run that writes has a target.
THEOREM TypeCorrect == Spec => []TypeOK
<1>1. Init => TypeOK
  BY InitTyped
<1>2. TypeOK /\ [Next]_vars => TypeOK'
  <2> SUFFICES ASSUME TypeOK, [Next]_vars PROVE TypeOK'
    OBVIOUS
  <2>1. CASE SyncStep
    BY <2>1, FetchTyped, DrainTyped, ReconcileTyped DEF SyncStep
  <2>2. CASE Crash
    BY <2>2, CrashTyped
  <2>3. CASE AdminStep
    BY <2>3, AdminTyped
  <2>4. CASE UserStep
    BY <2>4, UserTyped
  <2>5. CASE UNCHANGED vars
    BY <2>5 DEF vars, settings, orderbook, sources, world, runState, fetchState,
                drainState, workState, TypeOK, StoredOK, WorldOK, RunOK, DrainOK,
                WorkOK
  <2> QED
    BY <2>1, <2>2, <2>3, <2>4, <2>5 DEF Next
<1> QED
  BY <1>1, <1>2, PTL DEF Spec

-----------------------------------------------------------------------------
(***************************************************************************)
(* No copy is forgotten, as long as admin requests do not arrive while a   *)
(* run is under way and there is no second name for a key's resource (a    *)
(* duplicate imported between the listing and the end of a purge would     *)
(* stay behind).  While it drains the queue the run holds the only valid   *)
(* account of the orders in its local variables, and the stored queue is   *)
(* overwritten at the end; so the invariant speaks about both.             *)
(***************************************************************************)
\* Collection c is accounted for: given up, the target's, or with an order.
Covered(c, ordered, gone) ==
    \/ c \in gone
    \/ \E s \in Calendars : coll[s] = c /\ (s = target \/ s \in ordered)

Draining == pc \in {"drain", "purge"}

\* What the run read about the target still holds.
TargetKept ==
    /\ Draining => snap.drainTarget = target
    /\ (Draining \/ pc \in {"list", "work"}) /\ snap.src # Null =>
          snap.src = target /\ snap.col = coll[target]

\* The orders in the run's hands account for every copy.
DrainCovers ==
    Draining =>
        \A c \in Cols : Held(cal[c]) # {} =>
            Covered(c, Pending(orders) \cup Pending(kept), abandoned \cup lost)

\* The calendar being emptied holds nothing that is not on the list, unless a
\* failure has been noted.
PurgeCovers ==
    pc = "purge" =>
        /\ coll[purging.src] = purging.col
        /\ missed \/ \A u \in Held(cal[purging.col]) : \E r \in doomed : r.url = u

Accounted == TargetKept /\ DrainCovers /\ PurgeCovers /\ NoForgottenCopies

\* NoForgottenCopies in terms of Covered.
LEMMA CoveredCopies ==
    NoForgottenCopies <=>
        \A c \in Cols : Held(cal[c]) # {} => Covered(c, Pending(queue), abandoned)
BY DEF NoForgottenCopies, Covered, Pending

\* The user removes and changes copies, but adds none at a free URL.
LEMMA UserAddsNoCopy ==
    ASSUME Slots = {"own"}, TypeOK, UserStep, NEW c \in Cols
    PROVE  Held(cal'[c]) \subseteq Held(cal[c])
<1>1. ASSUME NEW d \in Cols, NEW u \in Url, NEW copy, Touch(d, u, copy),
             cal[d][u] # NoCopy
      PROVE  Held(cal'[c]) \subseteq Held(cal[c])
  BY <1>1 DEF Touch, Held, TypeOK, WorldOK, Collection
<1>2. ASSUME NEW d \in Cols, NEW u \in Url, NEW v \in Url
      PROVE  ~ImportCopy(d, u, v)
  <2>1. u.key = v.key => u = v
    BY DEF Url
  <2> QED
    BY <2>1 DEF ImportCopy
<1>3. ASSUME NEW k \in Keys, Expire(k)
      PROVE  Held(cal'[c]) \subseteq Held(cal[c])
  BY <1>3 DEF Expire
<1> QED
  BY <1>1, <1>2, <1>3 DEF UserStep, EditCopy, MoveCopy, RemoveCopy

LEMMA InitAccounted == Init => Accounted
BY DEF Init, Accounted, TargetKept, DrainCovers, PurgeCovers, Draining,
       NoForgottenCopies, Held, EmptyCollection

LEMMA FetchAccounted == TypeOK /\ Accounted /\ FetchStep => Accounted'
<1> SUFFICES ASSUME TypeOK, Accounted, FetchStep PROVE Accounted'
  OBVIOUS
<1>1. UNCHANGED <<target, queue, coll, cal, abandoned>>
  BY DEF FetchStep, StartSync, FetchOk, FetchFailed, StartMirror, settings,
         orderbook, sources, world
<1>2. NoForgottenCopies'
  BY <1>1 DEF Accounted, NoForgottenCopies
<1>3. CASE pc' = "idle" \/ pc' = "fetch"
  BY <1>2, <1>3 DEF Accounted, TargetKept, DrainCovers, PurgeCovers, Draining
<1>4. CASE ~(pc' = "idle" \/ pc' = "fetch")
  <2>1. StartMirror
    BY <1>4 DEF FetchStep, StartSync, FetchOk, FetchFailed
  <2> DEFINE usable == enabled /\ target # Null /\ Usable(target)
             s == [NoSnap EXCEPT
                     !.drainOn = enabled, !.drainTarget = target,
                     !.src = IF usable THEN target ELSE Null,
                     !.col = IF usable THEN coll[target] ELSE Null]
  <2>2. /\ s.drainTarget = target
        /\ s.src # Null => s.src = target /\ s.col = coll[target]
    BY DEF NoSnap
  <2>3. CASE Plan(s)
    <3>1. pc' = "list" /\ snap'.src = s.src /\ snap'.col = s.col
      BY <1>4, <2>3 DEF Plan, NoSnap
    <3> QED
      BY <1>1, <1>2, <2>2, <3>1
         DEF Accounted, TargetKept, DrainCovers, PurgeCovers, Draining
  <2>4. CASE ~Plan(s)
    <3>1. pc' = "drain" /\ snap' = s /\ orders' = queue
      BY <2>1, <2>4 DEF StartMirror
    <3>2. DrainCovers'
      BY <1>1, <3>1, CoveredCopies
         DEF Accounted, DrainCovers, Covered, Pending
    <3> QED
      BY <1>1, <1>2, <2>2, <3>1, <3>2
         DEF Accounted, TargetKept, PurgeCovers, Draining
  <2> QED
    BY <2>3, <2>4
<1> QED
  BY <1>3, <1>4

LEMMA DrainAccounted == TypeOK /\ Accounted /\ DrainStep => Accounted'
<1> SUFFICES ASSUME TypeOK, Accounted, DrainStep PROVE Accounted'
  OBVIOUS
<1>1. UNCHANGED <<target, coll>> /\ Draining
  BY DEF DrainStep, DropStale, DropUnusable, PurgeList, PurgeDelete, PurgeEnd,
         DrainEnd, Visit, Draining, settings, sources
<1>2. ASSUME NEW c \in Cols PROVE Held(cal'[c]) \subseteq Held(cal[c])
  <2>1. \/ cal' = cal
        \/ \E r \in Doomed : cal' = [cal EXCEPT ![purging.col][r.url] = NoCopy]
    BY DEF DrainStep, DropStale, DropUnusable, PurgeList, PurgeDelete, PurgeEnd,
           DrainEnd, world, TypeOK, DrainOK
  <2> QED
    BY <2>1 DEF Held, TypeOK, WorldOK, Collection, Doomed
<1>3. NoForgottenCopies' \/ DrainEnd
  <2>1. DrainEnd \/ UNCHANGED <<queue, abandoned>>
    BY DEF DrainStep, DropStale, DropUnusable, PurgeList, PurgeDelete, PurgeEnd,
           orderbook
  <2> QED
    BY <1>1, <1>2, <2>1 DEF Accounted, NoForgottenCopies
<1>4. ASSUME NEW s \in Calendars, DropStale(s) PROVE Accounted'
  <2>1. s = target
    BY <1>4 DEF DropStale, Visit, Stale, Accounted, TargetKept, Draining
  <2>2. Pending(orders) \subseteq Pending(orders') \cup {target}
    BY <1>4, <2>1 DEF DropStale, Pending, TypeOK, DrainOK
  <2>3. DrainCovers'
    BY <1>1, <1>4, <2>2
       DEF DropStale, orderbook, world, Accounted, DrainCovers, Draining, Covered
  <2> QED
    BY <1>1, <1>3, <1>4, <2>3
       DEF DropStale, DrainEnd, Visit, Accounted, TargetKept, PurgeCovers, Draining,
           Pending
<1>5. ASSUME NEW s \in Calendars, DropUnusable(s) PROVE Accounted'
  <2>1. coll[s] \notin Cols
    BY <1>5 DEF DropUnusable, Usable
  <2>2. Pending(orders) \subseteq Pending(orders') \cup {s}
    BY <1>5 DEF DropUnusable, Pending, TypeOK, DrainOK
  <2>3. DrainCovers'
    BY <1>1, <1>5, <2>1, <2>2
       DEF DropUnusable, orderbook, world, Accounted, DrainCovers, Draining, Covered
  <2> QED
    BY <1>1, <1>3, <1>5, <2>3
       DEF DropUnusable, DrainEnd, Visit, Accounted, TargetKept, PurgeCovers,
           Draining, Pending
<1>6. ASSUME NEW s \in Calendars, PurgeList(s) PROVE Accounted'
  <2>1. /\ pc' = "purge"
        /\ purging' = [src |-> s, col |-> coll[s]]
        /\ snap' = [snap EXCEPT !.seenEdits = edits]
        /\ UNCHANGED <<orderbook, world, orders, kept, lost>>
    BY <1>6 DEF PurgeList
  <2>2. coll[s] \in Cols
    BY <1>6 DEF PurgeList, Usable
  <2>3. PurgeCovers'
    <3>1. missed' \/ \A u \in Held(cal[coll[s]]) :
                        [url |-> u, etag |-> cal[coll[s]][u]] \in doomed'
      BY <1>6 DEF PurgeList
    <3>2. missed' \/ \A u \in Held(cal[coll[s]]) : \E r \in doomed' : r.url = u
      BY <3>1
    <3> QED
      BY <1>1, <2>1, <3>2 DEF PurgeCovers, world
  <2>4. DrainCovers'
    BY <1>1, <2>1 DEF Accounted, DrainCovers, Draining, Covered, orderbook, world
  <2>5. TargetKept'
    BY <1>1, <2>1 DEF Accounted, TargetKept, Draining, TypeOK, RunOK, Snapshot
  <2> QED
    BY <1>3, <1>6, <2>1, <2>3, <2>4, <2>5
       DEF Accounted, PurgeList, DrainEnd, Visit
<1>7. ASSUME NEW r \in doomed, PurgeDelete(r) PROVE Accounted'
  <2>1. /\ pc = "purge" /\ purging.col \in Cols /\ r.url \in Url
        /\ UNCHANGED <<pc, snap, orderbook, orders, kept, lost, purging>>
    BY <1>7 DEF PurgeDelete, TypeOK, DrainOK, Doomed, Purged
  <2>2. DrainCovers'
    BY <1>1, <1>2, <2>1 DEF Accounted, DrainCovers, Draining, Covered, orderbook
  <2>3. PurgeCovers'
    <3>1. missed' \/ (~missed /\ cal'[purging.col][r.url] = NoCopy)
      <4> DEFINE accepted == IfMatch(cal[purging.col], r.url, r.etag)
                 removed == [cal EXCEPT ![purging.col][r.url] = NoCopy]
      <4>1. removed[purging.col][r.url] = NoCopy
        BY <2>1 DEF TypeOK, WorldOK, Collection
      <4>2. \/ missed' = TRUE
            \/ /\ cal' = IF accepted THEN removed ELSE cal
               /\ missed' = (missed \/ (~accepted /\ cal[purging.col][r.url] # NoCopy))
        BY <1>7 DEF PurgeDelete
      <4> HIDE DEF accepted, removed
      <4>3. missed \in BOOLEAN /\ missed' \in BOOLEAN
        BY <1>7 DEF PurgeDelete, TypeOK, DrainOK
      <4>4. CASE accepted
        BY <4>1, <4>2, <4>3, <4>4
      <4>5. CASE ~accepted
        BY <4>2, <4>3, <4>5
      <4> QED
        BY <4>4, <4>5
    <3>2. ASSUME ~missed', NEW u \in Held(cal'[purging.col])
          PROVE  \E q \in doomed' : q.url = u
      <4>1. u # r.url
        BY <3>1, <3>2 DEF Held
      <4>2. PICK q \in doomed : q.url = u
        BY <1>2, <2>1, <3>1, <3>2 DEF Accounted, PurgeCovers
      <4> QED
        BY <1>7, <4>1, <4>2 DEF PurgeDelete
    <3> QED
      BY <1>1, <2>1, <3>2 DEF Accounted, PurgeCovers
  <2>4. TargetKept'
    BY <1>1, <2>1 DEF Accounted, TargetKept, Draining
  <2> QED
    BY <1>3, <2>1, <2>2, <2>3, <2>4 DEF Accounted, DrainEnd
<1>8. CASE PurgeEnd
  <2> DEFINE s == purging.src
             giveUp == missed /\ GivesUp(orders[s] + 1)
  <2>1. /\ pc = "purge" /\ pc' = "drain" /\ doomed = {}
        /\ s \in Calendars /\ coll[s] = purging.col
        /\ orders' = [orders EXCEPT ![s] = NotQueued]
        /\ kept' = IF missed /\ ~giveUp THEN [kept EXCEPT ![s] = orders[s] + 1]
                                        ELSE kept
        /\ lost' = IF giveUp THEN lost \cup {purging.col} ELSE lost
        /\ UNCHANGED <<snap, orderbook, world>>
    BY <1>8 DEF PurgeEnd, TypeOK, DrainOK, Purged, Accounted, PurgeCovers
  <2>2. Pending(orders) \subseteq Pending(orders') \cup {s}
    BY <2>1 DEF Pending, TypeOK, DrainOK
  <2>3. Pending(kept) \subseteq Pending(kept')
    BY <2>1, MirrorAssumption DEF Pending, TypeOK, DrainOK, Attempts, NotQueued
  <2>4. \/ Held(cal[purging.col]) = {}
        \/ purging.col \in lost'
        \/ s \in Pending(kept')
    <3>1. CASE ~missed
      BY <2>1, <3>1 DEF Accounted, PurgeCovers
    <3>2. CASE giveUp
      BY <2>1, <3>2
    <3>3. CASE missed /\ ~giveUp
      BY <2>1, <3>3 DEF Pending, TypeOK, DrainOK, Attempts, NotQueued
    <3> QED
      BY <3>1, <3>2, <3>3
  <2>5. DrainCovers'
    BY <1>1, <2>1, <2>2, <2>3, <2>4
       DEF Accounted, DrainCovers, Draining, Covered, orderbook, world
  <2> QED
    BY <1>1, <1>3, <2>1, <2>5
       DEF Accounted, TargetKept, PurgeCovers, Draining, DrainEnd
<1>9. CASE DrainEnd
  <2>1. /\ queue' = kept /\ abandoned' = abandoned \cup lost
        /\ Pending(orders) = {} /\ Plan(snap) /\ UNCHANGED world
    BY <1>9 DEF DrainEnd, StoreQueue
  <2>2. NoForgottenCopies'
    <3>1. \A c \in Cols : Held(cal[c]) # {} =>
             Covered(c, Pending(queue'), abandoned')
      BY <1>1, <2>1 DEF Accounted, DrainCovers, Covered
    <3> QED
      BY <1>1, <2>1, <3>1 DEF NoForgottenCopies, Covered, Pending, world
  <2>3. \/ pc' = "idle"
        \/ /\ pc' = "list" /\ snap.src # Null
           /\ snap'.src = snap.src /\ snap'.col = snap.col
    BY <2>1 DEF Plan, TypeOK, RunOK, Snapshot
  <2> QED
    BY <1>1, <2>2, <2>3
       DEF Accounted, TargetKept, DrainCovers, PurgeCovers, Draining
<1> QED
  BY <1>4, <1>5, <1>6, <1>7, <1>8, <1>9 DEF DrainStep

LEMMA ReconcileAccounted == TypeOK /\ Accounted /\ ReconcileStep => Accounted'
<1> SUFFICES ASSUME TypeOK, Accounted, ReconcileStep PROVE Accounted'
  OBVIOUS
<1>1. UNCHANGED <<target, queue, coll, abandoned>> /\ pc \in {"list", "work"}
  BY DEF ReconcileStep, ListCopies, ListFailed, Refresh, Discard, Send, SendFailed,
         Settle, Finish, Due, settings, orderbook, sources
<1>2. target \in Calendars /\ snap.col = coll[target]
  BY <1>1, MirrorAssumption DEF Accounted, TargetKept, TypeOK, RunOK, Snapshot
<1>3. ASSUME NEW c \in Cols, Held(cal'[c]) # {} PROVE Covered(c, Pending(queue), abandoned)'
  <2>1. CASE c = snap.col
    BY <1>1, <1>2, <2>1 DEF Covered
  <2>2. CASE c # snap.col
    <3>1. cal'[c] = cal[c]
      BY <2>2 DEF ReconcileStep, ListCopies, ListFailed, Refresh, Discard, Send,
                  SendFailed, Settle, Finish, world, TypeOK, WorldOK
    <3>2. Covered(c, Pending(queue), abandoned)
      BY <1>3, <3>1, CoveredCopies DEF Accounted
    <3> QED
      BY <1>1, <3>2 DEF Covered, Pending
  <2> QED
    BY <2>1, <2>2
<1>4. NoForgottenCopies'
  BY <1>1, <1>3 DEF NoForgottenCopies, Covered, Pending
<1>5. \/ pc' = "idle"
      \/ /\ pc' \in {"list", "work"}
         /\ snap'.src = snap.src /\ snap'.col = snap.col
  BY <1>1 DEF ReconcileStep, ListCopies, ListFailed, Refresh, Discard, Send,
              SendFailed, Settle, Finish, Due, TypeOK, RunOK, Snapshot
<1> QED
  BY <1>1, <1>4, <1>5
     DEF Accounted, TargetKept, DrainCovers, PurgeCovers, Draining

\* Admin requests come while no run is under way; each order it drops is one
\* for a calendar whose source goes, and a target left gets an order.
LEMMA AdminAccounted ==
    ASSUME ~AdminMidRun, TypeOK, Accounted, AdminStep
    PROVE  Accounted'
<1>1. pc = "idle" /\ UNCHANGED <<pc, cal>>
  BY DEF AdminStep, UpdateMirrorSync, CleanupMirrorSync, DeleteCalendar,
         RepointCalendar, DeleteFeed, ToggleFeed, AdminTurn, runState, world
<1>2. SUFFICES ASSUME NEW c \in Cols, Held(cal[c]) # {}
               PROVE  Covered(c, Pending(queue), abandoned)'
  BY <1>1 DEF Accounted, TargetKept, DrainCovers, PurgeCovers, Draining,
              NoForgottenCopies, Covered, Pending
<1>3. Covered(c, Pending(queue), abandoned)
  BY <1>2, CoveredCopies DEF Accounted
<1>4. ASSUME NEW s \in Calendars
      PROVE  Pending(Queued(s)) = Pending(queue) \cup {s}
  BY <1>4 DEF Queued, Pending, NotQueued, TypeOK, StoredOK, Attempts
<1>5. ASSUME NEW on \in BOOLEAN, NEW t \in Calendars \cup {Null},
             NEW ids \in SUBSET Feeds, UpdateMirrorSync(on, t, ids)
      PROVE  Covered(c, Pending(queue), abandoned)'
  <2>1. target' = t /\ coll' = coll
        /\ abandoned' = abandoned \ {coll[s] : s \in {t, target} \ {Null}}
    BY <1>5 DEF UpdateMirrorSync, sources
  <2>2. Pending(queue') = Pending(queue) \cup ({target} \ {t, Null})
    BY <1>4, <1>5
       DEF UpdateMirrorSync, StoreQueue, TypeOK, StoredOK
  <2>3. target \in Calendars \cup {Null} /\ Null \notin Calendars
    BY MirrorAssumption DEF TypeOK, StoredOK
  <2>4. CASE c \in abandoned
    <3>1. c \in abandoned' \/ \E s \in {t, target} \ {Null} : c = coll[s]
      BY <2>1, <2>4
    <3> QED
      BY <2>1, <2>2, <2>3, <3>1 DEF Covered
  <2>5. CASE c \notin abandoned
    BY <1>3, <2>1, <2>2, <2>3, <2>5 DEF Covered
  <2> QED
    BY <2>4, <2>5
<1>6. CASE CleanupMirrorSync
  <2>1. target \in Calendars
    BY <1>6 DEF CleanupMirrorSync, TypeOK, StoredOK
  <2>2. Pending(queue') = Pending(queue) \cup {target}
    BY <1>4, <1>6, <2>1 DEF CleanupMirrorSync, StoreQueue
  <2> QED
    BY <1>3, <1>6, <2>1, <2>2 DEF CleanupMirrorSync, Covered, sources
<1>7. ASSUME NEW s \in Calendars, DeleteCalendar(s)
      PROVE  Covered(c, Pending(queue), abandoned)'
  <2>1. Pending(queue') = Pending(queue) \ {s}
    BY <1>7 DEF DeleteCalendar, StoreQueue, Pending, TypeOK, StoredOK
  <2>2. \A p \in Calendars \ {s} : coll'[p] = coll[p] /\ (p = target => p = target')
    BY <1>7 DEF DeleteCalendar, TypeOK, StoredOK
  <2> QED
    BY <1>3, <1>7, <2>1, <2>2 DEF DeleteCalendar, Covered
<1>8. ASSUME NEW s \in Calendars, NEW d \in Cols \cup {NoUrl}, RepointCalendar(s, d)
      PROVE  Covered(c, Pending(queue), abandoned)'
  <2>1. \A p \in Calendars \ {s} : coll'[p] = coll[p]
    BY <1>8 DEF RepointCalendar, TypeOK, StoredOK
  <2> QED
    BY <1>3, <1>8, <2>1 DEF RepointCalendar, Covered, settings
<1>9. ASSUME NEW f \in Feeds, DeleteFeed(f) \/ ToggleFeed(f)
      PROVE  Covered(c, Pending(queue), abandoned)'
  BY <1>3, <1>9 DEF DeleteFeed, ToggleFeed, Covered, settings, orderbook
<1> QED
  BY <1>5, <1>6, <1>7, <1>8, <1>9 DEF AdminStep

LEMMA UserAccounted ==
    ASSUME Slots = {"own"}, TypeOK, Accounted, UserStep
    PROVE  Accounted'
<1>1. UNCHANGED <<target, coll, queue, abandoned, runState>>
  BY DEF UserStep, EditCopy, MoveCopy, RemoveCopy, ImportCopy, Touch, Expire,
         settings, orderbook, sources
<1>2. \A c \in Cols : Held(cal'[c]) \subseteq Held(cal[c])
  BY UserAddsNoCopy
<1>3. NoForgottenCopies'
  BY <1>1, <1>2 DEF Accounted, NoForgottenCopies
<1>4. DrainCovers'
  BY <1>1, <1>2
     DEF Accounted, DrainCovers, Draining, Covered, Pending, runState, drainState
<1>5. PurgeCovers'
  <2>1. pc = "purge" => purging.col \in Cols
    BY DEF TypeOK, DrainOK, Purged
  <2> QED
    BY <1>1, <1>2, <2>1 DEF Accounted, PurgeCovers, runState, drainState
<1> QED
  BY <1>1, <1>3, <1>4, <1>5
     DEF Accounted, TargetKept, Draining, runState

LEMMA AccountedInvariant ==
    ASSUME ~AdminMidRun, Slots = {"own"}
    PROVE  Spec => []Accounted
<1>1. Init => Accounted
  BY InitAccounted
<1>2. TypeOK /\ Accounted /\ [Next]_vars => Accounted'
  <2> SUFFICES ASSUME TypeOK, Accounted, [Next]_vars PROVE Accounted'
    OBVIOUS
  <2>1. CASE SyncStep
    BY <2>1, FetchAccounted, DrainAccounted, ReconcileAccounted DEF SyncStep
  <2>2. CASE Crash
    BY <2>2 DEF Crash, settings, orderbook, sources, world, Accounted, TargetKept,
                DrainCovers, PurgeCovers, Draining, NoForgottenCopies
  <2>3. CASE AdminStep
    BY <2>3, AdminAccounted
  <2>4. CASE UserStep
    BY <2>4, UserAccounted
  <2>5. CASE UNCHANGED vars
    BY <2>5 DEF vars, settings, orderbook, sources, world, runState, drainState,
                Accounted, TargetKept, DrainCovers, PurgeCovers, Draining, Covered,
                Pending, NoForgottenCopies
  <2> QED
    BY <2>1, <2>2, <2>3, <2>4, <2>5 DEF Next
<1> QED
  BY <1>1, <1>2, TypeCorrect, PTL DEF Spec

\* Every collection that holds copies is the target's, has a pending order, or
\* was given up or cut off, in every reachable state: also while a run drains
\* the queue, when responses are lost and after a crash in the middle of it.
THEOREM CopiesNotForgotten ==
    ASSUME ~AdminMidRun, Slots = {"own"}
    PROVE  Spec => []NoForgottenCopies
<1>1. Accounted => NoForgottenCopies
  BY DEF Accounted
<1> QED
  BY <1>1, AccountedInvariant, PTL

-----------------------------------------------------------------------------
(***************************************************************************)
(* The data-loss guard.  The verdict is passed before the first request;   *)
(* it still holds at every later one, because the run keeps the snapshot   *)
(* and the outcomes it was passed on.                                      *)
(***************************************************************************)
\* The run has work to do only where the guard let it.
WorkGuarded ==
    pc = "work" =>
        /\ ~SourceFailed(snap.ids, results)
        /\ \/ Mapped(snap.wanted) # {}
           \/ SourcesVerifiedFresh(snap.ids, results)
           \/ work = {}

\* With nothing wanted, mapped or listed the reconciler has nothing to do.
LEMMA NothingToDo ==
    ASSUME Mapped(snap.wanted) = {}, Mapped(snap.rows) = {},
           NEW own \in Indexes({}), NEW store
    PROVE  Requests(own, {}, store) = {}
<1>1. ASSUME NEW k \in Keys PROVE KeyRequests(k, own, store) = {}
  <2>1. snap.wanted[k] = Null /\ snap.rows[k] = Null /\ own[k] = Null
    BY DEF Mapped, Indexes
  <2> QED
    BY <2>1 DEF KeyRequests
<1>2. ExtraRequests(own, {}, store) = {}
  BY DEF ExtraRequests
<1> QED
  BY <1>1, <1>2 DEF Requests

LEMMA GuardedStep == TypeOK /\ WorkGuarded /\ [Next]_vars => WorkGuarded'
<1> SUFFICES ASSUME TypeOK, WorkGuarded, [Next]_vars, pc' = "work" PROVE WorkGuarded'
  BY DEF WorkGuarded
<1>1. CASE ListCopies
  <2> DEFINE store == cal[snap.col]
             listed == Listed(store)
  <2>1. /\ SkipReason(snap.ids, results, Mapped(snap.wanted),
                      Mapped(snap.rows), listed) = "run"
        /\ snap' = [snap EXCEPT !.seenEdits = edits] /\ results' = results
        /\ \E own \in Indexes(listed) : work' = Requests(own, listed, store)
    BY <1>1 DEF ListCopies, ForgetRun, fetchState
  <2>2. snap'.ids = snap.ids /\ snap'.wanted = snap.wanted
    BY <2>1 DEF TypeOK, RunOK, Snapshot
  <2>3. ~SourceFailed(snap.ids, results)
    BY <2>1 DEF SkipReason
  <2>4. \/ Mapped(snap.wanted) # {}
        \/ SourcesVerifiedFresh(snap.ids, results)
        \/ Mapped(snap.rows) = {} /\ listed = {}
    BY <2>1 DEF SkipReason
  <2>5. ASSUME Mapped(snap.wanted) = {}, Mapped(snap.rows) = {}, listed = {}
        PROVE  work' = {}
    BY <2>1, <2>5, NothingToDo
  <2> QED
    BY <2>1, <2>2, <2>3, <2>4, <2>5
       DEF WorkGuarded, SourceFailed, SourcesVerifiedFresh
<1>2. CASE ~ListCopies
  <2>1. pc = "work" /\ UNCHANGED results /\ work' \subseteq work
        /\ snap' = snap
    BY <1>2 DEF Next, SyncStep, FetchStep, DrainStep, ReconcileStep, AdminStep,
         UserStep, StartSync, FetchOk, FetchFailed, StartMirror, Plan, DropStale,
         DropUnusable, PurgeList, PurgeDelete, PurgeEnd, DrainEnd, ListFailed,
         Refresh, Discard, Send, SendFailed, Settle, Finish, Crash, Due, Visit,
         UpdateMirrorSync, CleanupMirrorSync, DeleteCalendar, RepointCalendar,
         DeleteFeed, ToggleFeed, EditCopy, MoveCopy, RemoveCopy, ImportCopy, Touch,
         Expire, vars, runState, fetchState, workState
  <2> QED
    BY <2>1 DEF WorkGuarded, SourceFailed, SourcesVerifiedFresh
<1> QED
  BY <1>1, <1>2

\* The reconciler takes copies out of a calendar only in a run in which no
\* selected source failed, and with nothing to write only when every selected
\* source was read without error in that run.
THEOREM DeletesAreGuarded == Spec => GuardedDeletes
<1>1. Init => WorkGuarded
  BY DEF Init, WorkGuarded
<1>2. TypeOK /\ WorkGuarded /\ [Next]_vars =>
        [\A c \in Cols, u \in Url :
            AddOnWrites(c, u) /\ pc = "work" /\ cal'[c][u] = NoCopy
               => /\ \A f \in snap.ids : results[f] # "error"
                  /\ \/ Mapped(snap.wanted) # {}
                     \/ snap.ids # {} /\ \A f \in snap.ids : results[f] = "ok"]_vars
  <2> SUFFICES ASSUME TypeOK, WorkGuarded, Next, NEW c \in Cols, NEW u \in Url,
                      AddOnWrites(c, u), pc = "work"
               PROVE  /\ \A f \in snap.ids : results[f] # "error"
                      /\ \/ Mapped(snap.wanted) # {}
                         \/ snap.ids # {} /\ \A f \in snap.ids : results[f] = "ok"
    OBVIOUS
  <2>1. ~UserStep
    <3>1. edits + 1 # edits
      BY CalDavAssumption DEF TypeOK, WorldOK
    <3> QED
      BY <3>1 DEF AddOnWrites, UserStep, EditCopy, MoveCopy, RemoveCopy, ImportCopy,
                  Touch, Expire
  <2>2. cal' # cal
    BY DEF AddOnWrites
  <2>3. work # {}
    BY <2>1, <2>2
       DEF Next, SyncStep, FetchStep, DrainStep, ReconcileStep, AdminStep, StartSync,
           FetchOk, FetchFailed, StartMirror, DropStale, DropUnusable, PurgeList,
           PurgeDelete, PurgeEnd, DrainEnd, ListCopies, ListFailed, Refresh, Discard,
           Settle, Finish, Crash, Visit, UpdateMirrorSync, CleanupMirrorSync,
           DeleteCalendar, RepointCalendar, DeleteFeed, ToggleFeed, world
  <2> QED
    BY <2>3 DEF WorkGuarded, SourceFailed, SourcesVerifiedFresh
<1> QED
  BY <1>1, <1>2, GuardedStep, TypeCorrect, PTL DEF Spec, GuardedDeletes

-----------------------------------------------------------------------------
(***************************************************************************)
(* The user's edits.  They are numbered; a request names the version it    *)
(* replaces, and whatever version the run has, from the listing or from a  *)
(* row, is not younger than the listing.                                   *)
(***************************************************************************)
\* An ETag of a version not younger than the n-th edit, or none.
NotAfter(etag, n) == etag = NoEtag \/ etag.by <= n

CopiesDated == \A c \in Cols, u \in Url : cal[c][u] # NoCopy => cal[c][u].by <= edits

RowsDated ==
    /\ \A k \in Keys : mapping[k] # Null => NotAfter(mapping[k].etag, edits)
    /\ \A k \in Keys : snap.rows[k] # Null => NotAfter(snap.rows[k].etag, edits)
    /\ sent # Null => NotAfter(sent.etag, edits)

MayLackVersion == {"create", "delete", "discard"}
WorkDated ==
    /\ snap.seenEdits <= edits
    /\ pc = "purge" => \A r \in doomed : r.etag.by <= snap.seenEdits
    /\ pc = "work" => \A r \in work :
                         /\ NotAfter(r.etag, snap.seenEdits)
                         /\ r.etag = NoEtag => r.op \in MayLackVersion

Dated == CopiesDated /\ RowsDated /\ WorkDated

\* Only the user edits.
LEMMA EditsGrow ==
    ASSUME TypeOK, [Next]_vars
    PROVE  /\ edits \in Nat /\ edits' \in Nat /\ edits <= edits'
           /\ edits' # edits =>
                 \E c \in Cols, u \in Url, copy \in Copy \cup {NoCopy} :
                    Touch(c, u, copy) /\ (copy # NoCopy => copy.by = edits')
<1>1. edits \in 0..MaxEdits /\ MaxEdits \in Nat
  BY CalDavAssumption DEF TypeOK, WorldOK
<1>2. CASE \E c \in Cols, u \in Url :
          \/ EditCopy(c, u) \/ MoveCopy(c, u) \/ RemoveCopy(c, u)
          \/ \E v \in Url : ImportCopy(c, u, v)
  <2>1. PICK c \in Cols, u \in Url :
          \/ EditCopy(c, u) \/ MoveCopy(c, u) \/ RemoveCopy(c, u)
          \/ \E v \in Url : ImportCopy(c, u, v)
    BY <1>2
  <2>2. edits' = edits + 1 /\ edits + 1 \in 0..MaxEdits
    BY <1>1, <2>1 DEF EditCopy, MoveCopy, RemoveCopy, ImportCopy, Touch
  <2>3. cal[c][u] \in Copy \cup {NoCopy}
    BY DEF TypeOK, WorldOK, Collection
  <2>4. ASSUME cal[c][u] # NoCopy
        PROVE  /\ [cal[c][u] EXCEPT !.by = edits + 1] \in Copy
               /\ [cal[c][u] EXCEPT !.by = edits + 1, !.away = ~@] \in Copy
               /\ [cal[c][u] EXCEPT !.by = edits + 1].by = edits + 1
               /\ [cal[c][u] EXCEPT !.by = edits + 1, !.away = ~@].by = edits + 1
    BY <2>2, <2>3, <2>4 DEF Copy
  <2>5. \E d \in Cols, v \in Url, copy \in Copy \cup {NoCopy} :
           Touch(d, v, copy) /\ (copy # NoCopy => copy.by = edits')
    BY <2>1, <2>2, <2>4 DEF EditCopy, MoveCopy, RemoveCopy, ImportCopy
  <2> QED
    BY <1>1, <2>2, <2>5
<1>3. CASE ~\E c \in Cols, u \in Url :
          \/ EditCopy(c, u) \/ MoveCopy(c, u) \/ RemoveCopy(c, u)
          \/ \E v \in Url : ImportCopy(c, u, v)
  <2>1. edits' = edits
    BY <1>3 DEF Next, SyncStep, FetchStep, DrainStep, ReconcileStep, AdminStep,
         UserStep, StartSync, FetchOk, FetchFailed, StartMirror, DropStale,
         DropUnusable, PurgeList, PurgeDelete, PurgeEnd, DrainEnd, ListCopies, ListFailed,
         Refresh, Discard, Send, SendFailed, Settle, Finish, Crash,
         UpdateMirrorSync, CleanupMirrorSync, DeleteCalendar, RepointCalendar,
         DeleteFeed, ToggleFeed, Expire, vars, world
  <2> QED
    BY <1>1, <2>1
<1> QED
  BY <1>2, <1>3

\* What the add-on puts into a calendar: its own text, or nothing.
LEMMA AddOnWritesOwnText ==
    ASSUME TypeOK, Next, edits' = edits, cal' # cal
    PROVE  \/ \E r \in doomed : PurgeDelete(r)
           \/ \E r \in work : Send(r) \/ SendFailed(r)
<1>1. ~UserStep
  <2>1. edits + 1 # edits
    BY CalDavAssumption DEF TypeOK, WorldOK
  <2> QED
    BY <2>1 DEF UserStep, EditCopy, MoveCopy, RemoveCopy, ImportCopy, Touch, Expire
<1> QED
  BY <1>1
     DEF Next, SyncStep, FetchStep, DrainStep, ReconcileStep, AdminStep, StartSync,
         FetchOk, FetchFailed, StartMirror, DropStale, DropUnusable, PurgeList,
         PurgeEnd, DrainEnd, ListCopies, ListFailed, Refresh, Discard,
         Settle, Finish, Crash, UpdateMirrorSync, CleanupMirrorSync,
         DeleteCalendar, RepointCalendar, DeleteFeed, ToggleFeed, world

\* A step changes one copy at most: the user's edit, or the add-on's text.
LEMMA OneCopyChanges ==
    ASSUME TypeOK, [Next]_vars, cal' # cal
    PROVE  \E c \in Cols, u \in Url, copy \in Copy \cup {NoCopy} :
              /\ cal' = [cal EXCEPT ![c][u] = copy]
              /\ copy # NoCopy => \/ copy.by = edits' /\ edits' # edits
                                  \/ \E v \in Vals : copy = Written(v)
<1>1. CASE edits' # edits
  <2>1. PICK c \in Cols, u \in Url, copy \in Copy \cup {NoCopy} :
           Touch(c, u, copy) /\ (copy # NoCopy => copy.by = edits')
    BY <1>1, EditsGrow
  <2> QED
    BY <1>1, <2>1 DEF Touch
<1>2. CASE edits' = edits
  <2>1. Next
    BY DEF vars, world
  <2>2. ASSUME NEW r \in doomed, PurgeDelete(r)
        PROVE  cal' = [cal EXCEPT ![purging.col][r.url] = NoCopy]
               /\ purging.col \in Cols /\ r.url \in Url
    BY <2>2 DEF PurgeDelete, TypeOK, DrainOK, Purged, Doomed
  <2>3. ASSUME NEW r \in work, Send(r) \/ SendFailed(r)
        PROVE  /\ cal' = [cal EXCEPT ![snap.col][r.url] = AfterWrite(r)]
               /\ snap.col \in Cols /\ r.url \in Url
               /\ AfterWrite(r) \in Copy \cup {NoCopy}
               /\ AfterWrite(r) # NoCopy => \E v \in Vals : AfterWrite(r) = Written(v)
    <3>1. r.url \in Url /\ r.val \in Vals
      BY DEF TypeOK, WorkOK, Request
    <3>2. snap.col \in Cols
      BY <2>3 DEF Send, SendFailed, Due, TypeOK, RunOK, Snapshot
    <3>3. cal' = [cal EXCEPT ![snap.col][r.url] = AfterWrite(r)]
      BY <2>3 DEF Send, SendFailed
    <3> QED
      BY <3>1, <3>2, <3>3, WrittenIsCopy DEF AfterWrite
  <2> QED
    BY <1>2, <2>1, <2>2, <2>3, AddOnWritesOwnText
<1> QED
  BY <1>1, <1>2

LEMMA CopiesStayDated == TypeOK /\ CopiesDated /\ [Next]_vars => CopiesDated'
<1> SUFFICES ASSUME TypeOK, CopiesDated, [Next]_vars PROVE CopiesDated'
  OBVIOUS
<1>1. cal \in [Cols -> [Url -> Copy \cup {NoCopy}]]
  BY DEF TypeOK, WorldOK, Collection
<1>2. edits \in Nat /\ edits' \in Nat /\ edits <= edits'
  BY EditsGrow
<1>3. \A copy \in Copy : copy.by \in Nat
  BY CalDavAssumption DEF Copy
<1>4. CASE cal' = cal
  BY <1>1, <1>2, <1>3, <1>4 DEF CopiesDated
<1>5. CASE cal' # cal
  <2>1. PICK c \in Cols, u \in Url, copy \in Copy \cup {NoCopy} :
           /\ cal' = [cal EXCEPT ![c][u] = copy]
           /\ copy # NoCopy => \/ copy.by = edits' /\ edits' # edits
                               \/ \E v \in Vals : copy = Written(v)
    BY <1>5, OneCopyChanges
  <2>2. copy # NoCopy => copy.by <= edits'
    BY <1>2, <2>1 DEF Written
  <2> QED
    BY <1>1, <1>2, <1>3, <2>1, <2>2 DEF CopiesDated
<1> QED
  BY <1>4, <1>5

\* A request the reconciler decides on names a version that was listed or that
\* a row tells, or is of a kind that may name none.
LEMMA RequestsDated ==
    ASSUME TypeOK, CopiesDated, RowsDated, snap.col \in Cols,
           NEW own \in Indexes(Listed(cal[snap.col])),
           NEW r \in Requests(own, Listed(cal[snap.col]), cal[snap.col])
    PROVE  NotAfter(r.etag, edits) /\ (r.etag = NoEtag => r.op \in MayLackVersion)
<1> DEFINE store == cal[snap.col]
           listed == Listed(store)
<1>1. ASSUME NEW u \in listed
      PROVE  store[u] \in Copy /\ store[u] # NoEtag /\ NotAfter(store[u], edits)
  BY NullsAreNoCopies
     DEF Listed, Held, TypeOK, WorldOK, Collection, CopiesDated, NotAfter
<1>2. CASE r \in ExtraRequests(own, listed, store)
  <2>1. PICK u \in listed : r = Req("extra", u.key, u, store[u], store[u].val)
    BY <1>2 DEF ExtraRequests
  <2> QED
    BY <1>1, <2>1 DEF Req
<1>3. ASSUME NEW k \in Keys, r \in KeyRequests(k, own, store)
      PROVE  NotAfter(r.etag, edits) /\ (r.etag = NoEtag => r.op \in MayLackVersion)
  <2> DEFINE row == snap.rows[k]
  <2>1. own[k] # Null => own[k] \in listed
    BY DEF Indexes
  <2>2. row # Null => NotAfter(row.etag, edits)
    BY DEF RowsDated
  <2>3. CASE row # Null /\ snap.wanted[k] = Null
    <3>1. r = Removal(k, row, own[k], store)
      BY <1>3, <2>3 DEF KeyRequests
    <3> QED
      BY <1>1, <2>1, <2>2, <2>3, <3>1 DEF Removal, Req, MayLackVersion
  <2>4. CASE ~(row # Null /\ snap.wanted[k] = Null)
    <3>1. \/ r = Req("create", k, ResourceUrl(k), NoEtag, snap.wanted[k])
          \/ own[k] # Null /\ r.etag = store[own[k]]
      BY <1>3, <2>4 DEF KeyRequests, Req
    <3> QED
      BY <1>1, <2>1, <3>1 DEF Req, MayLackVersion, NotAfter
  <2> QED
    BY <2>3, <2>4
<1> QED
  BY <1>2, <1>3 DEF Requests

\* The time of the listing and the versions the run works with.
LEMMA WorkStaysDated ==
    TypeOK /\ CopiesDated /\ RowsDated /\ WorkDated /\ [Next]_vars => WorkDated'
<1> SUFFICES ASSUME TypeOK, CopiesDated, RowsDated, WorkDated, [Next]_vars PROVE WorkDated'
  OBVIOUS
<1>1. edits \in Nat /\ edits' \in Nat /\ edits <= edits'
  BY EditsGrow
<1>2. snap.seenEdits \in Nat /\ snap \in Snapshot
  BY CalDavAssumption DEF TypeOK, RunOK, Snapshot
<1>3. ASSUME NEW s \in Calendars, PurgeList(s) PROVE WorkDated'
  <2>1. /\ coll[s] \in Cols /\ pc' = "purge" /\ edits' = edits
        /\ snap' = [snap EXCEPT !.seenEdits = edits]
        /\ doomed' \subseteq {[url |-> u, etag |-> cal[coll[s]][u]] : u \in Held(cal[coll[s]])}
    BY <1>3 DEF PurgeList, Usable, world
  <2>2. snap'.seenEdits = edits
    BY <1>2, <2>1 DEF Snapshot
  <2>3. \A r \in doomed' : r.etag.by <= edits
    BY <2>1 DEF Held, CopiesDated
  <2> QED
    BY <1>1, <2>1, <2>2, <2>3 DEF WorkDated
<1>4. CASE ListCopies
  <2>1. CASE pc' = "idle" /\ ForgetRun
    BY <1>1, <2>1 DEF ForgetRun, NoSnap, WorkDated
  <2>2. CASE ~(pc' = "idle" /\ ForgetRun)
    <3>1. /\ pc' = "work" /\ edits' = edits
          /\ snap' = [snap EXCEPT !.seenEdits = edits]
          /\ \E own \in Indexes(Listed(cal[snap.col])) :
                work' = Requests(own, Listed(cal[snap.col]), cal[snap.col])
      BY <1>4, <2>2 DEF ListCopies, world
    <3>2. snap'.seenEdits = edits
      BY <1>2, <3>1 DEF Snapshot
    <3>3. snap.col \in Cols
      BY <1>4 DEF ListCopies, TypeOK, RunOK, Snapshot
    <3>4. \A r \in work' : NotAfter(r.etag, edits) /\ (r.etag = NoEtag => r.op \in MayLackVersion)
      BY <3>1, <3>3, RequestsDated
    <3> QED
      BY <1>1, <3>1, <3>2, <3>4 DEF WorkDated
  <2> QED
    BY <2>1, <2>2
<1>5. CASE StartMirror \/ DrainEnd
  <2>1. CASE pc' = "idle" /\ ForgetRun
    BY <1>1, <2>1 DEF ForgetRun, NoSnap, WorkDated
  <2>2. CASE StartMirror /\ ~(pc' = "idle" /\ ForgetRun)
    <3>1. pc' \in {"drain", "list"} /\ snap'.seenEdits = 0
      BY <2>2 DEF StartMirror, Plan, NoSnap
    <3> QED
      BY <1>1, <3>1 DEF WorkDated
  <2>3. CASE DrainEnd /\ ~(pc' = "idle" /\ ForgetRun)
    <3>1. /\ pc' = "list" /\ edits' = edits
          /\ snap' = [snap EXCEPT !.ids = sourceIds,
                                  !.wanted = DesiredEvents(sourceIds), !.rows = mapping]
      BY <2>3 DEF DrainEnd, Plan, world
    <3>2. snap'.seenEdits = snap.seenEdits
      BY <1>2, <3>1 DEF Snapshot
    <3> QED
      BY <1>1, <1>2, <3>1, <3>2 DEF WorkDated
  <2> QED
    BY <1>5, <2>1, <2>2, <2>3
<1>6. CASE ListFailed \/ Finish \/ Crash
  BY <1>1, <1>6 DEF ListFailed, Finish, Crash, ForgetRun, NoSnap, WorkDated
<1>7. CASE Settle
  <2>1. \/ ForgetRun /\ pc' = "idle"
        \/ UNCHANGED <<pc, snap, doomed, work>>
    BY <1>7 DEF Settle, drainState
  <2> QED
    BY <1>1, <1>2, <2>1 DEF ForgetRun, NoSnap, WorkDated
<1>8. CASE /\ ~\E s \in Calendars : PurgeList(s)
           /\ ~(ListCopies \/ StartMirror \/ DrainEnd \/ ListFailed \/ Finish \/ Crash \/ Settle)
  <2>1. /\ snap' = snap /\ work' \subseteq work /\ doomed' \subseteq doomed
        /\ pc' = "work" => pc = "work"
        /\ pc' = "purge" => pc = "purge"
    BY <1>8
       DEF Next, SyncStep, FetchStep, DrainStep, ReconcileStep, AdminStep,
           UserStep, StartSync, FetchOk, FetchFailed, DropStale,
           DropUnusable, PurgeDelete, PurgeEnd,
           Refresh, Discard, Send, SendFailed,
           UpdateMirrorSync, CleanupMirrorSync, DeleteCalendar, RepointCalendar,
           DeleteFeed, ToggleFeed, EditCopy, MoveCopy, RemoveCopy, ImportCopy, Touch,
           Expire, vars, runState, drainState, workState
  <2> QED
    BY <1>1, <1>2, <2>1 DEF WorkDated
<1> QED
  BY <1>3, <1>4, <1>5, <1>6, <1>7, <1>8

\* The rows of a snapshot are those of the table when it was taken.
LEMMA RowsAreRead ==
    ASSUME TypeOK, [Next]_vars, NEW k \in Keys
    PROVE  snap'.rows[k] \in {snap.rows[k], mapping[k], Null}
<1>1. CASE ForgetRun
  BY <1>1 DEF ForgetRun, NoSnap
<1>2. CASE ~ForgetRun /\ StartMirror
  <2>1. snap'.rows \in {mapping, NoRows}
    BY <1>2 DEF StartMirror, Plan, NoSnap, NoRows
  <2> QED
    BY <2>1 DEF NoRows
<1>3. CASE ~ForgetRun /\ ~StartMirror
  <2>1. \/ snap' = snap
        \/ snap' = [snap EXCEPT !.seenEdits = edits]
        \/ snap' = [snap EXCEPT !.ids = sourceIds,
                                !.wanted = DesiredEvents(sourceIds), !.rows = mapping]
    BY <1>3
       DEF Next, SyncStep, FetchStep, DrainStep, ReconcileStep, AdminStep, UserStep,
           StartSync, FetchOk, FetchFailed, DropStale, DropUnusable, PurgeList,
           PurgeDelete, PurgeEnd, DrainEnd, Plan, ListCopies, ListFailed, Refresh,
           Discard, Send, SendFailed, Settle, Finish, Crash, UpdateMirrorSync,
           CleanupMirrorSync, DeleteCalendar, RepointCalendar, DeleteFeed, ToggleFeed,
           EditCopy, MoveCopy, RemoveCopy, ImportCopy, Touch, Expire, vars, runState
  <2>2. snap'.rows \in {snap.rows, mapping}
    BY <2>1 DEF TypeOK, RunOK, Snapshot
  <2> QED
    BY <2>2
<1> QED
  BY <1>1, <1>2, <1>3

\* The versions that rows and responses tell.
LEMMA RowsStayDated ==
    TypeOK /\ RowsDated /\ WorkDated /\ [Next]_vars => RowsDated'
<1> SUFFICES ASSUME TypeOK, RowsDated, WorkDated, [Next]_vars PROVE RowsDated'
  OBVIOUS
<1>1. edits \in Nat /\ edits' \in Nat /\ edits <= edits'
  BY EditsGrow
<1>2. \A e \in Etag : NotAfter(e, edits) => NotAfter(e, edits')
  BY <1>1, CalDavAssumption DEF NotAfter, Etag, Copy
<1>3. /\ mapping \in [Keys -> Row \cup {Null}]
      /\ snap \in Snapshot /\ snap.rows \in [Keys -> Row \cup {Null}]
      /\ sent # Null => sent.etag \in Etag
      /\ \A row \in Row : row.etag \in Etag
  BY DEF TypeOK, StoredOK, RunOK, WorkOK, Snapshot, Sent, Row
<1>4. \A k \in Keys : /\ mapping[k] # Null => NotAfter(mapping[k].etag, edits')
                      /\ snap.rows[k] # Null => NotAfter(snap.rows[k].etag, edits')
  BY <1>2, <1>3 DEF RowsDated
<1>5. sent # Null => NotAfter(sent.etag, edits')
  BY <1>2, <1>3 DEF RowsDated
<1>6. \A k \in Keys : mapping'[k] # Null => NotAfter(mapping'[k].etag, edits')
  <2>1. ASSUME NEW r \in work, Refresh(r)
        PROVE  \A k \in Keys : mapping'[k] # Null => NotAfter(mapping'[k].etag, edits')
    <3>1. NotAfter(r.etag, snap.seenEdits) /\ r.etag \in Etag
      BY <2>1 DEF Refresh, Due, WorkDated, TypeOK, WorkOK, Request
    <3>2. NotAfter(r.etag, edits')
      BY <1>1, <3>1, CalDavAssumption
         DEF NotAfter, WorkDated, TypeOK, RunOK, Snapshot, Etag, Copy
    <3> QED
      BY <1>3, <1>4, <2>1, <3>2 DEF Refresh, StoreRow
  <2>2. CASE Settle
    <3>1. \/ mapping' = mapping
          \/ StoreRow(sent.req, sent.etag) /\ sent # Null
          \/ DropRow(sent.req)
      BY <2>2 DEF Settle
    <3> QED
      BY <1>3, <1>4, <1>5, <3>1 DEF StoreRow, DropRow
  <2>3. ASSUME NEW r \in work, Discard(r)
        PROVE  \A k \in Keys : mapping'[k] # Null => NotAfter(mapping'[k].etag, edits')
    BY <1>3, <1>4, <2>3 DEF Discard, DropRow
  <2>4. CASE ~Settle /\ ~\E r \in work : Refresh(r) \/ Discard(r)
    <3>1. mapping' \in {mapping, NoRows}
      BY <2>4
         DEF Next, SyncStep, FetchStep, DrainStep, ReconcileStep, AdminStep, UserStep,
             StartSync, FetchOk, FetchFailed, StartMirror, DropStale, DropUnusable,
             PurgeList, PurgeDelete, PurgeEnd, DrainEnd, ListCopies, ListFailed, Send,
             SendFailed, Finish, Crash, UpdateMirrorSync, CleanupMirrorSync,
             DeleteCalendar, RepointCalendar, DeleteFeed, ToggleFeed, EditCopy, MoveCopy,
             RemoveCopy, ImportCopy, Touch, Expire, vars
    <3> QED
      BY <1>4, <3>1 DEF NoRows
  <2> QED
    BY <2>1, <2>2, <2>3, <2>4
<1>7. \A k \in Keys : snap'.rows[k] # Null => NotAfter(snap'.rows[k].etag, edits')
  <2>1. \A k \in Keys : snap'.rows[k] \in {snap.rows[k], mapping[k], Null}
    BY RowsAreRead
  <2> QED
    BY <1>4, <2>1
<1>8. sent' # Null => NotAfter(sent'.etag, edits')
  <2>1. ASSUME NEW r \in work, Send(r) PROVE sent'.etag \in {NoEtag, AfterWrite(r)}
    BY <2>1 DEF Send, PutEtags
  <2>2. ASSUME NEW r \in work, Send(r) PROVE NotAfter(sent'.etag, edits')
    <3>1. AfterWrite(r) # NoCopy => AfterWrite(r).by = 0
      BY DEF AfterWrite, Written
    <3>2. sent'.etag = AfterWrite(r) => sent'.etag = NoEtag \/ AfterWrite(r) # NoCopy
      <4>1. r.op \notin {"create", "update"} => sent'.etag = NoEtag
        BY <2>2 DEF Send
      <4>2. r.op \in {"create", "update"} => AfterWrite(r) = Written(r.val)
        BY DEF AfterWrite
      <4>3. Written(r.val) \in Copy
        BY WrittenIsCopy DEF TypeOK, WorkOK, Request
      <4> QED
        BY <4>1, <4>2, <4>3, NullsAreNoCopies
    <3> QED
      BY <1>1, <2>1, <2>2, <3>1, <3>2 DEF NotAfter
  <2>3. ASSUME NEW r \in work, SendFailed(r) PROVE NotAfter(sent'.etag, edits')
    BY <2>3 DEF SendFailed, NotAfter
  <2>4. CASE ~\E r \in work : Send(r) \/ SendFailed(r)
    <3>1. sent' \in {sent, Null}
      BY <2>4
         DEF Next, SyncStep, FetchStep, DrainStep, ReconcileStep, AdminStep, UserStep,
             StartSync, FetchOk, FetchFailed, StartMirror, Plan, DropStale, DropUnusable,
             PurgeList, PurgeDelete, PurgeEnd, DrainEnd, ListCopies, ListFailed, Refresh,
             Discard, Settle, Finish, Crash, UpdateMirrorSync, CleanupMirrorSync,
             DeleteCalendar, RepointCalendar, DeleteFeed, ToggleFeed, EditCopy, MoveCopy,
             RemoveCopy, ImportCopy, Touch, Expire, vars, runState, workState, ForgetRun
    <3> QED
      BY <1>5, <3>1
  <2> QED
    BY <2>2, <2>3, <2>4
<1> QED
  BY <1>6, <1>7, <1>8 DEF RowsDated

\* A copy the user changed after the run had listed the calendar is neither
\* overwritten nor deleted, unless the request could name no version: an edit
\* between listing and request always wins.
THEOREM EditsAreKept == Spec => NoClobberedEdit
<1>1. Init => Dated
  BY DEF Init, Dated, CopiesDated, RowsDated, WorkDated, EmptyCollection, NoSnap, NoRows
<1>2. TypeOK /\ Dated /\ [Next]_vars => Dated'
  BY CopiesStayDated, RowsStayDated, WorkStaysDated DEF Dated
<1>3. ASSUME TypeOK, Dated, Next, NEW c \in Cols, NEW u \in Url,
             AddOnWrites(c, u), cal[c][u] # NoCopy, ~NamesNoVersion
      PROVE  cal[c][u].by <= snap.seenEdits
  <2>1. edits' = edits /\ cal' # cal
    BY <1>3 DEF AddOnWrites
  <2>2. cal \in [Cols -> [Url -> Copy \cup {NoCopy}]]
    BY <1>3 DEF TypeOK, WorldOK, Collection
  <2>3. ASSUME NEW r \in doomed, PurgeDelete(r) PROVE cal[c][u].by <= snap.seenEdits
    <3>1. /\ pc = "purge" /\ r.etag \in Copy
          /\ IfMatch(cal[purging.col], r.url, r.etag)
          /\ cal' = [cal EXCEPT ![purging.col][r.url] = NoCopy]
      BY <1>3, <2>1, <2>3 DEF PurgeDelete, TypeOK, DrainOK, Doomed
    <3>2. c = purging.col /\ u = r.url
      BY <1>3, <2>2, <3>1 DEF AddOnWrites
    <3>3. cal[c][u] = r.etag
      BY <3>1, <3>2, NullsAreNoCopies DEF IfMatch
    <3> QED
      BY <1>3, <2>3, <3>1, <3>3 DEF Dated, WorkDated
  <2>4. ASSUME NEW r \in work, Send(r) \/ SendFailed(r)
        PROVE  cal[c][u].by <= snap.seenEdits
    <3>1. /\ pc = "work" /\ sent'.req = r /\ r.op # "discard"
          /\ Accepts(cal[snap.col], r)
          /\ cal' = [cal EXCEPT ![snap.col][r.url] = AfterWrite(r)]
      BY <2>1, <2>4 DEF Send, SendFailed, Due
    <3>2. c = snap.col /\ u = r.url
      BY <1>3, <2>2, <3>1 DEF AddOnWrites
    <3>3. r.op # "create" /\ r.etag \in {cal[c][u], NoEtag}
      BY <1>3, <3>1, <3>2 DEF Accepts, CreateAccepted, IfMatch
    <3>4. r.etag # NoEtag
      BY <1>3, <3>1, <3>3 DEF NamesNoVersion, Dated, WorkDated, MayLackVersion
    <3> QED
      BY <1>3, <2>4, <3>1, <3>3, <3>4 DEF Dated, WorkDated, NotAfter
  <2> QED
    BY <1>3, <2>1, <2>3, <2>4, AddOnWritesOwnText
<1>4. TypeOK /\ Dated /\ [Next]_vars =>
        [\A c \in Cols, u \in Url :
            AddOnWrites(c, u) /\ cal[c][u] # NoCopy /\ ~NamesNoVersion
               => cal[c][u].by <= snap.seenEdits]_vars
  BY <1>3
<1> QED
  BY <1>1, <1>2, <1>4, TypeCorrect, PTL DEF Spec, NoClobberedEdit

-----------------------------------------------------------------------------
(***************************************************************************)
(* The reconciler.  What is still to be done about a key, what its row     *)
(* says and what the calendar holds of it fit together at every moment of  *)
(* a run that nobody interferes with and that meets no conflict; at its    *)
(* end, nothing is left to be done.  Keys do not get in each other's way,  *)
(* because a request for one is never about the URL of another.            *)
(***************************************************************************)
RowsKeyed ==
    /\ \A k \in Keys : mapping[k] # Null => mapping[k].url.key = k
    /\ \A k \in Keys : snap.rows[k] # Null => snap.rows[k].url.key = k

WorkKeyed ==
    /\ \A r \in work : r.url.key = r.key
    /\ sent # Null => sent.req.url.key = sent.req.key
    /\ pc # "work" => sent = Null

\* Appointments of the past are not wanted, and before the listing nobody but
\* the run changes the rows it has read.
SnapFresh ==
    pc \in {"list", "work"} =>
        /\ \A k \in Keys : snap.wanted[k] # Null => k \notin past
        /\ pc = "list" /\ ~disturbed => mapping = snap.rows

CopiesOf(k) == {u \in Listed(cal[snap.col]) : u.key = k}
Todo(k) == {r \in work : r.key = k}
UnderWay(k) == sent # Null /\ sent.req.key = k

RowFits(k, u) ==
    /\ mapping[k] # Null
    /\ mapping[k].col = snap.col /\ mapping[k].url = u
    /\ mapping[k].val = snap.wanted[k]
    /\ mapping[k].etag \in {cal[snap.col][u], NoEtag}

\* A wanted appointment without a copy is about to get one ...
Creating(k) ==
    /\ CopiesOf(k) = {} /\ ~UnderWay(k)
    /\ \A r \in Todo(k) : r.op = "create" /\ r.url = ResourceUrl(k) /\ r.val = snap.wanted[k]
    /\ Todo(k) # {} /\ \A q, r \in Todo(k) : q = r

\* ... or u is the copy that stays: all others go, and its row fits or will.
Keeping(k, u) ==
    /\ u \in CopiesOf(k)
    /\ \A v \in CopiesOf(k) \ {u} : \E r \in Todo(k) : r.op = "extra" /\ r.url = v
    /\ \A r \in Todo(k) :
          IF r.op = "extra" THEN r.url # u
          ELSE /\ r.op \in {"update", "refresh"}
               /\ r.url = u /\ r.val = snap.wanted[k] /\ r.etag = cal[snap.col][u]
    /\ \A q, r \in Todo(k) : q.op # "extra" /\ r.op # "extra" => q = r
    /\ UnderWay(k) => sent.req.op \in {"create", "update", "extra"}
    /\ IF \E r \in Todo(k) : r.op # "extra" THEN ~UnderWay(k)
       ELSE IF UnderWay(k) /\ sent.req.op \in {"create", "update"}
       THEN /\ sent.req.url = u /\ sent.req.val = snap.wanted[k]
            /\ sent.etag \in {cal[snap.col][u], NoEtag}
       ELSE RowFits(k, u)

\* Nothing stays of what nobody wants.
Removing(k) ==
    /\ \A u \in CopiesOf(k) : \E r \in Todo(k) : r.url = u /\ r.op # "discard"
    /\ \A r \in Todo(k) : Phase(r.op) # 1
    /\ mapping[k] # Null => UnderWay(k) \/ \E r \in Todo(k) : r.op \in {"delete", "discard"}
    /\ UnderWay(k) => Phase(sent.req.op) # 1

OnTrack(k) == IF snap.wanted[k] = Null THEN Removing(k)
              ELSE Creating(k) \/ \E u \in Url : Keeping(k, u)

Undisturbed ==
    pc = "work" /\ ~disturbed /\ ~conflicts /\ (sent # Null => sent.reply = "done")

Tracked == RowsKeyed /\ WorkKeyed /\ SnapFresh /\ (Undisturbed => \A k \in Keys : OnTrack(k))

LEMMA PhaseOne == \A op \in Ops : Phase(op) = 1 <=> op \in {"create", "update", "refresh"}
BY DEF Ops, Phase

LEMMA ExtrasLast == \A op \in Ops : /\ Phase("extra") <= Phase(op) => op = "extra"
                                    /\ Phase(op) \in 1..4 /\ Phase("extra") = 4
BY DEF Ops, Phase

\* What happens to other keys does not matter to a key.
LEMMA OthersStayOnTrack ==
    ASSUME NEW k \in Keys, OnTrack(k), UNCHANGED <<snap, past>>, Todo(k)' = Todo(k),
           \A u \in Url : u.key = k => cal'[snap.col][u] = cal[snap.col][u],
           mapping'[k] = mapping[k], ~UnderWay(k), ~UnderWay(k)'
    PROVE  OnTrack(k)'
<1>1. CopiesOf(k)' = CopiesOf(k)
  BY DEF CopiesOf, Listed, Held
<1>2. Removing(k) => Removing(k)'
  BY <1>1 DEF Removing
<1>3. Creating(k) => Creating(k)'
  BY <1>1 DEF Creating
<1>4. ASSUME NEW u \in Url, Keeping(k, u) PROVE Keeping(k, u)'
  <2>1. u.key = k
    BY <1>4 DEF Keeping, CopiesOf
  <2>2. cal'[snap.col][u] = cal[snap.col][u]
    BY <2>1
  <2> QED
    BY <1>1, <1>4, <2>2 DEF Keeping, RowFits
<1> QED
  BY <1>2, <1>3, <1>4 DEF OnTrack

\* What the reconciler decides about each key puts it on track.
LEMMA ListedIsOnTrack ==
    ASSUME TypeOK, Tracked, ListCopies, pc' = "work", ~disturbed, NEW k \in Keys
    PROVE  OnTrack(k)'
<1> DEFINE store == cal[snap.col]
           listed == Listed(store)
           row == snap.rows[k]
           val == snap.wanted[k]
<1>1. PICK own \in Indexes(listed) : work' = Requests(own, listed, store)
  BY DEF ListCopies
<1>2. /\ pc = "list" /\ snap' = [snap EXCEPT !.seenEdits = edits]
      /\ UNCHANGED <<cal, past, mapping, sent>>
  BY DEF ListCopies, world
<1>3. snap'.col = snap.col /\ snap'.wanted = snap.wanted /\ snap.col \in Cols
  BY <1>2 DEF TypeOK, RunOK, Snapshot
<1>4. ~UnderWay(k)' /\ mapping'[k] = row
  BY <1>2 DEF Tracked, WorkKeyed, SnapFresh, UnderWay
<1>5. CopiesOf(k)' = {u \in listed : u.key = k} /\ listed \subseteq Url
  BY <1>2, <1>3 DEF CopiesOf, Listed, Held
<1>6. own[k] = Null \/ (own[k] \in listed /\ own[k].key = k)
  BY DEF Indexes
<1>7. own[k] = Null => CopiesOf(k)' = {}
  BY <1>5 DEF Indexes
<1>9. /\ \A q \in KeyRequests(k, own, store) : q.key = k /\ q.op # "extra"
      /\ \A q, r \in KeyRequests(k, own, store) : q = r
  BY DEF KeyRequests, Removal, Req
<1>10. \A j \in Keys : \A q \in KeyRequests(j, own, store) : q.key = j
  BY DEF KeyRequests, Removal, Req
<1>11. Todo(k)' = KeyRequests(k, own, store)
                  \cup {r \in ExtraRequests(own, listed, store) : r.key = k}
  BY <1>1, <1>9, <1>10 DEF Todo, Requests
<1>12. /\ \A r \in ExtraRequests(own, listed, store) :
             r.op = "extra" /\ r.url \in listed /\ r.key = r.url.key /\ r.url # own[r.key]
       /\ \A u \in listed : u.key = k /\ u # own[k] =>
             \E r \in ExtraRequests(own, listed, store) : r.key = k /\ r.url = u
  <2>1. ASSUME NEW r \in ExtraRequests(own, listed, store)
        PROVE  r.op = "extra" /\ r.url \in listed /\ r.key = r.url.key /\ r.url # own[r.key]
    <3>1. PICK u \in listed : /\ u # own[u.key]
                             /\ r = Req("extra", u.key, u, store[u], store[u].val)
      BY DEF ExtraRequests
    <3> QED
      BY <3>1 DEF Req
  <2>2. ASSUME NEW u \in listed, u.key = k, u # own[k]
        PROVE  \E r \in ExtraRequests(own, listed, store) : r.key = k /\ r.url = u
    <3>1. Req("extra", u.key, u, store[u], store[u].val) \in ExtraRequests(own, listed, store)
      BY <2>2 DEF ExtraRequests
    <3> QED
      BY <2>2, <3>1 DEF Req
  <2> QED
    BY <2>1, <2>2
<1>13. CASE val = Null
  <2>1. \A r \in KeyRequests(k, own, store) : r.op \in {"delete", "discard", "orphan"}
    BY <1>13 DEF KeyRequests, Removal, Req
  <2>2. own[k] # Null => \E r \in KeyRequests(k, own, store) : r.url = own[k] /\ r.op # "discard"
    BY <1>13 DEF KeyRequests, Removal, Req
  <2>3. row # Null => \E r \in KeyRequests(k, own, store) : r.op \in {"delete", "discard"}
    BY <1>13 DEF KeyRequests, Removal, Req
  <2>4. \A u \in CopiesOf(k)' : \E r \in Todo(k)' : r.url = u /\ r.op # "discard"
    <3> SUFFICES ASSUME NEW u \in CopiesOf(k)'
                 PROVE  \E r \in Todo(k)' : r.url = u /\ r.op # "discard"
      OBVIOUS
    <3>1. u \in listed /\ u.key = k /\ own[k] # Null
      BY <1>5, <1>7
    <3>2. CASE u = own[k]
      BY <1>11, <2>2, <3>1, <3>2
    <3>3. CASE u # own[k]
      BY <1>11, <1>12, <3>1, <3>3
    <3> QED
      BY <3>2, <3>3
  <2>5. \A r \in Todo(k)' : Phase(r.op) # 1
    BY <1>11, <1>12, <2>1 DEF Phase
  <2> QED
    BY <1>3, <1>4, <1>11, <1>13, <2>3, <2>4, <2>5 DEF OnTrack, Removing
<1>14. CASE val # Null /\ own[k] = Null
  <2>1. KeyRequests(k, own, store) = {Req("create", k, ResourceUrl(k), NoEtag, val)}
    BY <1>14 DEF KeyRequests
  <2>2. {r \in ExtraRequests(own, listed, store) : r.key = k} = {}
    BY <1>5, <1>7, <1>12, <1>14
  <2>3. Todo(k)' = {Req("create", k, ResourceUrl(k), NoEtag, val)}
    BY <1>11, <2>1, <2>2
  <2>4. /\ \A r \in Todo(k)' : r.op = "create" /\ r.url = ResourceUrl(k) /\ r.val = val
        /\ Todo(k)' # {} /\ \A q, r \in Todo(k)' : q = r
    BY <2>3 DEF Req
  <2>5. Creating(k)'
    BY <1>3, <1>4, <1>7, <1>14, <2>4 DEF Creating, ResourceUrl
  <2> QED
    BY <1>3, <1>14, <2>5 DEF OnTrack
<1>15. CASE val # Null /\ own[k] # Null
  <2> DEFINE u == own[k]
  <2>1. u \in CopiesOf(k)' /\ u \in Url
    BY <1>5, <1>6, <1>15
  <2>2. \A r \in KeyRequests(k, own, store) :
           r.op \in {"update", "refresh"} /\ r.url = u /\ r.val = val /\ r.etag = store[u]
    BY <1>15 DEF KeyRequests, Req
  <2>3. KeyRequests(k, own, store) = {} =>
           /\ row # Null /\ row.val = val /\ row.etag = store[u]
           /\ row.url = u /\ row.col = snap.col
    BY <1>15 DEF KeyRequests, Differs
  <2>4. \A v \in CopiesOf(k)' \ {u} : \E r \in Todo(k)' : r.op = "extra" /\ r.url = v
    BY <1>5, <1>11, <1>12
  <2>5. \A r \in Todo(k)' : IF r.op = "extra" THEN r.url # u ELSE r \in KeyRequests(k, own, store)
    BY <1>9, <1>11, <1>12
  <2>6. (\E r \in Todo(k)' : r.op # "extra") \/ KeyRequests(k, own, store) = {}
    BY <1>9, <1>11
  <2>7. cal'[snap'.col] = store
    BY <1>2, <1>3
  <2>8. KeyRequests(k, own, store) = {} => RowFits(k, u)'
    BY <1>3, <1>4, <2>3, <2>7 DEF RowFits
  <2>9. Keeping(k, u)'
    BY <1>3, <1>4, <1>9, <2>1, <2>2, <2>4, <2>5, <2>6, <2>7, <2>8 DEF Keeping
  <2> QED
    BY <1>3, <1>15, <2>1, <2>9 DEF OnTrack
<1> QED
  BY <1>13, <1>14, <1>15

\* What is written for a wanted appointment is listed from then on.
LEMMA WantedIsListed ==
    ASSUME TypeOK, Tracked, pc = "work", NEW k \in Keys, snap.wanted[k] # Null,
           NEW v \in Vals
    PROVE  k \notin past /\ Written(v) # NoCopy /\ Written(v).away = FALSE
BY WrittenIsCopy, NullsAreNoCopies DEF Tracked, SnapFresh, Written

LEMMA SentIsSent ==
    ASSUME TypeOK, NEW r \in work, Send(r)
    PROVE  sent'.req = r /\ sent' # Null
<1>1. r \in Request /\ Written(r.val) \in Etag
  BY WrittenIsCopy DEF TypeOK, WorkOK, Request, Etag
<1>2. \A reply \in {"done", "conflict"}, e \in Etag :
        LET s == [req |-> r, reply |-> reply, etag |-> e] IN s \in Sent /\ s.req = r
  BY <1>1 DEF Sent
<1>3. \E reply \in {"done", "conflict"}, e \in Etag :
        sent' = [req |-> r, reply |-> reply, etag |-> e]
  <2>1. CASE Accepts(cal[snap.col], r)
    <3>1. \E e \in Etag : sent' = [req |-> r, reply |-> "done", etag |-> e]
      BY <1>1, <2>1 DEF Send, PutEtags, AfterWrite, Etag
    <3> QED
      BY <3>1
  <2>2. CASE ~Accepts(cal[snap.col], r)
    BY <2>2 DEF Send, Etag
  <2> QED
    BY <2>1, <2>2
<1> QED
  BY <1>2, <1>3, NullIsNoRecord

\* A request that the server carried out.
LEMMA SendStaysOnTrack ==
    ASSUME TypeOK, Tracked, NEW r \in work, Send(r), Undisturbed', NEW k \in Keys
    PROVE  OnTrack(k)'
<1> DEFINE store == cal[snap.col]
<1>1. /\ Due(r) /\ pc = "work" /\ sent = Null /\ Undisturbed /\ sent' # Null
      /\ r.op \in Ops \ {"refresh", "discard"}
      /\ work' = work \ {r} /\ sent'.req = r /\ sent'.reply = "done"
      /\ UNCHANGED <<snap, past, mapping>>
  <2>1. sent'.req = r /\ sent' # Null
    BY SentIsSent
  <2> QED
    BY <2>1 DEF Send, Due, Undisturbed, TypeOK, WorkOK, Request
<1>2. OnTrack(k) /\ r.url.key = r.key /\ r.key \in Keys /\ r.url \in Url /\ r.val \in Vals
  BY <1>1 DEF Tracked, WorkKeyed, TypeOK, WorkOK, Request
<1>3. snap.col \in Cols /\ store \in [Url -> Copy \cup {NoCopy}]
      /\ cal \in [Cols -> [Url -> Copy \cup {NoCopy}]]
  BY <1>1 DEF TypeOK, RunOK, Snapshot, WorldOK, Collection
<1>4. \A u \in Url : u # r.url => cal'[snap.col][u] = store[u]
  BY <1>3 DEF Send
<1>5. cal'[snap.col][r.url] = AfterWrite(r)
  <2>1. CASE Accepts(store, r)
    BY <1>2, <1>3, <2>1 DEF Send
  <2>2. CASE ~Accepts(store, r)
    BY <1>1, <2>2 DEF Send, AlreadyGone, AfterWrite
  <2> QED
    BY <2>1, <2>2
<1>6. r.op \in {"create", "update"} => sent'.etag \in {AfterWrite(r), NoEtag}
  BY <1>1 DEF Send, PutEtags
<1>7. Todo(k)' = Todo(k) \ {r} /\ ~UnderWay(k) /\ (UnderWay(k)' <=> k = r.key)
  BY <1>1 DEF Todo, UnderWay
<1>8. CASE k # r.key
  <2>1. Todo(k)' = Todo(k)
    BY <1>7, <1>8 DEF Todo
  <2>2. \A u \in Url : u.key = k => cal'[snap.col][u] = cal[snap.col][u]
    BY <1>2, <1>4, <1>8
  <2> QED
    BY <1>1, <1>2, <1>7, <1>8, <2>1, <2>2, OthersStayOnTrack
<1>9. ASSUME k = r.key, r.op \notin {"create", "update"}
      PROVE  CopiesOf(k)' = CopiesOf(k) \ {r.url}
  <2>1. cal'[snap.col][r.url] = NoCopy
    BY <1>5, <1>9 DEF AfterWrite
  <2> QED
    BY <1>1, <1>2, <1>4, <2>1 DEF CopiesOf, Listed, Held
<1>10. ASSUME k = r.key, r.op \in {"create", "update"}, snap.wanted[k] # Null
       PROVE  CopiesOf(k)' = CopiesOf(k) \cup {r.url}
  <2>1. cal'[snap.col][r.url] = Written(r.val)
    BY <1>5, <1>10 DEF AfterWrite
  <2>2. k \notin past /\ Written(r.val) # NoCopy /\ Written(r.val).away = FALSE
    BY <1>1, <1>2, <1>10, WantedIsListed
  <2> QED
    BY <1>1, <1>2, <1>4, <1>10, <2>1, <2>2 DEF CopiesOf, Listed, Held
<1>11. CASE k = r.key /\ snap.wanted[k] = Null
  <2>1. Removing(k)
    BY <1>2, <1>11 DEF OnTrack
  <2>2. Phase(r.op) # 1 /\ r.op \notin {"create", "update"}
    BY <1>1, <1>11, <2>1, PhaseOne DEF Removing, Todo
  <2>3. \A u \in CopiesOf(k)' : \E q \in Todo(k)' : q.url = u /\ q.op # "discard"
    BY <1>7, <1>9, <1>11, <2>1, <2>2 DEF Removing
  <2>4. Removing(k)'
    BY <1>1, <1>7, <1>11, <2>1, <2>2, <2>3 DEF Removing
  <2> QED
    BY <1>1, <1>11, <2>4 DEF OnTrack
<1>12. CASE k = r.key /\ snap.wanted[k] # Null /\ Creating(k)
  <2> DEFINE u == ResourceUrl(k)
  <2>1. r.op = "create" /\ r.url = u /\ r.val = snap.wanted[k] /\ Todo(k)' = {}
    BY <1>7, <1>12 DEF Creating, Todo
  <2>2. CopiesOf(k)' = {u} /\ u \in Url
    BY <1>2, <1>10, <1>12, <2>1 DEF Creating
  <2>3. sent'.etag \in {cal'[snap.col][u], NoEtag}
    BY <1>5, <1>6, <2>1
  <2>4. Keeping(k, u)'
    BY <1>1, <1>7, <1>12, <2>1, <2>2, <2>3 DEF Keeping, ResourceUrl
  <2> QED
    BY <1>1, <1>12, <2>2, <2>4 DEF OnTrack
<1>13. CASE k = r.key /\ snap.wanted[k] # Null /\ ~Creating(k)
  <2>1. PICK u \in Url : Keeping(k, u)
    BY <1>2, <1>13 DEF OnTrack
  <2>2. r \in Todo(k) /\ r.op \in {"extra", "update"}
    BY <1>1, <1>13, <2>1 DEF Keeping, Todo
  <2>3. \A q \in Todo(k)' : q.op = "extra"
    <3>1. CASE r.op = "update"
      BY <1>7, <2>1, <2>2, <3>1 DEF Keeping
    <3>2. CASE r.op = "extra"
      <4>1. \A q \in work : Phase("extra") <= Phase(q.op) /\ q.op \in Ops
        BY <1>1, <3>2 DEF Due, TypeOK, WorkOK, Request
      <4> QED
        BY <1>7, <4>1, ExtrasLast DEF Todo
    <3> QED
      BY <2>2, <3>1, <3>2
  <2>4. CASE r.op = "extra"
    <3>1. r.url # u /\ RowFits(k, u) /\ u \in CopiesOf(k)
      BY <1>7, <2>1, <2>2, <2>3, <2>4 DEF Keeping
    <3>2. CopiesOf(k)' = CopiesOf(k) \ {r.url} /\ u \in CopiesOf(k)'
      BY <1>9, <1>13, <2>4, <3>1
    <3>3. RowFits(k, u)'
      BY <1>1, <1>4, <3>1 DEF RowFits
    <3>4. \A v \in CopiesOf(k)' \ {u} : \E q \in Todo(k)' : q.op = "extra" /\ q.url = v
      BY <1>7, <2>1, <3>2 DEF Keeping
    <3>5. \A q \in Todo(k)' : q.url # u
      BY <1>7, <2>1, <2>3 DEF Keeping
    <3>6. Keeping(k, u)'
      BY <1>1, <2>3, <2>4, <3>2, <3>3, <3>4, <3>5 DEF Keeping
    <3> QED
      BY <1>1, <1>13, <3>6 DEF OnTrack
  <2>5. CASE r.op = "update"
    <3>1. r.url = u /\ r.val = snap.wanted[k] /\ u \in CopiesOf(k)
      BY <2>1, <2>2, <2>5 DEF Keeping
    <3>2. CopiesOf(k)' = CopiesOf(k)
      BY <1>10, <1>13, <2>5, <3>1
    <3>3. sent'.etag \in {cal'[snap.col][u], NoEtag}
      BY <1>5, <1>6, <2>5, <3>1
    <3>4. \A v \in CopiesOf(k)' \ {u} : \E q \in Todo(k)' : q.op = "extra" /\ q.url = v
      BY <1>7, <2>1, <2>5, <3>2 DEF Keeping
    <3>5. \A q \in Todo(k)' : q.url # u
      BY <1>7, <2>1, <2>3 DEF Keeping
    <3>6. Keeping(k, u)'
      BY <1>1, <1>7, <1>13, <2>3, <2>5, <3>1, <3>2, <3>3, <3>4, <3>5 DEF Keeping
    <3> QED
      BY <1>1, <1>13, <3>6 DEF OnTrack
  <2> QED
    BY <2>2, <2>4, <2>5
<1> QED
  BY <1>8, <1>11, <1>12, <1>13

\* The row stored, kept or dropped after a response.
LEMMA SettleStaysOnTrack ==
    ASSUME TypeOK, Tracked, Settle, Undisturbed', NEW k \in Keys
    PROVE  OnTrack(k)'
<1> DEFINE r == sent.req
<1>1. /\ pc = "work" /\ sent # Null /\ sent.reply = "done" /\ sent' = Null /\ Undisturbed
      /\ UNCHANGED <<snap, past, cal, work>>
      /\ IF r.op \in {"create", "update"} THEN StoreRow(r, sent.etag)
         ELSE IF r.op = "extra" /\ snap.wanted[r.key] # Null THEN UNCHANGED mapping
         ELSE DropRow(r)
  BY DEF Settle, Undisturbed, world, ForgetRun
<1>2. OnTrack(k) /\ r.key \in Keys /\ r.op \in Ops
  BY <1>1 DEF Tracked, TypeOK, WorkOK, Sent, Request
<1>3. mapping \in [Keys -> Row \cup {Null}]
  BY DEF TypeOK, StoredOK
<1>4. ~UnderWay(k)' /\ (UnderWay(k) <=> k = r.key) /\ Todo(k)' = Todo(k)
      /\ CopiesOf(k)' = CopiesOf(k)
  BY <1>1 DEF UnderWay, Todo, CopiesOf, Listed, Held
<1>5. CASE k # r.key
  <2>1. mapping'[k] = mapping[k]
    BY <1>1, <1>3, <1>5 DEF StoreRow, DropRow
  <2> QED
    BY <1>1, <1>2, <1>4, <1>5, <2>1, OthersStayOnTrack
<1>6. CASE k = r.key /\ snap.wanted[k] = Null
  <2>1. Removing(k) /\ r.op \notin {"create", "update"}
    BY <1>2, <1>4, <1>6, PhaseOne DEF OnTrack, Removing
  <2>2. mapping'[k] = Null
    BY <1>1, <1>3, <1>6, <2>1 DEF DropRow
  <2>3. Removing(k)'
    BY <1>4, <2>1, <2>2 DEF Removing
  <2> QED
    BY <1>1, <1>6, <2>3 DEF OnTrack
<1>7. CASE k = r.key /\ snap.wanted[k] # Null
  <2>1. PICK u \in Url : Keeping(k, u)
    BY <1>2, <1>4, <1>7 DEF OnTrack, Creating
  <2>2. (\A q \in Todo(k) : q.op = "extra") /\ r.op \in {"create", "update", "extra"}
    BY <1>4, <1>7, <2>1 DEF Keeping
  <2>3. RowFits(k, u)'
    <3>1. CASE r.op = "extra"
      <4>1. RowFits(k, u) /\ mapping' = mapping
        BY <1>1, <1>7, <2>1, <2>2, <3>1 DEF Keeping
      <4> QED
        BY <1>1, <4>1 DEF RowFits
    <3>2. CASE r.op # "extra"
      <4>1. /\ r.url = u /\ r.val = snap.wanted[k] /\ sent.etag \in {cal[snap.col][u], NoEtag}
            /\ mapping'[k] = [col |-> snap.col, url |-> r.url, etag |-> sent.etag, val |-> r.val]
        BY <1>1, <1>3, <1>4, <1>7, <2>1, <2>2, <3>2 DEF Keeping, StoreRow
      <4>2. mapping'[k] # Null
        <5>1. /\ snap.col \in Cols /\ r.url \in Url /\ r.val \in Vals
              /\ sent.etag \in Etag
          BY <1>1 DEF TypeOK, RunOK, WorkOK, Snapshot, Sent, Request
        <5>2. mapping'[k] \in Row
          BY <4>1, <5>1 DEF Row
        <5> QED
          BY <5>2, NullIsNoRecord
      <4> QED
        BY <1>1, <4>1, <4>2 DEF RowFits
    <3> QED
      BY <3>1, <3>2
  <2>4. Keeping(k, u)'
    BY <1>1, <1>4, <2>1, <2>2, <2>3 DEF Keeping
  <2> QED
    BY <1>1, <1>7, <2>4 DEF OnTrack
<1> QED
  BY <1>5, <1>6, <1>7

\* Requests that need no server.
LEMMA LocalStaysOnTrack ==
    ASSUME TypeOK, Tracked, NEW r \in work, Refresh(r) \/ Discard(r), Undisturbed',
           NEW k \in Keys
    PROVE  OnTrack(k)'
<1>1. /\ pc = "work" /\ sent = Null /\ sent' = Null /\ Undisturbed
      /\ UNCHANGED <<snap, past, cal>> /\ work' = work \ {r}
      /\ r.op \in {"refresh", "discard"}
  BY DEF Refresh, Discard, Due, Undisturbed, world
<1>2. /\ OnTrack(k) /\ r \in Request /\ r.key \in Keys /\ r.url \in Url /\ r.etag \in Etag
      /\ r.val \in Vals /\ snap.col \in Cols /\ mapping \in [Keys -> Row \cup {Null}]
  BY <1>1 DEF Tracked, TypeOK, WorkOK, Request, StoredOK, RunOK, Snapshot
<1>3. /\ ~UnderWay(k) /\ ~UnderWay(k)' /\ CopiesOf(k)' = CopiesOf(k)
      /\ Todo(k)' = Todo(k) \ {r}
  BY <1>1 DEF UnderWay, CopiesOf, Listed, Held, Todo
<1>4. CASE k # r.key
  <2>1. mapping'[k] = mapping[k] /\ Todo(k)' = Todo(k)
    BY <1>1, <1>2, <1>3, <1>4 DEF Refresh, Discard, StoreRow, DropRow, Todo
  <2> QED
    BY <1>1, <1>2, <1>3, <2>1, OthersStayOnTrack
<1>5. CASE k = r.key /\ r.op = "discard"
  <2>1. Removing(k) /\ snap.wanted[k] = Null
    BY <1>2, <1>5 DEF OnTrack, Creating, Keeping, Todo
  <2>2. mapping'[k] = Null
    BY <1>2, <1>5 DEF Refresh, Discard, DropRow
  <2>3. Removing(k)'
    BY <1>3, <1>5, <2>1, <2>2 DEF Removing
  <2> QED
    BY <1>1, <2>1, <2>3 DEF OnTrack
<1>6. CASE k = r.key /\ r.op = "refresh"
  <2>1. snap.wanted[k] # Null /\ ~Creating(k)
    <3>1. Phase(r.op) = 1
      BY <1>6 DEF Phase
    <3> QED
      BY <1>2, <1>6, <3>1 DEF OnTrack, Removing, Creating, Todo
  <2>2. PICK u \in Url : Keeping(k, u)
    BY <1>2, <2>1 DEF OnTrack
  <2>3. r \in Todo(k) /\ r.url = u /\ r.val = snap.wanted[k] /\ r.etag = cal[snap.col][u]
    BY <1>6, <2>2 DEF Keeping, Todo
  <2>4. \A q \in Todo(k)' : q.op = "extra"
    BY <1>3, <1>6, <2>2, <2>3 DEF Keeping
  <2>5. RowFits(k, u)'
    <3>1. mapping'[k] = [col |-> snap.col, url |-> r.url, etag |-> r.etag, val |-> r.val]
      BY <1>2, <1>6 DEF Refresh, Discard, StoreRow
    <3>2. mapping'[k] # Null
      BY <1>2, <3>1, NullIsNoRecord DEF Row
    <3> QED
      BY <1>1, <2>3, <3>1, <3>2 DEF RowFits
  <2>6. Keeping(k, u)'
    BY <1>1, <1>3, <1>6, <2>2, <2>3, <2>4, <2>5 DEF Keeping
  <2> QED
    BY <1>1, <2>1, <2>6 DEF OnTrack
<1> QED
  BY <1>1, <1>4, <1>5, <1>6

LEMMA RowsStayKeyed == TypeOK /\ RowsKeyed /\ WorkKeyed /\ [Next]_vars => RowsKeyed'
<1> SUFFICES ASSUME TypeOK, RowsKeyed, WorkKeyed, [Next]_vars PROVE RowsKeyed'
  OBVIOUS
<1>1. mapping \in [Keys -> Row \cup {Null}]
  BY DEF TypeOK, StoredOK
<1>2. \A k \in Keys : snap'.rows[k] # Null => snap'.rows[k].url.key = k
  BY RowsAreRead DEF RowsKeyed
<1>3. CASE \E r \in work : Refresh(r) \/ Discard(r)
  BY <1>1, <1>2, <1>3 DEF Refresh, Discard, StoreRow, DropRow, RowsKeyed, WorkKeyed
<1>4. CASE Settle
  <2>1. \/ mapping' = mapping
        \/ StoreRow(sent.req, sent.etag) /\ sent # Null
        \/ DropRow(sent.req)
    BY <1>4 DEF Settle
  <2> QED
    BY <1>1, <1>2, <2>1 DEF StoreRow, DropRow, RowsKeyed, WorkKeyed
<1>5. CASE ~Settle /\ ~\E r \in work : Refresh(r) \/ Discard(r)
  <2>1. mapping' \in {mapping, NoRows}
    BY <1>5
       DEF Next, SyncStep, FetchStep, DrainStep, ReconcileStep, AdminStep, UserStep,
           StartSync, FetchOk, FetchFailed, StartMirror, DropStale, DropUnusable,
           PurgeList, PurgeDelete, PurgeEnd, DrainEnd, ListCopies, ListFailed, Send,
           SendFailed, Finish, Crash, UpdateMirrorSync, CleanupMirrorSync,
           DeleteCalendar, RepointCalendar, DeleteFeed, ToggleFeed, EditCopy, MoveCopy,
           RemoveCopy, ImportCopy, Touch, Expire, vars
  <2> QED
    BY <1>2, <2>1 DEF RowsKeyed, NoRows
<1> QED
  BY <1>3, <1>4, <1>5

LEMMA RequestsKeyed ==
    ASSUME TypeOK, RowsKeyed, NEW own \in Indexes(Listed(cal[snap.col])),
           NEW r \in Requests(own, Listed(cal[snap.col]), cal[snap.col])
    PROVE  r.url.key = r.key
<1> DEFINE store == cal[snap.col]
           listed == Listed(store)
<1>1. CASE r \in ExtraRequests(own, listed, store)
  BY <1>1 DEF ExtraRequests, Req
<1>2. ASSUME NEW k \in Keys, r \in KeyRequests(k, own, store)
      PROVE  r.url.key = r.key
  <2>1. r.key = k /\ (\/ r.url = ResourceUrl(k)
                      \/ own[k] # Null /\ r.url = own[k]
                      \/ snap.rows[k] # Null /\ r.url = snap.rows[k].url)
    BY <1>2 DEF KeyRequests, Removal, Req
  <2>2. own[k] # Null => own[k].key = k
    BY DEF Indexes
  <2> QED
    BY <2>1, <2>2 DEF RowsKeyed, ResourceUrl
<1> QED
  BY <1>1, <1>2 DEF Requests

LEMMA WorkStaysKeyed == TypeOK /\ RowsKeyed /\ WorkKeyed /\ [Next]_vars => WorkKeyed'
<1> SUFFICES ASSUME TypeOK, RowsKeyed, WorkKeyed, [Next]_vars PROVE WorkKeyed'
  OBVIOUS
<1>1. CASE ForgetRun
  BY <1>1 DEF ForgetRun, WorkKeyed
<1>2. CASE ListCopies /\ ~ForgetRun
  <2>1. /\ pc = "list" /\ sent' = sent
        /\ \E own \in Indexes(Listed(cal[snap.col])) :
              work' = Requests(own, Listed(cal[snap.col]), cal[snap.col])
    BY <1>2 DEF ListCopies
  <2> QED
    BY <2>1, RequestsKeyed DEF WorkKeyed
<1>3. ASSUME NEW r \in work, Send(r) PROVE WorkKeyed'
  <2>1. work' \subseteq work /\ pc' = "work"
    BY <1>3 DEF Send, Due
  <2> QED
    BY <1>3, <2>1, SentIsSent DEF WorkKeyed
<1>4. ASSUME NEW r \in work, SendFailed(r) PROVE WorkKeyed'
  <2>1. work' \subseteq work /\ pc' = "work" /\ sent'.req = r
    BY <1>4 DEF SendFailed, Due
  <2> QED
    BY <2>1 DEF WorkKeyed
<1>5. CASE ~ForgetRun /\ ~ListCopies /\ ~\E r \in work : Send(r) \/ SendFailed(r)
  <2>1. work' \subseteq work /\ sent' \in {sent, Null} /\ (pc' # "work" => pc # "work")
    BY <1>5
       DEF Next, SyncStep, FetchStep, DrainStep, ReconcileStep, AdminStep, UserStep,
           StartSync, FetchOk, FetchFailed, StartMirror, Plan, DropStale, DropUnusable,
           PurgeList, PurgeDelete, PurgeEnd, DrainEnd, ListFailed, Refresh, Discard,
           Settle, Finish, Crash, Due, Visit, UpdateMirrorSync, CleanupMirrorSync,
           DeleteCalendar, RepointCalendar, DeleteFeed, ToggleFeed, EditCopy, MoveCopy,
           RemoveCopy, ImportCopy, Touch, Expire, vars, runState, workState
  <2> QED
    BY <2>1 DEF WorkKeyed
<1> QED
  BY <1>1, <1>2, <1>3, <1>4, <1>5

LEMMA SnapStaysFresh == TypeOK /\ SnapFresh /\ [Next]_vars => SnapFresh'
<1> SUFFICES ASSUME TypeOK, SnapFresh, [Next]_vars, pc' \in {"list", "work"}
             PROVE  SnapFresh'
  BY DEF SnapFresh
<1>1. snap \in Snapshot
  BY DEF TypeOK, RunOK
<1>2. CASE StartMirror \/ DrainEnd
  <2>3. snap'.wanted = DesiredEvents(sourceIds) /\ snap'.rows = mapping
    <3>1. CASE DrainEnd
      <4>1. snap' = [snap EXCEPT !.ids = sourceIds,
                                 !.wanted = DesiredEvents(sourceIds), !.rows = mapping]
        BY <3>1 DEF DrainEnd, Plan
      <4> QED
        BY <1>1, <4>1 DEF Snapshot
    <3>2. CASE StartMirror
      BY <3>2 DEF StartMirror, Plan, NoSnap
    <3> QED
      BY <1>2, <3>1, <3>2
  <2>4. mapping' = mapping /\ past' = past
    BY <1>2 DEF StartMirror, DrainEnd, world
  <2> QED
    BY <2>3, <2>4 DEF SnapFresh, DesiredEvents
<1>3. CASE ListCopies
  <2>1. pc = "list" /\ pc' = "work" /\ past' = past /\ snap' = [snap EXCEPT !.seenEdits = edits]
    BY <1>3 DEF ListCopies, world
  <2> QED
    BY <1>1, <2>1 DEF SnapFresh, Snapshot
<1>4. CASE ~(StartMirror \/ DrainEnd \/ ListCopies)
  <2>1. CASE FetchStep \/ DrainStep
    BY <1>4, <2>1
       DEF FetchStep, DrainStep, StartSync, FetchOk, FetchFailed, DropStale,
           DropUnusable, PurgeList, PurgeDelete, PurgeEnd, Visit
  <2>2. CASE ReconcileStep \/ Crash
    <3>1. pc = "work" /\ pc' = "work" /\ snap' = snap /\ past' = past
      BY <1>4, <2>2
         DEF ReconcileStep, ListFailed, Refresh, Discard, Send, SendFailed, Settle,
             Finish, Crash, Due, world
    <3> QED
      BY <3>1 DEF SnapFresh
  <2>3. CASE AdminStep \/ UserStep
    <3>1. pc' = pc /\ snap' = snap /\ past' = past /\ disturbed'
      BY <2>3
         DEF AdminStep, UserStep, UpdateMirrorSync, CleanupMirrorSync, DeleteCalendar,
             RepointCalendar, DeleteFeed, ToggleFeed, EditCopy, MoveCopy, RemoveCopy,
             ImportCopy, Touch, Expire, runState, world
    <3> QED
      BY <3>1 DEF SnapFresh
  <2>4. CASE UNCHANGED vars
    BY <2>4 DEF SnapFresh, vars, runState, world
  <2> QED
    BY <2>1, <2>2, <2>3, <2>4 DEF Next, SyncStep
<1> QED
  BY <1>2, <1>3, <1>4

LEMMA TrackedStep == TypeOK /\ Tracked /\ [Next]_vars => Tracked'
<1> SUFFICES ASSUME TypeOK, Tracked, [Next]_vars PROVE Tracked'
  OBVIOUS
<1>1. RowsKeyed' /\ WorkKeyed' /\ SnapFresh'
  BY RowsStayKeyed, WorkStaysKeyed, SnapStaysFresh DEF Tracked
<1>2. ASSUME Undisturbed', NEW k \in Keys PROVE OnTrack(k)'
  <2>1. CASE ListCopies
    BY <1>2, <2>1, ListedIsOnTrack DEF Undisturbed, ListCopies
  <2>2. CASE \E r \in work : Send(r)
    BY <1>2, <2>2, SendStaysOnTrack
  <2>3. CASE Settle
    BY <1>2, <2>3, SettleStaysOnTrack
  <2>4. CASE \E r \in work : Refresh(r) \/ Discard(r)
    BY <1>2, <2>4, LocalStaysOnTrack
  <2>5. CASE \E r \in work : SendFailed(r)
    <3>1. PICK r \in work : SendFailed(r)
      BY <2>5
    <3>2. sent' = [req |-> r, reply |-> "error", etag |-> NoEtag]
      BY <3>1 DEF SendFailed
    <3>3. sent' \in Sent
      BY <3>2 DEF Sent, TypeOK, WorkOK, Etag
    <3> QED
      BY <1>2, <3>2, <3>3, NullIsNoRecord DEF Undisturbed
  <2>6. CASE UNCHANGED vars
    <3>1. UNCHANGED <<pc, disturbed, conflicts, sent, snap, work, mapping, cal, past>>
      BY <2>6 DEF vars, runState, workState, world
    <3>2. OnTrack(k)
      BY <1>2, <3>1 DEF Tracked, Undisturbed
    <3>3. UNCHANGED <<CopiesOf(k), Todo(k)>> /\ (UnderWay(k)' <=> UnderWay(k))
      BY <3>1 DEF CopiesOf, Todo, UnderWay, Listed, Held
    <3>4. /\ Removing(k) => Removing(k)'
          /\ Creating(k) => Creating(k)'
          /\ \A u \in Url : Keeping(k, u) => Keeping(k, u)'
      BY <3>1, <3>3 DEF Removing, Creating, Keeping, RowFits
    <3> QED
      BY <3>1, <3>2, <3>4 DEF OnTrack
  <2>7. CASE /\ ~(ListCopies \/ Settle \/ UNCHANGED vars)
             /\ ~\E r \in work : Send(r) \/ SendFailed(r) \/ Refresh(r) \/ Discard(r)
    <3>1. pc' # "work" \/ disturbed'
      BY <2>7
         DEF Next, SyncStep, FetchStep, DrainStep, ReconcileStep, AdminStep, UserStep,
             StartSync, FetchOk, FetchFailed, StartMirror, Plan, DropStale, DropUnusable,
             PurgeList, PurgeDelete, PurgeEnd, DrainEnd, ListFailed, Finish, Crash, Visit,
             UpdateMirrorSync, CleanupMirrorSync, DeleteCalendar, RepointCalendar,
             DeleteFeed, ToggleFeed, EditCopy, MoveCopy, RemoveCopy, ImportCopy, Touch,
             Expire, runState
    <3> QED
      BY <1>2, <3>1 DEF Undisturbed
  <2> QED
    BY <2>1, <2>2, <2>3, <2>4, <2>5, <2>6, <2>7
<1> QED
  BY <1>1, <1>2 DEF Tracked

\* A run that nobody interfered with and that met no conflict leaves exactly
\* one listed copy and one fitting row of each wanted appointment and none of
\* any other, whatever mapping and calendar it found: after crashes, lost
\* responses, lost mappings, duplicates, repointed calendars, and with any
\* number of keys.
THEOREM RunsReconcile == Spec => []CleanRunReconciles
<1>1. Init => Tracked
  BY DEF Init, Tracked, RowsKeyed, WorkKeyed, SnapFresh, Undisturbed, NoRows, NoSnap
<1>2. ASSUME TypeOK, Tracked, CleanEnd, NEW k \in Keys PROVE Reconciled(k)
  <2>1. OnTrack(k) /\ Todo(k) = {} /\ ~UnderWay(k)
    BY <1>2 DEF Tracked, Undisturbed, CleanEnd, Todo, UnderWay
  <2>2. CASE snap.wanted[k] = Null
    BY <2>1, <2>2 DEF OnTrack, Removing, Reconciled, CopiesOf
  <2>3. CASE snap.wanted[k] # Null
    <3>1. PICK u \in Url : Keeping(k, u)
      BY <2>1, <2>3 DEF OnTrack, Creating
    <3>2. CopiesOf(k) = {u} /\ RowFits(k, u)
      BY <2>1, <3>1 DEF Keeping
    <3> QED
      BY <2>3, <3>2 DEF Reconciled, CopiesOf, RowFits
  <2> QED
    BY <2>2, <2>3
<1>3. TypeOK /\ Tracked => CleanRunReconciles
  BY <1>2 DEF CleanRunReconciles
<1> QED
  BY <1>1, <1>3, TrackedStep, TypeCorrect, PTL DEF Spec
-----------------------------------------------------------------------------
(***************************************************************************)
(* The mirror implements CalendarDuty, under the conditions of             *)
(* CopiesNotForgotten and while no source is pointed at another calendar   *)
(* (two sources of one calendar could each be owed its cleanup). The       *)
(* inductive invariant says what the promises rest on: each calendar has   *)
(* one source at most, what is owed or in use is not given up, and the     *)
(* orders in the run's hands, when they are stored, leave no promise       *)
(* unaccounted for.                                                        *)
(***************************************************************************)
OwnCollections ==
    \A s, t \in Calendars : s # t /\ coll[s] \in Cols => coll[s] # coll[t]

OwedIsWanted == \A s \in Calendars : queue[s] # NotQueued => coll[s] \notin abandoned

TargetInUse == enabled /\ target # Null => coll[target] \notin abandoned

\* The orders the drain will store, or has still to visit.
InHand == Pending(orders) \cup Pending(kept)

\* Nothing of the order for s will be missed when the queue is stored.
AccountedFor(s) ==
    \/ s \in InHand
    \/ coll[s] \notin Cols \/ coll[s] \in lost
    \/ Held(cal[coll[s]]) = {}
    \/ enabled /\ s = target

DrainKeepsPromises ==
    /\ snap.drainOn = enabled
    /\ InHand \subseteq Pending(queue)
    /\ Pending(orders) \cap Pending(kept) = {}
    /\ lost # {} => gaveUp
    /\ \A c \in lost : \E s \in Pending(queue) \ InHand : coll[s] = c
    /\ enabled /\ target # Null => target \notin Pending(kept) /\ coll[target] \notin lost
    /\ \A s \in Pending(queue) : AccountedFor(s)

\* A calendar is emptied on an order, and never the one in use.
PurgesOwed ==
    pc = "purge" => /\ purging.src \in Pending(orders)
                    /\ ~(enabled /\ purging.src = target)

\* The reconciler writes while the mirror is on and nothing is owed.
WritesInUse ==
    pc \in {"list", "work"} => enabled /\ target # Null /\ queue[target] = NotQueued

\* A run goes on to the listing only if the mirror was on when it began.
RunUse == Draining /\ snap.src # Null => enabled

Dutiful ==
    /\ OwnCollections /\ OwedIsWanted /\ TargetInUse
    /\ IF Draining THEN DrainKeepsPromises ELSE lost = {}
    /\ PurgesOwed /\ RunUse /\ WritesInUse

LEMMA InitDutiful == Init => Dutiful
BY DEF Init, Dutiful, OwnCollections, OwedIsWanted, TargetInUse, Draining, PurgesOwed,
       RunUse, WritesInUse, NoOrders

LEMMA FetchDutiful == TypeOK /\ Dutiful /\ FetchStep => Dutiful'
<1> SUFFICES ASSUME TypeOK, Dutiful, FetchStep PROVE Dutiful'
  OBVIOUS
<1>1. UNCHANGED <<enabled, target, queue, coll, abandoned, cal>> /\ pc \in {"idle", "fetch"}
  BY DEF FetchStep, StartSync, FetchOk, FetchFailed, StartMirror, settings,
         orderbook, sources, world
<1>2. OwnCollections' /\ OwedIsWanted' /\ TargetInUse' /\ lost = {}
  BY <1>1 DEF Dutiful, OwnCollections, OwedIsWanted, TargetInUse, Draining
<1>3. CASE ~StartMirror
  <2>1. pc' = "fetch" /\ lost' = lost
    BY <1>1, <1>3 DEF FetchStep, StartSync, FetchOk, FetchFailed, drainState
  <2> QED
    BY <1>2, <2>1 DEF Dutiful, Draining, PurgesOwed, RunUse, WritesInUse
<1>4. CASE StartMirror
  <2> DEFINE usable == enabled /\ target # Null /\ Usable(target)
             s == [NoSnap EXCEPT
                     !.drainOn = enabled, !.drainTarget = target,
                     !.src = IF usable THEN target ELSE Null,
                     !.col = IF usable THEN coll[target] ELSE Null]
  <2>1. s.drainOn = enabled /\ (s.src # Null => enabled /\ s.src = target)
    BY DEF NoSnap
  <2>2. CASE NothingToDrain(s)
    <3>1. Plan(s)
      BY <1>4, <2>2 DEF StartMirror
    <3>2. /\ lost' = {}
          /\ pc' = "idle" \/ (pc' = "list" /\ s.src # Null)
      BY <3>1 DEF Plan, ForgetRun
    <3>3. target \in Calendars \cup {Null}
      BY DEF TypeOK, StoredOK
    <3>4. target # Null => queue[target] = NotQueued
      BY <2>2, <3>3 DEF NothingToDrain, Pending
    <3> QED
      BY <1>1, <1>2, <2>1, <3>2, <3>4 DEF Dutiful, Draining, PurgesOwed, RunUse, WritesInUse
  <2>3. CASE ~NothingToDrain(s)
    <3>1. /\ pc' = "drain" /\ snap' = s
          /\ orders' = queue /\ kept' = NoOrders /\ lost' = {}
      BY <1>2, <1>4, <2>3 DEF StartMirror
    <3>2. Pending(kept') = {} /\ Pending(orders') = Pending(queue')
      BY <1>1, <3>1 DEF Pending, NoOrders
    <3>3. DrainKeepsPromises'
      BY <1>1, <2>1, <3>1, <3>2 DEF DrainKeepsPromises, InHand, AccountedFor
    <3> QED
      BY <1>1, <1>2, <2>1, <3>1, <3>3 DEF Dutiful, Draining, PurgesOwed, RunUse, WritesInUse
  <2> QED
    BY <2>2, <2>3
<1> QED
  BY <1>3, <1>4

\* What a purge takes out of a calendar stays out; nothing else changes it.
LEMMA DrainRemoves ==
    ASSUME TypeOK, DrainStep, NEW c \in Cols
    PROVE  Held(cal'[c]) \subseteq Held(cal[c])
<1>1. \/ cal' = cal
      \/ \E r \in Doomed : cal' = [cal EXCEPT ![purging.col][r.url] = NoCopy]
  BY DEF DrainStep, DropStale, DropUnusable, PurgeList, PurgeDelete, PurgeEnd,
         DrainEnd, world, TypeOK, DrainOK
<1> QED
  BY <1>1 DEF Held, TypeOK, WorldOK, Collection, Doomed

\* The queue is stored as the run has it: what was pending and is not any more
\* was given up, is empty, or is in use again.
LEMMA DrainEndDutiful ==
    ASSUME TypeOK, Accounted, Dutiful, DrainEnd
    PROVE  Dutiful'
<1>1. /\ DrainKeepsPromises /\ pc = "drain" /\ Pending(orders) = {}
      /\ queue' = kept /\ failed' = gaveUp /\ abandoned' = abandoned \cup lost
      /\ UNCHANGED <<enabled, target, coll>> /\ Plan(snap)
  BY DEF DrainEnd, StoreQueue, Dutiful, Draining, settings, sources
<1>2. /\ lost' = {}
      /\ pc' = "idle" \/ (pc' = "list" /\ snap.src # Null)
  BY <1>1 DEF Plan, ForgetRun
<1>3. OwnCollections' /\ ~Draining' /\ PurgesOwed' /\ RunUse'
  BY <1>1, <1>2 DEF Dutiful, RunUse, OwnCollections, Draining, PurgesOwed
<1>4. ASSUME NEW s \in Calendars, queue'[s] # NotQueued
      PROVE  coll'[s] \notin abandoned'
  <2>1. s \in Pending(kept) /\ s \in Pending(queue)
    BY <1>1, <1>4 DEF Pending, DrainKeepsPromises, InHand
  <2>2. coll[s] \notin abandoned
    BY <2>1 DEF Dutiful, OwedIsWanted, Pending
  <2>3. coll[s] \notin lost
    <3> SUFFICES ASSUME coll[s] \in lost PROVE FALSE
      OBVIOUS
    <3>1. PICK p \in Pending(queue) \ InHand : coll[p] = coll[s]
      BY <1>1 DEF DrainKeepsPromises
    <3>2. p # s /\ p \in Calendars /\ coll[s] \in Cols
      BY <2>1, <3>1 DEF InHand, Pending, TypeOK, DrainOK
    <3> QED
      BY <3>1, <3>2 DEF Dutiful, OwnCollections
  <2> QED
    BY <1>1, <2>2, <2>3
<1>5. TargetInUse'
  BY <1>1 DEF Dutiful, TargetInUse, DrainKeepsPromises
<1>6. WritesInUse'
  <2> SUFFICES ASSUME pc' = "list" PROVE enabled /\ target # Null /\ kept[target] = NotQueued
    BY <1>1, <1>2 DEF WritesInUse
  <2>1. snap.src # Null
    BY <1>2
  <2>2. snap.src = target /\ target # Null
    BY <1>1, <2>1 DEF Accounted, TargetKept, Draining
  <2>3. enabled
    BY <2>1, <1>1 DEF Dutiful, RunUse, Draining
  <2> QED
    BY <1>1, <2>2, <2>3 DEF DrainKeepsPromises, Pending, TypeOK, StoredOK
<1> QED
  BY <1>2, <1>3, <1>4, <1>5, <1>6 DEF Dutiful, OwedIsWanted

LEMMA DrainDutiful == TypeOK /\ Accounted /\ Dutiful /\ DrainStep => Dutiful'
<1> SUFFICES ASSUME TypeOK, Accounted, Dutiful, DrainStep PROVE Dutiful'
  OBVIOUS
<1>1. /\ Draining /\ DrainKeepsPromises
      /\ UNCHANGED <<enabled, target, coll>>
  BY DEF DrainStep, DropStale, DropUnusable, PurgeList, PurgeDelete, PurgeEnd,
         DrainEnd, Visit, Draining, settings, sources, Dutiful
<1>2. SUFFICES ASSUME ~DrainEnd PROVE Dutiful'
  BY DrainEndDutiful
<1>3. /\ UNCHANGED <<queue, abandoned, failed>> /\ Draining'
      /\ snap'.drainOn = snap.drainOn /\ snap'.src = snap.src
  BY <1>1, <1>2 DEF DrainStep, DropStale, DropUnusable, PurgeList, PurgeDelete, PurgeEnd,
         Visit, Draining, orderbook, TypeOK, RunOK, Snapshot
<1>4. OwnCollections' /\ OwedIsWanted' /\ TargetInUse' /\ RunUse' /\ WritesInUse'
  BY <1>1, <1>3 DEF Dutiful, RunUse, OwnCollections, OwedIsWanted, TargetInUse, WritesInUse,
                    Draining
<1>5. SUFFICES DrainKeepsPromises' /\ PurgesOwed'
  BY <1>3, <1>4 DEF Dutiful
<1>6. \A s \in Calendars :
         coll[s] \in Cols /\ Held(cal[coll[s]]) = {} => Held(cal'[coll[s]]) = {}
  BY DrainRemoves
<1>7. ASSUME NEW s \in Calendars, DropStale(s) \/ DropUnusable(s)
      PROVE  DrainKeepsPromises' /\ PurgesOwed'
  <2>1. /\ s \in Pending(orders) /\ pc' = "drain"
        /\ orders' = [orders EXCEPT ![s] = NotQueued]
        /\ UNCHANGED <<kept, lost, cal, snap>> /\ (gaveUp' = gaveUp \/ gaveUp' = TRUE)
        /\ coll[s] \notin Cols \/ (enabled /\ s = target)
    BY <1>1, <1>7 DEF DropStale, DropUnusable, Visit, Stale, Usable, world,
                      DrainKeepsPromises, Accounted, TargetKept
  <2>2. Pending(orders') = Pending(orders) \ {s} /\ InHand' = InHand \ {s}
    BY <1>1, <2>1 DEF Pending, InHand, TypeOK, DrainOK, DrainKeepsPromises
  <2>3. Pending(queue') = Pending(queue)
    BY <1>3 DEF Pending
  <2>4. \A p \in Pending(queue) : AccountedFor(p)'
    BY <1>1, <2>1, <2>2 DEF DrainKeepsPromises, AccountedFor
  <2>5. \A c \in lost' : \E p \in Pending(queue') \ InHand' : coll'[p] = c
    BY <1>1, <2>1, <2>2, <2>3 DEF DrainKeepsPromises
  <2>6. Pending(orders') \cap Pending(kept') = {} /\ InHand' \subseteq Pending(queue')
    BY <1>1, <2>1, <2>2, <2>3 DEF DrainKeepsPromises
  <2>7. Pending(kept') = Pending(kept)
    BY <2>1 DEF Pending
  <2>8. lost' # {} => gaveUp'
    BY <1>1, <2>1 DEF DrainKeepsPromises
  <2>9. DrainKeepsPromises'
    BY <1>1, <1>3, <2>1, <2>3, <2>4, <2>5, <2>6, <2>7, <2>8 DEF DrainKeepsPromises
  <2> QED
    BY <2>1, <2>9 DEF PurgesOwed
<1>8. ASSUME NEW s \in Calendars, PurgeList(s) PROVE DrainKeepsPromises' /\ PurgesOwed'
  <2>1. /\ s \in Pending(orders) /\ ~(enabled /\ s = target)
        /\ purging' = [src |-> s, col |-> coll[s]]
        /\ UNCHANGED <<orders, kept, lost, gaveUp, cal>>
    BY <1>1, <1>8 DEF PurgeList, Visit, Stale, world, DrainKeepsPromises, Accounted,
                      TargetKept
  <2>2. DrainKeepsPromises'
    BY <1>1, <1>3, <2>1 DEF DrainKeepsPromises, InHand, AccountedFor, Pending
  <2>3. PurgesOwed'
    BY <1>1, <2>1 DEF PurgesOwed
  <2> QED
    BY <2>2, <2>3
<1>9. ASSUME NEW r \in doomed, PurgeDelete(r) PROVE DrainKeepsPromises' /\ PurgesOwed'
  <2>1. UNCHANGED <<pc, orders, kept, lost, gaveUp, purging>>
    BY <1>9 DEF PurgeDelete
  <2>2. \A s \in Pending(queue) : AccountedFor(s)'
    <3>1. InHand' = InHand
      BY <2>1 DEF InHand, Pending
    <3> QED
      BY <1>1, <1>6, <2>1, <3>1 DEF DrainKeepsPromises, AccountedFor, Pending
  <2>3. DrainKeepsPromises'
    BY <1>1, <1>3, <2>1, <2>2 DEF DrainKeepsPromises, InHand, Pending
  <2> QED
    BY <1>1, <2>1, <2>3 DEF PurgesOwed, Pending, Dutiful
<1>10. CASE PurgeEnd
  <2>0. PICK s : s = purging.src
    OBVIOUS
  <2> DEFINE giveUp == missed /\ GivesUp(orders[s] + 1)
  <2>1. /\ pc = "purge" /\ pc' = "drain" /\ doomed = {}
        /\ s \in Pending(orders) /\ coll[s] = purging.col /\ coll[s] \in Cols
        /\ ~(enabled /\ s = target)
        /\ orders' = [orders EXCEPT ![s] = NotQueued]
        /\ kept' = IF missed /\ ~giveUp THEN [kept EXCEPT ![s] = orders[s] + 1]
                                        ELSE kept
        /\ gaveUp' = (gaveUp \/ giveUp)
        /\ lost' = IF giveUp THEN lost \cup {coll[s]} ELSE lost
        /\ UNCHANGED cal
    BY <1>10, <2>0 DEF PurgeEnd, TypeOK, DrainOK, Purged, Accounted, PurgeCovers, Dutiful,
                 PurgesOwed, world
  <2>2. s \in Calendars /\ s \in Pending(queue) /\ s \notin Pending(kept)
    BY <1>1, <2>1 DEF Pending, DrainKeepsPromises, InHand
  <2>3. Pending(orders') = Pending(orders) \ {s} /\ Pending(queue') = Pending(queue)
    BY <1>3, <2>1 DEF Pending, TypeOK, DrainOK
  <2>4. Pending(kept') = IF missed /\ ~giveUp THEN Pending(kept) \cup {s} ELSE Pending(kept)
    BY <2>1, <2>2, MirrorAssumption DEF Pending, TypeOK, DrainOK, Attempts, NotQueued
  <2> HIDE DEF giveUp
  <2>5. s \notin InHand' \/ (missed /\ ~giveUp)
    BY <2>3, <2>4, <2>2 DEF InHand
  <2>6. InHand' \subseteq InHand /\ InHand \subseteq InHand' \cup {s}
    BY <2>1, <2>3, <2>4 DEF InHand
  <2>7. \A c \in lost' : \E p \in Pending(queue') \ InHand' : coll'[p] = c
    <3>1. CASE giveUp
      BY <1>1, <2>1, <2>2, <2>3, <2>5, <2>6, <3>1 DEF DrainKeepsPromises
    <3>2. CASE ~giveUp
      BY <1>1, <2>1, <2>3, <2>6, <3>2 DEF DrainKeepsPromises
    <3> QED
      BY <3>1, <3>2
  <2>8. AccountedFor(s)'
    <3>1. CASE missed /\ ~giveUp
      BY <2>4, <3>1 DEF AccountedFor, InHand
    <3>2. CASE giveUp
      BY <1>1, <2>1, <3>2 DEF AccountedFor
    <3>3. CASE ~missed
      BY <1>1, <2>0, <2>1, <3>3 DEF AccountedFor, Accounted, PurgeCovers
    <3> QED
      BY <3>1, <3>2, <3>3
  <2>9. \A p \in Pending(queue) : AccountedFor(p)'
    BY <1>1, <2>1, <2>6, <2>8 DEF DrainKeepsPromises, AccountedFor
  <2>10. Pending(orders') \cap Pending(kept') = {} /\ InHand' \subseteq Pending(queue')
    BY <1>1, <2>2, <2>3, <2>4, <2>6 DEF DrainKeepsPromises
  <2>11. enabled' /\ target' # Null =>
             target' \notin Pending(kept') /\ coll'[target'] \notin lost'
    <3>1. enabled /\ target # Null => coll[target] # coll[s]
      BY <2>1, <2>2 DEF Dutiful, OwnCollections, TypeOK, StoredOK
    <3> QED
      BY <1>1, <2>1, <2>4, <3>1 DEF DrainKeepsPromises
  <2>12. lost' # {} => gaveUp'
    BY <1>1, <2>1 DEF DrainKeepsPromises
  <2>13. DrainKeepsPromises'
    BY <1>1, <1>3, <2>3, <2>7, <2>9, <2>10, <2>11, <2>12 DEF DrainKeepsPromises
  <2> QED
    BY <2>1, <2>13 DEF PurgesOwed
<1> QED
  BY <1>2, <1>7, <1>8, <1>9, <1>10 DEF DrainStep

LEMMA ReconcileDutiful == TypeOK /\ Dutiful /\ ReconcileStep => Dutiful'
<1> SUFFICES ASSUME TypeOK, Dutiful, ReconcileStep PROVE Dutiful'
  OBVIOUS
<1>1. /\ UNCHANGED <<enabled, target, queue, coll, abandoned>>
      /\ pc \in {"list", "work"} /\ pc' \in {"list", "work", "idle"}
      /\ lost' = lost \/ lost' = {}
  BY DEF ReconcileStep, ListCopies, ListFailed, Refresh, Discard, Send, SendFailed,
         Settle, Finish, Due, settings, orderbook, sources, drainState, ForgetRun
<1> QED
  BY <1>1 DEF Dutiful, OwnCollections, OwedIsWanted, TargetInUse, Draining, PurgesOwed,
              RunUse, WritesInUse

\* Between runs, the admin owes only calendars he leaves, and takes back what
\* was given up about those he names.
LEMMA AdminDutiful ==
    ASSUME ~AdminMidRun, ~CanRepoint, TypeOK, Dutiful, AdminStep
    PROVE  Dutiful'
<1>1. pc = "idle" /\ UNCHANGED <<pc, lost, cal>>
  BY DEF AdminStep, UpdateMirrorSync, CleanupMirrorSync, DeleteCalendar,
         RepointCalendar, DeleteFeed, ToggleFeed, AdminTurn, runState, drainState, world
<1>2. SUFFICES OwnCollections' /\ OwedIsWanted' /\ TargetInUse'
  BY <1>1 DEF Dutiful, Draining, PurgesOwed, RunUse, WritesInUse
<1>3. OwnCollections /\ OwedIsWanted /\ TargetInUse /\ target \in Calendars \cup {Null}
      /\ abandoned \subseteq Cols /\ Null \notin Calendars \cup Cols
  BY MirrorAssumption DEF Dutiful, TypeOK, StoredOK, WorldOK
<1>4. ASSUME NEW s \in Calendars
      PROVE  Pending(Queued(s)) = Pending(queue) \cup {s}
  BY <1>4 DEF Queued, Pending, NotQueued, TypeOK, StoredOK, Attempts
<1>5. OwedIsWanted <=> \A s \in Pending(queue) : coll[s] \notin abandoned
  BY DEF OwedIsWanted, Pending
<1>6. OwedIsWanted' <=> \A s \in Pending(queue') : coll'[s] \notin abandoned'
  BY DEF OwedIsWanted, Pending
<1>7. ASSUME NEW on \in BOOLEAN, NEW t \in Calendars \cup {Null},
             NEW ids \in SUBSET Feeds, UpdateMirrorSync(on, t, ids)
      PROVE  OwnCollections' /\ OwedIsWanted' /\ TargetInUse'
  <2>1. /\ target' = t /\ coll' = coll
        /\ abandoned' = abandoned \ {coll[s] : s \in {t, target} \ {Null}}
    BY <1>7 DEF UpdateMirrorSync, sources
  <2>2. Pending(queue') \subseteq Pending(queue) \cup ({target} \ {Null})
    BY <1>3, <1>4, <1>7 DEF UpdateMirrorSync, StoreQueue
  <2>3. OwedIsWanted'
    BY <1>3, <1>5, <1>6, <2>1, <2>2
  <2> QED
    BY <1>3, <2>1, <2>3 DEF OwnCollections, TargetInUse
<1>8. CASE CleanupMirrorSync
  <2>1. /\ target \in Calendars /\ UNCHANGED <<target, coll>> /\ enabled' = FALSE
        /\ abandoned' = abandoned \ {coll[target]}
    BY <1>3, <1>8 DEF CleanupMirrorSync, sources
  <2>2. Pending(queue') = Pending(queue) \cup {target}
    BY <1>4, <1>8, <2>1 DEF CleanupMirrorSync, StoreQueue
  <2> QED
    BY <1>3, <1>5, <1>6, <2>1, <2>2 DEF OwnCollections, TargetInUse
<1>9. ASSUME NEW s \in Calendars, DeleteCalendar(s)
      PROVE  OwnCollections' /\ OwedIsWanted' /\ TargetInUse'
  <2>1. /\ coll' = [coll EXCEPT ![s] = Null] /\ coll[s] # Null
        /\ abandoned' = abandoned \cup ({coll[s]} \cap Cols)
    BY <1>9 DEF DeleteCalendar, Exists, StoreQueue
  <2>8. IF target = s THEN target' = Null ELSE target' = target /\ enabled' = enabled
    BY <1>9 DEF DeleteCalendar
  <2>2. Pending(queue') = Pending(queue) \ {s}
    BY <1>9 DEF DeleteCalendar, StoreQueue, Pending, TypeOK, StoredOK
  <2>3. coll \in [Calendars -> Cols \cup {NoUrl, Null}]
    BY DEF TypeOK, StoredOK
  <2>4. OwnCollections'
    BY <1>3, <2>1, <2>3 DEF OwnCollections
  <2>5. \A p \in Calendars \ {s} : coll[p] \notin abandoned => coll'[p] \notin abandoned'
    BY <1>3, <2>1, <2>3 DEF OwnCollections
  <2>6. OwedIsWanted'
    BY <1>3, <1>5, <1>6, <2>2, <2>5 DEF Pending
  <2>7. TargetInUse'
    BY <1>3, <2>1, <2>5, <2>8 DEF TargetInUse
  <2> QED
    BY <2>4, <2>6, <2>7
<1>10. ASSUME NEW f \in Feeds, DeleteFeed(f) \/ ToggleFeed(f)
       PROVE  OwnCollections' /\ OwedIsWanted' /\ TargetInUse'
  BY <1>3, <1>10 DEF DeleteFeed, ToggleFeed, settings, orderbook, OwnCollections,
                     OwedIsWanted, TargetInUse
<1> QED
  BY <1>7, <1>8, <1>9, <1>10 DEF AdminStep, RepointCalendar

LEMMA UserDutiful ==
    ASSUME Slots = {"own"}, TypeOK, Dutiful, UserStep
    PROVE  Dutiful'
<1>1. UNCHANGED <<enabled, target, coll, queue, abandoned, runState>>
  BY DEF UserStep, EditCopy, MoveCopy, RemoveCopy, ImportCopy, Touch, Expire,
         settings, orderbook, sources
<1>2. UNCHANGED <<pc, snap, lost, orders, kept, gaveUp, purging>>
  BY <1>1 DEF runState, drainState
<1>3. \A c \in Cols : Held(cal'[c]) \subseteq Held(cal[c])
  BY UserAddsNoCopy
<1>4. DrainKeepsPromises => DrainKeepsPromises'
  <2> SUFFICES ASSUME DrainKeepsPromises PROVE DrainKeepsPromises'
    OBVIOUS
  <2>1. \A s \in Pending(queue) : AccountedFor(s)'
    BY <1>1, <1>2, <1>3 DEF DrainKeepsPromises, AccountedFor, InHand, Pending
  <2> QED
    BY <1>1, <1>2, <2>1 DEF DrainKeepsPromises, InHand, Pending
<1> QED
  BY <1>1, <1>2, <1>4
     DEF Dutiful, OwnCollections, OwedIsWanted, TargetInUse, Draining, PurgesOwed,
         RunUse, WritesInUse, Pending

LEMMA DutifulStep ==
    ASSUME ~AdminMidRun, ~CanRepoint, Slots = {"own"}
    PROVE  TypeOK /\ Accounted /\ Dutiful /\ [Next]_vars => Dutiful'
<1> SUFFICES ASSUME TypeOK, Accounted, Dutiful, [Next]_vars PROVE Dutiful'
  OBVIOUS
<1>1. CASE SyncStep
  BY <1>1, FetchDutiful, DrainDutiful, ReconcileDutiful DEF SyncStep
<1>2. CASE Crash
  BY <1>2 DEF Crash, ForgetRun, settings, orderbook, sources, Dutiful, OwnCollections,
              OwedIsWanted, TargetInUse, Draining, PurgesOwed, RunUse, WritesInUse
<1>3. CASE AdminStep
  BY <1>3, AdminDutiful
<1>4. CASE UserStep
  BY <1>4, UserDutiful
<1>5. CASE UNCHANGED vars
  BY <1>5 DEF vars, settings, orderbook, sources, world, runState, drainState,
              Dutiful, OwnCollections, OwedIsWanted, TargetInUse, Draining,
              DrainKeepsPromises, AccountedFor, InHand, PurgesOwed, RunUse, WritesInUse,
              Pending
<1> QED
  BY <1>1, <1>2, <1>3, <1>4, <1>5 DEF Next

-----------------------------------------------------------------------------
\* The duty of a calendar as a function of what the database holds.
DutyGiven(c, co, q, gone, t, on) ==
    IF \E s \in Calendars : co[s] = c /\ q[s] # NotQueued THEN "owed"
    ELSE IF c \in gone THEN "abandoned"
    ELSE IF t = Null \/ co[t] # c THEN "free"
    ELSE IF on THEN "active" ELSE "parked"

\* It is that of its one source, if it has one ...
LEMMA DutyOfOwned ==
    ASSUME NEW c \in Cols, NEW s \in Calendars, NEW co, NEW q, NEW gone,
           NEW t \in Calendars \cup {Null}, NEW on,
           co[s] = c, \A p \in Calendars : p # s => co[p] # c
    PROVE  DutyGiven(c, co, q, gone, t, on) =
               IF q[s] # NotQueued THEN "owed"
               ELSE IF c \in gone THEN "abandoned"
               ELSE IF t # s THEN "free"
               ELSE IF on THEN "active" ELSE "parked"
BY MirrorAssumption DEF DutyGiven

\* ... and without one nothing can be done about it.
LEMMA DutyOfNobodys ==
    ASSUME NEW c \in Cols, NEW co, NEW q, NEW gone,
           NEW t \in Calendars \cup {Null}, NEW on,
           \A p \in Calendars : co[p] # c
    PROVE  DutyGiven(c, co, q, gone, t, on) = IF c \in gone THEN "abandoned" ELSE "free"
BY DEF DutyGiven

\* A calendar whose duty changes as CalendarDuty allows, and that gets copies
\* only when it is the active one, moves as CalendarDuty allows.
LEMMA DutyMoves ==
    ASSUME NEW c \in Cols,
           Held(cal[c]) = {} /\ Held(cal'[c]) # {} => DutyOf(c) = "active",
           \/ DutyOf(c)' = DutyOf(c)
           \/ DutyOf(c)' = "active"
           \/ DutyOf(c)' = "parked" /\ (DutyOf(c) = "owed" => Held(cal'[c]) = {})
           \/ DutyOf(c)' = "owed" /\ DutyOf(c) # "free"
           \/ DutyOf(c)' = "free" /\ DutyOf(c) = "owed" /\ Held(cal'[c]) = {}
           \/ DutyOf(c)' = "abandoned" /\ DutyOf(c) = "owed" /\ failed'
           \/ DutyOf(c)' = "abandoned" /\ \A s \in Calendars : coll'[s] # c
    PROVE  Duty!Move(c)
<1>1. DutyOf(c) \in Duty!Duties
  BY DEF DutyOf, Duty!Duties
<1>2. [d \in Cols |-> DutyOf(d)][c] = DutyOf(c) /\ [d \in Cols |-> DutyOf(d)]'[c] = DutyOf(c)'
  OBVIOUS
<1>3. /\ [d \in Cols |-> Held(cal[d]) # {}][c] = (Held(cal[c]) # {})
      /\ [d \in Cols |-> Held(cal[d]) # {}]'[c] = (Held(cal'[c]) # {})
  OBVIOUS
<1>4. Duty!Gains(c) => DutyOf(c) = "active"
  BY <1>3 DEF Duty!Gains
<1>5. \/ Duty!Stays(c) \/ Duty!Activate(c) \/ Duty!Park(c) \/ Duty!Owe(c)
      \/ Duty!KeepPromise(c) \/ Duty!GiveUp(c) \/ Duty!LoseAccess(c)
  <2>1. CASE DutyOf(c)' = DutyOf(c)
    BY <1>2, <2>1 DEF Duty!Stays
  <2>2. CASE DutyOf(c)' = "active"
    BY <1>1, <1>2, <2>2 DEF Duty!Activate, Duty!Becomes
  <2>3. CASE DutyOf(c)' = "parked" /\ (DutyOf(c) = "owed" => Held(cal'[c]) = {})
    BY <1>1, <1>2, <1>3, <2>3 DEF Duty!Park, Duty!KeepPromise, Duty!Becomes
  <2>4. CASE DutyOf(c)' = "owed" /\ DutyOf(c) # "free"
    BY <1>1, <1>2, <2>4 DEF Duty!Owe, Duty!Becomes
  <2>5. CASE DutyOf(c)' = "free" /\ DutyOf(c) = "owed" /\ Held(cal'[c]) = {}
    BY <1>2, <1>3, <2>5 DEF Duty!KeepPromise, Duty!Becomes
  <2>6. CASE DutyOf(c)' = "abandoned" /\ DutyOf(c) = "owed" /\ failed'
    BY <1>2, <2>6 DEF Duty!GiveUp, Duty!Becomes
  <2>7. CASE DutyOf(c)' = "abandoned" /\ \A s \in Calendars : coll'[s] # c
    BY <1>1, <1>2, <2>7 DEF Duty!LoseAccess, Duty!Becomes
  <2> QED
    BY <2>1, <2>2, <2>3, <2>4, <2>5, <2>6, <2>7
<1> QED
  BY <1>2, <1>4, <1>5 DEF Duty!Move

\* The duty of a calendar in this state and in the next, by its source.
LEMMA DutyBySource ==
    ASSUME TypeOK, TypeOK', Dutiful, Dutiful', NEW c \in Cols
    PROVE  /\ DutyOf(c) = DutyGiven(c, coll, queue, abandoned, target, enabled)
           /\ DutyOf(c)' = DutyGiven(c, coll', queue', abandoned', target', enabled')
           /\ \A s, p \in Calendars : coll[s] = c /\ p # s => coll[p] # c
           /\ \A s, p \in Calendars : coll'[s] = c /\ p # s => coll'[p] # c
           /\ target \in Calendars \cup {Null} /\ target' \in Calendars \cup {Null}
<1>1. OwnCollections /\ OwnCollections'
  BY DEF Dutiful
<1> QED
  BY <1>1 DEF DutyOf, DutyGiven, OwnCollections, TypeOK, StoredOK

LEMMA DutyStays ==
    ASSUME UNCHANGED <<enabled, target, queue, coll, abandoned>>, NEW c \in Cols,
           Held(cal[c]) = {} /\ Held(cal'[c]) # {} => DutyOf(c) = "active"
    PROVE  Duty!Move(c)
<1>1. DutyOf(c)' = DutyOf(c)
  BY DEF DutyOf
<1> QED
  BY <1>1, DutyMoves

\* The reconciler writes only into the calendar of the mirror that is on.
LEMMA ReconcileMoves ==
    ASSUME TypeOK, Accounted, Dutiful, ReconcileStep, NEW c \in Cols
    PROVE  Duty!Move(c)
<1>1. UNCHANGED <<enabled, target, queue, coll, abandoned>> /\ pc \in {"list", "work"}
  BY DEF ReconcileStep, ListCopies, ListFailed, Refresh, Discard, Send, SendFailed,
         Settle, Finish, Due, settings, orderbook, sources
<1>2. /\ snap.src = target /\ snap.col = coll[target]
      /\ enabled /\ target \in Calendars /\ queue[target] = NotQueued
  BY <1>1 DEF Accounted, TargetKept, Dutiful, WritesInUse, TypeOK, RunOK, StoredOK
<1>3. DutyOf(snap.col) = "active"
  <2>1. coll[target] \in Cols /\ coll[target] \notin abandoned
    BY <1>1, <1>2 DEF Dutiful, TargetInUse, TypeOK, RunOK, Snapshot
  <2>2. \A p \in Calendars : p # target => coll[p] # coll[target]
    BY <1>2, <2>1 DEF Dutiful, OwnCollections
  <2> QED
    BY <1>2, <2>1, <2>2, MirrorAssumption DEF DutyOf
<1>4. c # snap.col => cal'[c] = cal[c]
  <2>1. \/ cal' = cal
        \/ \E r \in work : cal' = [cal EXCEPT ![snap.col][r.url] = AfterWrite(r)]
    BY DEF ReconcileStep, ListCopies, ListFailed, Refresh, Discard, Send, SendFailed,
           Settle, Finish, world
  <2> QED
    BY <2>1 DEF TypeOK, WorldOK
<1> QED
  BY <1>1, <1>3, <1>4, DutyStays

\* Neither fetching, nor a drain under way, nor the user, nor a crash changes a
\* duty or adds a copy where there was none.
LEMMA IdleMoves ==
    ASSUME Slots = {"own"}, TypeOK, NEW c \in Cols,
           FetchStep \/ (DrainStep /\ ~DrainEnd) \/ Crash \/ UserStep
    PROVE  Duty!Move(c)
<1>1. UNCHANGED <<enabled, target, queue, coll, abandoned>>
  BY DEF FetchStep, StartSync, FetchOk, FetchFailed, StartMirror, DrainStep, DropStale,
         DropUnusable, PurgeList, PurgeDelete, PurgeEnd, Crash, UserStep, EditCopy,
         MoveCopy, RemoveCopy, ImportCopy, Touch, Expire, settings, orderbook, sources
<1>2. Held(cal'[c]) \subseteq Held(cal[c])
  <2>1. CASE FetchStep \/ Crash
    BY <2>1 DEF FetchStep, StartSync, FetchOk, FetchFailed, StartMirror, Crash, world
  <2>2. CASE DrainStep
    BY <2>2, DrainRemoves
  <2>3. CASE UserStep
    BY <2>3, UserAddsNoCopy
  <2> QED
    BY <2>1, <2>2, <2>3
<1> QED
  BY <1>1, <1>2, DutyStays

\* When the queue is stored, an order that is not in it any more was carried
\* out, was given up on with a note, or is void: its calendar is in use again.
LEMMA DrainEndMoves ==
    ASSUME TypeOK, TypeOK', Accounted, Dutiful, Dutiful', DrainEnd, NEW c \in Cols
    PROVE  Duty!Move(c)
<1>1. /\ DrainKeepsPromises /\ Pending(orders) = {}
      /\ queue' = kept /\ failed' = gaveUp /\ abandoned' = abandoned \cup lost
      /\ UNCHANGED <<enabled, target, coll, cal>>
  BY DEF DrainEnd, StoreQueue, Dutiful, Draining, settings, sources, world
<1>2. InHand = Pending(kept) /\ Pending(kept) \subseteq Pending(queue)
  BY <1>1 DEF DrainKeepsPromises, InHand
<1>3. CASE \A s \in Calendars : coll[s] # c
  <2>1. c \notin lost
    BY <1>1, <1>3 DEF DrainKeepsPromises, Pending
  <2>2. DutyOf(c)' = DutyOf(c)
    BY <1>1, <1>3, <2>1, DutyBySource, DutyOfNobodys
  <2> QED
    BY <1>1, <2>2, DutyMoves
<1>4. ASSUME NEW s \in Calendars, coll[s] = c
      PROVE  Duty!Move(c)
  <2> DEFINE Own(q, gone, t, on) == IF q[s] # NotQueued THEN "owed"
                                    ELSE IF c \in gone THEN "abandoned"
                                    ELSE IF t # s THEN "free"
                                    ELSE IF on THEN "active" ELSE "parked"
  <2>1. /\ DutyOf(c) = Own(queue, abandoned, target, enabled)
        /\ DutyOf(c)' = Own(kept, abandoned \cup lost, target, enabled)
    <3>1. \A p \in Calendars : p # s => coll[p] # c
      BY <1>4, DutyBySource
    <3>2. /\ DutyOf(c) = DutyGiven(c, coll, queue, abandoned, target, enabled)
          /\ DutyOf(c)' = DutyGiven(c, coll, kept, abandoned \cup lost, target, enabled)
          /\ target \in Calendars \cup {Null}
      BY <1>1, DutyBySource
    <3> QED
      BY <1>4, <3>1, <3>2, MirrorAssumption DEF DutyGiven
  <2>2. c \in lost => /\ queue[s] # NotQueued /\ kept[s] = NotQueued /\ gaveUp
    <3> SUFFICES ASSUME c \in lost PROVE queue[s] # NotQueued /\ kept[s] = NotQueued /\ gaveUp
      OBVIOUS
    <3>1. PICK p \in Pending(queue) \ InHand : coll[p] = c
      BY <1>1 DEF DrainKeepsPromises
    <3>2. p = s
      BY <1>4, <3>1, DutyBySource DEF Pending
    <3> QED
      BY <1>1, <1>2, <3>1, <3>2 DEF DrainKeepsPromises, Pending
  <2>3. kept[s] # NotQueued => queue[s] # NotQueued
    BY <1>2 DEF Pending
  <2>4. CASE queue[s] # NotQueued /\ kept[s] = NotQueued
    <3>1. AccountedFor(s) /\ s \notin InHand
      BY <1>1, <1>2, <2>4 DEF DrainKeepsPromises, Pending
    <3>2. c \notin abandoned
      BY <1>4, <2>4 DEF Dutiful, OwedIsWanted
    <3>3. c \in lost \/ Held(cal'[c]) = {} \/ (enabled /\ s = target)
      BY <1>1, <1>4, <3>1 DEF AccountedFor
    <3>4. enabled /\ s = target => c \notin lost
      BY <1>1, <1>4, MirrorAssumption DEF DrainKeepsPromises
    <3> QED
      BY <1>1, <2>1, <2>2, <2>4, <3>2, <3>3, <3>4, DutyMoves
  <2>5. CASE ~(queue[s] # NotQueued /\ kept[s] = NotQueued)
    <3>1. DutyOf(c)' = DutyOf(c)
      BY <2>1, <2>2, <2>3, <2>5
    <3> QED
      BY <1>1, <3>1, DutyMoves
  <2> QED
    BY <2>4, <2>5
<1> QED
  BY <1>3, <1>4

\* The admin's requests change the duty of the old target and the new one.
LEMMA AdminMoves ==
    ASSUME ~CanRepoint, TypeOK, TypeOK', Dutiful, Dutiful', AdminStep, NEW c \in Cols
    PROVE  Duty!Move(c)
<1>1. UNCHANGED cal
  BY DEF AdminStep, UpdateMirrorSync, CleanupMirrorSync, DeleteCalendar,
         RepointCalendar, DeleteFeed, ToggleFeed, world
<1>2. target \in Calendars \cup {Null} /\ target' \in Calendars \cup {Null}
      /\ Null \notin Calendars
  BY MirrorAssumption, DutyBySource
<1>3. ASSUME NEW s \in Calendars, coll[s] = c, coll' = coll
      PROVE  /\ DutyOf(c) = IF queue[s] # NotQueued THEN "owed"
                            ELSE IF c \in abandoned THEN "abandoned"
                            ELSE IF target # s THEN "free"
                            ELSE IF enabled THEN "active" ELSE "parked"
             /\ DutyOf(c)' = IF queue'[s] # NotQueued THEN "owed"
                             ELSE IF c \in abandoned' THEN "abandoned"
                             ELSE IF target' # s THEN "free"
                             ELSE IF enabled' THEN "active" ELSE "parked"
  BY <1>2, <1>3, DutyBySource, DutyOfOwned
<1>4. ASSUME \A s \in Calendars : coll[s] # c /\ coll'[s] # c
      PROVE  /\ DutyOf(c) = IF c \in abandoned THEN "abandoned" ELSE "free"
             /\ DutyOf(c)' = IF c \in abandoned' THEN "abandoned" ELSE "free"
  BY <1>2, <1>4, DutyBySource, DutyOfNobodys
<1>5. ASSUME NEW on \in BOOLEAN, NEW t \in Calendars \cup {Null},
             NEW ids \in SUBSET Feeds, UpdateMirrorSync(on, t, ids)
      PROVE  Duty!Move(c)
  <2>1. /\ target' = t /\ coll' = coll
        /\ abandoned' = abandoned \ {coll[s] : s \in {t, target} \ {Null}}
    BY <1>5 DEF UpdateMirrorSync, sources
  <2>2. \A s \in Calendars : IF s = target /\ t # target THEN queue'[s] # NotQueued
                                                         ELSE queue'[s] = queue[s]
    BY <1>2, <1>5 DEF UpdateMirrorSync, StoreQueue, Queued, NotQueued, TypeOK, StoredOK,
                      Attempts
  <2>3. CASE \A s \in Calendars : coll[s] # c
    BY <1>1, <1>2, <1>4, <2>1, <2>3, DutyMoves
  <2>4. ASSUME NEW s \in Calendars, coll[s] = c PROVE Duty!Move(c)
    <3>1. \A p \in Calendars : p # s => coll[p] # c
      BY <2>4, DutyBySource
    <3>2. c \in abandoned' <=> c \in abandoned /\ s # t /\ s # target
      BY <1>2, <2>1, <2>4, <3>1
    <3> QED
      BY <1>1, <1>2, <1>3, <2>1, <2>2, <2>4, <3>2, DutyMoves
  <2> QED
    BY <2>3, <2>4
<1>6. CASE CleanupMirrorSync
  <2>1. /\ target \in Calendars /\ UNCHANGED <<target, coll>>
        /\ abandoned' = abandoned \ {coll[target]}
    BY <1>2, <1>6 DEF CleanupMirrorSync, sources
  <2>2. \A s \in Calendars : IF s = target THEN queue'[s] # NotQueued
                                           ELSE queue'[s] = queue[s]
    BY <1>6 DEF CleanupMirrorSync, StoreQueue, Queued, NotQueued, TypeOK, StoredOK, Attempts
  <2>3. CASE \A s \in Calendars : coll[s] # c
    BY <1>1, <1>4, <2>1, <2>3, DutyMoves
  <2>4. ASSUME NEW s \in Calendars, coll[s] = c PROVE Duty!Move(c)
    <3>1. s # target => coll[target] # c
      BY <2>1, <2>4, DutyBySource
    <3> QED
      BY <1>1, <1>3, <2>1, <2>2, <2>4, <3>1, DutyMoves
  <2> QED
    BY <2>3, <2>4
<1>7. ASSUME NEW s \in Calendars, DeleteCalendar(s) PROVE Duty!Move(c)
  <2>1. /\ coll' = [coll EXCEPT ![s] = Null]
        /\ abandoned' = abandoned \cup ({coll[s]} \cap Cols)
        /\ queue' = [queue EXCEPT ![s] = NotQueued]
    BY <1>7 DEF DeleteCalendar, StoreQueue
  <2>2. IF target = s THEN target' = Null
                      ELSE target' = target /\ enabled' = enabled
    BY <1>7 DEF DeleteCalendar
  <2>3. coll'[s] = Null /\ Null # c /\ \A p \in Calendars : p # s => coll'[p] = coll[p]
    BY <2>1, MirrorAssumption DEF TypeOK, StoredOK
  <2>4. \A p \in Calendars : p # s => queue'[p] = queue[p]
    BY <2>1 DEF TypeOK, StoredOK
  <2>5. CASE coll[s] = c
    <3>1. \A p \in Calendars : coll'[p] # c
      BY <2>3, <2>5, DutyBySource
    <3>2. DutyOf(c)' = DutyGiven(c, coll', queue', abandoned', target', enabled')
      BY DutyBySource
    <3>3. DutyOf(c)' = "abandoned"
      BY <1>2, <2>1, <2>5, <3>1, <3>2 DEF DutyGiven
    <3> QED
      BY <1>1, <3>1, <3>3, DutyMoves
  <2>6. CASE coll[s] # c
    <3>1. c \in abandoned' <=> c \in abandoned
      BY <2>1, <2>6
    <3>2. CASE \A p \in Calendars : coll[p] # c
      <4>1. \A p \in Calendars : coll'[p] # c
        BY <2>3, <3>2
      <4> QED
        BY <1>1, <1>4, <3>1, <3>2, <4>1, DutyMoves
    <3>3. ASSUME NEW p \in Calendars, coll[p] = c PROVE Duty!Move(c)
      <4>1. p # s /\ coll'[p] = c
        BY <2>3, <2>6, <3>3
      <4>2. DutyOf(c) = IF queue[p] # NotQueued THEN "owed"
                        ELSE IF c \in abandoned THEN "abandoned"
                        ELSE IF target # p THEN "free"
                        ELSE IF enabled THEN "active" ELSE "parked"
        <5>1. DutyOf(c) = DutyGiven(c, coll, queue, abandoned, target, enabled)
          BY DutyBySource
        <5>2. \A q \in Calendars : q # p => coll[q] # c
          BY <3>3, DutyBySource
        <5> QED
          BY <1>2, <3>3, <5>1, <5>2 DEF DutyGiven
      <4>3. DutyOf(c)' = IF queue'[p] # NotQueued THEN "owed"
                         ELSE IF c \in abandoned' THEN "abandoned"
                         ELSE IF target' # p THEN "free"
                         ELSE IF enabled' THEN "active" ELSE "parked"
        <5>1. DutyOf(c)' = DutyGiven(c, coll', queue', abandoned', target', enabled')
          BY DutyBySource
        <5>2. \A q \in Calendars : q # p => coll'[q] # c
          BY <4>1, DutyBySource
        <5> QED
          BY <1>2, <4>1, <5>1, <5>2 DEF DutyGiven
      <4> QED
        BY <1>1, <1>2, <2>2, <2>4, <3>1, <4>1, <4>2, <4>3, DutyMoves
    <3> QED
      BY <3>2, <3>3
  <2> QED
    BY <2>5, <2>6
<1>8. ASSUME NEW f \in Feeds, DeleteFeed(f) \/ ToggleFeed(f) PROVE Duty!Move(c)
  BY <1>1, <1>8, DutyStays DEF DeleteFeed, ToggleFeed, settings, orderbook
<1> QED
  BY <1>5, <1>6, <1>7, <1>8 DEF AdminStep, RepointCalendar

LEMMA InitDuty == Init => Duty!Init
<1> SUFFICES ASSUME Init PROVE Duty!Init
  OBVIOUS
<1>1. \A c \in Cols : DutyOf(c) = "free" /\ Held(cal[c]) = {}
  BY DEF Init, DutyOf, NoOrders, Held, EmptyCollection
<1> QED
  BY <1>1 DEF Duty!Init, Init

\* Every step of the mirror, seen as a keeper of promises, is a step that
\* CalendarDuty allows: each calendar takes one of its moves, and the copies
\* only ever arrive in the active one.  So what is owed is removed or given up
\* with a note, over crashes, retries and changes of mind.
THEOREM PromisesKept ==
    ASSUME ~AdminMidRun, ~CanRepoint, Slots = {"own"}
    PROVE  Spec => KeepsPromises
<1>1. /\ TypeOK /\ Accounted /\ Dutiful
      /\ TypeOK' /\ Dutiful'
      /\ [Next]_vars
      => [Duty!Next]_(Duty!vars)
  <2> SUFFICES ASSUME TypeOK, Accounted, Dutiful, TypeOK', Dutiful', [Next]_vars
               PROVE  [Duty!Next]_(Duty!vars)
    OBVIOUS
  <2>1. CASE SyncStep
    <3>1. \A c \in Cols : Duty!Move(c)
      BY <2>1, IdleMoves, DrainEndMoves, ReconcileMoves DEF SyncStep
    <3> QED
      BY <3>1 DEF Duty!Next
  <2>2. CASE Crash \/ UserStep
    BY <2>2, IdleMoves DEF Duty!Next
  <2>3. CASE AdminStep
    BY <2>3, AdminMoves DEF Duty!Next
  <2>4. CASE UNCHANGED vars
    BY <2>4 DEF vars, settings, orderbook, sources, world, Duty!vars, DutyOf
  <2> QED
    BY <2>1, <2>2, <2>3, <2>4 DEF Next
<1>2. Spec => []Dutiful
  BY InitDutiful, DutifulStep, AccountedInvariant, TypeCorrect, PTL DEF Spec
<1> QED
  BY <1>1, <1>2, InitDuty, AccountedInvariant, TypeCorrect, PTL
     DEF Spec, KeepsPromises, Duty!Spec

-----------------------------------------------------------------------------
(***************************************************************************)
(* What the copies say.  The reconciler compares an appointment with the   *)
(* row of its copy, never with the copy, so its rows must tell what the    *)
(* copies say.  They do as long as no response is lost and no run dies     *)
(* between a PUT and its row, and as long as a row always tells of a copy  *)
(* in the calendar the run writes into.  A second copy of a key may say    *)
(* something else only while the run is about to delete it.                *)
(***************************************************************************)
OwnText(copy) == copy # NoCopy /\ copy.by = 0

\* Only the user moves copies.
OwnTextUnmoved ==
    \A c \in Cols, u \in Url : OwnText(cal[c][u]) => ~cal[c][u].away

\* The run's calendar is the target's, or there is no target any more.
SameTarget ==
    /\ target # Null => coll[target] # Null
    /\ snap.src # Null => /\ pc \notin {"idle", "fetch"}
                          /\ coll[snap.src] \in {snap.col, Null}
                          /\ ~AdminMidRun => snap.src = target

RowsOfTarget ==
    \A k \in Keys :
        /\ mapping[k] # Null => /\ target # Null => mapping[k].col = coll[target]
                                /\ snap.src # Null => mapping[k].col = snap.col
        /\ snap.src # Null /\ snap.rows[k] # Null => snap.rows[k].col = snap.col

Puts == {"create", "update"}
Writers == Puts \cup {"refresh"}

\* A run has at most one request about the row of a key.
OneWriter ==
    /\ pc # "work" => work = {}
    /\ sent # Null => sent.reply # "error"
    /\ \A q, r \in work : q.op \in Writers /\ r.op \in Writers /\ q.key = r.key => q = r
    /\ \A r \in work : r.op \in Writers /\ sent # Null /\ sent.req.op \in Puts =>
                          sent.req.key # r.key

\* The PUT for key k is answered, and its row not stored yet.
PutDone(k) ==
    sent # Null /\ sent.req.op \in Puts /\ sent.reply = "done" /\ sent.req.key = k

\* The copy at u is a duplicate about to be deleted.
Going(todo, u, copy) == \E r \in todo : r.op = "extra" /\ r.url = u /\ r.etag = copy

\* The add-on's text in the copies of k is v.
Says(store, todo, k, v) ==
    \A u \in Url : u.key = k /\ OwnText(store[u]) =>
                      store[u].val = v \/ Going(todo, u, store[u])

\* There is none but at w.
OthersGo(store, todo, k, w) ==
    \A u \in Url \ {w} : u.key = k /\ OwnText(store[u]) => Going(todo, u, store[u])

RowsSay ==
    /\ \A k \in Keys : mapping[k] # Null /\ ~PutDone(k) =>
          Says(cal[mapping[k].col], work, k, mapping[k].val)
    /\ \A k \in Keys : pc = "list" /\ snap.rows[k] # Null =>
          Says(cal[snap.col], work, k, snap.rows[k].val)

WorkSays ==
    /\ \A k \in Keys : PutDone(k) => Says(cal[snap.col], work, k, sent.req.val)
    /\ \A r \in work : r.op = "refresh" => Says(cal[snap.col], work, r.key, r.val)
    /\ \A r \in work : r.op \in Puts => OthersGo(cal[snap.col], work, r.key, r.url)

Faithful ==
    OwnTextUnmoved /\ SameTarget /\ RowsOfTarget /\ OneWriter /\ RowsSay /\ WorkSays

\* No request fails and no run dies.
LEMMA NoFaults ==
    ASSUME MaxFaults = 0, ~LongOutage, TypeOK
    PROVE  ~Fault /\ ~RequestFails
BY DEF TypeOK, WorldOK, Fault, RequestFails

LEMMA StayUnmoved == TypeOK /\ OwnTextUnmoved /\ [Next]_vars => OwnTextUnmoved'
<1> SUFFICES ASSUME TypeOK, OwnTextUnmoved, [Next]_vars, cal' # cal PROVE OwnTextUnmoved'
  BY DEF OwnTextUnmoved
<1>1. PICK c \in Cols, u \in Url, copy \in Copy \cup {NoCopy} :
         /\ cal' = [cal EXCEPT ![c][u] = copy]
         /\ copy # NoCopy => \/ copy.by = edits' /\ edits' # edits
                             \/ \E v \in Vals : copy = Written(v)
  BY OneCopyChanges
<1>2. edits' # edits => edits' # 0
  BY EditsGrow
<1>3. OwnText(copy) => ~copy.away
  BY <1>1, <1>2 DEF OwnText, Written
<1> QED
  BY <1>1, <1>3 DEF OwnTextUnmoved, TypeOK, WorldOK, Collection

\* The calendar a run writes into is the one it read at its start.
LEMMA RunKeepsCalendar ==
    ASSUME TypeOK, [Next]_vars, snap'.src # Null
    PROVE  \/ /\ StartMirror /\ pc' \in {"drain", "list"}
              /\ snap'.src = target /\ snap'.col = coll[target]
              /\ snap'.rows \in {mapping, NoRows}
           \/ /\ ~StartMirror /\ snap'.src = snap.src /\ snap'.col = snap.col
              /\ pc \notin {"idle", "fetch"} => pc' \notin {"idle", "fetch"}
<1>1. ~ForgetRun
  BY DEF ForgetRun, NoSnap
<1>2. CASE StartMirror
  BY <1>1, <1>2 DEF StartMirror, Plan, NoSnap, NoRows
<1>3. CASE ~StartMirror
  <2>1. \/ snap' = snap
        \/ snap' = [snap EXCEPT !.seenEdits = edits]
        \/ snap' = [snap EXCEPT !.ids = sourceIds,
                                !.wanted = DesiredEvents(sourceIds), !.rows = mapping]
    BY <1>1, <1>3
       DEF Next, SyncStep, FetchStep, DrainStep, ReconcileStep, AdminStep, UserStep,
           StartSync, FetchOk, FetchFailed, DropStale, DropUnusable, PurgeList,
           PurgeDelete, PurgeEnd, DrainEnd, Plan, ListCopies, ListFailed, Refresh,
           Discard, Send, SendFailed, Settle, Finish, Crash, UpdateMirrorSync,
           CleanupMirrorSync, DeleteCalendar, RepointCalendar, DeleteFeed, ToggleFeed,
           EditCopy, MoveCopy, RemoveCopy, ImportCopy, Touch, Expire, vars, runState
  <2>2. snap'.src = snap.src /\ snap'.col = snap.col
    BY <2>1 DEF TypeOK, RunOK, Snapshot
  <2>3. pc \notin {"idle", "fetch"} => pc' \notin {"idle", "fetch"}
    BY <1>1, <1>3
       DEF Next, SyncStep, FetchStep, DrainStep, ReconcileStep, AdminStep, UserStep,
           StartSync, FetchOk, FetchFailed, DropStale, DropUnusable, PurgeList,
           PurgeDelete, PurgeEnd, DrainEnd, Plan, ListCopies, ListFailed, Refresh,
           Discard, Send, SendFailed, Settle, Finish, Crash, UpdateMirrorSync,
           CleanupMirrorSync, DeleteCalendar, RepointCalendar, DeleteFeed, ToggleFeed,
           EditCopy, MoveCopy, RemoveCopy, ImportCopy, Touch, Expire, vars, runState,
           Visit, Due
  <2> QED
    BY <1>3, <2>2, <2>3
<1> QED
  BY <1>2, <1>3

\* Only the admin changes the target or what a source names.
LEMMA AdminSetsTarget ==
    ASSUME [Next]_vars, ~AdminStep
    PROVE  UNCHANGED <<target, coll>>
BY DEF Next, SyncStep, FetchStep, DrainStep, ReconcileStep, UserStep,
       StartSync, FetchOk, FetchFailed, StartMirror, DropStale, DropUnusable, PurgeList,
       PurgeDelete, PurgeEnd, DrainEnd, ListCopies, ListFailed, Refresh,
       Discard, Send, SendFailed, Settle, Finish, Crash,
       EditCopy, MoveCopy, RemoveCopy, ImportCopy, Touch, Expire, vars, settings, sources

LEMMA StaySameTarget ==
    ASSUME ~CanRepoint, TypeOK, SameTarget, [Next]_vars
    PROVE  SameTarget'
<1>1. target \in Calendars \cup {Null} /\ coll \in [Calendars -> Cols \cup {NoUrl, Null}]
      /\ snap.src \in Calendars \cup {Null}
  BY DEF TypeOK, StoredOK, RunOK, Snapshot
<1>2. CASE AdminStep
  <2>1. UNCHANGED <<pc, snap>> /\ AdminTurn
    BY <1>2 DEF AdminStep, UpdateMirrorSync, CleanupMirrorSync, DeleteCalendar,
                RepointCalendar, DeleteFeed, ToggleFeed, runState
  <2>2. ~AdminMidRun => snap.src = Null
    BY <2>1 DEF AdminTurn, SameTarget
  <2>3. CASE \E on \in BOOLEAN, t \in Calendars \cup {Null}, ids \in SUBSET Feeds :
               UpdateMirrorSync(on, t, ids)
    BY <1>1, <2>1, <2>2, <2>3 DEF UpdateMirrorSync, Exists, sources, SameTarget
  <2>4. CASE CleanupMirrorSync
    BY <1>1, <2>1, <2>2, <2>4 DEF CleanupMirrorSync, sources, SameTarget
  <2>5. ASSUME NEW s \in Calendars, DeleteCalendar(s) PROVE SameTarget'
    <3>1. /\ coll' = [coll EXCEPT ![s] = Null]
          /\ target = s => target' = Null
          /\ target # s => target' = target
      BY <2>5 DEF DeleteCalendar
    <3>2. \A p \in Calendars : coll'[p] = coll[p] \/ coll'[p] = Null
      BY <1>1, <3>1
    <3>3. target' # Null => coll'[target'] # Null
      BY <1>1, <3>1 DEF SameTarget
    <3> QED
      BY <1>1, <2>1, <2>2, <3>2, <3>3 DEF SameTarget
  <2>6. CASE \E f \in Feeds : DeleteFeed(f) \/ ToggleFeed(f)
    BY <1>1, <2>1, <2>2, <2>6 DEF DeleteFeed, ToggleFeed, settings, SameTarget
  <2> QED
    BY <1>2, <2>3, <2>4, <2>5, <2>6 DEF AdminStep, RepointCalendar
<1>3. CASE ~AdminStep
  <2>1. UNCHANGED <<target, coll>>
    BY <1>3, AdminSetsTarget
  <2>2. snap'.src # Null => /\ pc' \notin {"idle", "fetch"}
                            /\ coll[snap'.src] \in {snap'.col, Null}
                            /\ ~AdminMidRun => snap'.src = target
    BY RunKeepsCalendar DEF SameTarget
  <2> QED
    BY <2>1, <2>2 DEF SameTarget
<1> QED
  BY <1>2, <1>3

\* There is one calendar a run can write into, as long as the admin does not
\* choose another one meanwhile.
LEMMA RunWritesToTarget ==
    ASSUME AdminMidRun => \A s, t \in Calendars : s = t,
           TypeOK, SameTarget, snap.src # Null, target # Null
    PROVE  snap.col = coll[target]
<1>1. snap.src \in Calendars /\ target \in Calendars
  BY DEF TypeOK, StoredOK, RunOK, Snapshot
<1>2. snap.src = target
  <2>1. CASE AdminMidRun
    BY <1>1, <2>1
  <2>2. CASE ~AdminMidRun
    BY <2>2 DEF SameTarget
  <2> QED
    BY <2>1, <2>2
<1> QED
  BY <1>2 DEF SameTarget

\* A row changes only when it is forgotten, or stored for a copy.
LEMMA RowsChange ==
    ASSUME TypeOK, [Next]_vars, NEW k \in Keys, mapping'[k] \notin {mapping[k], Null}
    PROVE  /\ pc = "work" /\ pc' = "work" /\ snap' = snap
           /\ mapping'[k].col = snap.col
           /\ \/ /\ PutDone(k) /\ Settle /\ mapping'[k].val = sent.req.val
                 /\ work' = work
              \/ /\ sent = Null
                 /\ \E r \in work : /\ Refresh(r) /\ r.op = "refresh" /\ r.key = k
                                    /\ mapping'[k].val = r.val
<1>1. mapping \in [Keys -> Row \cup {Null}]
  BY DEF TypeOK, StoredOK
<1>2. CASE \E r \in work : Refresh(r) \/ Discard(r)
  BY <1>1, <1>2 DEF Refresh, Discard, Due, StoreRow, DropRow
<1>3. CASE Settle
  <2>1. \/ mapping' = mapping \/ DropRow(sent.req)
        \/ /\ StoreRow(sent.req, sent.etag) /\ sent # Null /\ sent.reply = "done"
           /\ sent.req.op \in Puts /\ pc = "work" /\ UNCHANGED <<pc, snap, work>>
    BY <1>3 DEF Settle, Puts
  <2> QED
    BY <1>1, <1>3, <2>1 DEF StoreRow, DropRow, PutDone
<1>4. CASE ~Settle /\ ~\E r \in work : Refresh(r) \/ Discard(r)
  <2>1. mapping' \in {mapping, NoRows}
    BY <1>4
       DEF Next, SyncStep, FetchStep, DrainStep, ReconcileStep, AdminStep, UserStep,
           StartSync, FetchOk, FetchFailed, StartMirror, DropStale, DropUnusable,
           PurgeList, PurgeDelete, PurgeEnd, DrainEnd, ListCopies, ListFailed, Send,
           SendFailed, Finish, Crash, UpdateMirrorSync, CleanupMirrorSync,
           DeleteCalendar, RepointCalendar, DeleteFeed, ToggleFeed, EditCopy, MoveCopy,
           RemoveCopy, ImportCopy, Touch, Expire, vars
  <2> QED
    BY <2>1 DEF NoRows
<1> QED
  BY <1>2, <1>3, <1>4

LEMMA StayRowsOfTarget ==
    ASSUME ~CanRepoint, AdminMidRun => \A s, t \in Calendars : s = t,
           TypeOK, SameTarget, RowsOfTarget, [Next]_vars
    PROVE  RowsOfTarget'
<1>1. target \in Calendars \cup {Null} /\ coll \in [Calendars -> Cols \cup {NoUrl, Null}]
      /\ mapping \in [Keys -> Row \cup {Null}]
  BY DEF TypeOK, StoredOK
<1>2. CASE AdminStep
  <2>1. snap' = snap
    BY <1>2 DEF AdminStep, UpdateMirrorSync, CleanupMirrorSync, DeleteCalendar,
                RepointCalendar, DeleteFeed, ToggleFeed, runState
  <2>2. mapping' = NoRows \/ (mapping' = mapping /\ target' = target)
    BY <1>2 DEF AdminStep, UpdateMirrorSync, CleanupMirrorSync, DeleteCalendar,
                RepointCalendar, DeleteFeed, ToggleFeed, settings
  <2>3. mapping' # NoRows /\ target' # Null => coll'[target'] = coll[target]
    BY <1>1, <1>2, <2>2 DEF AdminStep, UpdateMirrorSync, CleanupMirrorSync, DeleteCalendar,
                RepointCalendar, DeleteFeed, ToggleFeed, sources
  <2> QED
    BY <2>1, <2>2, <2>3 DEF RowsOfTarget, NoRows
<1>3. CASE ~AdminStep
  <2>1. UNCHANGED <<target, coll>>
    BY <1>3, AdminSetsTarget
  <2>2. ASSUME NEW k \in Keys, mapping'[k] # Null, target # Null
        PROVE  mapping'[k].col = coll[target]
    <3>1. CASE mapping'[k] = mapping[k]
      BY <2>2, <3>1 DEF RowsOfTarget
    <3>2. CASE mapping'[k] # mapping[k]
      <4>1. mapping'[k].col = snap.col /\ pc = "work"
        BY <2>2, <3>2, RowsChange
      <4>2. snap.src # Null
        BY <4>1 DEF TypeOK, RunOK
      <4> QED
        BY <2>2, <4>1, <4>2, RunWritesToTarget
    <3> QED
      BY <3>1, <3>2
  <2>3. ASSUME snap'.src # Null, NEW k \in Keys
        PROVE  /\ mapping'[k] # Null => mapping'[k].col = snap'.col
               /\ snap'.rows[k] # Null => snap'.rows[k].col = snap'.col
    <3>1. CASE StartMirror
      <4>1. mapping' = mapping
        BY <3>1 DEF StartMirror
      <4>2. /\ snap'.src = target /\ snap'.col = coll[target]
            /\ snap'.rows \in {mapping, NoRows}
        BY <2>3, <3>1, RunKeepsCalendar
      <4> QED
        BY <2>3, <4>1, <4>2 DEF RowsOfTarget, NoRows
    <3>2. CASE ~StartMirror
      <4>1. snap'.src = snap.src /\ snap'.col = snap.col
        BY <2>3, <3>2, RunKeepsCalendar
      <4>2. mapping'[k] \in {mapping[k], Null} \/ mapping'[k].col = snap.col
        BY RowsChange
      <4>3. snap'.rows[k] \in {snap.rows[k], mapping[k], Null}
        BY RowsAreRead
      <4> QED
        BY <2>3, <4>1, <4>2, <4>3 DEF RowsOfTarget
    <3> QED
      BY <3>1, <3>2
  <2> QED
    BY <2>1, <2>2, <2>3 DEF RowsOfTarget
<1> QED
  BY <1>2, <1>3

\* What the reconciler decides: one request at most about the row of each key.
LEMMA RequestsOneWriter ==
    ASSUME NEW own, NEW listed, NEW store,
           NEW q \in Requests(own, listed, store), NEW r \in Requests(own, listed, store),
           q.op # "extra", r.op # "extra", q.key = r.key
    PROVE  q = r
<1>1. \A x \in ExtraRequests(own, listed, store) : x.op = "extra"
  BY DEF ExtraRequests, Req
<1>2. \A k \in Keys : \A x \in KeyRequests(k, own, store) : x.key = k
  BY DEF KeyRequests, Removal, Req
<1>3. \A k \in Keys : \A x, y \in KeyRequests(k, own, store) : x = y
  BY DEF KeyRequests
<1> QED
  BY <1>1, <1>2, <1>3 DEF Requests

LEMMA StayOneWriter ==
    ASSUME MaxFaults = 0, ~LongOutage, TypeOK, WorkKeyed, OneWriter, [Next]_vars
    PROVE  OneWriter'
<1>1. CASE ForgetRun
  BY <1>1 DEF ForgetRun, OneWriter
<1>2. CASE ListCopies /\ ~ForgetRun
  <2>1. /\ pc = "list" /\ pc' = "work" /\ sent' = sent
        /\ \E own \in Indexes(Listed(cal[snap.col])) :
              work' = Requests(own, Listed(cal[snap.col]), cal[snap.col])
    BY <1>2 DEF ListCopies
  <2>2. \A q, r \in work' : q.op \in Writers /\ r.op \in Writers /\ q.key = r.key => q = r
    BY <2>1, RequestsOneWriter DEF Writers, Puts
  <2> QED
    BY <2>1, <2>2 DEF OneWriter, WorkKeyed
<1>3. ASSUME NEW r \in work, Send(r) PROVE OneWriter'
  <2>1. work' = work \ {r} /\ pc' = "work" /\ pc = "work" /\ sent'.req = r
    BY <1>3, SentIsSent DEF Send, Due
  <2>2. sent'.reply # "error"
    BY <1>3 DEF Send
  <2> QED
    BY <2>1, <2>2 DEF OneWriter, Writers
<1>4. CASE ~ForgetRun /\ ~ListCopies /\ ~\E r \in work : Send(r)
  <2>1. work' \subseteq work /\ sent' \in {sent, Null} /\ (pc' # "work" => pc # "work")
    BY <1>4, NoFaults
       DEF Next, SyncStep, FetchStep, DrainStep, ReconcileStep, AdminStep, UserStep,
           StartSync, FetchOk, FetchFailed, StartMirror, Plan, DropStale, DropUnusable,
           PurgeList, PurgeDelete, PurgeEnd, DrainEnd, ListFailed, Refresh, Discard,
           SendFailed, Settle, Finish, Crash, Due, Visit, UpdateMirrorSync,
           CleanupMirrorSync, DeleteCalendar, RepointCalendar, DeleteFeed, ToggleFeed,
           EditCopy, MoveCopy, RemoveCopy, ImportCopy, Touch, Expire, vars, runState,
           workState
  <2> QED
    BY <2>1 DEF OneWriter
<1> QED
  BY <1>1, <1>2, <1>3, <1>4

\* Where no PUT is carried out, the add-on's text is what it was, and the
\* duplicates about to be deleted still are.
LEMMA QuietSteps ==
    ASSUME MaxFaults = 0, ~LongOutage, TypeOK, WorkKeyed, OneWriter, [Next]_vars,
           ~\E r \in work : Send(r),
           NEW c \in Cols, NEW k \in Keys
    PROVE  /\ \A v : Says(cal[c], work, k, v) => Says(cal'[c], work', k, v)
           /\ \A w : OthersGo(cal[c], work, k, w) => OthersGo(cal'[c], work', k, w)
<1>1. \A u \in Url : OwnText(cal'[c][u]) => cal'[c][u] = cal[c][u]
  <2>1. CASE cal' = cal
    BY <2>1
  <2>2. CASE edits' = edits /\ cal' # cal
    <3>1. Next
      BY <2>2 DEF vars, world
    <3>2. \E r \in doomed : PurgeDelete(r)
      BY <2>2, <3>1, AddOnWritesOwnText, NoFaults DEF SendFailed
    <3>3. \E r \in Doomed : cal' = [cal EXCEPT ![purging.col][r.url] = NoCopy]
      BY <2>2, <3>2 DEF PurgeDelete, TypeOK, DrainOK
    <3> QED
      BY <3>3 DEF OwnText, TypeOK, WorldOK, Collection, Doomed
  <2>3. CASE edits' # edits
    <3>1. PICK d \in Cols, x \in Url, copy \in Copy \cup {NoCopy} :
             Touch(d, x, copy) /\ (copy # NoCopy => copy.by = edits')
      BY <2>3, EditsGrow
    <3>2. edits' # 0
      BY <2>3, EditsGrow
    <3>3. cal' = [cal EXCEPT ![d][x] = copy] /\ ~OwnText(copy)
      BY <3>1, <3>2 DEF Touch, OwnText
    <3> QED
      BY <3>3 DEF TypeOK, WorldOK, Collection
  <2> QED
    BY <2>1, <2>2, <2>3
<1>2. \A r \in work : r.op = "extra" => r \in work'
  <2>1. CASE ForgetRun
    <3> SUFFICES ASSUME work # {} PROVE FALSE
      OBVIOUS
    <3>1. pc = "work" /\ snap' # snap
      BY <2>1 DEF OneWriter, TypeOK, RunOK, ForgetRun, NoSnap
    <3>2. (Settle /\ sent.reply = "error") \/ Finish
      BY <3>1, NoFaults
         DEF Next, SyncStep, FetchStep, DrainStep, ReconcileStep, AdminStep, UserStep,
             StartSync, FetchOk, FetchFailed, StartMirror, DropStale, DropUnusable,
             PurgeList, PurgeDelete, PurgeEnd, DrainEnd, ListCopies, ListFailed, Refresh,
             Discard, Send, SendFailed, Settle, Crash, Visit, UpdateMirrorSync,
             CleanupMirrorSync, DeleteCalendar, RepointCalendar, DeleteFeed, ToggleFeed,
             EditCopy, MoveCopy, RemoveCopy, ImportCopy, Touch, Expire, vars, runState
    <3> QED
      BY <3>2 DEF Settle, Finish, OneWriter
  <2>2. CASE ListCopies
    BY <2>2 DEF ListCopies, OneWriter
  <2>3. CASE ~ForgetRun /\ ~ListCopies
    BY <2>3, NoFaults
       DEF Next, SyncStep, FetchStep, DrainStep, ReconcileStep, AdminStep, UserStep,
           StartSync, FetchOk, FetchFailed, StartMirror, Plan, DropStale, DropUnusable,
           PurgeList, PurgeDelete, PurgeEnd, DrainEnd, ListFailed, Refresh, Discard,
           SendFailed, Settle, Finish, Crash, UpdateMirrorSync, CleanupMirrorSync,
           DeleteCalendar, RepointCalendar, DeleteFeed, ToggleFeed, EditCopy, MoveCopy,
           RemoveCopy, ImportCopy, Touch, Expire, vars, runState, workState
  <2> QED
    BY <2>1, <2>2, <2>3
<1>3. \A u, copy : Going(work, u, copy) => Going(work', u, copy)
  BY <1>2 DEF Going
<1> QED
  BY <1>1, <1>3 DEF Says, OthersGo

\* What the reconciler decides about the copies it has listed.
LEMMA ListedSay ==
    ASSUME TypeOK, SnapFresh, WorkKeyed, OwnTextUnmoved, RowsOfTarget, OneWriter, RowsSay,
           ListCopies, pc' = "work"
    PROVE  RowsSay' /\ WorkSays'
<1> DEFINE store == cal[snap.col]
           listed == Listed(store)
<1>1. PICK own \in Indexes(listed) : work' = Requests(own, listed, store)
  BY DEF ListCopies
<1>2. /\ pc = "list" /\ snap' = [snap EXCEPT !.seenEdits = edits]
      /\ sent = Null /\ sent' = Null /\ work = {}
      /\ UNCHANGED <<cal, past, mapping>>
  BY DEF ListCopies, world, WorkKeyed, OneWriter
<1>3. snap'.col = snap.col /\ snap'.wanted = snap.wanted /\ snap.col \in Cols
      /\ snap.src # Null
  BY <1>2 DEF TypeOK, RunOK, Snapshot
<1>4. \A s, k, v : Says(s, work, k, v) => Says(s, work', k, v)
  BY <1>2 DEF Says, Going
<1>5. RowsSay'
  <2>1. \A k \in Keys : mapping[k] # Null => Says(cal[mapping[k].col], work, k, mapping[k].val)
    BY <1>2 DEF RowsSay, PutDone
  <2> QED
    BY <1>2, <1>4, <2>1 DEF RowsSay
<1>6. ASSUME NEW k \in Keys, NEW r \in KeyRequests(k, own, store)
      PROVE  /\ r.key = k
             /\ r.op = "refresh" => snap.rows[k] # Null /\ r.val = snap.rows[k].val
             /\ r.op \in Puts => /\ snap.wanted[k] # Null
                                 /\ IF own[k] = Null THEN r.op = "create"
                                                     ELSE r.url = own[k]
  BY <1>6 DEF KeyRequests, Removal, Req, Differs, Puts
<1>7. \A r \in ExtraRequests(own, listed, store) : r.op = "extra"
  BY DEF ExtraRequests, Req
<1>8. ASSUME NEW r \in work', r.op \in Writers
      PROVE  r.key \in Keys /\ r \in KeyRequests(r.key, own, store)
  BY <1>1, <1>6, <1>7, <1>8 DEF Requests, Writers, Puts
<1>9. ASSUME NEW r \in work', r.op = "refresh"
      PROVE  Says(cal'[snap'.col], work', r.key, r.val)
  <2>1. /\ r.key \in Keys /\ snap.rows[r.key] # Null /\ r.val = snap.rows[r.key].val
    BY <1>6, <1>8, <1>9 DEF Writers
  <2>2. Says(store, work, r.key, r.val)
    BY <1>2, <2>1 DEF RowsSay
  <2> QED
    BY <1>2, <1>3, <1>4, <2>2
<1>10. ASSUME NEW r \in work', r.op \in Puts
       PROVE  OthersGo(cal'[snap'.col], work', r.key, r.url)
  <2>1. /\ r.key \in Keys /\ snap.wanted[r.key] # Null
        /\ IF own[r.key] = Null THEN r.op = "create" ELSE r.url = own[r.key]
    BY <1>6, <1>8, <1>10 DEF Writers
  <2>2. r.key \notin past
    BY <1>2, <2>1 DEF SnapFresh
  <2>3. ASSUME NEW u \in Url \ {r.url}, u.key = r.key, OwnText(store[u])
        PROVE  Going(work', u, store[u])
    <3>1. u \in listed
      BY <1>3, <2>2, <2>3 DEF Listed, Held, OwnText, OwnTextUnmoved
    <3>2. own[r.key] # Null /\ u # own[u.key]
      BY <2>1, <2>3, <3>1 DEF Indexes
    <3>3. Req("extra", u.key, u, store[u], store[u].val) \in work'
      BY <1>1, <3>1, <3>2 DEF Requests, ExtraRequests
    <3> QED
      BY <3>3 DEF Going, Req
  <2> QED
    BY <1>2, <1>3, <2>3 DEF OthersGo
<1> QED
  BY <1>2, <1>5, <1>9, <1>10 DEF WorkSays, PutDone

\* A request carried out.
LEMMA SentSay ==
    ASSUME TypeOK, WorkKeyed, RowsOfTarget, OneWriter, RowsSay, WorkSays,
           NEW r \in work, Send(r)
    PROVE  RowsSay' /\ WorkSays'
<1> DEFINE store == cal[snap.col]
           new == cal'[snap.col]
<1>1. /\ pc = "work" /\ sent = Null /\ work' = work \ {r} /\ sent' # Null /\ sent'.req = r
      /\ r.url.key = r.key /\ r.op # "refresh"
      /\ UNCHANGED <<pc, snap, mapping>>
  BY SentIsSent DEF Send, Due, WorkKeyed
<1>2. snap.col \in Cols /\ snap.src # Null /\ r.key \in Keys /\ r.url \in Url
      /\ cal \in [Cols -> [Url -> Copy \cup {NoCopy}]]
  BY <1>1 DEF TypeOK, RunOK, Snapshot, WorkOK, Request, WorldOK, Collection
<1>3. new = store \/ (Accepts(store, r) /\ new = [store EXCEPT ![r.url] = AfterWrite(r)])
  BY <1>2 DEF Send
<1>4. store \in [Url -> Copy \cup {NoCopy}]
  BY <1>2
\* A duplicate stays one about to be deleted, unless it is deleted now.
<1>5. ASSUME NEW u \in Url, OwnText(new[u]), new[u] = store[u], Going(work, u, store[u])
      PROVE  Going(work', u, new[u])
  <2>1. PICK q \in work : q.op = "extra" /\ q.url = u /\ q.etag = store[u]
    BY <1>5 DEF Going
  <2>2. CASE q # r
    BY <1>1, <1>5, <2>1, <2>2 DEF Going
  <2>3. CASE q = r
    <3>1. Accepts(store, r)
      BY <1>5, <2>1, <2>3 DEF Accepts, IfMatch, OwnText
    <3>2. new[u] = NoCopy
      BY <1>2, <1>4, <2>1, <2>3, <3>1 DEF Send, AfterWrite
    <3> QED
      BY <1>5, <3>2 DEF OwnText
  <2> QED
    BY <2>2, <2>3
\* Nothing new is said of a key, unless it is the one a PUT is about.
<1>6. ASSUME NEW k \in Keys, NEW v, Says(store, work, k, v),
             k # r.key \/ r.op \notin Puts \/ new = store
      PROVE  Says(new, work', k, v)
  <2>1. \A u \in Url : u.key = k /\ OwnText(new[u]) => new[u] = store[u]
    BY <1>1, <1>3, <1>4, <1>6 DEF OwnText, AfterWrite, Puts
  <2> QED
    BY <1>5, <1>6, <2>1 DEF Says
<1>7. ASSUME NEW k \in Keys, NEW w, OthersGo(store, work, k, w), k # r.key \/ r.op \notin Puts
      PROVE  OthersGo(new, work', k, w)
  <2>1. \A u \in Url : u.key = k /\ OwnText(new[u]) => new[u] = store[u]
    BY <1>1, <1>3, <1>4, <1>7 DEF OwnText, AfterWrite, Puts
  <2> QED
    BY <1>5, <1>7, <2>1 DEF OthersGo
<1>8. ASSUME NEW k \in Keys, PutDone(k)'
      PROVE  Says(new, work', k, r.val)
  <2>1. k = r.key /\ r.op \in Puts /\ sent'.reply = "done"
    BY <1>1, <1>8 DEF PutDone
  <2>2. new = [store EXCEPT ![r.url] = Written(r.val)]
    BY <1>2, <2>1 DEF Send, AlreadyGone, AfterWrite, Puts
  <2>3. OthersGo(store, work, k, r.url)
    BY <2>1 DEF WorkSays
  <2>4. Written(r.val).val = r.val
    BY DEF Written
  <2>5. ASSUME NEW u \in Url, u.key = k, OwnText(new[u]), u # r.url
        PROVE  Going(work', u, new[u])
    <3>1. new[u] = store[u]
      BY <1>4, <2>2, <2>5
    <3> QED
      BY <1>5, <2>3, <2>5, <3>1 DEF OthersGo
  <2> QED
    BY <1>2, <1>4, <2>2, <2>4, <2>5 DEF Says
<1>9. ASSUME NEW k \in Keys, mapping[k] # Null, ~PutDone(k)'
      PROVE  Says(new, work', k, mapping[k].val) /\ mapping[k].col = snap.col
  <2>1. mapping[k].col = snap.col
    BY <1>2, <1>9 DEF RowsOfTarget
  <2>2. Says(store, work, k, mapping[k].val)
    BY <1>1, <1>9, <2>1 DEF RowsSay, PutDone
  <2>3. k # r.key \/ r.op \notin Puts \/ new = store
    <3> SUFFICES ASSUME k = r.key, r.op \in Puts PROVE new = store
      OBVIOUS
    <3>1. sent'.reply # "done"
      BY <1>1, <1>9 DEF PutDone
    <3>2. ~Accepts(store, r)
      BY <3>1 DEF Send
    <3> QED
      BY <3>2 DEF Send
  <2> QED
    BY <1>6, <2>1, <2>2, <2>3
<1>10. ASSUME NEW q \in work', q.op \in Writers
       PROVE  q \in work /\ q.key \in Keys /\ (q.key # r.key \/ r.op \notin Puts)
  BY <1>1, <1>10 DEF OneWriter, Writers, TypeOK, WorkOK, Request
<1>11. \A q \in work' : q.op = "refresh" => Says(new, work', q.key, q.val)
  BY <1>6, <1>10 DEF WorkSays, Writers
<1>12. \A q \in work' : q.op \in Puts => OthersGo(new, work', q.key, q.url)
  BY <1>7, <1>10 DEF WorkSays, Writers
<1>13. RowsSay'
  BY <1>1, <1>9 DEF RowsSay
<1>14. WorkSays'
  BY <1>1, <1>8, <1>11, <1>12 DEF WorkSays
<1> QED
  BY <1>13, <1>14

LEMMA StaySaid ==
    ASSUME MaxFaults = 0, ~LongOutage, TypeOK, SnapFresh, WorkKeyed, OwnTextUnmoved,
           RowsOfTarget, RowsOfTarget', OneWriter, RowsSay, WorkSays, [Next]_vars
    PROVE  RowsSay' /\ WorkSays'
<1>1. CASE \E r \in work : Send(r)
  BY <1>1, SentSay
<1>2. CASE ListCopies /\ pc' = "work"
  BY <1>2, ListedSay
<1>3. CASE ~(\E r \in work : Send(r)) /\ ~(ListCopies /\ pc' = "work")
  <2>0. /\ mapping \in [Keys -> Row \cup {Null}] /\ \A row \in Row : row.col \in Cols
        /\ pc = "work" => snap.col \in Cols
        /\ pc = "list" => snap.col \in Cols
    BY DEF TypeOK, StoredOK, RunOK, Snapshot, Row
  <2>1. \A c \in Cols, k \in Keys :
           /\ \A v : Says(cal[c], work, k, v) => Says(cal'[c], work', k, v)
           /\ \A w : OthersGo(cal[c], work, k, w) => OthersGo(cal'[c], work', k, w)
    BY <1>3, QuietSteps
  <2>2. /\ pc' = "work" => pc = "work" /\ snap' = snap
        /\ work' \subseteq work
        /\ sent' \in {sent, Null}
    BY <1>3, NoFaults
       DEF Next, SyncStep, FetchStep, DrainStep, ReconcileStep, AdminStep, UserStep,
           StartSync, FetchOk, FetchFailed, StartMirror, Plan, DropStale, DropUnusable,
           PurgeList, PurgeDelete, PurgeEnd, DrainEnd, ListCopies, ListFailed, Refresh,
           Discard, SendFailed, Settle, Finish, Crash, Visit, Due, UpdateMirrorSync,
           CleanupMirrorSync, DeleteCalendar, RepointCalendar, DeleteFeed, ToggleFeed,
           EditCopy, MoveCopy, RemoveCopy, ImportCopy, Touch, Expire, vars, runState,
           workState, ForgetRun
  \* A response goes out of sight only with its row stored.
  <2>3. ASSUME NEW k \in Keys, PutDone(k), ~PutDone(k)'
        PROVE  mapping'[k] = Null \/ (mapping'[k].val = sent.req.val /\ mapping'[k].col = snap.col)
    <3>1. pc = "work" /\ sent # Null /\ sent' = Null
      BY <2>2, <2>3 DEF PutDone, WorkKeyed
    <3>2. Settle
      BY <1>3, <3>1, NoFaults
         DEF Next, SyncStep, FetchStep, DrainStep, ReconcileStep, AdminStep, UserStep,
             StartSync, FetchOk, FetchFailed, StartMirror, DropStale, DropUnusable,
             PurgeList, PurgeDelete, PurgeEnd, DrainEnd, ListCopies, ListFailed, Refresh,
             Discard, SendFailed, Finish, Crash, Visit, Due, UpdateMirrorSync,
             CleanupMirrorSync, DeleteCalendar, RepointCalendar, DeleteFeed, ToggleFeed,
             EditCopy, MoveCopy, RemoveCopy, ImportCopy, Touch, Expire, vars, runState,
             workState
    <3>3. StoreRow(sent.req, sent.etag)
      BY <2>3, <3>2 DEF Settle, PutDone, Puts
    <3> QED
      BY <2>0, <2>3, <3>3 DEF StoreRow, PutDone
  <2>4. ASSUME NEW k \in Keys, mapping'[k] # Null, ~PutDone(k)'
        PROVE  Says(cal'[mapping'[k].col], work', k, mapping'[k].val)
    <3>1. CASE PutDone(k)
      <4>1. mapping'[k].val = sent.req.val /\ mapping'[k].col = snap.col
        BY <2>3, <2>4, <3>1
      <4>2. Says(cal[snap.col], work, k, sent.req.val) /\ snap.col \in Cols
        BY <2>0, <3>1 DEF WorkSays, PutDone, WorkKeyed
      <4> QED
        BY <2>1, <4>1, <4>2
    <3>2. CASE ~PutDone(k) /\ mapping'[k] = mapping[k]
      <4>1. Says(cal[mapping[k].col], work, k, mapping[k].val) /\ mapping[k].col \in Cols
        BY <2>0, <2>4, <3>2 DEF RowsSay
      <4> QED
        BY <2>1, <3>2, <4>1
    <3>3. CASE ~PutDone(k) /\ mapping'[k] # mapping[k]
      <4>1. pc = "work" /\ mapping'[k].col = snap.col
        BY <2>4, <3>3, RowsChange
      <4>2. PICK r \in work : r.op = "refresh" /\ r.key = k /\ mapping'[k].val = r.val
        BY <2>4, <3>3, RowsChange
      <4>3. Says(cal[snap.col], work, k, mapping'[k].val)
        BY <4>2 DEF WorkSays
      <4> QED
        BY <2>0, <2>1, <4>1, <4>3
    <3> QED
      BY <3>1, <3>2, <3>3
  <2>5. ASSUME NEW k \in Keys, pc' = "list", snap'.rows[k] # Null
        PROVE  Says(cal'[snap'.col], work', k, snap'.rows[k].val)
    <3>1. CASE pc = "list"
      <4>1. snap' = snap
        BY <2>5, <3>1
           DEF Next, SyncStep, FetchStep, DrainStep, ReconcileStep, AdminStep, UserStep,
               StartSync, FetchOk, FetchFailed, StartMirror, DropStale, DropUnusable,
               PurgeList, PurgeDelete, PurgeEnd, DrainEnd, ListCopies, ListFailed,
               Refresh, Discard, Send, SendFailed, Settle, Finish, Crash, Visit, Due,
               UpdateMirrorSync, CleanupMirrorSync, DeleteCalendar, RepointCalendar,
               DeleteFeed, ToggleFeed, EditCopy, MoveCopy, RemoveCopy, ImportCopy, Touch,
               Expire, vars, runState
      <4>2. Says(cal[snap.col], work, k, snap.rows[k].val)
        BY <2>5, <3>1, <4>1 DEF RowsSay
      <4> QED
        BY <2>0, <2>1, <3>1, <4>1, <4>2
    <3>2. CASE pc # "list"
      <4>1. /\ StartMirror \/ DrainEnd
            /\ pc \in {"fetch", "drain"}
        BY <2>5, <3>2
           DEF Next, SyncStep, FetchStep, DrainStep, ReconcileStep, AdminStep, UserStep,
               StartSync, FetchOk, FetchFailed, StartMirror, DropStale, DropUnusable,
               PurgeList, PurgeDelete, PurgeEnd, DrainEnd, ListCopies, ListFailed,
               Refresh, Discard, Send, SendFailed, Settle, Finish, Crash, Visit, Due,
               UpdateMirrorSync, CleanupMirrorSync, DeleteCalendar, RepointCalendar,
               DeleteFeed, ToggleFeed, EditCopy, MoveCopy, RemoveCopy, ImportCopy, Touch,
               Expire, vars, runState
      <4>2. snap'.rows = mapping /\ snap'.src # Null
        <5>1. snap \in Snapshot
          BY DEF TypeOK, RunOK
        <5> QED
          BY <2>5, <4>1, <5>1 DEF StartMirror, DrainEnd, Plan, NoSnap, Snapshot
      <4>3. mapping[k] # Null /\ snap'.col = mapping[k].col
        BY <2>5, <4>2 DEF RowsOfTarget
      <4>4. Says(cal[mapping[k].col], work, k, mapping[k].val)
        BY <4>1, <4>3 DEF RowsSay, PutDone, WorkKeyed
      <4> QED
        BY <2>0, <2>1, <4>2, <4>3, <4>4
    <3> QED
      BY <3>1, <3>2
  <2>6. ASSUME NEW k \in Keys, PutDone(k)' PROVE Says(cal'[snap'.col], work', k, sent'.req.val)
    <3>1. sent' = sent /\ sent # Null /\ PutDone(k) /\ pc = "work"
      BY <2>2, <2>6 DEF PutDone, WorkKeyed
    <3>2. snap' = snap
      BY <1>3, <2>2, <3>1, NoFaults
         DEF Next, SyncStep, FetchStep, DrainStep, ReconcileStep, AdminStep, UserStep,
             StartSync, FetchOk, FetchFailed, StartMirror, DropStale, DropUnusable,
             PurgeList, PurgeDelete, PurgeEnd, DrainEnd, ListCopies, ListFailed, Refresh,
             Discard, SendFailed, Settle, Finish, Crash, Visit, Due, UpdateMirrorSync,
             CleanupMirrorSync, DeleteCalendar, RepointCalendar, DeleteFeed, ToggleFeed,
             EditCopy, MoveCopy, RemoveCopy, ImportCopy, Touch, Expire, vars, runState,
             ForgetRun, workState
    <3> QED
      BY <2>0, <2>1, <3>1, <3>2 DEF WorkSays
  <2>7. ASSUME NEW r \in work'
        PROVE  /\ r.op = "refresh" => Says(cal'[snap'.col], work', r.key, r.val)
               /\ r.op \in Puts => OthersGo(cal'[snap'.col], work', r.key, r.url)
    <3>1. pc = "work" /\ r \in work /\ r.key \in Keys
      BY <2>2, <2>7 DEF OneWriter, TypeOK, WorkOK, Request
    <3>2. snap' = snap
      BY <1>3, <2>7, <3>1, NoFaults
         DEF Next, SyncStep, FetchStep, DrainStep, ReconcileStep, AdminStep, UserStep,
             StartSync, FetchOk, FetchFailed, StartMirror, DropStale, DropUnusable,
             PurgeList, PurgeDelete, PurgeEnd, DrainEnd, ListCopies, ListFailed, Refresh,
             Discard, SendFailed, Settle, Finish, Crash, Visit, Due, UpdateMirrorSync,
             CleanupMirrorSync, DeleteCalendar, RepointCalendar, DeleteFeed, ToggleFeed,
             EditCopy, MoveCopy, RemoveCopy, ImportCopy, Touch, Expire, vars, runState,
             ForgetRun
    <3> QED
      BY <2>0, <2>1, <3>1, <3>2 DEF WorkSays
  <2> QED
    BY <2>4, <2>5, <2>6, <2>7 DEF RowsSay, WorkSays
<1> QED
  BY <1>1, <1>2, <1>3

\* At the end of a clean run, an own copy that the user did not edit says what
\* its appointment says: the reconciler is right to compare an appointment with
\* the row of its copy and never with the copy.  That no response is lost and no
\* run dies is needed, and so is that the admin does not choose another
\* calendar while a run writes.
THEOREM CopiesSayWhatTheyShould ==
    ASSUME MaxFaults = 0, ~LongOutage, ~CanRepoint,
           AdminMidRun => \A s, t \in Calendars : s = t
    PROVE  Spec => []CopyMatchesSource
<1>1. Init => Faithful /\ Tracked
  <2>1. Init => Tracked
    BY DEF Init, Tracked, RowsKeyed, WorkKeyed, SnapFresh, Undisturbed, NoRows, NoSnap
  <2>2. Init => Faithful
    BY DEF Init, Faithful, OwnTextUnmoved, OwnText, EmptyCollection, SameTarget, NoSnap,
           RowsOfTarget, NoRows, OneWriter, RowsSay, WorkSays, PutDone
  <2> QED
    BY <2>1, <2>2
<1>2. TypeOK /\ Tracked /\ Faithful /\ [Next]_vars => Faithful'
  <2> SUFFICES ASSUME TypeOK, Tracked, Faithful, [Next]_vars PROVE Faithful'
    OBVIOUS
  <2>1. OwnTextUnmoved' /\ SameTarget'
    BY StayUnmoved, StaySameTarget DEF Faithful
  <2>2. RowsOfTarget'
    BY StayRowsOfTarget DEF Faithful
  <2>3. OneWriter'
    BY StayOneWriter DEF Faithful, Tracked
  <2>4. RowsSay' /\ WorkSays'
    BY <2>2, StaySaid DEF Faithful, Tracked
  <2> QED
    BY <2>1, <2>2, <2>3, <2>4 DEF Faithful
<1>3. TypeOK /\ Faithful /\ CleanRunReconciles => CopyMatchesSource
  <2> SUFFICES ASSUME TypeOK, Faithful, CleanRunReconciles, CleanEnd,
                      NEW u \in Listed(cal[snap.col]), cal[snap.col][u].by = 0
               PROVE  cal[snap.col][u].val = snap.wanted[u.key]
    BY DEF CopyMatchesSource
  <2>1. u \in Url /\ u.key \in Keys /\ OwnText(cal[snap.col][u])
    BY DEF Listed, Held, Url, OwnText
  <2>2. Reconciled(u.key)
    BY <2>1 DEF CleanRunReconciles
  <2>3. /\ mapping[u.key] # Null /\ mapping[u.key].col = snap.col
        /\ mapping[u.key].val = snap.wanted[u.key]
    BY <2>2 DEF Reconciled
  <2>4. Says(cal[snap.col], {}, u.key, snap.wanted[u.key])
    BY <2>1, <2>3 DEF Faithful, RowsSay, PutDone, CleanEnd
  <2> QED
    BY <2>1, <2>4 DEF Says, Going
<1>4. Spec => []Tracked
  BY <1>1, TrackedStep, TypeCorrect, PTL DEF Spec
<1> QED
  BY <1>1, <1>2, <1>3, <1>4, RunsReconcile, TypeCorrect, PTL DEF Spec
=============================================================================
