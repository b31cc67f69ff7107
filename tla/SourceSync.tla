----------------------------- MODULE SourceSync -----------------------------
(***************************************************************************)
(* The calendar sources and the run that reads them (app/sync.py): one     *)
(* after the other every enabled source is fetched, and what the server    *)
(* answered replaces its part of the events table                          *)
(* (Storage.sync_events).  What each source's fetch came to is handed to   *)
(* the outgoing syncs, which have modules of their own.  The periodic task *)
(* and the manual trigger take turns through SYNC_LOCK, an asyncio.Lock.   *)
(*                                                                         *)
(* An event's key is its uid and start, so a key lies, from one day to the *)
(* next, ahead of the sync window, in it, before it but not yet over       *)
(* ("running"), or in the past.  A fetch is answered in one piece.  The    *)
(* sync status shown to the admin and the change log are left out.         *)
(***************************************************************************)
EXTENDS Naturals, Sequences

CONSTANTS
    MaxSources,      \* bound on the sources ever created
    Cals,            \* the calendars a source can name
    Keys, Vals,      \* events, and what they say
    Unreadable,      \* what no parser makes sense of
    Requests,        \* manual triggers
    Flaky,           \* sources whose fetch may always fail
    MaxFaults,       \* bound on the failures of the others, and on crashes
    Null

ASSUME SourceAssumption ==
    /\ MaxSources \in Nat /\ MaxFaults \in Nat
    /\ Null \notin Vals /\ Null \notin [on : BOOLEAN, cal : Cals]
    /\ Unreadable \subseteq Vals /\ "periodic" \notin Requests

Ids == 1..MaxSources   \* AUTOINCREMENT: an id is never given twice
Tasks == Requests \cup {"periodic"}

VARIABLES
    source,    \* table sources: enabled and calendar, Null where there is none
    created,   \* the last id given
    event,     \* table events
    remote,    \* the calendars upstream
    place,     \* where an event's start lies today
    task,      \* who wants the lock, and who has it
    waiters,   \* the lock's queue
    pc,        \* the run: "idle", "fetch", or "stages" (the outgoing syncs)
    snap,      \* list_sources, as the run read it
    todo,      \* sources still to be fetched
    win,       \* place, at the run's moment
    answer,    \* the response under way, Null before the server has answered
    results,   \* what the outgoing syncs are told of each source
    calm,      \* the source and its calendar did not change since the run began
    faults

tables == <<source, created, event>>
lock == <<task, waiters>>
run == <<pc, snap, todo, win, answer, results>>
vars == <<tables, remote, place, lock, run, calm, faults>>

Source == [on : BOOLEAN, cal : Cals]
Events == [Keys -> Vals \cup {Null}]
Places == {"ahead", "in", "running", "past"}
NoEvents == [k \in Keys |-> Null]

Running(t) == task[t] = "running"
Locked == \E t \in Tasks : Running(t)

TypeOK ==
    /\ source \in [Ids -> Source \cup {Null}] /\ created \in 0..MaxSources
    /\ \A i \in Ids : i > created => source[i] = Null
    /\ event \in [Ids -> Events] /\ remote \in [Cals -> Events]
    /\ place \in [Keys -> Places] /\ win \in [Keys -> Places]
    /\ task \in [Tasks -> {"idle", "waiting", "running"}]
    /\ waiters \in Seq(Tasks)
    /\ \A t \in Tasks : task[t] = "waiting" <=> \E n \in DOMAIN waiters : waiters[n] = t
    /\ \A m, n \in DOMAIN waiters : waiters[m] = waiters[n] => m = n
    /\ \A t, u \in Tasks : Running(t) /\ Running(u) => t = u
    /\ pc \in {"idle", "fetch", "stages"} /\ (pc = "idle" <=> ~Locked)
    /\ snap \in [Ids -> Source \cup {Null}]
    /\ todo \subseteq {i \in Ids : snap[i] # Null} /\ (pc = "fetch" <=> todo # {})
    /\ answer \in Events \cup {Null} /\ (pc # "fetch" => answer = Null)
    /\ results \in [Ids -> {"ok", "error", "absent"}]
    /\ calm \in [Ids -> BOOLEAN] /\ faults \in 0..MaxFaults

ForgetRun ==
    /\ pc' = "idle" /\ snap' = [i \in Ids |-> Null] /\ todo' = {}
    /\ win' = [k \in Keys |-> "past"] /\ answer' = Null
    /\ results' = [i \in Ids |-> "absent"] /\ calm' = [i \in Ids |-> TRUE]

Init ==
    /\ source = [i \in Ids |-> Null] /\ created = 0 /\ event = [i \in Ids |-> NoEvents]
    /\ remote \in [Cals -> Events] /\ place = [k \in Keys |-> "ahead"]
    /\ task = [t \in Tasks |-> "idle"] /\ waiters = <<>> /\ faults = 0
    /\ pc = "idle" /\ snap = [i \in Ids |-> Null] /\ todo = {}
    /\ win = [k \in Keys |-> "past"] /\ answer = Null
    /\ results = [i \in Ids |-> "absent"] /\ calm = [i \in Ids |-> TRUE]

-----------------------------------------------------------------------------
(***************************************************************************)
(* SYNC_LOCK.  A released lock is free until the first waiter has its      *)
(* turn, but nobody overtakes the waiters.                                 *)
(***************************************************************************)
\* The start of _sync_all_locked.  A run without enabled sources has nothing
\* to wait for before its outgoing syncs.
Begin ==
    /\ snap' = source /\ win' = place /\ answer' = Null
    /\ todo' = {i \in Ids : source[i] # Null /\ source[i].on}
    /\ pc' = IF todo' = {} THEN "stages" ELSE "fetch"
    /\ results' = [i \in Ids |-> "absent"] /\ calm' = [i \in Ids |-> TRUE]

Free == ~Locked /\ waiters = <<>>
Acquire(t) ==
    /\ task[t] = "idle"
    /\ IF Free
       THEN task' = [task EXCEPT ![t] = "running"] /\ Begin /\ UNCHANGED waiters
       ELSE /\ task' = [task EXCEPT ![t] = "waiting"]
            /\ waiters' = Append(waiters, t) /\ UNCHANGED <<run, calm>>
    /\ UNCHANGED <<tables, remote, place, faults>>

Turn ==
    /\ ~Locked /\ waiters # <<>>
    /\ task' = [task EXCEPT ![Head(waiters)] = "running"] /\ waiters' = Tail(waiters)
    /\ Begin
    /\ UNCHANGED <<tables, remote, place, faults>>

Released == [t \in Tasks |-> IF Running(t) THEN "idle" ELSE task[t]]

\* periodic_sync, and POST /api/sync, which answers 409 if the lock is taken.
PeriodicSync == Acquire("periodic")
TriggerSync(r) == ~Locked /\ Acquire(r)

-----------------------------------------------------------------------------
(***************************************************************************)
(* The fetch of one source, by the row the run has read.                   *)
(***************************************************************************)
\* In the order of their ids.
Current(i) == pc = "fetch" /\ i \in todo /\ \A j \in todo : i <= j

Covered(k) == win[k] \in {"in", "running"}   \* overlaps the window
MutPruned(k) == FALSE
Pruned(k) == win[k] = "in"                   \* starts in the window

\* A broken object is skipped, and the rest is kept.
Read(v) == IF v \in Unreadable THEN Null ELSE v

ServerAnswers(i) ==
    /\ Current(i) /\ answer = Null
    /\ answer' = [k \in Keys |-> IF Covered(k) THEN Read(remote[snap[i].cal][k]) ELSE Null]
    /\ UNCHANGED <<tables, remote, place, lock, pc, snap, todo, win, results, calm, faults>>

\* The source is done, one way or the other.
MutFetchedAll(i, outcome) ==
    /\ results' = [results EXCEPT ![i] = outcome]
    /\ todo' = (IF outcome = "ok" THEN todo \ {i} ELSE {}) /\ answer' = Null
    /\ pc' = IF todo' = {} THEN "stages" ELSE "fetch"
    /\ UNCHANGED <<snap, win>>
Fetched(i, outcome) ==
    /\ results' = [results EXCEPT ![i] = outcome]
    /\ todo' = todo \ {i} /\ answer' = Null
    /\ pc' = IF todo' = {} THEN "stages" ELSE "fetch"
    /\ UNCHANGED <<snap, win>>

\* sync_events of an answer: what it holds is stored, and what starts in the
\* window and is not in it goes.
SyncEvents(i) ==
    event' = [event EXCEPT ![i] = [k \in Keys |->
                 IF answer[k] # Null THEN answer[k]
                 ELSE IF Pruned(k) THEN Null ELSE event[i][k]]]

\* The foreign key: a source that was deleted meanwhile gets no events.
MutRefused(i) == FALSE
Refused(i) == source[i] = Null /\ answer # NoEvents

Deliver(i) ==
    /\ Current(i) /\ answer # Null
    /\ IF Refused(i) THEN Fetched(i, "error") /\ UNCHANGED event
                     ELSE Fetched(i, "ok") /\ SyncEvents(i)
    /\ UNCHANGED <<source, created, remote, place, lock, calm, faults>>

\* Connection, credentials, a limit, a response that cannot be read.
FetchFails(i) ==
    /\ Current(i) /\ Fetched(i, "error")
    /\ IF i \in Flaky THEN UNCHANGED faults
                      ELSE faults < MaxFaults /\ faults' = faults + 1
    /\ UNCHANGED <<tables, remote, place, lock, calm>>

\* The outgoing syncs have run, and isolate their errors.
EndRun ==
    /\ pc = "stages" /\ ForgetRun /\ task' = Released
    /\ UNCHANGED <<tables, remote, place, waiters, faults>>

\* The process dies and is started again, also between the transaction of
\* sync_events and what follows it.
Crash ==
    /\ faults < MaxFaults /\ faults' = faults + 1
    /\ ForgetRun /\ task' = [t \in Tasks |-> "idle"] /\ waiters' = <<>>
    /\ \/ UNCHANGED event
       \/ \E i \in todo : Current(i) /\ answer # Null /\ ~Refused(i) /\ SyncEvents(i)
    /\ UNCHANGED <<source, created, remote, place>>

-----------------------------------------------------------------------------
(***************************************************************************)
(* The admin (app/admin.py), the calendars' owners, and the passing days.  *)
(***************************************************************************)
AdminChanges(i, row) ==
    /\ source' = [source EXCEPT ![i] = row] /\ calm' = [calm EXCEPT ![i] = FALSE]
    /\ UNCHANGED <<remote, place, lock, run, faults>>

CreateSource(c) ==
    /\ created < MaxSources /\ created' = created + 1
    /\ AdminChanges(created', [on |-> TRUE, cal |-> c]) /\ UNCHANGED event
UpdateSource(i, row) ==
    /\ source[i] # Null /\ row # source[i]
    /\ AdminChanges(i, row) /\ UNCHANGED <<created, event>>
\* With its events: ON DELETE CASCADE.
DeleteSource(i) ==
    /\ source[i] # Null /\ AdminChanges(i, Null)
    /\ event' = [event EXCEPT ![i] = NoEvents] /\ UNCHANGED created

OwnerEdits(c, k, v) ==
    /\ remote[c][k] # v /\ remote' = [remote EXCEPT ![c][k] = v]
    /\ calm' = [i \in Ids |-> calm[i] /\ (snap[i] # Null => snap[i].cal # c)]
    /\ UNCHANGED <<tables, place, lock, run, faults>>

Passes(k, p) ==
    /\ <<place[k], p>> \in {<<"ahead", "in">>, <<"in", "running">>, <<"in", "past">>,
                            <<"running", "past">>}
    /\ place' = [place EXCEPT ![k] = p]
    /\ UNCHANGED <<tables, remote, lock, run, calm, faults>>

-----------------------------------------------------------------------------
FetchStep == \E i \in Ids : ServerAnswers(i) \/ Deliver(i) \/ FetchFails(i)
SyncStep == PeriodicSync \/ Turn \/ FetchStep \/ EndRun
AdminStep ==
    \/ \E c \in Cals : CreateSource(c)
    \/ \E i \in Ids : DeleteSource(i) \/ \E row \in Source : UpdateSource(i, row)
World ==
    \/ \E r \in Requests : TriggerSync(r)
    \/ \E c \in Cals, k \in Keys, v \in Vals \cup {Null} : OwnerEdits(c, k, v)
    \/ \E k \in Keys, p \in Places : Passes(k, p)
Next == SyncStep \/ Crash \/ AdminStep \/ World

Spec == Init /\ [][Next]_vars

\* The periodic task never gives up ("except Exception" in its loop), every
\* request ends, if by its timeout, and a released lock finds its next holder.
FairSpec == Spec /\ WF_vars(SyncStep)
-----------------------------------------------------------------------------
(***************************************************************************)
(* Properties.                                                             *)
(***************************************************************************)
\* No events without their source, also when it is deleted while its fetch is
\* under way: delete_source removes "a source, its stored events (FK cascade)".
NoOrphanEvents == \A i \in Ids : source[i] = Null => event[i] = NoEvents

\* What the outgoing syncs are told is true: of a source reported as read
\* without error in this run, and that nobody changed in it, the table holds
\* what its calendar holds and can be read; only an event that began before the window may
\* still be there without being there.
RunsMatchUpstream ==
    pc = "stages" =>
        \A i \in Ids : results[i] = "ok" /\ calm[i] =>
            \A k \in Keys :
                /\ win[k] = "in" => event[i][k] = Read(remote[snap[i].cal][k])
                /\ win[k] = "running" => Read(remote[snap[i].cal][k]) \in {event[i][k], Null}

\* An enabled source whose calendar stays as it is has its events in the
\* table, in the end, whatever fails meanwhile and however often the fetch of
\* another source does: "a broken source must never block the others".
EventsSettle ==
    \A i \in Ids \ Flaky, c \in Cals, k \in Keys, v \in Vals \cup {Null} :
        <>[](source[i] = [on |-> TRUE, cal |-> c] /\ place[k] = "in" /\ remote[c][k] = v)
            => <>[](event[i][k] = Read(v))

\* "While a sync is already running the request is rejected instead of
\* queueing a redundant second run behind the lock" (app/main.py).
NoQueuedRun == \A r \in Requests : task[r] # "waiting"

\* "The fetch and the stale-row pruning can never disagree about which range
\* a source actually covers" (app/sync_window.py): what the fetch covers and
\* no longer finds is not in the table either.
PruneCoversFetch ==
    pc = "stages" =>
        \A i \in Ids, k \in Keys :
            results[i] = "ok" /\ calm[i] /\ Covered(k)
                => event[i][k] = Read(remote[snap[i].cal][k])

\* "Stored events of this source starting inside the window that are not in the
\* result set were deleted upstream and are removed here too"
\* (Storage.sync_events): a run removes nothing that is still in the calendar.
RemovedWereDeleted ==
    [][\A i \in Ids, k \in Keys :
          pc = "fetch" /\ source'[i] # Null /\ calm[i] /\ i \in todo
              /\ event[i][k] # Null /\ event'[i][k] = Null
          => remote[snap[i].cal][k] = Null]_vars
=============================================================================
