-------------------------- MODULE SourceSync_proofs --------------------------
(***************************************************************************)
(* Proofs about the calendar sync run: type correctness, which includes    *)
(* that one run at most is under way and that the lock's queue is that of  *)
(* those who wait; that no events outlive their source; that what the      *)
(* outgoing syncs are told of the sources is true; and that the guard of   *)
(* the outgoing syncs, which rests on it, lets no run delete everything    *)
(* because of a fetch that failed or found less than there is.             *)
(***************************************************************************)
EXTENDS SourceSync, TLAPS

Guard == INSTANCE SyncGuard

-----------------------------------------------------------------------------
(***************************************************************************)
(* Type correctness.                                                       *)
(***************************************************************************)
TablesOK ==
    /\ source \in [Ids -> Source \cup {Null}] /\ created \in 0..MaxSources
    /\ \A i \in Ids : i > created => source[i] = Null
    /\ event \in [Ids -> Events]
WorldOK ==
    /\ remote \in [Cals -> Events] /\ place \in [Keys -> Places]
    /\ calm \in [Ids -> BOOLEAN] /\ faults \in 0..MaxFaults
TaskOK ==
    /\ task \in [Tasks -> {"idle", "waiting", "running"}]
    /\ \A t, u \in Tasks : Running(t) /\ Running(u) => t = u
QueueOK ==
    /\ waiters \in Seq(Tasks)
    /\ \A t \in Tasks : task[t] = "waiting" <=> \E n \in DOMAIN waiters : waiters[n] = t
    /\ \A m, n \in DOMAIN waiters : waiters[m] = waiters[n] => m = n
RunOK ==
    /\ pc \in {"idle", "fetch", "stages"} /\ win \in [Keys -> Places]
    /\ snap \in [Ids -> Source \cup {Null}]
    /\ todo \subseteq {i \in Ids : snap[i] # Null} /\ (pc = "fetch" <=> todo # {})
    /\ answer \in Events \cup {Null} /\ (pc # "fetch" => answer = Null)
    /\ results \in [Ids -> {"ok", "error", "absent"}]
IdleOK == pc = "idle" <=> ~Locked
Typed == TablesOK /\ WorldOK /\ TaskOK /\ QueueOK /\ RunOK /\ IdleOK

LEMMA TypedIsTypeOK == Typed <=> TypeOK
BY DEF Typed, TypeOK, TablesOK, WorldOK, TaskOK, QueueOK, RunOK, IdleOK

LEMMA InitTyped == Init => Typed
<1> SUFFICES ASSUME Init PROVE Typed
  OBVIOUS
<1>1. TablesOK /\ WorldOK /\ RunOK
  BY SourceAssumption DEF Init, TablesOK, WorldOK, RunOK, Ids, Events, NoEvents, Places
<1>2. TaskOK /\ QueueOK /\ IdleOK
  BY DEF Init, TaskOK, QueueOK, IdleOK, Running, Locked
<1> QED
  BY <1>1, <1>2 DEF Typed

\* A run that begins, goes on with its next source, or ends.
LEMMA BeginTyped ==
    ASSUME TablesOK, WorldOK, RunOK, Begin
    PROVE  RunOK' /\ pc' # "idle" /\ calm' \in [Ids -> BOOLEAN]
BY DEF TablesOK, WorldOK, RunOK, Begin

LEMMA FetchedTyped ==
    ASSUME RunOK, NEW i \in Ids, NEW outcome \in {"ok", "error"},
           Current(i), Fetched(i, outcome)
    PROVE  RunOK' /\ pc # "idle" /\ pc' # "idle"
BY DEF RunOK, Current, Fetched

LEMMA ForgottenTyped ==
    ASSUME RunOK, ForgetRun
    PROVE  RunOK' /\ pc' = "idle" /\ calm' \in [Ids -> BOOLEAN]
BY DEF RunOK, ForgetRun, Places

LEMMA EventsTyped ==
    ASSUME TablesOK, RunOK, NEW i \in Ids, Current(i), answer # Null, SyncEvents(i)
    PROVE  event' \in [Ids -> Events]
BY DEF TablesOK, RunOK, SyncEvents, Events

\* The queue: a task joins it, its head leaves it, everybody leaves it.
LEMMA JoinTyped ==
    ASSUME TaskOK, QueueOK, NEW t \in Tasks, task[t] = "idle",
           task' = [task EXCEPT ![t] = "waiting"], waiters' = Append(waiters, t)
    PROVE  TaskOK' /\ QueueOK' /\ Locked' = Locked
<1>1. waiters' \in Seq(Tasks) /\ Len(waiters') = Len(waiters) + 1
  BY DEF QueueOK
<1>2. \A n \in 1..Len(waiters) : waiters'[n] = waiters[n]
  BY DEF QueueOK
<1>3. waiters'[Len(waiters) + 1] = t /\ Len(waiters) \in Nat
  BY DEF QueueOK
<1>4. \A n \in 1..Len(waiters) : waiters[n] # t
  BY DEF QueueOK
<1>5. \A u \in Tasks : task'[u] = IF u = t THEN "waiting" ELSE task[u]
  BY DEF TaskOK
<1>6. \A u \in Tasks : Running(u)' <=> Running(u)
  BY <1>5 DEF Running
<1>7. QueueOK'
  <2>1. ASSUME NEW u \in Tasks
        PROVE  task'[u] = "waiting" <=> \E n \in 1..Len(waiters') : waiters'[n] = u
    <3>1. CASE u = t
      BY <1>1, <1>3, <1>5, <3>1
    <3>2. CASE u # t
      <4>1. task[u] = "waiting" <=> \E n \in 1..Len(waiters) : waiters[n] = u
        BY DEF QueueOK
      <4> QED
        BY <1>1, <1>2, <1>3, <1>5, <3>2, <4>1
    <3> QED
      BY <3>1, <3>2
  <2>2. ASSUME NEW m \in 1..Len(waiters'), NEW n \in 1..Len(waiters'),
               waiters'[m] = waiters'[n]
        PROVE  m = n
    BY <1>1, <1>2, <1>3, <1>4, <2>2 DEF QueueOK
  <2>3. DOMAIN waiters' = 1..Len(waiters')
    BY <1>1
  <2> QED
    BY <1>1, <2>1, <2>2, <2>3 DEF QueueOK
<1>8. TaskOK'
  BY <1>6 DEF TaskOK
<1> QED
  BY <1>6, <1>7, <1>8 DEF Locked

LEMMA LeaveTyped ==
    ASSUME TaskOK, QueueOK, ~Locked, waiters # <<>>,
           task' = [task EXCEPT ![Head(waiters)] = "running"], waiters' = Tail(waiters)
    PROVE  TaskOK' /\ QueueOK' /\ Locked'
<1> DEFINE h == Head(waiters)
<1>1. h \in Tasks /\ h = waiters[1] /\ Len(waiters) \in Nat /\ Len(waiters) >= 1
  BY DEF QueueOK
<1>2. waiters' \in Seq(Tasks) /\ Len(waiters') = Len(waiters) - 1
  BY DEF QueueOK
<1>3. \A n \in 1..Len(waiters') : waiters'[n] = waiters[n + 1]
  BY DEF QueueOK
<1>4. \A u \in Tasks : task'[u] = IF u = h THEN "running" ELSE task[u]
  BY <1>1 DEF TaskOK
<1>5. \A u \in Tasks : Running(u)' <=> u = h
  BY <1>4 DEF Running, Locked
<1>6. QueueOK'
  <2>1. ASSUME NEW u \in Tasks
        PROVE  task'[u] = "waiting" <=> \E n \in 1..Len(waiters') : waiters'[n] = u
    <3>1. CASE u = h
      BY <1>1, <1>2, <1>3, <1>4, <3>1 DEF QueueOK
    <3>2. CASE u # h
      <4>1. task[u] = "waiting" <=> \E n \in 1..Len(waiters) : waiters[n] = u
        BY DEF QueueOK
      <4>2. (\E n \in 1..Len(waiters) : waiters[n] = u)
               <=> \E n \in 1..Len(waiters') : waiters'[n] = u
        <5>1. ASSUME NEW n \in 1..Len(waiters), waiters[n] = u
              PROVE  n - 1 \in 1..Len(waiters') /\ waiters'[n - 1] = u
          BY <1>1, <1>2, <1>3, <3>2, <5>1
        <5>2. ASSUME NEW n \in 1..Len(waiters'), waiters'[n] = u
              PROVE  n + 1 \in 1..Len(waiters) /\ waiters[n + 1] = u
          BY <1>1, <1>2, <1>3, <5>2
        <5> QED
          BY <5>1, <5>2
      <4> QED
        BY <1>4, <3>2, <4>1, <4>2
    <3> QED
      BY <3>1, <3>2
  <2>2. ASSUME NEW m \in 1..Len(waiters'), NEW n \in 1..Len(waiters'),
               waiters'[m] = waiters'[n]
        PROVE  m = n
    BY <1>1, <1>2, <1>3, <2>2 DEF QueueOK
  <2>3. DOMAIN waiters' = 1..Len(waiters')
    BY <1>2
  <2> QED
    BY <1>2, <2>1, <2>2, <2>3 DEF QueueOK
<1>7. TaskOK' /\ Locked'
  BY <1>1, <1>4, <1>5 DEF TaskOK, Locked
<1> QED
  BY <1>6, <1>7

LEMMA AcquireTyped ==
    ASSUME Typed, NEW t \in Tasks, Acquire(t)
    PROVE  Typed'
<1>1. TablesOK' /\ remote' = remote /\ place' = place /\ faults' = faults
  BY DEF Acquire, Typed, TablesOK, tables
<1>2. CASE Free
  <2>1. /\ Begin /\ task[t] = "idle" /\ ~Locked /\ waiters = <<>> /\ waiters' = waiters
        /\ task' = [task EXCEPT ![t] = "running"]
    BY <1>2 DEF Acquire, Free
  <2>2. RunOK' /\ pc' # "idle" /\ WorldOK'
    BY <1>1, <2>1, BeginTyped DEF Typed, WorldOK
  <2>3. \A u \in Tasks : task'[u] = IF u = t THEN "running" ELSE task[u]
    BY <2>1 DEF Typed, TaskOK
  <2>4. TaskOK' /\ Locked'
    BY <2>1, <2>3 DEF Typed, TaskOK, Locked, Running
  <2>5. QueueOK'
    BY <2>1, <2>3 DEF Typed, QueueOK
  <2> QED
    BY <1>1, <2>2, <2>4, <2>5 DEF Typed, IdleOK
<1>3. CASE ~Free
  <2>1. /\ task[t] = "idle" /\ task' = [task EXCEPT ![t] = "waiting"]
        /\ waiters' = Append(waiters, t) /\ UNCHANGED <<run, calm>>
    BY <1>3 DEF Acquire
  <2>2. TaskOK' /\ QueueOK' /\ Locked' = Locked
    BY <2>1, JoinTyped DEF Typed
  <2>3. WorldOK' /\ RunOK' /\ pc' = pc
    BY <1>1, <2>1 DEF Typed, WorldOK, RunOK, run
  <2> QED
    BY <1>1, <2>2, <2>3 DEF Typed, IdleOK
<1> QED
  BY <1>2, <1>3

LEMMA TurnTyped ==
    ASSUME Typed, Turn
    PROVE  Typed'
<1>1. TablesOK' /\ remote' = remote /\ place' = place /\ faults' = faults
  BY DEF Turn, Typed, TablesOK, tables
<1>2. TaskOK' /\ QueueOK' /\ Locked'
  BY LeaveTyped DEF Turn, Typed
<1>3. RunOK' /\ pc' # "idle" /\ WorldOK'
  BY <1>1, BeginTyped DEF Turn, Typed, WorldOK
<1> QED
  BY <1>1, <1>2, <1>3 DEF Typed, IdleOK

\* Steps that leave the lock to itself.
LEMMA LockKept ==
    ASSUME Typed, UNCHANGED lock, pc' = "idle" <=> pc = "idle"
    PROVE  TaskOK' /\ QueueOK' /\ IdleOK'
BY DEF Typed, TaskOK, QueueOK, IdleOK, lock, Locked, Running

LEMMA FetchTyped ==
    ASSUME Typed, NEW i \in Ids, ServerAnswers(i) \/ Deliver(i) \/ FetchFails(i)
    PROVE  Typed'
<1>1. CASE ServerAnswers(i)
  <2>1. RunOK' /\ pc' = pc
    <3>1. snap[i].cal \in Cals
      BY <1>1 DEF ServerAnswers, Current, Typed, RunOK, Source
    <3>2. answer' \in Events
      BY <1>1, <3>1 DEF ServerAnswers, Typed, WorldOK, Events, Read
    <3> QED
      BY <1>1, <3>2 DEF ServerAnswers, Current, Typed, RunOK
  <2>2. TablesOK' /\ WorldOK'
    BY <1>1 DEF ServerAnswers, Typed, TablesOK, WorldOK, tables
  <2>3. UNCHANGED lock
    BY <1>1 DEF ServerAnswers
  <2> QED
    BY <2>1, <2>2, <2>3, LockKept DEF Typed
<1>2. CASE Deliver(i)
  <2>1. Current(i) /\ answer # Null /\ (Fetched(i, "error") \/ Fetched(i, "ok"))
    BY <1>2 DEF Deliver
  <2>2. RunOK' /\ pc # "idle" /\ pc' # "idle"
    BY <2>1, FetchedTyped DEF Typed
  <2>3. event' \in [Ids -> Events]
    BY <1>2, <2>1, EventsTyped DEF Deliver, Typed, TablesOK
  <2>4. TablesOK' /\ WorldOK' /\ UNCHANGED lock
    BY <1>2, <2>3 DEF Deliver, Typed, TablesOK, WorldOK
  <2> QED
    BY <2>2, <2>4, LockKept DEF Typed
<1>3. CASE FetchFails(i)
  <2>1. RunOK' /\ pc # "idle" /\ pc' # "idle"
    BY <1>3, FetchedTyped DEF FetchFails, Typed
  <2>2. faults' \in 0..MaxFaults
    BY <1>3, SourceAssumption DEF FetchFails, Typed, WorldOK
  <2>3. TablesOK' /\ WorldOK' /\ UNCHANGED lock
    BY <1>3, <2>2 DEF FetchFails, Typed, TablesOK, WorldOK, tables
  <2> QED
    BY <2>1, <2>3, LockKept DEF Typed
<1> QED
  BY <1>1, <1>2, <1>3

LEMMA EndRunTyped ==
    ASSUME Typed, EndRun
    PROVE  Typed'
<1>1. RunOK' /\ pc' = "idle" /\ calm' \in [Ids -> BOOLEAN]
  BY ForgottenTyped DEF EndRun, Typed
<1>2. TablesOK' /\ WorldOK'
  BY <1>1 DEF EndRun, Typed, TablesOK, WorldOK, tables
<1>3. \A t \in Tasks : task'[t] = IF task[t] = "running" THEN "idle" ELSE task[t]
  BY DEF EndRun, Released, Running
<1>4. TaskOK' /\ ~Locked'
  BY <1>3 DEF EndRun, Released, Typed, TaskOK, Locked, Running
<1>5. QueueOK'
  BY <1>3 DEF EndRun, Typed, TaskOK, QueueOK
<1> QED
  BY <1>1, <1>2, <1>4, <1>5 DEF Typed, IdleOK

LEMMA CrashTyped ==
    ASSUME Typed, Crash
    PROVE  Typed'
<1>1. RunOK' /\ pc' = "idle" /\ calm' \in [Ids -> BOOLEAN]
  BY ForgottenTyped DEF Crash, Typed
<1>2. event' \in [Ids -> Events]
  <2>1. CASE UNCHANGED event
    BY <2>1 DEF Typed, TablesOK
  <2>2. CASE \E i \in todo : Current(i) /\ answer # Null /\ ~Refused(i) /\ SyncEvents(i)
    BY <2>2, EventsTyped DEF Typed, RunOK
  <2> QED
    BY <2>1, <2>2 DEF Crash
<1>3. faults' \in 0..MaxFaults
  BY SourceAssumption DEF Crash, Typed, WorldOK
<1>4. TablesOK' /\ WorldOK'
  BY <1>1, <1>2, <1>3 DEF Crash, Typed, TablesOK, WorldOK
<1>5. TaskOK' /\ QueueOK' /\ ~Locked'
  BY DEF Crash, TaskOK, QueueOK, Locked, Running
<1> QED
  BY <1>1, <1>4, <1>5 DEF Typed, IdleOK

LEMMA AdminTyped ==
    ASSUME Typed, AdminStep
    PROVE  Typed'
<1>1. ASSUME NEW c \in Cals, CreateSource(c)
      PROVE  TablesOK' /\ calm' \in [Ids -> BOOLEAN] /\ UNCHANGED <<remote, place, lock, run, faults>>
  <2>1. created' \in Ids /\ created' = created + 1 /\ created' \in 0..MaxSources
    BY <1>1, SourceAssumption DEF CreateSource, Ids, Typed, TablesOK
  <2>2. [on |-> TRUE, cal |-> c] \in Source
    BY DEF Source
  <2> QED
    BY <1>1, <2>1, <2>2 DEF CreateSource, AdminChanges, Typed, TablesOK, WorldOK, Ids
<1>2. ASSUME NEW i \in Ids, NEW row \in Source, UpdateSource(i, row)
      PROVE  TablesOK' /\ calm' \in [Ids -> BOOLEAN] /\ UNCHANGED <<remote, place, lock, run, faults>>
  BY <1>2 DEF UpdateSource, AdminChanges, Typed, TablesOK, WorldOK
<1>3. ASSUME NEW i \in Ids, DeleteSource(i)
      PROVE  TablesOK' /\ calm' \in [Ids -> BOOLEAN] /\ UNCHANGED <<remote, place, lock, run, faults>>
  BY <1>3 DEF DeleteSource, AdminChanges, Typed, TablesOK, WorldOK, NoEvents, Events
<1>4. TablesOK' /\ calm' \in [Ids -> BOOLEAN] /\ UNCHANGED <<remote, place, lock, run, faults>>
  BY <1>1, <1>2, <1>3 DEF AdminStep
<1>5. WorldOK' /\ RunOK' /\ pc' = pc
  BY <1>4 DEF Typed, WorldOK, RunOK, run
<1> QED
  BY <1>4, <1>5, LockKept DEF Typed

LEMMA WorldTyped ==
    ASSUME Typed, World
    PROVE  Typed'
<1>1. ASSUME NEW r \in Requests, TriggerSync(r)
      PROVE  Typed'
  BY <1>1, AcquireTyped DEF TriggerSync, Tasks
<1>2. ASSUME NEW c \in Cals, NEW k \in Keys, NEW v \in Vals \cup {Null}, OwnerEdits(c, k, v)
      PROVE  Typed'
  <2>1. remote' \in [Cals -> Events] /\ calm' \in [Ids -> BOOLEAN]
    BY <1>2 DEF OwnerEdits, Typed, WorldOK, Events
  <2>2. WorldOK' /\ TablesOK' /\ RunOK' /\ pc' = pc /\ UNCHANGED lock
    BY <1>2, <2>1 DEF OwnerEdits, Typed, WorldOK, TablesOK, RunOK, tables, run
  <2> QED
    BY <2>2, LockKept DEF Typed
<1>3. ASSUME NEW k \in Keys, NEW p \in Places, Passes(k, p)
      PROVE  Typed'
  <2>1. WorldOK' /\ TablesOK' /\ RunOK' /\ pc' = pc /\ UNCHANGED lock
    BY <1>3 DEF Passes, Typed, WorldOK, TablesOK, RunOK, tables, run
  <2> QED
    BY <2>1, LockKept DEF Typed
<1> QED
  BY <1>1, <1>2, <1>3 DEF World

LEMMA NextTyped ==
    ASSUME Typed, [Next]_vars
    PROVE  Typed'
<1>1. CASE SyncStep
  BY <1>1, AcquireTyped, TurnTyped, FetchTyped, EndRunTyped
     DEF SyncStep, PeriodicSync, FetchStep, Tasks
<1>2. CASE Crash
  BY <1>2, CrashTyped
<1>3. CASE AdminStep
  BY <1>3, AdminTyped
<1>4. CASE World
  BY <1>4, WorldTyped
<1>5. CASE UNCHANGED vars
  BY <1>5 DEF vars, tables, lock, run, Typed, TablesOK, WorldOK, TaskOK, QueueOK,
              RunOK, IdleOK, Locked, Running
<1> QED
  BY <1>1, <1>2, <1>3, <1>4, <1>5 DEF Next

\* TypeOK: rows, answers and results have their shapes, there is one run at
\* most, and who waits for SYNC_LOCK is in its queue once.
THEOREM TypeCorrect == Spec => []TypeOK
<1>1. Init => Typed
  BY InitTyped
<1>2. Typed /\ [Next]_vars => Typed'
  BY NextTyped
<1>3. Spec => []Typed
  BY <1>1, <1>2, PTL DEF Spec
<1> QED
  BY <1>3, TypedIsTypeOK, PTL

-----------------------------------------------------------------------------
(***************************************************************************)
(* No events without their source.                                         *)
(***************************************************************************)
LEMMA StoringKeepsOwners ==
    ASSUME Typed, NoOrphanEvents, NEW i \in Ids, answer # Null, ~Refused(i),
           SyncEvents(i), source' = source
    PROVE  NoOrphanEvents'
<1>1. ASSUME NEW j \in Ids, source[j] = Null
      PROVE  event'[j] = NoEvents
  <2>1. event[j] = NoEvents
    BY <1>1 DEF NoOrphanEvents
  <2>2. CASE j = i
    <3>1. answer = NoEvents
      BY <1>1, <2>2 DEF Refused
    <3>2. event'[j] = [k \in Keys |-> IF NoEvents[k] # Null THEN NoEvents[k]
                                      ELSE IF Pruned(k) THEN Null ELSE NoEvents[k]]
      BY <2>1, <2>2, <3>1 DEF SyncEvents, Typed, TablesOK
    <3> QED
      BY <3>2 DEF NoEvents
  <2>3. CASE j # i
    BY <2>1, <2>3 DEF SyncEvents, Typed, TablesOK
  <2> QED
    BY <2>2, <2>3
<1> QED
  BY <1>1 DEF NoOrphanEvents

LEMMA NextOwned ==
    ASSUME Typed, NoOrphanEvents, [Next]_vars
    PROVE  NoOrphanEvents'
<1>1. CASE UNCHANGED <<source, event>>
  BY <1>1 DEF NoOrphanEvents
<1>2. ASSUME NEW i \in Ids, Deliver(i)
      PROVE  NoOrphanEvents'
  BY <1>1, <1>2, StoringKeepsOwners DEF Deliver
<1>3. CASE Crash
  BY <1>1, <1>3, StoringKeepsOwners DEF Crash, Typed, RunOK
<1>4. CASE AdminStep
  <2>1. ASSUME NEW c \in Cals, CreateSource(c)
        PROVE  NoOrphanEvents'
    <3>1. created' \in Ids
      BY <2>1, SourceAssumption DEF CreateSource, Ids, Typed, TablesOK
    <3>2. \A j \in Ids : source'[j] = Null => source[j] = Null
      BY <2>1, <3>1, SourceAssumption DEF CreateSource, AdminChanges, Typed, TablesOK
    <3> QED
      BY <2>1, <3>2 DEF CreateSource, NoOrphanEvents
  <2>2. ASSUME NEW i \in Ids, NEW row \in Source, UpdateSource(i, row)
        PROVE  NoOrphanEvents'
    <3>1. \A j \in Ids : source'[j] = Null => source[j] = Null
      BY <2>2, SourceAssumption DEF UpdateSource, AdminChanges, Typed, TablesOK, Source
    <3> QED
      BY <2>2, <3>1 DEF UpdateSource, NoOrphanEvents
  <2>3. ASSUME NEW i \in Ids, DeleteSource(i)
        PROVE  NoOrphanEvents'
    BY <2>3 DEF DeleteSource, AdminChanges, NoOrphanEvents, Typed, TablesOK
  <2> QED
    BY <1>4, <2>1, <2>2, <2>3 DEF AdminStep
<1>5. CASE World
  <2>1. UNCHANGED <<source, event>>
    BY <1>5 DEF World, TriggerSync, Acquire, OwnerEdits, Passes, tables
  <2> QED
    BY <1>1, <2>1
<1>6. CASE SyncStep
  <2>1. CASE PeriodicSync \/ Turn \/ EndRun \/ \E i \in Ids : ServerAnswers(i) \/ FetchFails(i)
    <3>1. UNCHANGED <<source, event>>
      BY <2>1 DEF PeriodicSync, Acquire, Turn, EndRun, ServerAnswers, FetchFails, tables
    <3> QED
      BY <1>1, <3>1
  <2> QED
    BY <1>2, <1>6, <2>1 DEF SyncStep, FetchStep
<1>7. CASE UNCHANGED vars
  BY <1>1, <1>7 DEF vars, tables
<1> QED
  BY <1>3, <1>4, <1>5, <1>6, <1>7 DEF Next

\* NoOrphanEvents: what a fetch returns for a source that was deleted under it
\* is refused, so that no events are left behind.
THEOREM EventsHaveSources == Spec => []NoOrphanEvents
<1>1. Init => NoOrphanEvents
  BY DEF Init, NoOrphanEvents
<1>2. Spec => []Typed
  BY InitTyped, NextTyped, PTL DEF Spec
<1>3. Typed /\ NoOrphanEvents /\ [Next]_vars => NoOrphanEvents'
  BY NextOwned
<1> QED
  BY <1>1, <1>2, <1>3, PTL DEF Spec

-----------------------------------------------------------------------------
(***************************************************************************)
(* What the outgoing syncs are told is true.  During the run it holds of   *)
(* the sources already done, and the answer under way agrees with its      *)
(* calendar.                                                               *)
(***************************************************************************)
Matches(i) ==
    \A k \in Keys :
        /\ win[k] = "in" => event[i][k] = Read(remote[snap[i].cal][k])
        /\ win[k] = "running" => Read(remote[snap[i].cal][k]) \in {event[i][k], Null}
DoneMatch ==
    \A i \in Ids : results[i] = "ok" => snap[i] # Null /\ (calm[i] => Matches(i))
AnswerMatches ==
    \A i \in Ids : Current(i) /\ answer # Null /\ calm[i] =>
        \A k \in Keys : answer[k] = IF Covered(k) THEN Read(remote[snap[i].cal][k]) ELSE Null
Match == DoneMatch /\ AnswerMatches

LEMMA NoRunMatches ==
    ASSUME \A i \in Ids : results'[i] = "absent", answer' = Null
    PROVE  Match'
BY DEF Match, DoneMatch, AnswerMatches

\* The admin and the owners: a source that is still calm, and its calendar and
\* events, are as they were.
LEMMA CalmKept ==
    ASSUME Typed, Match, UNCHANGED run,
           \A i \in Ids : calm'[i] /\ snap[i] # Null =>
               calm[i] /\ event'[i] = event[i] /\ remote'[snap[i].cal] = remote[snap[i].cal]
    PROVE  Match'
<1>1. DoneMatch'
  <2>1. ASSUME NEW i \in Ids, results'[i] = "ok"
        PROVE  snap'[i] # Null /\ (calm'[i] => Matches(i)')
    <3>1. results[i] = "ok" /\ snap[i] # Null
      BY <2>1 DEF run, Match, DoneMatch
    <3> QED
      BY <2>1, <3>1 DEF Match, DoneMatch, Matches, run
  <2> QED
    BY <2>1 DEF DoneMatch
<1>2. AnswerMatches'
  BY DEF Match, AnswerMatches, Typed, RunOK, Current, Covered, run
<1> QED
  BY <1>1, <1>2 DEF Match

LEMMA FetchedMatches ==
    ASSUME Typed, Match, NEW i \in Ids, NEW outcome \in {"ok", "error"},
           Current(i), Fetched(i, outcome), UNCHANGED <<remote, calm>>,
           \A j \in Ids \ {i} : event'[j] = event[j],
           outcome = "ok" /\ calm[i] => Matches(i)'
    PROVE  Match'
<1>1. answer' = Null /\ UNCHANGED <<snap, win>>
  BY DEF Fetched
<1>2. ASSUME NEW j \in Ids, results'[j] = "ok"
      PROVE  snap'[j] # Null /\ (calm'[j] => Matches(j)')
  <2>1. CASE j = i
    BY <1>1, <1>2, <2>1 DEF Fetched, Typed, RunOK, Current
  <2>2. CASE j # i
    <3>1. results[j] = "ok" /\ event'[j] = event[j]
      BY <1>2, <2>2 DEF Fetched, Typed, RunOK
    <3> QED
      BY <1>1, <3>1 DEF Match, DoneMatch, Matches
  <2> QED
    BY <2>1, <2>2
<1> QED
  BY <1>1, <1>2 DEF Match, DoneMatch, AnswerMatches

\* What is stored of an answer that agrees with the calendar.
LEMMA StoredMatches ==
    ASSUME Typed, Match, NEW i \in Ids, Current(i), answer # Null, calm[i],
           SyncEvents(i), UNCHANGED <<remote, snap, win>>
    PROVE  Matches(i)'
<1>1. ASSUME NEW k \in Keys
      PROVE  /\ win[k] = "in" => event'[i][k] = Read(remote[snap[i].cal][k])
             /\ win[k] = "running" => Read(remote[snap[i].cal][k]) \in {event'[i][k], Null}
  <2>1. answer[k] = IF Covered(k) THEN Read(remote[snap[i].cal][k]) ELSE Null
    BY DEF Match, AnswerMatches
  <2>2. event'[i][k] = IF answer[k] # Null THEN answer[k]
                       ELSE IF Pruned(k) THEN Null ELSE event[i][k]
    BY DEF SyncEvents, Typed, TablesOK
  <2> QED
    BY <2>1, <2>2 DEF Covered, Pruned
<1> QED
  BY <1>1 DEF Matches

LEMMA FetchMatches ==
    ASSUME Typed, Match, NEW i \in Ids, ServerAnswers(i) \/ Deliver(i) \/ FetchFails(i)
    PROVE  Match'
<1>1. CASE ServerAnswers(i)
  <2>1. UNCHANGED <<pc, snap, todo, win, results, calm, event, remote>>
    BY <1>1 DEF ServerAnswers, tables
  <2>2. DoneMatch'
    BY <2>1 DEF Match, DoneMatch, Matches
  <2>3. ASSUME NEW j \in Ids, Current(j)
        PROVE  j = i
    BY <1>1, <2>3 DEF ServerAnswers, Current, Ids
  <2>4. AnswerMatches'
    BY <1>1, <2>1, <2>3 DEF AnswerMatches, ServerAnswers, Current, Covered
  <2> QED
    BY <2>2, <2>4 DEF Match
<1>2. CASE Deliver(i)
  <2>1. Current(i) /\ answer # Null /\ UNCHANGED <<remote, calm>>
    BY <1>2 DEF Deliver
  <2>2. CASE Refused(i)
    BY <1>2, <2>1, <2>2, FetchedMatches DEF Deliver
  <2>3. CASE ~Refused(i)
    <3>1. Fetched(i, "ok") /\ SyncEvents(i) /\ UNCHANGED <<snap, win>>
      BY <1>2, <2>3 DEF Deliver, Fetched
    <3>2. calm[i] => Matches(i)'
      BY <2>1, <3>1, StoredMatches
    <3>3. \A j \in Ids \ {i} : event'[j] = event[j]
      BY <3>1 DEF SyncEvents, Typed, TablesOK
    <3> QED
      BY <2>1, <3>1, <3>2, <3>3, FetchedMatches
  <2> QED
    BY <2>2, <2>3
<1>3. CASE FetchFails(i)
  BY <1>3, FetchedMatches DEF FetchFails, tables
<1> QED
  BY <1>1, <1>2, <1>3

LEMMA AdminMatches ==
    ASSUME Typed, Match, AdminStep
    PROVE  Match'
<1>1. ASSUME NEW c \in Cals, CreateSource(c)
      PROVE  Match'
  <2>1. UNCHANGED <<run, remote, event>> /\ \A j \in Ids : calm'[j] => calm[j]
    BY <1>1 DEF CreateSource, AdminChanges, Typed, WorldOK
  <2> QED
    BY <2>1, CalmKept
<1>2. ASSUME NEW i \in Ids, NEW row \in Source, UpdateSource(i, row)
      PROVE  Match'
  <2>1. UNCHANGED <<run, remote, event>> /\ \A j \in Ids : calm'[j] => calm[j]
    BY <1>2 DEF UpdateSource, AdminChanges, Typed, WorldOK
  <2> QED
    BY <2>1, CalmKept
<1>3. ASSUME NEW i \in Ids, DeleteSource(i)
      PROVE  Match'
  <2>1. /\ UNCHANGED <<run, remote>>
        /\ \A j \in Ids : calm'[j] => calm[j] /\ event'[j] = event[j]
    BY <1>3 DEF DeleteSource, AdminChanges, Typed, WorldOK, TablesOK
  <2> QED
    BY <2>1, CalmKept
<1> QED
  BY <1>1, <1>2, <1>3 DEF AdminStep

LEMMA AcquireMatches ==
    ASSUME Typed, Match, NEW t \in Tasks, Acquire(t)
    PROVE  Match'
<1>1. CASE Free
  BY <1>1, NoRunMatches DEF Acquire, Begin
<1>2. CASE ~Free
  BY <1>2, CalmKept DEF Acquire, tables
<1> QED
  BY <1>1, <1>2

LEMMA NextMatches ==
    ASSUME Typed, Match, [Next]_vars
    PROVE  Match'
<1>1. CASE SyncStep
  <2>1. CASE Turn
    BY <2>1, NoRunMatches DEF Turn, Begin
  <2>2. CASE EndRun
    BY <2>2, NoRunMatches DEF EndRun, ForgetRun
  <2> QED
    BY <1>1, <2>1, <2>2, AcquireMatches, FetchMatches
       DEF SyncStep, PeriodicSync, FetchStep, Tasks
<1>2. CASE Crash
  BY <1>2, NoRunMatches DEF Crash, ForgetRun
<1>3. CASE AdminStep
  BY <1>3, AdminMatches
<1>4. CASE World
  <2>1. ASSUME NEW r \in Requests, TriggerSync(r)
        PROVE  Match'
    BY <2>1, AcquireMatches DEF TriggerSync, Tasks
  <2>2. ASSUME NEW c \in Cals, NEW k \in Keys, NEW v \in Vals \cup {Null}, OwnerEdits(c, k, v)
        PROVE  Match'
    <3>1. /\ UNCHANGED <<run, event>>
          /\ \A i \in Ids : calm'[i] /\ snap[i] # Null => calm[i] /\ snap[i].cal # c
      BY <2>2 DEF OwnerEdits, tables
    <3>2. \A d \in Cals \ {c} : remote'[d] = remote[d]
      BY <2>2 DEF OwnerEdits, Typed, WorldOK
    <3>3. \A i \in Ids : snap[i] # Null => snap[i].cal \in Cals
      BY DEF Typed, RunOK, Source
    <3> QED
      BY <3>1, <3>2, <3>3, CalmKept
  <2>3. ASSUME NEW k \in Keys, NEW p \in Places, Passes(k, p)
        PROVE  Match'
    BY <2>3, CalmKept DEF Passes, tables
  <2> QED
    BY <1>4, <2>1, <2>2, <2>3 DEF World
<1>5. CASE UNCHANGED vars
  BY <1>5, CalmKept DEF vars, tables
<1> QED
  BY <1>1, <1>2, <1>3, <1>4, <1>5 DEF Next

\* RunsMatchUpstream: of a source that a run reports as read and that nobody
\* changed meanwhile, the outgoing syncs find in the table what its calendar
\* holds and a parser can read.
THEOREM ReportsAreTrue == Spec => []RunsMatchUpstream
<1>1. Init => Match
  BY DEF Init, Match, DoneMatch, AnswerMatches
<1>2. Spec => []Typed
  BY InitTyped, NextTyped, PTL DEF Spec
<1>3. Typed /\ Match /\ [Next]_vars => Match'
  BY NextMatches
<1>4. Match => RunsMatchUpstream
  BY DEF Match, DoneMatch, Matches, RunsMatchUpstream
<1> QED
  BY <1>1, <1>2, <1>3, <1>4, PTL DEF Spec

-----------------------------------------------------------------------------
(***************************************************************************)
(* The data-loss guard on top of the sync run.  An outgoing sync has       *)
(* selected the sources ids and writes those of their events in the        *)
(* window, as stored, that belong to `wanted': all appointments, or the    *)
(* birthdays.                                                              *)
(***************************************************************************)
Desired(ids, wanted) ==
    {e \in ids \X Keys : Covered(e[2]) /\ <<e[2], event[e[1]][e[2]]>> \in wanted}

\* The sources' calendars hold nothing the outgoing sync would write.
NothingUpstream(ids, wanted) ==
    \A i \in ids, k \in Keys :
        calm[i] /\ Covered(k) => <<k, Read(remote[snap[i].cal][k])>> \notin wanted

\* "An error-free sync of the selected sources means the empty set is the truth"
\* (app/sync_guard.py, case d).
EmptyIsTrue(mapped, copies) ==
    pc = "stages" =>
        \A ids \in SUBSET Ids, wanted \in SUBSET (Keys \X Vals) :
            /\ Desired(ids, wanted) = {}
            /\ Guard!SkipReason(ids, results, {}, mapped, copies) = "run"
            => NothingUpstream(ids, wanted)

\* With rows or copies to lose and nothing desired, the verdict takes fresh sources.
LEMMA RunMeansFresh ==
    ASSUME NEW ids, NEW mapped, NEW copies, mapped # {} \/ copies # {},
           Guard!SkipReason(ids, results, {}, mapped, copies) = "run"
    PROVE  \A i \in ids : results[i] = "ok"
BY DEF Guard!SkipReason, Guard!SourcesVerifiedFresh

\* A source reported as read hides nothing that its calendar holds.
LEMMA FreshIsEmpty ==
    ASSUME RunsMatchUpstream, pc = "stages", NEW ids \in SUBSET Ids,
           NEW wanted \in SUBSET (Keys \X Vals), Desired(ids, wanted) = {},
           \A i \in ids : results[i] = "ok"
    PROVE  NothingUpstream(ids, wanted)
<1> SUFFICES ASSUME NEW i \in ids, NEW k \in Keys, calm[i], Covered(k),
                    <<k, Read(remote[snap[i].cal][k])>> \in wanted
             PROVE  FALSE
  BY DEF NothingUpstream
<1> DEFINE v == Read(remote[snap[i].cal][k])
<1>1. v \in Vals
  OBVIOUS
<1>2. v # Null
  BY <1>1, SourceAssumption
<1>3. event[i][k] = v
  BY <1>2 DEF RunsMatchUpstream, Covered
<1>4. <<i, k>> \in Desired(ids, wanted)
  BY <1>3 DEF Desired
<1> QED
  BY <1>4

\* EmptyIsTrue: an outgoing sync that the guard lets run with nothing to write,
\* so that it deletes whatever it ever wrote, does so because the calendars of
\* its sources hold nothing for it that a parser can read: whatever failed,
\* crashed or was deleted before, and except for sources the admin or the owner
\* touched during the run.
THEOREM EmptyingIsJustified ==
    ASSUME NEW CONSTANT mapped, NEW CONSTANT copies, mapped # {} \/ copies # {}
    PROVE  Spec => []EmptyIsTrue(mapped, copies)
<1>1. RunsMatchUpstream => EmptyIsTrue(mapped, copies)
  BY RunMeansFresh, FreshIsEmpty DEF EmptyIsTrue
<1> QED
  BY <1>1, ReportsAreTrue, PTL
=============================================================================
