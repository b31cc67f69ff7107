-------------------------- MODULE ViewCaches_proofs --------------------------
(***************************************************************************)
(* Proofs about the caches of the views: type correctness, the age of what *)
(* is shown, that an upstream is left alone while its result is kept, and, *)
(* for devices that change between fetches, that the power view shows the  *)
(* configured ones.                                                        *)
(***************************************************************************)
EXTENDS ViewCaches, TLAPS

-----------------------------------------------------------------------------
(***************************************************************************)
(* Type correctness.                                                       *)
(***************************************************************************)
CacheOK ==
    /\ view \in Views /\ payload \in Payloads \cup {Null}
    /\ valid \in 0..Longest /\ error \in 0..ErrorTtl[view]
    /\ modified \in BOOLEAN /\ (modified => view = "forecast" /\ payload # Null)
FetchOK == fetch # Null => fetch \in [time : 0..MaxFetch, devices : {0, 1}]
QueueOK ==
    /\ queue \in Seq(Requests) /\ (fetch # Null => queue # <<>>)
    /\ \A i, j \in 1..Len(queue) : queue[i] = queue[j] => i = j
AnswerOK ==
    /\ devices \in {0, 1} /\ answer \in Answers \cup {Null}
    /\ quiet \in 0..(Longest + ErrorTtl[view])
Typed == CacheOK /\ FetchOK /\ QueueOK /\ AnswerOK

LEMMA TypedIsTypeOK == Typed <=> TypeOK
BY DEF Typed, TypeOK, CacheOK, FetchOK, QueueOK, AnswerOK

LEMMA Lifetimes ==
    ASSUME view \in Views
    PROVE  /\ Ttl[view] \in Nat \ {0} /\ ErrorTtl[view] \in Nat
           /\ MAX_FORECAST_CACHE_TTL \in Nat /\ MaxFetch \in Nat \ {0} /\ MaxAge \in Nat
           /\ Longest \in Nat \ {0} /\ Ttl[view] <= Longest
           /\ MaxAge >= Longest + MaxFetch
BY ViewAssumption DEF Longest

LEMMA LifetimeBounded ==
    ASSUME view = "forecast", NEW e \in Expires
    PROVE  Lifetime(e) \in Ttl[view]..Longest
BY Lifetimes, ViewAssumption DEF Lifetime, Expires, Longest, Views

LEMMA CachedTyped ==
    ASSUME CacheOK, Cached # Null
    PROVE  Cached \in Answers /\ (Cached.kind = "payload" => Valid /\ Cached.is = payload)
<1>1. Cached \in {Shown, [kind |-> "error"]} /\ (Cached = Shown => Valid)
  BY DEF Cached, CachedSnapshot, CachedHistory, CachedForecast, CachedFrames,
         CachedBoard, CachedAdmins, CacheOK, Views, Shown
<1>2. [kind |-> "error"] \in Answers
  BY DEF Answers
<1>3. Valid => Shown \in Answers
  BY DEF Valid, Shown, Answers, CacheOK
<1> QED
  BY <1>1, <1>2, <1>3 DEF Shown

LEMMA GotTyped ==
    ASSUME FetchOK, view \in Views, NEW p \in Got
    PROVE  /\ p \in Payloads /\ p.age <= MaxFetch /\ p # Null
           /\ fetch # Null /\ p.devices = fetch.devices
<1>1. fetch # Null /\ p \in [age : 0..fetch.time, devices : {fetch.devices}]
  BY DEF Got
<1>2. fetch.time \in 0..MaxFetch /\ fetch.devices \in {0, 1}
  BY <1>1 DEF FetchOK
<1>3. p.age \in 0..MaxAge /\ p.age <= MaxFetch /\ p.devices = fetch.devices
  BY <1>1, <1>2, Lifetimes
<1>4. p \in Payloads
  BY <1>1, <1>2, <1>3 DEF Payloads
<1> QED
  BY <1>1, <1>3, <1>4, NullAssumption

LEMMA InitTyped == Init => Typed
<1> SUFFICES ASSUME Init PROVE Typed
  OBVIOUS
<1>1. view \in Views
  BY DEF Init
<1>2. 0 \in 0..Longest /\ 0 \in 0..ErrorTtl[view] /\ 0 \in 0..(Longest + ErrorTtl[view])
  BY <1>1, Lifetimes
<1>3. CacheOK
  BY <1>1, <1>2 DEF Init, CacheOK
<1>4. AnswerOK
  BY <1>2 DEF Init, AnswerOK
<1>5. FetchOK /\ QueueOK
  BY DEF Init, FetchOK, QueueOK
<1> QED
  BY <1>3, <1>4, <1>5 DEF Typed

LEMMA TailKeepsOrder ==
    ASSUME QueueOK, queue # <<>>, queue' = Tail(queue), fetch' = Null
    PROVE  QueueOK'
<1>1. queue' \in Seq(Requests) /\ Len(queue') = Len(queue) - 1
      /\ \A i \in 1..Len(queue') : queue'[i] = queue[i + 1]
  BY DEF QueueOK
<1>2. \A i \in 1..Len(queue') : i \in Nat /\ i + 1 \in 1..Len(queue)
  BY <1>1 DEF QueueOK
<1> QED
  BY <1>1, <1>2 DEF QueueOK

LEMMA AskTyped ==
    ASSUME Typed, NEW r \in Requests, Ask(r)
    PROVE  Typed'
<1>1. CacheOK' /\ FetchOK'
  BY DEF Ask, cache, Typed, CacheOK, FetchOK, Longest
<1>2. CASE Cached # Null
  BY <1>1, <1>2, CachedTyped DEF Ask, cache, Typed, QueueOK, AnswerOK, Longest
<1>3. CASE Cached = Null
  <2>1. queue' = Append(queue, r) /\ r \notin ToSet(queue) /\ UNCHANGED <<answer, fetch>>
    BY <1>3 DEF Ask
  <2>2. queue' \in Seq(Requests) /\ Len(queue') = Len(queue) + 1
        /\ \A i \in 1..Len(queue) : queue'[i] = queue[i]
        /\ queue'[Len(queue) + 1] = r
    BY <2>1 DEF Typed, QueueOK
  <2>3. \A i \in 1..Len(queue) : queue[i] # r
    BY <2>1 DEF ToSet, Typed, QueueOK
  <2>4. QueueOK'
    <3>1. Len(queue) \in Nat /\ queue' # <<>>
      BY <2>2 DEF Typed, QueueOK
    <3>2. \A i, j \in 1..Len(queue') : queue'[i] = queue'[j] => i = j
      <4> SUFFICES ASSUME NEW i \in 1..Len(queue'), NEW j \in 1..Len(queue'),
                          queue'[i] = queue'[j]
                   PROVE  i = j
        OBVIOUS
      <4>1. i \in 1..Len(queue) \/ i = Len(queue) + 1
        BY <2>2, <3>1
      <4>2. j \in 1..Len(queue) \/ j = Len(queue) + 1
        BY <2>2, <3>1
      <4> QED
        BY <2>2, <2>3, <4>1, <4>2 DEF Typed, QueueOK
    <3> QED
      BY <2>2, <3>1, <3>2 DEF QueueOK
  <2> QED
    BY <1>1, <2>1, <2>4 DEF Ask, cache, Typed, AnswerOK, Longest
<1> QED
  BY <1>2, <1>3

LEMMA EnterTyped == Typed /\ Enter => Typed'
<1> SUFFICES ASSUME Typed, Enter PROVE Typed'
  OBVIOUS
<1>1. CacheOK'
  BY DEF Enter, cache, Typed, CacheOK, Longest
<1>2. CASE Look # Null
  <2>1. QueueOK'
    BY <1>2, TailKeepsOrder DEF Enter, Typed
  <2>2. FetchOK' /\ AnswerOK'
    BY <1>2, CachedTyped DEF Enter, Look, Typed, FetchOK, AnswerOK, Longest
  <2> QED
    BY <1>1, <2>1, <2>2 DEF Typed
<1>3. CASE Look = Null
  <2>1. FetchOK'
    BY <1>3, ViewAssumption DEF Enter, Typed, FetchOK, AnswerOK
  <2>2. QueueOK' /\ AnswerOK'
    BY <1>3 DEF Enter, Typed, QueueOK, AnswerOK, Longest
  <2> QED
    BY <1>1, <2>1, <2>2 DEF Typed
<1> QED
  BY <1>2, <1>3

-----------------------------------------------------------------------------
(***************************************************************************)
(* How a fetch ends.                                                       *)
(***************************************************************************)
\* What a fetch leaves: a payload that is kept and shown, ...
Keeps ==
    /\ payload' \in Payloads /\ payload'.age <= MaxFetch
    /\ payload'.devices \in {0, 1}
    /\ valid' \in Ttl[view]..Longest /\ quiet' = Ttl[view]
    /\ answer' = [kind |-> "payload", is |-> payload']
    /\ error' \in {0, error}
    /\ modified' \in BOOLEAN /\ (modified' => view = "forecast")
\* ... an error, with whatever it leaves of the payload, ...
Errs ==
    /\ answer' = [kind |-> "error"] /\ quiet' \in {0, error'}
    /\ error' \in {error, ErrorTtl[view]}
    /\ (view \in {"history", "radar"} => quiet' = 0)
    /\ \/ UNCHANGED <<payload, valid>>
       \/ payload' = Null /\ valid' = 0 /\ view = "admins"
    /\ UNCHANGED modified
\* ... or an exception that leaves nothing of its own.
Raises ==
    /\ answer' = [kind |-> "raised"] /\ quiet' = 0 /\ error' \in {0, error}
    /\ payload' = payload /\ (payload # Null => valid' = valid)
    /\ valid' \in 0..Longest /\ UNCHANGED modified

LEMMA EndsSomehow ==
    ASSUME Typed, FetchEnds
    PROVE  /\ fetch # Null /\ fetch' = Null /\ queue' = Tail(queue)
           /\ UNCHANGED <<view, devices>>
           /\ Keeps \/ Errs \/ Raises
<1> USE DEF Ended, PassesOn
<1>0. view \in Views /\ FetchOK
  BY DEF Typed, CacheOK
<1>1. CASE SnapshotComes \/ HistoryComes \/ FramesCome
  BY <1>0, <1>1, GotTyped, Lifetimes
     DEF SnapshotComes, HistoryComes, FramesCome, Kept, Keeps, Payloads, Longest,
         Typed, CacheOK
<1>2. CASE BoardComes \/ AdminsCome
  BY <1>0, <1>2, GotTyped, Lifetimes
     DEF BoardComes, AdminsCome, Kept, Keeps, Payloads, Longest, Typed, CacheOK
<1>3. CASE ForecastComes
  <2>1. PICK p \in Got, e \in Expires :
          /\ Kept("forecast", p, Lifetime(e)) /\ error' = 0 /\ modified' \in BOOLEAN
    BY <1>3 DEF ForecastComes
  <2> QED
    BY <1>0, <2>1, GotTyped, LifetimeBounded DEF Kept, Keeps, Payloads
<1>4. CASE ForecastStands
  <2>1. PICK p \in Got, e \in Expires :
          /\ modified /\ Kept("forecast", [payload EXCEPT !.age = p.age], Lifetime(e))
          /\ error' = 0 /\ UNCHANGED modified
    BY <1>4 DEF ForecastStands
  <2>2. payload \in Payloads /\ p \in Payloads /\ p.age <= MaxFetch
    BY <1>0, <2>1, GotTyped DEF Typed, CacheOK
  <2>3. payload' \in Payloads /\ payload'.age = p.age
    BY <2>1, <2>2 DEF Kept, Payloads
  <2> QED
    BY <2>1, <2>2, <2>3, LifetimeBounded DEF Kept, Keeps, Payloads, Typed, CacheOK
<1>5. CASE SnapshotFails \/ ForecastFails \/ BoardFails \/ AdminsFail
  BY <1>5 DEF SnapshotFails, ForecastFails, BoardFails, AdminsFail, Failed, Errs
<1>6. CASE HistoryFails \/ FramesFail
  BY <1>6 DEF HistoryFails, FramesFail, Failed, Errs, cache
<1>7. CASE SnapshotRaises \/ AdminsRaise
  BY <1>7 DEF SnapshotRaises, AdminsRaise, Raised, Raises, cache, Typed, CacheOK
<1>8. CASE ForecastMissing
  <2>1. PICK e \in Expires :
          /\ payload = Null /\ Ended("forecast", [kind |-> "raised"], 0)
          /\ valid' = Lifetime(e) /\ error' = 0 /\ UNCHANGED <<payload, modified>>
    BY <1>8 DEF ForecastMissing
  <2>2. valid' \in 0..Longest
    BY <1>0, <2>1, LifetimeBounded, Lifetimes
  <2> QED
    BY <2>1, <2>2 DEF Raises
<1> QED
  BY <1>1, <1>2, <1>3, <1>4, <1>5, <1>6, <1>7, <1>8
     DEF FetchEnds, PowerEnds, WeatherEnds, OtherEnds

LEMMA EndTyped == Typed /\ FetchEnds => Typed'
<1> SUFFICES ASSUME Typed, FetchEnds PROVE Typed'
  OBVIOUS
<1>1. /\ fetch # Null /\ fetch' = Null /\ queue' = Tail(queue)
      /\ UNCHANGED <<view, devices>>
      /\ Keeps \/ Errs \/ Raises
  BY EndsSomehow
<1>2. QueueOK' /\ FetchOK'
  BY <1>1, TailKeepsOrder DEF Typed, QueueOK, FetchOK
<1>3. view \in Views /\ Longest' = Longest
  BY <1>1 DEF Typed, CacheOK, Longest
<1>4. CASE Keeps
  <2>1. payload' # Null /\ answer' \in Answers
    BY <1>4, NullAssumption DEF Keeps, Answers
  <2> QED
    BY <1>1, <1>2, <1>3, <1>4, <2>1, Lifetimes DEF Keeps, Typed, CacheOK, AnswerOK
<1>5. CASE Errs
  <2>1. answer' \in Answers /\ error' \in 0..ErrorTtl[view] /\ quiet' \in 0..ErrorTtl[view]
    BY <1>3, <1>5, Lifetimes DEF Errs, Answers, Typed, CacheOK
  <2> QED
    BY <1>1, <1>2, <1>3, <1>5, <2>1, Lifetimes DEF Errs, Typed, CacheOK, AnswerOK
<1>6. CASE Raises
  <2>1. answer' \in Answers
    BY <1>6 DEF Raises, Answers
  <2> QED
    BY <1>1, <1>2, <1>3, <1>6, <2>1, Lifetimes DEF Raises, Typed, CacheOK, AnswerOK
<1> QED
  BY <1>1, <1>4, <1>5, <1>6

LEMMA ChangeTyped == Typed /\ DevicesChange => Typed'
<1> SUFFICES ASSUME Typed, DevicesChange PROVE Typed'
  OBVIOUS
<1>1. view \in Views /\ ~modified /\ Longest' = Longest
  BY DEF DevicesChange, Typed, CacheOK, Longest
<1> QED
  BY <1>1, Lifetimes DEF DevicesChange, Typed, CacheOK, FetchOK, QueueOK, AnswerOK

LEMMA TickKeepsPayload ==
    ASSUME Typed, Tick
    PROVE  payload' \in Payloads \cup {Null} /\ (payload # Null => payload' # Null)
<1>1. CASE payload = Null \/ payload.age = MaxAge
  BY <1>1 DEF Tick, Typed, CacheOK
<1>2. CASE ~(payload = Null \/ payload.age = MaxAge)
  <2>1. payload \in Payloads /\ payload' = [payload EXCEPT !.age = payload.age + 1]
    BY <1>2 DEF Tick, Typed, CacheOK
  <2>2. payload.age + 1 \in 0..MaxAge
    BY <1>2, <2>1, Lifetimes DEF Payloads, Typed, CacheOK
  <2>3. payload' \in Payloads
    BY <2>1, <2>2 DEF Payloads
  <2> QED
    BY <2>3, NullAssumption
<1> QED
  BY <1>1, <1>2

LEMMA TickTyped == Typed /\ Tick => Typed'
<1> SUFFICES ASSUME Typed, Tick PROVE Typed'
  OBVIOUS
<1>1. view \in Views /\ Longest' = Longest /\ UNCHANGED <<view, modified, queue, answer, devices>>
  BY DEF Tick, Typed, CacheOK, Longest
<1>2. payload' \in Payloads \cup {Null} /\ (payload # Null => payload' # Null)
  BY TickKeepsPayload
<1>3. CacheOK'
  BY <1>1, <1>2, Lifetimes DEF Tick, Less, Typed, CacheOK
<1>4. FetchOK' /\ (fetch' # Null => fetch # Null)
  <2>1. CASE fetch = Null
    BY <2>1 DEF Tick, FetchOK
  <2>2. CASE fetch # Null
    <3>1. fetch' = [fetch EXCEPT !.time = fetch.time + 1]
      BY <2>2 DEF Tick
    <3>2. fetch \in [time : 0..MaxFetch, devices : {0, 1}] /\ fetch.time < MaxFetch
      BY <2>2 DEF Tick, Typed, FetchOK
    <3>3. fetch.time + 1 \in 0..MaxFetch
      BY <1>1, <3>2, Lifetimes
    <3> QED
      BY <2>2, <3>1, <3>2, <3>3 DEF FetchOK
  <2> QED
    BY <2>1, <2>2
<1>5. QueueOK' /\ AnswerOK'
  BY <1>1, <1>4, Lifetimes DEF Tick, Less, Typed, QueueOK, AnswerOK
<1> QED
  BY <1>3, <1>4, <1>5 DEF Typed

LEMMA StepTyped == Typed /\ [Next]_vars => Typed'
<1> SUFFICES ASSUME Typed, [Next]_vars PROVE Typed'
  OBVIOUS
<1>1. CASE UNCHANGED vars
  BY <1>1 DEF vars, cache, Typed, CacheOK, FetchOK, QueueOK, AnswerOK, Longest
<1> QED
  BY <1>1, AskTyped, EnterTyped, EndTyped, ChangeTyped, TickTyped DEF Next

LEMMA AlwaysTyped == Spec => []Typed
BY InitTyped, StepTyped, PTL DEF Spec

\* Every reachable state is type correct, for every number of requests and
\* every choice of lifetimes: nobody waits twice, a Last-Modified is kept only
\* with its forecast, and nothing is kept for longer than it may be.
THEOREM TypeCorrect == Spec => []TypeOK
BY TypedIsTypeOK, AlwaysTyped, PTL

-----------------------------------------------------------------------------
(***************************************************************************)
(* How old answers are.                                                    *)
(***************************************************************************)
\* What is valid is the younger the longer it still may be shown.
Bounded ==
    /\ Valid => payload.age + valid <= Longest + MaxFetch
    /\ AnswersFresh

LEMMA ShownIsFresh ==
    ASSUME Typed, Bounded, Cached # Null, answer' = Cached, UNCHANGED view
    PROVE  AnswersFresh'
<1>1. CASE Cached.kind = "payload"
  <2>1. Valid /\ answer'.is = payload /\ payload \in Payloads
    BY <1>1, CachedTyped DEF Typed, CacheOK, Valid
  <2>2. payload.age < Longest + MaxFetch
    BY <2>1, Lifetimes DEF Bounded, Valid, Typed, CacheOK, Payloads
  <2> QED
    BY <2>1, <2>2 DEF AnswersFresh, Longest
<1>2. CASE Cached.kind # "payload"
  BY <1>2 DEF AnswersFresh
<1> QED
  BY <1>1, <1>2

LEMMA InitBounded == Init => Bounded
BY DEF Init, Bounded, Valid, AnswersFresh

LEMMA EndBounded == Typed /\ Bounded /\ FetchEnds => Bounded'
<1> SUFFICES ASSUME Typed, Bounded, FetchEnds PROVE Bounded'
  OBVIOUS
<1>1. UNCHANGED view /\ (Keeps \/ Errs \/ Raises)
  BY EndsSomehow
<1>2. view \in Views /\ Longest' = Longest
  BY <1>1 DEF Typed, CacheOK, Longest
<1>3. CASE Keeps
  <2>1. payload'.age \in 0..MaxAge /\ payload'.age <= MaxFetch /\ valid' \in Ttl[view]..Longest
    BY <1>3 DEF Keeps, Payloads
  <2>2. answer'.is.age = payload'.age
    BY <1>3 DEF Keeps
  <2> QED
    BY <1>2, <2>1, <2>2, Lifetimes DEF Bounded, Valid, AnswersFresh
<1>4. CASE Errs \/ Raises
  <2>1. Valid' => Valid /\ payload' = payload /\ valid' = valid
    BY <1>4 DEF Errs, Raises, Valid
  <2>2. answer'.kind # "payload"
    BY <1>4 DEF Errs, Raises
  <2> QED
    BY <1>2, <2>1, <2>2 DEF Bounded, AnswersFresh
<1> QED
  BY <1>1, <1>3, <1>4

LEMMA TickBounded == Typed /\ Bounded /\ Tick => Bounded'
<1> SUFFICES ASSUME Typed, Bounded, Tick PROVE Bounded'
  OBVIOUS
<1>1. view \in Views /\ Longest' = Longest /\ UNCHANGED answer
  BY DEF Tick, Typed, CacheOK, Longest
<1>2. AnswersFresh'
  BY <1>1 DEF Bounded, AnswersFresh
<1>3. ASSUME Valid' PROVE payload'.age + valid' <= Longest + MaxFetch
  <2>1. valid \in Nat /\ valid' = valid - 1 /\ valid > 0
    BY <1>1, <1>3, Lifetimes DEF Tick, Less, Valid, Typed, CacheOK
  <2>2. payload # Null
    BY <1>3 DEF Tick, Valid
  <2>3. payload \in Payloads /\ payload.age + valid <= Longest + MaxFetch
    BY <2>1, <2>2 DEF Bounded, Valid, Typed, CacheOK
  <2>4. payload.age # MaxAge
    BY <1>1, <2>1, <2>3, Lifetimes DEF Payloads
  <2>5. payload'.age = payload.age + 1
    BY <2>2, <2>3, <2>4 DEF Tick, Payloads
  <2> QED
    BY <2>1, <2>3, <2>5 DEF Payloads
<1> QED
  BY <1>1, <1>2, <1>3 DEF Bounded

LEMMA StepBounded == Typed /\ Bounded /\ [Next]_vars => Bounded'
<1> SUFFICES ASSUME Typed, Bounded, [Next]_vars PROVE Bounded'
  OBVIOUS
<1>1. ASSUME NEW r \in Requests, Ask(r) PROVE Bounded'
  BY <1>1, ShownIsFresh DEF Ask, cache, Bounded, Valid, AnswersFresh, Longest
<1>2. CASE Enter
  BY <1>2, ShownIsFresh DEF Enter, Look, cache, Bounded, Valid, AnswersFresh, Longest
<1>3. CASE DevicesChange
  BY <1>3 DEF DevicesChange, Bounded, Valid, AnswersFresh
<1>4. CASE UNCHANGED vars
  BY <1>4 DEF vars, cache, Bounded, Valid, AnswersFresh, Longest
<1> QED
  BY <1>1, <1>2, <1>3, <1>4, EndBounded, TickBounded DEF Next

\* Whatever is shown was true upstream not longer ago than it may be kept
\* plus the time of a fetch, whoever asked for it and however often a 304
\* renewed it.
THEOREM AnswersAreFresh == Spec => []AnswersFresh
<1>1. Bounded => AnswersFresh
  BY DEF Bounded
<1> QED
  BY <1>1, InitBounded, StepBounded, AlwaysTyped, PTL DEF Spec

-----------------------------------------------------------------------------
(***************************************************************************)
(* How often an upstream is asked.                                         *)
(***************************************************************************)
\* While the upstream is to be left alone, there is something to answer with.
Answerable ==
    quiet > 0 => \/ payload # Null /\ quiet <= valid
                 \/ quiet <= error /\ view \notin {"history", "radar"}

LEMMA AnswerableIsCached == Typed /\ Answerable /\ quiet > 0 => Cached # Null
<1> SUFFICES ASSUME Typed, Answerable, quiet > 0 PROVE Cached # Null
  OBVIOUS
<1>1. view \in Views /\ quiet \in Nat /\ valid \in Nat /\ error \in Nat
  BY Lifetimes DEF Typed, CacheOK, AnswerOK
<1>2. Valid \/ (error > 0 /\ view \notin {"history", "radar"})
  BY <1>1 DEF Answerable, Valid
<1>3. [kind |-> "error"] # Null
  BY NullAssumption DEF Answers
<1>4. Valid => Shown # Null
  BY NullAssumption DEF Valid, Shown, Answers, Typed, CacheOK
<1> QED
  BY <1>1, <1>2, <1>3, <1>4
     DEF Cached, CachedSnapshot, CachedHistory, CachedForecast, CachedFrames,
         CachedBoard, CachedAdmins, Views

LEMMA StepAnswerable == Typed /\ Answerable /\ [Next]_vars => Answerable'
<1> SUFFICES ASSUME Typed, Answerable, [Next]_vars PROVE Answerable'
  OBVIOUS
<1>1. CASE FetchEnds
  <2>1. UNCHANGED view /\ (Keeps \/ Errs \/ Raises)
    BY <1>1, EndsSomehow
  <2>2. CASE Keeps
    <3>1. payload' # Null
      BY <2>2, NullAssumption DEF Keeps
    <3>2. quiet' <= valid'
      BY <2>2, Lifetimes DEF Keeps, Typed, CacheOK
    <3> QED
      BY <3>1, <3>2 DEF Answerable
  <2>3. CASE Errs
    <3>1. error' \in Nat
      BY <2>3, Lifetimes DEF Errs, Typed, CacheOK
    <3> QED
      BY <2>1, <2>3, <3>1 DEF Errs, Answerable
  <2>4. CASE Raises
    BY <2>4 DEF Raises, Answerable
  <2> QED
    BY <2>1, <2>2, <2>3, <2>4
<1>2. CASE Tick
  <2>1. view \in Views /\ quiet \in Nat /\ valid \in Nat /\ error \in Nat
    BY Lifetimes DEF Typed, CacheOK, AnswerOK
  <2>2. payload # Null => payload' # Null
    BY <1>2, TickKeepsPayload
  <2> QED
    BY <1>2, <2>1, <2>2 DEF Tick, Less, Answerable
<1>3. CASE (\E r \in Requests : Ask(r)) \/ Enter \/ UNCHANGED vars
  BY <1>3 DEF Ask, Enter, vars, cache, Answerable
<1>4. CASE DevicesChange
  BY <1>4 DEF DevicesChange, Answerable
<1> QED
  BY <1>1, <1>2, <1>3, <1>4 DEF Next

\* No upstream is asked again while its last answer, or the error of a view
\* that keeps errors, is still to be shown, however many requests waited.
THEOREM UpstreamsAreSpared == Spec => NotHammered
<1>1. Init => Answerable
  BY DEF Init, Answerable
<1>2. Typed /\ Answerable /\ [Next]_vars => (fetch = Null /\ fetch' # Null => quiet = 0)
  <2> SUFFICES ASSUME Typed, Answerable, [Next]_vars, fetch = Null, fetch' # Null
               PROVE  quiet = 0
    OBVIOUS
  <2>1. Enter
    BY EndsSomehow DEF Next, Ask, DevicesChange, Tick, vars
  <2>2. Cached = Null
    BY <2>1 DEF Enter, Look
  <2> QED
    BY <2>2, AnswerableIsCached, Lifetimes DEF Typed, CacheOK, AnswerOK
<1> QED
  BY <1>1, <1>2, StepAnswerable, AlwaysTyped, PTL DEF Spec, NotHammered

-----------------------------------------------------------------------------
(***************************************************************************)
(* Which devices are shown.                                                *)
(***************************************************************************)
Current ==
    view = "power" =>
        /\ payload # Null => payload.devices = devices
        /\ fetch # Null => fetch.devices = devices
        /\ answer # Null /\ answer.kind = "payload" => answer.is.devices = devices

LEMMA InitCurrent == Init => Current
BY DEF Init, Current

LEMMA EndCurrent == Typed /\ Current /\ FetchEnds => Current'
<1> SUFFICES ASSUME Typed, Current, FetchEnds, view' = "power" PROVE Current'
  BY DEF Current
<1>1. /\ fetch # Null /\ fetch' = Null /\ UNCHANGED <<view, devices>>
      /\ Keeps \/ Errs \/ Raises
  BY EndsSomehow
<1>2. CASE SnapshotComes
  <2>1. PICK p \in Got : Kept("power", p, Ttl["power"])
    BY <1>2 DEF SnapshotComes
  <2>2. p.devices = fetch.devices
    BY <2>1, GotTyped DEF Typed, CacheOK
  <2> QED
    BY <1>1, <2>1, <2>2 DEF Kept, Ended, Current
<1>3. CASE SnapshotFails \/ SnapshotRaises
  BY <1>1, <1>3 DEF SnapshotFails, SnapshotRaises, Failed, Raised, Ended, cache, Current
<1> QED
  BY <1>1, <1>2, <1>3
     DEF FetchEnds, PowerEnds, WeatherEnds, OtherEnds, HistoryComes, HistoryFails,
         ForecastComes, ForecastStands, ForecastMissing, ForecastFails, FramesCome,
         FramesFail, BoardComes, BoardFails, AdminsCome, AdminsFail, AdminsRaise,
         Kept, Failed, Raised, Ended

LEMMA StepCurrent == ~ResetMidFetch /\ Typed /\ Current /\ [Next]_vars => Current'
<1> SUFFICES ASSUME ~ResetMidFetch, Typed, Current, [Next]_vars PROVE Current'
  OBVIOUS
<1>1. ASSUME Cached # Null, answer' = Cached, UNCHANGED <<view, devices, cache>>,
             fetch' = fetch
      PROVE  Current'
  BY <1>1, CachedTyped DEF Current, cache, Typed, Valid
<1>2. ASSUME NEW r \in Requests, Ask(r) PROVE Current'
  BY <1>1, <1>2 DEF Ask, Current, cache
<1>3. CASE Enter
  BY <1>1, <1>3 DEF Enter, Look, Current, cache
<1>4. CASE DevicesChange
  BY <1>4 DEF DevicesChange, Current
<1>5. CASE Tick
  <2>1. payload' # Null => payload # Null /\ payload'.devices = payload.devices
    BY <1>5 DEF Tick, Typed, CacheOK, Payloads
  <2>2. fetch' # Null => fetch # Null /\ fetch'.devices = fetch.devices
    BY <1>5 DEF Tick, Typed, FetchOK
  <2> QED
    BY <1>5, <2>1, <2>2 DEF Tick, Current
<1>6. CASE UNCHANGED vars
  BY <1>6 DEF vars, cache, Current
<1> QED
  BY <1>2, <1>3, <1>4, <1>5, <1>6, EndCurrent DEF Next

\* When devices change only between fetches, the power view never shows
\* another choice of devices than the configured one.
THEOREM DevicesAreCurrent == ~ResetMidFetch => (Spec => []DevicesCurrent)
<1>1. Current => DevicesCurrent
  BY DEF Current, DevicesCurrent
<1> SUFFICES ASSUME ~ResetMidFetch PROVE Spec => []DevicesCurrent
  OBVIOUS
<1>2. Typed /\ Current /\ [Next]_vars => Current'
  BY StepCurrent
<1> QED
  BY <1>1, <1>2, InitCurrent, AlwaysTyped, PTL DEF Spec
=============================================================================
