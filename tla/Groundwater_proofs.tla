-------------------------- MODULE Groundwater_proofs --------------------------
(***************************************************************************)
(* Proofs about the groundwater stations: type correctness, that a status  *)
(* without an error has stations to show, and that scrapes keep their      *)
(* distance whatever callers, crashes and the clock do.                    *)
(***************************************************************************)
EXTENDS Groundwater, TLAPS

-----------------------------------------------------------------------------
(***************************************************************************)
(* Type correctness.                                                       *)
(***************************************************************************)
WorldOK == offered \subseteq Stations /\ events \in 0..MaxEvents /\ scraped \in 0..Horizon
TablesOK ==
    /\ stations \subseteq Stations /\ fresh \subseteq stations
    /\ history \in [Stations -> Coverage] /\ failed \in BOOLEAN
\* So far the clock was set back by no more than this.
Earliest == 0 - MaxBack * events
MomentOK == moment \in [Callers -> Earliest..MaxRun]
ClockOK ==
    /\ refreshed \in (Earliest..Horizon) \cup {Null}
    /\ backfilled \in (Earliest..Horizon) \cup {Null}
    /\ MomentOK
PhaseOK ==
    /\ phase \in [Callers -> {"off", "earlier", "refresh", "scrape", "history", "walk"}]
    /\ phase["view"] \in {"off", "refresh", "scrape"}
CallersOK ==
    /\ PhaseOK
    /\ walk \in [todo : SUBSET Stations, errors : 0..MAX_CONSECUTIVE_ERRORS]
Typed == WorldOK /\ TablesOK /\ ClockOK /\ CallersOK

LEMMA Bounds ==
    /\ MaxRun \in Nat /\ MaxBack \in Nat /\ MaxEvents \in Nat
    /\ REFRESH_INTERVAL \in Nat /\ ERROR_RETRY \in Nat
    /\ MaxBack * MaxEvents \in Nat
    /\ Horizon \in Nat /\ MaxRun <= Horizon /\ REFRESH_INTERVAL <= Horizon
<1>1. MaxBack * MaxEvents \in Nat
  BY GroundwaterAssumption
<1> QED
  BY <1>1, GroundwaterAssumption DEF Horizon

LEMMA EarliestBounds ==
    ASSUME events \in 0..MaxEvents
    PROVE  /\ Earliest \in Int /\ Earliest <= 0
           /\ 0 - MaxBack * MaxEvents <= Earliest
           /\ events' = events => Earliest' = Earliest
           /\ events' = events + 1 =>
                Earliest' \in Int /\ Earliest' = Earliest - MaxBack
<1>1. \A a, b, c \in Nat : b <= c => a * b \in Nat /\ a * b <= a * c
  OBVIOUS
<1>2. \A a, b \in Nat : a * (b + 1) = a * b + a
  OBVIOUS
<1>3. MaxBack \in Nat /\ events \in Nat /\ MaxEvents \in Nat
  BY Bounds
<1>4. MaxBack * events \in Nat /\ MaxBack * events <= MaxBack * MaxEvents
  BY <1>1, <1>3
<1>5. MaxBack * (events + 1) = MaxBack * events + MaxBack
  BY <1>2, <1>3
<1>6. ASSUME events' = events + 1
      PROVE  Earliest' \in Int /\ Earliest' = Earliest - MaxBack
  <2>1. Earliest' = 0 - MaxBack * (events + 1)
    BY <1>6 DEF Earliest
  <2> QED
    BY <1>3, <1>4, <1>5, <2>1 DEF Earliest
<1>7. MaxBack * MaxEvents \in Nat
  BY Bounds
<1>8. Earliest \in Int /\ Earliest <= 0 /\ 0 - MaxBack * MaxEvents <= Earliest
  BY <1>4, <1>7 DEF Earliest
<1> QED
  BY <1>6, <1>8 DEF Earliest

LEMMA TypedIsTypeOK == Typed => TypeOK
<1> SUFFICES ASSUME Typed PROVE TypeOK
  OBVIOUS
<1>1. Earliest..Horizon \subseteq Ages /\ Earliest..MaxRun \subseteq Ages
  BY Bounds, EarliestBounds DEF Ages, Typed, WorldOK
<1>2. moment \in [Callers -> Ages]
  BY <1>1 DEF Typed, ClockOK, MomentOK
<1> QED
  BY <1>1, <1>2 DEF Typed, WorldOK, TablesOK, ClockOK, MomentOK, CallersOK, PhaseOK, TypeOK

LEMMA InitTyped == Init => Typed
<1> SUFFICES ASSUME Init PROVE Typed
  OBVIOUS
<1>1. WorldOK
  BY Bounds DEF Init, WorldOK
<1>2. 0 \in Earliest..MaxRun
  BY <1>1, Bounds, EarliestBounds DEF WorldOK
<1>3. ClockOK
  BY <1>2 DEF Init, ClockOK, MomentOK
<1>4. TablesOK
  BY DEF Init, TablesOK, Coverage
<1>5. CallersOK
  <2>1. NoWalk \in [todo : SUBSET Stations, errors : 0..MAX_CONSECUTIVE_ERRORS]
    BY GroundwaterAssumption DEF NoWalk
  <2> QED
    BY <2>1 DEF Init, CallersOK, PhaseOK, Callers
<1> QED
  BY <1>1, <1>3, <1>4, <1>5 DEF Typed

\* Steps that leave a part alone.
LEMMA KeptTyped ==
    /\ WorldOK /\ UNCHANGED <<offered, events, scraped>> => WorldOK'
    /\ TablesOK /\ UNCHANGED <<stations, fresh, history, failed>> => TablesOK'
    /\ ClockOK /\ UNCHANGED <<events, refreshed, backfilled, moment>> => ClockOK'
    /\ CallersOK /\ UNCHANGED <<phase, walk>> => CallersOK'
BY DEF WorldOK, TablesOK, ClockOK, MomentOK, CallersOK, PhaseOK, Earliest, Horizon

LEMMA EventTyped ==
    ASSUME Typed, Event \/ UNCHANGED events
    PROVE  /\ events' \in 0..MaxEvents
           /\ Earliest' \in Int /\ Earliest' <= Earliest
           /\ ClockOK /\ UNCHANGED <<refreshed, backfilled, moment>> => ClockOK'
<1>1. events' \in 0..MaxEvents
  BY Bounds DEF Typed, WorldOK, Event
<1>2. Earliest' \in Int /\ Earliest' <= Earliest
  BY Bounds, EarliestBounds DEF Typed, WorldOK, Event
<1>3. Earliest..Horizon \subseteq Earliest'..Horizon /\ Earliest..MaxRun \subseteq Earliest'..MaxRun
  BY <1>2, Bounds, EarliestBounds DEF Typed, WorldOK
<1> QED
  BY <1>1, <1>2, <1>3 DEF ClockOK, MomentOK, Horizon

\* A caller goes on.
LEMMA SyncGoesTyped ==
    ASSUME Typed, Event \/ UNCHANGED events,
           NEW p \in {"off", "earlier", "refresh", "scrape", "history", "walk"},
           Goes("sync", p)
    PROVE  PhaseOK' /\ MomentOK'
<1>1. Earliest' \in Int /\ Earliest' <= Earliest /\ Earliest <= 0 /\ Earliest \in Int
  BY EventTyped, EarliestBounds DEF Typed, WorldOK
<1>2. \A d \in Callers : moment'[d] \in {0, moment[d]}
  BY DEF Goes, Typed, ClockOK, MomentOK
<1>3. \A d \in Callers : moment'[d] \in Earliest'..MaxRun
  BY <1>1, <1>2, Bounds DEF Typed, ClockOK, MomentOK
<1>4. MomentOK'
  BY <1>3 DEF Goes, Typed, ClockOK, MomentOK
<1>5. PhaseOK'
  BY DEF Goes, Typed, CallersOK, PhaseOK, Callers
<1> QED
  BY <1>4, <1>5

LEMMA ViewGoesTyped ==
    ASSUME Typed, Event \/ UNCHANGED events,
           NEW p \in {"off", "refresh", "scrape"}, Goes("view", p)
    PROVE  PhaseOK' /\ MomentOK'
<1>1. Earliest' \in Int /\ Earliest' <= Earliest /\ Earliest <= 0 /\ Earliest \in Int
  BY EventTyped, EarliestBounds DEF Typed, WorldOK
<1>2. \A d \in Callers : moment'[d] \in {0, moment[d]}
  BY DEF Goes, Typed, ClockOK, MomentOK
<1>3. \A d \in Callers : moment'[d] \in Earliest'..MaxRun
  BY <1>1, <1>2, Bounds DEF Typed, ClockOK, MomentOK
<1>4. MomentOK'
  BY <1>3 DEF Goes, Typed, ClockOK, MomentOK
<1>5. PhaseOK'
  BY DEF Goes, Typed, CallersOK, PhaseOK, Callers
<1> QED
  BY <1>4, <1>5

LEMMA DoneTyped ==
    ASSUME Typed, Event \/ UNCHANGED events, NEW c \in Callers, Goes(c, Done(c))
    PROVE  PhaseOK' /\ MomentOK'
<1>1. CASE c = "sync"
  <2>1. Goes("sync", "history")
    BY <1>1 DEF Done
  <2> QED
    BY <2>1, SyncGoesTyped
<1>2. CASE c = "view"
  <2>1. Goes("view", "off")
    BY <1>2 DEF Done
  <2> QED
    BY <2>1, ViewGoesTyped
<1> QED
  BY <1>1, <1>2 DEF Callers

LEMMA GateTyped ==
    ASSUME Typed, SyncBegins \/ SyncReaches \/ ViewAsks \/ \E c \in Callers : Acquire(c)
    PROVE  Typed'
<1>1. UNCHANGED <<offered, tables, walk, events>> /\ scraped' \in {0, scraped}
  BY DEF SyncBegins, SyncReaches, ViewAsks, Acquire
<1>2. PhaseOK' /\ MomentOK'
  <2>1. CASE SyncBegins
    BY <2>1, SyncGoesTyped DEF SyncBegins
  <2>2. CASE SyncReaches
    BY <2>2, SyncGoesTyped DEF SyncReaches
  <2>3. CASE ViewAsks
    BY <2>3, ViewGoesTyped DEF ViewAsks
  <2>4. ASSUME NEW c \in Callers, Acquire(c) PROVE PhaseOK' /\ MomentOK'
    <3>1. UNCHANGED events
      BY <1>1
    <3>2. CASE Goes(c, Done(c))
      BY <3>1, <3>2, DoneTyped
    <3>3. CASE Goes(c, "scrape")
      BY <3>1, <3>3, SyncGoesTyped, ViewGoesTyped DEF Callers
    <3> QED
      BY <2>4, <3>2, <3>3 DEF Acquire
  <2> QED
    BY <2>1, <2>2, <2>3, <2>4
<1>3. WorldOK' /\ TablesOK'
  BY <1>1, Bounds DEF tables, Typed, WorldOK, TablesOK, Horizon
<1> QED
  BY <1>1, <1>2, <1>3 DEF tables, Typed, ClockOK, MomentOK, CallersOK, PhaseOK, Earliest, Horizon

\* What a page yields, and what becomes of the readings.
LEMMA ReadTyped ==
    ASSUME Typed, NEW blank \in Blanks
    PROVE  Read(blank) \in SUBSET Stations
BY DEF Read, Typed, WorldOK

LEMMA FiledTyped ==
    ASSUME Typed, NEW valued, NEW grown \in BOOLEAN
    PROVE  Filed(valued, grown) \in [Stations -> Coverage]
BY DEF Filed, Coverage, Typed, TablesOK

LEMMA StoreTyped ==
    ASSUME Typed, NEW c \in Callers, NEW list \in SUBSET Stations, Usable(list),
           NEW steps \in 1..3, Store(c, list, steps)
    PROVE  /\ TablesOK' /\ stations' # {}
           /\ refreshed' \in {refreshed, moment[c]} /\ backfilled' = backfilled
           /\ UNCHANGED offered
           /\ steps = 3 => refreshed' = moment[c] /\ failed' = FALSE
           /\ steps # 3 => UNCHANGED <<refreshed, failed>>
<1>1. stations' = list /\ fresh' = list /\ list # {}
  BY DEF Store, Replaced, Usable
<1>2. history' \in [Stations -> Coverage]
  <2>1. CASE steps >= 2
    BY <2>1, FiledTyped DEF Store
  <2>2. CASE ~(steps >= 2)
    BY <2>2 DEF Store, Typed, TablesOK
  <2> QED
    BY <2>1, <2>2
<1>3. /\ steps = 3 => refreshed' = moment[c] /\ failed' = FALSE
      /\ steps # 3 => UNCHANGED <<refreshed, failed>>
      /\ UNCHANGED <<backfilled, offered>>
  BY DEF Store, SetStatus
<1> QED
  BY <1>1, <1>2, <1>3 DEF Typed, TablesOK

LEMMA MomentIsAge ==
    ASSUME Typed, NEW c \in Callers
    PROVE  moment[c] \in Earliest..Horizon /\ moment[c] <= MaxRun
BY Bounds, EarliestBounds DEF Typed, WorldOK, ClockOK, MomentOK

LEMMA ScrapeTyped ==
    ASSUME Typed, NEW c \in Callers, ScrapeFails(c) \/ ScrapeReads(c)
    PROVE  Typed'
<1>1. CASE ScrapeFails(c)
  <2>1. Event \/ UNCHANGED events
    BY <1>1 DEF ScrapeFails
  <2>2. Goes(c, Done(c)) /\ refreshed' = moment[c] /\ failed' = TRUE
        /\ UNCHANGED <<offered, stations, fresh, history, backfilled, walk, scraped>>
    BY <1>1 DEF ScrapeFails, SetStatus
  <2>3. CallersOK' /\ MomentOK'
    BY <2>1, <2>2, DoneTyped DEF CallersOK, PhaseOK, Typed
  <2>4. refreshed' \in Earliest'..Horizon /\ backfilled' \in (Earliest'..Horizon) \cup {Null}
    BY <2>1, <2>2, Bounds, EventTyped, EarliestBounds, MomentIsAge
       DEF Typed, WorldOK, ClockOK, MomentOK
  <2>5. WorldOK' /\ TablesOK'
    BY <2>1, <2>2, EventTyped DEF Typed, WorldOK, TablesOK, Horizon
  <2> QED
    BY <2>3, <2>4, <2>5 DEF Typed, ClockOK, MomentOK, Horizon
<1>2. CASE ScrapeReads(c)
  <2>1. Goes(c, Done(c)) /\ UNCHANGED <<walk, scraped, events>>
    BY <1>2 DEF ScrapeReads
  <2>2. PICK blank \in Blanks : Usable(Read(blank)) /\ Store(c, Read(blank), 3)
    BY <1>2 DEF ScrapeReads
  <2>3. TablesOK' /\ refreshed' = moment[c] /\ UNCHANGED <<backfilled, offered>>
    <3>1. Read(blank) \in SUBSET Stations /\ 3 \in 1..3
      BY ReadTyped
    <3> QED
      BY <2>2, <3>1, StoreTyped
  <2>4. CallersOK' /\ MomentOK'
    BY <2>1, DoneTyped DEF CallersOK, PhaseOK, Typed
  <2>5. ClockOK' /\ WorldOK'
    BY <2>1, <2>3, <2>4, MomentIsAge DEF Typed, ClockOK, MomentOK, WorldOK, Earliest, Horizon
  <2> QED
    BY <2>3, <2>4, <2>5 DEF Typed
<1> QED
  BY <1>1, <1>2

LEMMA BackfillTyped ==
    ASSUME Typed,
           BackfillBegins \/ BackfillEnds
             \/ \E s \in Stations : TableRead(s) \/ TableEmpty(s) \/ TableFails(s)
    PROVE  Typed'
<1>0. "sync" \in Callers
  BY DEF Callers
<1>1. CASE BackfillBegins
  <2>1. walk' \in [todo : SUBSET Stations, errors : 0..MAX_CONSECUTIVE_ERRORS]
    <3>1. DueNow \subseteq Stations
      BY DEF DueNow, Due, Typed, TablesOK
    <3>2. walk' = [todo |-> DueNow, errors |-> 0] \/ walk' = walk
      BY <1>1 DEF BackfillBegins
    <3>3. 0 \in 0..MAX_CONSECUTIVE_ERRORS /\ DueNow \in SUBSET Stations
      BY <3>1, GroundwaterAssumption
    <3> QED
      BY <3>2, <3>3 DEF Typed, CallersOK, PhaseOK
  <2>2. Goes("sync", "walk") \/ Goes("sync", "off")
    BY <1>1 DEF BackfillBegins
  <2>3. UNCHANGED <<offered, tables, scraped, events>>
    BY <1>1 DEF BackfillBegins
  <2>4. CallersOK' /\ MomentOK'
    <3>1. CASE Goes("sync", "walk")
      BY <2>1, <2>3, <3>1, SyncGoesTyped DEF CallersOK, PhaseOK
    <3>2. CASE Goes("sync", "off")
      BY <2>1, <2>3, <3>2, SyncGoesTyped DEF CallersOK, PhaseOK
    <3> QED
      BY <2>2, <3>1, <3>2
  <2> QED
    BY <2>3, <2>4, KeptTyped DEF tables, Typed, ClockOK, MomentOK, Earliest, Horizon
<1>2. CASE BackfillEnds
  <2>1. /\ Goes("sync", "off") /\ backfilled' = moment["sync"] /\ walk' = NoWalk
        /\ UNCHANGED <<offered, stations, fresh, history, refreshed, failed, scraped, events>>
    BY <1>2 DEF BackfillEnds
  <2>2. CallersOK' /\ MomentOK'
    <3>1. walk' \in [todo : SUBSET Stations, errors : 0..MAX_CONSECUTIVE_ERRORS]
      BY <2>1, GroundwaterAssumption DEF NoWalk
    <3> QED
      BY <2>1, <3>1, SyncGoesTyped DEF CallersOK, PhaseOK
  <2> QED
    BY <2>1, <2>2, KeptTyped, MomentIsAge DEF Typed, ClockOK, MomentOK, Earliest, Horizon, Callers
<1>3. ASSUME NEW s \in Stations, TableRead(s) PROVE Typed'
  <2>1. history' \in [Stations -> Coverage]
    BY <1>3 DEF TableRead, Coverage, Typed, TablesOK
  <2>2. CallersOK'
    BY <1>3, GroundwaterAssumption DEF TableRead, Typed, CallersOK, PhaseOK
  <2> QED
    BY <1>3, <2>1, <2>2, KeptTyped DEF TableRead, Typed, TablesOK
<1>4. ASSUME NEW s \in Stations, TableEmpty(s) \/ TableFails(s) PROVE Typed'
  <2>1. Event \/ UNCHANGED events
    BY <1>4 DEF TableEmpty, TableFails, Trouble
  <2>2. UNCHANGED <<offered, tables, phase, moment, scraped>>
    BY <1>4 DEF TableEmpty, TableFails
  <2>3. walk' \in [todo : SUBSET Stations, errors : 0..MAX_CONSECUTIVE_ERRORS]
    <3>1. walk \in [todo : SUBSET Stations, errors : 0..MAX_CONSECUTIVE_ERRORS]
          /\ walk.errors < MAX_CONSECUTIVE_ERRORS
      BY <1>4, GroundwaterAssumption
         DEF TableEmpty, TableFails, Fetching, Stops, Typed, CallersOK, PhaseOK
    <3> QED
      BY <1>4, <3>1, GroundwaterAssumption DEF TableEmpty, TableFails
  <2> QED
    BY <2>1, <2>2, <2>3, EventTyped, KeptTyped
       DEF tables, Typed, WorldOK, CallersOK, PhaseOK, Horizon
<1> QED
  BY <1>1, <1>2, <1>3, <1>4

LEMMA OlderTyped ==
    ASSUME Typed, Event \/ UNCHANGED events, NEW by \in Int,
           by >= 0 \/ (by >= 0 - MaxBack /\ events' = events + 1),
           NEW age \in Earliest..Horizon
    PROVE  Older(age, by) \in Earliest'..Horizon /\ Older(age, by) <= age + by
BY Bounds, EarliestBounds, EventTyped DEF Older, Typed, WorldOK

LEMMA ShiftTyped ==
    ASSUME Typed, NEW by \in Int, Shift(by), UNCHANGED phase,
           \/ by = 1 /\ UNCHANGED events
              /\ \A c \in Callers : phase[c] # "off" => moment[c] < MaxRun
           \/ by < 0 /\ by >= 0 - MaxBack /\ Event
    PROVE  ClockOK'
<1>1. Event \/ UNCHANGED events
  OBVIOUS
<1>2. by >= 0 \/ (by >= 0 - MaxBack /\ events' = events + 1)
  BY DEF Event
<1>3. /\ refreshed' \in (Earliest'..Horizon) \cup {Null}
      /\ backfilled' \in (Earliest'..Horizon) \cup {Null}
  BY <1>1, <1>2, OlderTyped DEF Shift, OlderRun, Typed, ClockOK, MomentOK
<1>4. \A c \in Callers : moment'[c] \in Earliest'..MaxRun
  <2> SUFFICES ASSUME NEW c \in Callers PROVE moment'[c] \in Earliest'..MaxRun
    OBVIOUS
  <2>1. CASE phase[c] = "off"
    <3>1. moment'[c] = 0
      BY <2>1 DEF Shift
    <3> QED
      BY <1>1, <3>1, Bounds, EventTyped, EarliestBounds DEF Typed, WorldOK
  <2>2. CASE phase[c] # "off"
    <3>1. moment'[c] = Older(moment[c], by) /\ moment[c] + by <= MaxRun
      BY <2>2, MomentIsAge, Bounds, EarliestBounds DEF Shift, Typed, WorldOK
    <3>2. moment'[c] \in Earliest'..Horizon /\ moment'[c] <= moment[c] + by
      BY <1>1, <1>2, <3>1, MomentIsAge, OlderTyped
    <3>3. moment[c] \in Int
      BY MomentIsAge, EarliestBounds, Bounds DEF Typed, WorldOK
    <3> QED
      BY <1>1, <3>1, <3>2, <3>3, Bounds, EventTyped
  <2> QED
    BY <2>1, <2>2
<1> QED
  BY <1>3, <1>4 DEF Shift, ClockOK, MomentOK, Horizon

LEMMA TickTyped ==
    ASSUME Typed, Tick \/ SetBack
    PROVE  Typed'
<1>1. CASE Tick
  <2>1. ClockOK'
    BY <1>1, ShiftTyped DEF Tick
  <2>2. scraped' \in 0..Horizon
    BY <1>1, Bounds DEF Tick, Older, Typed, WorldOK
  <2> QED
    BY <1>1, <2>1, <2>2, KeptTyped DEF Tick, Typed, WorldOK, Horizon
<1>2. CASE SetBack
  <2>1. PICK by \in 1..MaxBack : Shift(0 - by)
    BY <1>2 DEF SetBack
  <2>2. 0 - by \in Int /\ 0 - by < 0 /\ 0 - by >= 0 - MaxBack
    BY Bounds
  <2>3. ClockOK'
    BY <1>2, <2>1, <2>2, ShiftTyped DEF SetBack
  <2> QED
    BY <1>2, <2>3, KeptTyped, EventTyped DEF SetBack, Typed, WorldOK, Horizon
<1> QED
  BY <1>1, <1>2

LEMMA StoppedTyped ==
    ASSUME Typed, Stopped, Event
    PROVE  CallersOK' /\ MomentOK'
<1>1. 0 \in Earliest'..MaxRun
  BY Bounds, EventTyped, EarliestBounds DEF Typed, WorldOK
<1>2. NoWalk \in [todo : SUBSET Stations, errors : 0..MAX_CONSECUTIVE_ERRORS]
  BY GroundwaterAssumption DEF NoWalk
<1>3. MomentOK'
  BY <1>1 DEF Stopped, MomentOK
<1> QED
  BY <1>2, <1>3 DEF Stopped, CallersOK, PhaseOK, Callers

LEMMA WorldTyped ==
    ASSUME Typed, (\E s \in Stations : Import(s) \/ OfferChanges(s)) \/ Crash \/ Outage
    PROVE  Typed'
<1>1. ASSUME NEW s \in Stations, Import(s) PROVE Typed'
  <2>1. history' \in [Stations -> Coverage]
    BY <1>1 DEF Import, Coverage, Typed, TablesOK
  <2> QED
    BY <1>1, <2>1, KeptTyped, EventTyped
       DEF Import, callers, Typed, WorldOK, TablesOK, Horizon
<1>2. ASSUME NEW s \in Stations, OfferChanges(s) PROVE Typed'
  BY <1>2, KeptTyped, EventTyped DEF OfferChanges, tables, callers, Typed, WorldOK, Horizon
<1>3. CASE Crash
  <2>1. CallersOK' /\ MomentOK'
    BY <1>3, StoppedTyped DEF Crash
  <2>2. Earliest..Horizon \subseteq Earliest'..Horizon
    BY <1>3, Bounds, EventTyped, EarliestBounds DEF Crash, Typed, WorldOK
  <2>3. ClockOK'
    BY <1>3, <2>1, <2>2 DEF Crash, tables, Typed, ClockOK, MomentOK, Horizon
  <2> QED
    BY <1>3, <2>1, <2>3, KeptTyped, EventTyped, Bounds
       DEF Crash, tables, Typed, WorldOK, Horizon
<1>4. CASE Outage
  <2>1. CallersOK' /\ MomentOK'
    BY <1>4, StoppedTyped DEF Outage
  <2>2. /\ refreshed' \in (Earliest'..Horizon) \cup {Null}
        /\ backfilled' \in (Earliest'..Horizon) \cup {Null}
    BY <1>4, OlderTyped, Bounds DEF Outage, OlderRun, Typed, ClockOK, MomentOK
  <2>3. ClockOK'
    BY <2>1, <2>2 DEF ClockOK, MomentOK, Horizon
  <2>4. TablesOK'
    BY <1>4 DEF Outage, Coverage, Typed, TablesOK
  <2> QED
    BY <1>4, <2>1, <2>3, <2>4, EventTyped, Bounds DEF Outage, Typed, WorldOK, Horizon
<1> QED
  BY <1>1, <1>2, <1>3, <1>4

LEMMA CrashWhileStoringTyped ==
    ASSUME Typed, NEW c \in Callers, CrashWhileStoring(c)
    PROVE  Typed'
<1>1. Event /\ Stopped /\ scraped' = Horizon
  BY DEF CrashWhileStoring
<1>2. PICK blank \in Blanks, steps \in {1, 2} :
        Usable(Read(blank)) /\ Store(c, Read(blank), steps)
  BY DEF CrashWhileStoring
<1>3. TablesOK' /\ UNCHANGED <<refreshed, backfilled, offered>>
  <2>1. Read(blank) \in SUBSET Stations /\ steps \in 1..3 /\ steps # 3
    BY ReadTyped
  <2> QED
    BY <1>2, <2>1, StoreTyped
<1>4. CallersOK' /\ MomentOK'
  BY <1>1, StoppedTyped
<1>5. Earliest..Horizon \subseteq Earliest'..Horizon
  BY <1>1, Bounds, EventTyped, EarliestBounds DEF Typed, WorldOK
<1> QED
  BY <1>1, <1>3, <1>4, <1>5, EventTyped, Bounds DEF Typed, ClockOK, MomentOK, WorldOK, Horizon

LEMMA StepTyped == Typed /\ [Next]_vars => Typed'
<1> SUFFICES ASSUME Typed, [Next]_vars PROVE Typed'
  OBVIOUS
<1>1. CASE UNCHANGED vars
  BY <1>1, KeptTyped DEF vars, tables, callers, Typed
<1>2. CASE SyncStep
  BY <1>2, GateTyped, ScrapeTyped, BackfillTyped DEF SyncStep, Callers
<1>3. CASE ViewAsks \/ ViewStep
  BY <1>3, GateTyped, ScrapeTyped DEF ViewStep, Callers
<1>4. CASE World
  BY <1>4, WorldTyped, TickTyped, CrashWhileStoringTyped DEF World
<1> QED
  BY <1>1, <1>2, <1>3, <1>4, TickTyped DEF Next

LEMMA AlwaysTyped == Spec => []Typed
BY InitTyped, StepTyped, PTL DEF Spec

\* Every reachable state is type correct, for every set of stations, every
\* interval and every clock: a backfill never counts more errors than end it,
\* and what counts as fresh is listed.
THEOREM TypeCorrect == Spec => []TypeOK
BY TypedIsTypeOK, AlwaysTyped, PTL

-----------------------------------------------------------------------------
(***************************************************************************)
(* A status without an error has stations.                                 *)
(***************************************************************************)
LEMMA ScrapeHasStations ==
    ASSUME Typed, CleanStatusHasStations, NEW c \in Callers,
           ScrapeFails(c) \/ ScrapeReads(c) \/ CrashWhileStoring(c)
    PROVE  CleanStatusHasStations'
<1>1. CASE ScrapeFails(c)
  BY <1>1 DEF ScrapeFails, SetStatus, CleanStatusHasStations
<1>2. CASE ScrapeReads(c) \/ CrashWhileStoring(c)
  <2>1. PICK blank \in Blanks, steps \in 1..3 :
          Usable(Read(blank)) /\ Store(c, Read(blank), steps)
    BY <1>2 DEF ScrapeReads, CrashWhileStoring
  <2>2. Read(blank) \in SUBSET Stations
    BY ReadTyped
  <2> QED
    BY <2>1, <2>2, StoreTyped DEF CleanStatusHasStations
<1> QED
  BY <1>1, <1>2

LEMMA StepHasStations ==
    Typed /\ CleanStatusHasStations /\ [Next]_vars => CleanStatusHasStations'
<1> SUFFICES ASSUME Typed, CleanStatusHasStations, [Next]_vars
             PROVE  CleanStatusHasStations'
  OBVIOUS
<1>1. CASE \E c \in Callers : ScrapeFails(c) \/ ScrapeReads(c) \/ CrashWhileStoring(c)
  BY <1>1, ScrapeHasStations
<1>2. ASSUME UNCHANGED <<stations, failed>>, refreshed # Null \/ refreshed' = refreshed
      PROVE  CleanStatusHasStations'
  BY <1>2 DEF CleanStatusHasStations
<1>3. CASE Tick \/ SetBack \/ Outage
  BY <1>2, <1>3 DEF Tick, SetBack, Outage, Shift, OlderRun
<1>4. CASE SyncBegins \/ SyncReaches \/ ViewAsks \/ (\E c \in Callers : Acquire(c)) \/ Crash
             \/ UNCHANGED vars
  BY <1>2, <1>4 DEF SyncBegins, SyncReaches, ViewAsks, Acquire, Crash, vars, tables
<1>5. CASE BackfillBegins \/ BackfillEnds
             \/ \E s \in Stations : \/ TableRead(s) \/ TableEmpty(s) \/ TableFails(s)
                                    \/ Import(s) \/ OfferChanges(s)
  BY <1>2, <1>5 DEF BackfillBegins, BackfillEnds, TableRead, TableEmpty, TableFails,
                    Import, OfferChanges, tables
<1> QED
  BY <1>1, <1>3, <1>4, <1>5 DEF Next, SyncStep, ViewStep, World, Callers

\* Whatever fails, dies or is read at once, a status without an error means
\* that there are stations to show.
THEOREM CleanStatusIsTrue == Spec => []CleanStatusHasStations
<1>1. Init => CleanStatusHasStations
  BY DEF Init, CleanStatusHasStations
<1> QED
  BY <1>1, StepHasStations, AlwaysTyped, PTL DEF Spec

-----------------------------------------------------------------------------
(***************************************************************************)
(* The distance of scrapes.                                                *)
(***************************************************************************)
\* Between scrapes the last run is no older than the last scrape and the time
\* its caller took to get there; without one, there was no scrape that ended.
Dated ==
    (\A c \in Callers : phase[c] # "scrape") =>
        IF refreshed = Null THEN scraped = Horizon
                            ELSE scraped = Horizon \/ refreshed <= scraped + MaxRun

LEMMA InitDated == Init => Dated
BY DEF Init, Dated

\* Steps that neither scrape nor touch the clock.
LEMMA KeepsDated ==
    ASSUME Dated, UNCHANGED <<refreshed, scraped>>,
           \A c \in Callers : phase[c] = "scrape" => phase'[c] = "scrape"
    PROVE  Dated'
BY DEF Dated, Horizon

LEMMA ClockDated ==
    ASSUME Typed, Dated, Tick \/ SetBack \/ Outage
    PROVE  Dated'
<1>0. /\ Null \notin Int /\ Horizon' = Horizon /\ scraped \in 0..Horizon
      /\ refreshed \in Int \cup {Null}
  BY GroundwaterAssumption, Bounds, EarliestBounds DEF Typed, WorldOK, ClockOK, Horizon
<1>1. CASE Tick
  <2>1. /\ UNCHANGED phase /\ refreshed' = OlderRun(refreshed, 1)
        /\ scraped' = Older(scraped, 1)
    BY <1>1 DEF Tick, Shift
  <2>2. CASE refreshed = Null
    BY <1>0, <2>1, <2>2, Bounds DEF Dated, OlderRun, Older
  <2>3. CASE refreshed # Null
    BY <1>0, <2>1, <2>3, Bounds DEF Dated, OlderRun, Older
  <2> QED
    BY <2>2, <2>3
<1>2. CASE SetBack
  <2>1. PICK by \in 1..MaxBack : Shift(0 - by)
    BY <1>2 DEF SetBack
  <2>2. UNCHANGED <<phase, scraped>> /\ refreshed' = OlderRun(refreshed, 0 - by)
    BY <1>2, <2>1 DEF SetBack, Shift
  <2> QED
    BY <1>0, <2>2, Bounds DEF Dated, OlderRun, Older
<1>3. CASE Outage
  <2>1. scraped' = Horizon /\ refreshed' = OlderRun(refreshed, Horizon)
    BY <1>3 DEF Outage
  <2> QED
    BY <1>0, <2>1 DEF Dated, OlderRun, Older
<1> QED
  BY <1>1, <1>2, <1>3

LEMMA ScrapeDated ==
    ASSUME Typed, Dated, NEW c \in Callers,
           ScrapeFails(c) \/ ScrapeReads(c) \/ CrashWhileStoring(c)
    PROVE  Dated'
<1>0. Null \notin Int /\ Horizon' = Horizon /\ scraped \in 0..Horizon
  BY GroundwaterAssumption DEF Typed, WorldOK, Horizon
<1>1. CASE ScrapeFails(c) \/ ScrapeReads(c)
  <2>1. refreshed' = moment[c] /\ scraped' = scraped
    BY <1>1 DEF ScrapeFails, ScrapeReads, SetStatus, Store
  <2>2. moment[c] \in Int /\ moment[c] <= MaxRun
    BY MomentIsAge, Bounds, EarliestBounds DEF Typed, WorldOK
  <2> QED
    BY <1>0, <2>1, <2>2, Bounds DEF Dated
<1>2. CASE CrashWhileStoring(c)
  BY <1>0, <1>2 DEF CrashWhileStoring, Dated
<1> QED
  BY <1>1, <1>2

LEMMA StepDated == Typed /\ Dated /\ [Next]_vars => Dated'
<1> SUFFICES ASSUME Typed, Dated, [Next]_vars PROVE Dated'
  OBVIOUS
<1>1. CASE \E c \in Callers : ScrapeFails(c) \/ ScrapeReads(c) \/ CrashWhileStoring(c)
  BY <1>1, ScrapeDated
<1>2. ASSUME NEW c \in Callers, Acquire(c) PROVE Dated'
  <2>1. CASE ~RefreshDue(c)
    <3>1. UNCHANGED <<refreshed, scraped>> /\ phase[c] = "refresh" /\ Goes(c, Done(c))
      BY <1>2, <2>1 DEF Acquire, tables
    <3>2. \A d \in Callers : phase[d] = "scrape" => phase'[d] = "scrape"
      BY <3>1 DEF Goes, Typed, CallersOK, PhaseOK
    <3> QED
      BY <3>1, <3>2, KeepsDated
  <2>2. CASE RefreshDue(c)
    <3>1. phase'[c] = "scrape"
      BY <1>2, <2>2 DEF Acquire, Goes, Typed, CallersOK, PhaseOK
    <3> QED
      BY <3>1 DEF Dated
  <2> QED
    BY <2>1, <2>2
<1>3. CASE SyncBegins \/ SyncReaches \/ ViewAsks \/ BackfillBegins \/ BackfillEnds
  <2>1. UNCHANGED <<refreshed, scraped>>
    BY <1>3 DEF SyncBegins, SyncReaches, ViewAsks, BackfillBegins, BackfillEnds, tables
  <2>2. \A d \in Callers : phase[d] = "scrape" => phase'[d] = "scrape"
    BY <1>3 DEF SyncBegins, SyncReaches, ViewAsks, BackfillBegins, BackfillEnds, Goes,
                Typed, CallersOK, PhaseOK
  <2> QED
    BY <2>1, <2>2, KeepsDated
<1>4. CASE Crash
  <2>1. UNCHANGED refreshed /\ (scraped' = Horizon \/ scraped' = scraped)
        /\ ((\E c \in Callers : phase[c] = "scrape") => scraped' = Horizon)
    BY <1>4 DEF Crash, tables
  <2> QED
    BY <2>1 DEF Dated, Horizon
<1>5. CASE UNCHANGED vars
             \/ \E s \in Stations : \/ TableRead(s) \/ TableEmpty(s) \/ TableFails(s)
                                    \/ Import(s) \/ OfferChanges(s)
  <2>1. UNCHANGED <<refreshed, scraped, phase>>
    BY <1>5 DEF TableRead, TableEmpty, TableFails, Import, OfferChanges, tables,
                callers, vars
  <2> QED
    BY <2>1, KeepsDated
<1> QED
  BY <1>1, <1>2, <1>3, <1>4, <1>5, ClockDated DEF Next, SyncStep, ViewStep, World, Callers

\* Only a caller that has the lock and passed the gate begins a scrape.
LEMMA OnlyAcquireScrapes ==
    ASSUME Typed, [Next]_vars, NEW c \in Callers,
           phase[c] = "refresh", phase'[c] = "scrape"
    PROVE  Acquire(c)
<1>1. phase'[c] # phase[c] /\ phase'[c] # "off" /\ ~(UNCHANGED phase)
  OBVIOUS
<1>2. ASSUME NEW d \in Callers, NEW p, Goes(d, p), p # "scrape" PROVE FALSE
  <2>1. phase' = [phase EXCEPT ![d] = p] /\ phase \in [Callers -> STRING]
    BY <1>2 DEF Goes, Typed, CallersOK, PhaseOK
  <2>2. phase'[c] = phase[c] \/ phase'[c] = p
    BY <2>1
  <2> QED
    BY <1>1, <1>2, <2>2
<1>3. "sync" \in Callers /\ "view" \in Callers
  BY DEF Callers
<1>4. \A d \in Callers : Done(d) # "scrape"
  BY DEF Done
<1>5. ~SyncBegins /\ ~SyncReaches /\ ~ViewAsks
  <2>1. ~Goes("sync", "earlier") /\ ~Goes("sync", "refresh") /\ ~Goes("view", "refresh")
    BY <1>2, <1>3
  <2> QED
    BY <2>1 DEF SyncBegins, SyncReaches, ViewAsks
<1>6. \A d \in Callers : ~ScrapeReads(d) /\ ~ScrapeFails(d)
  <2>1. \A d \in Callers : ~Goes(d, Done(d))
    BY <1>2, <1>4
  <2> QED
    BY <2>1 DEF ScrapeReads, ScrapeFails
<1>7. ~BackfillBegins /\ ~BackfillEnds
  <2>1. ~Goes("sync", "walk") /\ ~Goes("sync", "off")
    BY <1>2, <1>3
  <2> QED
    BY <2>1 DEF BackfillBegins, BackfillEnds
<1>8. /\ \A s \in Stations : /\ ~TableRead(s) /\ ~TableEmpty(s) /\ ~TableFails(s)
                             /\ ~Import(s) /\ ~OfferChanges(s)
      /\ ~Tick /\ ~SetBack /\ ~(UNCHANGED vars)
  BY <1>1 DEF TableRead, TableEmpty, TableFails, Import, OfferChanges, Tick, SetBack,
              vars, callers
<1>9. ~Crash /\ ~Outage /\ \A d \in Callers : ~CrashWhileStoring(d)
  BY <1>1 DEF Crash, Outage, CrashWhileStoring, Stopped
<1>10. \A d \in Callers : Acquire(d) => d = c
  <2> SUFFICES ASSUME NEW d \in Callers, Acquire(d), d # c PROVE FALSE
    OBVIOUS
  <2>1. PICK p : Goes(d, p)
    BY DEF Acquire
  <2>2. phase' = [phase EXCEPT ![d] = p] /\ phase \in [Callers -> STRING]
    BY <2>1 DEF Goes, Typed, CallersOK, PhaseOK
  <2> QED
    BY <1>1, <2>2
<1> QED
  BY <1>3, <1>5, <1>6, <1>7, <1>8, <1>9, <1>10 DEF Next, SyncStep, ViewStep, World

\* Two scrapes keep the interval, less the time a caller may take, for every
\* interval and every clock, whoever asks for them and whatever comes between.
THEOREM ScrapesAreApart == Spec => PoliteScrape
<1>1. ASSUME Typed, Dated, [Next]_vars, NEW c \in Callers,
             phase[c] = "refresh", phase'[c] = "scrape", moment[c] >= 0
      PROVE  scraped + MaxRun >= IF failed THEN ERROR_RETRY ELSE REFRESH_INTERVAL
  <2>1. Acquire(c) /\ RefreshDue(c)
    <3>1. Acquire(c)
      BY <1>1, OnlyAcquireScrapes
    <3>2. Done(c) # "scrape"
      BY DEF Done
    <3> QED
      BY <1>1, <3>1, <3>2 DEF Acquire, Goes, Typed, CallersOK, PhaseOK
  <2>2. \A d \in Callers : phase[d] # "scrape"
    BY <2>1 DEF Acquire
  <2>3. CASE scraped = Horizon
    BY <2>3, Bounds, GroundwaterAssumption
  <2>4. CASE scraped # Horizon
    <3>1. refreshed # Null /\ refreshed <= scraped + MaxRun
      BY <1>1, <2>2, <2>4 DEF Dated
    <3>2. refreshed \in Int /\ moment[c] \in Int /\ scraped \in Int
      BY <1>1, <3>1, MomentIsAge, Bounds, EarliestBounds DEF Typed, WorldOK, ClockOK
    <3>3. refreshed - moment[c] >= IF failed THEN ERROR_RETRY ELSE REFRESH_INTERVAL
      BY <2>1, <3>1 DEF RefreshDue
    <3> QED
      BY <1>1, <3>1, <3>2, <3>3, Bounds
  <2> QED
    BY <2>3, <2>4
<1>2. Typed /\ Dated /\ [Next]_vars =>
        \A c \in Callers :
          phase[c] = "refresh" /\ phase'[c] = "scrape" /\ moment[c] >= 0
             => scraped + MaxRun >= IF failed THEN ERROR_RETRY ELSE REFRESH_INTERVAL
  BY <1>1
<1> QED
  BY <1>2, InitDated, StepDated, AlwaysTyped, PTL DEF Spec, PoliteScrape
=============================================================================
