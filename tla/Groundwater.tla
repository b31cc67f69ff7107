----------------------------- MODULE Groundwater -----------------------------
(***************************************************************************)
(* The groundwater stations and their history (app/groundwater.py,         *)
(* app/groundwater_history.py, app/groundwater_import.py and the tables    *)
(* they keep in app/storage.py).                                           *)
(*                                                                         *)
(* The periodic sync and the stations page of the kiosk both refetch the   *)
(* station list when it is due, one at a time; the sync then fills in the  *)
(* history of stations that lack it.  Both gates compare a moment that     *)
(* their caller took from the clock when it began, maybe long before, with *)
(* a moment that is kept in the database.                                  *)
(*                                                                         *)
(* Time is kept as ages: how long ago, by the clock, a moment was.  A tick *)
(* makes every age one hour older, setting the clock back makes them all   *)
(* younger, below zero for moments that now lie in the future.             *)
(***************************************************************************)
EXTENDS Integers, FiniteSets

CONSTANTS
    Stations,        \* station numbers
    Deep,            \* those on the page of the deep tier, not of the upper
    Broken,          \* stations whose table page never yields a value
    Null,
    REFRESH_INTERVAL, ERROR_RETRY, BACKFILL_INTERVAL,
    MAX_CONSECUTIVE_ERRORS, MAX_STATIONS_PER_RUN,
    MaxRun,          \* hours a caller may take from its moment to its end
    MaxBack,         \* bound on how far the clock is set back at once
    MaxEvents,       \* bound on what world and machine do
    CanBlank         \* may a page arrive without its station array?

ASSUME GroundwaterAssumption ==
    /\ Stations \subseteq Nat /\ IsFiniteSet(Stations)
    /\ Deep \subseteq Stations /\ Broken \subseteq Stations
    /\ {REFRESH_INTERVAL, ERROR_RETRY, BACKFILL_INTERVAL} \subseteq Nat
    /\ {MAX_CONSECUTIVE_ERRORS, MAX_STATIONS_PER_RUN} \subseteq Nat \ {0}
    /\ MaxRun \in Nat /\ MaxBack \in Nat /\ MaxEvents \in Nat
    /\ ERROR_RETRY <= REFRESH_INTERVAL /\ BACKFILL_INTERVAL <= REFRESH_INTERVAL
    /\ CanBlank \in BOOLEAN
    /\ Null \notin Int

VARIABLES
    offered,     \* stations the authority lists now
    stations,    \* numbers in groundwater_stations
    fresh,       \* those of them whose measured_at is not stale
    history,     \* what groundwater_readings covers of each station
    refreshed,   \* age of groundwater_status' last_run
    failed,      \* groundwater_status holds an error
    backfilled,  \* age of groundwater_history_status' last_run
    phase,       \* where each caller is
    moment,      \* age of each caller's moment
    walk,        \* the backfill under way: stations left, errors in a row
    scraped,     \* hours since the last scrape began
    events       \* what world and machine did so far

tables == <<stations, fresh, history, refreshed, failed, backfilled>>
callers == <<phase, moment, walk>>
vars == <<offered, tables, callers, scraped, events>>

Callers == {"sync", "view"}

\* Coverage of a station's readings: none; a period shorter than
\* MIN_HISTORY_SPAN_DAYS; longer; longer, but ending more than GAP_DAYS ago;
\* longer and recent, with a gap of more than GAP_DAYS inside.
Coverage == {"none", "short", "full", "gap", "hole"}

\* Ages beyond this are all alike to the gates, however the clock is set back.
Horizon == REFRESH_INTERVAL + MaxRun + MaxBack * MaxEvents
Ages == (0 - MaxBack * MaxEvents)..Horizon
NoWalk == [todo |-> {}, errors |-> 0]

TypeOK ==
    /\ offered \subseteq Stations
    /\ stations \subseteq Stations /\ fresh \subseteq stations
    /\ history \in [Stations -> Coverage]
    /\ refreshed \in Ages \cup {Null} /\ failed \in BOOLEAN
    /\ backfilled \in Ages \cup {Null}
    /\ phase \in [Callers -> {"off", "earlier", "refresh", "scrape", "history", "walk"}]
    /\ phase["view"] \in {"off", "refresh", "scrape"}
    /\ moment \in [Callers -> Ages]
    /\ walk \in [todo : SUBSET Stations, errors : 0..MAX_CONSECUTIVE_ERRORS]
    /\ scraped \in 0..Horizon
    /\ events \in 0..MaxEvents

Init ==
    /\ offered = Stations
    /\ stations = {} /\ fresh = {} /\ history = [s \in Stations |-> "none"]
    /\ refreshed = Null /\ failed = FALSE /\ backfilled = Null
    /\ phase = [c \in Callers |-> "off"] /\ moment = [c \in Callers |-> 0]
    /\ walk = NoWalk /\ scraped = Horizon /\ events = 0

Event == events < MaxEvents /\ events' = events + 1

Goes(c, p) ==
    /\ phase' = [phase EXCEPT ![c] = p]
    /\ moment' = [moment EXCEPT ![c] = IF p = "off" THEN 0 ELSE @]
-----------------------------------------------------------------------------
\* The station list.

\* _refresh_due at the caller's moment; a last run in the future waits.
MutDueWhenEmpty(c) ==
    refreshed # Null /\ stations # {} =>
        refreshed - moment[c] >= IF failed THEN ERROR_RETRY ELSE REFRESH_INTERVAL
MutNoRetry(c) == refreshed # Null => ~failed /\ refreshed - moment[c] >= REFRESH_INTERVAL
RefreshDue(c) ==
    refreshed # Null =>
        refreshed - moment[c] >= IF failed THEN ERROR_RETRY ELSE REFRESH_INTERVAL

SyncBegins ==
    /\ phase["sync"] = "off"
    /\ Goes("sync", "earlier")
    /\ UNCHANGED <<offered, tables, walk, scraped, events>>

\* The calendar stages of the run are over: refresh_stations is called.
SyncReaches ==
    /\ phase["sync"] = "earlier" /\ Goes("sync", "refresh")
    /\ UNCHANGED <<offered, tables, walk, scraped, events>>

ViewAsks ==
    /\ phase["view"] = "off"
    /\ Goes("view", "refresh")
    /\ UNCHANGED <<offered, tables, walk, scraped, events>>

Done(c) == IF c = "sync" THEN "history" ELSE "off"

\* With _refresh_lock held, the gate is asked.
Acquire(c) ==
    /\ phase[c] = "refresh" /\ \A d \in Callers : phase[d] # "scrape"
    /\ \/ RefreshDue(c) /\ Goes(c, "scrape") /\ scraped' = 0
       \/ ~RefreshDue(c) /\ Goes(c, Done(c)) /\ UNCHANGED scraped
    /\ UNCHANGED <<offered, tables, walk, events>>

SetStatus(c, error) == refreshed' = moment[c] /\ failed' = error

\* The stations that fetch_stations reads from the pages that carry an array;
\* without any it raises.
Read(blank) == {s \in offered : (IF s \in Deep THEN "deep" ELSE "upper") \notin blank}
Blanks == SUBSET (IF CanBlank THEN {"deep", "upper"} ELSE {})
MutUsable(list) == TRUE
Usable(list) == list # {}

ScrapeFails(c) ==
    /\ phase[c] = "scrape" /\ Goes(c, Done(c)) /\ SetStatus(c, TRUE)
    /\ \/ Event
       \/ (\E blank \in Blanks : ~Usable(Read(blank))) /\ UNCHANGED events
    /\ UNCHANGED <<offered, stations, fresh, history, backfilled, walk, scraped>>

\* replace_groundwater_stations.
Replaced(list) == IF list = {} THEN stations ELSE list

\* add_groundwater_readings of the current value of the stations that have
\* one: in time it makes a short history a month long; it ends a gap that
\* reached until today, without filling it.
Filed(valued, grown) ==
    [s \in Stations |->
        CASE s \in valued /\ history[s] = "none" -> "short"
          [] s \in valued /\ history[s] = "short" /\ grown -> "full"
          [] s \in valued /\ history[s] = "gap" -> "hole"
          [] OTHER -> history[s]]

\* The list is stored, the readings are filed and the status is set, each in
\* a transaction of its own: the first so many of the three.
Store(c, list, steps) ==
    /\ stations' = Replaced(list)
    /\ fresh' = IF list = {} THEN fresh ELSE list
    /\ \/ steps >= 2 /\ \E valued \in {{}, list}, grown \in BOOLEAN :
                            history' = Filed(valued, grown)
       \/ steps < 2 /\ UNCHANGED history
    /\ \/ steps = 3 /\ SetStatus(c, FALSE)
       \/ steps < 3 /\ UNCHANGED <<refreshed, failed>>
    /\ UNCHANGED <<offered, backfilled>>

ScrapeReads(c) ==
    /\ phase[c] = "scrape" /\ Goes(c, Done(c))
    /\ \E blank \in Blanks : Usable(Read(blank)) /\ Store(c, Read(blank), 3)
    /\ UNCHANGED <<walk, scraped, events>>
-----------------------------------------------------------------------------
\* The history.

MutByCount(s) == s \in fresh /\ history[s] \in {"none", "gap"}
NeedsHistory(s) == s \in fresh /\ history[s] \in {"none", "short", "gap"}

\* The first stations, by number, that want their table page fetched.
Due == {s \in stations : NeedsHistory(s)}
DueNow == {s \in Due : Cardinality({r \in Due : r < s}) < MAX_STATIONS_PER_RUN}

BackfillDue == backfilled # Null => backfilled - moment["sync"] >= BACKFILL_INTERVAL

BackfillBegins ==
    /\ phase["sync"] = "history"
    /\ \/ BackfillDue /\ Goes("sync", "walk") /\ walk' = [todo |-> DueNow, errors |-> 0]
       \/ ~BackfillDue /\ Goes("sync", "off") /\ UNCHANGED walk
    /\ UNCHANGED <<offered, tables, scraped, events>>

IsNext(s) == s \in walk.todo /\ \A r \in walk.todo : s <= r
Stops == walk.todo = {} \/ walk.errors >= MAX_CONSECUTIVE_ERRORS

Fetching(s) == phase["sync"] = "walk" /\ ~Stops /\ IsNext(s)

\* The table page has values: they reach two months back.
TableRead(s) ==
    /\ Fetching(s) /\ s \notin Broken
    /\ history' = [history EXCEPT ![s] = "full"]
    /\ walk' = [todo |-> walk.todo \ {s}, errors |-> 0]
    /\ UNCHANGED <<offered, stations, fresh, refreshed, failed, backfilled, phase,
                   moment, scraped, events>>

\* Pages of stations that are not broken are in trouble only now and then.
Trouble(s) == IF s \in Broken THEN UNCHANGED events ELSE Event

\* A page without values is no error.
TableEmpty(s) ==
    /\ Fetching(s) /\ Trouble(s)
    /\ walk' = [todo |-> walk.todo \ {s}, errors |-> 0]
    /\ UNCHANGED <<offered, tables, phase, moment, scraped>>

TableFails(s) ==
    /\ Fetching(s) /\ Trouble(s)
    /\ walk' = [todo |-> walk.todo \ {s}, errors |-> walk.errors + 1]
    /\ UNCHANGED <<offered, tables, phase, moment, scraped>>

BackfillEnds ==
    /\ phase["sync"] = "walk" /\ Stops
    /\ Goes("sync", "off") /\ backfilled' = moment["sync"] /\ walk' = NoWalk
    /\ UNCHANGED <<offered, stations, fresh, history, refreshed, failed, scraped, events>>
-----------------------------------------------------------------------------
\* Everything else.

\* import_zip_archives of one station's years, run beside the service; they
\* end where the download was made.
Import(s) ==
    /\ Event /\ s \in stations
    /\ \E recent \in BOOLEAN :
         history' = [history EXCEPT ![s] =
            CASE @ = "none" -> IF recent THEN "full" ELSE "gap"
              [] @ = "short" -> IF recent THEN "full" ELSE "hole"
              [] OTHER -> @]
    /\ UNCHANGED <<offered, stations, fresh, refreshed, failed, backfilled, callers,
                   scraped>>

OfferChanges(s) ==
    /\ Event /\ offered' = (offered \ {s}) \cup ({s} \ offered)
    /\ UNCHANGED <<tables, callers, scraped>>

Older(age, by) == IF age + by > Horizon THEN Horizon ELSE age + by
OlderRun(age, by) == IF age = Null THEN Null ELSE Older(age, by)

Shift(by) ==
    /\ refreshed' = OlderRun(refreshed, by) /\ backfilled' = OlderRun(backfilled, by)
    /\ moment' = [c \in Callers |-> IF phase[c] = "off" THEN 0 ELSE Older(moment[c], by)]

\* An hour passes.  No caller takes longer than MaxRun.
Tick ==
    /\ \A c \in Callers : phase[c] # "off" => moment[c] < MaxRun
    /\ Shift(1) /\ scraped' = Older(scraped, 1)
    /\ UNCHANGED <<offered, stations, fresh, history, failed, phase, walk, events>>

SetBack ==
    /\ Event /\ \E by \in 1..MaxBack : Shift(0 - by)
    /\ UNCHANGED <<offered, stations, fresh, history, failed, phase, walk, scraped>>

Stopped ==
    /\ phase' = [c \in Callers |-> "off"] /\ walk' = NoWalk
    /\ moment' = [c \in Callers |-> 0]

\* The process is killed; a scrape under way leaves no trace, or less than all.
Crash ==
    /\ Event /\ Stopped
    /\ scraped' = IF \E c \in Callers : phase[c] = "scrape" THEN Horizon ELSE scraped
    /\ UNCHANGED <<offered, tables>>

CrashWhileStoring(c) ==
    /\ Event /\ phase[c] = "scrape"
    /\ \E blank \in Blanks, steps \in {1, 2} :
          Usable(Read(blank)) /\ Store(c, Read(blank), steps)
    /\ Stopped /\ scraped' = Horizon

\* The add-on is off for three weeks.
Outage ==
    /\ Event /\ Stopped
    /\ fresh' = {} /\ history' = [s \in Stations |->
                                    IF history[s] = "none" THEN "none" ELSE "gap"]
    /\ refreshed' = OlderRun(refreshed, Horizon) /\ backfilled' = OlderRun(backfilled, Horizon)
    /\ scraped' = Horizon
    /\ UNCHANGED <<offered, stations, failed>>

SyncStep ==
    \/ SyncBegins \/ SyncReaches \/ Acquire("sync")
    \/ ScrapeReads("sync") \/ ScrapeFails("sync")
    \/ BackfillBegins \/ BackfillEnds
    \/ \E s \in Stations : TableRead(s) \/ TableEmpty(s) \/ TableFails(s)
ViewStep == Acquire("view") \/ ScrapeReads("view") \/ ScrapeFails("view")
World ==
    \/ \E s \in Stations : Import(s) \/ OfferChanges(s)
    \/ SetBack \/ Crash \/ Outage \/ \E c \in Callers : CrashWhileStoring(c)

Next == SyncStep \/ ViewAsks \/ ViewStep \/ Tick \/ World

Spec == Init /\ [][Next]_vars

\* The periodic task runs again and again, every request ends with an answer
\* or at its timeout, and the clock goes on.
FairSpec == Spec /\ WF_vars(SyncStep) /\ WF_vars(ViewStep) /\ WF_vars(Tick)
-----------------------------------------------------------------------------
(***************************************************************************)
(* Properties.                                                             *)
(***************************************************************************)
\* A status without an error means that there are stations to show: "a filled
\* status with an empty table cannot occur" (groundwater.py), or the empty map
\* would wait a whole day for its next scrape.
CleanStatusHasStations == refreshed # Null /\ ~failed => stations # {}

\* Two scrapes begin at least the interval apart, less the time their callers
\* took to get there, unless the process died during the first: a caller that
\* waited for the lock asks the gate again, a moment taken before the last
\* scrape finds it closed, and a clock set back keeps it closed.  A caller
\* whose own moment lies in the future, the clock having been set back since,
\* is exempt.
PoliteScrape ==
    [][\A c \in Callers :
          phase[c] = "refresh" /\ phase'[c] = "scrape" /\ moment[c] >= 0
             => scraped + MaxRun >= IF failed THEN ERROR_RETRY ELSE REFRESH_INTERVAL]_vars

\* Scraping never ends for good: a last run that a clock set back has put into
\* the future, or an error, only delays the next scrape.
ScrapesResume == []<>(\E c \in Callers : phase[c] = "scrape")

\* Every listed station with a page of its own gets its history, if fewer
\* stations are broken than a run takes and than end it.
HistoryBuilds ==
    \A s \in Stations \ Broken :
        s \in stations /\ history[s] \in {"none", "short"}
            ~> history[s] \notin {"none", "short"} \/ s \notin stations

\* A gap is closed: "the add-on was off, and the table page can close exactly
\* that gap" (test_groundwater_history.py).
GapsClose ==
    \A s \in Stations \ Broken :
        s \in stations /\ history[s] = "gap" ~> history[s] = "full" \/ s \notin stations

\* A station leaves the map only when a scrape read the page it was on and did
\* not find it: "an unreadable page must look like a failure, never like
\* 'there are no stations any more'".
StationsKept == [][stations \ stations' \subseteq Stations \ offered]_vars
=============================================================================
