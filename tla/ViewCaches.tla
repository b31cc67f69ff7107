----------------------------- MODULE ViewCaches -----------------------------
(***************************************************************************)
(* The server-side caches in front of Home Assistant, MET Norway,          *)
(* RainViewer and the MVG: power snapshot and history (app/power.py),      *)
(* forecast and radar frames (app/weather.py), departures                  *)
(* (app/transit.py), and the list of admins (app/auth.py).                 *)
(*                                                                         *)
(* Each serves what it holds while that is valid; on a miss one request    *)
(* fetches under the cache's lock and the others wait for it and look      *)
(* again.  They differ in what they keep, for how long, and in what they   *)
(* do with errors.  They share no state, so that a behaviour is of one of  *)
(* them; the windows of the history share one lock and are taken as one.   *)
(* Times are kept as what is left of them, ages as what has passed.        *)
(***************************************************************************)
EXTENDS Naturals, Sequences, SequencesExt

CONSTANTS
    Requests,        \* pollers
    Ttl, ErrorTtl,   \* by view: CACHE_TTL_SECONDS, ERROR_CACHE_TTL_SECONDS
    MAX_FORECAST_CACHE_TTL,
    MaxFetch,        \* after so long a fetch has timed out
    MaxAge,          \* ages are not told apart from here on
    ResetMidFetch,   \* devices may change while a fetch is under way
    Null

Views == {"power", "history", "forecast", "radar", "transit", "admins"}

ASSUME ViewAssumption ==
    /\ Ttl \in [Views -> Nat \ {0}] /\ ErrorTtl \in [Views -> Nat]
    /\ MAX_FORECAST_CACHE_TTL \in Nat /\ MAX_FORECAST_CACHE_TTL >= Ttl["forecast"]
    /\ MaxFetch \in Nat \ {0} /\ MaxAge \in Nat
    /\ \A v \in Views : MaxAge >= Ttl[v] + MaxFetch + MAX_FORECAST_CACHE_TTL
    /\ ResetMidFetch \in BOOLEAN

VARIABLES
    view,        \* the cache this behaviour is of
    payload,     \* what it holds: its age, and the devices it is of
    valid,       \* time left of the payload
    error,       \* time left of the cached error
    modified,    \* the forecast came with a Last-Modified
    fetch,       \* the fetch under way: its time so far, the devices it reads
    queue,       \* requests waiting for the lock or fetching under it
    devices,     \* the configured devices of the power view
    answer,      \* the last answer given
    quiet        \* how long the upstream is to be left alone

cache == <<payload, valid, error, modified>>
vars == <<view, cache, fetch, queue, devices, answer, quiet>>

Payloads == [age : 0..MaxAge, devices : {0, 1}]
Answers == [kind : {"payload"}, is : Payloads] \cup [kind : {"error", "raised"}]
ASSUME NullAssumption == Null \notin Payloads \cup Answers
Longest == IF view = "forecast" THEN MAX_FORECAST_CACHE_TTL ELSE Ttl[view]

TypeOK ==
    /\ view \in Views /\ payload \in Payloads \cup {Null}
    /\ valid \in 0..Longest /\ error \in 0..ErrorTtl[view]
    /\ modified \in BOOLEAN /\ (modified => view = "forecast" /\ payload # Null)
    /\ fetch \in [time : 0..MaxFetch, devices : {0, 1}] \cup {Null}
    /\ queue \in Seq(Requests) /\ (fetch # Null => queue # <<>>)
    /\ \A i, j \in 1..Len(queue) : queue[i] = queue[j] => i = j
    /\ devices \in {0, 1} /\ answer \in Answers \cup {Null}
    /\ quiet \in 0..(Longest + ErrorTtl[view])

Init ==
    /\ view \in Views /\ payload = Null /\ valid = 0 /\ error = 0 /\ modified = FALSE
    /\ fetch = Null /\ queue = <<>> /\ devices = 0 /\ answer = Null /\ quiet = 0

-----------------------------------------------------------------------------
(***************************************************************************)
(* What a request is answered from the cache.                              *)
(***************************************************************************)
Valid == payload # Null /\ valid > 0
Shown == [kind |-> "payload", is |-> payload]
\* _cached_response of app/power.py
CachedSnapshot == IF Valid THEN Shown ELSE IF error > 0 THEN [kind |-> "error"] ELSE Null
CachedHistory == IF Valid THEN Shown ELSE Null
\* _cached_forecast
CachedForecast == IF Valid THEN Shown ELSE IF error > 0 THEN [kind |-> "error"] ELSE Null
CachedFrames == IF Valid THEN Shown ELSE Null
CachedBoard == IF Valid THEN Shown ELSE IF error > 0 THEN [kind |-> "error"] ELSE Null
\* _cache_is_valid: after a failed lookup an empty list is kept, by which
\* nobody is an admin.
CachedAdmins == IF error > 0 THEN [kind |-> "error"] ELSE IF Valid THEN Shown ELSE Null

Cached == CASE view = "power" -> CachedSnapshot
            [] view = "history" -> CachedHistory
            [] view = "forecast" -> CachedForecast
            [] view = "radar" -> CachedFrames
            [] view = "transit" -> CachedBoard
            [] view = "admins" -> CachedAdmins

-----------------------------------------------------------------------------
(***************************************************************************)
(* Requests.                                                               *)
(***************************************************************************)
Ask(r) ==
    /\ r \notin ToSet(queue)
    /\ IF Cached # Null THEN answer' = Cached /\ UNCHANGED queue
                        ELSE queue' = Append(queue, r) /\ UNCHANGED answer
    /\ UNCHANGED <<view, cache, fetch, devices, quiet>>

\* The next in line has the lock: it looks again, and fetches.
MutLook == Null
Look == Cached
Enter ==
    /\ queue # <<>> /\ fetch = Null
    /\ IF Look # Null
       THEN answer' = Look /\ queue' = Tail(queue) /\ UNCHANGED fetch
       ELSE fetch' = [time |-> 0, devices |-> devices] /\ UNCHANGED <<answer, queue>>
    /\ UNCHANGED <<view, cache, devices, quiet>>

\* The end of a fetch: whatever came of it, the lock passes on.
MutPassesOn == queue' = IF answer'.kind = "payload" THEN Tail(queue) ELSE queue
PassesOn == queue' = Tail(queue)
Ended(v, outcome, rest) ==
    /\ view = v /\ fetch # Null /\ fetch' = Null
    /\ answer' = outcome /\ quiet' = rest /\ PassesOn
    /\ UNCHANGED <<view, devices>>

\* What the upstream said at some moment of the fetch.
Got == IF fetch = Null THEN {} ELSE [age : 0..fetch.time, devices : {fetch.devices}]
Kept(v, p, ttl) ==
    /\ Ended(v, [kind |-> "payload", is |-> p], Ttl[v])
    /\ payload' = p /\ valid' = ttl
Failed(v, ttl) == Ended(v, [kind |-> "error"], ttl)
Raised(v) == Ended(v, [kind |-> "raised"], 0) /\ UNCHANGED cache

-----------------------------------------------------------------------------
(***************************************************************************)
(* app/power.py.                                                           *)
(***************************************************************************)
SnapshotComes ==
    \E p \in Got : Kept("power", p, Ttl["power"]) /\ UNCHANGED <<error, modified>>
SnapshotFails ==
    /\ Failed("power", ErrorTtl["power"]) /\ error' = ErrorTtl["power"]
    /\ UNCHANGED <<payload, valid, modified>>
\* An answer that is not JSON, or no token to ask with: not caught, not kept.
SnapshotRaises == Raised("power")

HistoryComes ==
    \E p \in Got : Kept("history", p, Ttl["history"]) /\ UNCHANGED <<error, modified>>
HistoryFails == Failed("history", 0) /\ UNCHANGED cache

\* update_power_devices: stored, and reset_cache.
MutDevicesChange ==
    /\ view = "power" /\ (ResetMidFetch \/ fetch = Null)
    /\ devices' = 1 - devices /\ error' = 0
    /\ answer' = Null /\ quiet' = 0
    /\ UNCHANGED <<view, payload, valid, modified, fetch, queue>>
DevicesChange ==
    /\ view = "power" /\ (ResetMidFetch \/ fetch = Null)
    /\ devices' = 1 - devices
    /\ payload' = Null /\ valid' = 0 /\ error' = 0
    /\ answer' = Null /\ quiet' = 0
    /\ UNCHANGED <<view, modified, fetch, queue>>

-----------------------------------------------------------------------------
(***************************************************************************)
(* app/weather.py.                                                         *)
(***************************************************************************)
\* _cache_ttl_from_expires, for an Expires so far from now, or none (0).
MutLifetime(expires) == IF expires < Ttl["forecast"] THEN Ttl["forecast"] ELSE expires
MutLifetimeAsTold(expires) ==
    IF expires > MAX_FORECAST_CACHE_TTL THEN MAX_FORECAST_CACHE_TTL ELSE expires
Lifetime(expires) ==
    IF expires < Ttl["forecast"] THEN Ttl["forecast"]
    ELSE IF expires > MAX_FORECAST_CACHE_TTL THEN MAX_FORECAST_CACHE_TTL ELSE expires
Expires == 0..(MAX_FORECAST_CACHE_TTL + 1)

ForecastComes ==
    \E p \in Got, e \in Expires :
        /\ Kept("forecast", p, Lifetime(e)) /\ error' = 0 /\ modified' \in BOOLEAN
\* 304, to a request that said what is held.  Left out is a 304 to one that did
\* not, with a forecast held: HTTP has no such answer, and it confirms nothing.
ForecastStands ==
    \E p \in Got, e \in Expires :
        /\ modified /\ Kept("forecast", [payload EXCEPT !.age = p.age], Lifetime(e))
        /\ error' = 0 /\ UNCHANGED modified
\* 304 to a request that did not: nothing to show.
ForecastMissing ==
    \E e \in Expires :
        /\ payload = Null /\ Ended("forecast", [kind |-> "raised"], 0)
        /\ valid' = Lifetime(e) /\ error' = 0 /\ UNCHANGED <<payload, modified>>
ForecastFails ==
    /\ Failed("forecast", ErrorTtl["forecast"]) /\ error' = ErrorTtl["forecast"]
    /\ UNCHANGED <<payload, valid, modified>>

FramesCome ==
    \E p \in Got : Kept("radar", p, Ttl["radar"]) /\ UNCHANGED <<error, modified>>
FramesFail == Failed("radar", 0) /\ UNCHANGED cache

-----------------------------------------------------------------------------
(***************************************************************************)
(* app/transit.py and app/auth.py.                                         *)
(***************************************************************************)
BoardComes ==
    \E p \in Got : Kept("transit", p, Ttl["transit"]) /\ error' = 0 /\ UNCHANGED modified
BoardFails ==
    /\ Failed("transit", ErrorTtl["transit"]) /\ error' = ErrorTtl["transit"]
    /\ UNCHANGED <<payload, valid, modified>>

AdminsCome ==
    \E p \in Got : Kept("admins", p, Ttl["admins"]) /\ error' = 0 /\ UNCHANGED modified
\* Fail closed: the list is empty for a while.
AdminsFail ==
    /\ Failed("admins", ErrorTtl["admins"]) /\ error' = ErrorTtl["admins"]
    /\ payload' = Null /\ valid' = 0 /\ UNCHANGED modified
\* A message of a shape nothing expects.
AdminsRaise == Raised("admins")

-----------------------------------------------------------------------------
Less(t) == IF t = 0 THEN 0 ELSE t - 1
Tick ==
    /\ fetch # Null => fetch.time < MaxFetch
    /\ fetch' = IF fetch = Null THEN Null ELSE [fetch EXCEPT !.time = @ + 1]
    /\ payload' = IF payload = Null \/ payload.age = MaxAge THEN payload
                  ELSE [payload EXCEPT !.age = @ + 1]
    /\ valid' = Less(valid) /\ error' = Less(error) /\ quiet' = Less(quiet)
    /\ UNCHANGED <<view, modified, queue, devices, answer>>

PowerEnds == SnapshotComes \/ SnapshotFails \/ SnapshotRaises \/ HistoryComes \/ HistoryFails
WeatherEnds == ForecastComes \/ ForecastStands \/ ForecastMissing \/ ForecastFails
                \/ FramesCome \/ FramesFail
OtherEnds == BoardComes \/ BoardFails \/ AdminsCome \/ AdminsFail \/ AdminsRaise
FetchEnds == PowerEnds \/ WeatherEnds \/ OtherEnds

Next ==
    \/ \E r \in Requests : Ask(r)
    \/ Enter \/ FetchEnds \/ DevicesChange \/ Tick

Spec == Init /\ [][Next]_vars

\* Who waits for the lock is woken, and requests time out.
FairSpec == Spec /\ WF_vars(Enter) /\ WF_vars(FetchEnds)
-----------------------------------------------------------------------------
(***************************************************************************)
(* Properties.                                                             *)
(***************************************************************************)
\* What is shown was true upstream not longer ago than it may be kept plus
\* the time a fetch may take, also when it was fetched for another request or
\* confirmed by a 304: somebody who is no longer an admin soon is not one
\* here either, and the departures are not those of an earlier hour.
AnswersFresh ==
    answer # Null /\ answer.kind = "payload" => answer.is.age < Longest + MaxFetch

\* After a fetch its upstream is left alone for as long as the result is kept,
\* errors included, however many requests were waiting or come: "protects
\* against a thundering herd when HA is slow or down"; MET is asked at most
\* once in its politeness floor.  History and radar frames keep no errors.
NotHammered == [][fetch = Null /\ fetch' # Null => quiet = 0]_vars

\* While no fetch was under way at the change, "the next /api/power request
\* must already reflect the new list".
DevicesCurrent ==
    view = "power" /\ answer # Null /\ answer.kind = "payload" => answer.is.devices = devices

\* Every request is answered, also when the fetches it waits for fail.
EveryoneAnswered == \A r \in Requests : r \in ToSet(queue) ~> r \notin ToSet(queue)
=============================================================================
