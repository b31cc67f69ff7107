# A TLA+ model of Familienkalender

Familienkalender is a Home Assistant add-on: a FastAPI service that collects a
family's calendars, shows them on a kiosk, and — the part that can do harm —
*writes*: copies of appointments into a CalDAV calendar, neutral busy blocks
into a Google calendar, birthday series into both, and delete requests for
photos on a network share. Around it stand caches of foreign services, a
history of groundwater levels, a second listener for calendar feeds, and the
supervisor that restarts the process for new certificates. These modules model
the parts that keep state. The service runs on one asyncio loop, so two pieces of its code
interleave only at an `await`, except where it hands work to a thread.
All line numbers refer to `src/app/`.

## 1. Inventory

| Component (source) | State it keeps | Operations | Hard behaviours | What makes it correct |
|---|---|---|---|---|
| Mirror sync (`mirror_sync.py`, `sync_guard.py`, `sync_identity.py`, `sync_window.py`) | settings, cleanup queue, `mirror_events` | run: guard, drain, list, reconcile | lost responses, crashes between PUT and row, user edits, admin requests mid-run | one copy per appointment, no edit clobbered, nothing deleted on unverified data, no calendar forgotten |
| CalDAV write client (`caldav_write.py`) | none; the server's resources and ETags | create, update, delete, list | preconditions, PUT without an ETag | writes lose against concurrent edits |
| Sync run (`sync.py`, `main.py`) | `events`, per-source results, `SYNC_LOCK` | fetch each source, then the write stages | a manual request against the periodic run | stages see only this run's results, runs do not overlap |
| Admin API (`admin.py`, `settings.py`) | all settings | one handler per setting | handlers run between any two awaits of a run | changes of target leave nothing behind |
| Storage (`storage.py`, `models.py`) | SQLite tables | one transaction per call | sqlite3's implicit transactions begin at the first DML | what is stored together is read together |
| Busy sync (`busy_sync.py`, `google_busy.py`) | `busy_blocks`, token file | merge, adopt, list, insert/patch, delete, orphans | no preconditions, lost responses, token refresh against disconnect | one block per range, no range uncovered once visited, no churn |
| Birthday sync (`birthday_sync.py`) | `birthday_blocks` | reconcile yearly series at two targets | one target fails, shared guard, accounts and URLs that change under the mapping | one series per person and target, nothing deleted on unverified data or by a stale address |
| Slideshow (`slideshow.py`, `ha_media.py`) | `photos`, `photo_flags`, rotation | scan thread, pick, image, mark, turn, sweep, delete via Home Assistant | share that comes and goes, reassigned ids, threads | no index erosion, no repeat in a cycle, requests survive, rotation never stalls |
| Feed listener (`feed_app.py`, `feed.py`) | requests and wrong tokens per client, a bounded table of clients | admit, answer, count a miss, lock out, evict | sliding windows, a full table, several requests of a client under way | a lockout holds under pressure on the table, ends as told, cannot be avoided |
| Process supervisor (`serve.py`, `run.sh`) | staged copies, fingerprint, the two servers | stage, boot, watch hourly, exit 86, forward a stop | renewal between copy and fingerprint, a share that is away, crashes | a renewal is served in the end, no hot loop, only a cause ends the add-on |
| Power, weather, transit (`power.py`, `weather.py`, `transit.py`) | caches with a lifetime, some for errors too | serve, fetch under a lock, confirm by 304, reset | many requests waiting for a fetch that fails, an answer that arrives after a reset | nothing older than its bound is served, no upstream is hammered, everyone is answered |
| Groundwater (`groundwater*.py`) | stations, readings, two last-run marks | scrape, store, backfill, import archives | two callers with moments of their own, clock jumps, a crash between transactions, stations whose page never works | pages are left alone for the interval, scraping never ends, history is built |
| Google sources (`sources/google*.py`, `google_oauth.py`) | token files | refresh, pending token, disconnect | a refresh against a disconnect | a disconnected account stays disconnected |
| CalDAV reading, limits (`sources/caldav.py`, …) | none | parse, clamp | – | pure |
| Admin gate, HTTP app (`auth.py`, `main.py`) | cached list of admins | ask Home Assistant, cache | revoked membership | no verdict outlives its bound |
| Presentation (`filtering.py`, `tags.py`, …) | none | filter, tag | – | pure |
| Kiosk and admin front ends (`static/`) | timers, selected photo | poll, render | late answers | the newest answer wins |
| Scripts (`scripts/`) | – | run once | – | – |

Interactions: the sync run fetches the sources, then awaits the mirror, the
busy and the birthday stage with the run's per-source results; the admin API
changes the tables these stages read, between any two of their awaits; the
slideshow's scan and sweep threads write the same database as the event loop;
Home Assistant deletes files on the share when asked to; the sync run and the
stations page scrape groundwater under one lock. `PROJECT.json` lists
the 40 hazards these interactions bring about, each at its line, with the
property that would catch it, or the reason why none does.

## 2. Modules

| Module | Models | Kind |
|---|---|---|
| `SyncGuard` | the data-loss guard as an operator on sets | operators |
| `CalDav` | one collection: resources, ETags, preconditions | operators |
| `MirrorSync` | a run with fetch, drain, guard, listing and reconciler; admin, user and crashes around it | state machine; extends the two above |
| `SourceSync` | `SYNC_LOCK`, the fetch of the sources, the events table; admin, calendars' owners, crashes, passing days | state machine |
| `CalendarDuty` | what the mirror promises about each calendar | abstract specification |
| `BusySync` | a run of the busy sync, token file, Google calendar, admin, user | state machine |
| `BirthdaySync` | a run of the birthday sync at both targets; admin, user and crashes around it | state machine; extends `CalDav`, `SyncGuard` |
| `Slideshow` | index, rotation, flags, scan and sweep threads, deletion, share | state machine |
| `Groundwater` | scrape, backfill, import; both callers, clock, crashes, outages | state machine |
| `FeedLimiter` | windows, lockout, table of clients, requests under way | state machine |
| `Supervisor` | `run.sh` and `serve.py`: staging, watch, both servers, stop | state machine |
| `ViewCaches` | the six caches in front of foreign services | state machine |
| `MirrorSync_proofs`, `BusySync_proofs`, `BirthdaySync_proofs`, `Slideshow_proofs`, `Groundwater_proofs`, `Feed_proofs` (of `Supervisor` and `FeedLimiter`), `ViewCaches_proofs`, `SourceSync_proofs` | the theorems of section 5 | proofs |
| `MC` and a module's name | constants of the instances | for TLC |

### The sources: `SourceSync`

| Variables | Code |
|---|---|
| `source`, `created`, `event` | tables `sources`, its last id, and `events` |
| `task`, `waiters` | who holds or wants `SYNC_LOCK`, and the queue inside the lock |
| `pc`, `snap`, `todo`, `win`, `answer`, `results` | locals of `_sync_all_locked`: the sources as read, those still to be fetched, the window, the response, the results |
| `remote`, `place` | the calendars upstream; where an event lies today, seen from the window |
| `calm` | history: neither source nor calendar changed since the run began |

`Acquire` takes a free lock or queues; `Turn` is the first waiter's awakening,
and between a release and it the lock is unlocked without being free. A source is
fetched in two steps, `ServerAnswers` and `Deliver`, since everybody else may act
while the answer is under way; `FetchFails` stands for all that `sync.py:117`
catches, limits and credentials included. `SyncEvents` is the table's transaction,
`Refused` its foreign key. An event's `place` is "ahead" of the window, "in" it,
"running" (began before it and is not over), or "past"; `Passes` lets days go by.
A value in `Unreadable` is an object that the parser skips. The outgoing syncs are
the step `EndRun`: they have modules of their own and read `results`. The sync
status, the change log and the other columns of a source are left out.

### The mirror: `CalDav`, `SyncGuard`, `MirrorSync`

A *copy* is what the server stores at a URL: the content it was written from,
the number of the user edit that last changed it, and whether the user moved it
out of the listed window. Servers derive the ETag from the stored object, so a
copy is its own ETag; a server that answers a PUT without an ETag is the
constant `SilentPut`. The derived URL of a key is `ResourceUrl`, an imported
duplicate has another slot.

| Variables | Code |
|---|---|
| `enabled, target, sourceIds, queue, failed, status` | rows of the `settings` table (`mirror_sync_*`) |
| `mapping` | `mirror_events`: URL, ETag and content of each key |
| `feedOn, events, coll` | sources and their events; `coll` is the `calendar_url` of each CalDAV source |
| `cal, past` | the server; appointments behind today |
| `pc`, `snap`, `results`, `orders … missed`, `work, sent, conflicts` | the run's local variables, and what it awaits |
| `abandoned, edits, disturbed` | history, read by properties only |

A run is `StartSync`, one `FetchOk`/`FetchFailed` per source, `StartMirror`
(settings read, `run_mirror_sync`), the drain (`DropStale`, `DropUnusable`,
`PurgeList`, `PurgeDelete`, `PurgeEnd`, `DrainEnd`), the guard's first verdict
(`Plan`), `ListCopies` with the second verdict and the diff, then one request
after the other: `Send` is the server's side, `Settle` what the run does with
the answer; `SendFailed` is a request or response lost, with or without the
effect. `Crash` may strike anywhere. Admin handlers contain no `await` and are
one step each, possible only while the run awaits (`RunAwaits`). What is
abstracted: the window's dates become `past` and `away`; iCalendar text becomes
a content value; sources are fetched and orders drained in any order; `Usable`
stands for a complete source configuration; the awaits of the other write
stages fall under the fetch phase. Sources that feed the mirror and sources
that can be its target are disjoint sets.

`CalendarDuty` says what the admin page promises. Each calendar is *free*,
*active*, *parked*, *owed* a cleanup, or *abandoned*; only an active one gains
copies, a promise ends only with an empty calendar, with a note to the admin,
or with the loss of the credentials. `MirrorSync` implements it under the
mapping `DutyOf`, property `KeepsPromises`.

### The busy sync: `BusySync`

`Slots` merges appointments by time range and lets the lowest rank win,
`Adoption` renames the row of a range whose winner changed, then come
`ListBlocks`, the writing phase (`InsertBlock`, `LeaveBlock`, `PatchBlock`,
`PatchRefused`), `DeleteBlock` and `DeleteOrphan`. Google takes no
precondition; a request names an event id. A request and the row stored after
its response are one step; a lost response is `RunDies` with the request's
`Effect`. Ids are issued in order, the least unused one first. A PATCH on a
block the user deleted may be accepted without effect or refused, which ends
the run. `RefreshToken` writes the run's in-memory tokens back, also over a
file the admin deleted or replaced meanwhile. The switch and the calendars
change only between runs: a run under way reads neither again. `touched`
(history) names blocks that the user, or a request with an unknown outcome,
left in another state than their row says. `Ids` bounds the inserts: a range
that finds no unused id waits.

### The birthday sync: `BirthdaySync`

A *place* is a Google account or a CalDAV collection, and holds series at
resources as `CalDav` describes them; Google names a new event itself, knows no
ETags and takes no precondition.

| Variables | Code |
|---|---|
| `enabled, googleOn, target, sourceIds` | rows of the `settings` table (`birthday_sync_*`) |
| `token` | the account of the write token file |
| `coll` | the `calendar_url` of each CalDAV source |
| `rows` | `birthday_blocks`: place, id or URL, ETag and content per target and person |
| `events` | what the contact sources show; a hidden source shows nothing |
| `store` | the series at each place |
| `pc`, `results`, `place`, `wanted`, `ids`, `old`, `toList`, `listing`, `work`, `conflicts` | the run's local variables, and what it awaits |
| `edits, troubles` | bounds |
| `seenEdits, doubt, disturbed` | history, read by properties only |

A run is `FetchSources`, `StartBirthday` (settings, first verdict), one
`ListSeries` per target, `Judge` (second verdict, and all requests at once: the
reconcilers decide from what was read before), then `Local`, `SendRequest`,
`Conflict` or `PatchRefused` in the order of `Due`: Google before CalDAV, and
within a target writes, removals, orphans, duplicates. `Indexes` chooses the
series that counts when a person has several: the server's order is not
promised. A request and the row stored after its response are one step; a lost
response is `RunDies`. Abstracted: dates. The window spans more than a year, so
absence of a person is always judged and a series is always listed; the
adoption of a series outside the window is therefore no step. The status row is
only shown to the admin and left out.

### The slideshow: `Slideshow`

Four activities share the database: the event loop (picks, image requests,
marks, turns), the scan thread, the sweep thread, and a deletion that waits for
Home Assistant. Each SQL transaction is a step; the SELECTs that sqlite3 runs
before a transaction begins are steps of their own (`SelectUnshown`,
`ReadIndex`). Ids are reassigned by every rebuild, so a reference held across
steps is a path and whether its id is still valid. A directory is *mounted* or
not; a file exists or not behind it. The walk visits the paths one by one,
in any order. `cycle`, `last`, `lapsed` and `scan.gone` are history.
Abstracted: `ServeMissing` is one step although the code asks for the file and
for its directory one after the other (microseconds apart, no `await`); one
deletion is under way at a time; a turn has two outcomes, some rotation or none.

### The groundwater stations: `Groundwater`

| Variables | Code |
|---|---|
| `offered` | what the authority's pages list |
| `stations`, `fresh` | rows of `groundwater_stations`, those whose `measured_at` is not stale |
| `history` | what `groundwater_readings` covers of a station: nothing, a short period, a long one, a long one that ends early, a long one with a gap inside |
| `refreshed`, `failed` | `groundwater_status`: age of `last_run`, whether it holds an error |
| `backfilled` | `groundwater_history_status`: age of `last_run` |
| `phase`, `moment` | where the sync run and the stations page are, and the `now` each took when it began |
| `walk` | the local variables of `backfill_history` |
| `scraped` | history, read by `PoliteScrape` only |

Time is kept as ages: `Tick` makes every moment an hour older, `SetBack` makes
them younger, below zero for a last run that now lies in the future. The sync
takes its moment (`SyncBegins`) long before it comes to the stations
(`SyncReaches`); `Acquire` takes `_refresh_lock` and asks the gate `RefreshDue`.
A scrape fails (`ScrapeFails`) or stores its list in three transactions
(`ScrapeReads`); the process may die after the first or the second
(`CrashWhileStoring`). The backfill walks over the first stations that need it
(`BackfillBegins`, `TableRead`, `TableEmpty`, `TableFails`, `BackfillEnds`).
`Outage` is three weeks without the add-on. `Broken` stations never have a table
page that can be read. What a page yields is abstracted to the coverage it leads
to, and the sparkline endpoints, which only read, are left out.

### The feed's limiter: `FeedLimiter`

Each request is admitted in one step (`Admitted`, `RefusedAsLocked`,
`RefusedByRate`) and answered in a later one (`Answered`, `MissedToken`), since
the token is looked at after an `await`. `entries` and `before` are the keys of
the `OrderedDict` and their order, `requests`, `failures` and `all` its deques as
ages; a timestamp leaves with the `Tick` that makes it too old, because every
read purges first. `Track` is `_entry`; what it evicts (`Evicts`) is what
`_evict_lru_unlocked` takes, repeated until the table fits or only locked clients
and the newest are left. `pending` has a slot for every request that uvicorn lets
in at a time. `locked`, `told`, `newest` and `misses` are history. A request that
the global window refuses changes nothing and is no step. The names `LimiterInit`,
`LimiterNext` and `LimiterSpec` let `Feed_proofs` extend this module and
`Supervisor` side by side.

### The supervisor: `Supervisor`

A certificate file is the number of the renewal that wrote it. `staged` is the
pair of copies, `known` is `FeedListener._mtimes`, `phase` is where `run.sh` and
its child are, `feed` and `main` are the two server tasks, `code` the child's exit
code. `StageCert` and `StageKey` copy one file after the other and a renewal may
fall between them (`RenewCert`, `RenewKey`); `InitialCheck` and `HourlyCheck` are
`_initial_check` and `_check_certificates`, `Decides` and `Closes` the end of
`serve`, `Stop` the handlers of SIGTERM in the script or the child. A mismatched
pair is served by a server that ends at once (`Started`). Ports, TLS settings and
the seconds of the sleep are left out.

### The views' caches: `ViewCaches`

The six caches share no state, so a behaviour is of one of them (`view`), and the
conjuncts of its actions are those of that cache's code: whether it keeps errors,
which of payload and error is looked at first, what a 304 does, what raises. A
request is answered from the cache (`Ask`) or waits for the lock (`queue`); with
the lock it looks again and fetches (`Enter`), and every end of a fetch passes the
lock on. `fetch` remembers which devices it asked for, `payload` of which devices
it is. `answer` and `quiet` are read by properties only. One answer is left out: a
304 to a request that named no Last-Modified, while a forecast is held. Only an
upstream that breaks HTTP gives it; the code would keep the held forecast for
another lifetime (`weather.py:310`), and `AnswersFresh` could not bound its age.

## 3. Runs

| Run | Question | Bounds |
|---|---|---|
| `source_sync` | Do events outlive their source, is the table true to what the stages are told, is every calendar read in the end? `NoOrphanEvents`, `RunsMatchUpstream`, `EventsSettle` | 2 sources on 1 calendar, 1 event with 2 values of which one is unreadable, 1 manual trigger, the first source failing for ever if it likes, 1 other failure or crash |
| `mirror_promises` | Is any calendar with copies ever forgotten, and does every order and conflict end? `NoForgottenCopies`, `KeepsPromises`, `OrdersResolve`, `ConflictsEnd` | 2 targets, 2 collections (which is whose at the start is fixed), 1 key, 1 user edit, 2 attempts; requests may fail without bound; no crash |
| `mirror_reconcile` | Does a clean run repair whatever it finds, and is anything deleted on unverified data? `TypeOK`, `CleanRunReconciles`, `GuardedDeletes` | 2 feeds, each read, failed or not fetched; 1 key with a duplicate slot, 2 collections, 1 attempt; target repointed, copies moved, 1 crash, any number of failing requests; admin requests between runs, nothing passes out of the window |
| `mirror_writes` | Does an edit cost a copy, or a copy go stale? `CopyMatchesSource`, `NoClobberedEdit` | 1 feed with 1 key, 2 contents, 2 user edits, admin requests mid-run, silent PUTs, no lost response |
| `busy_sync` | Does a run repair, cover what it has visited, never churn? `TypeOK`, `BusyRunReconciles`, `StaysCovered`, `NoChurn` | 2 appointments, 2 ranges, 5 ids, 1 fault, 1 edit, one account connected or disconnected twice, mid-run |
| `birthday` | Does a run repair what it finds, never write a second series, never delete on unverified data or by a stale address? `BirthdayRunReconciles`, `OneSeriesPerPerson`, `BirthdaysGuarded`, `DeletesAddressOwn` | 1 person, 2 contents, 2 accounts, 2 collections, any settings at the start, any 2 of: edit, duplicate, failure, crash, admin request mid-run |
| `slideshow` | Does the index erode, a photo repeat, a request vanish, the rotation stall? `NoErosion`, `NoRepeat`, `RequestsKept`, `KeepsComing` | 2 photos and a video in 2 directories, 3 events |
| `groundwater` | Are the pages left alone, does scraping go on, is history built? `CleanStatusHasStations`, `PoliteScrape`, `ScrapesResume`, `HistoryBuilds` | 2 stations on two pages, one broken; intervals of 4, 2 and 2 hours; a caller takes an hour; any 2 of: failure, crash, outage, clock set back by an hour, import, change of the offer |
| `feed_limiter` | Does a lockout hold, end as told, and take effect, and is the table bounded? `LockoutHolds`, `LockoutEndsAsTold`, `MissesLockOut`, `TableIsBounded` | 4 clients, a table of 2, 2 misses lock out for 3 units, 2 requests at once, any number of restarts |
| `supervisor` | Is a renewal served, is there a hot loop, what ends the add-on? `RestartsAreForChanges`, `EndsForCause`, `RenewalServed`, `StopObeyed` | 3 renewals of two files each, a share that goes while there were fewer than 5 changes, any number of crashes and starts |
| `view_caches` | Is an answer fresh and of the right devices, is an upstream spared, is everyone answered? `AnswersFresh`, `DevicesCurrent`, `NotHammered`, `EveryoneAnswered` | 3 pollers at each of 6 caches, lifetimes of 1 to 3, a fetch of at most 2 |
| `mirror_forgotten` | a violation of `NoForgottenCopies`, see section 4 | as small as it is found |

Why these bounds are enough to be of use:

- The guard looks at all selected sources together, so `mirror_reconcile` has two:
  one fails or is not fetched while the other one is read, and wants its
  appointment or wants it no more. One key is enough there because it can have two
  copies: what an unguarded run would delete beside an appointment that is still
  wanted is then the duplicate, where with two keys it would be the copy of the
  other one, and the verdict is one for the whole run. A run that ignored a failed
  source, took one fresh source for all of them, or looked at the mapping alone, is
  found. Expired copies and admin requests mid-run are not in this run; the theorems
  `DeletesAreGuarded` and `RunsReconcile` cover them.
- One key suffices for the mirror's other properties, since the
  reconciler treats keys independently; what two keys add is that another
  request goes out between two of a key's, which edits and faults of the other
  actors already cover. Two calendars are needed for a change of target and
  back. Two contents show a change and a change back. `MaxAttempts = 2` has a
  first, a retried and a last attempt. `mirror_promises` spends
  its states on unbounded failing requests (`LongOutage`); crashes are met in
  `mirror_reconcile`, and `CopiesNotForgotten` is proved with any number of both.
- In `source_sync` two sources show a failure beside a success and a deletion
  during the other one's fetch. One calendar is enough: a source pointed elsewhere
  during a run is exempt from what the run tells of it, and one pointed elsewhere
  between runs finds what it would find had the owner edited the old calendar.
  The theorems hold for any number of them. One event passes through all its
  places; events do not depend on each other.
- Two appointments in one range give a winner, a loser and an adoption; a
  second range gives moves. Five ids suffice: two rows, an orphan and a fresh
  one for each insert.
- In `birthday` any two troubles, of one kind or two, meet a run at any of its
  awaits: connect a second account and go back, change a URL and back, a crash
  and then a lost row, a duplicate and then a failure before it is removed.
  Persons are reconciled independently except for the order and the end of the
  run.
- In `groundwater` the broken station comes first in the walk, so that it could
  starve the other. Two events are, for instance, an outage and a clock set back,
  or a failed scrape and a crash while storing; both callers add any delay
  between moment and gate. Longer intervals only repeat ticks between which
  nothing can happen.
- In `feed_limiter` four clients and a table of two give a full table with two
  locked clients and a third that is its newest entry, and a fourth that, once
  both lockouts are over, makes two of them go at once; two requests under way
  give more misses than the threshold.
- In `supervisor` three renewals give one that is seen half done, one while the
  child is leaving, and one after. A crash needs no bound: the state returns.
- In `view_caches` one poller fetches, one waits and sees what the first got,
  one comes later. The lifetimes keep the order of the code's constants: the
  board's error outlives a board, every other error is shorter than a payload.
- Two photos in one directory and a video in another give a partial mount, a
  video switched off, and a cycle of more than one; three events are, for
  instance, unmount, mark, mount again.

Some limits of the passing runs are limits of what is true, not of the model:
with them lifted the code violates a property of the run (next section). They are
`FlapMidScan` and `PickMidRebuild` in `slideshow`, `RenewWhileStarting` and
`StopWhileStarting` in `supervisor`, `ResetMidFetch` in `view_caches`, a second
account in `busy_sync`, admin requests mid-run in `mirror_promises`, copies moved
out of the window in the same run, lost responses in `mirror_writes`. `CanRepoint` is off
where a repointed calendar would only end in `abandoned`.

**Fairness.** `mirror_promises` assumes weak fairness of `SyncStep` as a whole:
the periodic task starts a run after a run, and every request ends with a
response or the client's timeout, so some step of the sync is always taken.
Nothing is assumed about success, users or admins beyond their bounds.
`slideshow` assumes weak fairness of the scan thread's steps and of the second
half of a pick, and strong fairness of the first half: kiosks ask every few
seconds, while the rebuild, which alone disables a pick in that run, takes
milliseconds once an hour. `groundwater` assumes it of the sync's steps as a
whole, of the stations page's once it has asked, and of the clock: the periodic
task sleeps and runs again, and every page request has a timeout. Nobody is
assumed to open the stations page. `supervisor` assumes it of the script and of
each task of the child: the shell waits for nothing else, and the watch's sleep
ends every hour. `source_sync` assumes it of the sync's steps as a whole,
as the mirror's run does, and nothing of success: a flaky source may fail for
ever. `view_caches` assumes that the lock's next waiter is woken and
that a fetch ends, as the clients' timeouts see to.

## 4. What the runs found

One disagreement has a run of its own whose counterexample is the proof, and
an entry under `findings`:

- `mirror_forgotten`: the drain stores the queue as it read it before its
  requests (`mirror_sync.py:554`); an order queued meanwhile is lost. A run
  under way also goes on writing into the calendar the admin just left.

More were met, and each can be reproduced by changing a constant, or adding a
property, in the cfg of a passing run:

| Constant or property | Violated | Why |
|---|---|---|
| `mirror_writes` with `MaxFaults = 1` | `CopyMatchesSource` | an update whose response was lost, followed by a change back, leaves a wrong copy that no later run repairs (`mirror_sync.py:270`) |
| `busy_sync` with `Accounts = {A, B}` (and ids from 10 on, which are the second account's) | `MappingIsOfAccount`, `StaysCovered`, `BusyRunReconciles` | connecting a second account over the first keeps the first one's mapping (`admin.py:789`) |
| `busy_sync` with property `ExactlyOneBlock` | `ExactlyOneBlock` | the busy sync promises exactly one block for every appointment (`busy_sync.py:3`); a block the user deleted is counted as there because its row has the time that is wanted (`busy_sync.py:286`), so no later run writes it again, and an orphan at the same range, which could have taken its place, is deleted (`busy_sync.py:335`). `BusyRunReconciles` and `StaysCovered` except a block the user changed for this reason |
| `slideshow` with `FlapMidScan = TRUE` | `NoErosion` | a share lost between the availability question and the walk empties the index (`slideshow.py:369`) |
| `slideshow` with `PickMidRebuild = TRUE` | `NoRepeat` | a pick between the rebuild's SELECT and its transaction is forgotten, and the photo repeats (`storage.py:617`) |
| `groundwater` with property `GapsClose` | `GapsClose` | the first reading after an outage makes the station look current, and the gap behind it is not seen any more (`groundwater_history.py:277`; `test_groundwater_history.py:263` expects it to be closed, with no reading in between) |
| `groundwater` with `CanBlank = TRUE` and property `StationsKept` | `StationsKept` | a page that arrives without its array while the other has one removes its stations (`groundwater.py:401`) |
| `groundwater` with `Stations = {1, 2, 3}`, `Broken = {1, 2}` | `HistoryBuilds` | as many broken stations as a run takes starve the ones behind them: the walk begins with the same ones each time |
| `source_sync` with property `NoQueuedRun` | `NoQueuedRun` | the 409 of a manual sync (`main.py:415`) asks whether the lock is held before it awaits it; just after a release, with the periodic task waiting, it is not, and a second run queues up, which `main.py:412` and `sync.py:89` exclude |
| `source_sync` with property `PruneCoversFetch` | `PruneCoversFetch` | the fetch returns what overlaps the window, the pruning removes what starts in it (`storage.py:938`): an event that began before the window, is not over and is deleted upstream stays, although `sync_window.py:5` has one definition make the two agree |
| `source_sync` with property `RemovedWereDeleted` | `RemovedWereDeleted` | an object that cannot be parsed is skipped (`caldav.py:176`, `google.py:382`) and its stored event removed as deleted upstream (`storage.py:936`), by a run that reports no error |
| `supervisor` with `RenewWhileStarting = TRUE` | `RenewalServed` | a renewal between the staging and the first fingerprint is taken for what is served (`serve.py:313`) |
| `supervisor` with `StopWhileStarting = TRUE` | `StopObeyed` | a stop while no child is awaited finds nobody to forward it to, and the next child is started all the same (`run.sh:63`) |
| `view_caches` with `ResetMidFetch = TRUE` | `DevicesCurrent` | a fetch for the old devices fills the cache that the change emptied (`power.py:362`) |

Smaller things seen in the code while translating it: a listener that failed,
followed by a stop, makes `serve` raise, so that the process ends with 1 where its
docstring (`serve.py:400`) says 0 (`Closes`); the power history and the radar
frames keep no errors although the modules' docstrings speak of cached errors
(`NotHammered` says nothing of errors there).

Two more were met on the way, and are stated as limits of passing runs:

- A mirror copy moved out of the window occupies its derived URL and makes
  every later run report a conflict (`mirror_sync.py:300`): `ConflictsEnd` fails
  once `CanMove` is on, so `mirror_promises` keeps the copies in the window.
- The birthday sync compares a person's row, not the series it found
  (`birthday_sync.py:482`). A row written for another account, or for the
  collection before the source's URL was changed and changed back, makes a
  series with an old title pass for unchanged for good; so does a duplicate
  that an interrupted run left. `BirthdayRunReconciles` excuses the content of
  such series (`doubt`) and nothing else of them.

## 5. Proofs

TLC checks small instances; the theorems hold for every value of the constants,
under the assumptions named in the modules (`CalDavAssumption`, `NullsAreNoCopies`,
`MirrorAssumption`, `BusyAssumption`, `NullIsNoRecord`, `BirthdayAssumption`,
`SlideshowAssumption`, `GroundwaterAssumption`, `SupervisorAssumption`, `LimiterAssumption`,
`ViewAssumption`, `SourceAssumption`, `NullAssumption`: placeholders differ from values, bounds are
numbers, functions have their domains, intervals are ordered as in the code; TLC
evaluates all of them).

| Theorem | Condition | Argument |
|---|---|---|
| `TypeCorrect` (mirror) | – | `TypeOK` is inductive; one lemma per group of actions |
| `CopiesNotForgotten` | no admin request mid-run; `Slots = {"own"}`: no duplicates of copies | invariant `Accounted` |
| `DeletesAreGuarded` (mirror) | – | invariant `WorkGuarded` |
| `EditsAreKept` | – | invariant `Dated` |
| `RunsReconcile` (mirror) | – | invariant `Tracked` |
| `PromisesKept` (mirror implements `CalendarDuty`) | no admin request mid-run, no URL changed; `Slots = {"own"}`: no duplicates of copies | invariants `Accounted` and `Dutiful`; one move per calendar and step |
| `CopiesSayWhatTheyShould` | no lost response or crash, no URL changed, no target switched mid-run | invariant `Faithful` |
| `TypeCorrect` (busy) | – | part of invariant `IInv`; that no block is both known and deleted needs that no two rows name one block |
| `BlocksFollowWinners` | – | `IInv`: the merged slots, and no kept row of a wanted range |
| `RangesStayCovered`, `RunsReconcile` (busy) | one account | `IInv` |
| `TypeCorrect` (birthday) | – | `TypeOK` is inductive, since it says that work, and targets to list, have a place |
| `DeletesAreGuarded` (birthday) | – | invariant `WorkJustified` |
| `DeletesAreAddressed` | – | invariant `WorkJustified` |
| `NoSecondSeries` | – | invariants `Orderly` and `Alone` |
| `RunsReconcile` (birthday) | – | invariants `Orderly`, `Doubts` and `Tracked` |
| `TypeCorrect` (slideshow) | – | `TypeOK` is inductive, since it says that a valid chosen id is in the index |
| `NoPhotoRepeats` | no pick overlaps a rebuild | invariant `CycleIsShown` |
| `IndexDoesNotErode` | the share stays as it is during a scan | invariant `ScanCovers` |
| `RequestsAreKept` | the same | `ScanCovers` and `LapsedIsKnown` |
| `TypeCorrect` (groundwater) | – | invariant `Typed`, with the bound `Earliest` on how far the clock was set back |
| `CleanStatusIsTrue` | – | a list without stations is never stored, and a stored one never emptied |
| `ScrapesAreApart` | – | invariant `Dated` |
| `TypeCorrect` (supervisor) | – | invariant `Typed` |
| `RestartsAccounted` | – | invariant `Accounted` |
| `EndsHaveCause` | – | invariant `Caused` |
| `WatchIsOfServed` | no renewal while starting | invariant `Fresh` |
| `LimiterTypeCorrect`, `LockoutsHold`, `LockoutsEndAsTold`, `MissesDoLockOut` | – | invariant `Limited` |
| `TableStaysBounded` | – | `LimiterTypeOK`, and what one pass of the eviction leaves (`TrackBounds`) |
| `TypeCorrect` (views) | – | invariant `Typed` |
| `AnswersAreFresh` | – | invariant `Bounded` |
| `UpstreamsAreSpared` | – | invariant `Answerable` |
| `TypeCorrect` (sources) | – | invariant `Typed`: the queue is exactly those who wait, each once |
| `EventsHaveSources` | – | inductive with `Typed` |
| `ReportsAreTrue` | – (objects that cannot be parsed count as absent) | invariant `Match` |
| `EmptyingIsJustified` | – (the same) | `ReportsAreTrue`, composed with the verdict of `SyncGuard` |
| `DevicesAreCurrent` | no reset during a fetch | invariant `Current` |

*Mirror.* `NoForgottenCopies` alone is not inductive: in the middle of a drain a
calendar has left the queue as the run knows it although the stored queue still
has it. `Accounted` therefore adds that what the run read about the target still
holds (`TargetKept`), that during a drain every collection with copies is the
target's, still to be visited, kept for a retry, abandoned, or given up (`DrainCovers`),
and that a purge without a refusal deletes everything the calendar holds
(`PurgeCovers`). `TargetKept` is what an admin request mid-run breaks, and why
the theorem carries its condition: `mirror_forgotten` is the counterexample
without it. `WorkGuarded` says that whatever is still to be deleted was decided
under a verdict `run` whose grounds still stand; it also holds with admin
requests mid-run, because the grounds live in the run's snapshot.

`Dated` numbers the user's edits: no copy, row or response tells of an edit that
has not happened, and no request still to be made names a version younger than
the listing. A request goes through only if the version it names is the copy's,
so what it changes is no later edit.
`Tracked` follows one appointment through an undisturbed run: its row and copies
are as wanted, or the requests that make them so are still to come, at most one
of them writing. It is stated per key because keys do not interfere
(`OthersStayOnTrack`): a row, a request and a URL that belong together carry one
key. The order of the phases is needed for the extra copies: they are deleted
last, and never the one the row tells.

`PromisesKept` is the refinement of `CalendarDuty` under the mapping `DutyOf`.
A calendar's duty is read off the queue, the target and the switch, so a drain,
whose requests empty a calendar before the shortened queue is stored, is where
the mapping is in danger: until `DrainEnd` the calendar is still *owed*, and
then each one that left the queue must be empty or given up with a note.
`Dutiful` says so: while a drain is under way, every stored order is still to be
visited or kept for a retry, or its calendar is empty, out of reach, given up
with a note, or the target again (`DrainKeepsPromises`); what is owed or in use
is not given up (`OwedIsWanted`, `TargetInUse`); and the reconciler writes only
while the mirror is on and its target is not owed (`WritesInUse`). The
conditions are those of `mirror_promises`. Without the first, `mirror_forgotten` shows a promise lost.
The second keeps every collection with one source (`OwnCollections`): two
sources of one collection could each be owed its cleanup, and the duty of a
calendar would not be that of one order.

`CopiesSayWhatTheyShould` is about the one comparison a reconciler does not make:
it compares an appointment with the row of its copy, and never with the copy.
`Faithful` says that an unedited copy says what its row tells, unless it is a
duplicate about to be deleted (`RowsSay`); the same of a PUT whose row is yet to
be stored, and of a row about to be refreshed (`WorkSays`); that rows are of the
run's target (`RowsOfTarget`); and that a run has one request at most about a
key's row (`OneWriter`). The conditions are those of `mirror_writes`, and each
excludes a case that TLC finds once its constant is changed: a lost response
(`MaxFaults`, `LongOutage`) leaves a row behind its copy, and a change back then
passes for unchanged (section 4); a URL changed and changed back (`CanRepoint`)
or a target switched mid-run (`AdminMidRun` with two calendars: a run under way
stores a row of the calendar just left, and the new target is one that was
forgotten) leaves a row of another collection, whose text passes for the copy's.
The condition on the target reads "admin requests may fall into a run only if
there is one calendar", since then they switch the mirror on and off but move
nothing.

*Busy.* `IInv` says that no two rows name one block; that a stored row is the
run's, or that of a block the run inserted; that what is known is wanted and what
is deleted is not; that the merged slots differ in their times and that no row is
spare which a slot could have adopted; that a row tells its block's time or the
block is in doubt; that every slot visited has a block that stands for it
(`Covered`), which is its row's or one the run inserted; that
the run has seen every block of its account; and that, undisturbed, the stored
rows follow the run's work. Adoption is the hard step: the rows before and after
it are related by the heir of each spare row. `OneAccount` is needed because with
two accounts a row may name a block in the other one's calendar. `StaysCovered`
and `BusyRunReconciles` say nothing of a block that the user changed, or an
unanswered request left in doubt, until a request sets it right: `touched` is in
the properties and in the invariant. Only the range's own block counts; what
became of other ranges' blocks excuses nothing.

*Birthday.* `WorkJustified` says of every request still to be made that a
deletion has its grounds and, at CalDAV, its address. `Judge` establishes it:
what a reconciler deletes was mapped or listed (`ReconcileJustified`), so the
second verdict counted it. Nothing breaks it later, because a run reads
mappings, listings, results and places once. Both hold whatever the admin does
mid-run, a moved URL included; a Google deletion claims no address.

`Orderly` says what work a run can have: at most one request that is not an
extra per target and person, and with extras none that creates.
`Alone` adds that a series is still to be created only where every other series
of the person came from the user since the run began
(`EditedSince`); the user's edits are numbered for that. It holds through account
switches because a run keeps the places it began with, and after a lost response
because the next run lists the calendar before it creates anything.

`Doubts` is what the content of a series rests on. A series that is not as its
row says is in doubt or about to go (`RowsTell`); what the listing and the
requests say of it agrees likewise (`ListTells`, `WorkTells`). It holds under any
disturbance: what leaves a series behind, or its row, adds to the doubt, and only
an answered request for the series itself takes it out. `Tracked` follows one
person at one target through an undisturbed run: the series is going, coming, or
staying at one URL. Persons and targets do not interfere (`OthersOnTrack`),
because two targets in use are never one place.

*Slideshow.* `NoRepeat` needs that photos handed out in this cycle are marked
in the table and, while the index is rebuilt, in the copy the rebuild read, and
that a chosen photo is not yet marked. `NoErosion` needs three things during a
scan: everything away is known as gone, the directories still to be walked can
be listed, and every entry is gone, found, still to be found or will be kept.
`RequestsKept` adds that a marked path which is away, or known as gone to scan
or sweep, or without an entry, has lapsed. The two conditions are the
constants `PickMidRebuild` and `FlapMidScan`.

*Groundwater.* `Dated` relates the age of the stored last run to the hours since
the last scrape began: they differ by no more than `MaxRun`, and setting the clock
back only makes the last run look younger. Only `Acquire` begins a scrape, and it
asks the gate with the lock held.

*Supervisor.* `Accounted` says that a child about to leave for a reload, or
watching for a fingerprint that is no longer there, has a change of the originals
to its credit. `Caused` follows the exit code from the decision to the script.
`Fresh` carries what was staged to the first fingerprint; a renewal between them
breaks it, hence the condition.

*Limiter.* Everything about a lockout hangs on one timestamp, the threshold-th
youngest failure (`Decisive`). `Limited` says that timestamps are in the order of
their ages; that while a lockout of the client's own making lasts that failure is
no older than the time left allows (`LocksHold`); that once an answer told its end
that failure is no younger than the answer assumed (`TellsTruth`); and that the
misses in a row are the youngest failures of the client seen last (`RowIsKnown`).
Further misses only make the decisive failure younger, which is why a miss after
an answer takes its promise back (`told`). The delicate step is the `Tick`: what
`_purge` takes out is a prefix of each deque (`PurgedIs`), which keeps the k-th
youngest the k-th youngest (`AgedIs`). That the purge stops at a first young
timestamp would be an induction over the deque; the library's well-ordering of
the naturals takes its place (`Least`).

*Views.* `Bounded` says that the age of a valid payload and the time it has left
add up to no more than its lifetime and a fetch; a 304 restores both at once.
`Answerable` says that while an upstream is to be left alone there is something to
answer from. `Current` ties payload, fetch and answer to the configured devices.

*Sources.* `RunsMatchUpstream` speaks of the end of the fetches. `Match` carries it
through the run: every source already read agrees with its calendar while it is
calm, and so does the answer under way. Everything the admin and the owners do
goes through one lemma (`CalmKept`): either a source is not calm any more, or its
events and its calendar are as they were.
`EmptyingIsJustified` puts `SyncGuard` on top: a run that deletes although it has
nothing to write needs fresh sources for its verdict, and what those report is
true, so there was nothing to write. It is the claim of `app/sync_guard.py` (case d)
that "the empty set is the truth", with the two limits the code has: what the
parser skips as broken counts as absent, and a source touched during the run is
excluded. No run states it, since it quantifies over every selection of sources
and events.

*Only model-checked.* Liveness (`OrdersResolve`, `ConflictsEnd`, `KeepsComing`,
`ScrapesResume`, `HistoryBuilds`, `RenewalServed`, `StopObeyed`,
`EveryoneAnswered`, `EventsSettle`) needs fairness and ENABLED, which the
prover does not reach.
Beyond the conditions of a theorem, the runs are all there is: `mirror_writes` and
`mirror_promises` stay within those of `CopiesSayWhatTheyShould` and `PromisesKept`.

## 6. Not modelled

- Text and data conversion: iCalendar and XML, forecasts, station pages, HTML
  sanitizing, tags, holidays. Pure functions; unit tests are the better tool.
- The window's dates, except as listed or not listed, past or not past.
- Schema migration, the index limit of 200,000 entries, symlinks, EXIF.
- The tile cache of the weather view: one more bounded table without a hazard
  that the others lack.
- The token files of the Google sources and their pending-token flow; the write
  token is part of `BusySync` and `BirthdaySync`.
- The front ends: rendering and forms on top of the operations that are modelled.
- The rest of the components marked `not_modelled` in `PROJECT.json`, for the reasons there.

## 7. Plan

Modules are written so that they can be proved about: parameters as constants
with named assumptions, one action per operation, invariants as conjunctions of
named parts, no recursion.

1. *Done:* `SyncGuard`, `CalDav`, `MirrorSync`, `CalendarDuty`; `BusySync`;
   `BirthdaySync`; `Slideshow`; `Groundwater`; `FeedLimiter`; `Supervisor`;
   `ViewCaches`; `SourceSync`; the proofs about all of them.
2. An abstract specification of an outgoing sync (a calendar gains and loses
   entries only under a verdict, one per key), which `BirthdaySync` and
   `MirrorSync` both implement.
3. The composition of `SourceSync` with a write stage: the stage's appointments
   are `SourceSync`'s table, and its failed sources those of `results`. The rule
   between them is composed already (`EmptyingIsJustified`); the stages are not.
4. `GoogleTokens`: refresh, pending token, disconnect, shared by sources and
   `BusySync`.
5. The kiosk's slideshow view: timers and late answers.

Proofs to follow: whatever the new modules check. Of the existing ones, what is
not proved is out of the prover's reach (section 5, *Only model-checked*).
