------------------------------ MODULE SyncGuard ------------------------------
(***************************************************************************)
(* The data-loss guard that the mirror sync and the birthday sync share    *)
(* (app/sync_guard.py).  Both delete entries in real calendars, driven by  *)
(* what the calendar sources delivered in the run that just finished, and  *)
(* ask this rule whether they may touch anything at all.                   *)
(*                                                                         *)
(* `results' is what app/sync.py reports of the run: a function that gives *)
(* each source "ok", "error", or "absent" when the source was not fetched  *)
(* in this run.  `desired', `mapped' and `remote' are the sets the code    *)
(* counts: entries to write, mapping rows, copies found in the calendar.   *)
(***************************************************************************)

Outcome == {"ok", "error", "absent"}

SkipReasons == {"source_error", "empty_result", "no_sources"}

\* Every selected source was read without error in THIS run.
SourcesVerifiedFresh(ids, results) ==
    /\ ids # {}
    /\ \A s \in ids : results[s] = "ok"

SourceFailed(ids, results) == \E s \in ids : results[s] = "error"

MutNoSourceError(ids, results, desired, mapped, remote) ==
    IF ids = {} /\ mapped # {} THEN "no_sources"
    ELSE IF \/ desired # {}
            \/ SourcesVerifiedFresh(ids, results)
            \/ mapped = {} /\ remote = {}
         THEN "run"
         ELSE "empty_result"
MutMappedOnly(ids, results, desired, mapped, remote) ==
    IF SourceFailed(ids, results) THEN "source_error"
    ELSE IF ids = {} /\ mapped # {} THEN "no_sources"
    ELSE IF desired # {} \/ SourcesVerifiedFresh(ids, results) \/ mapped = {}
         THEN "run"
         ELSE "empty_result"
\* The guard's verdict: one of SkipReasons, or "run".
SkipReason(ids, results, desired, mapped, remote) ==
    IF SourceFailed(ids, results) THEN "source_error"
    ELSE IF ids = {} /\ mapped # {} THEN "no_sources"
    ELSE IF \/ desired # {}
            \/ SourcesVerifiedFresh(ids, results)
            \/ mapped = {} /\ remote = {}
         THEN "run"
         ELSE "empty_result"
=============================================================================
