----------------------------- MODULE CalendarDuty -----------------------------
(***************************************************************************)
(* What the mirror promises about a calendar it writes into, whatever the  *)
(* requests it takes: the copies are moved along with the target, and a    *)
(* clean stop leaves nothing behind (admin.py, update_mirror_sync and      *)
(* cleanup_mirror_sync).                                                   *)
(*                                                                         *)
(*   free       not the mirror's business, and empty of copies             *)
(*   active     the target of the switched-on mirror: may get copies       *)
(*   parked     the target of a mirror switched off                        *)
(*   owed       the admin was promised that the copies there go            *)
(*   abandoned  the promise was given up, or can no longer be kept         *)
(***************************************************************************)
CONSTANT Calendars

VARIABLES
    duty,   \* of each calendar
    holds,  \* whether it holds copies
    reach,  \* the calendars some source gives access to
    note    \* the admin page says that a cleanup was given up on

vars == <<duty, holds, reach, note>>

Duties == {"free", "active", "parked", "owed", "abandoned"}

TypeOK ==
    /\ duty \in [Calendars -> Duties]
    /\ holds \in [Calendars -> BOOLEAN]
    /\ reach \subseteq Calendars
    /\ note \in BOOLEAN

Init ==
    /\ duty = [c \in Calendars |-> "free"]
    /\ holds = [c \in Calendars |-> FALSE]
    /\ reach \subseteq Calendars
    /\ note = FALSE

Becomes(c, from, to) == duty[c] \in from /\ duty'[c] = to

Stays(c) == duty'[c] = duty[c]

\* The admin selects c, or switches the mirror on, which voids a promise to
\* empty the calendar; or he switches it off.
Activate(c) == Becomes(c, Duties, "active")
Park(c) == Becomes(c, Duties \ {"owed"}, "parked")

\* The target moves away from c, or a clean stop is ordered.
Owe(c) == Becomes(c, Duties \ {"free"}, "owed")

\* The promise is kept: c is empty, and still the target or not.
KeepPromise(c) ==
    /\ Becomes(c, {"owed"}, "free") \/ Becomes(c, {"owed"}, "parked")
    /\ ~holds'[c]

\* The promise is given up, and the admin page says so; or the source that
\* gave access to c is deleted or repointed.
GiveUp(c) == Becomes(c, {"owed"}, "abandoned") /\ note'
LoseAccess(c) == Becomes(c, Duties, "abandoned") /\ c \notin reach'

\* Only the active calendar ever gets copies.
Gains(c) == ~holds[c] /\ holds'[c]

Move(c) ==
    /\ \/ Stays(c) \/ Activate(c) \/ Park(c) \/ Owe(c)
       \/ KeepPromise(c) \/ GiveUp(c) \/ LoseAccess(c)
    /\ Gains(c) => duty[c] = "active"

Next == \A c \in Calendars : Move(c)

Spec == Init /\ [][Next]_vars

\* What the transitions add up to: a calendar of no concern is empty.
FreeIsEmpty == \A c \in Calendars : duty[c] = "free" => ~holds[c]
=============================================================================
