----------------------------- MODULE FeedLimiter -----------------------------
(***************************************************************************)
(* The rate limiter of the feed listener (app/feed_app.py): sliding        *)
(* windows of requests per client and of all clients, the lockout after    *)
(* too many wrong tokens, and the bounded table of clients.                *)
(*                                                                         *)
(* A request is admitted in one step of the event loop and answered in a   *)
(* later one, so several requests of a client may be under way at once.    *)
(* Time is kept as the age of each timestamp.  Every read of a window      *)
(* first purges what is too old, so that here a timestamp leaves with the  *)
(* tick that makes it too old.  A server that starts again starts with a   *)
(* new limiter.                                                            *)
(***************************************************************************)
EXTENDS Naturals, Sequences, FiniteSets

CONSTANTS
    Clients,             \* client addresses
    RATE_WINDOW, LOCKOUT,
    MAX_PER_IP, MAX_GLOBAL,
    THRESHOLD,           \* FAILED_TOKEN_ATTEMPTS_BEFORE_LOCKOUT
    MAX_TRACKED_IPS,
    FEED_LIMIT_CONCURRENCY,
    NoClient

ASSUME LimiterAssumption ==
    /\ IsFiniteSet(Clients)
    /\ {RATE_WINDOW, LOCKOUT, MAX_PER_IP, MAX_GLOBAL, THRESHOLD, MAX_TRACKED_IPS,
        FEED_LIMIT_CONCURRENCY} \subseteq Nat \ {0}
    /\ NoClient \notin Nat \cup Clients

VARIABLES
    entries,    \* the tracked clients, in a table ordered by their last request
    before,     \* its order: <<d, e>> when d was last seen before e
    requests,   \* ages of each client's admitted requests, the oldest first
    failures,   \* ages of each client's wrong tokens, the oldest first
    all,        \* ages of all admitted requests, the oldest first
    pending,    \* whose admitted request is still to be answered, by slot
    locked,     \* how long each client is locked out, by its own misses
    told,       \* time left of the Retry-After of the last lockout answer
    newest,     \* the client seen last
    misses      \* its wrong tokens since another was seen, the oldest first

table == <<entries, before, requests, failures>>
limiter == <<table, all, pending, locked, told, newest, misses>>

Slots == 1..FEED_LIMIT_CONCURRENCY

Ages(window) == Seq(0..(window - 1))
LimiterTypeOK ==
    /\ entries \subseteq Clients /\ before \subseteq entries \X entries
    /\ \A d, e \in entries : d = e <=> <<d, e>> \notin before /\ <<e, d>> \notin before
    /\ requests \in [Clients -> Ages(RATE_WINDOW)]
    /\ failures \in [Clients -> Ages(LOCKOUT)]
    /\ all \in Ages(RATE_WINDOW) /\ Len(all) <= MAX_GLOBAL
    /\ pending \in [Slots -> Clients \cup {NoClient}]
    /\ locked \in [Clients -> 0..LOCKOUT]
    /\ told \in [Clients -> 0..LOCKOUT \cup {NoClient}]
    /\ newest \in Clients \cup {NoClient} /\ misses \in Ages(LOCKOUT)

LimiterInit ==
    /\ entries = {} /\ before = {} /\ all = <<>>
    /\ requests = [c \in Clients |-> <<>>] /\ failures = [c \in Clients |-> <<>>]
    /\ pending = [s \in Slots |-> NoClient] /\ locked = [c \in Clients |-> 0]
    /\ told = [c \in Clients |-> NoClient] /\ newest = NoClient /\ misses = <<>>

IsLocked(c) == Len(failures[c]) >= THRESHOLD

\* _evict_lru_unlocked, repeated until the table fits or nobody else can go: it
\* takes out of the table, with c's entry added, the least recently seen first.
MutEvictLocked(c) == entries \ {c}
MutEvictNewest(c) == {d \in entries \cup {c} : ~IsLocked(d)}
Evictable(c) == {d \in entries \ {c} : ~IsLocked(d)}
Size(c, out) == Cardinality(entries \cup {c}) - Cardinality(out)
OldestOf(c, out) == \A d \in out, e \in Evictable(c) \ out : <<d, e>> \in before
MutEvictOne(c, out) ==
    /\ out \subseteq Evictable(c) /\ OldestOf(c, out)
    /\ Cardinality(out) = IF Size(c, {}) > MAX_TRACKED_IPS /\ Evictable(c) # {} THEN 1 ELSE 0
Evicts(c, out) ==
    /\ out \subseteq Evictable(c) /\ OldestOf(c, out)
    /\ Size(c, out) <= MAX_TRACKED_IPS \/ out = Evictable(c)
    /\ out # {} => Size(c, out) >= MAX_TRACKED_IPS

\* _entry, which c then uses as told: c becomes the most recently seen; what is
\* evicted is forgotten.
Track(c, mine, wrong) ==
    \E out \in SUBSET (entries \cup {c}) :
        LET kept == entries \ (out \cup {c})
        IN  /\ Evicts(c, out)
            /\ entries' = (entries \cup {c}) \ out
            /\ before' = (before \cap (kept \X kept)) \cup (kept \X {c})
            /\ requests' = [d \in Clients |-> IF d \in out THEN <<>>
                                              ELSE IF d = c THEN mine ELSE requests[d]]
            /\ failures' = [d \in Clients |-> IF d \in out THEN <<>>
                                              ELSE IF d = c THEN wrong ELSE failures[d]]
            /\ newest' = c

\* The time until the failure that has to expire next does so.
MutUnlockFirst(wrong) == LOCKOUT - wrong[1]
UnlockIn(wrong) == LOCKOUT - wrong[Len(wrong) - THRESHOLD + 1]

\* The misses of the client seen last; another client's end the row.
MissesOf(c) == IF newest = c THEN misses ELSE <<>>

-----------------------------------------------------------------------------
\* check, past the global window: a request refused there changes nothing.
Arrives == NoClient \in {pending[s] : s \in Slots} /\ Len(all) < MAX_GLOBAL

RefusedAsLocked(c) ==
    /\ Arrives /\ IsLocked(c)
    /\ Track(c, requests[c], failures[c]) /\ misses' = MissesOf(c)
    /\ told' = [told EXCEPT ![c] = UnlockIn(failures[c])]
    /\ UNCHANGED <<all, pending, locked>>

RefusedByRate(c) ==
    /\ Arrives /\ ~IsLocked(c) /\ Len(requests[c]) >= MAX_PER_IP
    /\ Track(c, requests[c], failures[c]) /\ misses' = MissesOf(c)
    /\ UNCHANGED <<all, pending, locked, told>>

Admitted(c) ==
    /\ Arrives /\ ~IsLocked(c) /\ Len(requests[c]) < MAX_PER_IP
    /\ Track(c, Append(requests[c], 0), failures[c]) /\ misses' = MissesOf(c)
    /\ all' = Append(all, 0)
    /\ \E s \in Slots : pending[s] = NoClient /\ pending' = [pending EXCEPT ![s] = c]
    /\ UNCHANGED <<locked, told>>

\* The right token, or a path without a route.
Answered(s) ==
    /\ pending[s] # NoClient /\ pending' = [pending EXCEPT ![s] = NoClient]
    /\ UNCHANGED <<table, all, locked, told, newest, misses>>

\* register_failed_token.
MissedToken(s) ==
    LET c == pending[s]
        wrong == Append(failures[c], 0) IN
    /\ c # NoClient /\ pending' = [pending EXCEPT ![s] = NoClient]
    /\ Track(c, requests[c], wrong)
    /\ locked' = [locked EXCEPT ![c] =
                    IF Len(wrong) >= THRESHOLD
                    THEN UnlockIn(wrong) ELSE @]
    /\ told' = [told EXCEPT ![c] = NoClient]
    /\ misses' = Append(MissesOf(c), 0)
    /\ UNCHANGED all

\* One more unit of time.  _purge takes timestamps out as long as the oldest
\* has reached the window's length.
Purged(ages, window) ==
    CHOOSE n \in 0..Len(ages) :
        /\ \A i \in 1..n : ages[i] + 1 >= window
        /\ n < Len(ages) => ages[n + 1] + 1 < window
Aged(ages, window) ==
    LET n == Purged(ages, window)
    IN  [i \in 1..(Len(ages) - n) |-> ages[n + i] + 1]
Less(t) == IF t = 0 THEN 0 ELSE t - 1

Tick ==
    /\ requests' = [c \in Clients |-> Aged(requests[c], RATE_WINDOW)]
    /\ failures' = [c \in Clients |-> Aged(failures[c], LOCKOUT)]
    /\ all' = Aged(all, RATE_WINDOW) /\ misses' = Aged(misses, LOCKOUT)
    /\ locked' = [c \in Clients |-> Less(locked[c])]
    /\ told' = [c \in Clients |-> IF told[c] = NoClient THEN NoClient ELSE Less(told[c])]
    /\ UNCHANGED <<entries, before, pending, newest>>

\* The server is started again: a new app with a new limiter.
ServerStarts ==
    /\ entries' = {} /\ before' = {} /\ all' = <<>>
    /\ requests' = [c \in Clients |-> <<>>] /\ failures' = [c \in Clients |-> <<>>]
    /\ pending' = [s \in Slots |-> NoClient] /\ locked' = [c \in Clients |-> 0]
    /\ told' = [c \in Clients |-> NoClient] /\ newest' = NoClient /\ misses' = <<>>

Request(c) == RefusedAsLocked(c) \/ RefusedByRate(c) \/ Admitted(c)
LimiterNext ==
    \/ \E c \in Clients : Request(c)
    \/ \E s \in Slots : Answered(s) \/ MissedToken(s)
    \/ Tick \/ ServerStarts

LimiterSpec == LimiterInit /\ [][LimiterNext]_limiter
-----------------------------------------------------------------------------
(***************************************************************************)
(* Properties.                                                             *)
(***************************************************************************)
\* A locked-out client is not admitted before its failures have aged out,
\* however many other clients come by meanwhile: "locked-out entries are
\* exempt from LRU eviction" and "even requests with a valid token get 429".
LockoutHolds ==
    [][\A s \in Slots, c \in Clients :
          pending'[s] = c /\ pending[s] # c => locked[c] = 0]_limiter

\* The Retry-After of a lockout is kept: after so many seconds the client is
\* no longer refused for it, also when more than the threshold of its
\* requests failed, several of them having been under way at once.
LockoutEndsAsTold ==
    \A c \in Clients : told[c] = 0 => ~IsLocked(c)

\* A client that misses the token THRESHOLD times while no other client is
\* seen is locked out, even when the table is full of locked clients and its
\* own entry is the only one that could be evicted.
MissesLockOut == Len(misses) >= THRESHOLD => IsLocked(newest)

\* "Upper bound for tracked client IPs": whenever the table changes, it fits,
\* or every client but the one just seen is locked out, also when several
\* lockouts ended since it last had to fit.
TableIsBounded ==
    [][entries' # entries =>
          \/ Cardinality(entries') <= MAX_TRACKED_IPS
          \/ \A d \in entries' \ {newest'} : IsLocked(d)']_limiter
=============================================================================
