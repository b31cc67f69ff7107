-------------------------------- MODULE CalDav --------------------------------
(***************************************************************************)
(* One CalDAV collection as app/caldav_write.py sees it: own resources at  *)
(* URLs, each with an ETag, written under the preconditions If-None-Match  *)
(* and If-Match.  The server itself is external; the operators below say   *)
(* what each request of CaldavWriteClient finds there.                     *)
(*                                                                         *)
(* A copy is what the server stores at a URL: the content `val' of the     *)
(* appointment it was written from, `by', 0 for the add-on's own text and  *)
(* n > 0 for the user's n-th edit, and `away', TRUE when the user moved    *)
(* the copy to a date outside the window the sync lists.  Servers derive   *)
(* the ETag from the stored object, so the copy is its own ETag.           *)
(***************************************************************************)
EXTENDS Naturals

CONSTANTS
    Keys,     \* source keys: "source_id|uid|start" of one appointment
    Slots,    \* names a key's resource can have; "own" is the derived one
    Vals,     \* contents an appointment can have
    MaxEdits, \* bound on user edits
    NoCopy,   \* nothing at this URL
    NoEtag    \* the empty ETag

ASSUME CalDavAssumption ==
    /\ "own" \in Slots
    /\ MaxEdits \in Nat
    /\ NoEtag # NoCopy

Url == [key : Keys, slot : Slots]

\* The UID, and with it the file name, is a digest of the source key.
ResourceUrl(k) == [key |-> k, slot |-> "own"]

Copy == [val : Vals, by : 0..MaxEdits, away : BOOLEAN]

ASSUME NullsAreNoCopies == NoCopy \notin Copy /\ NoEtag \notin Copy

Etag == Copy \cup {NoEtag}

Collection == [Url -> Copy \cup {NoCopy}]

EmptyCollection == [u \in Url |-> NoCopy]

\* What build_ical writes for an appointment with content v.
Written(v) == [val |-> v, by |-> 0, away |-> FALSE]

Held(store) == {u \in Url : store[u] # NoCopy}

\* PUT with If-None-Match: * is accepted only at a free URL.
CreateAccepted(store, u) == store[u] = NoCopy

\* If-Match: the copy must still be the one the ETag names; an empty ETag
\* is sent as "*" and asks only that there be one.
MutIfMatchAny(store, u, etag) == store[u] # NoCopy
IfMatch(store, u, etag) ==
    /\ store[u] # NoCopy
    /\ etag \in {store[u], NoEtag}

=============================================================================
