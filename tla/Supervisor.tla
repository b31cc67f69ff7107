----------------------------- MODULE Supervisor -----------------------------
(***************************************************************************)
(* The life of the add-on's process: run.sh stages copies of the           *)
(* certificate pair, starts the Python process and waits for it;           *)
(* app/serve.py runs the calendar and the TLS feed listener in one loop,   *)
(* watches the certificates it was staged from, and ends with the reload   *)
(* code when they change.                                                  *)
(*                                                                         *)
(* A certificate file is the number of the renewal that wrote it; 0 is a   *)
(* file that does not exist.  A renewal writes the two files one after the *)
(* other, and the share may be away for a while.  The modification times   *)
(* the watch compares identify the files' versions.                        *)
(***************************************************************************)
EXTENDS Naturals

CONSTANTS
    MaxRenewals, MaxChanges,  \* bounds on what happens to the certificates
    RenewWhileStarting,    \* they may change between staging and first look
    StopWhileStarting,     \* a stop may arrive while no child is awaited
    None

ASSUME SupervisorAssumption ==
    /\ MaxRenewals \in Nat /\ MaxChanges \in Nat
    /\ RenewWhileStarting \in BOOLEAN /\ StopWhileStarting \in BOOLEAN
    /\ None \notin Nat \X Nat

CERT_RELOAD_EXIT_CODE == 86

VARIABLES
    cert, key, away,  \* the originals, and whether the share is away
    staged,           \* the copies: <<cert, key>>, <<0, 0>> when there are none
    phase,            \* where run.sh and its child are
    known,            \* FeedListener._mtimes
    feed,             \* the listener: its server task and its own task
    main,             \* the calendar's server task
    stop,             \* the child's stop event
    code,             \* the child's exit code
    SHUTDOWN,         \* run.sh was asked to stop
    changes, restarts \* changes of the originals; exits for a reload

source == <<cert, key, away, changes>>
child == <<known, feed, main, stop, code>>
vars == <<source, child, staged, phase, SHUTDOWN, restarts>>

Versions == 0..MaxRenewals
Pairs == Versions \X Versions
\* "up": both are served; "alone": the calendar is, after the listener's own
\* task failed; "gone": the child has ended and its exit code is looked at.
Phases == {"stage cert", "stage key", "launch", "boot", "up", "alone", "closing",
           "gone", "sleep", "ended"}
\* "off", "serving" and "crashed" are the server's task; "leaving", "left" and
\* "failed" are FeedListener.run stopping its server, returned, and raised.
Feeds == {"off", "serving", "crashed", "leaving", "left", "failed"}

TypeOK ==
    /\ cert \in Versions /\ key \in Versions /\ away \in BOOLEAN
    /\ changes \in Nat /\ restarts \in Nat
    /\ staged \in Pairs /\ (phase # "stage key" => (staged[1] = 0 <=> staged[2] = 0))
    /\ phase \in Phases /\ known \in Pairs \cup {None}
    /\ feed \in Feeds /\ main \in {"up", "down"} /\ stop \in BOOLEAN
    /\ code \in {0, 1, 143, CERT_RELOAD_EXIT_CODE} /\ SHUTDOWN \in BOOLEAN

\* The add-on starts without certificates, or with a pair.
Init ==
    /\ cert \in {0, 1} \cap Versions /\ key = cert /\ away = FALSE
    /\ staged = <<0, 0>> /\ phase = "stage cert" /\ known = None
    /\ feed = "off" /\ main = "up" /\ stop = FALSE /\ code = 0
    /\ SHUTDOWN = FALSE /\ changes = 0 /\ restarts = 0

-----------------------------------------------------------------------------
(***************************************************************************)
(* The certificates.                                                       *)
(***************************************************************************)
\* cert_mtimes of the originals.
Fingerprint == IF away \/ cert = 0 \/ key = 0 THEN None ELSE <<cert, key>>

MayChange == RenewWhileStarting \/ phase \notin {"stage key", "launch", "boot"}
SourceChanges ==
    /\ MayChange /\ changes' = changes + 1
    /\ UNCHANGED <<child, staged, phase, SHUTDOWN, restarts>>

RenewCert ==
    /\ ~away /\ cert = key /\ cert < MaxRenewals /\ SourceChanges
    /\ cert' = cert + 1 /\ UNCHANGED <<key, away>>
RenewKey ==
    /\ ~away /\ cert # key /\ SourceChanges
    /\ key' = cert /\ UNCHANGED <<cert, away>>
\* The share goes only while there were few changes.
ShareGoes ==
    /\ ~away /\ changes < MaxChanges /\ SourceChanges
    /\ away' = TRUE /\ UNCHANGED <<cert, key>>
ShareReturns ==
    /\ away /\ SourceChanges
    /\ away' = FALSE /\ UNCHANGED <<cert, key>>

-----------------------------------------------------------------------------
(***************************************************************************)
(* run.sh.                                                                 *)
(***************************************************************************)
Shell == UNCHANGED <<source, child, SHUTDOWN, restarts>>

\* stage_certs: one copy after the other, none if one fails.
StageCert ==
    /\ phase = "stage cert" /\ Shell
    /\ IF away \/ cert = 0 THEN staged' = <<0, 0>> /\ phase' = "launch"
                           ELSE staged' = <<cert, 0>> /\ phase' = "stage key"
StageKey ==
    /\ phase = "stage key" /\ phase' = "launch" /\ Shell
    /\ staged' = IF away \/ key = 0 THEN <<0, 0>> ELSE <<staged[1], key>>

Launch ==
    /\ phase = "launch" /\ phase' = "boot"
    /\ known' = None /\ feed' = "off" /\ main' = "up" /\ stop' = FALSE /\ code' = 0
    /\ UNCHANGED <<source, staged, SHUTDOWN, restarts>>

\* The child is gone: its exit code decides.
MutLoops == code = CERT_RELOAD_EXIT_CODE
Loops == ~SHUTDOWN /\ code = CERT_RELOAD_EXIT_CODE
ChildGone ==
    /\ phase = "gone" /\ phase' = (IF Loops THEN "sleep" ELSE "ended")
    /\ Shell /\ UNCHANGED staged
Restart == phase = "sleep" /\ phase' = "stage cert" /\ Shell /\ UNCHANGED staged

\* forward_term: the child is told, unless it is one that is already gone; a
\* child that has no handler yet dies of it.
ChildDies == phase = "boot"
Stop ==
    /\ ~SHUTDOWN /\ SHUTDOWN' = TRUE /\ phase # "ended"
    /\ StopWhileStarting \/ phase \notin {"stage cert", "stage key", "launch", "sleep"}
    /\ phase' = IF ChildDies THEN "gone" ELSE phase
    /\ code' = IF ChildDies THEN 143 ELSE code
    /\ stop' = (stop \/ phase \in {"up", "alone", "closing"})
    /\ UNCHANGED <<source, staged, known, feed, main, restarts>>

\* The add-on is started again: a new container without copies.
AddonStarts ==
    /\ phase = "ended" /\ phase' = "stage cert" /\ SHUTDOWN' = FALSE
    /\ staged' = <<0, 0>> /\ UNCHANGED <<source, child, restarts>>

-----------------------------------------------------------------------------
(***************************************************************************)
(* app/serve.py.                                                           *)
(***************************************************************************)
InChild == UNCHANGED <<source, staged, SHUTDOWN>>
Readable == staged # <<0, 0>>

\* _start_server: a pair that does not match ends the server at once.
Started == IF staged[1] = staged[2] THEN "serving" ELSE "crashed"
\* _initial_check
InitialCheck ==
    /\ phase = "boot" /\ phase' = "up" /\ InChild
    /\ known' = Fingerprint
    /\ feed' = IF Fingerprint # None /\ Readable THEN Started ELSE "off"
    /\ UNCHANGED <<main, stop, code, restarts>>

\* decide_cert_action, for a server that is running or not.
MutActionOnCrash(running, new) ==
    IF new # None /\ (new # known \/ ~running) THEN "exit" ELSE "none"
MutActionWhileDown(running, new) ==
    IF new # None /\ new # known /\ running THEN "exit"
    ELSE IF ~running /\ new # None THEN "start" ELSE "none"
Action(running, new) ==
    IF new # None /\ new # known THEN "exit"
    ELSE IF ~running /\ new # None THEN "start" ELSE "none"

\* _check_certificates, once an hour.
HourlyCheck ==
    LET act == Action(feed = "serving", Fingerprint) IN
    /\ phase = "up" /\ feed \in {"off", "serving", "crashed"}
    /\ feed' = CASE act = "exit" -> "leaving"
                 [] act = "start" /\ Readable -> Started
                 [] OTHER -> IF feed = "crashed" THEN "off" ELSE feed
    /\ restarts' = IF act = "exit" THEN restarts + 1 ELSE restarts
    /\ UNCHANGED <<phase, known, main, stop, code>> /\ InChild

FeedTask(from, to) ==
    /\ phase \in {"up", "alone"} /\ feed \in from /\ feed' = to
    /\ UNCHANGED <<phase, known, main, stop, code, restarts>> /\ InChild
ServerCrashes == FeedTask({"serving"}, "crashed")
ListenerReturns == FeedTask({"leaving"}, "left")
ListenerFails == phase = "up" /\ FeedTask({"off", "serving", "crashed"}, "failed")

MainCrashes ==
    /\ phase \in {"up", "alone"} /\ main = "up" /\ main' = "down"
    /\ UNCHANGED <<phase, known, feed, stop, code, restarts>> /\ InChild

\* serve: the first task to end decides, and a failed listener only leaves
\* the calendar alone.
MutEnds == main = "down" \/ stop \/ feed \in {"left", "failed"}
Ends == main = "down" \/ stop \/ feed = "left"
Decides ==
    /\ phase \in {"up", "alone"}
    /\ \/ /\ Ends /\ phase' = "closing"
          /\ code' = IF feed = "left" /\ main = "up" /\ ~stop
                     THEN CERT_RELOAD_EXIT_CODE ELSE 0
       \/ /\ phase = "up" /\ feed = "failed" /\ ~Ends
          /\ phase' = "alone" /\ UNCHANGED code
    /\ UNCHANGED <<known, feed, main, stop, restarts>> /\ InChild

\* Everything is awaited; the exception of a failed task goes on.
Closes ==
    /\ phase = "closing" /\ phase' = "gone"
    /\ code' = IF feed = "failed" \/ main = "down" THEN 1 ELSE code
    /\ UNCHANGED <<known, feed, main, stop, restarts>> /\ InChild

-----------------------------------------------------------------------------
Scripts == StageCert \/ StageKey \/ Launch \/ ChildGone \/ Restart
Child == InitialCheck \/ HourlyCheck \/ ListenerReturns \/ Decides \/ Closes
World == RenewCert \/ RenewKey \/ ShareGoes \/ ShareReturns \/ Stop \/ AddonStarts
Failure == ServerCrashes \/ ListenerFails \/ MainCrashes
Next == Scripts \/ Child \/ World \/ Failure

Spec == Init /\ [][Next]_vars

\* The script and the child's tasks go on; the watch fires every hour.
Fairness ==
    /\ WF_vars(Scripts) /\ WF_vars(InitialCheck) /\ WF_vars(HourlyCheck)
    /\ WF_vars(ListenerReturns) /\ WF_vars(Decides) /\ WF_vars(Closes)
FairSpec == Spec /\ Fairness
-----------------------------------------------------------------------------
(***************************************************************************)
(* Properties.                                                             *)
(***************************************************************************)
\* The process restarts for a reload at most once for each change of the
\* originals, whatever is missing, mismatched, crashed or away: "The sleep
\* guards against a hot loop if restarts fail repeatedly", and there is none.
RestartsAreForChanges == restarts <= changes

\* The add-on ends because it was asked to or because the calendar crashed;
\* what becomes of the feed and its certificates never ends it: "The calendar
\* must never die because of the feed".
EndsForCause == phase = "ended" => SHUTDOWN \/ main = "down"

\* A pair that stays as it is is served, in the end and however often the
\* server crashes, unless the add-on ended or the listener's task failed: the
\* copies are staged anew for a renewal, also for one that was seen half done,
\* and for certificates that appear after a start without them.
Serves(v) == feed = "serving" /\ staged = <<v, v>>
RenewalServed ==
    \A v \in 1..MaxRenewals :
        <>[](Fingerprint = <<v, v>> /\ phase # "ended" /\ feed # "failed")
            => []<>Serves(v)

\* Asked to stop while a child is awaited, the script ends and starts no
\* other child, also when the child is just then leaving for a reload.
StopObeyed == SHUTDOWN ~> phase = "ended"
=============================================================================
