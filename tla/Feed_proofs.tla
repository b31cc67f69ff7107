--------------------------- MODULE Feed_proofs ---------------------------
(***************************************************************************)
(* Proofs about the feed listener.  First the process that serves it: type *)
(* correctness, that every restart for a reload answers a change of the    *)
(* certificates, that nothing but a stop or the calendar's own crash ends  *)
(* the add-on, and, for certificates that do not change while the process  *)
(* starts, that the watch compares them with what is served.  Then its     *)
(* rate limiter: lockouts last as long as they should and end when they    *)
(* were said to, misses lead to them, and the table of clients is bounded. *)
(***************************************************************************)
EXTENDS Supervisor, FeedLimiter, TLAPS, FiniteSetTheorems, WellFoundedInduction

-----------------------------------------------------------------------------
(***************************************************************************)
(* Type correctness.                                                       *)
(***************************************************************************)
SourceOK == /\ cert \in Versions /\ key \in Versions /\ away \in BOOLEAN
            /\ changes \in Nat
\* Between the two copies there is a first one.
StagedOK == /\ staged \in Pairs
            /\ phase # "stage key" => (staged[1] = 0 <=> staged[2] = 0)
            /\ phase = "stage key" => staged[1] # 0
ChildOK == /\ known \in Pairs \cup {None} /\ feed \in Feeds /\ main \in {"up", "down"}
           /\ stop \in BOOLEAN /\ code \in {0, 1, 143, CERT_RELOAD_EXIT_CODE}
ShellOK == phase \in Phases /\ SHUTDOWN \in BOOLEAN /\ restarts \in Nat
Typed == SourceOK /\ StagedOK /\ ChildOK /\ ShellOK

LEMMA TypedIsTypeOK == Typed => TypeOK
BY DEF Typed, TypeOK, SourceOK, StagedOK, ChildOK, ShellOK

LEMMA PairsArePairs ==
    /\ 0 \in Versions /\ <<0, 0>> \in Pairs
    /\ \A v, w \in Versions : <<v, w>> \in Pairs
    /\ \A p \in Pairs : p[1] \in Versions /\ p[2] \in Versions
BY SupervisorAssumption DEF Pairs, Versions

LEMMA InitTyped == Init => Typed
<1> SUFFICES ASSUME Init PROVE Typed
  OBVIOUS
<1>1. SourceOK
  BY DEF Init, SourceOK
<1>2. StagedOK
  BY PairsArePairs DEF Init, StagedOK
<1> QED
  BY <1>1, <1>2 DEF Init, Typed, ChildOK, ShellOK, Feeds, Phases

LEMMA FingerprintTyped == SourceOK => Fingerprint \in Pairs \cup {None}
BY PairsArePairs DEF SourceOK, Fingerprint

LEMMA SourceTyped == Typed /\ (RenewCert \/ RenewKey \/ ShareGoes \/ ShareReturns) => Typed'
<1> SUFFICES ASSUME Typed, RenewCert \/ RenewKey \/ ShareGoes \/ ShareReturns
             PROVE  Typed'
  OBVIOUS
<1>1. SourceChanges
  BY DEF RenewCert, RenewKey, ShareGoes, ShareReturns
<1>2. changes' \in Nat
  BY <1>1 DEF SourceChanges, Typed, SourceOK
<1>3. cert' \in Versions /\ key' \in Versions /\ away' \in BOOLEAN
  <2>1. CASE RenewCert
    BY <2>1, SupervisorAssumption DEF RenewCert, Typed, SourceOK, Versions
  <2>2. CASE RenewKey
    BY <2>2 DEF RenewKey, Typed, SourceOK
  <2>3. CASE ShareGoes \/ ShareReturns
    BY <2>3 DEF ShareGoes, ShareReturns, Typed, SourceOK
  <2> QED
    BY <2>1, <2>2, <2>3
<1> QED
  BY <1>1, <1>2, <1>3 DEF Typed, SourceOK, StagedOK, ChildOK, ShellOK, SourceChanges,
                          child

\* The originals and what is staged from them, when neither changes.
LEMMA KeptTyped ==
    /\ SourceOK /\ UNCHANGED source => SourceOK'
    /\ StagedOK /\ UNCHANGED staged /\ phase # "stage key" /\ phase' # "stage key"
         => StagedOK'
    /\ ChildOK /\ UNCHANGED child => ChildOK'
BY DEF SourceOK, StagedOK, ChildOK, source, child

LEMMA ScriptsTyped == Typed /\ Scripts => Typed'
<1> SUFFICES ASSUME Typed, Scripts PROVE Typed'
  OBVIOUS
<1>1. SourceOK'
  BY KeptTyped DEF Scripts, Typed, StageCert, StageKey, Launch, ChildGone, Restart, Shell
<1>2. StagedOK'
  <2>1. CASE StageCert
    <3>1. CASE away \/ cert = 0
      <4>1. staged' = <<0, 0>> /\ phase' = "launch"
        BY <2>1, <3>1 DEF StageCert
      <4> QED
        BY <4>1, PairsArePairs DEF StagedOK
    <3>2. CASE ~(away \/ cert = 0)
      <4>1. staged' = <<cert, 0>> /\ phase' = "stage key"
        BY <2>1, <3>2 DEF StageCert
      <4> QED
        BY <3>2, <4>1, PairsArePairs DEF Typed, SourceOK, StagedOK
    <3> QED
      BY <3>1, <3>2
  <2>2. CASE StageKey
    BY <2>2, PairsArePairs DEF StageKey, Typed, SourceOK, StagedOK
  <2>3. CASE Launch \/ ChildGone \/ Restart
    BY <2>3, KeptTyped DEF Launch, ChildGone, Restart, Typed
  <2> QED
    BY <2>1, <2>2, <2>3 DEF Scripts
<1>3. ChildOK'
  <2>1. CASE Launch
    BY <2>1 DEF Launch, ChildOK, Feeds
  <2>2. CASE ~Launch
    BY <2>2, KeptTyped DEF Scripts, StageCert, StageKey, ChildGone, Restart, Shell, Typed
  <2> QED
    BY <2>1, <2>2
<1>4. ShellOK'
  BY DEF Scripts, StageCert, StageKey, Launch, ChildGone, Restart, Shell, Typed,
         ShellOK, Phases
<1> QED
  BY <1>1, <1>2, <1>3, <1>4 DEF Typed

LEMMA ChildTyped == Typed /\ (Child \/ Failure) => Typed'
<1> SUFFICES ASSUME Typed, Child \/ Failure PROVE Typed'
  OBVIOUS
<1> USE DEF ListenerReturns, ServerCrashes, ListenerFails, FeedTask, Decides, Closes,
            MainCrashes, Child, Failure
<1>1. SourceOK' /\ UNCHANGED <<staged, SHUTDOWN>>
  BY KeptTyped DEF Typed, InitialCheck, HourlyCheck, InChild
<1>2. phase \in {"boot", "up", "alone", "closing"}
      /\ phase' \in {"up", "alone", "closing", "gone"}
  BY DEF InitialCheck, HourlyCheck
<1>3. StagedOK'
  BY <1>1, <1>2, KeptTyped DEF Typed
<1>4. ShellOK'
  <2>1. restarts' \in {restarts, restarts + 1}
    <3>1. CASE HourlyCheck
      BY <3>1 DEF HourlyCheck
    <3>2. CASE ~HourlyCheck
      BY <3>2 DEF InitialCheck
    <3> QED
      BY <3>1, <3>2
  <2> QED
    <3>1. phase' \in Phases
      BY <1>2 DEF Phases
    <3>2. SHUTDOWN' \in BOOLEAN
      BY <1>1, Zenon DEF Typed, ShellOK
    <3>3. restarts' \in Nat
      BY <2>1 DEF Typed, ShellOK
    <3> QED
      BY <3>1, <3>2, <3>3 DEF ShellOK
<1>5. known' \in Pairs \cup {None}
  BY FingerprintTyped DEF Typed, ChildOK, InitialCheck, HourlyCheck
<1>6. feed' \in Feeds
  BY DEF Typed, ChildOK, Feeds, InitialCheck, HourlyCheck, Started
<1>7. main' \in {"up", "down"} /\ stop' \in BOOLEAN
  BY DEF Typed, ChildOK, InitialCheck, HourlyCheck
<1>8. code' \in {0, 1, 143, CERT_RELOAD_EXIT_CODE}
  BY DEF Typed, ChildOK, InitialCheck, HourlyCheck
<1> QED
  BY <1>1, <1>3, <1>4, <1>5, <1>6, <1>7, <1>8 DEF Typed, ChildOK

LEMMA OutsideTyped == Typed /\ (Stop \/ AddonStarts) => Typed'
<1> SUFFICES ASSUME Typed, Stop \/ AddonStarts PROVE Typed'
  OBVIOUS
<1>1. CASE Stop
  <2>1. StagedOK'
    BY <1>1 DEF Stop, ChildDies, Typed, StagedOK
  <2>2. ChildOK' /\ ShellOK'
    BY <1>1 DEF Stop, ChildDies, Typed, ChildOK, ShellOK, Phases
  <2> QED
    BY <1>1, <2>1, <2>2, KeptTyped DEF Typed, Stop
<1>2. CASE AddonStarts
  <2>1. StagedOK'
    BY <1>2, PairsArePairs DEF AddonStarts, StagedOK
  <2> QED
    BY <1>2, <2>1, KeptTyped DEF Typed, AddonStarts, ShellOK, Phases
<1> QED
  BY <1>1, <1>2

LEMMA StepTyped == Typed /\ [Next]_vars => Typed'
<1> SUFFICES ASSUME Typed, [Next]_vars PROVE Typed'
  OBVIOUS
<1>1. CASE Next
  BY <1>1, SourceTyped, ScriptsTyped, ChildTyped, OutsideTyped DEF Next, World
<1>2. CASE UNCHANGED vars
  BY <1>2, KeptTyped DEF vars, Typed, StagedOK, ShellOK
<1> QED
  BY <1>1, <1>2

LEMMA AlwaysTyped == Spec => []Typed
BY InitTyped, StepTyped, PTL DEF Spec

\* Every reachable state is type correct: a copy of the certificate is never
\* left without a copy of the key, whenever the share goes away.
THEOREM TypeCorrect == Spec => []TypeOK
BY TypedIsTypeOK, AlwaysTyped, PTL

-----------------------------------------------------------------------------
(***************************************************************************)
(* Restarts.                                                               *)
(***************************************************************************)
\* The next look of the watch will end the process.
Due == /\ phase = "up" /\ feed \in {"off", "serving", "crashed"}
       /\ Fingerprint # None /\ Fingerprint # known

\* A process that is due to end has a change of its own to show for it.
Accounted == /\ restarts <= changes
             /\ Due => restarts < changes

LEMMA InitAccounted == Init => Accounted
<1> SUFFICES ASSUME Init PROVE Accounted
  OBVIOUS
<1>1. ~Due
  BY DEF Init, Due
<1>2. restarts = 0 /\ changes = 0
  BY DEF Init
<1> QED
  BY <1>1, <1>2 DEF Accounted

LEMMA SourceAccounted ==
    Typed /\ Accounted /\ (RenewCert \/ RenewKey \/ ShareGoes \/ ShareReturns)
        => Accounted'
<1> SUFFICES ASSUME Typed, Accounted, RenewCert \/ RenewKey \/ ShareGoes \/ ShareReturns
             PROVE  Accounted'
  OBVIOUS
<1>1. SourceChanges
  BY DEF RenewCert, RenewKey, ShareGoes, ShareReturns
<1> QED
  BY <1>1 DEF Typed, SourceOK, ShellOK, Accounted, SourceChanges

\* Steps that leave the originals alone make no process due.
LEMMA NothingNewIsDue ==
    ASSUME Typed, Accounted, UNCHANGED <<source, restarts>>, Due' => Due
    PROVE  Accounted'
BY DEF Typed, SourceOK, ShellOK, Accounted, source

LEMMA HourlyAccounted == Typed /\ Accounted /\ HourlyCheck => Accounted'
<1> SUFFICES ASSUME Typed, Accounted, HourlyCheck PROVE Accounted'
  OBVIOUS
<1>0. UNCHANGED <<cert, key, away, changes, known, phase>> /\ Fingerprint' = Fingerprint
  BY DEF HourlyCheck, InChild, source, Fingerprint
<1>1. CASE Action(feed = "serving", Fingerprint) = "exit"
  <2>1. Due
    BY <1>1 DEF HourlyCheck, Action, Due
  <2>2. restarts' = restarts + 1 /\ feed' = "leaving"
    BY <1>1 DEF HourlyCheck
  <2> QED
    BY <1>0, <2>1, <2>2 DEF Accounted, Due, Typed, SourceOK, ShellOK
<1>2. CASE Action(feed = "serving", Fingerprint) # "exit"
  <2>1. ~(Fingerprint # None /\ Fingerprint # known)
    BY <1>2 DEF Action
  <2>2. restarts' = restarts
    BY <1>2 DEF HourlyCheck
  <2> QED
    BY <1>0, <2>1, <2>2 DEF Accounted, Due
<1> QED
  BY <1>1, <1>2

LEMMA StepAccounted == Typed /\ Accounted /\ [Next]_vars => Accounted'
<1> SUFFICES ASSUME Typed, Accounted, [Next]_vars PROVE Accounted'
  OBVIOUS
<1>1. CASE Scripts \/ AddonStarts \/ Stop
  <2>1. UNCHANGED <<source, restarts>>
    BY <1>1 DEF Scripts, AddonStarts, Stop, StageCert, StageKey, Launch, ChildGone,
                Restart, Shell
  <2>2. Due' => Due
    BY <1>1, <2>1 DEF Scripts, AddonStarts, Stop, StageCert, StageKey, Launch,
                      ChildGone, Restart, Shell, Due, Fingerprint, source, child,
                      ChildDies
  <2> QED
    BY <2>1, <2>2, NothingNewIsDue
<1>2. CASE RenewCert \/ RenewKey \/ ShareGoes \/ ShareReturns
  BY <1>2, SourceAccounted
<1>3. CASE HourlyCheck
  BY <1>3, HourlyAccounted
<1>4. CASE InitialCheck
  <2>1. ~Due'
    BY <1>4 DEF InitialCheck, InChild, source, Due, Fingerprint
  <2> QED
    BY <1>4, <2>1, NothingNewIsDue DEF InitialCheck, InChild
<1>5. CASE ListenerReturns \/ Decides \/ Closes \/ Failure
  <2>1. UNCHANGED <<source, restarts, known>>
    BY <1>5 DEF ListenerReturns, Decides, Closes, Failure, ServerCrashes,
                ListenerFails, MainCrashes, FeedTask, InChild
  <2>2. Due' => Due
    BY <1>5, <2>1 DEF ListenerReturns, Decides, Closes, Failure, ServerCrashes,
                      ListenerFails, MainCrashes, FeedTask, Due, Fingerprint, source
  <2> QED
    BY <2>1, <2>2, NothingNewIsDue
<1>6. CASE UNCHANGED vars
  BY <1>6, NothingNewIsDue DEF vars, source, child, Due, Fingerprint
<1> QED
  BY <1>1, <1>2, <1>3, <1>4, <1>5, <1>6 DEF Next, Child, World

\* However often the share goes and the servers crash, the process ends for a
\* reload at most once for each change of the originals: there is no hot loop.
THEOREM RestartsAccounted == Spec => []RestartsAreForChanges
<1>1. Accounted => RestartsAreForChanges
  BY DEF Accounted, RestartsAreForChanges
<1> QED
  BY <1>1, InitAccounted, StepAccounted, AlwaysTyped, PTL DEF Spec

-----------------------------------------------------------------------------
(***************************************************************************)
(* Ends.                                                                   *)
(***************************************************************************)
\* A stop reaches the child through the script; what a child ends with is a
\* reload, unless there is a cause.
Cause == SHUTDOWN \/ main = "down"
Caused ==
    /\ phase \in {"boot", "up", "alone", "closing"} /\ stop => SHUTDOWN
    /\ phase = "alone" => feed = "failed"
    /\ phase = "closing" => Cause \/ (code = CERT_RELOAD_EXIT_CODE /\ feed = "left")
    /\ phase = "gone" => Cause \/ code = CERT_RELOAD_EXIT_CODE
    /\ phase = "ended" => Cause

LEMMA InitCaused == Init => Caused
BY DEF Init, Caused

LEMMA ShellCaused == Caused /\ (Scripts \/ AddonStarts \/ Stop) => Caused'
<1> SUFFICES ASSUME Caused, Scripts \/ AddonStarts \/ Stop PROVE Caused'
  OBVIOUS
<1> USE DEF Caused, Cause
<1>1. CASE StageCert \/ StageKey \/ Restart
  BY <1>1 DEF StageCert, StageKey, Restart, Shell, child
<1>2. CASE Launch
  BY <1>2 DEF Launch
<1>3. CASE ChildGone
  BY <1>3 DEF ChildGone, Loops, Shell, child
<1>4. CASE AddonStarts
  BY <1>4 DEF AddonStarts
<1>5. CASE Stop
  BY <1>5 DEF Stop, ChildDies
<1> QED
  BY <1>1, <1>2, <1>3, <1>4, <1>5 DEF Scripts

LEMMA ChildCaused == Typed /\ Caused /\ (Child \/ Failure) => Caused'
<1> SUFFICES ASSUME Typed, Caused, Child \/ Failure PROVE Caused'
  OBVIOUS
<1> USE DEF Caused, Cause, InChild
<1>1. CASE InitialCheck
  BY <1>1 DEF InitialCheck
<1>2. CASE HourlyCheck
  BY <1>2 DEF HourlyCheck
<1>3. CASE ListenerReturns \/ ServerCrashes \/ ListenerFails
  BY <1>3 DEF ListenerReturns, ServerCrashes, ListenerFails, FeedTask
<1>4. CASE Decides
  BY <1>4 DEF Decides, Ends, Typed, ChildOK
<1>5. CASE Closes
  BY <1>5 DEF Closes
<1>6. CASE MainCrashes
  BY <1>6 DEF MainCrashes
<1> QED
  BY <1>1, <1>2, <1>3, <1>4, <1>5, <1>6 DEF Child, Failure

LEMMA StepCaused == Typed /\ Caused /\ [Next]_vars => Caused'
<1> SUFFICES ASSUME Typed, Caused, [Next]_vars PROVE Caused'
  OBVIOUS
<1>1. CASE RenewCert \/ RenewKey \/ ShareGoes \/ ShareReturns
  BY <1>1 DEF Caused, Cause, RenewCert, RenewKey, ShareGoes, ShareReturns,
              SourceChanges, child
<1>2. CASE UNCHANGED vars
  BY <1>2 DEF Caused, Cause, vars, child
<1> QED
  BY <1>1, <1>2, ShellCaused, ChildCaused DEF Next, World

\* The add-on ends because it was asked to or because the calendar crashed,
\* never because of the feed, its certificates or their watch.
THEOREM EndsHaveCause == Spec => []EndsForCause
<1>1. Caused => EndsForCause
  BY DEF Caused, Cause, EndsForCause
<1> QED
  BY <1>1, InitCaused, StepCaused, AlwaysTyped, PTL DEF Spec

-----------------------------------------------------------------------------
(***************************************************************************)
(* What the watch compares.                                                *)
(***************************************************************************)
\* Copies that the process could read are copies of the versions it watches.
WatchesWhatItServes == phase = "up" /\ Readable => known = staged

\* While the process starts, the copies are those of the originals.
Fresh ==
    /\ phase = "stage key" => ~away /\ cert # 0 /\ staged = <<cert, 0>>
    /\ phase \in {"launch", "boot"} /\ Readable => Fingerprint = staged
    /\ WatchesWhatItServes

LEMMA InitFresh == Init => Fresh
BY DEF Init, Fresh, WatchesWhatItServes

LEMMA StepFresh == ~RenewWhileStarting /\ Typed /\ Fresh /\ [Next]_vars => Fresh'
<1> SUFFICES ASSUME ~RenewWhileStarting, Typed, Fresh, [Next]_vars PROVE Fresh'
  OBVIOUS
<1> USE DEF Fresh, WatchesWhatItServes, Readable, Fingerprint
<1>1. CASE RenewCert \/ RenewKey \/ ShareGoes \/ ShareReturns
  <2>1. SourceChanges
    BY <1>1 DEF RenewCert, RenewKey, ShareGoes, ShareReturns
  <2> QED
    BY <2>1 DEF SourceChanges, MayChange, child
<1>2. CASE StageCert
  BY <1>2 DEF StageCert, Shell, source, child
<1>3. CASE StageKey
  <2>1. phase' = "launch" /\ UNCHANGED <<cert, key, away>>
    BY <1>3 DEF StageKey, Shell, source
  <2>2. CASE away \/ key = 0
    <3>1. staged' = <<0, 0>>
      BY <1>3, <2>2 DEF StageKey
    <3> QED
      BY <2>1, <3>1
  <2>3. CASE ~(away \/ key = 0)
    <3>1. staged' = <<staged[1], key>>
      BY <1>3, <2>3 DEF StageKey
    <3>2. staged[1] = cert /\ cert # 0
      <4>1. staged = <<cert, 0>> /\ cert # 0
        BY <1>3 DEF StageKey
      <4> HIDE DEF Fresh
      <4> QED
        BY <4>1
    <3>3. Fingerprint' = <<cert, key>>
      BY <2>1, <2>3, <3>2
    <3>4. staged' = <<cert, key>>
      BY <3>1, <3>2
    <3> HIDE DEF Fingerprint, Readable
    <3> QED
      BY <2>1, <3>3, <3>4
  <2> QED
    BY <2>2, <2>3
<1>4. CASE Launch
  BY <1>4 DEF Launch, source
<1>5. CASE ChildGone \/ Restart \/ AddonStarts
  BY <1>5 DEF ChildGone, Restart, AddonStarts, Shell, source, child
<1>6. CASE InitialCheck
  BY <1>6 DEF InitialCheck, InChild, source
<1>7. CASE HourlyCheck \/ ListenerReturns \/ Failure
  BY <1>7 DEF HourlyCheck, ListenerReturns, Failure, ServerCrashes, ListenerFails,
              MainCrashes, FeedTask, InChild, source
<1>8. CASE Decides \/ Closes
  BY <1>8 DEF Decides, Closes, InChild, source
<1>9. CASE Stop
  BY <1>9 DEF Stop, ChildDies, source
<1>10. CASE UNCHANGED vars
  BY <1>10 DEF vars, source, child
<1> QED
  BY <1>1, <1>2, <1>3, <1>4, <1>5, <1>6, <1>7, <1>8, <1>9, <1>10
     DEF Next, Scripts, Child, World

\* When the certificates do not change between staging and the first look,
\* the watch knows exactly the versions that are served: whatever differs
\* from them later is a renewal, and every renewal differs from them.
THEOREM WatchIsOfServed == ~RenewWhileStarting => (Spec => []WatchesWhatItServes)
<1>1. Fresh => WatchesWhatItServes
  BY DEF Fresh
<1> SUFFICES ASSUME ~RenewWhileStarting PROVE Spec => []WatchesWhatItServes
  OBVIOUS
<1>2. Typed /\ Fresh /\ [Next]_vars => Fresh'
  BY StepFresh
<1> QED
  BY <1>1, <1>2, InitFresh, AlwaysTyped, PTL DEF Spec

-----------------------------------------------------------------------------
(***************************************************************************)
(* The limiter.                                                            *)
(***************************************************************************)
\* The well-ordering of the naturals, in the place of an induction over them.
LEMMA Least ==
    ASSUME NEW T \in SUBSET Nat, T # {}
    PROVE  \E x \in T : \A y \in T : x <= y
<1>1. IsWellFoundedOn(OpToRel(<, Nat), Nat)
  BY NatLessThanWellFounded
<1>2. PICK x \in T : \A y \in T : ~(<<y, x>> \in OpToRel(<, Nat))
  BY <1>1, WFMin
<1>3. \A y \in T : <<y, x>> \in OpToRel(<, Nat) <=> y < x
  BY DEF OpToRel
<1>4. ASSUME NEW y \in T PROVE x <= y
  <2>1. ~(y < x) /\ x \in Nat /\ y \in Nat
    BY <1>2, <1>3
  <2> QED
    BY <2>1
<1> QED
  BY <1>4

\* Timestamps are appended, so that they are in the order of their ages.
OldestFirst(ages) == \A i, j \in 1..Len(ages) : i <= j => ages[j] <= ages[i]

\* The k-th youngest.
Youngest(ages, k) == ages[Len(ages) - k + 1]

\* _purge stops at the first timestamp that is young enough.
LEMMA PurgedIs ==
    ASSUME NEW ages \in Seq(Nat), NEW window \in Nat, NEW n, n = Purged(ages, window)
    PROVE  /\ n \in 0..Len(ages)
           /\ \A i \in 1..n : ages[i] + 1 >= window
           /\ n < Len(ages) => ages[n + 1] + 1 < window
<1> DEFINE T == {i \in 1..(Len(ages) + 1) : i <= Len(ages) => ages[i] + 1 < window}
<1>1. Len(ages) \in Nat /\ \A i \in 1..Len(ages) : ages[i] \in Nat
  OBVIOUS
<1>2. Len(ages) + 1 \in T /\ T \in SUBSET Nat
  BY <1>1
<1>3. PICK x \in T : \A y \in T : x <= y
  BY <1>2, Least
<1> DEFINE m == x - 1
<1>4. m \in 0..Len(ages)
  BY <1>1, <1>3
<1>5. m < Len(ages) => ages[m + 1] + 1 < window
  BY <1>1, <1>3
<1>6. ASSUME NEW i \in 1..m PROVE ages[i] + 1 >= window
  <2>1. i \in 1..Len(ages) /\ i \notin T
    BY <1>1, <1>3
  <2> QED
    BY <1>1, <2>1
<1> QED
  BY <1>4, <1>5, <1>6 DEF Purged

\* What is left is what was there, a unit older.
LEMMA AgedIs ==
    ASSUME NEW ages \in Seq(Nat), NEW window \in Nat \ {0}, OldestFirst(ages),
           NEW left, left = Aged(ages, window)
    PROVE  /\ left \in Ages(window) /\ OldestFirst(left) /\ Len(left) <= Len(ages)
           /\ \A k \in 1..Len(left) : Youngest(left, k) = Youngest(ages, k) + 1
           /\ \A k \in 1..Len(ages) : Youngest(ages, k) + 1 < window => k <= Len(left)
<1> DEFINE n == Purged(ages, window)
<1> HIDE DEF n
<1>1. /\ n \in 0..Len(ages) /\ Len(ages) \in Nat
      /\ \A i \in 1..n : ages[i] + 1 >= window
      /\ n < Len(ages) => ages[n + 1] + 1 < window
  BY PurgedIs DEF n
<1>2. left = [i \in 1..(Len(ages) - n) |-> ages[n + i] + 1]
  BY DEF Aged, n
<1>3. \A i \in 1..(Len(ages) - n) : n + i \in 1..Len(ages) /\ ages[n + i] \in Nat
  BY <1>1
<1>4. Len(left) = Len(ages) - n
  BY <1>1, <1>2
<1>5. ASSUME NEW i \in 1..(Len(ages) - n) PROVE left[i] \in 0..(window - 1)
  <2>1. ages[n + i] <= ages[n + 1] /\ ages[n + 1] + 1 < window /\ ages[n + 1] \in Nat
    BY <1>1, <1>3 DEF OldestFirst
  <2> QED
    BY <1>2, <1>3, <2>1
<1>6. left \in Seq(0..(window - 1))
  BY <1>1, <1>2, <1>5
<1>7. OldestFirst(left)
  BY <1>1, <1>2, <1>3, <1>4 DEF OldestFirst
<1>8. \A k \in 1..Len(left) : Youngest(left, k) = Youngest(ages, k) + 1
  BY <1>1, <1>2, <1>4 DEF Youngest
<1>9. \A k \in 1..Len(ages) : Youngest(ages, k) + 1 < window => k <= Len(left)
  <2> TAKE k \in 1..Len(ages)
  <2>1. Len(ages) - k + 1 \in 1..Len(ages) /\ ages[Len(ages) - k + 1] \in Nat
    BY <1>1
  <2> QED
    BY <1>1, <1>4, <2>1 DEF Youngest
<1> QED
  BY <1>1, <1>4, <1>6, <1>7, <1>8, <1>9 DEF Ages

Ordered ==
    /\ \A c \in Clients : OldestFirst(requests[c]) /\ OldestFirst(failures[c])
    /\ OldestFirst(all) /\ OldestFirst(misses)

\* Of client c: while a lockout of its own making lasts, and from the moment an
\* answer told when it ends, the failure that has to age out is in between.
Decisive(c) == Youngest(failures[c], THRESHOLD)
LocksHold == \A c \in Clients : locked[c] > 0 =>
                 IsLocked(c) /\ Decisive(c) + locked[c] <= LOCKOUT
TellsTruth == \A c \in Clients : told[c] # NoClient /\ IsLocked(c) =>
                 Decisive(c) + told[c] >= LOCKOUT

\* The misses in a row are the newest failures of the client seen last.
RowIsKnown == \A k \in 1..Len(misses) :
                 /\ newest # NoClient /\ k <= Len(failures[newest])
                 /\ Youngest(failures[newest], k) = Youngest(misses, k)

\* The inductive invariant.
Limited == LimiterTypeOK /\ Ordered /\ LocksHold /\ TellsTruth /\ RowIsKnown

LEMMA EmptyIsTyped ==
    ASSUME NEW window \in Nat \ {0}
    PROVE  << >> \in Ages(window) /\ OldestFirst(<< >>) /\ Len(<< >>) = 0
BY DEF Ages, OldestFirst

LEMMA InitLimited == LimiterInit => Limited
<1> SUFFICES ASSUME LimiterInit PROVE Limited
  OBVIOUS
<1> USE LimiterAssumption
<1>1. /\ << >> \in Ages(RATE_WINDOW) /\ << >> \in Ages(LOCKOUT)
      /\ OldestFirst(<< >>) /\ Len(<< >>) = 0
  BY EmptyIsTyped
<1>2. LimiterTypeOK
  BY <1>1 DEF LimiterInit, LimiterTypeOK, Slots
<1>3. Ordered /\ LocksHold /\ RowIsKnown
  BY <1>1 DEF LimiterInit, Ordered, LocksHold, RowIsKnown
<1>4. TellsTruth
  BY DEF LimiterInit, TellsTruth
<1> QED
  BY <1>2, <1>3, <1>4 DEF Limited

\* A server that starts again has the limiter of the first one.
LEMMA StartLimited == ServerStarts => Limited'
<1> SUFFICES ASSUME ServerStarts PROVE Limited'
  OBVIOUS
<1> USE LimiterAssumption
<1>1. /\ << >> \in Ages(RATE_WINDOW) /\ << >> \in Ages(LOCKOUT)
      /\ OldestFirst(<< >>) /\ Len(<< >>) = 0
  BY EmptyIsTyped
<1>2. LimiterTypeOK'
  BY <1>1 DEF ServerStarts, LimiterTypeOK, Slots
<1>3. Ordered' /\ LocksHold' /\ RowIsKnown'
  BY <1>1 DEF ServerStarts, Ordered, LocksHold, RowIsKnown
<1>4. TellsTruth'
  BY DEF ServerStarts, TellsTruth
<1> QED
  BY <1>2, <1>3, <1>4 DEF Limited

LEMMA AgesAreNat ==
    ASSUME NEW window \in Nat, NEW ages \in Ages(window)
    PROVE  ages \in Seq(Nat) /\ Len(ages) \in Nat /\ \A i \in 1..Len(ages) : ages[i] \in 0..(window - 1)
BY DEF Ages

\* One more timestamp, of now.
LEMMA AppendNow ==
    ASSUME NEW window \in Nat \ {0}, NEW ages \in Ages(window), OldestFirst(ages),
           NEW more, more = Append(ages, 0)
    PROVE  /\ more \in Ages(window) /\ OldestFirst(more) /\ Len(more) = Len(ages) + 1
           /\ Youngest(more, 1) = 0
           /\ \A k \in 1..Len(ages) : Youngest(more, k + 1) = Youngest(ages, k)
<1>1. Len(ages) \in Nat /\ \A i \in 1..Len(ages) : ages[i] \in 0..(window - 1)
  BY AgesAreNat
<1>2. /\ Len(more) = Len(ages) + 1 /\ more[Len(ages) + 1] = 0
      /\ \A i \in 1..Len(ages) : more[i] = ages[i]
  BY DEF Ages
<1>3. more \in Ages(window)
  BY DEF Ages
<1>4. OldestFirst(more)
  BY <1>1, <1>2 DEF OldestFirst
<1>5. \A k \in 1..Len(ages) : Youngest(more, k + 1) = Youngest(ages, k)
  BY <1>1, <1>2 DEF Youngest
<1>6. Youngest(more, 1) = 0
  BY <1>1, <1>2 DEF Youngest
<1> QED
  BY <1>2, <1>3, <1>4, <1>5, <1>6

LEMMA TickLimited == Limited /\ Tick => Limited'
<1> SUFFICES ASSUME Limited, Tick PROVE Limited'
  OBVIOUS
<1> USE LimiterAssumption
<1>1. ASSUME NEW window \in {RATE_WINDOW, LOCKOUT}, NEW ages \in Ages(window), OldestFirst(ages),
             NEW left, left = Aged(ages, window)
      PROVE  /\ left \in Ages(window) /\ OldestFirst(left) /\ Len(left) <= Len(ages)
             /\ Len(ages) \in Nat /\ Len(left) \in Nat
             /\ \A k \in 1..Len(left) : Youngest(left, k) = Youngest(ages, k) + 1
             /\ \A k \in 1..Len(ages) : Youngest(ages, k) + 1 < window => k <= Len(left)
  <2>1. ages \in Seq(Nat)
    BY <1>1, AgesAreNat
  <2>2. /\ left \in Ages(window) /\ OldestFirst(left) /\ Len(left) <= Len(ages)
        /\ \A k \in 1..Len(left) : Youngest(left, k) = Youngest(ages, k) + 1
        /\ \A k \in 1..Len(ages) : Youngest(ages, k) + 1 < window => k <= Len(left)
    BY <1>1, <2>1, AgedIs
  <2> QED
    BY <1>1, <2>1, <2>2, AgesAreNat
<1>2. \A c \in Clients : /\ requests'[c] = Aged(requests[c], RATE_WINDOW)
                         /\ failures'[c] = Aged(failures[c], LOCKOUT)
                         /\ requests[c] \in Ages(RATE_WINDOW)
                         /\ failures[c] \in Ages(LOCKOUT)
                         /\ locked'[c] = Less(locked[c]) /\ locked[c] \in 0..LOCKOUT
                         /\ told'[c] = IF told[c] = NoClient THEN NoClient ELSE Less(told[c])
                         /\ told[c] \in 0..LOCKOUT \cup {NoClient}
  BY DEF Tick, Limited, LimiterTypeOK
<1>3. /\ all' = Aged(all, RATE_WINDOW) /\ all \in Ages(RATE_WINDOW)
      /\ misses' = Aged(misses, LOCKOUT) /\ misses \in Ages(LOCKOUT)
  BY DEF Tick, Limited, LimiterTypeOK
<1>4. \A c \in Clients : /\ requests'[c] \in Ages(RATE_WINDOW) /\ OldestFirst(requests'[c])
                         /\ failures'[c] \in Ages(LOCKOUT) /\ OldestFirst(failures'[c])
  BY <1>1, <1>2 DEF Limited, Ordered
<1>5. /\ all' \in Ages(RATE_WINDOW) /\ OldestFirst(all') /\ Len(all') <= Len(all)
      /\ misses' \in Ages(LOCKOUT) /\ OldestFirst(misses')
  BY <1>1, <1>3 DEF Limited, Ordered
<1>6. Ordered'
  BY <1>4, <1>5 DEF Ordered
<1>7. LimiterTypeOK'
  <2>1. requests' \in [Clients -> Ages(RATE_WINDOW)]
    BY <1>4 DEF Tick
  <2>2. failures' \in [Clients -> Ages(LOCKOUT)]
    BY <1>4 DEF Tick
  <2>3. Len(all') <= MAX_GLOBAL
    BY <1>3, <1>5, AgesAreNat DEF Limited, LimiterTypeOK
  <2>4. locked' \in [Clients -> 0..LOCKOUT] /\ told' \in [Clients -> 0..LOCKOUT \cup {NoClient}]
    BY <1>2 DEF Tick, Less
  <2>5. UNCHANGED <<entries, before, pending, newest>>
    BY DEF Tick
  <2> QED
    BY <1>5, <2>1, <2>2, <2>3, <2>4, <2>5 DEF Limited, LimiterTypeOK
<1>8. ASSUME NEW c \in Clients
      PROVE  /\ Len(failures'[c]) \in Nat /\ Len(failures[c]) \in Nat /\ Len(failures'[c]) <= Len(failures[c])
             /\ \A k \in 1..Len(failures'[c]) : Youngest(failures'[c], k) = Youngest(failures[c], k) + 1
             /\ \A k \in 1..Len(failures[c]) :
                   Youngest(failures[c], k) + 1 < LOCKOUT => k <= Len(failures'[c])
             /\ \A k \in 1..Len(failures[c]) : Youngest(failures[c], k) \in 0..(LOCKOUT - 1)
  <2>1. \A k \in 1..Len(failures[c]) : Youngest(failures[c], k) \in 0..(LOCKOUT - 1)
    BY <1>2, AgesAreNat DEF Youngest
  <2> QED
    BY <1>1, <1>2, <2>1 DEF Limited, Ordered
<1>9. LocksHold'
  <2> SUFFICES ASSUME NEW c \in Clients, locked'[c] > 0
               PROVE  Len(failures'[c]) >= THRESHOLD /\ Youngest(failures'[c], THRESHOLD) + locked'[c] <= LOCKOUT
    BY DEF LocksHold, IsLocked, Decisive
  <2>1. locked'[c] = locked[c] - 1 /\ locked[c] \in Nat
    BY <1>2 DEF Less
  <2>2. Len(failures[c]) >= THRESHOLD /\ Youngest(failures[c], THRESHOLD) + locked[c] <= LOCKOUT
    BY <2>1 DEF Limited, LocksHold, IsLocked, Decisive
  <2>3. THRESHOLD \in 1..Len(failures[c])
    BY <1>8, <2>2
  <2>4. THRESHOLD <= Len(failures'[c])
    BY <1>8, <2>1, <2>2, <2>3
  <2> QED
    BY <1>8, <2>1, <2>2, <2>3, <2>4
<1>10. TellsTruth'
  <2> SUFFICES ASSUME NEW c \in Clients, told'[c] # NoClient, Len(failures'[c]) >= THRESHOLD
               PROVE  Youngest(failures'[c], THRESHOLD) + told'[c] >= LOCKOUT
    BY DEF TellsTruth, IsLocked, Decisive
  <2>1. told[c] \in 0..LOCKOUT /\ told'[c] = Less(told[c]) /\ told[c] # NoClient
    BY <1>2
  <2>2. THRESHOLD \in 1..Len(failures'[c]) /\ THRESHOLD \in 1..Len(failures[c])
    BY <1>8
  <2>3. Youngest(failures[c], THRESHOLD) + told[c] >= LOCKOUT
    BY <1>8, <2>1, <2>2 DEF Limited, TellsTruth, IsLocked, Decisive
  <2> QED
    BY <1>8, <2>1, <2>2, <2>3 DEF Less
<1>11. RowIsKnown'
  <2> SUFFICES ASSUME NEW k \in 1..Len(misses')
               PROVE  /\ newest # NoClient /\ k <= Len(failures'[newest])
                      /\ Youngest(failures'[newest], k) = Youngest(misses', k)
    BY DEF RowIsKnown, Tick
  <2>1. /\ Len(misses) \in Nat /\ Len(misses') \in Nat /\ k \in 1..Len(misses)
        /\ Youngest(misses', k) = Youngest(misses, k) + 1
    BY <1>1, <1>3 DEF Limited, Ordered
  <2>2. /\ newest # NoClient /\ k <= Len(failures[newest])
        /\ Youngest(failures[newest], k) = Youngest(misses, k)
    BY <2>1 DEF Limited, RowIsKnown
  <2>3. newest \in Clients
    BY <2>2 DEF Limited, LimiterTypeOK
  <2>4. Youngest(misses', k) \in 0..(LOCKOUT - 1)
    <3>1. \A i \in 1..Len(misses') : misses'[i] \in 0..(LOCKOUT - 1)
      BY <1>5, AgesAreNat
    <3>2. Len(misses') - k + 1 \in 1..Len(misses')
      BY <2>1
    <3> QED
      BY <3>1, <3>2 DEF Youngest
  <2>5. k \in 1..Len(failures[newest])
    BY <1>8, <2>2, <2>3
  <2>6. k <= Len(failures'[newest])
    BY <1>8, <2>1, <2>2, <2>3, <2>4, <2>5
  <2> QED
    BY <1>8, <2>1, <2>2, <2>3, <2>6
<1> QED
  BY <1>6, <1>7, <1>9, <1>10, <1>11 DEF Limited

\* A client is seen: it, and nobody who was locked out, is in the table
\* afterwards with its timestamps.
LEMMA TrackKeeps ==
    ASSUME LimiterTypeOK, NEW c \in Clients,
           NEW mine \in Ages(RATE_WINDOW), NEW wrong \in Ages(LOCKOUT),
           OldestFirst(mine), OldestFirst(wrong), Ordered, Track(c, mine, wrong)
    PROVE  /\ entries' \subseteq Clients /\ before' \subseteq entries' \X entries'
           /\ \A d, e \in entries' : d = e <=> <<d, e>> \notin before' /\ <<e, d>> \notin before'
           /\ requests' \in [Clients -> Ages(RATE_WINDOW)]
           /\ failures' \in [Clients -> Ages(LOCKOUT)]
           /\ newest' = c /\ failures'[c] = wrong
           /\ \A d \in Clients \ {c} : \/ failures'[d] = failures[d]
                                       \/ failures'[d] = << >> /\ ~IsLocked(d)
           /\ \A d \in Clients : OldestFirst(requests'[d]) /\ OldestFirst(failures'[d])
<1> USE LimiterAssumption
<1>1. PICK out \in SUBSET (entries \cup {c}) :
        LET kept == entries \ (out \cup {c})
        IN  /\ Evicts(c, out)
            /\ entries' = (entries \cup {c}) \ out
            /\ before' = (before \cap (kept \X kept)) \cup (kept \X {c})
            /\ requests' = [d \in Clients |-> IF d \in out THEN << >>
                                              ELSE IF d = c THEN mine ELSE requests[d]]
            /\ failures' = [d \in Clients |-> IF d \in out THEN << >>
                                              ELSE IF d = c THEN wrong ELSE failures[d]]
            /\ newest' = c
  BY DEF Track
<1>2. /\ c \notin out /\ out \subseteq entries
      /\ \A d \in out : ~IsLocked(d)
  BY <1>1 DEF Evicts, Evictable
<1> DEFINE kept == entries \ (out \cup {c})
<1>3. entries' = kept \cup {c} /\ entries' \subseteq Clients
  BY <1>1, <1>2 DEF LimiterTypeOK
<1>4. before' = (before \cap (kept \X kept)) \cup (kept \X {c})
  BY <1>1
<1>5. before' \subseteq entries' \X entries'
  BY <1>3, <1>4
<1>6. \A d, e \in entries' : d = e <=> <<d, e>> \notin before' /\ <<e, d>> \notin before'
  <2>1. \A d, e \in kept : <<d, e>> \in before' <=> <<d, e>> \in before
    BY <1>4
  <2>2. \A d \in kept : <<d, c>> \in before' /\ <<c, d>> \notin before' /\ d # c
    BY <1>4
  <2>3. <<c, c>> \notin before'
    BY <1>4
  <2>4. \A d, e \in kept : d = e <=> <<d, e>> \notin before /\ <<e, d>> \notin before
    BY DEF LimiterTypeOK
  <2> QED
    BY <1>3, <2>1, <2>2, <2>3, <2>4
<1>7. << >> \in Ages(RATE_WINDOW) /\ << >> \in Ages(LOCKOUT) /\ OldestFirst(<< >>)
  BY EmptyIsTyped
<1>8. \A d \in Clients :
        /\ requests'[d] = IF d \in out THEN << >> ELSE IF d = c THEN mine ELSE requests[d]
        /\ failures'[d] = IF d \in out THEN << >> ELSE IF d = c THEN wrong ELSE failures[d]
  BY <1>1
<1>9. \A d \in Clients : /\ requests[d] \in Ages(RATE_WINDOW) /\ OldestFirst(requests[d])
                         /\ failures[d] \in Ages(LOCKOUT) /\ OldestFirst(failures[d])
  BY DEF LimiterTypeOK, Ordered
<1>10. requests' \in [Clients -> Ages(RATE_WINDOW)]
  BY <1>1, <1>7, <1>9
<1>11. failures' \in [Clients -> Ages(LOCKOUT)]
  BY <1>1, <1>7, <1>9
<1>12. ASSUME NEW d \in Clients PROVE OldestFirst(requests'[d]) /\ OldestFirst(failures'[d])
  <2>1. CASE d \in out
    <3>1. requests'[d] = << >> /\ failures'[d] = << >>
      BY <1>8, <2>1
    <3> QED
      BY <1>7, <3>1
  <2>2. CASE d \notin out /\ d = c
    <3>1. requests'[d] = mine /\ failures'[d] = wrong
      BY <1>8, <2>2
    <3> QED
      BY <3>1
  <2>3. CASE d \notin out /\ d # c
    <3>1. requests'[d] = requests[d] /\ failures'[d] = failures[d]
      BY <1>8, <2>3
    <3> QED
      BY <1>9, <3>1
  <2> QED
    BY <2>1, <2>2, <2>3
<1>13. failures'[c] = wrong
  BY <1>2, <1>8
<1>14. \A d \in Clients \ {c} : \/ failures'[d] = failures[d]
                                \/ failures'[d] = << >> /\ ~IsLocked(d)
  BY <1>2, <1>8
<1>15. newest' = c
  BY <1>1
<1> HIDE LimiterAssumption DEF kept
<1>16. /\ entries' \subseteq Clients /\ before' \subseteq entries' \X entries'
       /\ requests' \in [Clients -> Ages(RATE_WINDOW)]
       /\ failures' \in [Clients -> Ages(LOCKOUT)]
       /\ newest' = c /\ failures'[c] = wrong
  BY <1>3, <1>5, <1>10, <1>11, <1>13, <1>15
<1> QED
  BY <1>6, <1>12, <1>14, <1>16, Zenon

\* A step at which c is seen, after which it has these timestamps, is locked
\* out for l and was told t.
Seeing(c, mine, wrong, l, t) ==
    /\ mine \in Ages(RATE_WINDOW) /\ OldestFirst(mine)
    /\ wrong \in Ages(LOCKOUT) /\ OldestFirst(wrong)
    /\ Track(c, mine, wrong)
    /\ all' \in Ages(RATE_WINDOW) /\ OldestFirst(all') /\ Len(all') <= MAX_GLOBAL
    /\ pending' \in [Slots -> Clients \cup {NoClient}]
    /\ l \in 0..LOCKOUT /\ locked' = [locked EXCEPT ![c] = l]
    /\ l > 0 => Len(wrong) >= THRESHOLD /\ Youngest(wrong, THRESHOLD) + l <= LOCKOUT
    /\ t \in 0..LOCKOUT \cup {NoClient} /\ told' = [told EXCEPT ![c] = t]
    /\ t # NoClient /\ Len(wrong) >= THRESHOLD => Youngest(wrong, THRESHOLD) + t >= LOCKOUT
    /\ misses' \in Ages(LOCKOUT) /\ OldestFirst(misses')
    /\ \A k \in 1..Len(misses') :
          k <= Len(wrong) /\ Youngest(wrong, k) = Youngest(misses', k)

LEMMA SeenLimited ==
    ASSUME Limited, NEW c \in Clients, NEW mine, NEW wrong, NEW l, NEW t,
           Seeing(c, mine, wrong, l, t)
    PROVE  Limited'
<1> USE LimiterAssumption DEF Seeing
<1>1. /\ entries' \subseteq Clients /\ before' \subseteq entries' \X entries'
      /\ \A d, e \in entries' : d = e <=> <<d, e>> \notin before' /\ <<e, d>> \notin before'
      /\ requests' \in [Clients -> Ages(RATE_WINDOW)]
      /\ failures' \in [Clients -> Ages(LOCKOUT)]
      /\ newest' = c /\ failures'[c] = wrong
      /\ \A d \in Clients \ {c} : \/ failures'[d] = failures[d]
                                  \/ failures'[d] = << >> /\ ~IsLocked(d)
      /\ \A d \in Clients : OldestFirst(requests'[d]) /\ OldestFirst(failures'[d])
  BY TrackKeeps DEF Limited
<1>2. /\ locked \in [Clients -> 0..LOCKOUT] /\ told \in [Clients -> 0..LOCKOUT \cup {NoClient}]
  BY DEF Limited, LimiterTypeOK
<1>3. LimiterTypeOK'
  <2>1. locked' \in [Clients -> 0..LOCKOUT] /\ told' \in [Clients -> 0..LOCKOUT \cup {NoClient}]
    BY <1>2
  <2> QED
    BY <1>1, <2>1 DEF LimiterTypeOK
<1>4. Ordered'
  BY <1>1 DEF Ordered
<1>5. Len(<< >>) = 0
  OBVIOUS
<1>6. LocksHold'
  <2> SUFFICES ASSUME NEW d \in Clients, locked'[d] > 0
               PROVE  Len(failures'[d]) >= THRESHOLD /\ Youngest(failures'[d], THRESHOLD) + locked'[d] <= LOCKOUT
    BY DEF LocksHold, IsLocked, Decisive
  <2>1. CASE d = c
    BY <1>1, <1>2, <2>1
  <2>2. CASE d # c
    <3>1. locked'[d] = locked[d]
      BY <1>2, <2>2
    <3>2. Len(failures[d]) >= THRESHOLD /\ Youngest(failures[d], THRESHOLD) + locked[d] <= LOCKOUT
      BY <3>1 DEF Limited, LocksHold, IsLocked, Decisive
    <3>3. failures'[d] = failures[d]
      BY <1>1, <2>2, <3>2 DEF IsLocked
    <3> QED
      BY <3>1, <3>2, <3>3
  <2> QED
    BY <2>1, <2>2
<1>7. TellsTruth'
  <2> SUFFICES ASSUME NEW d \in Clients, told'[d] # NoClient, Len(failures'[d]) >= THRESHOLD
               PROVE  Youngest(failures'[d], THRESHOLD) + told'[d] >= LOCKOUT
    BY DEF TellsTruth, IsLocked, Decisive
  <2>1. CASE d = c
    BY <1>1, <1>2, <2>1
  <2>2. CASE d # c
    <3>1. told'[d] = told[d]
      BY <1>2, <2>2
    <3>2. failures'[d] = failures[d]
      BY <1>1, <1>5, <2>2
    <3> QED
      BY <3>1, <3>2 DEF Limited, TellsTruth, IsLocked, Decisive
  <2> QED
    BY <2>1, <2>2
<1>8. RowIsKnown'
  <2>1. newest' # NoClient
    BY <1>1
  <2> QED
    BY <1>1, <2>1 DEF RowIsKnown
<1> QED
  BY <1>3, <1>4, <1>6, <1>7, <1>8 DEF Limited

\* The misses in a row, as the client seen last has them.
LEMMA RowOf ==
    ASSUME Limited, NEW c \in Clients
    PROVE  /\ MissesOf(c) \in Ages(LOCKOUT) /\ OldestFirst(MissesOf(c))
           /\ Len(MissesOf(c)) <= Len(failures[c])
           /\ \A k \in 1..Len(MissesOf(c)) :
                 /\ k <= Len(failures[c])
                 /\ Youngest(failures[c], k) = Youngest(MissesOf(c), k)
<1> USE LimiterAssumption
<1>1. /\ misses \in Ages(LOCKOUT) /\ OldestFirst(misses) /\ Len(misses) \in Nat
      /\ failures[c] \in Ages(LOCKOUT) /\ Len(failures[c]) \in Nat
  BY AgesAreNat DEF Limited, LimiterTypeOK, Ordered
<1>2. CASE newest = c
  <2>1. \A k \in 1..Len(misses) :
          k <= Len(failures[c]) /\ Youngest(failures[c], k) = Youngest(misses, k)
    BY <1>2 DEF Limited, RowIsKnown
  <2>2. Len(misses) <= Len(failures[c])
    BY <1>1, <2>1
  <2> QED
    BY <1>1, <1>2, <2>1, <2>2 DEF MissesOf
<1>3. CASE newest # c
  <2>1. MissesOf(c) = << >>
    BY <1>3 DEF MissesOf
  <2> QED
    BY <1>1, <2>1, EmptyIsTyped
<1> QED
  BY <1>2, <1>3

\* What is known of a client.
LEMMA Known ==
    ASSUME Limited, NEW c \in Clients
    PROVE  /\ requests[c] \in Ages(RATE_WINDOW) /\ OldestFirst(requests[c])
           /\ failures[c] \in Ages(LOCKOUT) /\ OldestFirst(failures[c])
           /\ all \in Ages(RATE_WINDOW) /\ OldestFirst(all) /\ Len(all) \in Nat
           /\ pending \in [Slots -> Clients \cup {NoClient}]
           /\ locked[c] \in 0..LOCKOUT /\ locked = [locked EXCEPT ![c] = locked[c]]
           /\ told[c] \in 0..LOCKOUT \cup {NoClient} /\ told = [told EXCEPT ![c] = told[c]]
           /\ locked[c] > 0 => /\ Len(failures[c]) >= THRESHOLD
                               /\ Youngest(failures[c], THRESHOLD) + locked[c] <= LOCKOUT
           /\ told[c] # NoClient /\ Len(failures[c]) >= THRESHOLD =>
                 Youngest(failures[c], THRESHOLD) + told[c] >= LOCKOUT
<1>1. /\ requests[c] \in Ages(RATE_WINDOW) /\ failures[c] \in Ages(LOCKOUT)
      /\ all \in Ages(RATE_WINDOW)
      /\ pending \in [Slots -> Clients \cup {NoClient}]
      /\ locked \in [Clients -> 0..LOCKOUT] /\ told \in [Clients -> 0..LOCKOUT \cup {NoClient}]
  BY DEF Limited, LimiterTypeOK
<1>2. Len(all) \in Nat
  BY <1>1, AgesAreNat, LimiterAssumption
<1>3. OldestFirst(requests[c]) /\ OldestFirst(failures[c]) /\ OldestFirst(all)
  BY DEF Limited, Ordered
<1>4. locked = [locked EXCEPT ![c] = locked[c]] /\ told = [told EXCEPT ![c] = told[c]]
  BY <1>1
<1> QED
  BY <1>1, <1>2, <1>3, <1>4 DEF Limited, LocksHold, TellsTruth, Decisive, IsLocked

\* The same of a client that has not missed the token.
Keeping(c, mine, t) ==
    /\ mine \in Ages(RATE_WINDOW) /\ OldestFirst(mine)
    /\ Track(c, mine, failures[c]) /\ misses' = MissesOf(c)
    /\ all' \in Ages(RATE_WINDOW) /\ OldestFirst(all') /\ Len(all') <= MAX_GLOBAL
    /\ pending' \in [Slots -> Clients \cup {NoClient}]
    /\ locked' = [locked EXCEPT ![c] = locked[c]]
    /\ t \in 0..LOCKOUT \cup {NoClient} /\ told' = [told EXCEPT ![c] = t]
    /\ t # NoClient /\ Len(failures[c]) >= THRESHOLD =>
          Youngest(failures[c], THRESHOLD) + t >= LOCKOUT

LEMMA KeptLimited ==
    ASSUME Limited, NEW c \in Clients, NEW mine, NEW t, Keeping(c, mine, t)
    PROVE  Limited'
<1>1. /\ failures[c] \in Ages(LOCKOUT) /\ OldestFirst(failures[c])
      /\ locked[c] \in 0..LOCKOUT
      /\ locked[c] > 0 => /\ Len(failures[c]) >= THRESHOLD
                          /\ Youngest(failures[c], THRESHOLD) + locked[c] <= LOCKOUT
  BY Known
<1>2. /\ misses' \in Ages(LOCKOUT) /\ OldestFirst(misses')
      /\ \A k \in 1..Len(misses') :
            k <= Len(failures[c]) /\ Youngest(failures[c], k) = Youngest(misses', k)
  BY RowOf DEF Keeping
<1>3. Seeing(c, mine, failures[c], locked[c], t)
  BY <1>1, <1>2 DEF Seeing, Keeping
<1> QED
  BY <1>3, SeenLimited

LEMMA RefusedLimited ==
    ASSUME Limited, NEW c \in Clients,
           RefusedAsLocked(c) \/ RefusedByRate(c)
    PROVE  Limited'
<1> USE LimiterAssumption
<1>1. /\ Track(c, requests[c], failures[c]) /\ misses' = MissesOf(c)
      /\ UNCHANGED <<all, pending, locked>>
  BY DEF RefusedAsLocked, RefusedByRate
<1>2. PICK t \in 0..LOCKOUT \cup {NoClient} :
        /\ told' = [told EXCEPT ![c] = t]
        /\ t # NoClient /\ Len(failures[c]) >= THRESHOLD =>
              Youngest(failures[c], THRESHOLD) + t >= LOCKOUT
  <2>1. CASE RefusedByRate(c)
    BY <2>1, Known DEF RefusedByRate
  <2>2. CASE RefusedAsLocked(c)
    <3>1. told' = [told EXCEPT ![c] = LOCKOUT - Youngest(failures[c], THRESHOLD)]
      BY <2>2 DEF RefusedAsLocked, UnlockIn, Youngest
    <3>2. Youngest(failures[c], THRESHOLD) \in 0..(LOCKOUT - 1)
      <4>1. Len(failures[c]) >= THRESHOLD /\ Len(failures[c]) \in Nat
        BY <2>2, Known, AgesAreNat DEF RefusedAsLocked, IsLocked
      <4>2. Len(failures[c]) - THRESHOLD + 1 \in 1..Len(failures[c])
        BY <4>1
      <4> QED
        BY <4>2, Known, AgesAreNat DEF Youngest
    <3>3. LOCKOUT - Youngest(failures[c], THRESHOLD) \in 0..LOCKOUT
      BY <3>2
    <3>4. Youngest(failures[c], THRESHOLD) + (LOCKOUT - Youngest(failures[c], THRESHOLD)) >= LOCKOUT
      BY <3>2
    <3> QED
      BY <3>1, <3>3, <3>4
  <2> QED
    BY <2>1, <2>2
<1>3. locked' = [locked EXCEPT ![c] = locked[c]] /\ Len(all') <= MAX_GLOBAL
  BY <1>1, Known DEF Limited, LimiterTypeOK
<1>4. /\ all' \in Ages(RATE_WINDOW) /\ OldestFirst(all')
      /\ pending' \in [Slots -> Clients \cup {NoClient}]
  BY <1>1, Known
<1>5. Keeping(c, requests[c], t)
  BY <1>1, <1>2, <1>3, <1>4, Known DEF Keeping
<1> QED
  BY <1>5, KeptLimited

LEMMA AdmittedLimited ==
    ASSUME Limited, NEW c \in Clients, Admitted(c)
    PROVE  Limited'
<1> USE LimiterAssumption
<1>1. /\ Track(c, Append(requests[c], 0), failures[c]) /\ misses' = MissesOf(c)
      /\ all' = Append(all, 0) /\ UNCHANGED <<locked, told>> /\ Len(all) < MAX_GLOBAL
  BY DEF Admitted, Arrives
<1>2. Append(requests[c], 0) \in Ages(RATE_WINDOW) /\ OldestFirst(Append(requests[c], 0))
  BY AppendNow, Known
<1>3. all' \in Ages(RATE_WINDOW) /\ OldestFirst(all') /\ Len(all') <= MAX_GLOBAL
  <2>1. all \in Ages(RATE_WINDOW) /\ OldestFirst(all) /\ Len(all) \in Nat
    BY Known
  <2>2. all' \in Ages(RATE_WINDOW) /\ OldestFirst(all') /\ Len(all') = Len(all) + 1
    BY <1>1, <2>1, AppendNow
  <2> QED
    BY <1>1, <2>1, <2>2
<1>4. pending' \in [Slots -> Clients \cup {NoClient}]
  BY Known DEF Admitted
<1>5. locked' = [locked EXCEPT ![c] = locked[c]] /\ told' = [told EXCEPT ![c] = told[c]]
  BY <1>1, Known
<1>6. Keeping(c, Append(requests[c], 0), told[c])
  BY <1>1, <1>2, <1>3, <1>4, <1>5, Known DEF Keeping
<1> QED
  BY <1>6, KeptLimited

LEMMA MissedLimited ==
    ASSUME Limited, NEW s \in Slots, MissedToken(s)
    PROVE  Limited'
<1> USE LimiterAssumption
<1> DEFINE c == pending[s]
           wrong == Append(failures[c], 0)
           l == IF Len(wrong) >= THRESHOLD THEN UnlockIn(wrong) ELSE locked[c]
<1>1. c \in Clients
  BY DEF MissedToken, Limited, LimiterTypeOK
<1>2. /\ Track(c, requests[c], wrong) /\ misses' = Append(MissesOf(c), 0)
      /\ pending' = [pending EXCEPT ![s] = NoClient] /\ all' = all
      /\ locked' = [locked EXCEPT ![c] = l] /\ told' = [told EXCEPT ![c] = NoClient]
  <2>1. locked' = [locked EXCEPT ![c] = IF Len(wrong) >= THRESHOLD
                                        THEN UnlockIn(wrong) ELSE @]
    BY DEF MissedToken
  <2> QED
    BY <1>1, <2>1 DEF MissedToken
<1> HIDE DEF c
<1>3. /\ failures[c] \in Ages(LOCKOUT) /\ OldestFirst(failures[c])
      /\ Len(failures[c]) \in Nat
  BY <1>1, Known, AgesAreNat
<1>4. /\ wrong \in Ages(LOCKOUT) /\ OldestFirst(wrong) /\ Len(wrong) = Len(failures[c]) + 1
      /\ Youngest(wrong, 1) = 0
      /\ \A k \in 1..Len(failures[c]) : Youngest(wrong, k + 1) = Youngest(failures[c], k)
  <2>1. LOCKOUT \in Nat \ {0} /\ wrong = Append(failures[c], 0)
    OBVIOUS
  <2> HIDE LimiterAssumption DEF wrong
  <2> QED
    BY <1>3, <2>1, AppendNow
<1> DEFINE row == MissesOf(c)
<1>5. /\ misses' \in Ages(LOCKOUT) /\ OldestFirst(misses') /\ Len(misses') = Len(row) + 1
      /\ Len(row) \in Nat /\ Youngest(misses', 1) = 0
      /\ \A k \in 1..Len(row) : Youngest(misses', k + 1) = Youngest(row, k)
  <2>1. LOCKOUT \in Nat \ {0} /\ misses' = Append(row, 0)
    BY <1>2
  <2>2. row \in Ages(LOCKOUT) /\ OldestFirst(row)
    BY <1>1, RowOf
  <2>3. Len(row) \in Nat
    BY <2>1, <2>2, AgesAreNat
  <2> HIDE LimiterAssumption DEF row
  <2>4. /\ misses' \in Ages(LOCKOUT) /\ OldestFirst(misses') /\ Len(misses') = Len(row) + 1
        /\ Youngest(misses', 1) = 0
        /\ \A k \in 1..Len(row) : Youngest(misses', k + 1) = Youngest(row, k)
    BY <2>1, <2>2, AppendNow
  <2> QED
    BY <2>3, <2>4
<1>6. ASSUME NEW k \in 1..Len(misses') PROVE k <= Len(wrong) /\ Youngest(wrong, k) = Youngest(misses', k)
  <2>1. CASE k = 1
    BY <1>3, <1>4, <1>5, <2>1
  <2>2. CASE k # 1
    <3> DEFINE j == k - 1
    <3>1. j \in 1..Len(row) /\ k = j + 1
      BY <1>5, <2>2
    <3>2. j \in 1..Len(failures[c]) /\ Youngest(failures[c], j) = Youngest(row, j)
      BY <1>1, <1>3, <3>1, RowOf
    <3>3. Youngest(wrong, j + 1) = Youngest(failures[c], j) /\ Youngest(misses', j + 1) = Youngest(row, j)
      BY <1>4, <1>5, <3>1, <3>2
    <3> HIDE DEF j
    <3> QED
      BY <1>3, <1>4, <3>1, <3>2, <3>3
  <2> QED
    BY <2>1, <2>2
<1>7. /\ l \in 0..LOCKOUT
      /\ l > 0 => Len(wrong) >= THRESHOLD /\ Youngest(wrong, THRESHOLD) + l <= LOCKOUT
  <2>1. CASE Len(wrong) >= THRESHOLD
    <3>1. l = LOCKOUT - Youngest(wrong, THRESHOLD)
      BY <2>1 DEF UnlockIn, Youngest
    <3>2. Len(wrong) - THRESHOLD + 1 \in 1..Len(wrong)
      BY <1>3, <1>4, <2>1
    <3>3. Youngest(wrong, THRESHOLD) \in 0..(LOCKOUT - 1)
      BY <1>4, <3>2, AgesAreNat DEF Youngest
    <3> QED
      BY <2>1, <3>1, <3>3
  <2>2. CASE ~(Len(wrong) >= THRESHOLD)
    <3>1. l = locked[c] /\ Len(failures[c]) < THRESHOLD
      BY <1>3, <1>4, <2>2
    <3>2. locked[c] = 0
      BY <1>1, <1>3, <3>1, Known
    <3> QED
      BY <3>1, <3>2
  <2> QED
    BY <2>1, <2>2
<1>8. /\ pending' \in [Slots -> Clients \cup {NoClient}]
      /\ all' \in Ages(RATE_WINDOW) /\ OldestFirst(all') /\ Len(all') <= MAX_GLOBAL
  BY <1>1, <1>2, Known DEF Limited, LimiterTypeOK
<1>9. requests[c] \in Ages(RATE_WINDOW) /\ OldestFirst(requests[c])
  BY <1>1, Known
<1> HIDE DEF wrong, l
<1>10. Seeing(c, requests[c], wrong, l, NoClient)
  BY <1>2, <1>4, <1>5, <1>6, <1>7, <1>8, <1>9 DEF Seeing
<1> QED
  BY <1>1, <1>10, SeenLimited

LEMMA LimitedStep ==
    Limited /\ [LimiterNext]_limiter => Limited'
<1> SUFFICES ASSUME Limited, [LimiterNext]_limiter PROVE Limited'
  OBVIOUS
<1>1. CASE \E c \in Clients : Request(c)
  BY <1>1, RefusedLimited, AdmittedLimited DEF Request
<1>2. ASSUME NEW s \in Slots, Answered(s) PROVE Limited'
  <2>1. /\ UNCHANGED <<entries, before, requests, failures, all, locked, told, newest, misses>>
        /\ pending' = [pending EXCEPT ![s] = NoClient]
    BY <1>2 DEF Answered, table
  <2>2. LimiterTypeOK'
    BY <2>1 DEF Limited, LimiterTypeOK
  <2> QED
    BY <2>1, <2>2 DEF Limited, Ordered, LocksHold, TellsTruth, RowIsKnown, Decisive, IsLocked
<1>3. ASSUME NEW s \in Slots, MissedToken(s) PROVE Limited'
  BY <1>3, MissedLimited
<1>4. CASE Tick
  BY <1>4, TickLimited
<1>5. CASE ServerStarts
  BY <1>5, StartLimited
<1>6. CASE UNCHANGED limiter
  BY <1>6 DEF limiter, table, Limited, LimiterTypeOK, Ordered, LocksHold,
              TellsTruth, RowIsKnown, Decisive, IsLocked
<1> QED
  BY <1>1, <1>2, <1>3, <1>4, <1>5, <1>6 DEF LimiterNext

\* The limiter's state is of its type: the table's order is that of its
\* entries, and no timestamp outlives its window.
THEOREM LimiterTypeCorrect == LimiterSpec => []LimiterTypeOK
<1>1. Limited => LimiterTypeOK
  BY DEF Limited
<1> QED
  BY <1>1, InitLimited, LimitedStep, PTL DEF LimiterSpec

\* A client is free again when the Retry-After it was told has passed, also
\* when more of its requests failed than it takes to lock it out.
THEOREM LockoutsEndAsTold == LimiterSpec => []LockoutEndsAsTold
<1>1. Limited => LockoutEndsAsTold
  <2> SUFFICES ASSUME Limited, NEW c \in Clients, told[c] = 0, IsLocked(c) PROVE FALSE
    BY DEF LockoutEndsAsTold
  <2>1. told[c] # NoClient /\ LOCKOUT \in Nat /\ THRESHOLD \in Nat \ {0}
    BY LimiterAssumption
  <2>2. Decisive(c) + 0 >= LOCKOUT
    BY <2>1 DEF Limited, TellsTruth
  <2>3. Len(failures[c]) \in Nat /\ \A i \in 1..Len(failures[c]) : failures[c][i] \in 0..(LOCKOUT - 1)
    BY <2>1, Known, AgesAreNat
  <2>4. Len(failures[c]) - THRESHOLD + 1 \in 1..Len(failures[c])
    BY <2>1, <2>3 DEF IsLocked
  <2> QED
    BY <2>1, <2>2, <2>3, <2>4 DEF Decisive, Youngest
<1> QED
  BY <1>1, InitLimited, LimitedStep, PTL DEF LimiterSpec

\* Misses in a row lock the client out, however full the table is.
THEOREM MissesDoLockOut == LimiterSpec => []MissesLockOut
<1>1. Limited => MissesLockOut
  BY LimiterAssumption DEF Limited, RowIsKnown, MissesLockOut, IsLocked
<1> QED
  BY <1>1, InitLimited, LimitedStep, PTL DEF LimiterSpec

\* Nobody is admitted while its own lockout lasts: no other client's request
\* makes the limiter forget it.
THEOREM LockoutsHold == LimiterSpec => LockoutHolds
<1>1. Limited /\ [LimiterNext]_limiter =>
        [\A s \in Slots, c \in Clients :
            pending'[s] = c /\ pending[s] # c => locked[c] = 0]_limiter
  <2> SUFFICES ASSUME Limited, LimiterNext, NEW s \in Slots, NEW c \in Clients,
                      pending'[s] = c, pending[s] # c
               PROVE  locked[c] = 0
    OBVIOUS
  <2>1. c # NoClient /\ pending \in [Slots -> Clients \cup {NoClient}]
    BY LimiterAssumption DEF Limited, LimiterTypeOK
  <2>2. Admitted(c)
    BY <2>1 DEF LimiterNext, Request, RefusedAsLocked, RefusedByRate,
               Admitted, Answered, MissedToken, Tick, ServerStarts
  <2>3. ~IsLocked(c)
    BY <2>2 DEF Admitted
  <2> QED
    BY <2>3, Known DEF IsLocked
<1> QED
  BY <1>1, InitLimited, LimitedStep, PTL DEF LimiterSpec, LockoutHolds

\* The eviction goes on until the table fits or only locked clients are left.
LEMMA TrackBounds ==
    ASSUME LimiterTypeOK, NEW c \in Clients, NEW mine, NEW wrong,
           Track(c, mine, wrong)
    PROVE  \/ Cardinality(entries') <= MAX_TRACKED_IPS
           \/ \A d \in entries' \ {newest'} : IsLocked(d)'
<1>1. PICK out \in SUBSET (entries \cup {c}) :
        /\ Evicts(c, out) /\ newest' = c
        /\ entries' = (entries \cup {c}) \ out
        /\ failures' = [d \in Clients |-> IF d \in out THEN << >>
                                          ELSE IF d = c THEN wrong ELSE failures[d]]
  BY DEF Track
<1>2. entries \subseteq Clients
  BY DEF LimiterTypeOK
<1>3. CASE Size(c, out) <= MAX_TRACKED_IPS
  <2> DEFINE S == entries \cup {c}
  <2> HIDE DEF S
  <2>1. IsFiniteSet(Clients) /\ S \subseteq Clients /\ out \subseteq S
    BY <1>1, <1>2, LimiterAssumption DEF S
  <2>2. IsFiniteSet(S) /\ IsFiniteSet(out)
    BY <2>1, FS_Subset
  <2>3. S \cap out = out
    BY <2>1
  <2>4. Cardinality(S \ out) = Cardinality(S) - Cardinality(out)
    BY <2>2, <2>3, FS_Difference
  <2>5. Size(c, out) = Cardinality(S) - Cardinality(out)
    BY DEF Size, S
  <2>6. entries' = S \ out
    BY <1>1 DEF S
  <2> QED
    BY <1>3, <2>4, <2>5, <2>6
<1>4. CASE out = Evictable(c)
  <2> SUFFICES ASSUME NEW d \in entries' \ {newest'} PROVE IsLocked(d)'
    OBVIOUS
  <2>1. d \in entries /\ d # c /\ d \notin out
    BY <1>1
  <2>2. IsLocked(d)
    BY <1>4, <2>1 DEF Evictable
  <2>3. failures'[d] = failures[d]
    BY <1>1, <1>2, <2>1
  <2> QED
    BY <2>2, <2>3 DEF IsLocked
<1> QED
  BY <1>1, <1>3, <1>4 DEF Evicts

\* Whenever the table changes, it fits or holds nobody but locked clients and
\* the one just seen.
THEOREM TableStaysBounded == LimiterSpec => TableIsBounded
<1>1. Limited /\ [LimiterNext]_limiter =>
        [entries' # entries =>
            \/ Cardinality(entries') <= MAX_TRACKED_IPS
            \/ \A d \in entries' \ {newest'} : IsLocked(d)']_limiter
  <2> SUFFICES ASSUME Limited, LimiterNext, entries' # entries
               PROVE  \/ Cardinality(entries') <= MAX_TRACKED_IPS
                      \/ \A d \in entries' \ {newest'} : IsLocked(d)'
    OBVIOUS
  <2>1. CASE ServerStarts
    BY <2>1 DEF ServerStarts
  <2>2. CASE \E c \in Clients : Request(c)
    BY <2>2, TrackBounds DEF Limited, Request, RefusedAsLocked,
                            RefusedByRate, Admitted
  <2>3. ASSUME NEW s \in Slots, MissedToken(s)
        PROVE  \/ Cardinality(entries') <= MAX_TRACKED_IPS
               \/ \A d \in entries' \ {newest'} : IsLocked(d)'
    <3> DEFINE c == pending[s]
    <3>1. c \in Clients /\ Track(c, requests[c], Append(failures[c], 0))
      BY <2>3 DEF MissedToken, Limited, LimiterTypeOK
    <3> HIDE DEF c
    <3> QED
      BY <3>1, TrackBounds DEF Limited
  <2>4. entries' = entries \/ ~(Tick \/ \E s \in Slots : Answered(s))
    BY DEF Tick, Answered, table
  <2> QED
    BY <2>1, <2>2, <2>3, <2>4 DEF LimiterNext
<1> QED
  BY <1>1, InitLimited, LimitedStep, PTL DEF LimiterSpec, TableIsBounded
=============================================================================
