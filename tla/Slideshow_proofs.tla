--------------------------- MODULE Slideshow_proofs ---------------------------
(***************************************************************************)
(* Proofs about the slideshow: type correctness for every share, and, for  *)
(* a share that stays as it is during a scan or a pick that does not       *)
(* overlap a rebuild, that the index does not erode, that no photo repeats *)
(* within a cycle and that delete requests are kept.                       *)
(***************************************************************************)
EXTENDS Slideshow, TLAPS

-----------------------------------------------------------------------------
(***************************************************************************)
(* Type correctness.                                                       *)
(***************************************************************************)
LEMMA InitTyped == Init => TypeOK
<1> SUFFICES ASSUME Init PROVE TypeOK
  OBVIOUS
<1>1. StoredOK
  BY DEF Init, StoredOK
<1>2. PickOK /\ ScanOK /\ DeleteOK
  BY DEF Init, PickOK, ScanOK, DeleteOK, NoPick, NoScan, NoDelete
<1> QED
  BY <1>1, <1>2, SlideshowAssumption DEF Init, TypeOK

LEMMA EventTyped ==
    ASSUME events \in 0..MaxEvents, Event
    PROVE  events' \in 0..MaxEvents
BY SlideshowAssumption DEF Event

LEMMA PickTyped == TypeOK /\ Pick => TypeOK'
<1> SUFFICES ASSUME TypeOK, Pick PROVE TypeOK'
  OBVIOUS
<1> USE DEF TypeOK, config, share, tables, history
<1>1. CASE SelectUnshown
  <2>1. \/ picking' = [at |-> "reset", path |-> NoPath, valid |-> TRUE]
        \/ \E p \in photos : picking' = [at |-> "mark", path |-> p, valid |-> TRUE]
    BY <1>1 DEF SelectUnshown, Unshown, Eligible
  <2>2. photos' = photos
    BY <1>1 DEF SelectUnshown
  <2>3. PickOK'
    <3>1. CASE picking' = [at |-> "reset", path |-> NoPath, valid |-> TRUE]
      BY <3>1 DEF PickOK
    <3>2. ASSUME NEW p \in photos,
                 picking' = [at |-> "mark", path |-> p, valid |-> TRUE]
          PROVE  PickOK'
      <4>1. p \in Paths
        BY DEF StoredOK
      <4> QED
        BY <2>2, <3>2, <4>1 DEF PickOK
    <3> QED
      BY <2>1, <3>1, <3>2
  <2> QED
    BY <1>1, <2>3 DEF SelectUnshown, StoredOK, ScanOK, DeleteOK
<1>2. CASE MarkShown
  <2>1. PickOK'
    BY <1>2 DEF MarkShown, NoPick, PickOK
  <2>2. shown' \subseteq photos'
    BY <1>2 DEF MarkShown, StoredOK, PickOK
  <2>3. picking.path \in Paths
    BY <1>2 DEF MarkShown, PickOK, StoredOK
  <2> QED
    BY <1>2, <2>1, <2>2, <2>3 DEF MarkShown, StoredOK, ScanOK, DeleteOK
<1>3. CASE ResetAndPick
  <2>1. PickOK'
    BY <1>3 DEF ResetAndPick, NoPick, PickOK
  <2> QED
    BY <1>3, <2>1 DEF ResetAndPick, Eligible, ResetSet, StoredOK, ScanOK, DeleteOK
<1> QED
  BY <1>1, <1>2, <1>3 DEF Pick

\* The scan thread.
LEMMA ScanTyped == TypeOK /\ Scan => TypeOK'
<1> SUFFICES ASSUME TypeOK, Scan PROVE TypeOK'
  OBVIOUS
<1> USE DEF TypeOK, config, share, tables, history
<1>1. CASE StartScan
  <2> DEFINE available == {d \in dirs : DirIsAvailable(d)}
  <2>1. scan' = [NoScan EXCEPT !.at = "walk", !.absent = dirs \ available,
                               !.todo = {p \in Paths : DirOf[p] \in available},
                               !.gone = Away]
    BY <1>1 DEF StartScan
  <2>2. ScanOK'
    BY <2>1 DEF NoScan, Away, StoredOK, ScanOK
  <2> QED
    BY <1>1, <2>2 DEF StartScan, StoredOK, PickOK, DeleteOK
<1>2. CASE ReadIndex
  <2>1. ScanOK'
    BY <1>2 DEF ReadIndex, Kept, ScanOK, StoredOK
  <2> QED
    BY <1>2, <2>1 DEF ReadIndex, StoredOK, PickOK, DeleteOK
<1>3. CASE ReplacePhotos
  <2>1. StoredOK'
    BY <1>3 DEF ReplacePhotos, CarriedOver, StoredOK, ScanOK
  <2>2. PickOK'
    BY <1>3 DEF ReplacePhotos, StoredOK, PickOK
  <2>3. ScanOK' /\ DeleteOK'
    BY <1>3 DEF ReplacePhotos, NoScan, ScanOK, DeleteOK
  <2> QED
    BY <1>3, <2>1, <2>2, <2>3 DEF ReplacePhotos
<1>4. ASSUME NEW p \in Paths, WalkPath(p) PROVE TypeOK'
  <2>1. ScanOK'
    BY <1>4 DEF WalkPath, ScanOK
  <2> QED
    BY <1>4, <2>1 DEF WalkPath, StoredOK, PickOK, DeleteOK
<1> QED
  BY <1>1, <1>2, <1>3, <1>4 DEF Scan

\* The event loop's other handlers.
LEMMA HandlersTyped ==
    ASSUME TypeOK, NEW p \in Paths
    PROVE  /\ ServeMissing(p) => TypeOK'
           /\ Mark(p) => TypeOK'
           /\ Unmark(p) => TypeOK'
           /\ Rotate(p) => TypeOK'
<1> USE DEF TypeOK, config, share, tables, history
<1>1. ASSUME ServeMissing(p) PROVE TypeOK'
  <2>1. StoredOK'
    BY <1>1 DEF ServeMissing, DropEntry, StoredOK
  <2>2. PickOK'
    BY <1>1 DEF ServeMissing, LoopFree, NoPick, PickOK
  <2> QED
    BY <1>1, <2>1, <2>2 DEF ServeMissing, DropEntry, ScanOK, DeleteOK
<1>2. ASSUME Mark(p) PROVE TypeOK'
  <2>1. events' \in 0..MaxEvents
    BY <1>2, EventTyped DEF Mark
  <2>2. PickOK'
    BY <1>2 DEF Mark, PickOK
  <2> QED
    BY <1>2, <2>1, <2>2 DEF Mark, StoredOK, ScanOK, DeleteOK
<1>3. ASSUME Unmark(p) PROVE TypeOK'
  <2>1. events' \in 0..MaxEvents
    BY <1>3, EventTyped DEF Unmark
  <2>2. PickOK'
    BY <1>3 DEF Unmark, PickOK
  <2> QED
    BY <1>3, <2>1, <2>2 DEF Unmark, StoredOK, ScanOK, DeleteOK
<1>4. ASSUME Rotate(p) PROVE TypeOK'
  <2>1. events' \in 0..MaxEvents
    BY <1>4, EventTyped DEF Rotate
  <2>2. PickOK'
    BY <1>4 DEF Rotate, PickOK
  <2> QED
    BY <1>4, <2>1, <2>2 DEF Rotate, StoredOK, ScanOK, DeleteOK
<1> QED
  BY <1>1, <1>2, <1>3, <1>4

LEMMA ConfigTyped ==
    ASSUME TypeOK
    PROVE  /\ \A ds \in SUBSET Dirs : Configure(ds) => TypeOK'
           /\ SwitchVideos => TypeOK'
<1> USE DEF TypeOK, config, share, tables, history
<1>1. ASSUME NEW ds \in SUBSET Dirs, Configure(ds) PROVE TypeOK'
  <2>1. events' \in 0..MaxEvents
    BY <1>1, EventTyped DEF Configure
  <2>2. ScanOK'
    BY <1>1 DEF Configure, ScanOK
  <2>3. StoredOK' /\ PickOK'
    BY <1>1 DEF Configure, StoredOK, PickOK
  <2> QED
    BY <1>1, <2>1, <2>2, <2>3 DEF Configure, StoredOK, DeleteOK
<1>2. ASSUME SwitchVideos PROVE TypeOK'
  <2>1. events' \in 0..MaxEvents
    BY <1>2, EventTyped DEF SwitchVideos
  <2>2. StoredOK' /\ PickOK'
    BY <1>2 DEF SwitchVideos, StoredOK, PickOK
  <2> QED
    BY <1>2, <2>1, <2>2 DEF SwitchVideos, ScanOK, DeleteOK
<1> QED
  BY <1>1, <1>2

\* The sweep of orphaned flags.
LEMMA SweepTyped ==
    ASSUME TypeOK
    PROVE  /\ StartSweep => TypeOK'
           /\ \A p \in Paths : SweepFlag(p) => TypeOK'
<1> USE DEF TypeOK, config, share, tables, history
<1>1. ASSUME StartSweep PROVE TypeOK'
  BY <1>1 DEF StartSweep, StoredOK, PickOK, ScanOK, DeleteOK
<1>2. ASSUME NEW p \in Paths, SweepFlag(p) PROVE TypeOK'
  <2>1. StoredOK'
    BY <1>2 DEF SweepFlag, StoredOK
  <2> QED
    BY <1>2, <2>1 DEF SweepFlag, PickOK, ScanOK, DeleteOK
<1> QED
  BY <1>1, <1>2

\* A deletion through Home Assistant.
LEMMA LeavesTyped ==
    ASSUME TypeOK, NEW p \in Paths, Leaves(p)
    PROVE  files' \subseteq Paths /\ ScanOK' /\ lapsed' \subseteq Paths
BY DEF TypeOK, Leaves, StoredOK, ScanOK

LEMMA DeletionTyped ==
    ASSUME TypeOK
    PROVE  /\ \A p \in Paths : RequestDelete(p) => TypeOK'
           /\ Unlink => TypeOK'
           /\ DeleteConfirmed => TypeOK'
           /\ DeleteFailed => TypeOK'
<1> USE DEF TypeOK, config, share, tables, history
<1>1. ASSUME NEW p \in Paths, RequestDelete(p) PROVE TypeOK'
  BY <1>1 DEF RequestDelete, StoredOK, PickOK, ScanOK, DeleteOK
<1>2. ASSUME Unlink PROVE TypeOK'
  <2>1. deleting.path \in Paths
    BY <1>2 DEF Unlink, Visible, StoredOK
  <2>2. files' \subseteq Paths /\ ScanOK' /\ lapsed' \subseteq Paths
    BY <1>2, <2>1, LeavesTyped DEF Unlink
  <2> QED
    BY <1>2, <2>2 DEF Unlink, StoredOK, PickOK, DeleteOK
<1>3. ASSUME DeleteConfirmed PROVE TypeOK'
  <2>1. StoredOK'
    BY <1>3 DEF DeleteConfirmed, DropEntry, StoredOK
  <2>2. PickOK' /\ DeleteOK'
    BY <1>3 DEF DeleteConfirmed, LoopFree, NoPick, NoDelete, PickOK, DeleteOK
  <2> QED
    BY <1>3, <2>1, <2>2 DEF DeleteConfirmed, DropEntry, ScanOK
<1>4. ASSUME DeleteFailed PROVE TypeOK'
  BY <1>4 DEF DeleteFailed, NoDelete, StoredOK, PickOK, ScanOK, DeleteOK
<1> QED
  BY <1>1, <1>2, <1>3, <1>4

\* The share.
LEMMA ShareTyped ==
    ASSUME TypeOK
    PROVE  /\ \A d \in Dirs : ShareFlaps(d) => TypeOK'
           /\ \A p \in Paths : FileVanishes(p) \/ FileAppears(p) => TypeOK'
<1> USE DEF TypeOK, config, share, tables, history
<1>1. ASSUME NEW d \in Dirs, ShareFlaps(d) PROVE TypeOK'
  <2>1. events' \in 0..MaxEvents
    BY <1>1, EventTyped DEF ShareFlaps
  <2>2. StoredOK'
    BY <1>1 DEF ShareFlaps, StoredOK
  <2> QED
    BY <1>1, <2>1, <2>2 DEF ShareFlaps, PickOK, ScanOK, DeleteOK
<1>2. ASSUME NEW p \in Paths, FileVanishes(p) PROVE TypeOK'
  <2>1. events' \in 0..MaxEvents
    BY <1>2, EventTyped DEF FileVanishes
  <2>2. files' \subseteq Paths /\ ScanOK' /\ lapsed' \subseteq Paths
    BY <1>2, LeavesTyped DEF FileVanishes
  <2> QED
    BY <1>2, <2>1, <2>2 DEF FileVanishes, StoredOK, PickOK, DeleteOK
<1>3. ASSUME NEW p \in Paths, FileAppears(p) PROVE TypeOK'
  <2>1. events' \in 0..MaxEvents
    BY <1>3, EventTyped DEF FileAppears
  <2> QED
    BY <1>3, <2>1 DEF FileAppears, StoredOK, PickOK, ScanOK, DeleteOK
<1> QED
  BY <1>1, <1>2, <1>3

LEMMA StepTyped == TypeOK /\ [Next]_vars => TypeOK'
<1> SUFFICES ASSUME TypeOK, [Next]_vars PROVE TypeOK'
  OBVIOUS
<1>1. CASE Pick \/ Scan
  BY <1>1, PickTyped, ScanTyped
<1>2. ASSUME NEW p \in Paths,
             \/ ServeMissing(p) \/ Mark(p) \/ Unmark(p) \/ Rotate(p)
             \/ SweepFlag(p) \/ RequestDelete(p) \/ FileVanishes(p) \/ FileAppears(p)
      PROVE  TypeOK'
  BY <1>2, HandlersTyped, SweepTyped, DeletionTyped, ShareTyped
<1>3. CASE \/ \E ds \in SUBSET Dirs : Configure(ds)
           \/ \E d \in Dirs : ShareFlaps(d)
           \/ SwitchVideos \/ StartSweep \/ Unlink \/ DeleteConfirmed \/ DeleteFailed
  BY <1>3, ConfigTyped, SweepTyped, DeletionTyped, ShareTyped
<1>4. CASE UNCHANGED vars
  BY <1>4 DEF vars, config, share, tables, history, TypeOK, StoredOK, PickOK, ScanOK,
              DeleteOK
<1> QED
  BY <1>1, <1>2, <1>3, <1>4 DEF Next

\* Every reachable state is type correct (app/slideshow.py and the photo tables
\* of app/storage.py), in particular only photos of the index count as shown.
THEOREM TypeCorrect == Spec => []TypeOK
<1>1. Init => TypeOK
  BY InitTyped
<1>2. TypeOK /\ [Next]_vars => TypeOK'
  BY StepTyped
<1> QED
  BY <1>1, <1>2, PTL DEF Spec

-----------------------------------------------------------------------------
(***************************************************************************)
(* No repeat within a cycle, when no pick overlaps the rebuild.            *)
(*                                                                         *)
(* A photo handed out in this cycle is marked in the table, and while the  *)
(* index is rebuilt in the rotation state that was read for it; a photo    *)
(* chosen but not yet marked is in the table unmarked.                     *)
(***************************************************************************)
CycleIsShown ==
    /\ cycle \subseteq shown
    /\ scan.at = "rebuild" => picking = NoPick /\ cycle \subseteq scan.shown
    /\ picking.at = "mark" => picking.valid /\ picking.path \in photos \ shown

LEMMA InitCycle == Init => CycleIsShown
BY DEF Init, CycleIsShown, NoScan, NoPick

LEMMA PickKeepsCycle ==
    ASSUME TypeOK, CycleIsShown, ~PickMidRebuild, Pick
    PROVE  CycleIsShown'
<1> USE DEF CycleIsShown, tables, history
<1>1. CASE SelectUnshown
  <2>1. \/ picking' = [at |-> "reset", path |-> NoPath, valid |-> TRUE]
        \/ \E p \in photos \ shown :
              picking' = [at |-> "mark", path |-> p, valid |-> TRUE]
    BY <1>1 DEF SelectUnshown, Unshown, Eligible
  <2>2. UNCHANGED <<photos, shown, cycle, scan>> /\ scan.at # "rebuild"
    BY <1>1 DEF SelectUnshown, PickTurn
  <2>3. picking'.at = "mark" => picking'.valid /\ picking'.path \in photos \ shown
    BY <2>1
  <2> QED
    BY <2>2, <2>3
<1>2. CASE MarkShown
  <2>1. scan.at # "rebuild"
    BY <1>2 DEF MarkShown, NoPick
  <2> QED
    BY <1>2, <2>1 DEF MarkShown, NoPick
<1>3. CASE ResetAndPick
  <2>1. scan.at # "rebuild"
    BY <1>3 DEF ResetAndPick, NoPick
  <2>2. picking' = NoPick /\ UNCHANGED scan
    BY <1>3 DEF ResetAndPick
  <2>3. cycle' \subseteq shown'
    <3>1. CASE \E p \in Eligible \ (shown \ ResetSet) :
                  /\ shown' = (shown \ ResetSet) \cup {p}
                  /\ cycle' = (cycle \ ResetSet) \cup {p}
      BY <3>1
    <3>2. CASE /\ Eligible \subseteq shown \ ResetSet
               /\ shown' = shown \ ResetSet /\ cycle' = cycle
      BY <3>2 DEF ResetSet
    <3> QED
      BY <1>3, <3>1, <3>2 DEF ResetAndPick
  <2> QED
    BY <2>1, <2>2, <2>3 DEF NoPick
<1> QED
  BY <1>1, <1>2, <1>3 DEF Pick

LEMMA ScanKeepsCycle ==
    ASSUME TypeOK, CycleIsShown, ~PickMidRebuild, Scan
    PROVE  CycleIsShown'
<1> USE DEF CycleIsShown, tables, history
<1>1. ScanOK
  BY DEF TypeOK
<1>2. CASE StartScan
  BY <1>2 DEF StartScan, NoScan
<1>3. CASE ReadIndex
  BY <1>1, <1>3 DEF ReadIndex, LoopFree, ScanOK
<1>4. CASE ReplacePhotos
  <2>1. picking = NoPick /\ cycle \subseteq scan.shown
    BY <1>4 DEF ReplacePhotos
  <2>2. cycle' \subseteq shown'
    BY <1>4, <2>1 DEF ReplacePhotos, CarriedOver
  <2>3. scan'.at = "idle" /\ picking'.at = "none"
    BY <1>4, <2>1 DEF ReplacePhotos, NoScan, NoPick
  <2> QED
    BY <2>2, <2>3
<1>5. ASSUME NEW p \in Paths, WalkPath(p) PROVE CycleIsShown'
  BY <1>1, <1>5 DEF WalkPath, ScanOK
<1> QED
  BY <1>2, <1>3, <1>4, <1>5 DEF Scan

\* A handler that drops an entry or leaves the rotation alone.
LEMMA OthersKeepCycle ==
    ASSUME TypeOK, CycleIsShown,
           \/ UNCHANGED <<photos, shown, cycle, picking, scan>>
           \/ /\ \E p \in Paths : DropEntry(p)
              /\ LoopFree /\ UNCHANGED <<picking, scan>>
           \/ /\ UNCHANGED <<photos, shown, cycle, picking>>
              /\ \E g \in SUBSET Paths : scan' = [scan EXCEPT !.gone = g]
    PROVE  CycleIsShown'
<1> USE DEF CycleIsShown
<1>1. CASE UNCHANGED <<photos, shown, cycle, picking, scan>>
  BY <1>1
<1>2. CASE /\ \E p \in Paths : DropEntry(p)
           /\ LoopFree /\ UNCHANGED <<picking, scan>>
  BY <1>2 DEF DropEntry, LoopFree, NoPick
<1>3. CASE /\ UNCHANGED <<photos, shown, cycle, picking>>
           /\ \E g \in SUBSET Paths : scan' = [scan EXCEPT !.gone = g]
  BY <1>3 DEF TypeOK, ScanOK
<1> QED
  BY <1>1, <1>2, <1>3

LEMMA StepKeepsCycle ==
    ASSUME TypeOK, CycleIsShown, ~PickMidRebuild, [Next]_vars
    PROVE  CycleIsShown'
<1> USE DEF config, share, tables, history
<1>1. CASE Pick \/ Scan
  BY <1>1, PickKeepsCycle, ScanKeepsCycle
<1>2. ASSUME NEW p \in Paths,
             \/ Mark(p) \/ Unmark(p) \/ Rotate(p)
             \/ SweepFlag(p) \/ RequestDelete(p) \/ FileAppears(p)
      PROVE  CycleIsShown'
  <2>1. UNCHANGED <<photos, shown, cycle, picking, scan>>
    BY <1>2 DEF Mark, Unmark, Rotate, SweepFlag, RequestDelete, FileAppears
  <2> QED
    BY <2>1, OthersKeepCycle
<1>3. CASE \/ \E d \in Dirs : ShareFlaps(d)
           \/ SwitchVideos \/ StartSweep \/ DeleteFailed \/ UNCHANGED vars
  <2>1. UNCHANGED <<photos, shown, cycle, picking, scan>>
    BY <1>3 DEF ShareFlaps, SwitchVideos, StartSweep, DeleteFailed, vars
  <2> QED
    BY <2>1, OthersKeepCycle
<1>4. ASSUME NEW p \in Paths, ServeMissing(p) PROVE CycleIsShown'
  BY <1>4, OthersKeepCycle DEF ServeMissing
<1>5. CASE DeleteConfirmed
  <2>1. deleting.path \in Paths \/ deleting.path = NoPath
    BY DEF TypeOK, DeleteOK
  <2>2. CASE UNCHANGED <<photos, shown, cycle>>
    BY <1>5, <2>2, OthersKeepCycle DEF DeleteConfirmed
  <2>3. CASE DropEntry(deleting.path)
    <3>1. LoopFree /\ UNCHANGED <<picking, scan>>
      BY <1>5 DEF DeleteConfirmed
    <3> QED
      BY <2>3, <3>1 DEF DropEntry, LoopFree, NoPick, CycleIsShown
  <2> QED
    BY <1>5, <2>2, <2>3 DEF DeleteConfirmed
<1>6. ASSUME NEW p \in Paths, Leaves(p),
             UNCHANGED <<photos, shown, cycle, picking>>
      PROVE  CycleIsShown'
  <2>1. \/ UNCHANGED scan
        \/ scan' = [scan EXCEPT !.gone = scan.gone \cup {p}]
    BY <1>6 DEF Leaves
  <2>2. scan.gone \cup {p} \in SUBSET Paths
    BY DEF TypeOK, ScanOK
  <2> QED
    BY <1>6, <2>1, <2>2, OthersKeepCycle
<1>7. CASE Unlink \/ \E p \in Paths : FileVanishes(p)
  <2>1. Unlink => deleting.path \in Paths
    BY DEF Unlink, Visible, TypeOK, StoredOK
  <2> QED
    BY <1>6, <1>7, <2>1 DEF Unlink, FileVanishes
<1>8. ASSUME NEW ds \in SUBSET Dirs, Configure(ds) PROVE CycleIsShown'
  <2> DEFINE g == scan.gone \cup {p \in Paths : DirOf[p] \notin ds}
  <2>1. UNCHANGED scan \/ scan' = [scan EXCEPT !.gone = g]
    BY <1>8 DEF Configure
  <2>2. g \in SUBSET Paths
    BY DEF TypeOK, ScanOK
  <2>3. UNCHANGED <<photos, shown, cycle, picking>>
    BY <1>8 DEF Configure
  <2> QED
    BY <2>1, <2>2, <2>3, OthersKeepCycle
<1> QED
  BY <1>1, <1>2, <1>3, <1>4, <1>5, <1>7, <1>8 DEF Next

\* A photo handed out does not come back before the cycle is reset, in every
\* behaviour in which no pick overlaps a rebuild (storage.py, pick_next_photo
\* and replace_photos).
THEOREM NoPhotoRepeats ==
    ASSUME ~PickMidRebuild
    PROVE  Spec => NoRepeat
<1>1. Init => TypeOK /\ CycleIsShown
  BY InitTyped, InitCycle
<1>2. TypeOK /\ CycleIsShown /\ [Next]_vars => TypeOK' /\ CycleIsShown'
  BY StepTyped, StepKeepsCycle
<1>3. CycleIsShown => (MarkShown => picking.path \notin cycle)
  BY DEF CycleIsShown, MarkShown
<1> QED
  BY <1>1, <1>2, <1>3, PTL DEF Spec, NoRepeat

-----------------------------------------------------------------------------
(***************************************************************************)
(* No erosion, when the share stays as it is during a scan.                *)
(*                                                                         *)
(* While a scan is under way, everything away is known as gone, the        *)
(* directories still to be walked can be listed, and every photo of the    *)
(* index is gone, found, still to be found, or will be kept.               *)
(***************************************************************************)
GoneIsKnown == scan.at # "idle" => Away \subseteq scan.gone

TodoIsMounted == scan.at = "walk" => \A p \in scan.todo : DirOf[p] \in mounted

Expected(p) == scan.at = "walk" /\ (p \in scan.todo \/ DirOf[p] \in scan.absent)

IndexIsCovered ==
    scan.at # "idle" => \A p \in photos : p \in scan.gone \cup scan.found \/ Expected(p)

ScanCovers == GoneIsKnown /\ TodoIsMounted /\ IndexIsCovered

LEMMA InitCovers == Init => ScanCovers
BY DEF Init, ScanCovers, GoneIsKnown, TodoIsMounted, IndexIsCovered, NoScan

LEMMA ScanKeepsCovers ==
    ASSUME TypeOK, ScanCovers, Scan
    PROVE  ScanCovers'
<1> USE DEF ScanCovers, GoneIsKnown, TodoIsMounted, IndexIsCovered, Expected,
            config, share, tables, Away
<1>1. ScanOK /\ StoredOK
  BY DEF TypeOK
<1>2. CASE StartScan
  <2> DEFINE available == {d \in dirs : DirIsAvailable(d)}
  <2>1. /\ scan'.at = "walk" /\ scan'.gone = Away /\ scan'.absent = dirs \ available
        /\ scan'.todo = {p \in Paths : DirOf[p] \in available}
    BY <1>2 DEF StartScan, NoScan
  <2>2. UNCHANGED <<dirs, mounted, files, photos>>
    BY <1>2 DEF StartScan
  <2>3. \A p \in photos : p \in Away \/ DirOf[p] \in available \/ DirOf[p] \in dirs \ available
    BY <1>1 DEF StoredOK
  <2>4. \A d \in available : d \in mounted
    BY DEF DirIsAvailable
  <2> QED
    BY <1>1, <2>1, <2>2, <2>3, <2>4 DEF StoredOK
<1>3. ASSUME NEW p \in Paths, WalkPath(p) PROVE ScanCovers'
  <2>1. /\ scan.at = "walk" /\ scan'.at = "walk" /\ p \in scan.todo
        /\ scan'.gone = scan.gone /\ scan'.absent = scan.absent
        /\ scan'.todo = scan.todo \ {p}
        /\ scan'.found = IF Visible(p) THEN scan.found \cup {p} ELSE scan.found
    BY <1>1, <1>3 DEF WalkPath, ScanOK
  <2>2. UNCHANGED <<dirs, mounted, files, photos>>
    BY <1>3 DEF WalkPath
  <2>3. Visible(p) \/ p \in scan.gone
    BY <2>1 DEF Visible
  <2> QED
    BY <2>1, <2>2, <2>3
<1>4. CASE ReadIndex
  <2>1. /\ scan.at = "walk" /\ scan.todo = {} /\ scan'.at = "rebuild"
        /\ scan'.gone = scan.gone /\ scan'.found = scan.found \cup Kept
    BY <1>1, <1>4 DEF ReadIndex, ScanOK
  <2>2. UNCHANGED <<dirs, mounted, files, photos>>
    BY <1>4 DEF ReadIndex
  <2> QED
    BY <2>1, <2>2 DEF Kept
<1>5. CASE ReplacePhotos
  BY <1>5 DEF ReplacePhotos, NoScan
<1> QED
  BY <1>2, <1>3, <1>4, <1>5 DEF Scan

\* A step that lets no path go away unnoticed and adds no photo.
LEMMA OthersKeepCovers ==
    ASSUME TypeOK, ScanCovers, photos' \subseteq photos, UNCHANGED mounted,
           \/ UNCHANGED scan /\ (scan.at # "idle" => Away' \subseteq Away)
           \/ \E g \in SUBSET Paths :
                 /\ scan' = [scan EXCEPT !.gone = scan.gone \cup g]
                 /\ Away' \subseteq Away \cup g
    PROVE  ScanCovers'
<1> USE DEF ScanCovers, GoneIsKnown, TodoIsMounted, IndexIsCovered, Expected
<1>1. CASE UNCHANGED scan /\ (scan.at # "idle" => Away' \subseteq Away)
  BY <1>1
<1>2. ASSUME NEW g \in SUBSET Paths,
             scan' = [scan EXCEPT !.gone = scan.gone \cup g], Away' \subseteq Away \cup g
      PROVE  ScanCovers'
  <2>1. /\ scan'.at = scan.at /\ scan'.todo = scan.todo /\ scan'.found = scan.found
        /\ scan'.absent = scan.absent /\ scan'.gone = scan.gone \cup g
    BY <1>2 DEF TypeOK, ScanOK
  <2> QED
    BY <1>2, <2>1
<1> QED
  BY <1>1, <1>2

LEMMA StepKeepsCovers ==
    ASSUME TypeOK, ScanCovers, ~FlapMidScan, [Next]_vars
    PROVE  ScanCovers'
<1> USE DEF config, share, tables, history
<1>1. CASE Scan
  BY <1>1, ScanKeepsCovers
<1>2. ASSUME UNCHANGED <<dirs, mounted, files, scan>>, photos' \subseteq photos
      PROVE  ScanCovers'
  BY <1>2, OthersKeepCovers DEF Away
<1>3. CASE \/ Pick \/ SwitchVideos \/ StartSweep \/ DeleteConfirmed \/ DeleteFailed
           \/ UNCHANGED vars
  <2>1. UNCHANGED <<dirs, mounted, files, scan>>
    BY <1>3 DEF Pick, SelectUnshown, MarkShown, ResetAndPick, SwitchVideos, StartSweep,
                DeleteConfirmed, DeleteFailed, vars
  <2>2. photos' \subseteq photos
    BY <1>3 DEF Pick, SelectUnshown, MarkShown, ResetAndPick, SwitchVideos, StartSweep,
                DeleteConfirmed, DropEntry, DeleteFailed, vars
  <2> QED
    BY <1>2, <2>1, <2>2
<1>4. ASSUME NEW p \in Paths,
             \/ ServeMissing(p) \/ Mark(p) \/ Unmark(p) \/ Rotate(p)
             \/ SweepFlag(p) \/ RequestDelete(p)
      PROVE  ScanCovers'
  <2>1. UNCHANGED <<dirs, mounted, files, scan>>
    BY <1>4 DEF ServeMissing, Mark, Unmark, Rotate, SweepFlag, RequestDelete
  <2>2. photos' \subseteq photos
    BY <1>4 DEF ServeMissing, DropEntry, Mark, Unmark, Rotate, SweepFlag, RequestDelete
  <2> QED
    BY <1>2, <2>1, <2>2
<1>5. ASSUME NEW p \in Paths, Leaves(p), UNCHANGED <<dirs, mounted, photos>>
      PROVE  ScanCovers'
  <2>1. Away' \subseteq Away \cup {p}
    BY <1>5 DEF Leaves, Away
  <2>2. CASE scan.at = "idle"
    BY <1>5, <2>2, OthersKeepCovers DEF Leaves
  <2>3. CASE scan.at # "idle"
    BY <1>5, <2>1, <2>3, OthersKeepCovers DEF Leaves
  <2> QED
    BY <2>2, <2>3
<1>6. CASE Unlink \/ \E p \in Paths : FileVanishes(p)
  <2>1. Unlink => deleting.path \in Paths
    BY DEF Unlink, Visible, TypeOK, StoredOK
  <2> QED
    BY <1>5, <1>6, <2>1 DEF Unlink, FileVanishes
<1>7. ASSUME NEW p \in Paths, FileAppears(p) PROVE ScanCovers'
  <2>1. UNCHANGED <<dirs, mounted, photos, scan>> /\ Away' \subseteq Away
    BY <1>7 DEF FileAppears, Away
  <2> QED
    BY <2>1, OthersKeepCovers
<1>8. ASSUME NEW ds \in SUBSET Dirs, Configure(ds) PROVE ScanCovers'
  <2> DEFINE g == {p \in Paths : DirOf[p] \notin ds}
  <2>1. UNCHANGED <<mounted, files, photos>> /\ Away' \subseteq Away \cup g
    BY <1>8 DEF Configure, Away
  <2>2. CASE scan.at = "idle"
    BY <1>8, <2>1, <2>2, OthersKeepCovers DEF Configure
  <2>3. CASE scan.at # "idle"
    BY <1>8, <2>1, <2>3, OthersKeepCovers DEF Configure
  <2> QED
    BY <2>2, <2>3
<1>9. ASSUME NEW d \in Dirs, ShareFlaps(d) PROVE ScanCovers'
  BY <1>9 DEF ShareFlaps, ScanCovers, GoneIsKnown, TodoIsMounted, IndexIsCovered
<1> QED
  BY <1>1, <1>3, <1>4, <1>6, <1>7, <1>8, <1>9 DEF Next

\* An entry leaves the index only by its right.
LEMMA NothingErodes ==
    ASSUME TypeOK, ScanCovers, [Next]_vars, NEW p \in photos \ photos'
    PROVE  p \in Away \cup scan.gone \cup {deleting.path}
<1> USE DEF config, share, tables, history
<1>1. p \in Paths
  BY DEF TypeOK, StoredOK
<1>2. CASE Scan
  <2>1. ReplacePhotos
    BY <1>2 DEF Scan, StartScan, ReadIndex, WalkPath
  <2> QED
    BY <2>1 DEF ReplacePhotos, ScanCovers, IndexIsCovered, Expected
<1>3. ASSUME NEW q \in Paths, ServeMissing(q) PROVE p \in Away
  BY <1>1, <1>3 DEF ServeMissing, DropEntry, Visible, MayDropIndexEntry,
                    DirIsAvailable, Away
<1>4. CASE DeleteConfirmed
  BY <1>4 DEF DeleteConfirmed, DropEntry
<1>5. CASE \/ Pick \/ SwitchVideos \/ StartSweep \/ DeleteFailed \/ Unlink
           \/ UNCHANGED vars
  BY <1>5 DEF Pick, SelectUnshown, MarkShown, ResetAndPick, SwitchVideos, StartSweep,
              DeleteFailed, Unlink, vars
<1>6. ASSUME NEW q \in Paths,
             \/ Mark(q) \/ Unmark(q) \/ Rotate(q) \/ SweepFlag(q) \/ RequestDelete(q)
             \/ FileVanishes(q) \/ FileAppears(q)
      PROVE  FALSE
  BY <1>6 DEF Mark, Unmark, Rotate, SweepFlag, RequestDelete, FileVanishes, FileAppears
<1>7. CASE \/ \E ds \in SUBSET Dirs : Configure(ds)
           \/ \E d \in Dirs : ShareFlaps(d)
  BY <1>7 DEF Configure, ShareFlaps
<1> QED
  BY <1>2, <1>3, <1>4, <1>5, <1>6, <1>7 DEF Next

\* The index loses an entry only if its file is gone or was at some time of
\* the scan, or no configured directory holds it, in every behaviour in which
\* the share stays as it is during a scan (slideshow.py, _scan_sync).
THEOREM IndexDoesNotErode ==
    ASSUME ~FlapMidScan
    PROVE  Spec => NoErosion
<1>1. Init => TypeOK /\ ScanCovers
  BY InitTyped, InitCovers
<1>2. TypeOK /\ ScanCovers /\ [Next]_vars => TypeOK' /\ ScanCovers'
  BY StepTyped, StepKeepsCovers
<1>3. TypeOK /\ ScanCovers /\ [Next]_vars
        => \A p \in photos \ photos' : p \in Away \cup scan.gone \cup {deleting.path}
  BY NothingErodes
<1> QED
  BY <1>1, <1>2, <1>3, PTL DEF Spec, NoErosion

-----------------------------------------------------------------------------
(***************************************************************************)
(* Requests are kept, when the share stays as it is during a scan.         *)
(*                                                                         *)
(* A marked path has lapsed if it is away, if a scan under way or a sweep  *)
(* takes it for gone, or if the index has no entry for it: since the index *)
(* does not erode, such an entry was dropped by right.                     *)
(***************************************************************************)
Suspect(p) == p \in Away \cup scan.gone \cup orphans \/ p \notin photos

LapsedIsKnown == \A p \in marked : Suspect(p) => p \in lapsed

LEMMA InitLapsed == Init => LapsedIsKnown
BY DEF Init, LapsedIsKnown

\* A step that marks nothing and makes only lapsed paths suspect.
LEMMA NothingNewSuspect ==
    ASSUME LapsedIsKnown, marked' \subseteq marked, lapsed \subseteq lapsed',
           \A p \in marked' : Suspect(p)' => Suspect(p) \/ p \in lapsed'
    PROVE  LapsedIsKnown'
BY DEF LapsedIsKnown

LEMMA ScanKeepsLapsed ==
    ASSUME TypeOK, ScanCovers, LapsedIsKnown, Scan
    PROVE  LapsedIsKnown'
<1> USE DEF tables, history, config, share
<1>1. UNCHANGED <<dirs, files, marked, lapsed, orphans>>
  BY DEF Scan, StartScan, ReadIndex, ReplacePhotos, WalkPath
<1>2. Away' = Away
  BY <1>1 DEF Away
<1>3. CASE StartScan
  <2>1. scan'.gone = Away /\ photos' = photos
    BY <1>3 DEF StartScan, NoScan
  <2> QED
    BY <1>1, <1>2, <2>1, NothingNewSuspect DEF Suspect
<1>4. CASE ReadIndex \/ \E p \in Paths : WalkPath(p)
  <2>1. scan'.gone = scan.gone /\ photos' = photos
    BY <1>4 DEF ReadIndex, WalkPath, TypeOK, ScanOK
  <2> QED
    BY <1>1, <1>2, <2>1, NothingNewSuspect DEF Suspect
<1>5. CASE ReplacePhotos
  <2>1. scan'.gone = {} /\ photos' = scan.found
    BY <1>5 DEF ReplacePhotos, NoScan
  <2>2. \A p \in photos : p \in scan.gone \cup scan.found
    BY <1>5 DEF ReplacePhotos, ScanCovers, IndexIsCovered, Expected
  <2> QED
    BY <1>1, <1>2, <2>1, <2>2, NothingNewSuspect DEF Suspect
<1> QED
  BY <1>3, <1>4, <1>5 DEF Scan

\* A path that leaves share or configuration lapses if it is marked.
LEMMA LeavesKeepsLapsed ==
    ASSUME TypeOK, LapsedIsKnown, NEW p \in Paths, Leaves(p),
           UNCHANGED <<dirs, marked, photos, orphans>>
    PROVE  LapsedIsKnown'
<1>1. scan'.gone \subseteq scan.gone \cup {p} /\ Away' \subseteq Away \cup {p}
  BY DEF Leaves, TypeOK, ScanOK, Away
<1>2. lapsed \subseteq lapsed' /\ (p \in marked => p \in lapsed')
  BY DEF Leaves
<1> QED
  BY <1>1, <1>2, NothingNewSuspect DEF Suspect

LEMMA StepKeepsLapsed ==
    ASSUME TypeOK, ScanCovers, LapsedIsKnown, [Next]_vars
    PROVE  LapsedIsKnown'
<1> USE DEF config, share, tables, history
<1>1. CASE Scan
  BY <1>1, ScanKeepsLapsed
<1>2. ASSUME UNCHANGED <<dirs, files, photos, scan, lapsed>>, marked' \subseteq marked,
             orphans' \subseteq orphans \cup (Paths \ photos)
      PROVE  LapsedIsKnown'
  <2>1. Away' = Away
    BY <1>2 DEF Away
  <2> QED
    BY <1>2, <2>1, NothingNewSuspect DEF Suspect
<1>3. CASE \/ Pick \/ SwitchVideos \/ StartSweep \/ DeleteFailed \/ UNCHANGED vars
           \/ \E d \in Dirs : ShareFlaps(d)
  <2>1. UNCHANGED <<dirs, files, photos, scan, lapsed, marked>>
    BY <1>3 DEF Pick, SelectUnshown, MarkShown, ResetAndPick, SwitchVideos, StartSweep,
                DeleteFailed, ShareFlaps, vars
  <2>2. orphans' \subseteq orphans \cup (Paths \ photos)
    BY <1>3 DEF Pick, SelectUnshown, MarkShown, ResetAndPick, SwitchVideos, StartSweep,
                DeleteFailed, ShareFlaps, vars, TypeOK, StoredOK
  <2> QED
    BY <1>2, <2>1, <2>2
<1>4. ASSUME NEW p \in Paths,
             Unmark(p) \/ Rotate(p) \/ SweepFlag(p) \/ RequestDelete(p)
      PROVE  LapsedIsKnown'
  BY <1>2, <1>4 DEF Unmark, Rotate, SweepFlag, RequestDelete
<1>5. ASSUME NEW p \in Paths, Mark(p) PROVE LapsedIsKnown'
  <2>1. UNCHANGED <<dirs, files, photos, scan, orphans>> /\ p \in photos
        /\ marked' = marked \cup {p}
        /\ lapsed' = IF p \in Away \cup orphans \cup scan.gone
                     THEN lapsed \cup {p} ELSE lapsed \ {p}
    BY <1>5 DEF Mark
  <2>2. Away' = Away
    BY <2>1 DEF Away
  <2> QED
    BY <2>1, <2>2 DEF LapsedIsKnown, Suspect
<1>6. ASSUME NEW p \in Paths, ServeMissing(p) PROVE LapsedIsKnown'
  <2>1. p \in Away
    BY <1>6 DEF ServeMissing, Visible, MayDropIndexEntry, DirIsAvailable, Away
  <2>2. UNCHANGED <<dirs, files, scan, orphans, marked, lapsed>> /\ photos' = photos \ {p}
    BY <1>6 DEF ServeMissing, DropEntry
  <2>3. Away' = Away
    BY <2>2 DEF Away
  <2> QED
    BY <2>1, <2>2, <2>3, NothingNewSuspect DEF Suspect
<1>7. CASE DeleteConfirmed
  <2>1. /\ UNCHANGED <<dirs, files, scan, orphans, lapsed>>
        /\ marked' = marked \ {deleting.path}
        /\ photos \ {deleting.path} \subseteq photos'
    BY <1>7 DEF DeleteConfirmed, DropEntry
  <2>2. Away' = Away
    BY <2>1 DEF Away
  <2> QED
    BY <2>1, <2>2, NothingNewSuspect DEF Suspect
<1>8. CASE Unlink \/ \E p \in Paths : FileVanishes(p)
  <2>1. Unlink => deleting.path \in Paths
    BY DEF Unlink, Visible, TypeOK, StoredOK
  <2> QED
    BY <1>8, <2>1, LeavesKeepsLapsed DEF Unlink, FileVanishes
<1>9. ASSUME NEW p \in Paths, FileAppears(p) PROVE LapsedIsKnown'
  <2>1. Away' \subseteq Away /\ UNCHANGED <<scan, orphans, marked, lapsed, photos>>
    BY <1>9 DEF FileAppears, Away
  <2> QED
    BY <2>1, NothingNewSuspect DEF Suspect
<1>10. ASSUME NEW ds \in SUBSET Dirs, Configure(ds) PROVE LapsedIsKnown'
  <2> DEFINE g == {p \in Paths : DirOf[p] \notin ds}
  <2>1. /\ Away' \subseteq Away \cup g /\ scan'.gone \subseteq scan.gone \cup g
        /\ UNCHANGED <<orphans, marked, photos>>
    BY <1>10 DEF Configure, Away, TypeOK, ScanOK
  <2>2. lapsed' = lapsed \cup (marked \cap g)
    BY <1>10 DEF Configure, TypeOK, StoredOK
  <2> QED
    BY <2>1, <2>2, NothingNewSuspect DEF Suspect
<1> QED
  BY <1>1, <1>3, <1>4, <1>5, <1>6, <1>7, <1>8, <1>9, <1>10 DEF Next

\* A mark goes only by its right.
LEMMA NoRequestLost ==
    ASSUME TypeOK, LapsedIsKnown, [Next]_vars, NEW p \in marked \ marked'
    PROVE  p \in lapsed \/ Unmark(p) \/ (DeleteConfirmed /\ p = deleting.path)
<1> USE DEF config, share, tables, history
<1>1. CASE \/ Pick \/ Scan \/ SwitchVideos \/ StartSweep \/ DeleteFailed \/ Unlink
           \/ UNCHANGED vars
           \/ \E ds \in SUBSET Dirs : Configure(ds)
           \/ \E d \in Dirs : ShareFlaps(d)
  <2>1. UNCHANGED marked
    BY <1>1 DEF Pick, SelectUnshown, MarkShown, ResetAndPick, Scan, StartScan, ReadIndex,
                ReplacePhotos, WalkPath, SwitchVideos, StartSweep, DeleteFailed, Unlink,
                Configure, ShareFlaps, vars
  <2> QED
    BY <2>1
<1>2. ASSUME NEW q \in Paths,
             \/ ServeMissing(q) \/ Mark(q) \/ Rotate(q) \/ RequestDelete(q)
             \/ FileVanishes(q) \/ FileAppears(q)
      PROVE  FALSE
  BY <1>2 DEF ServeMissing, Mark, Rotate, RequestDelete, FileVanishes, FileAppears
<1>3. ASSUME NEW q \in Paths, Unmark(q) PROVE Unmark(p)
  <2>1. p = q
    BY <1>3 DEF Unmark
  <2> QED
    BY <1>3, <2>1
<1>4. ASSUME NEW q \in Paths, SweepFlag(q) PROVE p \in lapsed
  BY <1>4 DEF SweepFlag, LapsedIsKnown, Suspect
<1>5. ASSUME DeleteConfirmed PROVE p = deleting.path
  BY <1>5 DEF DeleteConfirmed
<1> QED
  BY <1>1, <1>2, <1>3, <1>4, <1>5 DEF Next

\* A delete request ends only when it is withdrawn or carried out, or when its
\* file left share or configuration after it was made, in every behaviour in
\* which the share stays as it is during a scan (_collect_pending_deletes).
THEOREM RequestsAreKept ==
    ASSUME ~FlapMidScan
    PROVE  Spec => RequestsKept
<1> DEFINE Inv == TypeOK /\ ScanCovers /\ LapsedIsKnown
<1>1. Init => Inv
  BY InitTyped, InitCovers, InitLapsed
<1>2. Inv /\ [Next]_vars => Inv'
  BY StepTyped, StepKeepsCovers, StepKeepsLapsed
<1>3. Inv /\ [Next]_vars
        => \A p \in marked \ marked' :
              p \in lapsed \/ Unmark(p) \/ (DeleteConfirmed /\ p = deleting.path)
  BY NoRequestLost
<1> QED
  BY <1>1, <1>2, <1>3, PTL DEF Spec, RequestsKept

=============================================================================
