------------------------------ MODULE Slideshow ------------------------------
(***************************************************************************)
(* The slideshow's index, rotation and photo flags (app/slideshow.py and   *)
(* the photo tables of app/storage.py).                                    *)
(*                                                                         *)
(* Four activities share the database: the event loop (picks for the       *)
(* kiosk, image requests, marks and turns), the scan thread, the thread    *)
(* that lists delete requests and sweeps orphaned flags, and a deletion    *)
(* waiting for Home Assistant.  Each SQL transaction is one step; the      *)
(* SELECTs that sqlite3 runs before a transaction begins are steps of      *)
(* their own.  The share may be unmounted and come back at any time.       *)
(*                                                                         *)
(* A photo id is valid until the index is next rebuilt, so a reference     *)
(* held across steps is a path and the fact that its id is still valid.    *)
(***************************************************************************)
EXTENDS Naturals, FiniteSets

CONSTANTS
    Paths,          \* media files that may lie on the share
    Dirs,           \* directories the admin may configure
    DirOf,          \* the directory of each path
    Videos,         \* paths that are videos
    NoPath,
    MaxEvents,      \* bound on what user, admin and the share do
    FlapMidScan,    \* may the share come and go while a scan walks it?
    PickMidRebuild  \* may a pick overlap the rebuild of the index?

ASSUME SlideshowAssumption ==
    /\ DirOf \in [Paths -> Dirs]
    /\ Videos \subseteq Paths
    /\ NoPath \notin Paths
    /\ MaxEvents \in Nat
    /\ FlapMidScan \in BOOLEAN /\ PickMidRebuild \in BOOLEAN

VARIABLES
    dirs,      \* slideshow_dirs
    videos,    \* slideshow_videos is "on"
    mounted,   \* directories that can be listed
    files,     \* paths that exist on the share, seen from its own side
    photos,    \* paths in the photos table
    shown,     \* those of them with shown = 1
    turned,    \* paths whose photo_flags row has a rotation
    marked,    \* paths whose photo_flags row has delete_requested_at
    picking,   \* the pick under way: its row, and whether its id is valid
    last,      \* the photo last handed out
    cycle,     \* photos handed out since they were last reset or were new
    scan,      \* the scan thread
    orphans,   \* flags the sweep saw without an index row, still to be visited
    deleting,  \* the deletion under way
    lapsed,    \* marked paths that were away, or taken for gone, since they were marked
    events     \* what user, admin and share did so far

tables == <<photos, shown, turned, marked>>
share == <<mounted, files>>
config == <<dirs, videos>>
history == <<last, cycle, lapsed>>
vars == <<config, share, tables, picking, history, scan, orphans, deleting, events>>

NoScan == [at |-> "idle", absent |-> {}, todo |-> {}, found |-> {}, shown |-> {},
           gone |-> {}]
NoPick == [at |-> "none", path |-> NoPath, valid |-> FALSE]
NoDelete == [path |-> NoPath, valid |-> FALSE, unlinked |-> FALSE]

StoredOK ==
    /\ dirs \subseteq Dirs /\ videos \in BOOLEAN
    /\ mounted \subseteq Dirs /\ files \subseteq Paths
    /\ photos \subseteq Paths /\ shown \subseteq photos
    /\ turned \subseteq Paths /\ marked \subseteq Paths

PickOK ==
    /\ picking \in [at : {"none", "mark", "reset"}, path : Paths \cup {NoPath},
                    valid : BOOLEAN]
    /\ picking.at = "mark" => picking.path \in IF picking.valid THEN photos ELSE Paths

ScanOK == scan \in [at : {"idle", "walk", "rebuild"}, absent : SUBSET Dirs,
                    todo : SUBSET Paths, found : SUBSET Paths, shown : SUBSET Paths,
                    gone : SUBSET Paths]

DeleteOK == deleting \in [path : Paths \cup {NoPath}, valid : BOOLEAN,
                          unlinked : BOOLEAN]

TypeOK ==
    /\ StoredOK /\ PickOK /\ ScanOK /\ DeleteOK
    /\ orphans \subseteq Paths
    /\ last \in Paths \cup {NoPath} /\ cycle \subseteq Paths
    /\ lapsed \subseteq Paths
    /\ events \in 0..MaxEvents

Init ==
    /\ dirs = {} /\ videos = FALSE /\ mounted = Dirs /\ files = Paths
    /\ photos = {} /\ shown = {} /\ turned = {} /\ marked = {}
    /\ picking = NoPick /\ last = NoPath /\ cycle = {} /\ lapsed = {}
    /\ scan = NoScan /\ orphans = {} /\ deleting = NoDelete /\ events = 0

\* Not on the share, or in no configured directory: nothing keeps its entry.
Away == {p \in Paths : p \notin files \/ DirOf[p] \notin dirs}

Visible(p) == p \in files /\ DirOf[p] \in mounted

\* _dir_is_available, asked of a configured directory.
MutNeverMissing(d) == TRUE
DirIsAvailable(d) == d \in mounted

\* _may_drop_index_entry: a missing file is gone only if its directory is there.
MutMayDropAlways(p) == TRUE
MayDropIndexEntry(p) == DirOf[p] \in dirs => DirIsAvailable(DirOf[p])

\* The event loop runs one handler at a time, up to its next await; a pick is
\* two or three SQL statements during which it does nothing else.
LoopFree == picking = NoPick

Event == events < MaxEvents /\ events' = events + 1

-----------------------------------------------------------------------------
\* pick_next_photo.

Eligible == {p \in photos : (p \in Videos => videos) /\ p \notin marked}
Unshown == Eligible \ shown
\* The reset of a finished cycle.
MutResetAllOrNothing == IF shown = photos THEN photos ELSE {}
ResetSet == Eligible

PickTurn == scan.at = "rebuild" => PickMidRebuild

SelectUnshown ==
    /\ LoopFree /\ PickTurn
    /\ IF Unshown = {}
       THEN picking' = [at |-> "reset", path |-> NoPath, valid |-> TRUE]
       ELSE \E p \in Unshown : picking' = [at |-> "mark", path |-> p, valid |-> TRUE]
    /\ UNCHANGED <<config, share, tables, history, scan, orphans, deleting, events>>

\* The UPDATE names an id: a row rebuilt since is not the one it marks.
MarkShown ==
    /\ picking.at = "mark"
    /\ shown' = IF picking.valid THEN shown \cup {picking.path} ELSE shown
    /\ last' = picking.path /\ cycle' = cycle \cup {picking.path}
    /\ picking' = NoPick
    /\ UNCHANGED <<config, share, photos, turned, marked, lapsed, scan, orphans,
                   deleting, events>>

\* Reset, second pick and mark are one transaction.
ResetAndPick ==
    /\ picking.at = "reset"
    /\ \/ \E p \in Eligible \ (shown \ ResetSet) :
             /\ shown' = (shown \ ResetSet) \cup {p}
             /\ last' = p /\ cycle' = (cycle \ ResetSet) \cup {p}
       \/ /\ Eligible \subseteq shown \ ResetSet
          /\ shown' = shown \ ResetSet /\ UNCHANGED <<last, cycle>>
    /\ picking' = NoPick
    /\ UNCHANGED <<config, share, photos, turned, marked, lapsed, scan, orphans,
                   deleting, events>>

-----------------------------------------------------------------------------
\* _scan_sync, in the scan thread.

\* No directory at all empties the index, none reachable leaves it alone.
StartScan ==
    /\ scan.at = "idle"
    /\ LET available == {d \in dirs : DirIsAvailable(d)}
       IN  /\ dirs # {} => available # {}
           /\ scan' = [NoScan EXCEPT !.at = "walk", !.absent = dirs \ available,
                                     !.todo = {p \in Paths : DirOf[p] \in available},
                                     !.gone = Away]
    /\ UNCHANGED <<config, share, tables, picking, history, orphans, deleting, events>>

\* iter_media: what cannot be listed when its turn comes is skipped.
WalkPath(p) ==
    /\ scan.at = "walk" /\ p \in scan.todo
    /\ scan' = [scan EXCEPT !.todo = @ \ {p},
                            !.found = IF Visible(p) THEN @ \cup {p} ELSE @]
    /\ UNCHANGED <<config, share, tables, picking, history, orphans, deleting, events>>

\* The entries below unreachable directories are kept, and the rotation state
\* is read, before the transaction of replace_photos begins.
Kept == {p \in photos : DirOf[p] \in scan.absent}

ReadIndex ==
    /\ scan.at = "walk" /\ scan.todo = {}
    /\ scan' = [scan EXCEPT !.at = "rebuild", !.found = @ \cup Kept, !.shown = shown]
    /\ LoopFree \/ PickMidRebuild
    /\ UNCHANGED <<config, share, tables, picking, history, orphans, deleting, events>>

\* The rotation state carried over by path.
MutForgetShown == {}
CarriedOver == scan.shown \cap scan.found

ReplacePhotos ==
    /\ scan.at = "rebuild"
    /\ photos' = scan.found /\ shown' = CarriedOver
    /\ cycle' = cycle \cap scan.found
    /\ picking' = [picking EXCEPT !.valid = (picking.at = "reset")]
    /\ deleting' = [deleting EXCEPT !.valid = FALSE]
    /\ scan' = NoScan
    /\ UNCHANGED <<config, share, turned, marked, last, lapsed, orphans, events>>

-----------------------------------------------------------------------------
\* The handlers of the event loop that are done in one go.

DropEntry(p) ==
    photos' = photos \ {p} /\ shown' = shown \ {p} /\ cycle' = cycle \ {p}

\* photo_image, asked for a file that is not to be seen.
ServeMissing(p) ==
    /\ LoopFree /\ p \in photos /\ ~Visible(p) /\ MayDropIndexEntry(p)
    /\ DropEntry(p)
    /\ UNCHANGED <<config, share, turned, marked, picking, last, lapsed, scan, orphans,
                   deleting, events>>

Mark(p) ==
    /\ LoopFree /\ p \in photos \ marked /\ Event
    /\ marked' = marked \cup {p}
    /\ lapsed' = IF p \in Away \cup orphans \cup scan.gone
                THEN lapsed \cup {p} ELSE lapsed \ {p}
    /\ UNCHANGED <<config, share, photos, shown, turned, picking, last, cycle, scan,
                   orphans, deleting>>

\* Withdrawn at the kiosk or in the admin's list.
Unmark(p) ==
    /\ LoopFree /\ p \in photos \cap marked /\ Event
    /\ marked' = marked \ {p}
    /\ UNCHANGED <<config, share, photos, shown, turned, picking, history, scan,
                   orphans, deleting>>

\* A turn that ends upright leaves no rotation.
Rotate(p) ==
    /\ LoopFree /\ p \in photos /\ Event
    /\ turned' \in {turned \cup {p}, turned \ {p}} \ {turned}
    /\ UNCHANGED <<config, share, photos, shown, marked, picking, history, scan,
                   orphans, deleting>>

Configure(ds) ==
    /\ LoopFree /\ ds # dirs /\ Event /\ dirs' = ds
    /\ scan' = IF scan.at = "idle" THEN scan
               ELSE [scan EXCEPT !.gone = @ \cup {p \in Paths : DirOf[p] \notin ds}]
    /\ lapsed' = lapsed \cup {p \in marked : DirOf[p] \notin ds}
    /\ UNCHANGED <<videos, share, tables, picking, last, cycle, orphans, deleting>>

SwitchVideos ==
    /\ LoopFree /\ Event /\ videos' = ~videos
    /\ UNCHANGED <<dirs, share, tables, picking, history, scan, orphans, deleting>>

\* _collect_pending_deletes, in a thread: the listing, then one flag at a time.

StartSweep ==
    /\ orphans = {} /\ orphans' = (turned \cup marked) \ photos /\ orphans' # {}
    /\ UNCHANGED <<config, share, tables, picking, history, scan, deleting, events>>

SweepFlag(p) ==
    /\ p \in orphans /\ orphans' = orphans \ {p}
    /\ IF MayDropIndexEntry(p)
       THEN marked' = marked \ {p} /\ turned' = turned \ {p}
       ELSE UNCHANGED <<marked, turned>>
    /\ UNCHANGED <<config, share, photos, shown, picking, history, scan, deleting,
                   events>>

\* delete_pending_photo awaits Home Assistant, which owns the share.

RequestDelete(p) ==
    /\ LoopFree /\ deleting = NoDelete /\ p \in photos \cap marked
    /\ deleting' = [path |-> p, valid |-> TRUE, unlinked |-> FALSE]
    /\ UNCHANGED <<config, share, tables, picking, history, scan, orphans, events>>

Leaves(p) ==
    /\ files' = files \ {p}
    /\ scan' = IF scan.at = "idle" THEN scan ELSE [scan EXCEPT !.gone = @ \cup {p}]
    /\ lapsed' = IF p \in marked THEN lapsed \cup {p} ELSE lapsed

Unlink ==
    /\ deleting # NoDelete /\ ~deleting.unlinked /\ Visible(deleting.path)
    /\ Leaves(deleting.path)
    /\ deleting' = [deleting EXCEPT !.unlinked = TRUE]
    /\ UNCHANGED <<config, mounted, tables, picking, last, cycle, orphans, events>>

DeleteConfirmed ==
    /\ LoopFree /\ deleting.unlinked
    /\ IF deleting.valid THEN DropEntry(deleting.path)
       ELSE UNCHANGED <<photos, shown, cycle>>
    /\ marked' = marked \ {deleting.path} /\ turned' = turned \ {deleting.path}
    /\ deleting' = NoDelete
    /\ UNCHANGED <<config, share, picking, last, lapsed, scan, orphans, events>>

\* Refused, timed out, or done but the answer was lost: nothing is cleared.
DeleteFailed ==
    /\ LoopFree /\ deleting # NoDelete /\ deleting' = NoDelete
    /\ UNCHANGED <<config, share, tables, picking, history, scan, orphans, events>>

-----------------------------------------------------------------------------
\* The share.

ShareFlaps(d) ==
    /\ Event /\ (scan.at = "idle" \/ FlapMidScan)
    /\ mounted' \in {mounted \cup {d}, mounted \ {d}} \ {mounted}
    /\ UNCHANGED <<config, files, tables, picking, history, scan, orphans, deleting>>

FileVanishes(p) ==
    /\ Event /\ p \in files /\ Leaves(p)
    /\ UNCHANGED <<config, mounted, tables, picking, last, cycle, orphans, deleting>>

FileAppears(p) ==
    /\ Event /\ p \notin files /\ files' = files \cup {p}
    /\ UNCHANGED <<config, mounted, tables, picking, history, scan, orphans, deleting>>

Scan == StartScan \/ ReadIndex \/ ReplacePhotos \/ \E p \in Paths : WalkPath(p)

Pick == SelectUnshown \/ MarkShown \/ ResetAndPick

Next ==
    \/ Pick \/ Scan
    \/ \E p \in Paths : \/ ServeMissing(p) \/ Mark(p) \/ Unmark(p) \/ Rotate(p)
                        \/ SweepFlag(p) \/ RequestDelete(p)
                        \/ FileVanishes(p) \/ FileAppears(p)
    \/ \E ds \in SUBSET Dirs : Configure(ds)
    \/ \E d \in Dirs : ShareFlaps(d)
    \/ SwitchVideos \/ StartSweep \/ Unlink \/ DeleteConfirmed \/ DeleteFailed

Spec == Init /\ [][Next]_vars

\* A kiosk asks for the next photo every few seconds; the moment in which the
\* index is rebuilt comes once an hour, so it never holds a pick back for good.
FairSpec ==
    /\ Spec
    /\ SF_vars(SelectUnshown) /\ WF_vars(MarkShown) /\ WF_vars(ResetAndPick)
    /\ WF_vars(ReadIndex) /\ WF_vars(ReplacePhotos)
    /\ \A p \in Paths : WF_vars(WalkPath(p))

-----------------------------------------------------------------------------
\* The index loses an entry only if its file is gone, or was at some time of
\* the scan that drops it, or no configured directory holds it: a share that
\* cannot be seen costs nothing (_scan_sync: "A missing mount must therefore
\* never be mistaken for 'the album is empty'"; _may_drop_index_entry).
NoErosion ==
    [][\A p \in photos \ photos' : p \in Away \cup scan.gone \cup {deleting.path}]_vars

\* A photo handed out does not come back before the cycle is reset, whatever
\* scans, marks and withdrawals happen meanwhile (storage.py, replace_photos
\* and pick_next_photo: "one full pass before any repeats").
NoRepeat == [][MarkShown => picking.path \notin cycle]_vars

\* A delete request ends only when it is withdrawn or carried out, or when its
\* file left the share or the configured directories after it was made
\* (_collect_pending_deletes: "a deletion request Roland made must not
\* evaporate because the NAS hiccupped").
RequestsKept ==
    [][\A p \in marked \ marked' :
          p \in lapsed \/ Unmark(p) \/ (DeleteConfirmed /\ p = deleting.path)]_vars

\* A photo that stays eligible is handed out again and again: neither marked
\* photos, nor switched-off videos, nor scans ever stall the rotation
\* (pick_next_photo: "the cycle never stalls").
KeepsComing ==
    \A p \in Paths : <>[](p \in Eligible) => []<>(last = p)
=============================================================================
