------------------------------- MODULE Browse -------------------------------
(***************************************************************************)
(* The main window's browsing shell.  Photos and one album page are peers   *)
(* in a crossfading stack; the viewer, search and trash pages are pushed    *)
(* over it.  The sidebar shows where the user is in four lists, each with   *)
(* a selection of its own (Photos, albums, media types, trash), rebuilt     *)
(* whenever an album snapshot arrives.  A click on an album only schedules  *)
(* its opening; returning to the root only schedules the repair of the      *)
(* selection.  Both run as idle callbacks, so other input comes between.    *)
(* In batch mode the album list's selection is the pending deletion, kept a *)
(* second time as folder paths.  Deleting and ignoring albums is done by    *)
(* worker threads whose results land on the main thread.                    *)
(***************************************************************************)
EXTENDS Integers, Sequences, FiniteSets, SequencesExt

CONSTANTS
    BwFolders,      \* real folder albums
    Favorites,      \* the virtual album listed with them
    MediaTypes,     \* the virtual albums of the Media Types group
    NoAlbum,
    BwWorkers,      \* worker threads: bound on album operations under way
    BrowseBudgets   \* bounds: how many inputs of each kind, and the photos
                    \* each folder starts with

VARIABLES
    bw,         \* what the main thread holds
    bwPhotos,   \* live photos of each folder, by the media table
    bwListed,   \* the folders in the materialized `albums` table
    bwTypes,    \* the media types that have photos
    bwDirty,    \* an album refresh is owed to a domain event
    bwSnap,     \* the sidebar snapshot being loaded
    bwDialog,   \* the alerts in front of the window, the last on top
    bwOps,      \* the workers
    bwGhost,    \* lost: why the sidebar may disagree with the page;
                \* chosen: the folders the user put in the batch selection;
                \* grown: folders that got photos behind a finished worker
    bwBudget

bwData == <<bwPhotos, bwListed, bwTypes, bwDirty, bwSnap>>
bwJobs == <<bwDialog, bwOps>>
bwVars == <<bw, bwData, bwJobs, bwGhost, bwBudget>>

AlbumRows == BwFolders \union {Favorites}
Browsable == AlbumRows \union MediaTypes
NoSnap == [phase |-> "none", albums |-> {}, types |-> {}]
IdleOp == [kind |-> "none", phase |-> "none", albums |-> {}, todo |-> {}, at |-> NoAlbum,
           left |-> 0, failed |-> FALSE, remaining |-> {}, retry |-> FALSE]

BwSpend(what) == /\ bwBudget[what] > 0
                 /\ bwBudget' = [bwBudget EXCEPT ![what] = @ - 1]

-----------------------------------------------------------------------------
(* The pushed pages.  Each change of the visible page, and each pop, queues *)
(* an idle repair of the sidebar selection.                                  *)

Repair == "repair"
Repairs(n) == [k \in 1..n |-> Repair]

PushPage(w, p) == [w EXCEPT !.nav = Append(@, p), !.idle = Append(@, Repair)]
PopPages(w, n) == [w EXCEPT !.nav = SubSeq(@, 1, Len(@) - n),
                            !.idle = @ \o Repairs(2 * n)]
PopToPhotosRoot(w) == PopPages(w, Len(w.nav))
VisiblePage(w) == IF w.nav = <<>> THEN "root" ELSE Last(w.nav)
BrowsingRootIsVisible(w) == VisiblePage(w) = "root"

-----------------------------------------------------------------------------
(* The album list's selection.  GTK reports a change of it only when there  *)
(* is one; in batch mode the report copies the selected real folders into   *)
(* selected_album_paths and unselects the virtual rows.                      *)

SyncSelectedAlbumPaths(w) == [w EXCEPT !.albums = @ \cap BwFolders,
                                       !.picked = w.albums \cap BwFolders]

ClearAlbumSelection(w) ==
    LET cleared == [w EXCEPT !.albums = {}]
    IN  IF w.batch /\ w.albums # {} THEN SyncSelectedAlbumPaths(cleared) ELSE cleared

SelectAlbumPosition(w, a) ==
    LET chosen == [w EXCEPT !.albums = {a}]
    IN  IF w.batch THEN SyncSelectedAlbumPaths(chosen) ELSE chosen

SelectAlbumByIdentity(w, a) == IF a \in w.rows THEN SelectAlbumPosition(w, a) ELSE w

EnterAlbumSelectionMode(w) ==
    [ClearAlbumSelection([w EXCEPT !.batch = TRUE]) EXCEPT !.picked = {}]
ExitAlbumSelectionMode(w) ==
    [ClearAlbumSelection([w EXCEPT !.batch = FALSE]) EXCEPT !.picked = {}]

SelectedRealAlbums(w) == w.picked \cap w.rows \cap BwFolders

(* A refresh must not let the open album replace the batch selection. *)
ReselectActiveAlbumRow(w) ==
    IF w.batch \/ w.active = NoAlbum THEN w
    ELSE LET shown == IF w.active \in w.rows THEN SelectAlbumPosition(w, w.active) ELSE w
         IN  IF w.active \in w.types THEN [shown EXCEPT !.type = w.active] ELSE shown

-----------------------------------------------------------------------------
(* Where the user is. *)

ShowPhotosBrowsingPage(w) ==
    [w EXCEPT !.page = "photos", !.active = NoAlbum, !.albums = {}, !.type = NoAlbum,
              !.trash = FALSE, !.photos = TRUE]

(* The children of the stack beside Photos, by name: 0 is "album", n is     *)
(* "album-old-n", a page that fades out until its timer removes it.          *)
AlbumChild == 0
AlbumShown(w) == {c[2] : c \in {d \in w.children : d[1] = AlbumChild}}

Installed(w, a, old) ==
    [w EXCEPT !.children = {IF c[1] = AlbumChild THEN <<old, c[2]>> ELSE c : c \in @}
                           \union {<<AlbumChild, a>>},
              !.page = "album"]

ShowAlbumBrowsingPage(w, a) ==
    IF AlbumShown(w) = {} THEN Installed(w, a, AlbumChild)
    ELSE [Installed(w, a, w.gen + 1) EXCEPT !.timers = @ \union {w.gen + 1}, !.gen = @ + 1]

RemoveRetired(w, name) ==
    [w EXCEPT !.timers = @ \ {name},
              !.children = {c \in @ : c[1] # name},
              !.page = IF name = AlbumChild THEN "photos" ELSE @]

AlreadyVisible(w, a) == w.page = "album" /\ a \in AlbumShown(w)

OpenAlbum(w, a) ==
    LET root == PopToPhotosRoot(w)
    IN  IF AlreadyVisible(root, a) THEN root ELSE ShowAlbumBrowsingPage(root, a)

ScheduleAlbumOpen(w, a) == [w EXCEPT !.idle = Append(@, a)]

ReactivateSidebarAlbum(w, a) ==
    IF w.batch \/ BrowsingRootIsVisible(w) \/ w.active # a \/ a \notin w.rows THEN w
    ELSE ScheduleAlbumOpen(w, a)

(* Back at the root: what is selected follows the page that shows.  The     *)
(* album left through the trash row is remembered.                           *)
SyncSidebarSelection_forgets(w) ==
    LET ret == w.page = "album" /\ w.active = NoAlbum
        u == [w EXCEPT !.trash = FALSE]
    IN  IF ~BrowsingRootIsVisible(w) THEN w
        ELSE IF w.page = "photos"
             THEN [u EXCEPT !.active = NoAlbum, !.albums = {}, !.type = NoAlbum, !.photos = TRUE]
        ELSE LET v == [u EXCEPT !.photos = FALSE, !.type = NoAlbum, !.ret = IF ret THEN NoAlbum ELSE @]
             IN  IF v.active \in v.types THEN [v EXCEPT !.type = v.active]
                 ELSE IF v.active \in v.rows THEN SelectAlbumPosition(v, v.active)
                 ELSE v
SyncSidebarSelection(w) ==
    LET takes == w.page = "album" /\ w.active = NoAlbum
        u == [w EXCEPT !.trash = FALSE,
                       !.active = IF takes THEN w.ret ELSE @,
                       !.ret = IF takes THEN NoAlbum ELSE @]
    IN  IF ~BrowsingRootIsVisible(w) THEN w
        ELSE IF w.page = "photos"
             THEN [u EXCEPT !.active = NoAlbum, !.albums = {}, !.type = NoAlbum, !.photos = TRUE]
        ELSE LET v == [u EXCEPT !.photos = FALSE, !.type = NoAlbum]
             IN  IF v.active \in v.types THEN [v EXCEPT !.type = v.active]
                 ELSE IF v.active \in v.rows THEN SelectAlbumPosition(v, v.active)
                 ELSE v

(* After its album went: the highlight moves to Photos and the pushed pages *)
(* are popped; the stack's child stays.                                      *)
CloseActiveAlbum(w, gone) ==
    IF w.active \notin gone THEN w
    ELSE LET c == ClearAlbumSelection([w EXCEPT !.active = NoAlbum])
         IN  PopToPhotosRoot([c EXCEPT !.trash = FALSE, !.photos = TRUE])

(* The rows are edited in place when the albums are the same ones (an       *)
(* edited row drops out of GTK's selection, which survivors tells), and     *)
(* replaced otherwise; then the batch selection is restored by folder, or   *)
(* the open album's row selected again.                                      *)
ApplyAlbumRows(w, albums, survivors) ==
    LET kept == [w EXCEPT !.rows = albums, !.albums = IF albums = w.rows THEN survivors ELSE {}]
    IN  IF w.batch
        THEN SyncSelectedAlbumPaths([kept EXCEPT !.albums = w.picked \cap BwFolders \cap albums])
        ELSE ReselectActiveAlbumRow(kept)

(* Rows that are still there keep their selection unless the list had to be *)
(* rebuilt.                                                                  *)
ApplyMediaTypeRows(w, types) ==
    ReselectActiveAlbumRow(
        [w EXCEPT !.types = types,
                  !.type = IF types \subseteq w.types /\ w.type \in types THEN @ ELSE NoAlbum])

RefreshAlbumRows(w, survivors) ==
    ApplyMediaTypeRows(ApplyAlbumRows(w, bwListed \union {Favorites}, survivors), bwTypes)

-----------------------------------------------------------------------------
BrowseInit ==
    /\ bwBudget \in BrowseBudgets
    /\ bwPhotos = [f \in BwFolders |-> bwBudget.photos[f]]
    /\ bwListed = {f \in BwFolders : bwPhotos[f] > 0}
    /\ bwTypes = MediaTypes
    /\ bwDirty = FALSE
    /\ bwSnap = NoSnap
    /\ bwDialog = <<>>
    /\ bwOps = [t \in BwWorkers |-> IdleOp]
    /\ bwGhost = [lost |-> {}, chosen |-> {}, grown |-> {}]
    /\ bw = [nav |-> <<>>, page |-> "photos", children |-> {}, timers |-> {}, gen |-> 0,
             photos |-> TRUE, trash |-> FALSE, albums |-> {}, type |-> NoAlbum,
             active |-> NoAlbum, ret |-> NoAlbum, batch |-> FALSE, picked |-> {},
             rows |-> bwListed \union {Favorites}, types |-> bwTypes, idle |-> <<>>]

(* The alerts are modal for the pointer; the keyboard router does not know  *)
(* them.                                                                     *)
Pointer == bwDialog = <<>>

Unlost == [bwGhost EXCEPT !.lost = {}]
Chosen(w) == [bwGhost EXCEPT !.chosen = w.picked]
Found(w) == [Unlost EXCEPT !.chosen = IF w.picked = {} THEN {} ELSE @]

Shows(w, ghost) == bw' = w /\ bwGhost' = ghost /\ UNCHANGED <<bwData, bwJobs>>

-----------------------------------------------------------------------------
(* Input.  A ListBox reports a click even on its selected row; the album    *)
(* list reports changes of the selection, and a release on a row that was   *)
(* already selected goes to the reactivation gesture.                        *)

SelectPhotosRow ==
    LET w == ClearAlbumSelection([bw EXCEPT !.active = NoAlbum])
        shown == ShowPhotosBrowsingPage(PopToPhotosRoot(w))
    IN  /\ Pointer /\ BwSpend("clicks")
        /\ Shows(shown, Found(w))

SelectTrashRow ==
    LET ret == IF bw.page = "album" THEN bw.active ELSE NoAlbum
        w == ClearAlbumSelection([bw EXCEPT !.ret = ret, !.active = NoAlbum, !.photos = FALSE])
        u == [w EXCEPT !.type = NoAlbum, !.trash = TRUE]
        visible == VisiblePage(u) = "trash"
    IN  /\ Pointer /\ BwSpend("clicks")
        /\ Shows(IF visible THEN u ELSE PushPage(PopToPhotosRoot(u), "trash"),
                 [Found(w) EXCEPT !.lost = (bwGhost.lost \ {"focus"})
                     \union (IF bw.ret # ret /\ bw.active = NoAlbum THEN {"again"} ELSE {})])

SelectMediaTypeRow(t) ==
    LET w == ClearAlbumSelection([bw EXCEPT !.active = t, !.photos = FALSE])
    IN  /\ Pointer /\ BwSpend("clicks") /\ t \in bw.types
        /\ Shows(ScheduleAlbumOpen([w EXCEPT !.type = t, !.trash = FALSE], t), Found(w))

(* selection-changed outside batch mode: one row, scheduled for opening. *)
AlbumSelectionChanged(w, a) ==
    IF w.batch THEN SyncSelectedAlbumPaths(w)
    ELSE IF a \notin w.albums THEN w
    ELSE ScheduleAlbumOpen([w EXCEPT !.albums = {a}, !.active = a, !.photos = FALSE,
                                     !.type = NoAlbum, !.trash = FALSE], a)

ClickAlbum(a) ==
    LET w == IF bw.albums = {a} THEN bw
             ELSE AlbumSelectionChanged([bw EXCEPT !.albums = {a}], a)
        shown == ReactivateSidebarAlbum(w, a)
    IN  /\ Pointer /\ BwSpend("clicks") /\ a \in bw.rows
        /\ Shows(shown, IF bw.batch THEN Chosen(shown)
                        ELSE IF shown.idle = bw.idle THEN bwGhost ELSE Unlost)

(* Ctrl+click: the row alone is toggled. *)
ToggleAlbum(a) ==
    LET on == IF a \in bw.albums THEN bw.albums \ {a} ELSE bw.albums \union {a}
        w == AlbumSelectionChanged([bw EXCEPT !.albums = on], a)
    IN  /\ Pointer /\ BwSpend("toggles") /\ a \in bw.rows
        /\ Shows(w, IF bw.batch THEN Chosen(w) ELSE IF w.idle = bw.idle THEN bwGhost ELSE Unlost)

(* A focus traversal lands on a row and selects it; the guard keeps the     *)
(* handlers from navigating, nothing puts the selection back.                *)
FocusRow ==
    /\ BwSpend("focus")
    /\ \E w \in {[bw EXCEPT !.photos = TRUE], [bw EXCEPT !.trash = TRUE]}
              \union {[bw EXCEPT !.type = t] : t \in bw.types} :
           /\ w # bw
           /\ Shows(w, [bwGhost EXCEPT !.lost = @ \union {"focus"}])

(* The context menu: Manage, Multi-select, Ignore, Delete. *)
ManageAlbum(a) ==
    LET w == SelectAlbumByIdentity([bw EXCEPT !.active = a], a)
        u == [w EXCEPT !.photos = FALSE, !.type = NoAlbum, !.trash = FALSE]
    IN  /\ Pointer /\ BwSpend("menus") /\ a \in bw.rows
        /\ Shows(OpenAlbum(u, a), IF bw.batch THEN [Unlost EXCEPT !.chosen = w.picked] ELSE Unlost)

SelectSeveral(a) ==
    LET on == EnterAlbumSelectionMode(bw)
        w == IF a \in BwFolders THEN SelectAlbumByIdentity(on, a) ELSE on
    IN  /\ Pointer /\ BwSpend("menus") /\ a \in bw.rows
        /\ Shows(w, Chosen(w))

CancelSelection ==
    /\ Pointer /\ bw.batch
    /\ Shows(ExitAlbumSelectionMode(bw), [bwGhost EXCEPT !.chosen = {}])
    /\ UNCHANGED bwBudget

Asks(kind, albums) ==
    /\ Pointer
    /\ bwDialog' = <<[kind |-> kind, albums |-> albums]>>
    /\ UNCHANGED <<bw, bwData, bwOps, bwGhost>>

ConfirmDeleteAlbum(a) ==
    /\ a \in bw.rows \cap BwFolders
    /\ BwSpend("menus") /\ Asks("delete", {a})
ConfirmIgnoreAlbum(a) ==
    /\ a \in bw.rows \cap BwFolders
    /\ BwSpend("menus") /\ Asks("ignore", {a})
ConfirmDeleteSelectedAlbums ==
    /\ bw.batch /\ bw.picked # {}
    /\ SelectedRealAlbums(bw) # {}
    /\ Asks("batch", SelectedRealAlbums(bw)) /\ UNCHANGED bwBudget

(* A thumbnail, the search button or Ctrl+F, Escape or Alt+Left. *)
OpenViewer ==
    /\ Pointer /\ BwSpend("pages")
    /\ VisiblePage(bw) \in {"root", "search"}
    /\ Shows(PushPage(bw, "viewer"), bwGhost)
OpenSearchPage ==
    /\ BwSpend("pages")
    /\ VisiblePage(bw) # "search"
    /\ Shows(PushPage(bw, "search"), bwGhost)
NavigateBack ==
    LET w == IF BrowsingRootIsVisible(bw) /\ bw.page = "album" THEN ShowPhotosBrowsingPage(bw)
             ELSE PopPages(bw, 1)
    IN  /\ BwSpend("backs")
        /\ bw.nav # <<>> \/ bw.page = "album"
        /\ Shows(w, IF bw.nav = <<>> THEN Unlost ELSE bwGhost)

-----------------------------------------------------------------------------
(* Idle callbacks, oldest first. *)

AfterRepair(g) == [g EXCEPT !.lost = IF ~BrowsingRootIsVisible(bw) THEN @
                                     ELSE IF bw.page = "photos" THEN {} ELSE @ \ {"focus"}]

RunIdle ==
    LET next == bw.idle[1]
        w == [bw EXCEPT !.idle = Tail(@)]
    IN  /\ bw.idle # <<>>
        /\ IF next = Repair THEN Shows(SyncSidebarSelection(w), AfterRepair(bwGhost))
           ELSE Shows(OpenAlbum(w, next),
                      [bwGhost EXCEPT !.lost = IF bw.active = next THEN @ ELSE @ \union {"late"}])
        /\ UNCHANGED bwBudget

RetireChild ==
    /\ \E name \in bw.timers : Shows(RemoveRetired(bw, name), bwGhost)
    /\ UNCHANGED bwBudget

-----------------------------------------------------------------------------
(* The alert's answer.  What a worker is given was read when the alert was  *)
(* built.                                                                    *)

StartOp(kind, albums, retry) ==
    \E t \in BwWorkers :
        /\ bwOps[t] = IdleOp
        /\ bwOps' = [bwOps EXCEPT ![t] = [IdleOp EXCEPT !.kind = kind, !.phase = "run",
                        !.albums = albums, !.todo = albums, !.retry = retry]]

(* Also the fallback whose change of trash backend fails. *)
CancelDialog ==
    /\ bwDialog # <<>>
    /\ bwDialog' = Front(bwDialog)
    /\ UNCHANGED <<bw, bwData, bwOps, bwGhost, bwBudget>>

AcceptDialog ==
    LET d == Last(bwDialog)
    IN  /\ bwDialog # <<>>
        /\ bwDialog' = Front(bwDialog)
        /\ StartOp(IF d.kind = "ignore" THEN "ignore" ELSE "delete", d.albums, d.kind = "fallback")
        /\ bw' = IF d.kind = "batch" THEN ExitAlbumSelectionMode(bw) ELSE bw
        /\ bwGhost' = IF d.kind = "batch" THEN [bwGhost EXCEPT !.chosen = {}] ELSE bwGhost
        /\ UNCHANGED <<bwData, bwBudget>>

-----------------------------------------------------------------------------
(* delete_albums_to_trash_worker: the photos of one album after another,    *)
(* each marked, moved and committed; the first failure ends it.  Then the   *)
(* albums table is rebuilt and what is still live is read.                   *)

OpStep(t, op) == bwOps' = [bwOps EXCEPT ![t] = op]
FailedOp(op) == [op EXCEPT !.failed = TRUE, !.todo = {}, !.left = 0, !.phase = "refresh"]

ListAlbum(t) ==
    LET op == bwOps[t]
    IN  /\ op.kind = "delete" /\ op.phase = "run" /\ op.left = 0
        /\ IF op.todo = {} THEN OpStep(t, [op EXCEPT !.phase = "refresh"])
           ELSE \E a \in op.todo :
                    OpStep(t, [op EXCEPT !.todo = @ \ {a}, !.at = a, !.left = bwPhotos[a]])
        /\ UNCHANGED <<bw, bwData, bwDialog, bwGhost, bwBudget>>

TrashPhoto(t) ==
    LET op == bwOps[t]
        a == op.at
    IN  /\ op.phase = "run" /\ op.left > 0
        /\ IF bwPhotos[a] = 0
           THEN OpStep(t, FailedOp(op)) /\ UNCHANGED <<bwPhotos, bwDirty>>
           ELSE /\ OpStep(t, [op EXCEPT !.left = @ - 1])
                /\ bwPhotos' = [bwPhotos EXCEPT ![a] = @ - 1]
                /\ bwDirty' = TRUE
        /\ UNCHANGED <<bw, bwListed, bwTypes, bwSnap, bwDialog, bwGhost, bwBudget>>

(* The move is refused: the mark is rolled back. *)
TrashFails(t) ==
    /\ BwSpend("faults")
    /\ bwOps[t].kind = "delete" /\ bwOps[t].phase = "run"
    /\ OpStep(t, FailedOp(bwOps[t]))
    /\ UNCHANGED <<bw, bwData, bwDialog, bwGhost>>

(* ignore_album_worker: the folder is excluded from scans, its rows go. *)
IgnoreAlbumRows(t) ==
    LET op == bwOps[t]
    IN  /\ op.kind = "ignore" /\ op.phase = "run"
        /\ bwPhotos' = [f \in BwFolders |-> IF f \in op.albums THEN 0 ELSE bwPhotos[f]]
        /\ bwDirty' = TRUE
        /\ OpStep(t, [op EXCEPT !.todo = {}, !.phase = "refresh"])
        /\ UNCHANGED <<bw, bwListed, bwTypes, bwSnap, bwDialog, bwGhost, bwBudget>>

IgnoreFails(t) ==
    /\ BwSpend("faults")
    /\ bwOps[t].kind = "ignore" /\ bwOps[t].phase = "run"
    /\ OpStep(t, [FailedOp(bwOps[t]) EXCEPT !.phase = "land"])
    /\ UNCHANGED <<bw, bwData, bwDialog, bwGhost>>

RefreshAlbumsTable == bwListed' = {f \in BwFolders : bwPhotos[f] > 0}

OpRefreshes(t) ==
    /\ bwOps[t].phase = "refresh"
    /\ RefreshAlbumsTable
    /\ OpStep(t, [bwOps[t] EXCEPT !.phase = IF bwOps[t].kind = "delete" THEN "read" ELSE "land"])
    /\ UNCHANGED <<bw, bwPhotos, bwTypes, bwDirty, bwSnap, bwDialog, bwGhost, bwBudget>>

ReadRemaining(t) ==
    /\ bwOps[t].phase = "read"
    /\ OpStep(t, [bwOps[t] EXCEPT !.phase = "land",
                                  !.remaining = {a \in bwOps[t].albums : bwPhotos[a] > 0}])
    /\ UNCHANGED <<bw, bwData, bwDialog, bwGhost, bwBudget>>

(* The result on the main thread: the rows are read again, the open album   *)
(* is left when none of its photos is live, and a failed move to the system *)
(* trash offers the application's own.                                       *)
GoneAlbums(op) == IF op.kind = "ignore" /\ op.failed THEN {} ELSE op.albums \ op.remaining

LandOp(t) ==
    LET op == bwOps[t]
    IN  /\ op.phase = "land"
        /\ \E survivors \in SUBSET bw.albums :
               LET w == RefreshAlbumRows(bw, survivors)
               IN  bw' = CloseActiveAlbum(w, GoneAlbums(op))
        /\ bwGhost' = [bwGhost EXCEPT
               !.lost = IF bw.active \in GoneAlbums(op) THEN @ \union {"gone"} ELSE @,
               !.chosen = IF bw'.picked = {} THEN {} ELSE @]
        /\ bwDialog' = bwDialog \o IF op.failed /\ op.kind = "delete" /\ ~op.retry
                                   THEN <<[kind |-> "fallback", albums |-> op.albums]>> ELSE <<>>
        /\ OpStep(t, IdleOp)
        /\ UNCHANGED <<bwData, bwBudget>>

-----------------------------------------------------------------------------
(* Photos come and go; domain events ask for a refresh of the albums table, *)
(* after which a snapshot is loaded and delivered.                           *)

PhotosChange(f, n) ==
    /\ BwSpend("changes")
    /\ n # bwPhotos[f]
    /\ bwPhotos' = [bwPhotos EXCEPT ![f] = n]
    /\ bwDirty' = TRUE
    /\ bwGhost' = [bwGhost EXCEPT !.grown = IF \E t \in BwWorkers : bwOps[t].phase \notin {"none", "run"}
                                            THEN @ \union {f} ELSE @]
    /\ UNCHANGED <<bw, bwListed, bwTypes, bwSnap, bwJobs>>

TypesChange(types) ==
    /\ BwSpend("changes")
    /\ types # bwTypes
    /\ bwTypes' = types
    /\ bwDirty' = TRUE
    /\ UNCHANGED <<bw, bwPhotos, bwListed, bwSnap, bwJobs, bwGhost>>

RefreshAsked ==
    /\ bwDirty /\ bwSnap = NoSnap
    /\ bwDirty' = FALSE
    /\ RefreshAlbumsTable
    /\ bwSnap' = [NoSnap EXCEPT !.phase = "asked"]
    /\ UNCHANGED <<bw, bwPhotos, bwTypes, bwJobs, bwGhost, bwBudget>>

SnapshotLoaded ==
    /\ bwSnap.phase = "asked"
    /\ bwSnap' = [phase |-> "loaded", albums |-> bwListed \union {Favorites}, types |-> bwTypes]
    /\ UNCHANGED <<bw, bwPhotos, bwListed, bwTypes, bwDirty, bwJobs, bwGhost, bwBudget>>

SnapshotDelivered ==
    /\ bwSnap.phase = "loaded"
    /\ \E survivors \in SUBSET bw.albums :
           bw' = ApplyMediaTypeRows(ApplyAlbumRows(bw, bwSnap.albums, survivors), bwSnap.types)
    /\ bwGhost' = [bwGhost EXCEPT !.chosen = @ \cap bw'.picked]
    /\ bwSnap' = NoSnap
    /\ UNCHANGED <<bwPhotos, bwListed, bwTypes, bwDirty, bwJobs, bwBudget>>

-----------------------------------------------------------------------------
BrowseInput ==
    \/ SelectPhotosRow \/ SelectTrashRow
    \/ \E t \in MediaTypes : SelectMediaTypeRow(t)
    \/ \E a \in AlbumRows : ClickAlbum(a) \/ ToggleAlbum(a) \/ ManageAlbum(a) \/ SelectSeveral(a)
    \/ \E a \in BwFolders : ConfirmDeleteAlbum(a) \/ ConfirmIgnoreAlbum(a)
    \/ CancelSelection \/ ConfirmDeleteSelectedAlbums
    \/ FocusRow \/ OpenViewer \/ OpenSearchPage \/ NavigateBack
    \/ CancelDialog \/ AcceptDialog
BrowseWork(t) ==
    \/ ListAlbum(t) \/ TrashPhoto(t) \/ IgnoreAlbumRows(t) \/ OpRefreshes(t) \/ ReadRemaining(t)
    \/ LandOp(t)
BrowseRefresh == RefreshAsked \/ SnapshotLoaded \/ SnapshotDelivered

BrowseNext ==
    \/ BrowseInput \/ RunIdle \/ RetireChild \/ BrowseRefresh
    \/ \E t \in BwWorkers : BrowseWork(t) \/ TrashFails(t) \/ IgnoreFails(t)
    \/ \E f \in BwFolders, n \in 0..2 : PhotosChange(f, n)
    \/ \E types \in SUBSET MediaTypes : TypesChange(types)

(* The main loop runs its idle and timeout sources; worker threads and      *)
(* their continuations make progress.                                        *)
BrowseFairness ==
    WF_bwVars(RunIdle \/ BrowseRefresh \/ \E t \in BwWorkers : BrowseWork(t))

BrowseSpec == BrowseInit /\ [][BrowseNext]_bwVars /\ BrowseFairness

-----------------------------------------------------------------------------
(* The pages are three kinds over one root, the stack holds at most one     *)
(* child named "album", and the operations work on real folders: a virtual  *)
(* album never enters the pending deletion, an alert or a worker.            *)
BrowseTypeOK ==
    /\ bw.nav \in Seq({"viewer", "search", "trash"})
    /\ ToSet(bw.idle) \subseteq Browsable \union {Repair}
    /\ Cardinality(AlbumShown(bw)) <= 1
    /\ bw.page = "album" => AlbumShown(bw) # {}
    /\ bw.albums \subseteq AlbumRows /\ bw.rows \subseteq AlbumRows
    /\ {bw.active, bw.ret} \subseteq Browsable \union {NoAlbum}
    /\ bw.picked \subseteq BwFolders
    /\ \A d \in ToSet(bwDialog) : d.albums \subseteq BwFolders /\ d.albums # {}
    /\ \A t \in BwWorkers : bwOps[t].albums \subseteq BwFolders

(* Once the idle callbacks have run and nothing is pushed over the root,    *)
(* the sidebar marks the page that shows and no other row, and the album    *)
(* the live refreshes follow is the one on screen; also after a visit to    *)
(* the trash, the viewer or the search page.  (lost names the four ways     *)
(* the code lets them part.)                                                 *)
SidebarTrue ==
    bw.idle = <<>> /\ bw.nav = <<>> /\ ~bw.batch /\ bwGhost.lost = {} =>
        IF bw.page = "photos"
        THEN /\ bw.active = NoAlbum /\ bw.photos
             /\ bw.albums = {} /\ bw.type = NoAlbum /\ ~bw.trash
        ELSE /\ AlbumShown(bw) = {bw.active}
             /\ ~bw.photos /\ ~bw.trash
             /\ bw.albums \subseteq {bw.active} /\ bw.type \in {NoAlbum, bw.active}

(* A snapshot delivered in batch mode keeps the pending deletion, less the  *)
(* folders that are gone: neither the respliced rows nor the open album     *)
(* change it.                                                                *)
BatchKept ==
    [][bwSnap.phase = "loaded" /\ bwSnap' = NoSnap /\ bw.batch
        => bw'.picked = bw.picked \cap bw'.rows]_bwVars

(* The result of a deletion that left photos behind does not close the      *)
(* album the user is in.                                                     *)
OpenAlbumStays ==
    [][bwOps' # bwOps /\ bw.active \in BwFolders \ bwGhost.grown /\ bw'.active = NoAlbum
        => bwPhotos[bw.active] = 0]_bwVars

(* The sidebar comes to list exactly the folders that hold photos, whatever *)
(* mode it is in.                                                            *)
RowsConverge == []<>(bw.rows \cap BwFolders = {f \in BwFolders : bwPhotos[f] > 0})

(* What sidebar.rs says of the batch selection: "The open album is not the  *)
(* batch selection."  Does not hold: returning to the root selects it.       *)
OpenAlbumNotPicked == bw.batch => bw.picked \subseteq bwGhost.chosen
=============================================================================
