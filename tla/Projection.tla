----------------------------- MODULE Projection -----------------------------
(***************************************************************************)
(* How a change of the library reaches the window.  The database actor      *)
(* commits a command and then sends its domain events into a bounded        *)
(* channel; the GTK main thread takes them one at a time, edits the shared  *)
(* list of photos, and asks the refresh coordinator to rebuild the `albums` *)
(* table, after which a snapshot of that table is loaded on a worker thread *)
(* and shown in the sidebar.  The main thread also reads the database       *)
(* itself (a reload of the list, a rebuild of the sidebar rows) and, when   *)
(* an album is dropped on another, waits for the actor's answer.            *)
(***************************************************************************)
EXTENDS Integers, Sequences, FiniteSets, SequencesExt

CONSTANTS
    Media,          \* photos: naturals, the database ids
    ProjFolders,    \* folders that hold photos
    Images,         \* the virtual album of all photos
    Times,          \* sort times
    EventCap,       \* capacity of the channel of domain events
    MaxSnaps,       \* bound: sidebar snapshots in flight
    ProjStarts,     \* media tables at startup
    ProjBudgets     \* bounds: how many changes of each kind happen, and the
                    \* configured cap of the list

ASSUME ProjAssumption ==
    /\ Media \subseteq Nat /\ Times \subseteq Nat
    /\ {EventCap, MaxSnaps} \subseteq Nat \ {0}

VARIABLES
    media,      \* the media_items rows
    albums,     \* the materialized `albums` table: photos per album
    order,      \* the album_order table
    scan,       \* the startup scan's closing RefreshAlbums: due, done
    outbox,     \* events of the command the actor is executing, unsent
    channel,    \* the bounded channel of domain events
    list,       \* the shared gio::ListStore
    coord,      \* RefreshCoordinator
    snaps,      \* sidebar snapshots being loaded
    sidebar,    \* what the sidebar shows
    mainThread, \* free, or inside reorder_album's execute_blocking
    trashing,   \* the photo a move to the trash is working on
    ignoring,   \* the ignore-album worker
    ghosts,     \* photos a trash reconcile marked while they were live, or a
                \* scan changed when the list was full: nothing updates them
    projBudget

libraryVars == <<media, albums, order, scan, outbox, trashing>>
windowVars == <<list, coord, snaps, sidebar, mainThread, ignoring>>
projVars == <<libraryVars, windowVars, channel, ghosts, projBudget>>

Albums == ProjFolders \union {Images}
NoMediaItem == [id |-> 0, at |-> Images, time |-> 0]
Items == [id : Media, at : ProjFolders, time : Times]
Uri(i) == <<i.id, i.at>>
Item(m) == [id |-> m, at |-> media[m].at, time |-> media[m].time]
LiveMedia == {m \in Media : media[m].st = "live"}

ProjSpend(what) == /\ projBudget[what] > 0
                   /\ projBudget' = [projBudget EXCEPT ![what] = @ - 1]

-----------------------------------------------------------------------------
(* runtime_config::ui_media_list_cap() *)
ListCap == projBudget.cap

(* The shared list: photo sort time descending, then id descending, at most *)
(* ListCap entries.                                                          *)

CompareMediaOrder(a, b) == a.time > b.time \/ (a.time = b.time /\ a.id > b.id)

Sorted(items) == SetToSortSeq(items, CompareMediaOrder)
Capped(l) == SubSeq(l, 1, Min({Len(l), ListCap}))

MatchesItem_uri(e, i) == Uri(e) = Uri(i)
MatchesItem(e, i) == Uri(e) = Uri(i) \/ e.id = i.id
KnownIn(l, i) == \E k \in DOMAIN l : MatchesItem(l[k], i)

SortedInsertPosition(l, i) ==
    1 + Cardinality({k \in DOMAIN l : \A j \in 1..k : ~CompareMediaOrder(i, l[j])})

PutAt(l, p, i) == IF p > ListCap THEN l ELSE Capped(InsertAt(l, p, i))

RemoveUrisBatch(l, uris) == SelectSeq(l, LAMBDA e : Uri(e) \notin uris)

InsertAbsent(l, i) == PutAt(l, SortedInsertPosition(l, i), i)

(* The old entry goes, the new one keeps its place when the order agrees. *)
TargetedUpsert(l, i) ==
    IF ~KnownIn(l, i) THEN InsertAbsent(l, i)
    ELSE LET at == CHOOSE k \in DOMAIN l :
                       MatchesItem(l[k], i) /\ \A j \in 1..k-1 : ~MatchesItem(l[j], i)
             rest == RemoveAt(l, at)
             same == l[at].time = i.time /\ l[at].id = i.id
         IN  PutAt(rest, IF same THEN at ELSE SortedInsertPosition(rest, i), i)

MergeAll(l, items) ==
    LET kept == {e \in ToSet(l) : \A i \in items : Uri(e) # Uri(i)}
    IN  Capped(Sorted(kept \union items))

ApplyUpsertedBatch(l, source, items) ==
    IF items = {} \/ (source = "scan" /\ Len(l) >= ListCap) THEN l
    ELSE IF \A i \in items : ~KnownIn(l, i) THEN FoldLeft(InsertAbsent, l, Sorted(items))
    ELSE IF source # "scan" THEN FoldLeft(TargetedUpsert, l, Sorted(items))
    ELSE MergeAll(l, items)

(* MediaUpserted, MediaUpdated and MediaRestored carry the photos that can  *)
(* be displayed in `items` and the others in `uris`; MediaRemoved and       *)
(* MediaMovedToTrash only `uris`.                                           *)
ApplyToMediaList(l, e) ==
    ApplyUpsertedBatch(RemoveUrisBatch(l, e.uris), e.source, e.items)

(* A reload keeps the entries that are there when the photos are the same   *)
(* up to one inserted run, and replaces the whole list otherwise.           *)
SameMediaIdentity(a, b) == a.id = b.id /\ Uri(a) = Uri(b)

PureInsertions(l, fresh) ==
    {k \in 0..Len(l) :
        /\ Len(fresh) > Len(l)
        /\ \A j \in 1..k : SameMediaIdentity(l[j], fresh[j])
        /\ \A j \in k+1..Len(l) :
               SameMediaIdentity(l[j], fresh[j + Len(fresh) - Len(l)])}

ApplyMediaProjection(l, fresh) ==
    IF PureInsertions(l, fresh) = {} THEN fresh
    ELSE LET k == Max(PureInsertions(l, fresh))
         IN  SubSeq(l, 1, k) \o SubSeq(fresh, k + 1, k + Len(fresh) - Len(l))
                             \o SubSeq(l, k + 1, Len(l))

LoadLiveWindow == Capped(Sorted({Item(m) : m \in LiveMedia}))

-----------------------------------------------------------------------------
(* Album counts and the sidebar. *)

CountAlbums(rows) ==
    LET live == {m \in Media : rows[m].st = "live"}
    IN  [a \in Albums |-> Cardinality({m \in live : a \in {Images, rows[m].at}})]

LoadSidebarSnapshot == [counts |-> albums, order |-> order]

MarkAlbumsDirty(c) ==
    IF c.running # "no" \/ c.cooling THEN [c EXCEPT !.pending = TRUE]
    ELSE [c EXCEPT !.running = "asked"]

AskSnapshot == /\ Len(snaps) < MaxSnaps
               /\ snaps' = Append(snaps, [loaded |-> FALSE, rows |-> sidebar])

ProjInit ==
    /\ media \in ProjStarts
    /\ projBudget \in ProjBudgets
    /\ scan = IF projBudget.scans = 0 THEN "done" ELSE "due"
    /\ albums = IF scan = "done" THEN CountAlbums(media) ELSE [a \in Albums |-> 0]
    /\ order = SetToSeq(ProjFolders)
    /\ outbox = <<>> /\ channel = <<>>
    /\ list = LoadLiveWindow
    /\ coord = [running |-> "no", pending |-> FALSE, cooling |-> FALSE]
    /\ sidebar = [counts |-> albums, order |-> order]
    /\ snaps = IF scan = "done" THEN <<>> ELSE <<[loaded |-> FALSE, rows |-> sidebar]>>
    /\ mainThread = "free"
    /\ trashing = NoMediaItem
    /\ ignoring = [phase |-> "no", folder |-> Images, behind |-> 0]
    /\ ghosts = {}

-----------------------------------------------------------------------------
(* The database actor: one command at a time, its events sent before the    *)
(* next.  SetAlbumOrder has the highest priority, so nothing overtakes the  *)
(* main thread while it waits.                                              *)

ActorIdle == outbox = <<>> /\ mainThread # "waiting"

MediaEvent(source, ms, rows) ==
    LET item(m) == [id |-> m, at |-> rows[m].at, time |-> rows[m].time]
    IN  [kind |-> "media", source |-> source,
         items |-> {item(m) : m \in {x \in ms : rows[x].st # "hidden"}},
         uris |-> {Uri(item(m)) : m \in {x \in ms : rows[x].st = "hidden"}}]
RemovedEvent(uris) == [kind |-> "media", source |-> "user", items |-> {}, uris |-> uris]
Notice(kind) == [kind |-> kind, source |-> "user", items |-> {}, uris |-> {}]

CommitSend(rows, events) ==
    /\ ActorIdle
    /\ media' = rows
    /\ outbox' = events

onlyMedia == <<albums, order, scan, trashing, ghosts, channel, windowVars>>

WriteMedia(rows, events) == CommitSend(rows, events) /\ UNCHANGED onlyMedia

(* A row keeps its folder: another path is another row.  The folder being   *)
(* ignored is excluded from scans and the watcher before its rows go (the   *)
(* scan that read the exclusions earlier is in Indexer).                    *)
UpsertMediaBatch(source, m, at, time) ==
    LET rows == [media EXCEPT ![m] = [st |-> "live", at |-> at, time |-> time]]
    IN  /\ ProjSpend("upserts")
        /\ media[m].st = "none" \/ media[m].at = at
        /\ at # ignoring.folder
        /\ rows # media
        /\ WriteMedia(rows, <<MediaEvent(source, {m}, rows), Notice("albums")>>)

(* DeleteLiveByPath(s), DeleteLiveByFolderTrees, PruneMissingLiveRows. *)
DeleteLiveRows(gone) ==
    LET rows == [m \in Media |-> IF m \in gone THEN [media[m] EXCEPT !.st = "none"]
                                 ELSE media[m]]
    IN  /\ ProjSpend("deletes")
        /\ gone # {} /\ gone \subseteq LiveMedia
        /\ WriteMedia(rows, <<RemovedEvent({Uri(Item(m)) : m \in gone}), Notice("albums")>>)

(* SetFavorite and UpdateEditedMedia: only the second moves the sort time. *)
UpdateMedia(m, time) ==
    LET rows == [media EXCEPT ![m].time = time]
    IN  /\ ProjSpend("updates")
        /\ m \in LiveMedia
        /\ WriteMedia(rows, <<MediaEvent("user", {m}, rows), Notice("albums")>>)

RelocateMedia(m, at) ==
    LET rows == [media EXCEPT ![m].at = at]
    IN  /\ ProjSpend("updates")
        /\ m \in LiveMedia /\ media[m].at # at
        /\ WriteMedia(rows, <<MediaEvent("user", {m}, rows)>>)

SetAlbumCover ==
    /\ ProjSpend("covers")
    /\ WriteMedia(media, <<Notice("albums")>>)

-----------------------------------------------------------------------------
(* Trash: the row is marked, the file moved, then the move is announced.    *)

MarkTrashed(m) ==
    /\ ProjSpend("trashes")
    /\ trashing = NoMediaItem
    /\ m \in LiveMedia
    /\ CommitSend([media EXCEPT ![m].st = "trashed"], <<>>)
    /\ trashing' = Item(m)
    /\ UNCHANGED <<albums, order, scan, ghosts, channel, windowVars>>

CommitMovedToTrash ==
    /\ trashing # NoMediaItem
    /\ CommitSend(media, <<RemovedEvent({Uri(trashing)})>>)
    /\ trashing' = NoMediaItem
    /\ UNCHANGED <<albums, order, scan, ghosts, channel, windowVars, projBudget>>

(* Nothing is announced when the row is gone: the read fails. *)
RollbackTrashed ==
    LET m == trashing.id
        rows == [media EXCEPT ![m].st = "live"]
    IN  /\ trashing # NoMediaItem
        /\ IF media[m].st = "none" THEN CommitSend(media, <<>>)
           ELSE CommitSend(rows, <<MediaEvent("user", {m}, rows)>>)
        /\ trashing' = NoMediaItem
        /\ UNCHANGED <<albums, order, scan, ghosts, channel, windowVars, projBudget>>

(* The trash page acts on photos whose file has arrived in the trash. *)
InTrash(m) == media[m].st = "trashed" /\ trashing.id # m

RestoreTrashed(m) ==
    LET rows == [media EXCEPT ![m].st = "live"]
    IN  /\ ProjSpend("trashes")
        /\ InTrash(m)
        /\ WriteMedia(rows, <<MediaEvent("user", {m}, rows), Notice("trash")>>)

DeleteTrashedRows(m) ==
    /\ ProjSpend("trashes")
    /\ InTrash(m)
    /\ WriteMedia([media EXCEPT ![m].st = "none"], <<Notice("trash")>>)

(* A photo another program moved to, or out of, the trash. *)
ReconcileTrash(m) ==
    LET now == IF media[m].st = "trashed" THEN "none" ELSE "trashed"
    IN  /\ ProjSpend("reconciles")
        /\ media[m].st # "hidden" /\ trashing.id # m
        /\ CommitSend([media EXCEPT ![m].st = now], <<Notice("trash")>>)
        /\ ghosts' = IF m \in LiveMedia THEN ghosts \union {m} ELSE ghosts
        /\ UNCHANGED <<albums, order, scan, trashing, channel, windowVars>>

-----------------------------------------------------------------------------
(* Synchronization: a photo is admitted hidden, shown when its thumbnail is *)
(* there, and rows vanish together when an account or a task goes.          *)

SyncEvents(m, rows) == <<MediaEvent("sync", {m}, rows), Notice("albums"), Notice("sync")>>

Admit(m, at, time) ==
    LET rows == [media EXCEPT ![m] = [st |-> "hidden", at |-> at, time |-> time]]
    IN  /\ ProjSpend("syncs")
        /\ media[m].st = "none"
        /\ WriteMedia(rows, SyncEvents(m, rows))

ThumbnailReady(m) ==
    LET rows == [media EXCEPT ![m].st = "live"]
    IN  /\ ProjSpend("syncs")
        /\ media[m].st \in {"hidden", "live"}
        /\ WriteMedia(rows, SyncEvents(m, rows))

VisibilityChanged(ms) ==
    /\ ProjSpend("syncs")
    /\ ms # {} /\ ms \subseteq LiveMedia
    /\ WriteMedia([m \in Media |-> IF m \in ms THEN [media[m] EXCEPT !.st = "hidden"]
                                   ELSE media[m]],
                  <<Notice("liveCount"), Notice("albums")>>)

-----------------------------------------------------------------------------
(* Album refreshes and the order of albums. *)

(* The closing command of the startup scan. *)
RefreshAlbums ==
    /\ scan = "due" /\ ActorIdle
    /\ scan' = "done"
    /\ albums' = CountAlbums(media)
    /\ outbox' = <<Notice("albums")>>
    /\ UNCHANGED <<media, order, trashing, ghosts, channel, windowVars, projBudget>>

RefreshAlbumsInternal ==
    /\ coord.running = "asked" /\ ActorIdle
    /\ albums' = CountAlbums(media)
    /\ coord' = [coord EXCEPT !.running = "ran"]
    /\ UNCHANGED <<media, order, scan, outbox, trashing, ghosts, channel, list, snaps,
                   sidebar, mainThread, ignoring, projBudget>>

SetAlbumOrder ==
    /\ mainThread = "waiting" /\ outbox = <<>>
    /\ order' = Reverse(sidebar.order)
    /\ mainThread' = "answered"
    /\ UNCHANGED <<media, albums, scan, outbox, trashing, ghosts, channel, list, coord,
                   snaps, sidebar, ignoring, projBudget>>

SendEvent ==
    /\ outbox # <<>> /\ Len(channel) < EventCap
    /\ channel' = Append(channel, Head(outbox))
    /\ outbox' = Tail(outbox)
    /\ UNCHANGED <<media, albums, order, scan, trashing, ghosts, windowVars, projBudget>>

-----------------------------------------------------------------------------
(* The ignore-album worker: two commands, then its continuation in the      *)
(* window, which runs after the events sent before it finished.             *)

AlbumIgnored(f) ==
    /\ ProjSpend("ignores")
    /\ mainThread = "free" /\ ignoring.phase = "no"
    /\ ignoring' = [phase |-> "delete", folder |-> f, behind |-> 0]
    /\ UNCHANGED <<libraryVars, ghosts, channel, list, coord, snaps, sidebar, mainThread>>

DeleteLiveByFolder ==
    LET gone == {m \in LiveMedia : media[m].at = ignoring.folder}
    IN  /\ ignoring.phase = "delete"
        /\ CommitSend([m \in Media |-> IF m \in gone THEN [media[m] EXCEPT !.st = "none"]
                                       ELSE media[m]],
                      IF gone = {} THEN <<>> ELSE <<Notice("albums")>>)
        /\ ignoring' = [ignoring EXCEPT !.phase = "refresh"]
        /\ UNCHANGED <<albums, order, scan, trashing, ghosts, channel, list, coord, snaps,
                       sidebar, mainThread, projBudget>>

IgnoreRefreshes ==
    /\ ignoring.phase = "refresh" /\ ActorIdle
    /\ albums' = CountAlbums(media)
    /\ ignoring' = [ignoring EXCEPT !.phase = "done", !.behind = Len(channel)]
    /\ UNCHANGED <<media, order, scan, outbox, trashing, ghosts, channel, list, coord,
                   snaps, sidebar, mainThread, projBudget>>

FinishIgnoreAlbum ==
    /\ ignoring.phase = "done" /\ ignoring.behind = 0 /\ mainThread = "free"
    /\ list' = SelectSeq(list, LAMBDA e : e.at # ignoring.folder)
    /\ sidebar' = LoadSidebarSnapshot
    /\ ignoring' = [phase |-> "no", folder |-> Images, behind |-> 0]
    /\ UNCHANGED <<libraryVars, ghosts, channel, coord, snaps, mainThread, projBudget>>

-----------------------------------------------------------------------------
(* The main thread. *)

(* A batch of the startup scan leaves the albums to the scan itself. *)
ApplyDomainEvent(e) ==
    /\ list' = CASE e.kind = "media" -> ApplyToMediaList(list, e)
                 [] e.kind = "liveCount" -> ApplyMediaProjection(list, LoadLiveWindow)
                 [] OTHER -> list
    /\ coord' = IF e.kind = "sync" \/ (e.kind = "media" /\ e.source = "scan") THEN coord
                ELSE MarkAlbumsDirty(coord)

DispatchEvent ==
    /\ mainThread = "free" /\ channel # <<>>
    /\ channel' = Tail(channel)
    /\ ApplyDomainEvent(Head(channel))
    /\ ignoring' = [ignoring EXCEPT !.behind = Max({@ - 1, 0})]
    /\ ghosts' = IF Head(channel).source = "scan" /\ Len(list) >= ListCap
                 THEN ghosts \union {i.id : i \in Head(channel).items} ELSE ghosts
    /\ UNCHANGED <<libraryVars, snaps, sidebar, mainThread, projBudget>>

AlbumRefreshDone ==
    /\ mainThread = "free" /\ coord.running = "ran"
    /\ AskSnapshot
    /\ coord' = [running |-> "no", pending |-> FALSE, cooling |-> coord.pending]
    /\ UNCHANGED <<libraryVars, ghosts, channel, list, sidebar, mainThread, ignoring, projBudget>>

CooldownEnds ==
    /\ mainThread = "free" /\ coord.cooling
    /\ coord' = MarkAlbumsDirty([coord EXCEPT !.cooling = FALSE, !.pending = FALSE])
    /\ UNCHANGED <<libraryVars, ghosts, channel, list, snaps, sidebar, mainThread, ignoring,
                   projBudget>>

(* Copy or Move in the album picker has written its rows; the window reads  *)
(* the database again.                                                      *)
RefreshAfterAlbumOperation ==
    /\ ProjSpend("reloads")
    /\ mainThread = "free"
    /\ list' = ApplyMediaProjection(list, LoadLiveWindow)
    /\ AskSnapshot
    /\ UNCHANGED <<libraryVars, ghosts, channel, coord, sidebar, mainThread, ignoring>>

LoadSnapshot(k) ==
    /\ ~snaps[k].loaded
    /\ snaps' = [snaps EXCEPT ![k] = [loaded |-> TRUE, rows |-> LoadSidebarSnapshot]]
    /\ UNCHANGED <<libraryVars, ghosts, channel, list, coord, sidebar, mainThread, ignoring,
                   projBudget>>

(* Workers finish in any order. *)
DeliverSnapshot(k) ==
    /\ mainThread = "free" /\ snaps[k].loaded
    /\ sidebar' = snaps[k].rows
    /\ snaps' = RemoveAt(snaps, k)
    /\ UNCHANGED <<libraryVars, ghosts, channel, list, coord, mainThread, ignoring, projBudget>>

ReorderAlbum ==
    /\ ProjSpend("orders")
    /\ mainThread = "free"
    /\ mainThread' = "waiting"
    /\ UNCHANGED <<libraryVars, ghosts, channel, list, coord, snaps, sidebar, ignoring>>

RebuildAlbumRows ==
    /\ mainThread = "answered"
    /\ mainThread' = "free"
    /\ sidebar' = LoadSidebarSnapshot
    /\ UNCHANGED <<libraryVars, ghosts, channel, list, coord, snaps, ignoring, projBudget>>

-----------------------------------------------------------------------------
LibraryChanges ==
    \/ \E source \in {"scan", "watcher"}, m \in Media, at \in ProjFolders,
          t \in Times : UpsertMediaBatch(source, m, at, t)
    \/ \E m \in Media : \/ DeleteLiveRows({m})
                        \/ MarkTrashed(m) \/ RestoreTrashed(m) \/ DeleteTrashedRows(m)
                        \/ ReconcileTrash(m)
                        \/ ThumbnailReady(m) \/ VisibilityChanged({m})
    \/ \E f \in ProjFolders : DeleteLiveRows({m \in LiveMedia : media[m].at = f})
    \/ \E m \in Media, t \in Times : UpdateMedia(m, t)
    \/ \E m \in Media, at \in ProjFolders : RelocateMedia(m, at)
    \/ \E m \in Media, at \in ProjFolders, t \in Times : Admit(m, at, t)
    \/ VisibilityChanged(LiveMedia)
    \/ SetAlbumCover

UserActs == \/ \E f \in ProjFolders : AlbumIgnored(f)
            \/ ReorderAlbum
            \/ RefreshAfterAlbumOperation

ActorSteps == \/ SendEvent \/ RefreshAlbums \/ RefreshAlbumsInternal \/ SetAlbumOrder
              \/ CommitMovedToTrash \/ RollbackTrashed
              \/ DeleteLiveByFolder \/ IgnoreRefreshes

MainSteps == \/ DispatchEvent \/ AlbumRefreshDone \/ CooldownEnds \/ RebuildAlbumRows
             \/ FinishIgnoreAlbum
             \/ \E k \in DOMAIN snaps : LoadSnapshot(k) \/ DeliverSnapshot(k)

ProjNext == LibraryChanges \/ UserActs \/ ActorSteps \/ MainSteps

(* As long as the actor or the main loop can go on, one of them does. *)
ProjWork == ActorSteps \/ MainSteps
ProjFairness == WF_projVars(ProjWork)

ProjSpec == ProjInit /\ [][ProjNext]_projVars /\ ProjFairness

-----------------------------------------------------------------------------
ProjTypeOK ==
    /\ media \in [Media -> [st : {"none", "live", "hidden", "trashed"},
                            at : ProjFolders, time : Times]]
    /\ albums \in [Albums -> 0..Cardinality(Media)]
    /\ Len(channel) <= EventCap /\ Len(snaps) <= MaxSnaps
    /\ list \in Seq(Items) /\ Len(list) <= ListCap
    /\ coord \in [running : {"no", "asked", "ran"}, pending : BOOLEAN, cooling : BOOLEAN]
    /\ mainThread \in {"free", "waiting", "answered"}
    /\ ignoring.behind \in 0..EventCap
    /\ trashing \in Items \union {NoMediaItem}
    /\ ghosts \subseteq Media

ProjectionQuiet ==
    /\ channel = <<>> /\ outbox = <<>> /\ mainThread = "free"
    /\ trashing = NoMediaItem /\ ignoring.phase = "no"

(* Once every event has been applied, each photo of the shared list is live *)
(* in the database and shown with its present folder and sort time, in the  *)
(* order of db::list_all_media and once: no reload that read ahead of the   *)
(* queued events, and no batch, hidden photo or relocation, leaves an entry *)
(* that is stale, doubled or out of place.  (apply_to_media_list, the       *)
(* reload of LiveCountDirty, the ignore-album continuation.)                *)
ListCurrent ==
    ProjectionQuiet =>
        /\ \A k \in DOMAIN list :
              list[k].id \in ghosts \/ (list[k].id \in LiveMedia /\ list[k] = Item(list[k].id))
        /\ \A j, k \in DOMAIN list : j < k => CompareMediaOrder(list[j], list[k])

(* A library that fits the list is listed whole once every event has been   *)
(* applied: the list starts as a window of the table and no insertion,      *)
(* removal or reload skips a photo.                                         *)
ListComplete ==
    ProjectionQuiet /\ Cardinality(Media) <= ListCap => LiveMedia \subseteq {list[k].id : k \in DOMAIN list}

(* The albums table ends equal to the counts of the live rows, whatever     *)
(* changes arrived while a rebuild was running or cooling down: the         *)
(* coordinator's pending mark is never dropped (RefreshCoordinator).        *)
AlbumsSettle == <>[](albums = CountAlbums(media))

(* ... and when nothing is running, queued or pending the sidebar shows the *)
(* last state of the table (docs: "the last state always lands").           *)
SidebarLands ==
    ProjectionQuiet /\ scan = "done" /\ snaps = <<>> /\ coord.running = "no" /\ ~coord.cooling
        => sidebar.counts = CountAlbums(media)

(* The main thread gets its answer from the actor (events.rs: "a bounded    *)
(* blocking send cannot stall the GTK main loop").                          *)
MainLoopRuns == mainThread = "waiting" ~> mainThread = "free"
=============================================================================
