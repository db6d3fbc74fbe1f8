------------------------------- MODULE Search -------------------------------
(***************************************************************************)
(* The search page: the entry and its debounced query, the two result      *)
(* sections with their bounded previews and "More" tiles, and the batch    *)
(* actions of the preview grids (ui/search_page.rs, the flat MediaGrid of  *)
(* ui/media_grid/ that only this page uses, ui/trash_fallback.rs).         *)
(*                                                                         *)
(* Everything here runs on the GTK main loop except the query, which a     *)
(* worker answers in two reads, and the trash batch, whose files a worker  *)
(* moves; each read and each landing is a step of its own.  A photo is its *)
(* rank in the result order, a term the set of photos it matches.          *)
(***************************************************************************)
EXTENDS Integers, FiniteSets, Sequences, SequencesExt

CONSTANTS SrPhotos,       \* the photos, numbered in result order
          SrVideos,       \* those of them that are videos
          SrTerms,        \* the terms a person types (never blank)
          SearchFields,   \* the fields the three toggles choose between
          SrMatch,        \* term and field -> the photos that match
          SrAreas,        \* the sizes the window gives the result area
          SEARCH_PREVIEW_FALLBACK_COLUMNS, SEARCH_PREVIEW_MIN_ROWS,
          TileStep, SEARCH_SECTION_HEADER_HEIGHT,
          SearchBudgets   \* the bounds, one record per scenario

VARIABLES srDb,      \* live rows, and the photos whose files have been moved
          srEntry,   \* entry text, chosen field, search-changed still due
          srGen,     \* search_generation
          srJobs,    \* the queries under way
          srBusy,    \* the busy row: token, shown, armed timers
          srPage,    \* the page's lists, grids, tiles and placeholders
          srOps,     \* favourite and trash batches under way
          srMenu,    \* an open context menu
          srGhost,   \* what the code's known gaps have led to
          srLeft     \* what the scenario still allows

srVars == <<srDb, srEntry, srGen, srJobs, srBusy, srPage, srOps, srMenu,
            srGhost, srLeft>>

SearchSections == {"image", "video"}
Blank == "blank"
NoQuery == <<Blank, "none">>
NoMenu == [open |-> FALSE]

SearchSpend(what) == /\ srLeft[what] > 0
                     /\ srLeft' = [srLeft EXCEPT ![what] = @ - 1]

\* `f` with every value computed
Evaluated(f) == CHOOSE g \in {f} : g = g

\* The rows a SearchKind query returns, in result order.
SearchItems(kind, term, field, live) ==
    LET hits == {p \in live \cap SrMatch[<<term, field>>] :
                   (p \in SrVideos) = (kind = "video")}
    IN SetToSortSeq(hits, <)

-----------------------------------------------------------------------------
(* Layout and capacity.                                                    *)

FallbackPreviewCapacity ==
    SEARCH_PREVIEW_FALLBACK_COLUMNS * SEARCH_PREVIEW_MIN_ROWS

AtLeast(low, n) == IF n < low THEN low ELSE n

PreviewCapacityForArea(width, height, sections) ==
    IF width = 0
    THEN FallbackPreviewCapacity
    ELSE LET columns == AtLeast(1, width \div TileStep)
             room == AtLeast(TileStep,
                             height - sections * SEARCH_SECTION_HEADER_HEIGHT)
             rows == AtLeast(SEARCH_PREVIEW_MIN_ROWS,
                             (room \div sections) \div TileStep)
         IN columns * rows

\* The capacity the current layout asks for; `width` is what the image
\* section was last allocated, and nothing while it is hidden.
MeasuredCapacity(w) ==
    PreviewCapacityForArea(w.width, w.area.height,
                           AtLeast(1, Cardinality({k \in SearchSections :
                                                     w.full[k] # <<>>})))

-----------------------------------------------------------------------------
(* The preview grids: a MediaGrid in flat mode over each preview list.     *)

\* Leaving batch mode and unselecting every tile of one grid.
ClearGridSelection(w, k) == [w EXCEPT !.picked[k] = {}, !.multi[k] = FALSE]

\* One tile per item, at its position in the list.
RebuiltTiles(list) == [i \in DOMAIN list |-> [id |-> list[i], index |-> i]]

\* Every widget of the grid goes, the extra "More" child with them, and the
\* tiles are built again from the list.
RebuildGrid(w, k) == [w EXCEPT !.tiles[k] = RebuiltTiles(w.list[k]),
                               !.held[k] = FALSE]

RebuildImmediately(w, k) == RebuildGrid(ClearGridSelection(w, k), k)

\* One removal inside the list: the tile of that position goes, and the later
\* ones move up.
ApplyIncrementalRemoval(w, k, position) ==
    LET gone == SelectSeq(w.tiles[k], LAMBDA t : t.index = position)
        kept == SelectSeq(w.tiles[k], LAMBDA t : t.index # position)
    IN [w EXCEPT !.tiles[k] = Evaluated([i \in DOMAIN kept |->
                                 IF kept[i].index > position
                                 THEN [kept[i] EXCEPT !.index = @ - 1]
                                 ELSE kept[i]]),
                 !.picked[k] = @ \ {t.id : t \in ToSet(gone)}]

\* What the grid does when its whole list is replaced: a list that only lost
\* its items is emptied in place, anything else is rebuilt.
HandleItemsChanged(w, k, before) ==
    CASE before # <<>> /\ w.list[k] = <<>> ->
             [w EXCEPT !.tiles[k] = <<>>, !.picked[k] = {}]
      [] w.list[k] # <<>> -> RebuildImmediately(w, k)
      [] OTHER -> w

ReplaceStoreItems(w, k, items) ==
    HandleItemsChanged([w EXCEPT !.list[k] = items], k, w.list[k])

\* The "More" tile goes to the end of the last flow box, if there is one.
AppendExtraChild(w, k) == [w EXCEPT !.held[k] = @ \/ w.tiles[k] # <<>>]

ReattachMoreTiles(w) == AppendExtraChild(AppendExtraChild(w, "image"), "video")

-----------------------------------------------------------------------------
(* Results and previews.                                                   *)

HasMore(w, k) == Len(w.full[k]) > w.capacity

PreviewItems(w, k) ==
    LET room == IF HasMore(w, k) THEN w.capacity - 1 ELSE w.capacity
    IN SubSeq(w.full[k], 1, IF Len(w.full[k]) < room THEN Len(w.full[k]) ELSE room)

\* Both previews cut from the full results, the "More" tiles after them.
RebuildPreviewsFromFullResults(w) ==
    LET marked == [w EXCEPT !.more = Evaluated([k \in SearchSections |-> HasMore(w, k)])]
        one == ReplaceStoreItems(marked, "image", PreviewItems(w, "image"))
    IN ReattachMoreTiles(ReplaceStoreItems(one, "video", PreviewItems(w, "video")))

RefreshPreviewCapacityFromLayout(w) ==
    LET capacity == MeasuredCapacity(w)
    IN IF capacity = w.capacity THEN w
       ELSE RebuildPreviewsFromFullResults([w EXCEPT !.capacity = capacity])

\* One of three placeholders, chosen by the entry's text as it is now.
SetSearchState(w, text) ==
    LET hasResults == \E k \in SearchSections : w.full[k] # <<>>
        state == IF text = Blank THEN "idle"
                 ELSE IF hasResults THEN "results" ELSE "no-results"
    IN [w EXCEPT !.stack = state,
                 !.title = IF state = "no-results" THEN text ELSE @]

\* The previews are cut at the capacity measured from the previous results;
\* a hidden image section loses its allocation at once.
ReplaceResults(w, found, text, query) ==
    LET measured == RefreshPreviewCapacityFromLayout(w)
        stored == [measured EXCEPT
                     !.full = found,
                     !.box = Evaluated([k \in SearchSections |-> found[k] # <<>>]),
                     !.width = IF found["image"] = <<>> THEN 0 ELSE @,
                     !.answers = query]
    IN RebuildPreviewsFromFullResults(SetSearchState(stored, text))

NothingFound == [k \in SearchSections |-> <<>>]

-----------------------------------------------------------------------------
(* The busy row.                                                           *)

BeginSearchBusy(b, generation) ==
    [b EXCEPT !.token = generation, !.timers = @ \cup {generation}]

EndSearchBusy(b) == [b EXCEPT !.token = 0, !.shown = FALSE]

-----------------------------------------------------------------------------
SearchInit ==
    /\ srDb = [live |-> SrPhotos, moved |-> {}]
    /\ srEntry = [text |-> Blank, field |-> "All", due |-> FALSE]
    /\ srGen = 0
    /\ srJobs = {}
    /\ srBusy = [token |-> 0, shown |-> FALSE, timers |-> {}]
    /\ \E area \in SrAreas :
         srPage = [full |-> NothingFound, list |-> NothingFound,
                   tiles |-> NothingFound, more |-> [k \in SearchSections |-> FALSE],
                   held |-> [k \in SearchSections |-> FALSE],
                   box |-> [k \in SearchSections |-> FALSE],
                   picked |-> [k \in SearchSections |-> {}],
                   multi |-> [k \in SearchSections |-> FALSE],
                   stack |-> "idle", title |-> Blank, answers |-> NoQuery,
                   capacity |-> FallbackPreviewCapacity, width |-> 0,
                   area |-> area, opened |-> NoQuery, pending |-> FALSE]
    /\ srOps = <<>>
    /\ srMenu = NoMenu
    /\ srGhost = {}
    /\ srLeft \in SearchBudgets

\* run_search: a new generation; a blank term empties the page at once, any
\* other starts a query.
RunSearch(text, field) ==
    /\ srGen' = srGen + 1
    /\ IF text = Blank
       THEN /\ srPage' = ReplaceResults(srPage, NothingFound, text, NoQuery)
            /\ srBusy' = EndSearchBusy(srBusy)
            /\ srJobs' = srJobs
       ELSE /\ srJobs' = srJobs \cup {[gen |-> srGen + 1, term |-> text,
                                       field |-> field, stage |-> "images",
                                       found |-> NothingFound, old |-> {}]}
            /\ srBusy' = BeginSearchBusy(srBusy, srGen + 1)
            /\ srPage' = srPage

\* Typing: the entry holds search-changed back for a moment, except when the
\* text became empty.
Type(text) ==
    /\ text # srEntry.text
    /\ SearchSpend("type")
    /\ srEntry' = [srEntry EXCEPT !.text = text, !.due = text # Blank]
    /\ IF text = Blank THEN RunSearch(text, srEntry.field)
                       ELSE UNCHANGED <<srGen, srJobs, srBusy, srPage>>
    /\ UNCHANGED <<srDb, srOps, srMenu, srGhost>>

SearchChanged ==
    /\ srEntry.due
    /\ srEntry' = [srEntry EXCEPT !.due = FALSE]
    /\ RunSearch(srEntry.text, srEntry.field)
    /\ UNCHANGED <<srDb, srOps, srMenu, srGhost, srLeft>>

\* A field toggle searches at once with the entry's text.
ChooseField(field) ==
    /\ field # srEntry.field
    /\ SearchSpend("field")
    /\ srEntry' = [srEntry EXCEPT !.field = field]
    /\ RunSearch(srEntry.text, field)
    /\ UNCHANGED <<srDb, srOps, srMenu, srGhost>>

\* The miss page's Clear button empties the entry, which searches, and
\* searches for nothing once more.
ClearSearch ==
    /\ srPage.stack = "no-results"
    /\ SearchSpend("type")
    /\ srEntry' = [srEntry EXCEPT !.text = Blank, !.due = FALSE]
    /\ srGen' = srGen + 2
    /\ srPage' = ReplaceResults(srPage, NothingFound, Blank, NoQuery)
    /\ srBusy' = EndSearchBusy(srBusy)
    /\ UNCHANGED <<srDb, srJobs, srOps, srMenu, srGhost>>

\* The worker's two reads, images first.
ReadSearch(job) ==
    /\ job.stage \in {"images", "videos"}
    /\ LET kind == IF job.stage = "images" THEN "image" ELSE "video"
           read == [job EXCEPT
                      !.stage = IF kind = "image" THEN "videos" ELSE "read",
                      !.found[kind] = SearchItems(kind, job.term, job.field,
                                                  srDb.live)]
       IN srJobs' = (srJobs \ {job}) \cup {read}
    /\ UNCHANGED <<srDb, srEntry, srGen, srBusy, srPage, srOps, srMenu,
                   srGhost, srLeft>>

FailSearch(job) ==
    /\ job.stage \in {"images", "videos"}
    /\ SearchSpend("fail")
    /\ srJobs' = (srJobs \ {job}) \cup {[job EXCEPT !.stage = "failed"]}
    /\ UNCHANGED <<srDb, srEntry, srGen, srBusy, srPage, srOps, srMenu, srGhost>>

Superseded_finished(job) == FALSE

Superseded(job) == job.gen # srGen

\* The page takes the answer up: an older generation is dropped, a failure
\* only ends the busy row.
LandSearch(job) ==
    /\ job.stage \in {"read", "failed"}
    /\ srJobs' = srJobs \ {job}
    /\ IF Superseded(job)
       THEN UNCHANGED <<srBusy, srPage, srGhost>>
       ELSE /\ srBusy' = EndSearchBusy(srBusy)
            /\ IF job.stage = "failed"
               THEN /\ srPage' = srPage
                    /\ srGhost' = srGhost \cup {<<"failed", job.gen>>}
               ELSE /\ srPage' = ReplaceResults(srPage, job.found, srEntry.text,
                                                <<job.term, job.field>>)
                    /\ srGhost' = srGhost \cup {<<"raced", p>> : p \in job.old}
    /\ UNCHANGED <<srDb, srEntry, srGen, srOps, srMenu, srLeft>>

BusyDelayElapses(generation) ==
    /\ generation \in srBusy.timers
    /\ srBusy' = [srBusy EXCEPT !.timers = @ \ {generation},
                                !.shown = @ \/ srBusy.token = generation]
    /\ UNCHANGED <<srDb, srEntry, srGen, srJobs, srPage, srOps, srMenu,
                   srGhost, srLeft>>

\* One frame: the tick callback measures the last layout, then the sections
\* are laid out again.
Frame ==
    /\ LET ticked == RefreshPreviewCapacityFromLayout(srPage)
       IN srPage' = [ticked EXCEPT !.width = IF ticked.box["image"]
                                             THEN ticked.area.width ELSE 0]
    /\ srPage' # srPage
    /\ UNCHANGED <<srDb, srEntry, srGen, srJobs, srBusy, srOps, srMenu,
                   srGhost, srLeft>>

Resize(area) ==
    /\ area # srPage.area
    /\ SearchSpend("resize")
    /\ srPage' = [srPage EXCEPT !.area = area]
    /\ UNCHANGED <<srDb, srEntry, srGen, srJobs, srBusy, srOps, srMenu, srGhost>>

-----------------------------------------------------------------------------
(* The preview grids' batch mode and context menu.                         *)

Displayed(k) == {t.id : t \in ToSet(srPage.tiles[k])}

ToggleSelection(w, k, p) ==
    [w EXCEPT !.picked[k] = IF p \in @ THEN @ \ {p} ELSE @ \cup {p}]

\* The viewer is pushed over a query made of the entry's text.
OpenViewerPage(w) == [w EXCEPT !.opened = <<srEntry.text, srEntry.field>>,
                               !.pending = TRUE]

\* In batch mode a click toggles the tile; otherwise it opens the viewer,
\* unless one is open or opening.
ActivateTile(k, p) ==
    /\ p \in Displayed(k)
    /\ srPage.stack = "results" /\ srPage.opened = NoQuery
    /\ IF srPage.multi[k]
       THEN srPage' = ToggleSelection(srPage, k, p)
       ELSE ~srPage.pending /\ srPage' = OpenViewerPage(srPage)
    /\ SearchSpend("click")
    /\ UNCHANGED <<srDb, srEntry, srGen, srJobs, srBusy, srOps, srMenu, srGhost>>

ViewerGuardElapses ==
    /\ srPage.pending
    /\ srPage' = [srPage EXCEPT !.pending = FALSE]
    /\ UNCHANGED <<srDb, srEntry, srGen, srJobs, srBusy, srOps, srMenu,
                   srGhost, srLeft>>

\* The "More" tile pushes a page of all the section's results, over a query
\* made of the entry's text.
OpenMoreResults(k) ==
    /\ srPage.stack = "results" /\ srPage.opened = NoQuery
    /\ srPage.more[k] /\ srPage.held[k] /\ srPage.full[k] # <<>>
    /\ SearchSpend("click")
    /\ srPage' = [srPage EXCEPT !.opened = <<srEntry.text, srEntry.field>>]
    /\ UNCHANGED <<srDb, srEntry, srGen, srJobs, srBusy, srOps, srMenu, srGhost>>

\* On the pushed page, results or viewer, a photo of its query is trashed.
TrashFromOpened(p) ==
    /\ srPage.opened # NoQuery
    /\ p \in srDb.live \cap SrMatch[srPage.opened]
    /\ SearchSpend("trash")
    /\ srOps' = Append(srOps, [kind |-> "trash", stage |-> "asked", ids |-> {p}])
    /\ UNCHANGED <<srDb, srEntry, srGen, srJobs, srBusy, srPage, srMenu, srGhost>>

CloseOpened ==
    /\ srPage.opened # NoQuery
    /\ srPage' = [srPage EXCEPT !.opened = NoQuery]
    /\ UNCHANGED <<srDb, srEntry, srGen, srJobs, srBusy, srOps, srMenu,
                   srGhost, srLeft>>

\* What a context menu opened on `p` acts on.
ContextMenuTargets(w, k, p) ==
    IF w.multi[k] /\ p \in w.picked[k] THEN w.picked[k] ELSE {p}

OpenContextMenu(k, p) ==
    /\ ~srMenu.open
    /\ p \in Displayed(k)
    /\ srPage.stack = "results" /\ srPage.opened = NoQuery
    /\ SearchSpend("click")
    /\ srMenu' = [open |-> TRUE, kind |-> k, photo |-> p,
                  targets |-> ContextMenuTargets(srPage, k, p),
                  multi |-> srPage.multi[k]]
    /\ UNCHANGED <<srDb, srEntry, srGen, srJobs, srBusy, srPage, srOps, srGhost>>

\* Entering or leaving batch mode; leaving clears the selection.
SetMultiSelectMode(w, k, enabled) ==
    IF enabled THEN [w EXCEPT !.multi[k] = TRUE] ELSE ClearGridSelection(w, k)

EnsureContextSelection(w, k, p) == [w EXCEPT !.picked[k] = @ \cup {p}]

\* "Multi-select" enters batch mode and picks the photo the menu was opened
\* on, whether or not its tile is still there.
MenuMultiSelect ==
    /\ srMenu.open
    /\ LET k == srMenu.kind
           late == srMenu.photo \notin Displayed(k)
       IN IF srMenu.multi
          THEN /\ srPage' = SetMultiSelectMode(srPage, k, FALSE)
               /\ srGhost' = srGhost
          ELSE /\ srPage' = EnsureContextSelection(SetMultiSelectMode(srPage, k, TRUE),
                                                   k, srMenu.photo)
               /\ srGhost' = IF late THEN srGhost \cup {<<"late", srMenu.photo>>}
                             ELSE srGhost
    /\ srMenu' = NoMenu
    /\ UNCHANGED <<srDb, srEntry, srGen, srJobs, srBusy, srOps, srLeft>>

\* "Favourite" and, once confirmed, "Move to trash" hand the targets the menu
\* captured to the database actor.
MenuFavourite ==
    /\ srMenu.open
    /\ SearchSpend("favourite")
    /\ srOps' = Append(srOps, [kind |-> "favourite", stage |-> "asked",
                               ids |-> srMenu.targets])
    /\ srMenu' = NoMenu
    /\ UNCHANGED <<srDb, srEntry, srGen, srJobs, srBusy, srPage, srGhost>>

MenuTrash ==
    /\ srMenu.open
    /\ SearchSpend("trash")
    /\ srOps' = Append(srOps, [kind |-> "trash", stage |-> "asked",
                               ids |-> srMenu.targets])
    /\ srMenu' = NoMenu
    /\ UNCHANGED <<srDb, srEntry, srGen, srJobs, srBusy, srPage, srGhost>>

MenuDismissed ==
    /\ srMenu.open
    /\ srMenu' = NoMenu
    /\ UNCHANGED <<srDb, srEntry, srGen, srJobs, srBusy, srPage, srOps,
                   srGhost, srLeft>>

-----------------------------------------------------------------------------
(* Favourites.                                                             *)

\* Every changed preview item is spliced in place, which rebuilds its grid;
\* the selection of both grids is dropped.
ApplyFavoriteFlags(w, ids) ==
    LET Spliced(v, k) == IF ToSet(v.list[k]) \cap ids # {}
                         THEN RebuildImmediately(v, k) ELSE v
        rebuilt == Spliced(Spliced(w, "image"), "video")
    IN ClearGridSelection(ClearGridSelection(rebuilt, "image"), "video")

SetFavoriteForIds(i) ==
    /\ srOps[i].kind = "favourite"
    /\ srOps' = RemoveAt(srOps, i)
    /\ srPage' = ApplyFavoriteFlags(srPage, srOps[i].ids)
    /\ srGhost' = srGhost \cup
                  {<<"unmoored", k>> : k \in {s \in SearchSections :
                      srPage.held[s] /\ ~srPage'.held[s]}}
    /\ UNCHANGED <<srDb, srEntry, srGen, srJobs, srBusy, srMenu, srLeft>>

-----------------------------------------------------------------------------
(* Moving results to the trash.                                            *)

\* The previews lose the photos one by one, the full results at once; the
\* verdict on the page is taken again.
RECURSIVE RemovedFrom(_, _, _, _)
RemovedFrom(w, k, ids, i) ==
    IF i = 0 THEN w
    ELSE IF w.list[k][i] \notin ids THEN RemovedFrom(w, k, ids, i - 1)
    ELSE RemovedFrom(ApplyIncrementalRemoval(
                       [w EXCEPT !.list[k] = RemoveAt(@, i)], k, i), k, ids, i - 1)

RemoveMediaItemsByIds(w, k, ids) == RemovedFrom(w, k, ids, Len(w.list[k]))

RemoveMediaIdsFromResults(w, ids, text) ==
    LET lists == RemoveMediaItemsByIds(RemoveMediaItemsByIds(w, "image", ids),
                                       "video", ids)
        full == [k \in SearchSections |->
                   SelectSeq(w.full[k], LAMBDA p : p \notin ids)]
    IN SetSearchState([lists EXCEPT !.full = Evaluated(full)], text)

\* MarkTrashed marks every row it is given, marked already or not.  A query
\* that read them before is from now on out of date.
MarkTrashed(i) ==
    LET op == srOps[i] IN
    /\ op.kind = "trash" /\ op.stage = "asked"
    /\ srDb' = [srDb EXCEPT !.live = @ \ op.ids]
    /\ srOps' = [srOps EXCEPT ![i].stage = "marked"]
    /\ srJobs' = {[job EXCEPT !.old = @ \cup {p \in op.ids :
                     \E k \in SearchSections : p \in ToSet(job.found[k])}] : job \in srJobs}
    /\ UNCHANGED <<srEntry, srGen, srBusy, srPage, srMenu, srGhost, srLeft>>

\* The files the callback reports as moved leave the results.
OnMoved(ids) ==
    LET removed == RemoveMediaIdsFromResults(srPage, ids, srEntry.text)
    IN IF ids = {} THEN srPage
       ELSE ClearGridSelection(ClearGridSelection(removed, "image"), "video")

CommitMovedFiles(db, ids) == [db EXCEPT !.moved = @ \cup ids]

RollbackItems(db, ids) == [db EXCEPT !.live = @ \cup ids]

\* The worker moves what it can; a file moved before is not there any more.
\* What failed is rolled back, or offered to the application's own trash.
MoveMarkedItems(i, moved, system) ==
    LET op == srOps[i]
        failed == op.ids \ moved IN
    /\ op.kind = "trash" /\ op.stage = "marked"
    /\ moved \subseteq op.ids \ srDb.moved
    /\ IF op.ids \ srDb.moved = moved THEN srLeft' = srLeft ELSE SearchSpend("stuck")
    /\ srPage' = OnMoved(moved)
    /\ IF failed # {} /\ system
       THEN /\ srDb' = CommitMovedFiles(srDb, moved)
            /\ srOps' = [srOps EXCEPT ![i] = [@ EXCEPT !.stage = "prompt",
                                                       !.ids = failed]]
       ELSE /\ srDb' = RollbackItems(CommitMovedFiles(srDb, moved), failed)
            /\ srOps' = RemoveAt(srOps, i)
    /\ srGhost' = srGhost \cup {<<"twice", p>> : p \in failed \cap srDb.moved}
    /\ UNCHANGED <<srEntry, srGen, srJobs, srBusy, srMenu>>

\* The prompt: the application's trash takes all of them or none.
SwitchToAppTrash(i, ok) ==
    LET op == srOps[i] IN
    /\ op.kind = "trash" /\ op.stage = "prompt"
    /\ ok => op.ids \cap srDb.moved = {}
    /\ srDb' = IF ok THEN CommitMovedFiles(srDb, op.ids)
               ELSE RollbackItems(srDb, op.ids)
    /\ srPage' = IF ok THEN OnMoved(op.ids) ELSE srPage
    /\ srOps' = RemoveAt(srOps, i)
    /\ UNCHANGED <<srEntry, srGen, srJobs, srBusy, srMenu, srGhost, srLeft>>

-----------------------------------------------------------------------------
SearchUser ==
    \/ \E text \in SrTerms \cup {Blank} : Type(text)
    \/ \E field \in SearchFields : ChooseField(field)
    \/ ClearSearch
    \/ \E area \in SrAreas : Resize(area)
    \/ \E k \in SearchSections, p \in SrPhotos : ActivateTile(k, p)
    \/ \E k \in SearchSections, p \in SrPhotos : OpenContextMenu(k, p)
    \/ MenuMultiSelect \/ MenuFavourite \/ MenuTrash \/ MenuDismissed
    \/ \E k \in SearchSections : OpenMoreResults(k)
    \/ \E p \in SrPhotos : TrashFromOpened(p)
    \/ CloseOpened

SearchNext ==
    \/ SearchUser
    \/ SearchChanged
    \/ \E job \in srJobs : ReadSearch(job)
    \/ \E job \in srJobs : FailSearch(job)
    \/ \E job \in srJobs : LandSearch(job)
    \/ \E g \in srBusy.timers : BusyDelayElapses(g)
    \/ Frame
    \/ ViewerGuardElapses
    \/ \E i \in DOMAIN srOps : SetFavoriteForIds(i)
    \/ \E i \in DOMAIN srOps : MarkTrashed(i)
    \/ \E i \in DOMAIN srOps, moved \in SUBSET SrPhotos, system \in BOOLEAN :
         MoveMarkedItems(i, moved, system)
    \/ \E i \in DOMAIN srOps, ok \in BOOLEAN : SwitchToAppTrash(i, ok)

\* The debounce fires, the worker of a query answers, and the frame clock
\* ticks while the layout has something to say.
FrameDue == \/ RefreshPreviewCapacityFromLayout(srPage) # srPage
            \/ srPage.width # IF srPage.box["image"] THEN srPage.area.width ELSE 0

SearchFairness ==
    /\ []<>~srEntry.due
    /\ \/ []<>(srJobs = {})
       \/ []<><<(\E job \in srJobs : job \notin srJobs') /\ srDb' = srDb>>_srVars
    /\ \/ []<>~FrameDue
       \/ []<><</\ <<srPage'.capacity, srPage'.width>> # <<srPage.capacity, srPage.width>>
               /\ UNCHANGED <<srEntry, srGen, srJobs, srOps, srLeft>>>>_srVars

SearchSpec == SearchInit /\ [][SearchNext]_srVars /\ SearchFairness

-----------------------------------------------------------------------------
(* Properties.                                                             *)

\* Type invariant.
SearchTypeOK ==
    /\ srDb.live \subseteq SrPhotos /\ srDb.moved \subseteq SrPhotos
    /\ srEntry.text \in SrTerms \cup {Blank} /\ srEntry.field \in SearchFields
    /\ srGen \in Nat
    /\ \A job \in srJobs : job.gen \in 1..srGen /\ job.stage \in
                              {"images", "videos", "read", "failed"}
    /\ srBusy.token \in 0..srGen /\ srBusy.timers \subseteq 1..srGen
    /\ srPage.capacity >= SEARCH_PREVIEW_MIN_ROWS
    /\ srPage.stack \in {"idle", "results", "no-results"}
    /\ \A k \in SearchSections :
          /\ srPage.full[k] \in Seq(SrPhotos)
          /\ Len(srPage.list[k]) <= srPage.capacity

FailedNow == <<"failed", srGen>> \in srGhost

\* With nothing typed left to search and the current query answered, the
\* results are those of the entry's own text and field, however many queries
\* ran before and in whatever order they came back (run_search's generation);
\* only a query that failed leaves the previous results standing.
ResultsAnswerEntry ==
    ~srEntry.due /\ (\A job \in srJobs : job.gen # srGen) /\ ~FailedNow =>
        srPage.answers = IF srEntry.text = Blank THEN NoQuery
                         ELSE <<srEntry.text, srEntry.field>>

\* The busy row is only ever shown for the query whose answer will take it
\* down again (begin_search_busy, end_search_busy and the token they share).
BusyHasQuery ==
    srBusy.shown => \E job \in srJobs : job.gen = srGen

\* Every result can be reached: it has a tile, or its section shows the
\* "More" tile (replace_results, rebuild_previews_from_full_results and
\* reattach_more_tiles).  The exception is a grid a favourite rebuilt.
ResultsReachable ==
    \A k \in SearchSections :
        \/ ToSet(srPage.full[k]) \subseteq Displayed(k)
        \/ srPage.more[k] /\ srPage.held[k]
        \/ <<"unmoored", k>> \in srGhost

\* The tiles of a preview grid are its list, each at its own position, after
\* any mixture of removals in place and rebuilds (apply_incremental_removal).
TilesShowList ==
    \A k \in SearchSections :
        srPage.tiles[k] = [i \in DOMAIN srPage.list[k] |->
                             [id |-> srPage.list[k][i], index |-> i]]

\* What batch mode would act on is on screen: a photo stays picked only while
\* its grid shows it and is in batch mode (rebuild_immediately and
\* apply_incremental_removal drop it).  The exception is a menu opened before
\* the results changed and used after.
PickedIsShown ==
    \A k \in SearchSections : \A p \in srPage.picked[k] :
        <<"late", p>> \in srGhost \/ (p \in Displayed(k) /\ srPage.multi[k])

\* A photo this page moved to the trash does not come back into its results,
\* neither in a preview nor through a change of capacity, once nothing is
\* under way (remove_media_ids_from_results).  The exceptions are a query
\* that had read the photo before it was marked, and a second request for
\* the same photo, whose rollback revives the row.
TrashedStaysOut ==
    srOps = <<>> =>
        \A k \in SearchSections : \A p \in ToSet(srPage.full[k]) \cap srDb.moved :
            {<<"raced", p>>, <<"twice", p>>} \cap srGhost # {}

\* With the query answered, the page shows the prompt for a blank entry, the
\* results if there are any, and the miss page naming the entry's text if not
\* (set_search_state).
StateMatchesResults ==
    ~srEntry.due /\ (\A job \in srJobs : job.gen # srGen) /\ ~FailedNow =>
        CASE srEntry.text = Blank -> srPage.stack = "idle"
          [] srEntry.text # Blank /\ \E k \in SearchSections : srPage.full[k] # <<>> ->
                 srPage.stack = "results"
          [] OTHER -> srPage.stack = "no-results" /\ srPage.title = srEntry.text

\* A person who stops typing gets an answer, and the previews end up cut to
\* the capacity of the layout on screen.
SearchSettles ==
    <>[](/\ ~srEntry.due
         /\ \A job \in srJobs : job.gen # srGen
         /\ srPage.capacity = MeasuredCapacity(srPage))

\* The miss page names the term that was searched for (comment on
\* set_search_state).  It names what the entry shows when the answer lands.
MissEchoesTerm ==
    srPage.stack = "no-results" /\ ~FailedNow => srPage.title = srPage.answers[1]

\* A section whose results do not fit shows its "More" tile.  A favourite set
\* from the preview rebuilds the grid without it.
MoreIsShown ==
    \A k \in SearchSections :
        ToSet(srPage.full[k]) \subseteq Displayed(k) \/
        (srPage.more[k] /\ srPage.held[k])
=============================================================================
