------------------------------- MODULE Photos -------------------------------
(***************************************************************************)
(* The Photos page's multi-selection and its batch actions: one set of     *)
(* ticked photos per grouping grid, the header that acts on their union,   *)
(* the batch heart answered by a worker, select-all, the tile menu, and    *)
(* the favourite and trash batches (ui/photos_page.rs with the selection   *)
(* methods of ui/virtual_media_grid.rs).                                   *)
(*                                                                         *)
(* Handlers run on the GTK main loop; every database read, command and     *)
(* landing between two of them is a step of its own.  A photo is its rank  *)
(* in the live order.  The overview that supplies the library total is     *)
(* module Overview; here its snapshot may land at any time.                *)
(***************************************************************************)
EXTENDS Integers, FiniteSets, Sequences, SequencesExt

CONSTANTS PhPhotos,                  \* the photos, numbered in live order
          PHOTOS_SELECT_ALL_LIMIT,
          PhotosBudgets              \* the scenarios

VARIABLES phDb,     \* rows, live rows, favourites, moved files
          phPage,   \* the page and its three grids
          phOps,    \* favourite and trash batches under way
          phGhost,  \* what a person last asked for, and what was lost
          phLeft    \* what the scenario still allows

phVars == <<phDb, phPage, phOps, phGhost, phLeft>>

Groupings == {"year", "month", "day"}
Unknown == -1
NoAnswer == <<>>
Nothing == [open |-> FALSE]
NoAsk == [open |-> FALSE]
Neither == <<FALSE, FALSE>>

PhotosSpend(what) == /\ phLeft[what] > 0
                     /\ phLeft' = [phLeft EXCEPT ![what] = @ - 1]

\* What a batch of photos still allows: to be favourited, to be unfavourited.
\* An id without a row counts as not favourited.
FavoriteState(ids, db) ==
    <<ids \ (db.fav \cap db.rows) # {}, ids \cap db.fav \cap db.rows # {}>>

\* The ids select-all reads: the first ones of the live order.
SelectAllIds(db) ==
    {p \in db.live : Cardinality({q \in db.live : q <= p}) <= PHOTOS_SELECT_ALL_LIMIT}

PhotosInit ==
    /\ phLeft \in PhotosBudgets
    /\ phDb = [rows |-> phLeft.library, live |-> phLeft.library,
               fav |-> phLeft.favourites, moved |-> {}]
    /\ phPage = [mode |-> "day", shown |-> phLeft.library,
                 picked |-> [m \in Groupings |-> {}],
                 multi |-> [m \in Groupings |-> FALSE],
                 selected |-> {}, gen |-> 0, heart |-> Neither, about |-> {},
                 ask |-> NoAsk, clicks |-> <<>>, popover |-> FALSE,
                 fetch |-> Nothing, total |-> Unknown, count |-> Unknown,
                 batch |-> FALSE, exit |-> FALSE, label |-> "select",
                 menu |-> Nothing, dialog |-> Nothing, viewer |-> FALSE]
    /\ phOps = <<>>
    /\ phGhost = [off |-> {}, cancelled |-> FALSE, late |-> FALSE,
                  unread |-> FALSE, torn |-> {}]

-----------------------------------------------------------------------------
(* The header.                                                             *)

SelectedReachesSelectAllLimit(w) ==
    /\ w.selected # {}
    /\ IF w.total = Unknown
       THEN w.shown # {} /\ w.shown \subseteq w.picked[w.mode]
       ELSE LET target == IF w.total < PHOTOS_SELECT_ALL_LIMIT
                          THEN w.total ELSE PHOTOS_SELECT_ALL_LIMIT
            IN target > 0 /\ Cardinality(w.selected) >= target

\* The painted heart, and the selection the answer was computed for.
ApplySelectionFavoriteState(w, state, ids) ==
    [w EXCEPT !.heart = state, !.about = ids]

\* At most one question is under way; a later selection waits for its landing.
RefreshSelectionFavoriteState(w) ==
    IF w.ask.open THEN w
    ELSE [w EXCEPT !.ask = [open |-> TRUE, ids |-> w.selected, gen |-> w.gen,
                            answer |-> NoAnswer]]

RefreshSelectionUi(w) ==
    LET union == UNION {w.picked[m] : m \in Groupings}
        moved == [w EXCEPT !.gen = IF union # w.selected THEN @ + 1 ELSE @,
                           !.selected = union]
        painted == [moved EXCEPT !.batch = union # {},
                                 !.exit = \E m \in Groupings : w.multi[m],
                                 !.label = IF SelectedReachesSelectAllLimit(moved)
                                           THEN "unselect" ELSE "select"]
    IN IF union # {} THEN RefreshSelectionFavoriteState(painted)
       ELSE ApplySelectionFavoriteState(painted, Neither, {})

-----------------------------------------------------------------------------
(* One grid's selection.  Only a set that changed tells the page.          *)

FireSelectionChanged(w, changed) == IF changed THEN RefreshSelectionUi(w) ELSE w

SelectIds(w, m, ids) ==
    FireSelectionChanged([w EXCEPT !.picked[m] = ids, !.multi[m] = ids # {}],
                         w.picked[m] # ids)

ClearGrid(w, m) ==
    FireSelectionChanged([w EXCEPT !.picked[m] = {}, !.multi[m] = FALSE],
                         w.picked[m] # {})

ToggleTile(w, m, p) ==
    FireSelectionChanged([w EXCEPT !.picked[m] = IF p \in @ THEN @ \ {p}
                                                 ELSE @ \cup {p}], TRUE)

EnsureTileSelected(w, m, p) ==
    FireSelectionChanged([w EXCEPT !.picked[m] = @ \cup {p}], p \notin w.picked[m])

TileMenuTargets(w, p) ==
    IF w.multi[w.mode] /\ p \in w.picked[w.mode] THEN w.picked[w.mode] ELSE {p}

\* Every grid is cleared and the batch buttons are hidden.
ClearSelection(w) ==
    LET cleared == ClearGrid(ClearGrid(ClearGrid(w, "year"), "month"), "day")
    IN [cleared EXCEPT !.selected = {}, !.batch = FALSE, !.exit = FALSE]

\* A person clears while a select-all is still being read.
Cancels(g) == [g EXCEPT !.cancelled = @ \/ phPage.fetch.open]

-----------------------------------------------------------------------------
(* The person at the page.  A menu, a dialog, the popover and the viewer   *)
(* each take the input while they are open.                                *)

Reachable == ~phPage.menu.open /\ ~phPage.dialog.open /\ ~phPage.popover
             /\ ~phPage.viewer

\* The last gesture on a tile: the tick is on or off.
Ticked(p) == [phGhost EXCEPT !.off = IF p \in phPage.picked[phPage.mode]
                                     THEN @ \cup {p} ELSE @ \ {p}]

OpenPhoto(w) == [ClearSelection(w) EXCEPT !.viewer = TRUE]

\* A click on a ready tile.
ActivateSlot(p) ==
    /\ Reachable /\ p \in phPage.shown /\ PhotosSpend("click")
    /\ IF phPage.multi[phPage.mode]
       THEN /\ phPage' = ToggleTile(phPage, phPage.mode, p)
            /\ phGhost' = Ticked(p)
       ELSE /\ phPage' = OpenPhoto(phPage)
            /\ phGhost' = Cancels(phGhost)
    /\ UNCHANGED <<phDb, phOps>>

\* Space on the focused tile.
KeyToggle(p) ==
    /\ Reachable /\ p \in phPage.shown /\ PhotosSpend("click")
    /\ phPage' = ToggleTile([phPage EXCEPT !.multi[phPage.mode] = TRUE],
                                 phPage.mode, p)
    /\ phGhost' = Ticked(p)
    /\ UNCHANGED <<phDb, phOps>>

\* Another grouping comes to the front; no selection is touched.
SwitchMode(m) ==
    /\ Reachable /\ m # phPage.mode /\ PhotosSpend("mode")
    /\ phPage' = [phPage EXCEPT !.mode = m]
    /\ UNCHANGED <<phDb, phOps, phGhost>>

\* Escape, the exit button, and the keyboard's cancel.
Cancel ==
    /\ Reachable
    /\ phPage.selected # {} \/ \E m \in Groupings : phPage.multi[m]
    /\ PhotosSpend("click")
    /\ phPage' = ClearSelection(phPage)
    /\ phGhost' = Cancels(phGhost)
    /\ UNCHANGED <<phDb, phOps>>

\* Control+A and the button, which is hidden while nothing is selected.
SelectAllInCurrentMode ==
    /\ Reachable /\ PhotosSpend("all")
    /\ IF SelectedReachesSelectAllLimit(phPage)
       THEN /\ phPage' = ClearSelection(phPage)
            /\ phGhost' = Cancels(phGhost)
       ELSE /\ ~phPage.fetch.open
            /\ phPage' = [phPage EXCEPT !.fetch = [open |-> TRUE, read |-> FALSE,
                                                   ids |-> {}]]
            /\ phGhost' = [phGhost EXCEPT !.cancelled = FALSE]
    /\ UNCHANGED <<phDb, phOps>>

\* The heart asks about the selection of the click.
ClickHeart ==
    /\ Reachable /\ phPage.batch /\ phPage.selected # {} /\ PhotosSpend("heart")
    /\ phPage' = [phPage EXCEPT !.clicks =
                    Append(@, [ids |-> phPage.selected, gen |-> phPage.gen,
                               answer |-> NoAnswer])]
    /\ UNCHANGED <<phDb, phOps, phGhost>>

FavouriteSelected(ids, to) ==
    phOps' = IF ids = {} THEN phOps
             ELSE Append(phOps, [kind |-> "favourite", ids |-> ids, to |-> to,
                                 stage |-> "asked"])

DeleteToTrashForIds(ids) ==
    phOps' = IF ids = {} THEN phOps
             ELSE Append(phOps, [kind |-> "trash", ids |-> ids, to |-> FALSE,
                                 stage |-> "asked"])

\* An item of the popover acts on what is selected by then.
ChooseInPopover(to) ==
    /\ phPage.popover /\ phPage.heart[IF to THEN 1 ELSE 2]
    /\ phPage' = [phPage EXCEPT !.popover = FALSE]
    /\ FavouriteSelected(phPage.selected, to)
    /\ UNCHANGED <<phDb, phGhost, phLeft>>

DismissPopover ==
    /\ phPage.popover
    /\ phPage' = [phPage EXCEPT !.popover = FALSE]
    /\ UNCHANGED <<phDb, phOps, phGhost, phLeft>>

\* The trash button asks first; the Delete key does not.
ClickTrash ==
    /\ Reachable /\ phPage.batch /\ phPage.selected # {} /\ PhotosSpend("trash")
    /\ phPage' = [phPage EXCEPT !.dialog = [open |-> TRUE, ids |-> phPage.selected]]
    /\ UNCHANGED <<phDb, phOps, phGhost>>

AnswerDialog(yes) ==
    /\ phPage.dialog.open
    /\ phPage' = [phPage EXCEPT !.dialog = Nothing]
    /\ IF yes THEN DeleteToTrashForIds(phPage.dialog.ids) ELSE phOps' = phOps
    /\ UNCHANGED <<phDb, phGhost, phLeft>>

PressDelete ==
    /\ Reachable /\ phPage.selected # {} /\ PhotosSpend("trash")
    /\ DeleteToTrashForIds(phPage.selected)
    /\ UNCHANGED <<phDb, phPage, phGhost>>

\* The tile menu keeps the targets it was opened for.
ShowContextMenu(p) ==
    /\ Reachable /\ p \in phPage.shown /\ PhotosSpend("menu")
    /\ LET targets == TileMenuTargets(phPage, p) IN
       phPage' = [phPage EXCEPT !.menu =
                    [open |-> TRUE, mode |-> phPage.mode, id |-> p,
                     multi |-> phPage.multi[phPage.mode], targets |-> targets,
                     state |-> FavoriteState(targets, phDb)]]
    /\ UNCHANGED <<phDb, phOps, phGhost>>

MenuSelects ==
    /\ phPage.menu.open
    /\ LET w == [phPage EXCEPT !.menu = Nothing]
           m == phPage.menu.mode
           p == phPage.menu.id IN
       IF phPage.menu.multi
       THEN /\ phPage' = ClearGrid(w, m)
            /\ phGhost' = Cancels(phGhost)
       ELSE /\ phPage' = EnsureTileSelected([w EXCEPT !.multi[m] = TRUE], m, p)
            /\ phGhost' = [phGhost EXCEPT !.off = @ \ {p}]
    /\ UNCHANGED <<phDb, phOps, phLeft>>

TileMenuFavourite(to) ==
    /\ phPage.menu.open /\ phPage.menu.state[IF to THEN 1 ELSE 2]
    /\ phPage' = [phPage EXCEPT !.menu = Nothing]
    /\ FavouriteSelected(phPage.menu.targets, to)
    /\ UNCHANGED <<phDb, phGhost, phLeft>>

TileMenuTrash ==
    /\ phPage.menu.open
    /\ phPage' = [phPage EXCEPT !.menu = Nothing,
                                !.dialog = [open |-> TRUE,
                                            ids |-> phPage.menu.targets]]
    /\ UNCHANGED <<phDb, phOps, phGhost, phLeft>>

DismissMenu ==
    /\ phPage.menu.open
    /\ phPage' = [phPage EXCEPT !.menu = Nothing]
    /\ UNCHANGED <<phDb, phOps, phGhost, phLeft>>

CloseViewer ==
    /\ phPage.viewer
    /\ phPage' = [phPage EXCEPT !.viewer = FALSE]
    /\ UNCHANGED <<phDb, phOps, phGhost, phLeft>>

-----------------------------------------------------------------------------
(* The answers.                                                            *)

ReadHeart ==
    /\ phPage.ask.open /\ phPage.ask.answer = NoAnswer
    /\ phPage' = [phPage EXCEPT !.ask.answer = FavoriteState(phPage.ask.ids, phDb)]
    /\ UNCHANGED <<phDb, phOps, phGhost, phLeft>>

HeartLands_any ==
    /\ phPage.ask.open /\ phPage.ask.answer # NoAnswer
    /\ phPage' = ApplySelectionFavoriteState([phPage EXCEPT !.ask = NoAsk],
                                             phPage.ask.answer, phPage.ask.ids)
    /\ phGhost' = [phGhost EXCEPT !.unread = FALSE]
    /\ UNCHANGED <<phDb, phOps, phLeft>>

\* An answer for an older selection is dropped and the question put again.
HeartLands ==
    /\ phPage.ask.open /\ phPage.ask.answer # NoAnswer
    /\ LET ask == phPage.ask
           w == [phPage EXCEPT !.ask = NoAsk] IN
       IF ask.gen # phPage.gen
       THEN /\ phPage' = RefreshSelectionFavoriteState(w)
            /\ phGhost' = phGhost
       ELSE /\ phPage' = ApplySelectionFavoriteState(w, ask.answer, ask.ids)
            /\ phGhost' = [phGhost EXCEPT !.unread = FALSE]
    /\ UNCHANGED <<phDb, phOps, phLeft>>

\* A failed read is logged; nobody asks again.
HeartFails ==
    /\ phPage.ask.open /\ PhotosSpend("fail")
    /\ phPage' = [phPage EXCEPT !.ask = NoAsk]
    /\ phGhost' = [phGhost EXCEPT !.unread = TRUE]
    /\ UNCHANGED <<phDb, phOps>>

ReadClick(i) ==
    /\ phPage.clicks[i].answer = NoAnswer
    /\ phPage' = [phPage EXCEPT !.clicks[i].answer = FavoriteState(phPage.clicks[i].ids, phDb)]
    /\ UNCHANGED <<phDb, phOps, phGhost, phLeft>>

\* The smart toggle: a mixed selection opens the popover, any other acts.
DecideFavoriteAction(i) ==
    LET click == phPage.clicks[i]
        w == [phPage EXCEPT !.clicks = RemoveAt(@, i)]
        current == click.gen = phPage.gen
        painted == IF current
                   THEN ApplySelectionFavoriteState(w, click.answer, click.ids) ELSE w
        mixed == click.answer = <<TRUE, TRUE>> IN
    /\ click.answer # NoAnswer
    /\ phPage' = [painted EXCEPT !.popover = @ \/ mixed]
    /\ phGhost' = [phGhost EXCEPT !.unread = @ /\ ~current]
    /\ IF mixed THEN phOps' = phOps ELSE FavouriteSelected(click.ids, click.answer[1])
    /\ UNCHANGED <<phDb, phLeft>>

ClickFails(i) ==
    /\ PhotosSpend("fail")
    /\ phPage' = [phPage EXCEPT !.clicks = RemoveAt(@, i)]
    /\ UNCHANGED <<phDb, phOps, phGhost>>

ReadSelectAll ==
    /\ phPage.fetch.open /\ ~phPage.fetch.read
    /\ phPage' = [phPage EXCEPT !.fetch = [open |-> TRUE, read |-> TRUE,
                                           ids |-> SelectAllIds(phDb)]]
    /\ UNCHANGED <<phDb, phOps, phGhost, phLeft>>

\* All three grids are given the ids.
SelectAllLands ==
    LET ids == phPage.fetch.ids
        w == [phPage EXCEPT !.fetch = Nothing] IN
    /\ phPage.fetch.open /\ phPage.fetch.read
    /\ phPage' = SelectIds(SelectIds(SelectIds(w, "year", ids), "month", ids), "day", ids)
    /\ phGhost' = [phGhost EXCEPT !.late = @ \/ phGhost.cancelled, !.cancelled = FALSE,
                                  !.off = @ \ ids]
    /\ UNCHANGED <<phDb, phOps, phLeft>>

SelectAllFails ==
    /\ phPage.fetch.open /\ PhotosSpend("fail")
    /\ phPage' = [phPage EXCEPT !.fetch = Nothing]
    /\ phGhost' = [phGhost EXCEPT !.cancelled = FALSE]
    /\ UNCHANGED <<phDb, phOps>>

\* The overview worker counts the library, and its snapshot lands.
CountLibrary ==
    /\ phPage.count = Unknown /\ PhotosSpend("count")
    /\ phPage' = [phPage EXCEPT !.count = Cardinality(phDb.live)]
    /\ UNCHANGED <<phDb, phOps, phGhost>>

TotalLands ==
    /\ phPage.count # Unknown
    /\ LET w == [phPage EXCEPT !.count = Unknown, !.total = phPage.count] IN
       phPage' = IF w.total # phPage.total /\ w.selected # {}
                 THEN RefreshSelectionUi(w) ELSE w
    /\ UNCHANGED <<phDb, phOps, phGhost, phLeft>>

-----------------------------------------------------------------------------
(* The batches.                                                            *)

\* One transaction for the whole batch: a photo without a row fails it.
SetFavoriteRows(i) ==
    LET op == phOps[i]
        whole == op.ids \subseteq phDb.rows IN
    /\ op.kind = "favourite" /\ op.stage = "asked"
    /\ phDb' = IF ~whole THEN phDb
               ELSE [phDb EXCEPT !.fav = IF op.to THEN @ \cup op.ids ELSE @ \ op.ids]
    /\ phOps' = IF whole THEN [phOps EXCEPT ![i].stage = "done"] ELSE RemoveAt(phOps, i)
    /\ UNCHANGED <<phPage, phGhost, phLeft>>

\* The batch lands: whatever is selected by now is dropped.
FavouriteLands(i) ==
    /\ phOps[i].kind = "favourite" /\ phOps[i].stage = "done"
    /\ phOps' = RemoveAt(phOps, i)
    /\ phPage' = ClearSelection(phPage)
    /\ UNCHANGED <<phDb, phGhost, phLeft>>

\* The rows are marked one by one; one that is gone ends the command with the
\* earlier ones marked.
MarkTrashedRows(i) ==
    LET op == phOps[i]
        missing == op.ids \ phDb.rows
        marked == {p \in op.ids : \A q \in missing : p < q} IN
    /\ op.kind = "trash" /\ op.stage = "asked"
    /\ phDb' = [phDb EXCEPT !.live = @ \ marked]
    /\ IF missing = {}
       THEN phOps' = [phOps EXCEPT ![i].stage = "marked"] /\ phGhost' = phGhost
       ELSE /\ phOps' = RemoveAt(phOps, i)
            /\ phGhost' = [phGhost EXCEPT !.torn = @ \cup marked]
    /\ UNCHANGED <<phPage, phLeft>>

\* The worker moved what it could.  What failed is brought back, at once or
\* after the offer of the application's own trash was declined.
FilesMoved(i, moved) ==
    LET op == phOps[i]
        failed == op.ids \ moved IN
    /\ op.kind = "trash" /\ op.stage = "marked"
    /\ moved \subseteq op.ids \ phDb.moved
    /\ IF failed \subseteq phDb.moved THEN phLeft' = phLeft ELSE PhotosSpend("stuck")
    /\ phDb' = [phDb EXCEPT !.moved = @ \cup moved,
                            !.live = @ \cup (failed \cap phDb.rows)]
    /\ phOps' = RemoveAt(phOps, i)
    /\ phPage' = IF moved = {} THEN phPage ELSE ClearSelection(phPage)
    /\ UNCHANGED phGhost

-----------------------------------------------------------------------------
(* The library changes under the page.                                     *)

RowLeaves(p) ==
    /\ p \in phDb.rows /\ p \notin phDb.moved /\ PhotosSpend("leave")
    /\ phDb' = [phDb EXCEPT !.rows = @ \ {p}, !.live = @ \ {p}, !.fav = @ \ {p}]
    /\ UNCHANGED <<phPage, phOps, phGhost>>

RowArrives(p) ==
    /\ p \notin phDb.rows /\ p \notin phLeft.library /\ PhotosSpend("arrive")
    /\ phDb' = [phDb EXCEPT !.rows = @ \cup {p}, !.live = @ \cup {p}]
    /\ UNCHANGED <<phPage, phOps, phGhost>>

\* The grids follow the library; what is selected stays selected.
GridsFollow ==
    /\ phPage.shown # phDb.live
    /\ phPage' = [phPage EXCEPT !.shown = phDb.live]
    /\ UNCHANGED <<phDb, phOps, phGhost, phLeft>>

-----------------------------------------------------------------------------
HandleKeyboardAction == PressDelete \/ Cancel \/ SelectAllInCurrentMode

PhotosUser ==
    \/ \E p \in PhPhotos : ActivateSlot(p) \/ KeyToggle(p) \/ ShowContextMenu(p)
    \/ \E m \in Groupings : SwitchMode(m)
    \/ HandleKeyboardAction
    \/ ClickHeart \/ ClickTrash \/ DismissPopover
    \/ \E to \in BOOLEAN : ChooseInPopover(to) \/ TileMenuFavourite(to) \/ AnswerDialog(to)
    \/ MenuSelects \/ TileMenuTrash \/ DismissMenu \/ CloseViewer

PhotosWorkers ==
    \/ ReadHeart \/ HeartLands
    \/ \E i \in DOMAIN phPage.clicks : ReadClick(i) \/ DecideFavoriteAction(i)
    \/ ReadSelectAll \/ SelectAllLands
    \/ TotalLands
    \/ \E i \in DOMAIN phOps : SetFavoriteRows(i) \/ FavouriteLands(i) \/ MarkTrashedRows(i)
    \/ \E i \in DOMAIN phOps, moved \in SUBSET PhPhotos : FilesMoved(i, moved)

PhotosFaults ==
    \/ HeartFails \/ SelectAllFails \/ CountLibrary \/ GridsFollow
    \/ \E i \in DOMAIN phPage.clicks : ClickFails(i)
    \/ \E p \in PhPhotos : RowLeaves(p) \/ RowArrives(p)

PhotosNext == PhotosUser \/ PhotosWorkers \/ PhotosFaults

\* Work a worker or the main loop has still to do, and a step of one of them.
PhotosOwed ==
    \/ phPage.ask.open \/ phPage.fetch.open \/ phPage.clicks # <<>>
    \/ phPage.count # Unknown \/ phOps # <<>>

PhotosWorked ==
    \/ phPage'.ask # phPage.ask \/ phPage'.fetch # phPage.fetch
    \/ phPage'.clicks # phPage.clicks \/ phPage'.count # phPage.count
    \/ phOps' # phOps

\* The workers and the main loop keep running: weak fairness of PhotosWorkers,
\* every step of which changes what is owed.
PhotosFairness == []<>~PhotosOwed \/ []<><<PhotosWorked>>_phVars

PhotosSpec == PhotosInit /\ [][PhotosNext]_phVars /\ PhotosFairness

-----------------------------------------------------------------------------
(* Properties.                                                             *)

\* Type invariant.
PhotosTypeOK ==
    /\ phDb.live \subseteq phDb.rows /\ phDb.rows \subseteq PhPhotos
    /\ phDb.fav \subseteq PhPhotos /\ phDb.moved \subseteq PhPhotos
    /\ phPage.mode \in Groupings /\ phPage.shown \subseteq PhPhotos
    /\ phPage.selected = UNION {phPage.picked[m] : m \in Groupings}
    /\ phPage.batch = (phPage.selected # {})
    /\ phPage.total \in {Unknown} \cup 0..Cardinality(PhPhotos)
    /\ phPage.label \in {"select", "unselect"}
    /\ \A i \in DOMAIN phOps : phOps[i].ids # {} /\ phOps[i].ids \subseteq PhPhotos

\* Once no question is under way the heart is painted from an answer about
\* exactly the selected photos, however often the selection moved while the
\* workers were reading (selection_generation and the single question under
\* way); the exception is a read that failed.
HeartIsOwn ==
    ~phPage.ask.open /\ phPage.selected # {} /\ ~phGhost.unread =>
        phPage.about = phPage.selected

\* A grid in multi-selection always leaves the header's way out on screen
\* (refresh_selection_ui's exit button), whichever grid is in front and
\* whatever landed last.
WayOut == (\E m \in Groupings : phPage.multi[m]) => phPage.exit

\* While a photo is open in the viewer nothing is selected behind it
\* (open_viewer's clear_selection); the exception is a select-all that was
\* still being read when the viewer opened.
ViewerDropsSelection == phPage.viewer => phPage.selected = {} \/ phGhost.late

\* The select-all button says what pressing it does: with the library's total
\* known, it offers to unselect exactly when the selection has reached the
\* total or the cap, also after a total that landed later
\* (apply_overview_snapshot, selected_reaches_select_all_limit).
LabelKeepsUp ==
    phPage.batch /\ phPage.total # Unknown =>
        (phPage.label = "unselect") =
            (/\ phPage.total > 0
             /\ \/ Cardinality(phPage.selected) >= phPage.total
                \/ Cardinality(phPage.selected) >= PHOTOS_SELECT_ALL_LIMIT)

\* With no batch under way, a row out of the library has its file in the
\* trash: what could not be moved was brought back (rollback_items).  The
\* exception is a batch with a photo whose row had gone, which ends with its
\* earlier rows marked and no file moved.
MarkedIsMoved ==
    phOps = <<>> => phDb.rows \ phDb.live \subseteq phDb.moved \cup phGhost.torn

\* Every question, click, select-all and batch comes to an end.
PhotosSettle ==
    <>[](/\ ~phPage.ask.open /\ phPage.clicks = <<>> /\ ~phPage.fetch.open
         /\ phOps = <<>>)

\* A photo whose tick a person took away is not acted on any more: it has
\* left the selection the header works from.  It stays in it while another
\* grouping's grid still holds it, as all three do after select-all.
UntickedSpared == phPage.selected \cap phGhost.off = {}
=============================================================================
