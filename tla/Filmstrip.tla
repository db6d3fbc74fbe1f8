----------------------------- MODULE Filmstrip -----------------------------
(***************************************************************************)
(* The strip of thumbnails under the viewer (ui/viewer/filmstrip.rs).      *)
(*                                                                         *)
(* A bounded window of buttons is built around the displayed index and     *)
(* grows or slides as the index or the user's scroll nears its edge.  The  *)
(* current thumbnail is kept in the middle by a burst of frame callbacks:  *)
(* allocations are only known after a layout, textures that land later     *)
(* change widths, and each of these asks for the centring again, also in   *)
(* the middle of a burst.                                                  *)
(*                                                                         *)
(* Lengths are even integers, so that halves are exact.  Indices count     *)
(* from 0, as in the code.                                                 *)
(***************************************************************************)
EXTENDS Integers, Sequences, SequencesExt

CONSTANTS
    StripPhotos,                \* photographs
    StripWidth,                 \* [photo -> <<width from the dimensions, width of the texture>>]
    THUMB_DEFAULT_WINDOW_LEN, THUMB_LAZY_HALF, THUMB_WINDOW_MAX,
    THUMB_CENTER_RETRY_FRAMES,
    THUMB_EDGE_INSET, THUMB_STRIP_SPACING, THUMB_MIN_STABLE,
    StripBudgets                \* sessions: the list, the first index, the viewport, slow
                                \* thumbnails and a bound on each input

ASSUME StripAssumption ==
    /\ THUMB_LAZY_HALF \in Nat \ {0} /\ THUMB_CENTER_RETRY_FRAMES \in Nat \ {0}
    /\ THUMB_DEFAULT_WINDOW_LEN \in 1..THUMB_WINDOW_MAX
    /\ \A p \in StripPhotos : \A k \in {1, 2} : StripWidth[p][k] >= THUMB_MIN_STABLE

VARIABLES
    fsList,     \* media_list
    fsCur,      \* current_index
    fsStart,    \* thumb_window_start
    fsEnd,      \* thumb_window_end
    fsItems,    \* thumb_items: whose thumbnail, allocated and requested width, texture landed
    fsLit,      \* index (in the window) of the emphasised button, or -1
    fsView,     \* the adjustment: page, upper, value; and thumb_last_transform
    fsBurst,    \* frames the centring burst may still spend, 0 when none is scheduled
    fsAsked,    \* thumb_scroll_requested
    fsPend,     \* thumb_pending_extend: {} or {direction}; its idle is queued
    fsBudget,
    fsGhost     \* history: the last step painted; the user scrolled; a burst stopped
                \* just before a layout; an extension was skipped; the list moved under the strip

stripVars == <<fsList, fsCur, fsStart, fsEnd, fsItems, fsLit, fsView, fsBurst, fsAsked, fsPend,
               fsBudget, fsGhost>>

Lower(a, b) == IF a < b THEN a ELSE b
Higher(a, b) == IF a < b THEN b ELSE a
\* TLC evaluates f once.
Evaluated(f) == CHOOSE g \in {f} : g = g
Clamp(v, lo, hi) == Lower(Higher(v, lo), hi)

(***************************************************************************)
(* Window arithmetic                                                       *)
(***************************************************************************)
ComputeInitialThumbWindow(current, n) ==
    LET len == Lower(THUMB_DEFAULT_WINDOW_LEN, n)
        end == Lower(Higher(current - (len \div 2), 0) + len, n)
    IN  <<Higher(end - len, 0), end>>

\* {} or {<<start, end>>}: grown by a half row, or slid when the window is at its cap.
ComputeExtendedThumbWindow(dir, start, end, n, len) ==
    LET left == Higher(start - THUMB_LAZY_HALF, 0)
        right == Lower(end + THUMB_LAZY_HALF, n)
        atCap == len >= THUMB_WINDOW_MAX
    IN  IF dir = -1
        THEN IF left = start THEN {}
             ELSE {<<left, IF atCap THEN Higher(end - (start - left), 0) ELSE end>>}
        ELSE IF right = end THEN {}
             ELSE {<<IF atCap THEN start + (right - end) ELSE start, right>>}

\* The side the current index is close to, if there is more to load there.
ComputeCurrentThumbExtendDirection(current, start, end, n) ==
    LET left == current - start
        right == end - current - 1
        wantsLeft == left <= THUMB_LAZY_HALF /\ start > 0
        wantsRight == right <= THUMB_LAZY_HALF /\ end < n
    IN  IF current < start \/ current >= end THEN {}
        ELSE IF wantsLeft /\ (wantsRight => left <= right) THEN {-1}
        ELSE IF wantsRight THEN {1}
        ELSE {}

\* The side the user's scroll is close to: within three tenths of a page of the edge.
ScrollExtendDirection(value, page, upper, start, end, n) ==
    LET leftDist == value
        rightDist == upper - value - page
        nearLeft == 10 * leftDist < 3 * page /\ start > 0
        nearRight == 10 * rightDist < 3 * page /\ end < n
    IN  IF nearRight /\ (nearLeft => rightDist < leftDist) THEN {1}
        ELSE IF nearLeft THEN {-1}
        ELSE {}

(***************************************************************************)
(* Geometry                                                                *)
(***************************************************************************)
Widths(items) == Evaluated([i \in 1..Len(items) |-> items[i].alloc])
SumOf(ws) == FoldLeft(LAMBDA acc, w : acc + w, 0, ws)

\* thumb_item_content_geometry, once every allocation is stable: the left edge of the button
\* and the width of the content.
ButtonX(ws, offset) ==
    THUMB_EDGE_INSET + SumOf(SubSeq(ws, 1, offset)) + offset * THUMB_STRIP_SPACING
ContentWidth(ws) ==
    2 * THUMB_EDGE_INSET + SumOf(ws) + Higher(Len(ws) - 1, 0) * THUMB_STRIP_SPACING
StableWidths(ws) == \A i \in 1..Len(ws) : ws[i] >= THUMB_MIN_STABLE

\* The bound by the scroll range alone, as it once was.
ClampThumbResidual_range(residual, upper, page) ==
    LET scrollable == Higher(upper - page, 0) IN Clamp(residual, -scrollable, scrollable)
ClampThumbResidual(residual, upper, page) ==
    LET scrollable == Higher(upper - page, 0)
        limit == Higher(scrollable, page \div 2)
    IN  IF scrollable = 0 THEN 0 ELSE Clamp(residual, -limit, limit)

\* compute_thumb_scroll_and_residual: the scroll, and what the scroll cannot reach.
ThumbScroll(centre, page, upper) == Clamp(centre - page \div 2, 0, Higher(upper - page, 0))
ThumbResidual(centre, page, upper) ==
    ClampThumbResidual(ThumbScroll(centre, page, upper) - (centre - page \div 2), upper, page)

\* compute_thumb_positioning: scroll target and visual transform.
ComputeThumbPositioning(centre, page, upper, content) ==
    LET effective == Higher(upper, content)
        target == ThumbScroll(centre, page, effective)
        residual == ThumbResidual(centre, page, effective)
    IN  IF content <= page THEN <<0, page \div 2 - centre>>
        ELSE <<target, IF upper > page THEN residual ELSE residual - target>>

\* Where the middle of a button is painted: the viewport shifts the strip by the scroll.
PaintedCentre(ws, offset, view) ==
    ButtonX(ws, offset) + ws[offset + 1] \div 2 + view.move - view.value

\* The reference: the middle of the current thumbnail is the middle of the page.
Centred(ws, offset, view) == PaintedCentre(ws, offset, view) = view.page \div 2

(***************************************************************************)
(* A strip is carried through a handler as a record.                       *)
(***************************************************************************)
Strip == [list |-> fsList, cur |-> fsCur, start |-> fsStart, end |-> fsEnd, items |-> fsItems,
          lit |-> fsLit, view |-> fsView, burst |-> fsBurst, asked |-> fsAsked, pend |-> fsPend,
          user |-> fsGhost.user, moved |-> fsGhost.moved, spent |-> fsGhost.spent,
          skipped |-> fsGhost.skipped]

Becomes(next, painted) == \E s \in {next} :
    /\ fsList' = s.list /\ fsCur' = s.cur /\ fsStart' = s.start /\ fsEnd' = s.end
    /\ fsItems' = s.items /\ fsLit' = s.lit /\ fsView' = s.view
    /\ fsBurst' = s.burst /\ fsAsked' = s.asked /\ fsPend' = s.pend
    /\ fsGhost' = [painted |-> painted, user |-> s.user, moved |-> s.moved, spent |-> s.spent,
                    skipped |-> s.skipped]

\* make_thumb_button: not allocated yet; a cached texture lands before the next frame.
MakeThumbButton(s, idx) ==
    LET p == s.list[idx + 1]
    IN  [id |-> p, alloc |-> 0, tex |-> p \notin fsBudget.slow,
         want |-> StripWidth[p][IF p \in fsBudget.slow THEN 1 ELSE 2]]
Buttons(s, from, to) ==
    Evaluated([i \in 1..(Lower(to, Len(s.list)) - from) |-> MakeThumbButton(s, from + i - 1)])

RebuildThumbStrip(s, start, end) ==
    [s EXCEPT !.start = start, !.end = end, !.items = Buttons(s, start, end),
              !.lit = IF s.cur \in start..(end - 1) THEN s.cur - start ELSE -1, !.moved = FALSE]

AppendThumbStripItems(s, end) ==
    [s EXCEPT !.end = end, !.items = @ \o Buttons(s, s.end, end)]

PrependThumbStripItems(s, start) ==
    [s EXCEPT !.start = start, !.items = Buttons(s, start, s.start) \o @,
              !.lit = IF @ = -1 THEN -1 ELSE @ + (s.start - start)]

\* update_thumb_scroll_position: nothing happens before every button has a stable width.
Positionable(s) ==
    /\ s.view.page > 0
    /\ s.cur >= s.start /\ s.cur - s.start < Len(s.items)
    /\ StableWidths(Widths(s.items))

UpdateThumbScrollPosition(s) ==
    LET ws == Widths(s.items)
        offset == s.cur - s.start
        pos == ComputeThumbPositioning(ButtonX(ws, offset) + ws[offset + 1] \div 2,
                                       s.view.page, s.view.upper, ContentWidth(ws))
    IN  IF ~Positionable(s) THEN s
        ELSE [s EXCEPT !.view.value = Clamp(pos[1], 0, Higher(s.view.upper - s.view.page, 0)),
                       !.view.move = pos[2], !.lit = offset, !.user = FALSE]

\* schedule_scroll_thumb_to_current: recorded when a burst runs, else it starts one.
ScheduleScroll(s) ==
    IF s.burst > 0 THEN [s EXCEPT !.asked = TRUE]
    ELSE [s EXCEPT !.asked = FALSE, !.burst = THUMB_CENTER_RETRY_FRAMES, !.spent = FALSE]

\* try_extend_thumb_window: not twice in the same direction before the main loop was idle.
GrownTo(s, w) ==
    IF w[1] = s.start /\ w[2] > s.end THEN AppendThumbStripItems(s, w[2])
    ELSE IF w[2] = s.end /\ w[1] < s.start THEN PrependThumbStripItems(s, w[1])
    ELSE RebuildThumbStrip(s, w[1], w[2])

TryExtendThumbWindow(s, dir) ==
    LET to == ComputeExtendedThumbWindow(dir, s.start, s.end, Len(s.list), Len(s.items))
    IN  IF dir \in s.pend \/ to = {} THEN [s EXCEPT !.skipped = @ \/ to # {}]
        ELSE ScheduleScroll(GrownTo([s EXCEPT !.pend = {dir}], CHOOSE w \in to : TRUE))

ExtendTowards(s, dirs) ==
    IF dirs = {} THEN s ELSE TryExtendThumbWindow(s, CHOOSE d \in dirs : TRUE)

ExtendForCurrent(s) ==
    ExtendTowards(s, ComputeCurrentThumbExtendDirection(s.cur, s.start, s.end, Len(s.list)))

\* refresh_thumb_strip: rebuilt only when the index has left the window.
InThumbWindow(s) == s.end > s.start /\ s.cur >= s.start /\ s.cur < s.end

LoadInitialThumbWindow(s) ==
    LET w == ComputeInitialThumbWindow(s.cur, Len(s.list))
    IN  RebuildThumbStrip(s, w[1], w[2])

RefreshThumbStrip(s) ==
    LET now == [s EXCEPT !.skipped = FALSE]
        loaded == IF InThumbWindow(s) THEN now ELSE LoadInitialThumbWindow(now)
    IN  Evaluated(ScheduleScroll(ExtendForCurrent(
            Evaluated(UpdateThumbScrollPosition(Evaluated(loaded))))))

(***************************************************************************)
(* Inputs                                                                  *)
(***************************************************************************)
StripSpend(what) ==
    /\ fsBudget[what] > 0
    /\ fsBudget' = [fsBudget EXCEPT ![what] = @ - 1]

\* show_at(index): a step, a click on a thumbnail, a jump.
ShowIndex ==
    /\ StripSpend("show")
    /\ \E k \in 0..(Len(fsList) - 1) :
          /\ k # fsCur
          /\ Becomes(RefreshThumbStrip([Strip EXCEPT !.cur = k]), FALSE)

\* A neighbour that was not in the list is appended to it and shown.
ShowAppended ==
    /\ StripSpend("append")
    /\ \E p \in StripPhotos \ ToSet(fsList) :
          Becomes(RefreshThumbStrip([Strip EXCEPT !.list = Append(@, p), !.cur = Len(fsList)]), FALSE)

\* remove_deleted_item, then show_at(next_index_after_deleted_item).
DeleteCurrent ==
    /\ Len(fsList) > 1 /\ StripSpend("delete")
    /\ Becomes(RefreshThumbStrip(
                  [Strip EXCEPT !.list = RemoveAt(@, fsCur + 1),
                                !.cur = Lower(@, Len(fsList) - 2), !.moved = TRUE]), FALSE)

\* restore_deleted_item: put back at its place and shown.
RestoreDeleted ==
    /\ StripSpend("undo")
    /\ \E p \in StripPhotos \ ToSet(fsList), k \in 0..Len(fsList) :
          Becomes(RefreshThumbStrip(
                    [Strip EXCEPT !.list = InsertAt(@, k + 1, p), !.cur = k, !.moved = TRUE]), FALSE)

\* A texture lands in a button that is still there: the button may change its width, and the
\* centring is asked for in any case.
LandTexture ==
    /\ \E i \in 1..Len(fsItems) :
          /\ ~fsItems[i].tex
          /\ Becomes(ScheduleScroll(
                [Strip EXCEPT !.items[i].tex = TRUE,
                              !.items[i].want = StripWidth[fsItems[i].id][2]]), FALSE)
    /\ UNCHANGED fsBudget

\* on_thumb_adj_changed, for a change the page did not make itself.
OnThumbAdjChanged(s) ==
    IF s.view.page <= 0 THEN s
    ELSE ExtendTowards([s EXCEPT !.skipped = TRUE], ScrollExtendDirection(s.view.value, s.view.page, s.view.upper,
                                s.start, s.end, Len(s.list)))

UserScroll ==
    /\ StripSpend("scroll")
    /\ \E v \in {0, Higher(fsView.upper - fsView.page, 0)} :
          /\ v # fsView.value
          /\ Becomes(OnThumbAdjChanged([Strip EXCEPT !.view.value = v, !.user = TRUE]), FALSE)

ClearPendingExtend ==
    /\ fsPend # {}
    /\ Becomes([Strip EXCEPT !.pend = {}], FALSE)
    /\ UNCHANGED fsBudget

(***************************************************************************)
(* A frame: the tick callback of the burst, then the layout                *)
(***************************************************************************)
ShouldRetryThumbCentering(applied, moved, asked, remaining) ==
    remaining > 0 /\ (~applied \/ moved \/ asked)

LayoutDue(items) == \E i \in 1..Len(items) : items[i].alloc # items[i].want

TickBurst(s) ==
    LET after == Evaluated(UpdateThumbScrollPosition(s))
        moved == after.view.move # s.view.move
        remaining == s.burst - 1
    IN  IF s.burst = 0 THEN s
        ELSE IF ShouldRetryThumbCentering(Positionable(s), moved, s.asked, remaining)
        THEN [after EXCEPT !.burst = remaining]
        ELSE [after EXCEPT !.burst = 0, !.asked = FALSE,
                           !.spent = LayoutDue(s.items)]

\* GTK allocates the buttons and configures the adjustment; its changes are heard, and the
\* layout handler corrects the position before the frame is painted.
Allocated(s, page) ==
    LET ws == Evaluated([i \in 1..Len(s.items) |-> s.items[i].want])
        upper == Higher(ContentWidth(ws), page)
    IN  [s EXCEPT !.items = Evaluated([i \in 1..Len(ws) |-> [s.items[i] EXCEPT !.alloc = ws[i]]]),
                  !.view.page = page, !.view.upper = upper,
                  !.view.value = Clamp(@, 0, upper - page)]

LayoutStrip(s, page) ==
    LET new == Evaluated(Allocated(s, page))
        heard == Evaluated(IF new.view.upper # s.view.upper \/ page # s.view.page
                 THEN ScheduleScroll(new) ELSE new)
        clamped == Evaluated(IF new.view.value # s.view.value THEN OnThumbAdjChanged(heard) ELSE heard)
    IN  IF clamped.burst > 0 THEN UpdateThumbScrollPosition(clamped) ELSE clamped

NeedsFrame == fsBurst > 0 \/ LayoutDue(fsItems)

StripFrame ==
    /\ NeedsFrame
    /\ Becomes(LayoutStrip(Evaluated(TickBurst(Strip)), fsBudget.page), TRUE)
    /\ UNCHANGED fsBudget

\* The viewport is resized.
ResizeStrip ==
    /\ StripSpend("resize")
    /\ fsView.page > 0 /\ fsBudget'.page = fsBudget.page
    /\ Becomes(LayoutStrip(Evaluated(TickBurst(Strip)), fsBudget.narrow), TRUE)

(***************************************************************************)
(* The specification                                                       *)
(***************************************************************************)
StripInit ==
    /\ fsBudget \in StripBudgets
    /\ LET s == RefreshThumbStrip(
                  [list |-> fsBudget.list, cur |-> fsBudget.first, start |-> 0, end |-> 0,
                   items |-> <<>>, lit |-> -1,
                   view |-> [page |-> 0, upper |-> 0, value |-> 0, move |-> 0],
                   burst |-> 0, asked |-> FALSE, pend |-> {}, user |-> FALSE, moved |-> FALSE,
                   spent |-> FALSE, skipped |-> FALSE])
       IN  /\ fsList = s.list /\ fsCur = s.cur /\ fsStart = s.start /\ fsEnd = s.end
           /\ fsItems = s.items /\ fsLit = s.lit /\ fsView = s.view
           /\ fsBurst = s.burst /\ fsAsked = s.asked /\ fsPend = s.pend
           /\ fsGhost = [painted |-> FALSE, user |-> FALSE, moved |-> FALSE, spent |-> FALSE,
                         skipped |-> FALSE]

StripNext ==
    \/ ShowIndex \/ ShowAppended \/ DeleteCurrent \/ RestoreDeleted
    \/ LandTexture \/ UserScroll \/ ResizeStrip \/ ClearPendingExtend
    \/ StripFrame

\* The frame clock runs while a frame is wanted (only frames paint), and the main loop is idle
\* again and again.
StripSpec ==
    /\ StripInit /\ [][StripNext]_stripVars
    /\ []<>~NeedsFrame \/ []<><<fsGhost'.painted>>_stripVars
    /\ []<>(fsPend = {})

(***************************************************************************)
(* Properties                                                              *)
(***************************************************************************)
\* The strip holds at most a half row more buttons than THUMB_WINDOW_MAX, never more buttons than
\* its window has indices, and a burst never more frames than its budget.
StripTypeOK ==
    /\ fsCur \in 0..(Len(fsList) - 1)
    /\ fsStart <= fsEnd /\ Len(fsItems) <= fsEnd - fsStart
    /\ Len(fsItems) < THUMB_WINDOW_MAX + THUMB_LAZY_HALF
    /\ fsBurst \in 0..THUMB_CENTER_RETRY_FRAMES
    /\ fsPend \in {{}, {-1}, {1}}

StripQuiet == fsBurst = 0 /\ ~NeedsFrame /\ fsPend = {}

CentredNow ==
    /\ fsLit = fsCur - fsStart
    /\ Centred(Widths(fsItems), fsCur - fsStart, fsView)

\* Every painted frame, those of a navigation included, has the current thumbnail emphasised and
\* in the middle of the strip, whatever textures, window changes and resizes came before it.  The
\* user's own scroll is left alone, and a burst that stopped just before a layout is excepted.
PaintedCentred ==
    (fsGhost.painted /\ ~fsGhost.user /\ ~fsGhost.spent /\ Positionable(Strip)) => CentredNow

\* Until the list is changed under it, each button shows the photograph of its index, and the
\* window's buttons are all there: what a click on a thumbnail relies on.
StripShowsList ==
    ~fsGhost.moved =>
        /\ Len(fsItems) = fsEnd - fsStart
        /\ \A i \in 1..Len(fsItems) : fsItems[i].id = fsList[fsStart + i]

\* Growing and sliding never push the displayed index out of the window, except by the user's
\* own scroll (refresh_thumb_strip, compute_extended_thumb_window).
CurrentInWindow == ~fsGhost.user => fsCur \in fsStart..(fsEnd - 1)

\* At rest the displayed thumbnail has a neighbour on each side where the list has one, so that
\* "keep going" and "go back" are visible.  An extension skipped by the debounce is excepted,
\* and one the adjustment asked for since the last switch.
NeighbourShown ==
    (StripQuiet /\ ~fsGhost.user /\ ~fsGhost.skipped) =>
        /\ fsCur = fsStart => fsStart = 0
        /\ fsCur = fsEnd - 1 => fsEnd >= Len(fsList)

\* Centring comes to an end: the burst that is running stops, also when it answers its own
\* requests (set_thumb_scroll_adjustment_value, the notify handlers of the adjustment).
StripSettles == []<>(fsBurst = 0)

\* At rest the current thumbnail is in the middle of the strip, also when its last burst stopped
\* in the frame whose layout gave the buttons their width.
CentredAtRest ==
    (StripQuiet /\ ~fsGhost.user /\ Positionable(Strip)) => CentredNow
=============================================================================
