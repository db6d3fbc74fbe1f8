------------------------------- MODULE Editor -------------------------------
(***************************************************************************)
(* The viewer's side panels and the image editor: ui/editor_panel.rs,      *)
(* core/edit/mod.rs, viewer/editor.rs, viewer/crop.rs, the panel half of   *)
(* viewer/details.rs, viewer/immersive.rs and the keys of viewer_page.rs.  *)
(*                                                                         *)
(* Opening a panel forbids popping the page; closing one allows it again   *)
(* only when a timer of its own finds the panel still closed.  Edits live  *)
(* in EditState; a preview is rendered 33 ms after the last change by one  *)
(* worker at a time, and a save runs in a worker of its own while the      *)
(* sliders stay live.  Alert dialogs block the pointer, not the window's   *)
(* key router, which sees every key first.                                 *)
(***************************************************************************)
EXTENDS Integers, Sequences, FiniteSets

CONSTANTS
    EdWidth, EdHeight,     \* the oriented source
    CROP_RATIOS,           \* ratios of the selector: <<w, h>>, "source" or "free" as <<0, 0>> / <<0, 1>>
    CROP_MIN_SOURCE_SIZE,
    EdBudgets              \* sessions: a bound on each input

VARIABLES
    edDetails,   \* the details sidebar is shown
    edOpen,      \* is_editing and the editor sidebar
    edPop,       \* can_pop
    edTimers,    \* slide-out guards pending: how many of each panel
    edImm,       \* immersive
    edChrome,    \* chrome_revealed
    edIdle,      \* immersive_idle_source is pending
    edLeft,      \* the page was popped
    edState,     \* EditState: rotation in quarter turns, adjustments, crop
    edCropMode, edRatio, edCompare,
    edSource,    \* source_image is loaded
    edLoads,     \* source loads under way: are their tokens current
    edDebounce,  \* debounce_id
    edRun,       \* the render under way: the state it renders, is its token current
    edAgain,     \* render_pending
    edPic,       \* the state the picture shows, {} for the texture of before editing
    edSpin,      \* the spinner turns
    edSaving,    \* the save under way: kind and state
    edDialogs,   \* alert dialogs on screen
    edDrag,      \* crop_drag
    edBudget,
    edGhost      \* history: what the code does not promise to repair

edPanels == <<edDetails, edOpen, edPop, edTimers, edLeft>>
edFold == <<edImm, edChrome, edIdle>>
edEdits == <<edState, edCropMode, edRatio, edCompare, edDrag>>
edPreview == <<edSource, edLoads, edDebounce, edRun, edAgain, edPic, edSpin>>
edSave == <<edSaving, edDialogs>>
edVars == <<edPanels, edFold, edEdits, edPreview, edSave, edBudget, edGhost>>

EdSpend(what) ==
    /\ edBudget[what] > 0
    /\ edBudget' = [edBudget EXCEPT ![what] = @ - 1]

EdMayFail(ok) == IF ok THEN UNCHANGED edBudget ELSE EdSpend("fails")

(***************************************************************************)
(* Edit state and crop geometry                                            *)
(***************************************************************************)
NoEdits == [rot |-> 0, adj |-> 0, crop |-> <<>>]
HasPendingEdits(s) == s.rot # 0 \/ s.adj # 0 \/ s.crop # <<>>
\* for_preview: in crop mode the whole picture stays visible under the overlay.
ForPreview(s) == IF edCropMode THEN [s EXCEPT !.crop = <<>>] ELSE s

\* f64::round of a quotient of naturals.
RoundDiv(a, b) == (2 * a + b) \div (2 * b)
Within(lo, n, hi) == IF n < lo THEN lo ELSE IF n > hi THEN hi ELSE n

\* current_crop_space_dimensions: a quarter turn swaps the sides.
CropSpace(s) ==
    IF ~edSource THEN <<0, 0>>
    ELSE IF s.rot \in {1, 3} THEN <<EdHeight, EdWidth>> ELSE <<EdWidth, EdHeight>>

CenteredCropRectForAspect(w, h, aw, ah) ==
    LET wide == w * ah > h * aw
        cw == IF wide THEN Within(1, RoundDiv(h * aw, ah), w) ELSE w
        ch == IF wide THEN h ELSE Within(1, RoundDiv(w * ah, aw), h)
    IN  <<(w - cw) \div 2, (h - ch) \div 2, cw, ch>>

\* crop_rect_for_ratio_id: none for the free ratio.
IsSourceRatio(r) == r = <<0, 0>>
IsFreeRatio(r) == r = <<0, 1>>
CropRectForRatio(r, w, h) ==
    IF IsSourceRatio(r) THEN <<0, 0, w, h>> ELSE CenteredCropRectForAspect(w, h, r[1], r[2])

DefaultFreeCropRect(w, h) ==
    LET cw == RoundDiv(9 * w, 10)
        ch == RoundDiv(9 * h, 10)
    IN  <<(w - cw) \div 2, (h - ch) \div 2, Within(1, cw, w), Within(1, ch, h)>>

\* normalized_crop_rect keeps a dragged rectangle inside the image, at the active ratio.
RatioPair(r, w, h) == IF IsSourceRatio(r) THEN <<w, h>> ELSE r
NormalizedCropRect(rect, w, h, r) ==
    LET x == Within(0, rect[1], w - 1)
        y == Within(0, rect[2], h - 1)
        cw == Within(1, rect[3], w - x)
        ch == Within(1, rect[4], h - y)
        p == RatioPair(r, w, h)
        rh == Within(1, RoundDiv(cw * p[2], p[1]), h - y)
    IN  IF IsFreeRatio(r) THEN <<x, y, cw, ch>>
        ELSE <<x, y, Within(1, RoundDiv(rh * p[1], p[2]), w - x), rh>>

\* resize_from_edges: the edges stay inside and at least the minimum apart.
ResizeFromEdges(l, t, r, b, w, h, min) ==
    LET left == Within(0, l, w - min)
        top == Within(0, t, h - min)
    IN  <<left, top, Within(left + min, r, w) - left, Within(top + min, b, h) - top>>

CropDragModes == {"move", "nw", "ne", "sw", "se"}

DragRect(drag, dx, dy, w, h) ==
    LET x == drag.rect[1]
        y == drag.rect[2]
        r == x + drag.rect[3]
        b == y + drag.rect[4]
        min == Within(1, CROP_MIN_SOURCE_SIZE, IF w < h THEN w ELSE h)
    IN  IF drag.mode = "move"
        THEN <<Within(0, x + dx, Within(0, w - drag.rect[3], w)),
               Within(0, y + dy, Within(0, h - drag.rect[4], h)), drag.rect[3], drag.rect[4]>>
        ELSE ResizeFromEdges(IF drag.mode \in {"nw", "sw"} THEN x + dx ELSE x,
                             IF drag.mode \in {"nw", "ne"} THEN y + dy ELSE y,
                             IF drag.mode \in {"ne", "se"} THEN r + dx ELSE r,
                             IF drag.mode \in {"sw", "se"} THEN b + dy ELSE b, w, h, min)

\* ensure_crop_rect stages a rectangle of the active ratio once the image is known.
ActiveCropRatio == CROP_RATIOS[edRatio]
EnsureCropRect(s) ==
    LET d == CropSpace(s)
    IN  IF d[1] = 0 \/ s.crop # <<>> THEN s
        ELSE [s EXCEPT !.crop = IF IsFreeRatio(ActiveCropRatio) THEN DefaultFreeCropRect(d[1], d[2])
                                ELSE CropRectForRatio(ActiveCropRatio, d[1], d[2])]

(***************************************************************************)
(* Preview: one render at a time, of the newest state                      *)
(***************************************************************************)
Outdated(jobs) == {[j EXCEPT !.fresh = FALSE] : j \in jobs}

ShownState == IF edCompare THEN NoEdits ELSE ForPreview(edState)

\* schedule_preview_update: outdate the render under way and restart the 33 ms timer.
SchedulePreviewUpdate ==
    /\ edRun' = Outdated(edRun)
    /\ edDebounce' = TRUE
    /\ UNCHANGED <<edSource, edLoads, edAgain, edPic, edSpin>>

StartRender ==
    IF edSource
    THEN /\ edRun' = {[state |-> ShownState, fresh |-> TRUE]}
         /\ edSpin' = TRUE
         /\ edGhost' = [edGhost EXCEPT !.bare = FALSE]
    ELSE /\ edRun' = {} /\ UNCHANGED edSpin
         /\ edGhost' = [edGhost EXCEPT !.bare = edSpin]

RenderPreview ==
    IF edRun # {} THEN edAgain' = TRUE /\ UNCHANGED <<edRun, edSpin, edGhost>>
    ELSE StartRender /\ UNCHANGED edAgain

DebounceFires ==
    /\ edDebounce /\ edDebounce' = FALSE
    /\ RenderPreview
    /\ UNCHANGED <<edPanels, edFold, edEdits, edSave, edSource, edLoads, edPic, edBudget>>

\* A render lands: a newer request replaces it, an outdated one is dropped.
RenderLands(ok) ==
    /\ edRun # {} /\ edAgain' = FALSE /\ EdMayFail(ok)
    /\ IF edAgain
       THEN StartRender /\ UNCHANGED edPic
       ELSE /\ edRun' = {} /\ edSpin' = FALSE
            /\ \E j \in edRun : edPic' = IF j.fresh /\ ok THEN {j.state} ELSE edPic
            /\ edGhost' = [edGhost EXCEPT !.failed = @ \/ ~ok]
    /\ UNCHANGED <<edPanels, edFold, edEdits, edSave, edSource, edLoads, edDebounce>>

\* load_source_async lands; a load of an earlier session is dropped.
LoadLands(fresh, ok) ==
    /\ fresh \in edLoads /\ edLoads' = edLoads \ {fresh}
    /\ EdMayFail(ok)
    /\ IF fresh /\ ok
       THEN edSource' = TRUE /\ edRun' = Outdated(edRun) /\ edDebounce' = TRUE
       ELSE UNCHANGED <<edSource, edRun, edDebounce>>
    /\ UNCHANGED <<edPanels, edFold, edEdits, edSave, edAgain, edPic, edSpin, edGhost>>

(***************************************************************************)
(* Panels, the pop guard and immersion                                     *)
(***************************************************************************)
\* set_chrome_revealed and arm_immersive_idle, when the user moves or presses a key.
NoteImmersiveActivity == edImm' = edImm /\ edChrome' = (edChrome \/ edImm) /\ edIdle' = (edIdle \/ edImm)
LeaveImmersive == edImm' = FALSE /\ edChrome' = TRUE /\ edIdle' = FALSE
ExitImmersiveForChrome == IF edImm THEN LeaveImmersive ELSE UNCHANGED edFold
\* immersive_allowed
ImmersiveAllowed == ~edOpen /\ ~edDetails
ToggleImmersive ==
    IF edImm THEN LeaveImmersive
    ELSE IF ImmersiveAllowed THEN edImm' = TRUE /\ edChrome' = FALSE /\ edIdle' = TRUE
    ELSE UNCHANGED edFold

\* set_details_revealed: either way pop is off, and a guard timer follows a slide-out.
SetDetailsRevealed(on) ==
    /\ edDetails' = on /\ edPop' = FALSE
    /\ edTimers' = IF on THEN edTimers ELSE [edTimers EXCEPT !.details = @ + 1]

DetailsGuardElapses ==
    /\ edTimers.details > 0 /\ edTimers' = [edTimers EXCEPT !.details = @ - 1]
    /\ edPop' = (edPop \/ ~edDetails)
    /\ edGhost' = [edGhost EXCEPT !.crossed = @ \/ (~edDetails /\ edOpen)]
    /\ UNCHANGED <<edDetails, edOpen, edLeft, edFold, edEdits, edPreview, edSave, edBudget>>

EditorGuardElapses ==
    /\ edTimers.editor > 0 /\ edTimers' = [edTimers EXCEPT !.editor = @ - 1]
    /\ edPop' = (edPop \/ ~edOpen)
    /\ edGhost' = [edGhost EXCEPT !.crossed = @ \/ (~edOpen /\ edDetails)]
    /\ UNCHANGED <<edDetails, edOpen, edLeft, edFold, edEdits, edPreview, edSave, edBudget>>

\* The stillness timer folds the chrome.
IdleElapses ==
    /\ edIdle /\ edIdle' = FALSE
    /\ edChrome' = (edChrome /\ ~edImm)
    /\ UNCHANGED <<edPanels, edImm, edEdits, edPreview, edSave, edBudget, edGhost>>

\* Opening a panel renews the guard.
Guarded == [edGhost EXCEPT !.crossed = FALSE]

\* configure and start_editing.
StartEditing ==
    /\ edOpen' = TRUE /\ edPop' = FALSE /\ edDetails' = FALSE
    /\ edTimers' = IF edDetails THEN [edTimers EXCEPT !.details = @ + 1] ELSE edTimers
ConfigurePanel ==
    /\ edState' = NoEdits /\ edCropMode' = FALSE /\ edRatio' = 1 /\ edCompare' = FALSE
    /\ edSource' = FALSE /\ edLoads' = {FALSE : l \in edLoads} \cup {TRUE}
    /\ edRun' = Outdated(edRun) /\ edAgain' = FALSE
    /\ edDebounce' = (edDebounce \/ edState.adj # 0)
    /\ UNCHANGED <<edDrag, edPic, edSpin, edSave>>

\* stop_editing: cancel_preview, the overlay goes, the saved texture comes back.
CancelPreview ==
    /\ edRun' = Outdated(edRun) /\ edLoads' = {FALSE : l \in edLoads}
    /\ edAgain' = FALSE /\ edDebounce' = FALSE /\ edSource' = FALSE
StopEditing ==
    /\ CancelPreview
    /\ edOpen' = FALSE /\ edPic' = {} /\ edDrag' = <<>>
    /\ edTimers' = [edTimers EXCEPT !.editor = @ + 1]
    /\ UNCHANGED <<edDetails, edPop, edLeft, edState, edCropMode, edRatio, edCompare, edSpin>>

\* request_close: refused during a save or a second time, asked about when dirty.
RequestClose ==
    IF edSaving # {} \/ "discard" \in edDialogs
    THEN UNCHANGED <<edPanels, edEdits, edPreview, edSave>>
    ELSE IF ~HasPendingEdits(edState) THEN StopEditing /\ UNCHANGED edSave
    ELSE /\ edDialogs' = edDialogs \cup {"discard"}
         /\ UNCHANGED <<edPanels, edEdits, edPreview, edSaving>>

PopPage == edLeft' = TRUE /\ UNCHANGED <<edDetails, edOpen, edPop, edTimers, edEdits, edPreview, edSave>>

\* The edit button, while the panel is closed.
BeginEdit ==
    /\ StartEditing /\ ConfigurePanel /\ ExitImmersiveForChrome
    /\ edGhost' = [Guarded EXCEPT !.failed = FALSE, !.turned = FALSE, !.later = FALSE]
    /\ UNCHANGED edLeft

(***************************************************************************)
(* Keys: seen by the router before any dialog                              *)
(***************************************************************************)
KeyEscape ==
    /\ EdSpend("keys")
    /\ IF edOpen THEN NoteImmersiveActivity /\ RequestClose
       ELSE IF edDetails
       THEN /\ SetDetailsRevealed(FALSE) /\ NoteImmersiveActivity
            /\ UNCHANGED <<edOpen, edLeft, edEdits, edPreview, edSave>>
       ELSE IF edImm
       THEN LeaveImmersive /\ UNCHANGED <<edPanels, edEdits, edPreview, edSave>>
       ELSE IF ~edPop THEN UNCHANGED <<edPanels, edFold, edEdits, edPreview, edSave>>
       ELSE PopPage /\ UNCHANGED edFold
    /\ edGhost' = [edGhost EXCEPT !.beneath = @ \/ (edOpen /\ "overwrite" \in edDialogs)]

KeyImmersive ==
    /\ ~edOpen /\ EdSpend("keys")
    /\ ToggleImmersive
    /\ UNCHANGED <<edPanels, edEdits, edPreview, edSave, edGhost>>

KeyDetails ==
    /\ ~edOpen /\ EdSpend("keys")
    /\ IF edDetails THEN NoteImmersiveActivity ELSE ExitImmersiveForChrome
    /\ SetDetailsRevealed(~edDetails)
    /\ edGhost' = Guarded
    /\ UNCHANGED <<edOpen, edLeft, edEdits, edPreview, edSave>>

KeyEdit == ~edOpen /\ edDialogs = {} /\ EdSpend("keys") /\ BeginEdit

\* Alt+Left is the window's: the viewer ignores it and the page is popped.
KeyNavigateBack ==
    /\ ~edOpen /\ EdSpend("keys")
    /\ NoteImmersiveActivity /\ PopPage /\ UNCHANGED edGhost

(***************************************************************************)
(* Pointer: header buttons need the chrome, and no dialog above them       *)
(***************************************************************************)
ClickHeader == edChrome /\ edDialogs = {} /\ EdSpend("clicks")

ClickDetails ==
    /\ ClickHeader
    /\ SetDetailsRevealed(~edDetails)
    /\ edGhost' = [Guarded EXCEPT !.button = ~edDetails /\ edImm]
    /\ UNCHANGED <<edOpen, edLeft, edFold, edEdits, edPreview, edSave>>

ClickEdit ==
    /\ ClickHeader
    /\ IF edOpen THEN RequestClose /\ UNCHANGED <<edFold, edGhost>> ELSE BeginEdit

\* The page's own navigation.pop, behind the header's back button.
ClickBack ==
    /\ edPop /\ ClickHeader
    /\ IF edOpen THEN RequestClose
       ELSE IF edDetails
       THEN SetDetailsRevealed(FALSE) /\ UNCHANGED <<edOpen, edLeft, edEdits, edPreview, edSave>>
       ELSE PopPage
    /\ UNCHANGED <<edFold, edGhost>>

\* The navigation view's own gesture and shortcut ask can_pop alone.
BackGesture ==
    /\ edPop /\ edDialogs = {} /\ EdSpend("clicks")
    /\ PopPage /\ UNCHANGED <<edFold, edGhost>>

PointerMoves ==
    /\ edImm /\ EdSpend("clicks")
    /\ NoteImmersiveActivity
    /\ UNCHANGED <<edPanels, edEdits, edPreview, edSave, edGhost>>

(***************************************************************************)
(* The panel's controls                                                    *)
(***************************************************************************)
InPanel == edOpen /\ edDialogs = {}
EditControl == InPanel /\ EdSpend("edits")

\* update_pending_edits: nothing pending ends the comparison.
ChangeEdits(s) ==
    /\ edState' = s
    /\ edCompare' = (edCompare /\ HasPendingEdits(s))
Turned(crop, turn) ==
    edGhost' = [edGhost EXCEPT !.turned = crop # <<>> /\ (@ \/ turn),
                               !.later = @ \/ edSaving # {}]

MoveSlider(v) ==
    /\ EditControl /\ v # edState.adj
    /\ ChangeEdits([edState EXCEPT !.adj = v])
    /\ SchedulePreviewUpdate /\ Turned(edState.crop, FALSE)
    /\ UNCHANGED <<edPanels, edFold, edCropMode, edRatio, edDrag, edSave>>

ApplyRotationDelta_quiet(q) ==
    /\ EditControl
    /\ ChangeEdits([edState EXCEPT !.rot = (@ + q) % 4])
    /\ Turned(edState.crop, q # 2)
    /\ UNCHANGED <<edPanels, edFold, edCropMode, edRatio, edDrag, edPreview, edSave>>
ApplyRotationDelta(q) ==
    /\ EditControl
    /\ LET s == [edState EXCEPT !.rot = (@ + q) % 4]
       IN  ChangeEdits(IF edCropMode THEN EnsureCropRect(s) ELSE s)
    /\ SchedulePreviewUpdate /\ Turned(edState.crop, q # 2)
    /\ UNCHANGED <<edPanels, edFold, edCropMode, edRatio, edDrag, edSave>>

ResetEdits ==
    /\ HasPendingEdits(edState) /\ EditControl
    /\ edState' = NoEdits /\ edCompare' = FALSE /\ edCropMode' = FALSE /\ edDrag' = <<>>
    /\ SchedulePreviewUpdate /\ Turned(<<>>, FALSE)
    /\ UNCHANGED <<edPanels, edFold, edRatio, edSave>>

ToggleCompare ==
    /\ HasPendingEdits(edState) /\ edSaving = {} /\ EditControl
    /\ edCompare' = ~edCompare
    /\ SchedulePreviewUpdate
    /\ UNCHANGED <<edPanels, edFold, edState, edCropMode, edRatio, edDrag, edSave, edGhost>>

\* toggle_crop_mode; without a loaded image only a toast.
ToggleCropMode ==
    /\ EditControl
    /\ IF ~edCropMode /\ CropSpace(edState)[1] = 0
       THEN UNCHANGED <<edEdits, edPreview, edGhost>>
       ELSE /\ edCropMode' = ~edCropMode
            /\ ChangeEdits(IF edCropMode THEN edState ELSE EnsureCropRect(edState))
            /\ edDrag' = IF edCropMode THEN <<>> ELSE edDrag
            /\ SchedulePreviewUpdate /\ Turned(edState'.crop, FALSE)
            /\ UNCHANGED edRatio
    /\ UNCHANGED <<edPanels, edFold, edSave>>

\* step_crop_ratio and apply_crop_ratio: a ring; the free ratio keeps the rectangle.
StepCropRatio(d) ==
    /\ edCropMode /\ EditControl
    /\ edRatio' = ((edRatio - 1 + d + Len(CROP_RATIOS)) % Len(CROP_RATIOS)) + 1
    /\ LET r == CROP_RATIOS[edRatio']
           c == CropSpace(edState)
       IN  IF IsFreeRatio(r) THEN UNCHANGED <<edState, edCompare, edPreview, edGhost>>
           ELSE /\ ChangeEdits([edState EXCEPT !.crop = CropRectForRatio(r, c[1], c[2])])
                /\ SchedulePreviewUpdate /\ Turned(<<>>, FALSE)
    /\ UNCHANGED <<edPanels, edFold, edCropMode, edDrag, edSave>>

BeginCropDrag(mode) ==
    /\ InPanel /\ edCropMode /\ edState.crop # <<>> /\ edDrag = <<>>
    /\ EdSpend("drags")
    /\ edDrag' = <<[mode |-> mode, rect |-> edState.crop]>>
    /\ UNCHANGED <<edPanels, edFold, edState, edCropMode, edRatio, edCompare, edPreview, edSave, edGhost>>

\* update_crop_drag and set_crop_rect_from_overlay: the offset counts from the drag's start.
UpdateCropDrag(dx, dy) ==
    /\ edDrag # <<>> /\ EdSpend("drags")
    /\ LET c == CropSpace(edState)
       IN  edState' = [edState EXCEPT !.crop =
              NormalizedCropRect(DragRect(edDrag[1], dx, dy, c[1], c[2]), c[1], c[2], ActiveCropRatio)]
    /\ Turned(<<>>, FALSE)
    /\ UNCHANGED <<edPanels, edFold, edCropMode, edRatio, edCompare, edDrag, edPreview, edSave>>

EndCropDrag ==
    /\ edDrag # <<>> /\ edDrag' = <<>>
    /\ UNCHANGED <<edPanels, edFold, edState, edCropMode, edRatio, edCompare, edPreview, edSave,
                   edBudget, edGhost>>

ClickClose ==
    /\ InPanel /\ edSaving = {} /\ EdSpend("clicks")
    /\ RequestClose /\ UNCHANGED <<edFold, edGhost>>

(***************************************************************************)
(* Dialogs and saving                                                      *)
(***************************************************************************)
AnswerDiscard(discard) ==
    /\ "discard" \in edDialogs /\ "result" \notin edDialogs
    /\ edDialogs' = edDialogs \ {"discard"}
    /\ IF discard THEN StopEditing ELSE UNCHANGED <<edPanels, edEdits, edPreview>>
    /\ UNCHANGED <<edFold, edSaving, edBudget, edGhost>>

\* perform_save_overwrite, save_as_copy: the state is taken now, and the sliders stay live.
BeginSave(kind) ==
    IF edSaving # {} THEN UNCHANGED edSaving
    ELSE edSaving' = {[kind |-> kind, state |-> edState]}

SaveAsCopy ==
    /\ InPanel /\ edSaving = {} /\ EdSpend("saves")
    /\ BeginSave("copy")
    /\ UNCHANGED <<edPanels, edFold, edEdits, edPreview, edDialogs, edGhost>>

SaveOverwriteWithConfirm ==
    /\ InPanel /\ edSaving = {} /\ EdSpend("saves")
    /\ edDialogs' = edDialogs \cup {"overwrite"}
    /\ UNCHANGED <<edPanels, edFold, edEdits, edPreview, edSaving, edGhost>>

AnswerOverwrite(yes) ==
    /\ edDialogs = {"overwrite"} /\ edDialogs' = {}
    /\ IF yes THEN BeginSave("overwrite") ELSE UNCHANGED edSaving
    /\ UNCHANGED <<edPanels, edFold, edEdits, edPreview, edBudget, edGhost>>

\* A success closes the panel twice, by its result and by fire_close; the two guard timers
\* elapse in one pass of the main loop.
SaveLands(ok) ==
    /\ edSaving # {} /\ EdMayFail(ok)
    /\ edSaving' = {} /\ edDialogs' = edDialogs \cup {"result"}
    /\ IF ok THEN StopEditing ELSE UNCHANGED <<edPanels, edEdits, edPreview>>
    /\ UNCHANGED <<edFold, edGhost>>

DismissResult ==
    /\ "result" \in edDialogs /\ edDialogs' = edDialogs \ {"result"}
    /\ UNCHANGED <<edPanels, edFold, edEdits, edPreview, edSaving, edBudget, edGhost>>

(***************************************************************************)
(* Specification                                                           *)
(***************************************************************************)
EditorInit ==
    /\ edDetails = FALSE /\ edOpen = FALSE /\ edPop = TRUE /\ edLeft = FALSE
    /\ edTimers = [details |-> 0, editor |-> 0]
    /\ edImm = FALSE /\ edChrome = TRUE /\ edIdle = FALSE
    /\ edState = NoEdits /\ edCropMode = FALSE /\ edRatio = 1 /\ edCompare = FALSE /\ edDrag = <<>>
    /\ edSource = FALSE /\ edLoads = {} /\ edDebounce = FALSE /\ edRun = {} /\ edAgain = FALSE
    /\ edPic = {} /\ edSpin = FALSE
    /\ edSaving = {} /\ edDialogs = {}
    /\ edBudget \in EdBudgets
    /\ edGhost = [crossed |-> FALSE, button |-> FALSE, failed |-> FALSE, turned |-> FALSE,
                  later |-> FALSE, beneath |-> FALSE, bare |-> FALSE]

EdTimer == DetailsGuardElapses \/ EditorGuardElapses \/ IdleElapses \/ DebounceFires
EdWorker ==
    \E ok \in BOOLEAN :
       RenderLands(ok) \/ SaveLands(ok) \/ \E fresh \in BOOLEAN : LoadLands(fresh, ok)
EdKey == KeyEscape \/ KeyImmersive \/ KeyDetails \/ KeyEdit \/ KeyNavigateBack
EdClick ==
    \/ ClickDetails \/ ClickEdit \/ ClickBack \/ BackGesture \/ PointerMoves \/ ClickClose
    \/ SaveAsCopy \/ SaveOverwriteWithConfirm \/ DismissResult
    \/ \E yes \in BOOLEAN : AnswerDiscard(yes) \/ AnswerOverwrite(yes)
EdTool ==
    \/ \E v \in 0 .. 1 : MoveSlider(v)
    \/ \E q \in 1 .. 3 : ApplyRotationDelta(q)
    \/ ResetEdits \/ ToggleCompare \/ ToggleCropMode
    \/ \E d \in {-1, 1} : StepCropRatio(d)
    \/ \E mode \in CropDragModes : BeginCropDrag(mode)
    \/ \E dx \in -2 .. 2, dy \in -2 .. 2 : UpdateCropDrag(dx, dy)
    \/ EndCropDrag

EditorNext == ~edLeft /\ (EdTimer \/ EdWorker \/ EdKey \/ EdClick \/ EdTool)

\* The main loop runs its timers, and workers answer.
EditorFairness == WF_edVars(~edLeft /\ (EdTimer \/ EdWorker))

EditorSpec == EditorInit /\ [][EditorNext]_edVars /\ EditorFairness

(***************************************************************************)
(* Properties                                                              *)
(***************************************************************************)
EdStates == [rot : 0 .. 3, adj : 0 .. 1, crop : {<<>>} \cup (Nat \X Nat \X Nat \X Nat)]

\* The state keeps its types: in particular at most one preview renders at a time
\* (render_running), and the ratio index stays on the selector's ring.
EditorTypeOK ==
    /\ {edDetails, edOpen, edPop, edLeft, edImm, edChrome, edIdle, edCropMode, edCompare,
        edSource, edDebounce, edAgain, edSpin} \subseteq BOOLEAN
    /\ edTimers \in [details : Nat, editor : Nat]
    /\ edState \in EdStates /\ edRatio \in 1 .. Len(CROP_RATIOS)
    /\ Cardinality(edRun) <= 1 /\ Cardinality(edSaving) <= 1 /\ edLoads \subseteq BOOLEAN
    /\ edDialogs \subseteq {"discard", "overwrite", "result"}

\* While the details or the editor panel is open the page refuses to be popped
\* (set_can_pop in set_details_revealed and start_editing), whatever guard timers of earlier
\* slide-outs still run; excepted is the timer of the other panel, which asks only about its own.
PopGuarded == (edDetails \/ edOpen) => ~edPop \/ edGhost.crossed

\* Once both panels are closed the page can be popped again: a guard timer always follows.
PopReturns == []<>(~edDetails /\ ~edOpen => edPop \/ edLeft)

\* Outside immersive browsing the chrome is never left folded, and a panel that opened
\* from the keyboard or for editing is never folded away by a stillness timer armed before.
ChromeKept ==
    /\ ~edImm => edChrome
    /\ (edOpen \/ (edDetails /\ ~edGhost.button)) => edChrome

\* Immersive browsing folds the chrome once the user rests.
StillnessFolds == []<>(edImm => ~edChrome \/ edLeft)

\* When no render is due the picture shows the newest edits, or the unedited source while
\* comparing: the single-flight preview drops outdated results and never the last request.
PreviewIsCurrent ==
    (edOpen /\ edSource /\ ~edDebounce /\ edRun = {} /\ ~edGhost.failed) => edPic = {ShownState}

\* After the editor is left nothing of its preview reaches the viewer's picture any more.
NoLatePreview == ~edOpen => edPic = {}

\* At rest no spinner is left turning over the photo, unless a render queued behind an
\* earlier session's found no source to render.
SpinnerRests ==
    (~edDebounce /\ edRun = {} /\ edLoads = {}) => ~edSpin \/ edGhost.bare

\* Previews come to rest.
PreviewRests == []<>((edRun = {} /\ ~edDebounce) \/ edLeft)

\* The crop rectangle stays a non-empty part of the rotated image, through ratios and
\* drags; a rotation alone keeps the rectangle's old coordinates.
CropInside ==
    LET c == CropSpace(edState)
        r == edState.crop
    IN  (edSource /\ r # <<>> /\ ~edGhost.turned)
        => r[3] > 0 /\ r[4] > 0 /\ r[1] + r[3] <= c[1] /\ r[2] + r[4] <= c[2]

\* Pending edits end only by a confirmed discard or in the save that took them
\* (request_close); excepted are edits made while that save ran, a page left through the
\* guard another panel's timer lifted, and an Escape that went past an open overwrite dialog.
UnsavedAsksFirst ==
    [][((edOpen /\ ~edOpen') \/ (edOpen /\ edLeft')) /\ HasPendingEdits(edState)
       => \/ "discard" \in edDialogs /\ "discard" \notin edDialogs'
          \/ \E s \in edSaving : s.state = edState /\ edSaving' = {}
          \/ edGhost.later \/ edGhost.crossed \/ edGhost.beneath]_edVars

\* The editor is left through its own gate only: the page is not popped under it.
ExitsThroughGate == [][edLeft' => ~edOpen]_edVars
=============================================================================
