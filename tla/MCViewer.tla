------------------------------ MODULE MCViewer ------------------------------
(***************************************************************************)
(* The viewer: moving through the photographs, with deletion and undo;     *)
(* what the stage shows of the current one; the panels and the editor.     *)
(* A behaviour is one of the component in focus while the others rest in   *)
(* an initial state, and the states of the three add up.                   *)
(***************************************************************************)
EXTENDS Navigate, Stage, Editor

NavSession(list, shared, at, press, click, edit, delete, undo, change, error, read) ==
    [list |-> list, rows |-> NavMedia, at |-> at, shared |-> shared, press |-> press,
     click |-> click, edit |-> edit, delete |-> delete, undo |-> undo, change |-> change,
     error |-> error, read |-> read]

MCNavBudgets == {
    \* a one-item window on the query, stepping out of it
    NavSession(<<2>>, FALSE, 2, 3, 0, 0, 0, 0, 0, 0, 0),
    NavSession(<<2>>, FALSE, 2, 2, 0, 0, 0, 0, 0, 1, 0),
    NavSession(<<2>>, FALSE, 2, 1, 1, 1, 0, 0, 0, 0, 0),
    \* the shared list, with the editor
    NavSession(<<1, 2, 3>>, TRUE, 2, 2, 0, 1, 0, 0, 0, 0, 0),
    NavSession(<<1, 2, 3>>, TRUE, 2, 1, 0, 1, 0, 0, 0, 0, 1),
    \* deletion, undo and the editor
    NavSession(<<1, 2, 3>>, TRUE, 2, 1, 0, 0, 1, 1, 0, 0, 0),
    NavSession(<<1, 2, 3>>, TRUE, 2, 0, 0, 1, 1, 1, 0, 0, 0),
    NavSession(<<1, 2, 3>>, FALSE, 3, 0, 0, 0, 2, 1, 0, 0, 0),
    NavSession(<<1, 2, 3>>, FALSE, 3, 1, 0, 0, 1, 0, 0, 1, 0),
    \* rows come and go under a press
    [NavSession(<<1, 3>>, TRUE, 1, 1, 0, 0, 0, 0, 2, 0, 0) EXCEPT !.rows = {1, 3}]}

\* A standard photograph (1), a motion photograph (2), a video (3), an animation (4).
MCStageKind == <<"image", "motion", "video", "gif">>

Session(first, cloud, sw, fail, edit, play, publish) ==
    [first |-> first, cloud |-> cloud, switch |-> sw, fail |-> fail, retry |-> 1, edit |-> edit,
     play |-> play, publish |-> publish, autoplay |-> FALSE, undo |-> FALSE, shared |-> TRUE]

MCStageBudgets ==
    {Session(1, {}, 2, 1, 1, 0, 0),
     [Session(1, {}, 1, 1, 1, 0, 0) EXCEPT !.undo = TRUE],
     [Session(2, {}, 1, 1, 0, 1, 0) EXCEPT !.autoplay = TRUE],
     Session(3, {}, 2, 2, 0, 0, 0),
     Session(4, {}, 2, 1, 0, 0, 0),
     Session(1, {1, 3}, 1, 1, 0, 0, 2),
     [Session(3, {3}, 1, 1, 0, 0, 1) EXCEPT !.shared = FALSE]}

MCRatios == <<<<0, 0>>, <<1, 1>>, <<3, 2>>, <<0, 1>>>>

MCEdBudget(keys, clicks, edits, drags, saves, fails) ==
    [keys |-> keys, clicks |-> clicks, edits |-> edits, drags |-> drags, saves |-> saves, fails |-> fails]

\* Panels and immersion; panels and edits; saving, its dialogs and failures; previews
\* across sessions; failing renders; the crop overlay.
MCEdBudgets ==
    {MCEdBudget(4, 2, 0, 0, 0, 0), MCEdBudget(2, 3, 1, 0, 0, 0),
     MCEdBudget(2, 0, 1, 0, 1, 1), MCEdBudget(3, 0, 1, 0, 1, 0),
     MCEdBudget(3, 0, 2, 0, 0, 0), MCEdBudget(1, 0, 3, 0, 0, 1),
     MCEdBudget(1, 0, 2, 3, 0, 0)}

-----------------------------------------------------------------------------
VARIABLE focus  \* the component whose behaviour this is

focusVars == <<navVars, stageVars, edVars, focus>>

(* All the starts of the component in focus, one start of any other. *)
StartsOf(component, starts) == IF focus = component THEN starts ELSE {CHOOSE s \in starts : TRUE}

ViewerInit ==
    /\ focus \in {"navigate", "stage", "editor"}
    /\ navBudget \in StartsOf("navigate", NavBudgets) /\ NavInit
    /\ stBudget \in StartsOf("stage", StageBudgets) /\ StageInit
    /\ edBudget \in StartsOf("editor", EdBudgets) /\ EditorInit

ViewerNext ==
    \/ focus = "navigate" /\ NavNext /\ UNCHANGED <<stageVars, edVars, focus>>
    \/ focus = "stage" /\ StageNext /\ UNCHANGED <<navVars, edVars, focus>>
    \/ focus = "editor" /\ EditorNext /\ UNCHANGED <<navVars, stageVars, focus>>

ViewerSpec == ViewerInit /\ [][ViewerNext]_focusVars
=============================================================================
