------------------------------ MODULE MCBrowsing ------------------------------
(***************************************************************************)
(* Browsing: the virtual grid, the window with its sidebar and pages, and  *)
(* the viewer's filmstrip.  A behaviour is one of the component in focus   *)
(* while the others rest in an initial state, and the states of the three  *)
(* add up.                                                                 *)
(***************************************************************************)
EXTENDS Grid, Browse, Filmstrip

(* Eight photos on two days: enough for a window that does not hold them    *)
(* all, a shared list shorter than the query, and an eviction.              *)

Still == [upserts |-> 0, removals |-> 0, thumbs |-> 0, favorites |-> 0, fails |-> 0,
          scrolls |-> 0, switches |-> 0, columns |-> 0,
          kinds |-> {"upsert"}, photos |-> {}, cols |-> {2}]

MCGridBudgets == {
    [Still EXCEPT !.upserts = 2, !.photos = {8}],
    [Still EXCEPT !.upserts = 1, !.thumbs = 1, !.photos = {2}],
    [Still EXCEPT !.upserts = 1, !.removals = 1, !.photos = {8}],
    [Still EXCEPT !.upserts = 1, !.kinds = {"scan"}, !.photos = {8}, !.switches = 1],
    [Still EXCEPT !.favorites = 1, !.removals = 1, !.photos = {5}],
    [Still EXCEPT !.columns = 2, !.upserts = 1, !.photos = {8}, !.cols = {2, 3}],
    [Still EXCEPT !.fails = 2, !.scrolls = 2],
    [Still EXCEPT !.switches = 1, !.upserts = 1, !.photos = {8}],
    [Still EXCEPT !.removals = 1, !.photos = {1, 6}, !.scrolls = 1]}

Start(n) == [m \in GridMedia |-> IF m > n THEN 0 ELSE IF m > 3 THEN 2 ELSE 1]
MCGridStarts == {Start(Cardinality(GridMedia) - 1)}

(* Two folders, the favourites and one media type; each scenario spends a   *)
(* few inputs of some kinds.                                                 *)

CONSTANTS fa, fb, fav, ty, w1

BwQuiet == [clicks |-> 0, toggles |-> 0, focus |-> 0, menus |-> 0, pages |-> 0, backs |-> 0,
            changes |-> 0, faults |-> 0, photos |-> [f \in BwFolders |-> 1]]
MCBrowseBudgets ==
    {[BwQuiet EXCEPT !.clicks = 2, !.pages = 1, !.backs = 1],
     [BwQuiet EXCEPT !.clicks = 1, !.pages = 2, !.backs = 2],
     [BwQuiet EXCEPT !.clicks = 1, !.menus = 1, !.faults = 1],
     [BwQuiet EXCEPT !.toggles = 1, !.menus = 1, !.changes = 1],
     [BwQuiet EXCEPT !.clicks = 1, !.changes = 2],
     [BwQuiet EXCEPT !.menus = 2, !.pages = 1, !.backs = 1],
     [BwQuiet EXCEPT !.menus = 2, !.faults = 1, !.photos = [f \in BwFolders |-> 2]],
     [BwQuiet EXCEPT !.clicks = 1, !.focus = 1, !.pages = 1, !.backs = 1]}

MCStripWidth == [p \in StripPhotos |-> IF p % 3 = 0 THEN <<4, 8>> ELSE <<4, 4>>]

StripSession(list, first, page, slow) ==
    [list |-> list, first |-> first, page |-> page, narrow |-> page, slow |-> slow,
     show |-> 0, append |-> 0, delete |-> 0, undo |-> 0, scroll |-> 0, resize |-> 0]

MCStripBudgets ==
    {[StripSession([i \in 1..12 |-> i], 0, 12, {6}) EXCEPT !.show = 2],
     [StripSession([i \in 1..12 |-> i], 6, 20, {6}) EXCEPT !.show = 1, !.scroll = 2],
     [StripSession(<<1, 3>>, 1, 120, {1, 3}) EXCEPT !.append = 1, !.show = 1],
     [StripSession([i \in 1..9 |-> i], 1, 48, {}) EXCEPT !.delete = 1, !.undo = 1, !.show = 1],
     [StripSession([i \in 1..9 |-> i], 4, 36, {3, 6}) EXCEPT !.resize = 1, !.narrow = 20]}

-----------------------------------------------------------------------------
VARIABLE focus  \* the component whose behaviour this is

focusVars == <<gridVars, bwVars, stripVars, focus>>

(* All the starts of the component in focus, one start of any other. *)
StartsOf(component, starts) == IF focus = component THEN starts ELSE {CHOOSE s \in starts : TRUE}

BrowsingInit ==
    /\ focus \in {"grid", "browse", "filmstrip"}
    /\ GridInit
    /\ \E b \in StartsOf("grid", GridBudgets) : gridBudget = b /\ view.columns \in StartsOf("grid", b.cols)
    /\ bwBudget \in StartsOf("browse", BrowseBudgets) /\ BrowseInit
    /\ fsBudget \in StartsOf("filmstrip", StripBudgets) /\ StripInit

BrowsingNext ==
    \/ focus = "grid" /\ GridNext /\ UNCHANGED <<bwVars, stripVars, focus>>
    \/ focus = "browse" /\ BrowseNext /\ UNCHANGED <<gridVars, stripVars, focus>>
    \/ focus = "filmstrip" /\ StripNext /\ UNCHANGED <<gridVars, bwVars, focus>>

BrowsingSpec == BrowsingInit /\ [][BrowsingNext]_focusVars
=============================================================================
