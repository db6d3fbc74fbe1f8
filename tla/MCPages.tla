------------------------------- MODULE MCPages -------------------------------
(***************************************************************************)
(* The pages: Photos with its selection, its overview panel and selector,  *)
(* and the search page.  A behaviour is one of the component in focus      *)
(* while the others rest in an initial state, and the states of the three  *)
(* add up.                                                                 *)
(***************************************************************************)
EXTENDS Photos, Overview, Search

(* Up to three photos, a select-all cap of two, one of them favourited. *)

PhQuiet == [library |-> {1, 2}, favourites |-> {1}, click |-> 0, mode |-> 0,
            all |-> 0, heart |-> 0, trash |-> 0, menu |-> 0, fail |-> 0,
            count |-> 0, stuck |-> 0, leave |-> 0, arrive |-> 0]
MCPhotosBudgets ==
    {[PhQuiet EXCEPT !.click = 3, !.heart = 1, !.fail = 1],
     [PhQuiet EXCEPT !.click = 2, !.mode = 1, !.menu = 1],
     [PhQuiet EXCEPT !.library = {1, 2, 3}, !.click = 2, !.all = 2, !.count = 1,
                     !.arrive = 1],
     [PhQuiet EXCEPT !.click = 1, !.all = 2, !.count = 2, !.arrive = 1],
     [PhQuiet EXCEPT !.all = 1, !.click = 1, !.mode = 1, !.heart = 1, !.fail = 1],
     [PhQuiet EXCEPT !.all = 1, !.click = 1, !.trash = 2, !.leave = 1, !.stuck = 1],
     [PhQuiet EXCEPT !.menu = 2, !.trash = 1, !.heart = 1, !.stuck = 1]}

(* Up to two sync runs, two scan passes and a handful of gestures.         *)

OvQuiet == [items |-> 1, scan |-> FALSE, run |-> 0, progress |-> 0, switch |-> 0,
            count |-> 0, ordinary |-> 0, list |-> 0, broken |-> 0, retry |-> 0,
            show |-> 0, fail |-> 0, mode |-> 0, scroll |-> 0]
MCOverviewBudgets ==
    {[OvQuiet EXCEPT !.run = 2, !.progress = 1, !.count = 1],
     [OvQuiet EXCEPT !.run = 1, !.progress = 1, !.scroll = 2],
     [OvQuiet EXCEPT !.run = 1, !.progress = 1, !.scroll = 1, !.mode = 1],
     [OvQuiet EXCEPT !.run = 1, !.switch = 1, !.ordinary = 1, !.fail = 1],
     [OvQuiet EXCEPT !.items = 0, !.scan = TRUE, !.broken = 2, !.retry = 2,
                     !.list = 1, !.show = 1, !.mode = 1],
     [OvQuiet EXCEPT !.items = 0, !.scan = TRUE, !.run = 1, !.list = 1, !.mode = 1],
     [OvQuiet EXCEPT !.list = 2, !.mode = 3, !.run = 1]}

(* Three images and a video; one term finds all of them, one two images and  *)
(* one nothing, and the name field narrows the first.                        *)

MCSrTerms == {"all", "pair", "none"}
MCSearchFields == {"All", "Name"}
MCSrMatch == [q \in MCSrTerms \X MCSearchFields |->
                CASE q = <<"all", "All">> -> 1..4
                  [] q[1] = "none" -> {}
                  [] OTHER -> {1, 2}]
MCSrAreas == {[width |-> 1, height |-> 2], [width |-> 1, height |-> 4]}

SrQuiet == [type |-> 0, field |-> 0, fail |-> 0, resize |-> 0, click |-> 0,
            favourite |-> 0, trash |-> 0, stuck |-> 0]
MCSearchBudgets ==
    {[SrQuiet EXCEPT !.type = 1, !.field = 1, !.resize = 1],
     [SrQuiet EXCEPT !.type = 2, !.fail = 1],
     [SrQuiet EXCEPT !.type = 1, !.resize = 1, !.click = 1, !.trash = 1, !.stuck = 1],
     [SrQuiet EXCEPT !.type = 1, !.click = 3, !.favourite = 1],
     [SrQuiet EXCEPT !.type = 1, !.click = 1, !.trash = 2],
     [SrQuiet EXCEPT !.type = 2, !.click = 1, !.trash = 1]}

-----------------------------------------------------------------------------
VARIABLE focus  \* the component whose behaviour this is

focusVars == <<phVars, ovVars, srVars, focus>>

(* All the starts of the component in focus, one start of any other. *)
StartsOf(component, starts) == IF focus = component THEN starts ELSE {CHOOSE s \in starts : TRUE}

PagesInit ==
    /\ focus \in {"photos", "overview", "search"}
    /\ phLeft \in StartsOf("photos", PhotosBudgets) /\ PhotosInit
    /\ ovLeft \in StartsOf("overview", OverviewBudgets) /\ OverviewInit
    /\ srLeft \in StartsOf("search", SearchBudgets) /\ SearchInit
    /\ srPage.area \in StartsOf("search", SrAreas)

PagesNext ==
    \/ focus = "photos" /\ PhotosNext /\ UNCHANGED <<ovVars, srVars, focus>>
    \/ focus = "overview" /\ OverviewNext /\ UNCHANGED <<phVars, srVars, focus>>
    \/ focus = "search" /\ SearchNext /\ UNCHANGED <<phVars, ovVars, focus>>

PagesSpec == PagesInit /\ [][PagesNext]_focusVars
=============================================================================
