------------------------------- MODULE MCFiles -------------------------------
(***************************************************************************)
(* The files and the table: the indexer, which follows what other programs *)
(* do to the library, the operations that change it from the window, and   *)
(* one photo through the trash.  A behaviour is one of the component in    *)
(* focus while the others rest in an initial state, and the states of the  *)
(* three add up.                                                           *)
(***************************************************************************)
EXTENDS Indexer, Mutate, Trash, TLC

CONSTANTS dA, dB, t1, t2

NoActs == [files |-> 0, folders |-> 0, faults |-> 0, unmounts |-> 0, ignores |-> 0]

Library(ds, a, b, ta, tb) ==
    [dirs |-> ds, stamp |-> 2,
     file  |-> [f \in Files |-> IF f[1] = dA THEN a ELSE b],
     table |-> [f \in Files |-> IF f[1] = dA THEN ta ELSE tb]]

(* Indexed as it is; new and removed while closed; changed while closed and *)
(* a whole folder removed.                                                  *)
MCLibraries == {Library({dA}, 1, 0, 1, 0),
                Library({dA, dB}, 1, 0, 0, 1),
                Library({dA}, 2, 0, 1, 1)}

MCIndexBudgets ==
    {[NoActs EXCEPT !.files = 2],
     [NoActs EXCEPT !.folders = 1],
     [NoActs EXCEPT !.files = 1, !.unmounts = 1],
     [NoActs EXCEPT !.faults = 1],
     [NoActs EXCEPT !.files = 1, !.ignores = 1]}

(* What two threads do to one photo, what another program writes meanwhile, *)
(* how many steps fail and how often the process dies.                      *)
MCAlbumNames == <<"album", "album_1">>
MCEditedNames == <<"edited", "edited_1", "edited_2">>

Plan(a, b, writes, paths, fails, crashes, there) ==
    [todo |-> t1 :> a @@ t2 :> b, writes |-> writes, paths |-> paths, fails |-> fails,
     crashes |-> crashes, there |-> there]

MCMuPlans == {
    Plan(<<"overwrite">>, <<>>, 1, {"photo"}, 2, 1, {}),
    Plan(<<"overwrite", "overwrite">>, <<"save_copy">>, 0, {}, 1, 0, {}),
    Plan(<<"overwrite">>, <<"overwrite">>, 1, {"photo"}, 1, 0, {}),
    Plan(<<"overwrite">>, <<"rename">>, 0, {}, 1, 0, {}),
    Plan(<<"copy">>, <<"overwrite">>, 0, {}, 1, 1, {"album"}),
    Plan(<<"copy">>, <<>>, 1, {"photo", "album"}, 2, 1, {}),
    Plan(<<"move">>, <<>>, 1, {"photo", "album"}, 1, 1, {}),
    Plan(<<"move">>, <<"overwrite">>, 0, {}, 0, 0, {}),
    Plan(<<"move">>, <<"rename">>, 0, {}, 0, 0, {}),
    Plan(<<"rename">>, <<>>, 1, {"photo", "renamed"}, 2, 1, {}),
    Plan(<<"save_copy">>, <<"save_copy">>, 1, {"edited"}, 1, 0, {}) }

-----------------------------------------------------------------------------
VARIABLE focus  \* the component whose behaviour this is

focusVars == <<IndexVars, muVars, vars, focus>>

(* All the starts of the component in focus, one start of any other. *)
StartsOf(component, starts) == IF focus = component THEN starts ELSE {CHOOSE s \in starts : TRUE}

FilesInit ==
    /\ focus \in {"indexer", "mutate", "trash"}
    /\ indexBudget \in StartsOf("indexer", IndexBudgets)
    /\ \E l \in StartsOf("indexer", Libraries) : dirs = l.dirs /\ file = l.file /\ table = l.table
    /\ IndexInit
    /\ muPlan \in StartsOf("mutate", MuPlans) /\ MutateInit
    /\ Init

FilesNext ==
    \/ focus = "indexer" /\ IndexNext /\ UNCHANGED <<muVars, vars, focus>>
    \/ focus = "mutate" /\ MutateNext /\ UNCHANGED <<IndexVars, vars, focus>>
    \/ focus = "trash" /\ Next /\ UNCHANGED <<IndexVars, muVars, focus>>

FilesSpec == FilesInit /\ [][FilesNext]_focusVars
=============================================================================
