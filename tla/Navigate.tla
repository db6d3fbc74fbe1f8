------------------------------ MODULE Navigate ------------------------------
(***************************************************************************)
(* Moving between photographs in the viewer (ui/viewer/navigation.rs,      *)
(* viewer_page.rs show_at, viewer/actions.rs for the trash and its undo,   *)
(* viewer_launch.rs).                                                      *)
(*                                                                         *)
(* The viewer holds three positions.  current_media_id is the logical one: *)
(* a key press moves it at once so that the next press continues from      *)
(* there.  displayed_media_id is the photograph show_at put on the page.   *)
(* current_index is a place in the list store the page browses, which the  *)
(* library's own events may splice while the viewer is open.  A press asks *)
(* the database for a neighbour, then waits for that photograph's preview  *)
(* or a timer, and only then switches; nav_token makes every older press   *)
(* void.                                                                   *)
(*                                                                         *)
(* Photographs are natural numbers in the order of the query.  A request   *)
(* that reads the database carries the set `seen' of the answers the       *)
(* database would have given since it was sent: the worker may have read   *)
(* at any of those moments.  `fresh' stands for the equality of a          *)
(* request's token with the page's.                                        *)
(***************************************************************************)
EXTENDS Integers, FiniteSets, SequencesExt

CONSTANTS
    NavMedia,    \* photographs, positive numbers in query order
    NavVideos,   \* those that are videos: their switch does not wait
    NavBudgets   \* the sessions explored: a start and a bound on each input

ASSUME NavAssumption == NavMedia \subseteq Nat \ {0} /\ NavVideos \subseteq NavMedia

VARIABLES
    navRows,    \* media the query returns: live rows
    navList,    \* the list store the viewer browses
    navAt,      \* current_index, current_media_id, displayed_media_id
    navCache,   \* cached_neighbor_for_id and the two cached items
    navFetch,   \* prefetch reads under way
    navAsk,     \* neighbour queries of presses
    navWait,    \* switches waiting for a preview, with the ways left to settle
    navSettled, \* nav_settled_token = nav_token
    navEnds,    \* directions whose arrow is dimmed
    navEdit,    \* is_editing
    navTrash,   \* deletions and undos under way
    navEvents,  \* domain events not yet applied to the shared list
    navOpen,    \* the page is on the navigation stack
    navBudget,
    navGhost    \* history: what has already gone astray

navVars == <<navRows, navList, navAt, navCache, navFetch, navAsk, navWait, navSettled,
             navEnds, navEdit, navTrash, navEvents, navOpen, navBudget, navGhost>>

NavSpend(what) ==
    /\ navBudget[what] > 0
    /\ navBudget' = [navBudget EXCEPT ![what] = @ - 1]

(***************************************************************************)
(* The list and the query                                                  *)
(***************************************************************************)
\* The item `steps' places after (before) id in the query, if there is one; a row that
\* left the query has no neighbour.
NeighborItem(rows, id, delta) ==
    LET beyond == {m \in rows : IF delta > 0 THEN m > id ELSE m < id}
        before(m) == {x \in beyond : IF delta > 0 THEN x < m ELSE x > m}
    IN  IF id \notin rows \/ delta = 0 THEN {}
        ELSE {m \in beyond : Cardinality(before(m)) = (IF delta > 0 THEN delta ELSE -delta) - 1}

\* Zero-based position of an id in the list, as a set of at most one element.
FindMediaIndexById(list, id) == {i - 1 : i \in {j \in DOMAIN list : list[j] = id}}

MediaItemAt(list, index) == IF index < Len(list) THEN {list[index + 1]} ELSE {}

\* A neighbour outside the window is appended to it.
EnsureMediaItemInWindow(list, id) ==
    IF id \in ToSet(list) THEN list ELSE Append(list, id)

\* Back to the place the query gives it, unless the list still holds it.
InsertMediaItemSorted(list, id) ==
    IF id \in ToSet(list) THEN list
    ELSE LET after == {j \in DOMAIN list : list[j] > id}
             at == IF after = {} THEN Len(list) + 1 ELSE Min(after)
         IN  InsertAt(list, at, id)

RemoveIndex(list, index) == IF index < Len(list) THEN RemoveAt(list, index + 1) ELSE list

NextIndexAfterDeletedItem(deleted, remaining) ==
    IF remaining = 0 THEN {} ELSE {IF deleted < remaining THEN deleted ELSE remaining - 1}

(***************************************************************************)
(* Showing a photograph                                                    *)
(***************************************************************************)
\* The reads a new database state offers to the requests already under way.
Reread(rows) ==
    /\ navFetch' = {[f EXCEPT !.seen = @ \cup {NeighborItem(rows, f.for, f.delta)}] : f \in navFetch}
    /\ navAsk' = {[a EXCEPT !.seen = @ \cup {NeighborItem(rows, a.from, a.delta)}] : a \in navAsk}

\* prefetch_neighbors: the cache slot is reserved for the current photograph at once.
Prefetched(for) == [for |-> for, next |-> {}, prev |-> {}]
PrefetchReads(for) ==
    {[for |-> for, delta |-> d, seen |-> {NeighborItem(navRows, for, d)}] : d \in {1, -1}}

PrefetchNeighbors(for) ==
    /\ navCache' = IF for = 0 THEN navCache ELSE Prefetched(for)
    /\ navFetch' = IF for = 0 THEN navFetch ELSE navFetch \cup PrefetchReads(for)

\* show_at: the index is taken even when the list has no such place; otherwise the item
\* there becomes the displayed and the current one, both arrows are unknown again, and the
\* neighbours are prefetched.
ShowAt(list, index) ==
    LET item == MediaItemAt(list, index)
    IN  IF item = {}
        THEN /\ navAt' = [navAt EXCEPT !.index = index]
             /\ UNCHANGED <<navEnds, navCache, navFetch>>
        ELSE LET id == CHOOSE m \in item : TRUE
             IN  /\ navAt' = [index |-> index, id |-> id, shown |-> id]
                 /\ navEnds' = {}
                 /\ PrefetchNeighbors(id)

\* The list index of the current id, which every reader of the current item stores.
SyncedIndex(list, at) ==
    LET found == FindMediaIndexById(list, at.id)
    IN  IF found = {} THEN at.index ELSE CHOOSE i \in found : TRUE

CurrentMediaItem(list, at) ==
    IF at.id # 0 /\ FindMediaIndexById(list, at.id) = {} THEN {}
    ELSE MediaItemAt(list, SyncedIndex(list, at))

(***************************************************************************)
(* Navigation                                                              *)
(***************************************************************************)

\* switch_when_thumb_ready: a video switches now; anything else when its preview answers
\* or the timer fires.  Until then only the logical position moves.
SwitchWhenThumbReady(list, id, waits, cache) ==
    LET index == CHOOSE i \in FindMediaIndexById(list, id) : TRUE
    IN  /\ navList' = list
        /\ IF id \in NavVideos
           THEN ShowAt(list, index) /\ navSettled' = TRUE /\ navWait' = waits
           ELSE /\ navAt' = [navAt EXCEPT !.id = id]
                /\ navWait' = waits \cup {[index |-> index, for |-> id, fresh |-> TRUE,
                                           ways |-> {"thumb", "timeout"}]}
                /\ navSettled' = FALSE
                /\ navCache' = cache
                /\ UNCHANGED <<navEnds, navFetch>>

\* A newer press voids every query and every waiting switch.
Stale(set) == {[x EXCEPT !.fresh = FALSE] : x \in set}

CachedNeighbor(delta) ==
    IF navCache.for # navAt.id \/ delta \notin {1, -1} THEN {}
    ELSE IF delta = 1 THEN navCache.next ELSE navCache.prev

\* The prefetched neighbour is used once.
FromCache(delta) ==
    /\ \E id \in CachedNeighbor(delta) :
          SwitchWhenThumbReady(EnsureMediaItemInWindow(navList, id), id, Stale(navWait),
                               [navCache EXCEPT !.for = 0])
    /\ navAsk' = Stale(navAsk)

AskNeighbor(delta) ==
    /\ CachedNeighbor(delta) = {}
    /\ navAsk' = Stale(navAsk) \cup
          {[from |-> navAt.id, delta |-> delta, fresh |-> TRUE,
            seen |-> {NeighborItem(navRows, navAt.id, delta)}]}
    /\ navWait' = Stale(navWait)
    /\ navSettled' = FALSE
    /\ UNCHANGED <<navList, navAt, navCache, navFetch, navEnds>>

NavigateByDelta(delta) ==
    /\ ~navEdit
    /\ FromCache(delta) \/ AskNeighbor(delta)
    /\ navGhost' = [navGhost EXCEPT !.stuck = FALSE, !.asked = TRUE]
    /\ UNCHANGED <<navRows, navEdit, navTrash, navEvents, navOpen>>

\* An arrow button or key: dimmed directions do nothing.
Press(delta) ==
    /\ navOpen /\ delta \notin navEnds
    /\ NavSpend("press")
    /\ NavigateByDelta(delta)

\* A filmstrip button carries the list index it was built for.
ClickThumb(index) ==
    /\ navOpen /\ index < Len(navList) /\ index # navAt.index
    /\ NavSpend("click")
    /\ NavigateByDelta(index - navAt.index)

\* fire_nav: the page's callback moves along the list instead of the query.
FireNav(delta) ==
    LET next == IF navAt.index + delta < 0 THEN 0 ELSE navAt.index + delta
    IN  IF next < Len(navList) THEN ShowAt(navList, next)
        ELSE UNCHANGED <<navAt, navEnds, navCache, navFetch>>

\* The press asked from a photograph the page has not switched to.
AskedAhead(a) == a.from # navAt.shown

NeighborLands(a, answer) ==
    /\ navAsk' = navAsk \ {a}
    /\ IF ~a.fresh \/ navEdit
       THEN UNCHANGED <<navList, navAt, navWait, navSettled, navEnds, navCache, navFetch, navGhost>>
       ELSE \/ /\ answer # {}
               /\ LET id == CHOOSE m \in answer : TRUE
                  IN  SwitchWhenThumbReady(EnsureMediaItemInWindow(navList, id), id, navWait, navCache)
               /\ UNCHANGED navGhost
            \/ /\ answer = {}
               /\ navEnds' = navEnds \cup {IF a.delta > 0 THEN 1 ELSE -1}
               /\ navGhost' = [navGhost EXCEPT !.stuck = @ \/ AskedAhead(a), !.blind = @ \/ AskedAhead(a)]
               /\ UNCHANGED <<navList, navAt, navWait, navSettled, navCache, navFetch>>

LandNeighbor ==
    /\ \E a \in navAsk : \E answer \in a.seen : NeighborLands(a, answer)
    /\ UNCHANGED <<navRows, navEdit, navTrash, navEvents, navOpen, navBudget>>

\* The query failed.
FailNeighbor ==
    /\ NavSpend("error")
    /\ \E a \in navAsk :
          /\ navAsk' = navAsk \ {a}
          /\ IF a.fresh /\ ~navEdit
             THEN /\ FireNav(a.delta)
                  /\ navGhost' = [navGhost EXCEPT !.stuck = @ \/ AskedAhead(a)]
             ELSE UNCHANGED <<navAt, navEnds, navCache, navFetch, navGhost>>
    /\ UNCHANGED <<navRows, navList, navWait, navSettled, navEdit, navTrash, navEvents, navOpen>>

\* settle_nav_switch: once per token, at the index computed when the press was resolved.
Settle(w, way) ==
    /\ navWait' = (navWait \ {w}) \cup
          (IF w.ways = {way} THEN {} ELSE {[w EXCEPT !.ways = @ \ {way}]})
    /\ IF ~w.fresh \/ navEdit \/ navSettled
       THEN UNCHANGED <<navAt, navSettled, navEnds, navCache, navFetch, navGhost>>
       ELSE /\ navSettled' = TRUE
            /\ ShowAt(navList, w.index)
            /\ navGhost' = [navGhost EXCEPT !.moved = @ \/ MediaItemAt(navList, w.index) # {w.for}]

SettleNavSwitch ==
    /\ \E w \in navWait : \E way \in w.ways : Settle(w, way)
    /\ UNCHANGED <<navRows, navList, navAsk, navEdit, navTrash, navEvents, navOpen, navBudget>>

\* A prefetch read lands: dropped unless the page is still on its photograph.
PrefetchLands(f, answer) ==
    /\ navFetch' = navFetch \ {f}
    /\ IF navAt.id # f.for \/ navCache.for # f.for
       THEN UNCHANGED <<navCache, navEnds>>
       ELSE IF answer = {}
       THEN navEnds' = navEnds \cup {f.delta} /\ UNCHANGED navCache
       ELSE /\ navCache' = IF f.delta = 1 THEN [navCache EXCEPT !.next = answer]
                           ELSE [navCache EXCEPT !.prev = answer]
            /\ UNCHANGED navEnds

LandPrefetch ==
    /\ \E f \in navFetch : \E answer \in f.seen : PrefetchLands(f, answer)
    /\ UNCHANGED <<navRows, navList, navAt, navAsk, navWait, navSettled, navEdit, navTrash,
                   navEvents, navOpen, navBudget, navGhost>>

FailPrefetch ==
    /\ NavSpend("error")
    /\ \E f \in navFetch : navFetch' = navFetch \ {f}
    /\ UNCHANGED <<navRows, navList, navAt, navCache, navAsk, navWait, navSettled, navEnds,
                   navEdit, navTrash, navEvents, navOpen, navGhost>>

\* Chrome that reads the current item (favourite, details, motion button, sync event)
\* stores the index of the logical position.
ReadCurrent ==
    /\ NavSpend("read")
    /\ navAt' = [navAt EXCEPT !.index = SyncedIndex(navList, navAt)]
    /\ UNCHANGED <<navRows, navList, navCache, navFetch, navAsk, navWait, navSettled, navEnds,
                   navEdit, navTrash, navEvents, navOpen, navGhost>>

(***************************************************************************)
(* The editor's lock                                                       *)
(***************************************************************************)
CancelPendingNavigation_ahead ==
    /\ navAsk' = Stale(navAsk)
    /\ navWait' = Stale(navWait)
    /\ navSettled' = FALSE
    /\ UNCHANGED navAt
    /\ navCache' = [for |-> 0, next |-> {}, prev |-> {}]

\* Editor entry voids every pending switch and takes the logical position back to the
\* photograph on the page.
CancelPendingNavigation ==
    /\ navAsk' = Stale(navAsk)
    /\ navWait' = Stale(navWait)
    /\ navSettled' = FALSE
    /\ navAt' = IF FindMediaIndexById(navList, navAt.shown) = {} THEN navAt
                ELSE [navAt EXCEPT !.id = navAt.shown,
                                   !.index = SyncedIndex(navList, [navAt EXCEPT !.id = navAt.shown])]
    /\ navCache' = [for |-> 0, next |-> {}, prev |-> {}]

EditorOpens ==
    /\ navOpen /\ ~navEdit
    /\ navAt.shown \in ToSet(navList) \ NavVideos
    /\ NavSpend("edit")
    /\ navEdit' = TRUE
    /\ CancelPendingNavigation
    /\ navGhost' = [navGhost EXCEPT !.stuck = FALSE, !.asked = FALSE]
    /\ UNCHANGED <<navRows, navList, navFetch, navEnds, navTrash, navEvents, navOpen>>

EditorCloses ==
    /\ navEdit
    /\ navEdit' = FALSE
    /\ navAt' = [navAt EXCEPT !.index = SyncedIndex(navList, navAt)]
    /\ PrefetchNeighbors(navAt.id)
    /\ UNCHANGED <<navRows, navList, navAsk, navWait, navSettled, navEnds, navTrash, navEvents,
                   navOpen, navBudget, navGhost>>

(***************************************************************************)
(* The trash                                                               *)
(***************************************************************************)
RowsBecome(rows) == navRows' = rows /\ Reread(rows)

Announce(event) == navEvents' = IF navBudget.shared THEN Append(navEvents, event) ELSE navEvents

\* The confirmed dialog takes the current item and marks its row.
ConfirmDelete ==
    /\ navOpen /\ NavSpend("delete")
    /\ \E id \in CurrentMediaItem(navList, navAt) :
          /\ navTrash' = navTrash \cup {[id |-> id, step |-> "marked"]}
          /\ RowsBecome(navRows \ {id})
          /\ navGhost' = [navGhost EXCEPT !.unseen = @ \/ id # navAt.shown,
                                          !.twice = @ \/ \E t \in navTrash : t.id = id]
    /\ navAt' = [navAt EXCEPT !.index = SyncedIndex(navList, navAt)]
    /\ UNCHANGED <<navList, navCache, navWait, navSettled, navEnds, navEdit, navEvents, navOpen>>

\* The file moved and the mark is committed: the library is told.
CommitMoved ==
    /\ \E t \in navTrash :
          /\ t.step = "marked"
          /\ navTrash' = (navTrash \ {t}) \cup {[t EXCEPT !.step = "moved"]}
          /\ Announce([kind |-> "gone", id |-> t.id])
    /\ UNCHANGED <<navRows, navList, navAt, navCache, navFetch, navAsk, navWait, navSettled,
                   navEnds, navEdit, navOpen, navBudget, navGhost>>

\* The move failed: the mark is taken back.
RollbackMarked ==
    /\ NavSpend("error")
    /\ \E t \in navTrash :
          /\ t.step = "marked"
          /\ navTrash' = navTrash \ {t}
          /\ RowsBecome(navRows \cup {t.id})
          /\ Announce([kind |-> "back", id |-> t.id])
    /\ navGhost' = [navGhost EXCEPT !.added = TRUE]
    /\ UNCHANGED <<navList, navAt, navCache, navWait, navSettled, navEnds, navEdit, navOpen>>

\* remove_deleted_item: the item's place, or the render cursor's when the list no longer
\* holds it.
RemoveDeletedItem(id) ==
    LET found == FindMediaIndexById(navList, id)
        cursor == IF navList = <<>> THEN 0 ELSE Min({navAt.index, Len(navList) - 1})
        deleted == IF found = {} THEN cursor ELSE CHOOSE i \in found : TRUE
        list == RemoveIndex(navList, deleted)
        next == NextIndexAfterDeletedItem(deleted, Len(list))
    IN  /\ navList' = list
        /\ navGhost' = [navGhost EXCEPT !.bystander = @ \/ (found = {} /\ navList # <<>>),
                                        !.switched = @ \/ (navEdit /\ next # {})]
        /\ IF next = {}
           THEN navOpen' = FALSE /\ UNCHANGED <<navAt, navEnds, navCache, navFetch>>
           ELSE ShowAt(list, CHOOSE n \in next : TRUE) /\ UNCHANGED navOpen

\* The viewer's continuation; the library's consumer has applied the event before it runs.
FinishDelete ==
    /\ \E t \in navTrash :
          /\ t.step = "moved"
          /\ [kind |-> "gone", id |-> t.id] \notin ToSet(navEvents)
          /\ navTrash' = (navTrash \ {t}) \cup {[t EXCEPT !.step = "undoable"]}
          /\ RemoveDeletedItem(t.id)
    /\ UNCHANGED <<navRows, navAsk, navWait, navSettled, navEdit, navEvents, navBudget>>

\* The toast's Undo: the file and the row are restored and the library is told.
Undo ==
    /\ navOpen /\ NavSpend("undo")
    /\ \E t \in navTrash :
          /\ t.step = "undoable"
          /\ navTrash' = (navTrash \ {t}) \cup {[t EXCEPT !.step = "restored"]}
          /\ RowsBecome(navRows \cup {t.id})
          /\ Announce([kind |-> "back", id |-> t.id])
    /\ navGhost' = [navGhost EXCEPT !.added = TRUE]
    /\ UNCHANGED <<navList, navAt, navCache, navWait, navSettled, navEnds, navEdit, navOpen>>

\* restore_deleted_item's continuation.
FinishUndo ==
    /\ \E t \in navTrash :
          /\ t.step = "restored"
          /\ [kind |-> "back", id |-> t.id] \notin ToSet(navEvents)
          /\ navTrash' = navTrash \ {t}
          /\ navList' = InsertMediaItemSorted(navList, t.id)
          /\ ShowAt(navList', CHOOSE i \in FindMediaIndexById(navList', t.id) : TRUE)
          /\ navGhost' = [navGhost EXCEPT !.switched = @ \/ navEdit]
    /\ UNCHANGED <<navRows, navAsk, navWait, navSettled, navEdit, navEvents, navOpen, navBudget>>

(***************************************************************************)
(* The library                                                             *)
(***************************************************************************)
\* The watcher or a sync cycle adds or removes a row.
Arrive ==
    /\ NavSpend("change")
    /\ \E id \in NavMedia \ (navRows \cup {t.id : t \in navTrash}) :
          RowsBecome(navRows \cup {id}) /\ Announce([kind |-> "back", id |-> id])
    /\ navGhost' = [navGhost EXCEPT !.added = TRUE]
    /\ UNCHANGED <<navList, navAt, navCache, navWait, navSettled, navEnds, navEdit, navTrash, navOpen>>

Vanish ==
    /\ NavSpend("change")
    /\ \E id \in navRows :
          RowsBecome(navRows \ {id}) /\ Announce([kind |-> "gone", id |-> id])
    /\ UNCHANGED <<navList, navAt, navCache, navWait, navSettled, navEnds, navEdit, navTrash,
                   navOpen, navGhost>>

\* The event consumer updates the list store the Photos page shares with the viewer.
ApplyEvent ==
    /\ navEvents # <<>>
    /\ LET e == Head(navEvents)
       IN  navList' = IF e.kind = "back" THEN InsertMediaItemSorted(navList, e.id)
                      ELSE SelectSeq(navList, LAMBDA m : m # e.id)
    /\ navEvents' = Tail(navEvents)
    /\ UNCHANGED <<navRows, navAt, navCache, navFetch, navAsk, navWait, navSettled, navEnds,
                   navEdit, navTrash, navOpen, navBudget, navGhost>>

(***************************************************************************)
(* Specification                                                           *)
(***************************************************************************)
NavInit ==
    /\ navBudget \in NavBudgets
    /\ navRows = navBudget.rows
    /\ navList = navBudget.list
    /\ navAt = LET i == CHOOSE j \in DOMAIN navList : navList[j] = navBudget.at
               IN  [index |-> i - 1, id |-> navBudget.at, shown |-> navBudget.at]
    /\ navCache = Prefetched(navBudget.at)
    /\ navFetch = PrefetchReads(navBudget.at)
    /\ navAsk = {} /\ navWait = {} /\ navSettled = TRUE
    /\ navEnds = {} /\ navEdit = FALSE /\ navTrash = {} /\ navEvents = <<>>
    /\ navOpen = TRUE
    /\ navGhost = [stuck |-> FALSE, moved |-> FALSE, unseen |-> FALSE, bystander |-> FALSE,
                   switched |-> FALSE, added |-> FALSE, asked |-> FALSE, blind |-> FALSE, twice |-> FALSE]

\* The database answers and the timer of a waiting switch fires; its preview may never come.
NavReplies ==
    \/ LandNeighbor \/ LandPrefetch
    \/ /\ \E w \in navWait : "timeout" \in w.ways /\ Settle(w, "timeout")
       /\ UNCHANGED <<navRows, navList, navAsk, navEdit, navTrash, navEvents, navOpen, navBudget>>
NavWork == CommitMoved \/ FinishDelete \/ FinishUndo \/ ApplyEvent

NavNext ==
    \/ \E d \in {1, -1} : Press(d)
    \/ \E i \in 0 .. Cardinality(NavMedia) : ClickThumb(i)
    \/ LandNeighbor \/ FailNeighbor \/ SettleNavSwitch \/ LandPrefetch \/ FailPrefetch
    \/ ReadCurrent \/ EditorOpens \/ EditorCloses
    \/ ConfirmDelete \/ CommitMoved \/ RollbackMarked \/ FinishDelete \/ Undo \/ FinishUndo
    \/ Arrive \/ Vanish \/ ApplyEvent

NavFairness == WF_navVars(NavReplies \/ NavWork)

NavSpec == NavInit /\ [][NavNext]_navVars /\ NavFairness

(***************************************************************************)
(* Properties                                                              *)
(***************************************************************************)
NavTypeOK ==
    /\ navRows \subseteq NavMedia
    /\ navList \in Seq(NavMedia) /\ IsInjective(navList)
    /\ navAt.index \in 0 .. Cardinality(NavMedia) /\ {navAt.id, navAt.shown} \subseteq NavMedia
    /\ navCache.for \in {0} \cup NavMedia
    /\ navEnds \subseteq {1, -1}
    /\ \A w \in navWait : w.ways # {} /\ w.ways \subseteq {"thumb", "timeout"}
    /\ Cardinality({w \in navWait : w.fresh}) <= 1
    /\ Cardinality({a \in navAsk : a.fresh}) <= 1

\* No press is still being resolved.
NavQuiet ==
    /\ \A a \in navAsk : ~a.fresh
    /\ navSettled \/ \A w \in navWait : ~w.fresh

\* Once no press is being resolved, the photograph on the page is the one the next press,
\* the favourite and the trash act on.  The exemptions are the two ways the code is known
\* to part them: a press resolved to nothing after it voided an earlier one, and a list
\* that changed under a waiting switch.
RestsOnTarget ==
    NavQuiet => navAt.id = navAt.shown \/ navGhost.stuck \/ navGhost.moved

\* An arrow is dimmed only when the query has nothing on that side of the photograph on the
\* page (set_nav_direction_available).  Rows added since may make it stale until the next
\* photograph is shown.
ArrowsTrue ==
    navGhost.blind \/ navGhost.added
        \/ \A d \in navEnds : NeighborItem(navRows, navAt.shown, d) = {}

\* The photograph changes only for a press made since the editor was last entered, or for
\* a deletion or its undo: no reply, preview or timer switches it during editing or revives
\* a cancelled switch after the editor closes (cancel_pending_navigation).
SwitchIsAsked ==
    [][navAt'.shown # navAt.shown => navGhost.asked' \/ navTrash' # navTrash]_navVars

\* Only photographs that left the query, or that the event being applied says left it, leave
\* the list; the exemption is the removal at the
\* render cursor when the library's event already took the deleted one away, and a photograph deleted again while its deletion is under way.
OnlyGoneLeave ==
    [][\A id \in ToSet(navList) \ ToSet(navList') : id \notin navRows
          \/ id \in {e.id : e \in ToSet(navEvents)} \/ navGhost'.bystander \/ navGhost.twice]_navVars

\* Every press comes to an end, with the page on the photograph it led to: the timer settles
\* the switch when the preview never arrives.
PressesEnd ==
    <>[](NavQuiet /\ (navAt.id = navAt.shown \/ navGhost.stuck \/ navGhost.moved))

\* What viewer.md promises of the waiting switch: "the UI can never get stuck on the old
\* frame".
NeverStuck == NavQuiet => navAt.id = navAt.shown \/ navGhost.moved

=============================================================================
