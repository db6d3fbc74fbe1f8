------------------------------ MODULE Overview ------------------------------
(***************************************************************************)
(* The Photos page around its grids: the overview panel fed by coalesced   *)
(* background reads, the mode selector bound to the view stack, and the    *)
(* placeholder that explains an empty library (ui/photos_page.rs,          *)
(* ui/mode_selector.rs, the throttle and the scan phase of ui/window.rs).  *)
(*                                                                         *)
(* The domain events of the sync worker and of the scan passes arrive      *)
(* through one queue in order; overview reads and the continuations of a   *)
(* scan land on the main loop on their own.                                *)
(***************************************************************************)
EXTENDS Integers, FiniteSets, Sequences

CONSTANTS OverviewBudgets    \* the scenarios

VARIABLES ovCore,    \* the live count and the newest sync run, as stored
          ovEvents,  \* domain events not yet consumed
          ovWindow,  \* the window's throttle and scan phase
          ovPage,    \* the Photos page
          ovPasses,  \* scan passes under way
          ovGhost,   \* what the page cannot know, and whose fold it was
          ovLeft     \* what the scenario still allows

ovVars == <<ovCore, ovEvents, ovWindow, ovPage, ovPasses, ovGhost, ovLeft>>

OvModes == {"year", "month", "day"}
Placeholders == {"empty", "scanning", "scan-error"}
NoSync == [status |-> "unknown", run |-> 0]
NoFlight == [stage |-> "none"]
Unavailable == -1
Synced(m) == [kind |-> "synced", mode |-> m]
SelfPending(m) == [kind |-> "self", mode |-> m]

OvSpend(what) == /\ ovLeft[what] > 0
                 /\ ovLeft' = [ovLeft EXCEPT ![what] = @ - 1]

-----------------------------------------------------------------------------
(* The view stack and the selector bound to it.                            *)

\* The selector hears of another visible child: its own write comes back, or
\* somebody else moved the stack.
SelectorNotified(w) ==
    IF w.child \notin OvModes THEN w
    ELSE IF w.last.kind = "self"
         THEN IF w.last.mode = w.child THEN [w EXCEPT !.last = Synced(w.child)] ELSE w
         ELSE IF w.last.mode = w.child THEN w
              ELSE [w EXCEPT !.active = w.child, !.last = Synced(w.child)]

\* GtkStack notifies only of a child that was not visible; the page folds the
\* panel on every switch.
SetVisibleChild(w, child) ==
    IF w.child = child THEN w
    ELSE [SelectorNotified([w EXCEPT !.child = child]) EXCEPT !.revealed = FALSE]

SetActiveIndex(w, m) ==
    IF w.active = m THEN w
    ELSE SetVisibleChild([w EXCEPT !.active = m, !.last = SelfPending(m)], m)

UpdatePlaceholderChild(w) ==
    IF w.list > 0
    THEN IF w.child \in Placeholders THEN SetVisibleChild(w, "day") ELSE w
    ELSE SetVisibleChild(w, IF w.scanning THEN "scanning"
                            ELSE IF w.scanError THEN "scan-error" ELSE "empty")

SetScanPhase(w, phase) ==
    UpdatePlaceholderChild([w EXCEPT !.scanning = phase.active,
                                     !.scanError = phase.error,
                                     !.retry = @ /\ phase.active])

-----------------------------------------------------------------------------
(* The panel.                                                              *)

AtTop(w) == w.child \in Placeholders \/ w.top[w.child]

\* Only the edge from idle to running opens the panel, and only at the top.
RevealOverviewForStartedSyncRun(w, was) ==
    IF w.running /\ ~was /\ AtTop(w) THEN [w EXCEPT !.revealed = TRUE] ELSE w

ApplyOverviewSyncIcon(w, status) ==
    RevealOverviewForStartedSyncRun([w EXCEPT !.running = status = "running"], w.running)

ApplyOverviewSnapshot(w, snapshot) ==
    LET shown == [w EXCEPT !.cached = snapshot.sync, !.counts = snapshot.count,
                           !.status = snapshot.sync.status] IN
    IF snapshot.sync.status = "off" THEN [shown EXCEPT !.running = FALSE]
    ELSE ApplyOverviewSyncIcon(shown, snapshot.sync.status)

ApplyOverviewError(w) ==
    [w EXCEPT !.counts = Unavailable, !.status = "unavailable", !.running = FALSE]

\* One read at a time; whatever is asked for meanwhile is remembered.
RefreshOverviewAsync(w, refreshSync) ==
    LET asked == [w EXCEPT !.requested = TRUE, !.syncRequested = @ \/ refreshSync] IN
    IF w.flight # NoFlight THEN asked
    ELSE [asked EXCEPT !.requested = FALSE, !.syncRequested = FALSE,
                       !.flight = [stage |-> "asked", refresh |-> asked.syncRequested,
                                   sync |-> w.cached, count |-> 0]]

NewPage(items) ==
    LET child == IF items > 0 THEN "day" ELSE "empty"
        seed == IF items > 0 THEN "day" ELSE "year" IN
    RefreshOverviewAsync(
        [list |-> items, child |-> child, active |-> seed, last |-> Synced(seed),
         revealed |-> FALSE, top |-> [m \in OvModes |-> TRUE],
         requested |-> FALSE, syncRequested |-> FALSE, flight |-> NoFlight,
         cached |-> NoSync, counts |-> Unavailable, status |-> "unknown",
         running |-> FALSE, scanning |-> FALSE, scanError |-> FALSE,
         retry |-> FALSE, cool |-> FALSE], TRUE)

OverviewInit ==
    /\ ovLeft \in OverviewBudgets
    /\ ovCore = [count |-> ovLeft.items, asked |-> FALSE,
                 sync |-> [status |-> "idle", run |-> 0]]
    /\ ovEvents = <<>>
    /\ ovWindow = [cooldown |-> FALSE, pending |-> FALSE, active |-> FALSE,
                   error |-> FALSE]
    /\ ovPage = NewPage(ovLeft.items)
    /\ ovPasses = IF ovLeft.scan THEN {[id |-> 0, retry |-> FALSE, stage |-> "new"]}
                  ELSE {}
    /\ ovGhost = [unseen |-> {}, fold |-> 0, picked |-> FALSE,
                  failed |-> FALSE, next |-> 1]

-----------------------------------------------------------------------------
(* The sync worker and the library.                                        *)

Emit(event) == ovEvents' = Append(ovEvents, event)

RunStarts ==
    /\ ovCore.sync.status = "idle" /\ (ovCore.asked \/ ovLeft.run > 0)
    /\ ovLeft' = [ovLeft EXCEPT !.run = IF ovCore.asked THEN @ ELSE @ - 1]
    /\ ovCore' = [ovCore EXCEPT !.asked = FALSE, !.sync.status = "running",
                                !.sync.run = @ + 1]
    /\ Emit("sync")
    /\ UNCHANGED <<ovWindow, ovPage, ovPasses, ovGhost>>

RunProgresses ==
    /\ ovCore.sync.status = "running" /\ OvSpend("progress")
    /\ Emit("sync")
    /\ UNCHANGED <<ovCore, ovWindow, ovPage, ovPasses, ovGhost>>

RunEnds ==
    /\ ovCore.sync.status = "running"
    /\ ovCore' = [ovCore EXCEPT !.sync.status = "idle"]
    /\ Emit("sync")
    /\ UNCHANGED <<ovWindow, ovPage, ovPasses, ovGhost, ovLeft>>

\* The sync switch, while no run is under way.
SwitchSync ==
    /\ ovCore.sync.status \in {"idle", "off"} /\ OvSpend("switch")
    /\ ovCore' = [ovCore EXCEPT !.asked = FALSE,
                                !.sync.status = IF @ = "off" THEN "idle" ELSE "off"]
    /\ Emit("sync")
    /\ UNCHANGED <<ovWindow, ovPage, ovPasses, ovGhost>>

\* A change of the live count that announces itself: a job deleted, a reset
\* finished, an account chosen or cleared.
AnnouncedChange ==
    /\ OvSpend("count")
    /\ ovCore' = [ovCore EXCEPT !.count = @ + 1]
    /\ Emit("count")
    /\ UNCHANGED <<ovWindow, ovPage, ovPasses, ovGhost>>

\* Any other change of the live count (import, trash, download) emits no
\* LiveCountDirty; only the shared list hears of it.
OrdinaryChange ==
    /\ OvSpend("ordinary")
    /\ ovCore' = [ovCore EXCEPT !.count = @ + 1]
    /\ ovGhost' = [ovGhost EXCEPT !.unseen = @ \cup {"count"}]
    /\ UNCHANGED <<ovEvents, ovWindow, ovPage, ovPasses>>

\* The shared list gains its first items or loses its last ones.
ListChanges(n) ==
    /\ n # ovPage.list /\ OvSpend("list")
    /\ ovPage' = UpdatePlaceholderChild([ovPage EXCEPT !.list = n])
    /\ ovGhost' = [ovGhost EXCEPT !.picked = FALSE]
    /\ UNCHANGED <<ovCore, ovEvents, ovWindow, ovPasses>>

-----------------------------------------------------------------------------
(* A scan pass publishes its phase around its work.                        *)

PassStarts(p) ==
    /\ p.stage = "new"
    /\ ovPasses' = (ovPasses \ {p}) \cup {[p EXCEPT !.stage = "scanning"]}
    /\ Emit("scan")
    /\ UNCHANGED <<ovCore, ovWindow, ovPage, ovGhost, ovLeft>>

AfterPass(p) ==
    (ovPasses \ {p}) \cup (IF p.retry THEN {[p EXCEPT !.stage = "done"]} ELSE {})

\* Whether the work succeeds or not.
PassEnds(p) ==
    /\ p.stage = "scanning"
    /\ ovPasses' = AfterPass(p)
    /\ \/ Emit("scanned") /\ UNCHANGED ovLeft
       \/ OvSpend("broken") /\ Emit("scan-error")
    /\ UNCHANGED <<ovCore, ovWindow, ovPage, ovGhost>>

\* The retry button of the placeholder.
RestartScan ==
    /\ ovPage.child = "scan-error" /\ ~ovPage.retry /\ OvSpend("retry")
    /\ ovPage' = [ovPage EXCEPT !.retry = TRUE]
    /\ ovPasses' = ovPasses \cup {[id |-> ovGhost.next, retry |-> TRUE, stage |-> "new"]}
    /\ ovGhost' = [ovGhost EXCEPT !.next = @ + 1]
    /\ UNCHANGED <<ovCore, ovEvents, ovWindow>>

\* The retry's continuation.
RetryLands(p) ==
    /\ p.stage = "done"
    /\ ovPasses' = ovPasses \ {p}
    /\ ovPage' = UpdatePlaceholderChild([ovPage EXCEPT !.retry = FALSE])
    /\ ovGhost' = [ovGhost EXCEPT !.picked = FALSE]
    /\ UNCHANGED <<ovCore, ovEvents, ovWindow, ovLeft>>

-----------------------------------------------------------------------------
(* The window consumes the events.                                         *)

RefreshSyncStateNow(w) == RefreshOverviewAsync(w, TRUE)

\* The leading event refreshes; the ones within the cooldown are one more.
RefreshSyncState ==
    IF ovWindow.cooldown
    THEN /\ ovWindow' = [ovWindow EXCEPT !.pending = TRUE]
         /\ UNCHANGED ovPage
    ELSE /\ ovWindow' = [ovWindow EXCEPT !.cooldown = TRUE]
         /\ ovPage' = RefreshSyncStateNow(ovPage)

NoteScanPhase(phase) ==
    /\ ovWindow' = [ovWindow EXCEPT !.active = phase.active, !.error = phase.error]
    /\ ovPage' = SetScanPhase(ovPage, phase)

Consume ==
    /\ ovEvents # <<>>
    /\ ovEvents' = Tail(ovEvents)
    /\ CASE ovEvents[1] = "sync" -> RefreshSyncState /\ UNCHANGED ovGhost
         [] ovEvents[1] = "count" ->
              /\ ovPage' = RefreshOverviewAsync(ovPage, FALSE)
              /\ UNCHANGED <<ovWindow, ovGhost>>
         [] OTHER ->
              /\ NoteScanPhase([active |-> ovEvents[1] = "scan",
                                error |-> ovEvents[1] = "scan-error"])
              /\ ovGhost' = [ovGhost EXCEPT !.picked = FALSE]
    /\ UNCHANGED <<ovCore, ovPasses, ovLeft>>

CooldownEnds_drops ==
    /\ ovWindow.cooldown
    /\ ovWindow' = [ovWindow EXCEPT !.cooldown = FALSE, !.pending = FALSE]
    /\ UNCHANGED <<ovCore, ovEvents, ovPage, ovPasses, ovGhost, ovLeft>>

CooldownEnds ==
    /\ ovWindow.cooldown
    /\ IF ovWindow.pending
       THEN /\ ovWindow' = [ovWindow EXCEPT !.pending = FALSE]
            /\ ovPage' = RefreshSyncStateNow(ovPage)
       ELSE /\ ovWindow' = [ovWindow EXCEPT !.cooldown = FALSE]
            /\ UNCHANGED ovPage
    /\ UNCHANGED <<ovCore, ovEvents, ovPasses, ovGhost, ovLeft>>

\* Photos is shown again: the window replays the phase it holds.
ReturnToPhotos ==
    /\ OvSpend("show")
    /\ ovPage' = SetScanPhase(ovPage, ovWindow)
    /\ ovGhost' = [ovGhost EXCEPT !.picked = FALSE]
    /\ UNCHANGED <<ovCore, ovEvents, ovWindow, ovPasses>>

-----------------------------------------------------------------------------
(* The overview's worker.                                                  *)

\* Sync state is read when it was asked for or none is known yet.
ReadsSync == ovPage.flight.refresh \/ ovPage.flight.sync = NoSync

ReadOverview ==
    /\ ovPage.flight.stage = "asked"
    /\ ovPage' = [ovPage EXCEPT !.flight.stage = "read", !.flight.count = ovCore.count,
                                !.flight.sync = IF ReadsSync THEN ovCore.sync ELSE @]
    /\ ovGhost' = [ovGhost EXCEPT !.unseen = @ \ ({"count"} \cup
                                     (IF ReadsSync THEN {"sync"} ELSE {}))]
    /\ UNCHANGED <<ovCore, ovEvents, ovWindow, ovPasses, ovLeft>>

FailOverview ==
    /\ ovPage.flight.stage = "asked" /\ OvSpend("fail")
    /\ ovPage' = [ovPage EXCEPT !.flight.stage = "failed"]
    /\ ovGhost' = [ovGhost EXCEPT !.unseen = {"count", "sync"}, !.failed = TRUE]
    /\ UNCHANGED <<ovCore, ovEvents, ovWindow, ovPasses>>

\* The answer is painted, and what was asked for meanwhile is read next.
OverviewLands ==
    /\ ovPage.flight.stage \in {"read", "failed"}
    /\ LET w == [ovPage EXCEPT !.flight = NoFlight]
           painted == IF ovPage.flight.stage = "read"
                      THEN ApplyOverviewSnapshot(w, ovPage.flight)
                      ELSE ApplyOverviewError(w) IN
       ovPage' = IF w.requested \/ w.syncRequested
                 THEN RefreshOverviewAsync(painted, FALSE) ELSE painted
    /\ UNCHANGED <<ovCore, ovEvents, ovWindow, ovPasses, ovGhost, ovLeft>>

-----------------------------------------------------------------------------
(* The person at the page.                                                 *)

PickMode(m) ==
    /\ OvSpend("mode")
    /\ ovPage' = SetActiveIndex(ovPage, m)
    /\ ovGhost' = [ovGhost EXCEPT !.picked = @ \/ (ovPage'.list = 0
                                                   /\ ovPage'.child \in OvModes)]
    /\ UNCHANGED <<ovCore, ovEvents, ovWindow, ovPasses>>

\* A pull at the top opens the panel and, at most every two seconds, asks the
\* sync worker for a run.
PullDown ==
    /\ ovPage.child \in OvModes /\ ovPage.top[ovPage.child] /\ OvSpend("scroll")
    /\ ovPage' = [ovPage EXCEPT !.revealed = TRUE, !.cool = TRUE]
    /\ ovCore' = [ovCore EXCEPT !.asked = @ \/ (~ovPage.cool /\ @ = FALSE
                                                /\ ovCore.sync.status # "off")]
    /\ UNCHANGED <<ovEvents, ovWindow, ovPasses, ovGhost>>

PullCooldownEnds ==
    /\ ovPage.cool
    /\ ovPage' = [ovPage EXCEPT !.cool = FALSE]
    /\ UNCHANGED <<ovCore, ovEvents, ovWindow, ovPasses, ovGhost, ovLeft>>

\* A scroll down folds the panel, and leaves the top where there is more.
ScrollDown(leaves) ==
    /\ ovPage.child \in OvModes /\ OvSpend("scroll")
    /\ ovPage' = [ovPage EXCEPT !.revealed = FALSE,
                                !.top[ovPage.child] = @ /\ ~leaves]
    /\ ovGhost' = [ovGhost EXCEPT !.fold = IF ovPage.revealed /\ ovPage.running
                                           THEN ovPage.cached.run ELSE @]
    /\ UNCHANGED <<ovCore, ovEvents, ovWindow, ovPasses>>

ScrollToTop ==
    /\ ovPage.child \in OvModes /\ ~ovPage.top[ovPage.child] /\ OvSpend("scroll")
    /\ ovPage' = [ovPage EXCEPT !.top[ovPage.child] = TRUE]
    /\ UNCHANGED <<ovCore, ovEvents, ovWindow, ovPasses, ovGhost>>

-----------------------------------------------------------------------------
OverviewNext ==
    \/ RunStarts \/ RunProgresses \/ RunEnds \/ SwitchSync
    \/ AnnouncedChange \/ OrdinaryChange
    \/ \E n \in 0..1 : ListChanges(n)
    \/ \E p \in ovPasses : PassStarts(p) \/ PassEnds(p) \/ RetryLands(p)
    \/ RestartScan \/ Consume \/ CooldownEnds \/ ReturnToPhotos
    \/ ReadOverview \/ FailOverview \/ OverviewLands
    \/ \E m \in OvModes : PickMode(m)
    \/ PullDown \/ PullCooldownEnds \/ ScrollToTop
    \/ \E leaves \in BOOLEAN : ScrollDown(leaves)

\* The main loop consumes events, timers fire, workers answer, passes end.
OverviewWork ==
    \/ Consume \/ CooldownEnds \/ ReadOverview \/ OverviewLands
    \/ \E p \in ovPasses : PassStarts(p) \/ PassEnds(p) \/ RetryLands(p)
OverviewFairness == WF_ovVars(OverviewWork)

OverviewSpec == OverviewInit /\ [][OverviewNext]_ovVars /\ OverviewFairness

-----------------------------------------------------------------------------
(* Properties.                                                             *)

OverviewRests == ovEvents = <<>> /\ ovPage.flight = NoFlight
                 /\ ~ovWindow.cooldown

\* Type invariant.
OverviewTypeOK ==
    /\ ovPage.child \in OvModes \cup Placeholders /\ ovPage.active \in OvModes
    /\ ovPage.last.kind \in {"synced", "self"} /\ ovPage.last.mode \in OvModes
    /\ ovPage.flight.stage \in {"none", "asked", "read", "failed"}
    /\ ovPage.flight = NoFlight => ~ovPage.requested /\ ~ovPage.syncRequested
    /\ ovPage.status \in {"unknown", "off", "idle", "running", "unavailable"}
    /\ ovWindow.pending => ovWindow.cooldown
    /\ \A p \in ovPasses : p.stage \in {"new", "scanning", "done"}

\* At rest the panel tells the stored truth: the sync status of the newest
\* change and the live count, however the events fell on the cooldown and on
\* a read under way (refresh_sync_state, refresh_overview_async).  The
\* exceptions are a failed read and, for the count, a change of the library
\* that emits no LiveCountDirty.
OverviewCurrent ==
    OverviewRests =>
        /\ "sync" \in ovGhost.unseen \/ ovPage.status = ovCore.sync.status
        /\ "count" \in ovGhost.unseen \/ ovPage.counts = ovCore.count

\* A panel folded during a run is not opened again by that run's later
\* progress: a landing opens it only for another run
\* (reveal_overview_for_started_sync_run); the exception is a read of the
\* sync state that failed in between.
FoldKept ==
    [][(/\ ~ovPage.revealed /\ ovPage'.revealed
        /\ ovPage.flight.stage = "read" /\ ovPage'.flight.stage # "read") =>
           ovPage'.cached.run # ovGhost.fold \/ ovGhost.failed]_ovVars

\* An empty page shows the reason it is empty, a filled one a grid
\* (update_placeholder_child); the exception is a mode picked by hand while a
\* placeholder was shown.
PlaceholderTrue ==
    IF ovPage.list > 0 THEN ovPage.child \in OvModes
    ELSE \/ ovGhost.picked
         \/ ovPage.child = IF ovPage.scanning THEN "scanning"
                           ELSE IF ovPage.scanError THEN "scan-error" ELSE "empty"

\* With no pass under way and every event consumed, the page neither says it
\* is indexing nor refuses the retry button (ScanPhase published around the
\* work, scan_retry_in_flight).
ScanPhaseEnds ==
    ovPasses = {} /\ ovEvents = <<>> => ~ovPage.scanning /\ ~ovPage.retry

\* The selector marks the mode on screen, whoever moved the stack, and never
\* waits for an echo that will not come (LastSync).
SelectorTrue ==
    /\ ovPage.child \in OvModes => ovPage.active = ovPage.child
    /\ ovPage.last = Synced(ovPage.active)

\* When the library and the sync worker come to rest so does the page.
OverviewSettles == <>[](OverviewRests /\ ovPasses = {})
=============================================================================
