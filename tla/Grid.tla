-------------------------------- MODULE Grid --------------------------------
(***************************************************************************)
(* The virtual media grid (ui/virtual_media_grid.rs and its submodules): a *)
(* list model of all the slots of a query, of which only the ranges near   *)
(* the viewport hold photos.                                               *)
(*                                                                         *)
(* Committed changes reach the GTK thread as events.  A small upsert or a  *)
(* thumbnail update of the visible page takes the incremental path         *)
(* (window.rs, apply_incremental_media_event); anything else is applied to *)
(* the bounded shared list, whose change notification schedules a full     *)
(* metadata reload.  Reload, incremental admission and range loading each  *)
(* read the database on a worker and land on the GTK thread later, in any  *)
(* order; generations tell a stale landing.                                *)
(*                                                                         *)
(* A generation is represented by whether the worker in flight still has   *)
(* the current one: a metadata worker that does not is dropped at once     *)
(* (its landing returns without an effect), an incremental or a range      *)
(* worker keeps the flag.                                                  *)
(***************************************************************************)
EXTENDS Integers, FiniteSets, Sequences, SequencesExt, FiniteSetsExt

CONSTANTS
    GridMedia,      \* photo ids, positive integers
    GridDays,       \* the calendar days 1..n a photo can fall on
    GridListCap,    \* ui_media_list_cap
    ReadyCap,       \* RECENT_READY_ITEM_CAP
    VisibleRows,    \* rows in the viewport
    Columns,        \* the column counts the grid can be given
    GridStarts,     \* initial tables: functions from GridMedia to days, 0 = no row
    GridBudgets     \* per scenario, how often each thing happens, and to which photos

VARIABLES
    rows,       \* the query: photo -> [day, ver]; day 0: not in the query
    wire,       \* DomainEvents on their way to the GTK thread
    seedList,   \* the shared media_list, as a set of items
    view,       \* [active, ready, columns, top, last, window, idle]
    model,      \* [counts, items, seen]: the VirtualMediaModel, and what GtkGridView has of it
    reload,     \* [timer, dirty, st, total, counts]: the full metadata reload
    inc,        \* [pending, timer, st, batch, resident, ranks, counts, current]
    range,      \* [flight, fresh, read, ahead, next, resident]: RangeCoordinator and its worker
    favor,      \* suppress_shared_projection_until has not passed
    missed,     \* history: [layout, items, ahead], what the code has let go of (see Missed)
    gridBudget

gridVars == <<rows, wire, seedList, view, model, reload, inc, range, favor,
              missed, gridBudget>>

GridSpend(what) == /\ gridBudget[what] > 0
                   /\ gridBudget' = [gridBudget EXCEPT ![what] = @ - 1]

Sections == GridDays \cup {0}
GridItems == [id : GridMedia, day : GridDays, ver : Nat]
NoRange == [start |-> 0, end |-> 0]
Unread == {}
NoMiss == [layout |-> FALSE, items |-> {}, ahead |-> FALSE]

(* A function as an explicit value, which TLC then computes only once.      *)
Explicit(f) == CHOOSE g \in {f} : g = g

-----------------------------------------------------------------------------
(* The query, newest first, by 0-based offset.                              *)
RowItem(m) == [id |-> m, day |-> rows[m].day, ver |-> rows[m].ver]
RowsLive == {RowItem(m) : m \in {x \in GridMedia : rows[x].day > 0}}
Newer(i, j) == i.day > j.day \/ (i.day = j.day /\ i.id > j.id)
RankIn(s, i) == Cardinality({j \in s : Newer(j, i)})
InOrder(s) == Explicit([o \in 0..(Cardinality(s) - 1) |-> CHOOSE i \in s : RankIn(s, i) = o])
Newest(s, n) == {i \in s : RankIn(s, i) < n}
CountsOf(s) == Explicit([d \in Sections |-> Cardinality({i \in s : i.day = d})])
TotalOf(c) == MapThenSumSet(LAMBDA d : c[d], Sections)

-----------------------------------------------------------------------------
(* VirtualGridLayoutIndex: one span per non-empty section, newest first,    *)
(* padded with fillers to complete rows.                                    *)
AlignedSlotLen(n, cols) == IF n % cols = 0 THEN n ELSE n + cols - (n % cols)

NewestFirst == [k \in 1..Cardinality(Sections) |-> Cardinality(Sections) - k]
MediaIn(counts, keys) == MapThenSumSet(LAMBDA d : counts[d], keys)
SlotsIn(counts, cols, keys) == MapThenSumSet(LAMBDA d : AlignedSlotLen(counts[d], cols), keys)

Layout(counts, cols) ==
    LET keys == SelectSeq(NewestFirst, LAMBDA d : counts[d] > 0)
        newer(k) == {keys[j] : j \in 1..(k - 1)}
    IN  Explicit([k \in DOMAIN keys |->
            [key    |-> keys[k],
             mstart |-> MediaIn(counts, newer(k)),
             mlen   |-> counts[keys[k]],
             sstart |-> SlotsIn(counts, cols, newer(k)),
             slen   |-> AlignedSlotLen(counts[keys[k]], cols)]])

MediaCount(spans) == MapThenSumSet(LAMBDA k : spans[k].mlen, DOMAIN spans)
SlotCount(spans) == MapThenSumSet(LAMBDA k : spans[k].slen, DOMAIN spans)

(* insert_media_slot: the section grows by one slot, its last row is not    *)
(* realigned yet, the later sections shift.                                 *)
InsertMediaSlot(spans, k) ==
    Explicit([j \in DOMAIN spans |->
        CASE j < k -> spans[j]
          [] j = k -> [spans[j] EXCEPT !.mlen = @ + 1, !.slen = @ + 1]
          [] OTHER -> [spans[j] EXCEPT !.mstart = @ + 1, !.sstart = @ + 1]])

SpanOfSlot(spans, p) ==
    CHOOSE k \in DOMAIN spans : spans[k].sstart <= p /\ p < spans[k].sstart + spans[k].slen
SpanOfOffset(spans, o) ==
    CHOOSE k \in DOMAIN spans : spans[k].mstart <= o /\ o < spans[k].mstart + spans[k].mlen

SlotForMediaOffset(spans, o) ==
    LET s == spans[SpanOfOffset(spans, o)] IN s.sstart + (o - s.mstart)

(* slot_at: a media offset, or filler number -1, -2, ... of the section.    *)
SlotAt(spans, p) ==
    LET s == spans[SpanOfSlot(spans, p)]
        n == p - s.sstart
    IN  [key |-> s.key, offset |-> IF n < s.mlen THEN s.mstart + n ELSE s.mlen - n - 1]

AnchorForSlot(spans, p) ==
    LET s == spans[SpanOfSlot(spans, p)]
        n == p - s.sstart
    IN  IF n < s.mlen THEN s.mstart + n ELSE s.mstart + s.mlen - 1

-----------------------------------------------------------------------------
(* VirtualMediaModel.  A slot's state is Filler, Placeholder or Ready.      *)
SlotState(spans, items, p) ==
    LET at == SlotAt(spans, p)
    IN  [slot |-> p, at |-> at,
         item |-> IF at.offset \in DOMAIN items THEN {items[at.offset]} ELSE {}]

AllSlots(spans, items) ==
    Explicit([p \in 1..SlotCount(spans) |-> SlotState(spans, items, p - 1)])

(* items_changed(pos, removed, added): the view drops `removed` objects and *)
(* asks the model for the states of the added positions.                    *)
ItemsChanged(seen, spans, items, pos, removed, added) ==
    SubSeq(seen, 1, pos)
        \o [k \in 1..added |-> SlotState(spans, items, pos + k - 1)]
        \o SubSeq(seen, pos + removed + 1, Len(seen))

(* emit_replacements for the slots of the given offsets.                    *)
EmitReplacements(seen, spans, items, offsets) ==
    Explicit([p \in DOMAIN seen |->
        IF SlotAt(spans, p - 1).offset \in offsets
        THEN SlotState(spans, items, p - 1) ELSE seen[p]])

(* remap_slot_objects: an object the view holds moves with its photo or its *)
(* filler number, and its snapshot is rewritten in place.                   *)
NewSlots(from, to, p, shift) ==
    LET at == SlotAt(from, p)
        offset == IF at.offset >= shift THEN at.offset + 1 ELSE at.offset
    IN  {q \in 0..(SlotCount(to) - 1) :
            /\ SlotAt(to, q).offset = offset
            /\ at.offset < 0 => SlotAt(to, q).key = at.key}

RemapSlotObjects(seen, from, to, items, shift) ==
    Explicit([p \in DOMAIN seen |->
        LET new == NewSlots(from, to, p - 1, shift)
        IN  IF new = {} THEN seen[p] ELSE SlotState(to, items, Min(new))])

ShiftedItems(items, offset, item) ==
    Explicit([o \in {IF x >= offset THEN x + 1 ELSE x : x \in DOMAIN items} \cup {offset} |->
        CASE o = offset -> item
          [] o > offset -> items[o - 1]
          [] OTHER -> items[o]])

(* insert_ready_item: one media slot against a transient layout, then the   *)
(* fillers; a new section comes as one run.                                 *)
Unshifted == 1 + Cardinality(GridMedia)

TrailingFillers(seen, spans, items, before, after) ==
    CASE after < before -> ItemsChanged(seen, spans, items, before - 1, 1, 0)
      [] after > before -> ItemsChanged(seen, spans, items, before, 0, after - before)
      [] OTHER -> seen

InsertReadyItem(m, cols, offset, item, key) ==
    LET old == Layout(m.counts, cols)
        counts == [m.counts EXCEPT ![key] = @ + 1]
        new == Layout(counts, cols)
        k == SpanOfOffset(new, offset)
        start == SlotForMediaOffset(new, offset)
        items == ShiftedItems(m.items, offset, item)
        same == {j \in DOMAIN old : old[j].key = key}
        transient == InsertMediaSlot(old, Min(same))
        moved == RemapSlotObjects(m.seen, old, transient, items, offset)
        added == ItemsChanged(moved, transient, items, start, 0, 1)
        settled == RemapSlotObjects(added, transient, new, items, Unshifted)
        before == transient[Min(same)].sstart + transient[Min(same)].slen
        after == new[k].sstart + new[k].slen
    IN  [counts |-> counts,
         items  |-> items,
         seen   |-> IF same = {}
                    THEN ItemsChanged(RemapSlotObjects(m.seen, old, new, items, offset),
                                      new, items, start, 0, new[k].slen)
                    ELSE TrailingFillers(settled, new, items, before, after)]

-----------------------------------------------------------------------------
(* RangeCoordinator.  The resident ranges are merged when they touch, so    *)
(* they are represented by the set of their offsets.                        *)
Offsets(r) == r.start..(r.end - 1)
Covers(r, s) == r.start <= s.start /\ r.end >= s.end

FirstUncovered(resident, r) ==
    LET start == Min(Offsets(r) \ resident)
        stops == {o \in Offsets(r) : o > start /\ o \in resident}
    IN  [start |-> start, end |-> IF stops = {} THEN r.end ELSE Min(stops)]

Request(g, r) ==
    LET gap == FirstUncovered(g.resident, r)
    IN  IF \/ Offsets(r) \subseteq g.resident
           \/ Covers(g.flight, gap) \/ Covers(g.next, gap)
        THEN g
        ELSE IF g.flight # NoRange THEN [g EXCEPT !.next = gap]
        ELSE [g EXCEPT !.flight = gap, !.fresh = TRUE, !.read = Unread]

Invalidate(g) == [g EXCEPT !.fresh = FALSE, !.next = NoRange, !.resident = {}]

ExpandedVisibleRange(start, end, total, forward) ==
    LET n == end - start
        before == IF forward THEN n ELSE 2 * n
        after == IF forward THEN 2 * n ELSE n
    IN  IF n = 0 \/ total = 0 THEN NoRange
        ELSE [start |-> Min({Max({start - before, 0}), total}),
              end   |-> Min({end + after, total})]

(* visible_media_range and schedule_visible_range.                          *)
Spans == Layout(model.counts, view.columns)

AfterVisibleRange(v, m, g) ==
    LET spans == Layout(m.counts, v.columns)
        slots == SlotCount(spans)
        first == Min({v.top, slots - 1})
        lastSlot == Min({first + (VisibleRows + 1) * v.columns - 1, slots - 1})
        window == ExpandedVisibleRange(AnchorForSlot(spans, first),
                                       AnchorForSlot(spans, lastSlot) + 1,
                                       TotalOf(m.counts), v.top >= v.last)
    IN  IF ~v.active \/ ~v.ready \/ slots = 0 THEN <<v, g>>
        ELSE <<[v EXCEPT !.last = v.top, !.window = window], Request(g, window)>>

-----------------------------------------------------------------------------
(* Reloads and replacements of the layout.                                  *)
SeedLimit(v) == v.columns * (VisibleRows + 1) * 4

SeedOf(list, v, total) ==
    InOrder(Newest(list, Min({Cardinality(list), total, SeedLimit(v)})))

(* The media anchor of the top row keeps its place, clamped to the end.     *)
RestoredTop(old, top, new, cols) ==
    LET anchor == AnchorForSlot(old, Min({top, SlotCount(old) - 1}))
        slot == SlotForMediaOffset(new, Min({anchor, MediaCount(new) - 1}))
    IN  IF SlotCount(old) = 0 \/ SlotCount(new) = 0 THEN 0 ELSE slot - (slot % cols)

ReplaceLayout(v, m, g, counts, items) ==
    LET new == Layout(counts, v.columns)
        kept == Explicit([o \in {x \in DOMAIN items : x < MediaCount(new)} |-> items[o]])
    IN  [view  |-> [v EXCEPT !.idle = TRUE,
                             !.top = RestoredTop(Layout(m.counts, v.columns), v.top, new, v.columns)],
         model |-> [counts |-> counts, items |-> kept, seen |-> AllSlots(new, kept)],
         range |-> Invalidate(g)]

NoReload == [timer |-> FALSE, dirty |-> FALSE, st |-> "none", total |-> 0, counts |-> <<>>]

ScheduleReload(r, active) ==
    IF active THEN [r EXCEPT !.timer = TRUE] ELSE [r EXCEPT !.dirty = TRUE]

(* reload_metadata_now.                                                     *)
ReloadNow_busy(r, active) ==
    IF ~active THEN [r EXCEPT !.dirty = TRUE]
    ELSE IF r.st # "none" THEN r
    ELSE [r EXCEPT !.dirty = FALSE, !.st = "count"]

ReloadNow(r, active) ==
    IF ~active \/ r.st # "none" THEN [r EXCEPT !.dirty = TRUE]
    ELSE [r EXCEPT !.dirty = FALSE, !.st = "count"]

NoInc == [pending |-> {}, timer |-> FALSE, st |-> "none", batch |-> {},
          resident |-> {}, ranks |-> <<>>, counts |-> <<>>, current |-> FALSE]

(* new_for_query with initial_active: seeded, first reload on its way.      *)
GridInit ==
    \E start \in GridStarts, budget \in GridBudgets : \E cols \in budget.cols :
        LET live == {[id |-> m, day |-> start[m], ver |-> 0] : m \in {x \in GridMedia : start[x] > 0}}
            v == [active |-> TRUE, ready |-> FALSE, columns |-> cols, top |-> 0,
                  last |-> 0, window |-> NoRange, idle |-> TRUE]
            seed == SeedOf(Newest(live, GridListCap), v, Cardinality(GridMedia))
            counts == CountsOf({seed[o] : o \in DOMAIN seed})
        IN  /\ rows = [m \in GridMedia |-> [day |-> start[m], ver |-> 0]]
            /\ wire = <<>>
            /\ seedList = Newest(live, GridListCap)
            /\ view = v
            /\ model = [counts |-> counts, items |-> seed,
                        seen |-> AllSlots(Layout(counts, cols), seed)]
            /\ reload = [NoReload EXCEPT !.st = "count"]
            /\ inc = NoInc
            /\ range = [flight |-> NoRange, fresh |-> FALSE, read |-> Unread, ahead |-> FALSE,
                        next |-> NoRange, resident |-> {}]
            /\ favor = FALSE
            /\ missed = NoMiss
            /\ gridBudget = budget

-----------------------------------------------------------------------------
(* Commits.  The event carries the committed row.                           *)
gtkVars == <<seedList, view, model, reload, inc, range, favor, missed>>

Committed(m, row, kind) ==
    /\ rows' = [rows EXCEPT ![m] = row]
    /\ wire' = Append(wire, [kind |-> kind,
                             item |-> [id |-> m, day |-> row.day, ver |-> row.ver]])

(* A photo enters the query, or an existing one is written again: by the    *)
(* watcher, an import or the receiver ("upsert"), or in bulk ("scan").  The *)
(* kinds Inserted and Upsert make no difference: resolve_inserted_kinds     *)
(* demands a count delta of all of them.                                    *)
UpsertRow(kind, m, day) ==
    /\ GridSpend("upserts")
    /\ kind \in gridBudget.kinds /\ m \in gridBudget.photos
    /\ Committed(m, [day |-> day, ver |-> rows[m].ver + 1], kind)
    /\ UNCHANGED gtkVars

RemoveRow(m) ==
    /\ GridSpend("removals")
    /\ m \in gridBudget.photos
    /\ rows[m].day > 0
    /\ rows' = [rows EXCEPT ![m].day = 0]
    /\ wire' = Append(wire, [kind |-> "removed", item |-> RowItem(m)])
    /\ UNCHANGED gtkVars

(* A download or the pipeline changes what the tile of a row shows.         *)
UpdateThumbnail(m) ==
    /\ GridSpend("thumbs")
    /\ m \in gridBudget.photos
    /\ rows[m].day > 0
    /\ Committed(m, [rows[m] EXCEPT !.ver = @ + 1], "updated")
    /\ UNCHANGED gtkVars

(* set_favorite_for_ids: the grid is told to expect the change.             *)
SetFavorite(m) ==
    /\ GridSpend("favorites")
    /\ m \in gridBudget.photos
    /\ rows[m].day > 0
    /\ Committed(m, [rows[m] EXCEPT !.ver = @ + 1], "favorite")
    /\ favor' = TRUE
    /\ UNCHANGED <<seedList, view, model, reload, inc, range, missed>>

SuppressionEnds ==
    /\ favor
    /\ favor' = FALSE
    /\ UNCHANGED <<rows, wire, seedList, view, model, reload, inc, range, missed, gridBudget>>

-----------------------------------------------------------------------------
(* Events on the GTK thread.                                                *)
(* apply_to_media_list, and whether the list announces a change.            *)
Others(l, i) == {e \in l : e.id # i.id}
ListAfter(l, e) ==
    CASE e.kind = "removed" -> Others(l, e.item)
      [] e.kind = "scan" /\ Cardinality(l) >= GridListCap -> l
      [] OTHER -> Newest(Others(l, e.item) \cup {e.item}, GridListCap)
Signalled(l, e) == l # ListAfter(l, e)

(* A change the grid is not told of, or decides to forget, is recorded in   *)
(* missed until the next full reload starts.                                *)
Missed(layout, ids) ==
    missed' = [missed EXCEPT !.layout = @ \/ layout, !.items = @ \cup ids]

(* A range read before the change, still to land.                           *)
Raced(i) == /\ range.fresh
            /\ \E page \in range.read : \E o \in DOMAIN page :
                  page[o].id = i.id /\ page[o].ver # i.ver

Stronger(k, l) == IF "upsert" \in {k, l} THEN "upsert" ELSE "updated"

Queue(pending, e) ==
    {p \in pending : p.item.id # e.item.id}
        \cup {[item |-> e.item,
               kind |-> IF \E p \in pending : p.item.id = e.item.id
                        THEN Stronger(e.kind, (CHOOSE p \in pending : p.item.id = e.item.id).kind)
                        ELSE e.kind]}

(* begin_incremental_item_update; the list is changed with its notification *)
(* suppressed.                                                              *)
BeginIncremental(e) ==
    IF ~view.active \/ ~view.ready \/ reload.st # "none"
    THEN reload' = ScheduleReload(reload, view.active) /\ UNCHANGED inc
    ELSE /\ inc' = [inc EXCEPT !.pending = Queue(@, e),
                               !.timer = @ \/ inc.st = "none"]
         /\ UNCHANGED reload

DispatchIncremental(e) ==
    /\ e.kind \in {"upsert", "updated"}
    /\ BeginIncremental(e)
    /\ UNCHANGED <<model, missed>>

(* handle_shared_projection_items_changed.                                  *)
DispatchShared(e) ==
    /\ e.kind \in {"removed", "scan"}
    /\ reload' = IF Signalled(seedList, e) /\ ~favor
                 THEN ScheduleReload(reload, view.active) ELSE reload
    /\ Missed(~Signalled(seedList, e) \/ favor, {})
    /\ UNCHANGED <<model, inc>>

(* The favorite event, and the batch's result right behind it: the resident *)
(* snapshots change in place (update_favorite_flags).                       *)
DispatchFavorite(e) ==
    LET at == {o \in DOMAIN model.items : model.items[o].id = e.item.id}
        items == [o \in DOMAIN model.items |->
                    IF o \in at THEN [model.items[o] EXCEPT !.ver = e.item.ver] ELSE model.items[o]]
    IN  /\ e.kind = "favorite"
        /\ reload' = IF Signalled(seedList, e) /\ ~favor
                     THEN ScheduleReload(reload, view.active) ELSE reload
        /\ model' = [model EXCEPT !.items = items,
                                  !.seen = EmitReplacements(@, Spans, items, at)]
        /\ Missed(FALSE, IF Raced(e.item) THEN {e.item.id} ELSE {})
        /\ UNCHANGED inc

GridDispatch ==
    /\ wire # <<>>
    /\ wire' = Tail(wire)
    /\ seedList' = ListAfter(seedList, wire[1])
    /\ \/ DispatchIncremental(wire[1])
       \/ DispatchShared(wire[1])
       \/ DispatchFavorite(wire[1])
    /\ UNCHANGED <<rows, view, range, favor, gridBudget>>

-----------------------------------------------------------------------------
(* The full reload: a COUNT, then the date groups, then the landing.        *)
ReloadStarts(r) ==
    /\ reload' = r
    /\ missed' = IF r.st # reload.st THEN NoMiss ELSE missed
    /\ inc' = IF r.st # reload.st THEN [inc EXCEPT !.current = FALSE] ELSE inc

ReloadTimer ==
    /\ reload.timer
    /\ ReloadStarts(ReloadNow([reload EXCEPT !.timer = FALSE], view.active))
    /\ UNCHANGED <<rows, wire, seedList, view, model, range, favor, gridBudget>>

ReadCount ==
    /\ reload.st = "count"
    /\ reload' = [reload EXCEPT !.st = "groups", !.total = Cardinality(RowsLive)]
    /\ UNCHANGED <<rows, wire, seedList, view, model, inc, range, favor, missed, gridBudget>>

(* normalise_authoritative_counts: rows the groups do not explain go to the *)
(* unknown section, for the time being.                                     *)
NormaliseCounts(total, counts) ==
    [counts EXCEPT ![0] = @ + Max({total, TotalOf(counts)}) - TotalOf(counts)]

ReadGroups ==
    /\ reload.st = "groups"
    /\ reload' = [reload EXCEPT !.st = "land",
                                !.counts = NormaliseCounts(reload.total, CountsOf(RowsLive))]
    /\ UNCHANGED <<rows, wire, seedList, view, model, inc, range, favor, missed, gridBudget>>

(* apply_authoritative_metadata, and the reload asked for meanwhile.        *)
AfterReload(r) ==
    IF r.dirty THEN ScheduleReload(NoReload, view.active)
    ELSE [NoReload EXCEPT !.timer = r.timer]

LandMetadata ==
    LET new == ReplaceLayout(view, model, range, reload.counts,
                             SeedOf(seedList, view, TotalOf(reload.counts)))
    IN  /\ reload.st = "land"
        /\ view' = [new.view EXCEPT !.ready = TRUE]
        /\ model' = new.model
        /\ range' = new.range
        /\ reload' = AfterReload(reload)
        /\ UNCHANGED <<rows, wire, seedList, inc, favor, missed, gridBudget>>

(* A failed query changes nothing but the flags.                            *)
MetadataFails ==
    /\ GridSpend("fails")
    /\ reload.st \in {"count", "groups"}
    /\ reload' = AfterReload(reload)
    /\ missed' = [missed EXCEPT !.layout = TRUE]
    /\ UNCHANGED <<rows, wire, seedList, view, model, inc, range, favor>>

-----------------------------------------------------------------------------
(* Incremental admission.                                                   *)
ResidentAt(m) == {o \in DOMAIN model.items : model.items[o].id = m}

(* load_incremental_item_update: thumbnail updates are settled in memory,   *)
(* the rest goes to a worker.                                               *)
UpdatedItems(batch) ==
    Explicit([o \in DOMAIN model.items |->
        LET u == {p \in batch : p.kind = "updated" /\ p.item.id = model.items[o].id}
        IN  IF u = {} THEN model.items[o] ELSE (CHOOSE p \in u : TRUE).item])

LoadIncremental ==
    LET batch == inc.pending
        admissions == {p \in batch : p.kind # "updated"}
        items == UpdatedItems(batch)
        raced == {p.item.id : p \in {q \in batch \ admissions : Raced(q.item)}}
    IN  /\ inc.timer
        /\ IF ~view.active \/ reload.st # "none"
           THEN /\ inc' = [inc EXCEPT !.timer = FALSE, !.pending = {}]
                /\ reload' = ScheduleReload(reload, view.active)
                /\ UNCHANGED <<model, missed>>
           ELSE /\ model' = [model EXCEPT !.items = items,
                                 !.seen = EmitReplacements(@, Spans, items,
                                     {o \in DOMAIN items : items[o] # model.items[o]})]
                /\ Missed(FALSE, raced)
                /\ inc' = IF admissions = {} THEN [inc EXCEPT !.timer = FALSE, !.pending = {}]
                          ELSE [inc EXCEPT !.timer = FALSE, !.pending = {}, !.st = "rank",
                                           !.batch = admissions, !.current = TRUE,
                                           !.resident = {p.item.id : p \in admissions}
                                                            \cap {items[o].id : o \in DOMAIN items}]
                /\ UNCHANGED reload
        /\ UNCHANGED <<rows, wire, seedList, view, range, favor, gridBudget>>

(* The worker: positions_in_order, then the groups unless nothing matched.  *)
ReadRanks ==
    LET found == {p.item.id : p \in inc.batch} \cap {i.id : i \in RowsLive}
    IN  /\ inc.st = "rank"
        /\ inc' = [inc EXCEPT !.ranks = [m \in found |-> RankIn(RowsLive, RowItem(m))],
                              !.st = IF found = {} THEN "land" ELSE "groups"]
        /\ UNCHANGED <<rows, wire, seedList, view, model, reload, range, favor, missed, gridBudget>>

ReadIncGroups ==
    /\ inc.st = "groups"
    /\ inc' = [inc EXCEPT !.counts = CountsOf(RowsLive), !.st = "land"]
    /\ UNCHANGED <<rows, wire, seedList, view, model, reload, range, favor, missed, gridBudget>>

IncIdle(pending, timer) == [NoInc EXCEPT !.pending = pending, !.timer = timer]

(* Photos that are resident at their rank are taken for replays.            *)
Claims == {p \in inc.batch : /\ p.item.id \in DOMAIN inc.ranks
                             /\ inc.ranks[p.item.id] \notin ResidentAt(p.item.id)}
Rank(p) == inc.ranks[p.item.id]
SectionOf(counts, o) == LET spans == Layout(counts, view.columns)
                        IN  spans[SpanOfOffset(spans, o)].key

(* The section counts once the claims up to rank o are in.                  *)
CountsUpTo(o) ==
    Explicit([d \in Sections |-> model.counts[d] +
        Cardinality({p \in Claims : Rank(p) <= o /\ SectionOf(inc.counts, Rank(p)) = d})])

(* The claims, and nothing else, turn the layout into the one just read.    *)
Explained ==
    /\ \A m \in inc.resident : m \in DOMAIN inc.ranks
    /\ TotalOf(inc.counts) - TotalOf(model.counts) = Cardinality(Claims)
    /\ \A p \in Claims :
         /\ Rank(p) < TotalOf(inc.counts)
         /\ Rank(p) < TotalOf(CountsUpTo(Rank(p)))
         /\ SectionOf(CountsUpTo(Rank(p)), Rank(p)) = SectionOf(inc.counts, Rank(p))
    /\ CountsUpTo(TotalOf(inc.counts)) = inc.counts

InsertClaim(m, o) ==
    InsertReadyItem(m, view.columns, o, (CHOOSE p \in Claims : Rank(p) = o).item,
                    SectionOf(inc.counts, o))

ApplyClaims ==
    LET new == FoldLeft(InsertClaim, model, SetToSortSeq({Rank(p) : p \in Claims}, <))
    IN  /\ model' = new
        /\ range' = [Invalidate(range) EXCEPT !.resident = DOMAIN new.items]
        /\ view' = [view EXCEPT !.idle = TRUE]

(* A replay that changes the snapshot, or that hides a count, is forgotten. *)
Replays == {p \in inc.batch : /\ p.item.id \in DOMAIN inc.ranks
                              /\ Rank(p) \in ResidentAt(p.item.id)}
Forgotten == {p.item.id : p \in {q \in Replays : model.items[Rank(q)] # q.item}}

(* Events that arrived during the query: latest snapshot, strongest claim.  *)
Coalesced == {IF \E q \in inc.pending : q.item.id = p.item.id
              THEN LET q == CHOOSE q \in inc.pending : q.item.id = p.item.id
                   IN  [q EXCEPT !.kind = Stronger(@, p.kind)]
              ELSE p : p \in inc.batch}
             \cup {q \in inc.pending : \A p \in inc.batch : p.item.id # q.item.id}

LandIncremental ==
    /\ inc.st = "land"
    /\ CASE inc.pending # {} ->
              /\ inc' = IncIdle(Coalesced, TRUE)
              /\ UNCHANGED <<model, range, view, reload, missed>>
         [] inc.pending = {} /\ inc.ranks = <<>> ->
              /\ inc' = NoInc
              /\ UNCHANGED <<model, range, view, reload, missed>>
         [] inc.pending = {} /\ inc.ranks # <<>> /\ inc.current /\ view.active
              /\ (\A m \in inc.resident : m \in DOMAIN inc.ranks) /\ Claims = {} ->
              /\ inc' = NoInc
              /\ Missed(inc.counts # model.counts \/ missed.ahead, Forgotten)
              /\ UNCHANGED <<model, range, view, reload>>
         [] inc.pending = {} /\ inc.ranks # <<>> /\ inc.current /\ view.active
              /\ Claims # {} /\ Explained ->
              /\ inc' = NoInc
              /\ ApplyClaims
              /\ Missed(missed.ahead, Forgotten)
              /\ UNCHANGED reload
         [] OTHER ->
              /\ inc' = NoInc
              /\ reload' = ScheduleReload(reload, view.active)
              /\ UNCHANGED <<model, range, view, missed>>
    /\ UNCHANGED <<rows, wire, seedList, favor, gridBudget>>

-----------------------------------------------------------------------------
(* Ranges.                                                                  *)
VisibleRange ==
    LET next == AfterVisibleRange([view EXCEPT !.idle = FALSE], model, range)
    IN  /\ view.idle
        /\ view' = next[1]
        /\ range' = next[2]
        /\ UNCHANGED <<rows, wire, seedList, model, reload, inc, favor, missed, gridBudget>>

Scroll(t) ==
    LET next == AfterVisibleRange([view EXCEPT !.top = t], model, range)
    IN  /\ GridSpend("scrolls")
        /\ view.active /\ t # view.top
        /\ t < SlotCount(Spans) /\ t % view.columns = 0
        /\ view' = next[1]
        /\ range' = next[2]
        /\ UNCHANGED <<rows, wire, seedList, model, reload, inc, favor, missed>>

(* A committed photo has not been admitted yet: the page read now is ahead  *)
(* of the layout.                                                           *)
Admitting == inc.pending # {} \/ inc.st # "none" \/ \E e \in Range(wire) : e.kind = "upsert"

ReadRange ==
    LET all == InOrder(RowsLive)
    IN  /\ range.flight # NoRange /\ range.read = Unread
        /\ range' = [range EXCEPT !.ahead = Admitting, !.read = {[o \in Offsets(range.flight) \cap DOMAIN all |-> all[o]]}]
        /\ UNCHANGED <<rows, wire, seedList, view, model, reload, inc, favor, missed, gridBudget>>

(* evict_to_capacity: the ready photos farthest from the window go first.   *)
Distance(o, keep) == IF o < keep.start THEN keep.start - o ELSE o - (keep.end - 1)
Farther(o, p, keep) == \/ Distance(o, keep) > Distance(p, keep)
                       \/ Distance(o, keep) = Distance(p, keep) /\ o > p
Evicted(offsets, keep) ==
    LET out == offsets \ Offsets(keep)
    IN  {o \in out : Cardinality({p \in out : Farther(p, o, keep)}) < Cardinality(offsets) - ReadyCap}

(* replace_ready_range: offsets of the range the page does not fill lose    *)
(* their photo.                                                             *)
WithRange(items, read, r) ==
    Explicit([o \in (DOMAIN items \ Offsets(r)) \cup {x \in DOMAIN read : x < TotalOf(model.counts)} |->
        IF o \in DOMAIN read THEN read[o] ELSE items[o]])

Retained(g, keep) == [g EXCEPT !.resident = @ \cap Offsets(keep)]

(* finish, and what is wanted next.                                         *)
Redriven(g) == LET done == [g EXCEPT !.flight = NoRange, !.next = NoRange, !.read = Unread,
                                     !.fresh = FALSE, !.ahead = FALSE]
               IN  IF g.next # NoRange THEN Request(done, g.next)
                   ELSE IF view.window # NoRange THEN Request(done, view.window) ELSE done

LandRange ==
    \E page \in range.read :
    LET items == WithRange(model.items, page, range.flight)
        out == Evicted(DOMAIN items, view.window)
        kept == Explicit([o \in DOMAIN items \ out |-> items[o]])
        changed == {o \in DOMAIN kept \cup DOMAIN model.items :
                       \/ o \notin DOMAIN kept \cap DOMAIN model.items
                       \/ kept[o] # model.items[o]}
        resident == [range EXCEPT !.resident = @ \cup Offsets(range.flight)]
    IN  /\ IF range.fresh
           THEN /\ model' = [model EXCEPT !.items = kept,
                                          !.seen = EmitReplacements(@, Spans, kept, changed)]
                /\ range' = Redriven(Retained(resident, view.window))
                /\ missed' = [missed EXCEPT !.ahead = @ \/ range.ahead]
           ELSE range' = Redriven(range) /\ UNCHANGED <<model, missed>>
        /\ UNCHANGED <<rows, wire, seedList, view, reload, inc, favor, gridBudget>>

FailRange ==
    /\ GridSpend("fails")
    /\ range.flight # NoRange /\ range.read = Unread
    /\ range' = Redriven(range)
    /\ UNCHANGED <<rows, wire, seedList, view, model, reload, inc, favor, missed>>

-----------------------------------------------------------------------------
(* set_active.  The metadata worker of a page that leaves is dropped; its   *)
(* reload is forgotten unless another one is owed.                          *)
Deactivate ==
    /\ GridSpend("switches")
    /\ view.active
    /\ view' = [view EXCEPT !.active = FALSE]
    /\ range' = Invalidate(range)
    /\ reload' = [NoReload EXCEPT !.timer = reload.timer, !.dirty = reload.dirty]
    /\ inc' = [inc EXCEPT !.current = FALSE]
    /\ Missed(reload.st # "none" /\ view.ready /\ ~reload.dirty /\ ~reload.timer, {})
    /\ UNCHANGED <<rows, wire, seedList, model, favor>>

(* seed_provisional_items until the first reload has landed.                *)
Activate ==
    LET seed == SeedOf(seedList, view, Cardinality(GridMedia))
        new == ReplaceLayout(view, model, range, CountsOf({seed[o] : o \in DOMAIN seed}), seed)
        seeded == ~view.ready /\ seed # <<>>
    IN  /\ ~view.active
        /\ view' = [(IF seeded THEN new.view ELSE view) EXCEPT !.active = TRUE, !.idle = TRUE]
        /\ model' = IF seeded THEN new.model ELSE model
        /\ range' = IF seeded THEN new.range ELSE range
        /\ ReloadStarts(IF reload.dirty \/ ~view.ready THEN ReloadNow(reload, TRUE) ELSE reload)
        /\ UNCHANGED <<rows, wire, seedList, favor, gridBudget>>

(* set_grid_columns: the loaded photos keep their offsets.                  *)
SetColumns(c) ==
    LET new == Layout(model.counts, c)
    IN  /\ GridSpend("columns")
        /\ c # view.columns
        /\ view' = [view EXCEPT !.columns = c, !.idle = TRUE,
                                !.top = RestoredTop(Spans, view.top, new, c)]
        /\ model' = [model EXCEPT !.seen = AllSlots(new, model.items)]
        /\ UNCHANGED <<rows, wire, seedList, reload, inc, range, favor, missed>>

Slots == 0..(2 * Cardinality(GridMedia))

GridWork ==
    \/ GridDispatch \/ ReloadTimer \/ ReadCount \/ ReadGroups \/ LandMetadata
    \/ LoadIncremental \/ ReadRanks \/ ReadIncGroups \/ LandIncremental
    \/ VisibleRange \/ ReadRange \/ LandRange

GridNext ==
    \/ \E kind \in {"upsert", "scan"}, m \in GridMedia, d \in GridDays : UpsertRow(kind, m, d)
    \/ \E m \in GridMedia : RemoveRow(m) \/ UpdateThumbnail(m) \/ SetFavorite(m)
    \/ SuppressionEnds
    \/ GridWork
    \/ MetadataFails \/ FailRange
    \/ \E t \in Slots : Scroll(t)
    \/ Deactivate \/ Activate
    \/ \E c \in Columns : SetColumns(c)

(* Nothing left to do on the GTK thread or on a worker: GridWork is not   *)
(* enabled.                                                                 *)
GridQuiet == /\ wire = <<>> /\ ~reload.timer /\ reload.st = "none"
             /\ ~inc.timer /\ inc.st = "none" /\ ~view.idle /\ range.flight = NoRange

(* Weak fairness of GridWork: timers fire, workers answer, the main loop    *)
(* runs.                                                                    *)
GridFairness == []<>GridQuiet \/ []<><<GridWork>>_gridVars

GridSpec == GridInit /\ [][GridNext]_gridVars /\ GridFairness

-----------------------------------------------------------------------------
GridTypeOK ==
    /\ rows \in [GridMedia -> [day : GridDays \cup {0}, ver : Nat]]
    /\ \A e \in Range(wire) : e.kind \in {"upsert", "scan", "removed", "updated", "favorite"}
                              /\ e.item \in GridItems
    /\ seedList \subseteq GridItems /\ Cardinality(seedList) <= GridListCap
    /\ view.columns \in Columns /\ view.top \in Nat
    /\ DOMAIN model.counts = Sections /\ \A d \in Sections : model.counts[d] \in Nat
    /\ \A o \in DOMAIN model.items : o \in Nat /\ model.items[o] \in GridItems
    /\ reload.st \in {"none", "count", "groups", "land"}
    /\ inc.st \in {"none", "rank", "groups", "land"}
    /\ inc.timer <=> inc.st = "none" /\ inc.pending # {}
    /\ range.next # NoRange => range.flight # NoRange

(* GtkGridView has, slot by slot, what the model would answer: every        *)
(* replacement, insertion and removal was announced at the right place,     *)
(* the transient layout of insert_ready_item included.                      *)
ConsumerAgrees == model.seen = AllSlots(Spans, model.items)

(* A loaded photo always has a slot, each offset has exactly one, sections  *)
(* begin and end at row boundaries (VirtualGridLayoutIndex::new).           *)
SlotsAligned ==
    /\ \A k \in DOMAIN Spans : Spans[k].sstart % view.columns = 0 /\ Spans[k].slen % view.columns = 0
    /\ \A o \in 0..(TotalOf(model.counts) - 1) :
         Cardinality({p \in DOMAIN model.seen : model.seen[p].at.offset = o}) = 1
    /\ \A o \in DOMAIN model.items : o < TotalOf(model.counts)

(* An offset of the layout that the range cache takes for loaded is loaded, *)
(* unless a reload is on its way (mark_resident after replace_ready_range and eviction).       *)
ReloadOwed == reload.timer \/ reload.dirty \/ reload.st # "none" \/ wire # <<>>
ResidentIsReady ==
    \A o \in range.resident : \/ o \in DOMAIN model.items
                              \/ o >= TotalOf(model.counts)
                              \/ ReloadOwed \/ missed.layout

(* At rest the visible page shows the table: the layout counts its rows,    *)
(* and every offset of the window around the viewport holds the row of that *)
(* rank, unless the change is one that the code lets go of.                 *)
Shown(o) == /\ o \in DOMAIN model.items
            /\ model.items[o].id = InOrder(RowsLive)[o].id
            /\ model.items[o] = InOrder(RowsLive)[o] \/ model.items[o].id \in missed.items
AtRestShown ==
    (GridQuiet /\ view.active /\ ~missed.layout) =>
        /\ model.counts = CountsOf(RowsLive)
        /\ \A o \in Offsets(view.window) : Shown(o)

(* Without the exception: at rest every loaded photo of the window is the   *)
(* row of its rank.  browsing.md says of incremental admission that queries *)
(* inconsistent with the captured change set fall back to a reload; a page  *)
(* read after the commit and landed before the admission is shifted twice.  *)
RightPhotoAtRank ==
    (GridQuiet /\ view.active) =>
        \A o \in Offsets(view.window) \cap DOMAIN model.items :
            model.items[o].id = InOrder(RowsLive)[o].id

(* The grid comes to rest: landing a range, which asks for the window       *)
(* again, does not keep the range worker busy for ever.                     *)
GridRests == <>[]GridQuiet
=============================================================================
