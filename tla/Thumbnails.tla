----------------------------- MODULE Thumbnails -----------------------------
(***************************************************************************)
(* The thumbnail loader (src/core/thumbnails.rs and thumbnails/): cells of *)
(* the interface ask for thumbnails on the GTK thread, a pool of blocking  *)
(* workers takes the requests from a priority queue, reads or generates    *)
(* the picture, and answers everyone who waits for the same key.  When the *)
(* queue is empty one worker at a time pulls a row that has no thumbnail   *)
(* yet from the media table, and a bookkeeping thread started with the     *)
(* prewarm repairs the table's marks from the files of the cache.          *)
(*                                                                         *)
(* A key is a source together with its modification time (one size bucket  *)
(* is modelled: the loader treats buckets as unrelated keys).              *)
(***************************************************************************)
EXTENDS Integers, Sequences, FiniteSets

CONSTANTS Rows,        \* how many media rows there are, in live order
          Cells,       \* tiles of the interface that may wait
          Workers,     \* blocking workers
          QueueCap,    \* runtime.json thumbnail_queue_capacity
          MemCap,      \* runtime.json thumbnail_mem_cache_cap
          PrewarmCap,  \* capacity of prewarm_mem_cache
          Budgets      \* how many requests, changes and faults are explored

ASSUME BudgetsAssumption ==
    \A b \in Budgets : b \in [asks : Nat, changes : Nat, faults : Nat, prewarm : Nat]

VARIABLES row,        \* media_items: mtime, thumbnail_ready
          disk,       \* keys with a file in the cache
          mem,        \* mem_cache, least recently used first
          prewarm,    \* prewarm_mem_cache, least recently used first
          inFlight,   \* in_flight: key -> requests waiting
          queued,     \* queued: key -> the live request
          heap,       \* heap items in order of their seq
          enqueuing,  \* the request the GTK thread is between two locks with
          cell,       \* the request each cell waits for
          worker,     \* what each worker is doing
          pull,       \* BackgroundPullState: enabled, busy, offset
          books,      \* the bookkeeping thread and what it captured
          thumbBudget \* what is left of the budget

memVars == <<mem, prewarm>>
queueVars == <<inFlight, queued, heap, enqueuing>>
ThumbVars == <<row, disk, memVars, queueVars, cell, worker, pull, books,
               thumbBudget>>

Sources == 1..Rows
NoKey == <<0, 0>>
Boost == 0
Normal == 1
Background == 2

NoItem == [key |-> NoKey, tier |-> Normal, media |-> FALSE]
NoRequest == [key |-> NoKey, n |-> 0]
IdleWorker == [pc |-> "idle", item |-> NoItem, slot |-> FALSE, hit |-> FALSE,
               waiters |-> {}]
IdleBooks == [pc |-> "off", rows |-> {}, present |-> {}, missing |-> {}]

ThumbInit ==
    /\ row = [s \in Sources |-> [mtime |-> 0, ready |-> FALSE]]
    /\ disk = {}
    /\ mem = << >> /\ prewarm = << >>
    /\ inFlight = << >> /\ queued = << >> /\ heap = << >>
    /\ enqueuing = NoItem
    /\ cell = [c \in Cells |-> NoRequest]
    /\ worker = [w \in Workers |-> IdleWorker]
    /\ pull = [enabled |-> FALSE, busy |-> FALSE, offset |-> 0]
    /\ books = IdleBooks
    /\ thumbBudget \in Budgets

Spend(what) == /\ thumbBudget[what] > 0
               /\ thumbBudget' = [thumbBudget EXCEPT ![what] = @ - 1]

-----------------------------------------------------------------------------
(* Caches *)

LruKeys(lru) == {lru[i] : i \in DOMAIN lru}

LruPop(lru, k) == SelectSeq(lru, LAMBDA j : j # k)

(* LruCache::put: the newest entry last, the oldest one evicted. *)
LruPut(lru, k, cap) ==
    LET grown == Append(LruPop(lru, k), k)
    IN  IF Len(grown) > cap THEN Tail(grown) ELSE grown

MemHit(k) == k \in LruKeys(mem) \cup LruKeys(prewarm)

(* A foreground lookup promotes a prewarmed picture to browsing history. *)
Promoted(k) ==
    /\ mem' = LruPut(mem, k, MemCap)
    /\ prewarm' = IF k \in LruKeys(mem) THEN prewarm ELSE LruPop(prewarm, k)

CacheKey(s) == <<s, row[s].mtime>>

-----------------------------------------------------------------------------
(* Requests of the GTK thread *)

Idle(c) == enqueuing = NoItem /\ cell[c] = NoRequest

Waiter(c) == <<c, thumbBudget.asks>>   \* one reply channel per request

Asks(c, k) ==
    /\ Spend("asks")
    /\ cell' = [cell EXCEPT ![c] = [key |-> k, n |-> thumbBudget.asks]]

TryLoadCached(c, s) ==
    LET k == CacheKey(s)
    IN  /\ Idle(c) /\ MemHit(k)
        /\ Spend("asks")
        /\ Promoted(k)
        /\ UNCHANGED <<row, disk, queueVars, cell, worker, pull, books>>

RequestJoin(c, s) ==
    LET k == CacheKey(s)
    IN  /\ Idle(c) /\ ~MemHit(k) /\ k \in DOMAIN inFlight
        /\ Asks(c, k)
        /\ inFlight' = [inFlight EXCEPT ![k] = @ \cup {Waiter(c)}]
        /\ UNCHANGED <<row, disk, memVars, queued, heap, enqueuing, worker,
                       pull, books>>

(* HashMap::insert. *)
Entered(map, k, v) == [j \in DOMAIN map \cup {k} |-> IF j = k THEN v ELSE map[j]]

(* Tiles of the grid and the viewer ask for a row and are boosted, covers   *)
(* and the filmstrip ask for a file.                                        *)
RequestNew(c, s, tier) ==
    LET k == CacheKey(s)
    IN  /\ Idle(c) /\ ~MemHit(k) /\ k \notin DOMAIN inFlight
        /\ Asks(c, k)
        /\ inFlight' = Entered(inFlight, k, {Waiter(c)})
        /\ enqueuing' = [key |-> k, tier |-> tier, media |-> tier = Boost]
        /\ UNCHANGED <<row, disk, memVars, queued, heap, worker, pull, books>>

Waits(c, ws) == <<c, cell[c].n>> \in ws

Answered(ws) == [c \in Cells |-> IF Waits(c, ws) THEN NoRequest ELSE cell[c]]

Forgotten(k) == [j \in DOMAIN inFlight \ {k} |-> inFlight[j]]

(* The second lock: a full queue drops the reply channel of the request. *)
Enqueue ==
    LET k == enqueuing.key
    IN  /\ enqueuing # NoItem
        /\ enqueuing' = NoItem
        /\ IF Cardinality(DOMAIN queued) >= QueueCap
           THEN /\ cell' = Answered(inFlight[k])
                /\ inFlight' = Forgotten(k)
                /\ UNCHANGED <<queued, heap>>
           ELSE /\ queued' = Entered(queued, k, enqueuing)
                /\ heap' = Append(heap, enqueuing)
                /\ UNCHANGED <<cell, inFlight>>
        /\ UNCHANGED <<row, disk, memVars, worker, pull, books, thumbBudget>>

(* A bug: the queued work goes, the key stays in flight. *)
Cancel_orphans(c) ==
    LET k == cell[c].key
        waiters == inFlight[k] \ {<<c, cell[c].n>>}
    IN  /\ enqueuing = NoItem /\ cell[c] # NoRequest
        /\ cell' = [cell EXCEPT ![c] = NoRequest]
        /\ IF k \notin DOMAIN inFlight
           THEN UNCHANGED <<inFlight, queued>>
           ELSE /\ inFlight' = [inFlight EXCEPT ![k] = waiters]
                /\ queued' = [j \in DOMAIN queued \ {x \in {k} : waiters = {}}
                                |-> queued[j]]
        /\ UNCHANGED <<row, disk, memVars, heap, enqueuing, worker, pull, books,
                       thumbBudget>>

(* A recycled cell gives up its wait; queued work nobody else waits for is  *)
(* dropped, work a worker already took is left to finish.                   *)
Cancel(c) ==
    LET k == cell[c].key
        waiters == inFlight[k] \ {<<c, cell[c].n>>}
    IN  /\ enqueuing = NoItem /\ cell[c] # NoRequest
        /\ cell' = [cell EXCEPT ![c] = NoRequest]
        /\ IF k \notin DOMAIN inFlight
           THEN UNCHANGED <<inFlight, queued>>
           ELSE IF waiters = {} /\ k \in DOMAIN queued
           THEN /\ inFlight' = Forgotten(k)
                /\ queued' = [j \in DOMAIN queued \ {k} |-> queued[j]]
           ELSE /\ inFlight' = [inFlight EXCEPT ![k] = waiters]
                /\ UNCHANGED queued
        /\ UNCHANGED <<row, disk, memVars, heap, enqueuing, worker, pull, books,
                       thumbBudget>>

PrioritizeKeys(k) ==
    /\ enqueuing = NoItem
    /\ k \in DOMAIN queued /\ queued[k].tier # Boost
    /\ queued' = [queued EXCEPT ![k].tier = Boost]
    /\ heap' = Append(heap, [queued[k] EXCEPT !.tier = Boost])
    /\ UNCHANGED <<row, disk, memVars, inFlight, enqueuing, cell, worker, pull,
                   books, thumbBudget>>

StartBackgroundPrewarm ==
    /\ enqueuing = NoItem /\ ~pull.enabled
    /\ Spend("prewarm")
    /\ pull' = [pull EXCEPT !.enabled = TRUE, !.offset = 0]
    /\ books' = [books EXCEPT !.pc = "snapshot"]
    /\ UNCHANGED <<row, disk, memVars, queueVars, cell, worker>>

(* The page the user jumped to, or 0 when the size bucket changes. *)
RedirectPrewarmToOffset(o) ==
    /\ enqueuing = NoItem /\ pull.enabled /\ pull.offset # o
    /\ Spend("changes")
    /\ pull' = [pull EXCEPT !.offset = o]
    /\ UNCHANGED <<row, disk, memVars, queueVars, cell, worker, books>>

-----------------------------------------------------------------------------
(* Workers *)

Before(i, j) == \/ heap[i].tier < heap[j].tier
                \/ heap[i].tier = heap[j].tier /\ i <= j

(* A heap item is live while queued still names its tier. *)
Live(i) == /\ heap[i].key \in DOMAIN queued
           /\ queued[heap[i].key].tier = heap[i].tier

LiveItems == {i \in 1..Len(heap) : Live(i)}

Taken == CHOOSE i \in LiveItems : \A j \in LiveItems : Before(i, j)

PopRequest(w) ==
    /\ worker[w].pc = "idle" /\ LiveItems # {}
    /\ worker' = [worker EXCEPT ![w].pc = "generate", ![w].item = heap[Taken]]
    /\ queued' = [j \in DOMAIN queued \ {heap[Taken].key} |-> queued[j]]
    /\ heap' = LET rest == {i \in 1..Len(heap) : ~Before(i, Taken)}
               IN  [n \in 1..Cardinality(rest) |->
                       heap[CHOOSE i \in rest :
                              Cardinality({j \in rest : j <= i}) = n]]
    /\ UNCHANGED <<row, disk, memVars, inFlight, enqueuing, cell, pull,
                   books, thumbBudget>>

Needing(o) == {s \in Sources : s > o /\ ~row[s].ready}

(* list_media_needing_thumbnail_from_live_offset, a batch of one row. *)
PullRow(w) ==
    LET page == IF pull.offset >= Rows THEN {} ELSE Needing(pull.offset)
        s == CHOOSE x \in page : \A y \in page : x <= y
    IN  /\ worker[w].pc = "idle" /\ LiveItems = {}
        /\ pull.enabled /\ ~pull.busy
        /\ heap' = << >>
        /\ IF page = {}
           THEN /\ pull.offset # 0 \/ heap # << >>
                /\ pull' = [pull EXCEPT !.offset = 0]
                /\ UNCHANGED worker
           ELSE /\ pull' = [pull EXCEPT !.offset = @ + 1, !.busy = TRUE]
                /\ worker' = [worker EXCEPT
                      ![w].pc = "register",
                      ![w].item = [key |-> CacheKey(s), tier |-> Background,
                                   media |-> TRUE]]
        /\ UNCHANGED <<row, disk, memVars, inFlight, queued, enqueuing,
                       cell, books, thumbBudget>>

(* A bug: only the queue is consulted, not the keys in flight. *)
RegisterPull_blind(w) ==
    LET k == worker[w].item.key
        free == k \notin DOMAIN queued
    IN  /\ worker[w].pc = "register"
        /\ inFlight' = IF free THEN Entered(inFlight, k, {}) ELSE inFlight
        /\ worker' = [worker EXCEPT ![w] =
              IF free THEN [@ EXCEPT !.pc = "generate", !.slot = TRUE]
                      ELSE IdleWorker]
        /\ pull' = [pull EXCEPT !.busy = free]
        /\ UNCHANGED <<row, disk, memVars, queued, heap, enqueuing, cell,
                       books, thumbBudget>>

(* Under both locks: a key someone else works on is not taken. *)
RegisterPull(w) ==
    LET k == worker[w].item.key
        free == k \notin DOMAIN inFlight \cup DOMAIN queued
    IN  /\ worker[w].pc = "register"
        /\ inFlight' = IF free THEN Entered(inFlight, k, {}) ELSE inFlight
        /\ worker' = [worker EXCEPT ![w] =
              IF free THEN [@ EXCEPT !.pc = "generate", !.slot = TRUE]
                      ELSE IdleWorker]
        /\ pull' = [pull EXCEPT !.busy = free]
        /\ UNCHANGED <<row, disk, memVars, queued, heap, enqueuing, cell,
                       books, thumbBudget>>

(* generate(): a file of the cache, else the decoded source, which is       *)
(* written to the cache, else the stand-in, which never reaches the disk.   *)
Generated(w, hit) ==
    /\ worker[w].pc = "generate"
    /\ worker' = [worker EXCEPT ![w].pc = "store", ![w].hit = hit]
    /\ UNCHANGED <<row, memVars, queueVars, cell, pull, books>>

LoadPixbuf(w) == /\ worker[w].item.key \in disk
                 /\ Generated(w, TRUE)
                 /\ UNCHANGED <<disk, thumbBudget>>

GenerateViaPixbuf(w) == /\ worker[w].item.key \notin disk
                        /\ Generated(w, FALSE)
                        /\ disk' = disk \cup {worker[w].item.key}
                        /\ UNCHANGED thumbBudget

UnavailablePlaceholder(w) == /\ worker[w].item.key \notin disk
                             /\ Generated(w, FALSE)
                             /\ Spend("faults")
                             /\ UNCHANGED disk

Generate(w) ==
    LoadPixbuf(w) \/ GenerateViaPixbuf(w) \/ UnavailablePlaceholder(w)

(* generate() failing outright (the directory or the publication lock).     *)
DropInFlight(w) ==
    LET k == worker[w].item.key
    IN  /\ worker[w].pc = "generate" /\ Spend("faults")
        /\ cell' = Answered(inFlight[k])
        /\ inFlight' = Forgotten(k)
        /\ worker' = [worker EXCEPT ![w] = IdleWorker]
        /\ pull' = [pull EXCEPT !.busy = @ /\ ~worker[w].slot]
        /\ UNCHANGED <<row, disk, memVars, queued, heap, enqueuing, books>>

MustMark(w) == /\ worker[w].item.media
               /\ ~worker[w].hit \/ worker[w].item.tier = Background

(* One section of the state lock: the picture is cached and the waiters of  *)
(* its key are taken.                                                       *)
Store(w) ==
    LET k == worker[w].item.key
    IN  /\ worker[w].pc = "store"
        /\ IF worker[w].item.tier = Background
           THEN prewarm' = LruPut(prewarm, k, PrewarmCap) /\ UNCHANGED mem
           ELSE mem' = LruPut(mem, k, MemCap) /\ UNCHANGED prewarm
        /\ worker' = [worker EXCEPT
              ![w].pc = IF MustMark(w) THEN "mark" ELSE "reply",
              ![w].waiters = inFlight[k]]
        /\ inFlight' = Forgotten(k)
        /\ UNCHANGED <<row, disk, queued, heap, enqueuing, cell, pull, books,
                       thumbBudget>>

(* DbCommand::MarkThumbnailsGenerated, which names the row and nothing else. *)
MarkThumbnailsGenerated(w) ==
    /\ worker[w].pc = "mark"
    /\ worker' = [worker EXCEPT ![w].pc = "reply"]
    /\ \/ /\ row' = [row EXCEPT ![worker[w].item.key[1]].ready = TRUE]
          /\ UNCHANGED thumbBudget
       \/ Spend("faults") /\ UNCHANGED row
    /\ UNCHANGED <<disk, memVars, queueVars, cell, pull, books>>

(* Cancelled waiters are skipped; the background slot is given back. *)
Reply(w) ==
    /\ worker[w].pc = "reply"
    /\ cell' = Answered(worker[w].waiters)
    /\ worker' = [worker EXCEPT ![w] = IdleWorker]
    /\ pull' = [pull EXCEPT !.busy = @ /\ ~worker[w].slot]
    /\ UNCHANGED <<row, disk, memVars, queueVars, books, thumbBudget>>

-----------------------------------------------------------------------------
(* The library under the loader *)

(* The scanner or the watcher indexes new bytes of a source. *)
FileChanged(s) ==
    /\ Spend("changes")
    /\ row' = [row EXCEPT ![s] = [mtime |-> @.mtime + 1, ready |-> FALSE]]
    /\ UNCHANGED <<disk, memVars, queueVars, cell, worker, pull, books>>

(* A downloaded thumbnail is installed under the row's key, and the grid    *)
(* evicts the copies in memory when it hears of it.                         *)
ImportCachedThumbnails(s) ==
    /\ Spend("changes")
    /\ disk' = disk \cup {CacheKey(s)}
    /\ row' = [row EXCEPT ![s].ready = TRUE]
    /\ UNCHANGED <<memVars, queueVars, cell, worker, pull, books>>

InvalidateCachedThumbnail(s) ==
    /\ enqueuing = NoItem /\ MemHit(CacheKey(s))
    /\ Spend("changes")
    /\ mem' = LruPop(mem, CacheKey(s))
    /\ prewarm' = LruPop(prewarm, CacheKey(s))
    /\ UNCHANGED <<row, disk, queueVars, cell, worker, pull, books>>

(* The oldest files go when the cache outgrows its limit. *)
EnforceSizeLimit(k) ==
    /\ k \in disk /\ Spend("changes")
    /\ disk' = disk \ {k}
    /\ UNCHANGED <<row, memVars, queueVars, cell, worker, pull, books>>

-----------------------------------------------------------------------------
(* The bookkeeping thread *)

LiveStems == {CacheKey(s) : s \in Sources}

SnapshotStems ==
    /\ books.pc = "snapshot"
    /\ books' = [books EXCEPT !.pc = "purge", !.rows = LiveStems]
    /\ UNCHANGED <<row, disk, memVars, queueVars, cell, worker, pull,
                   thumbBudget>>

PurgeOrphanThumbnails ==
    /\ books.pc = "purge"
    /\ disk' = disk \cap books.rows
    /\ books' = [books EXCEPT !.pc = "probe", !.rows = {}]
    /\ UNCHANGED <<row, memVars, queueVars, cell, worker, pull, thumbBudget>>

(* A page of rows is compared with the files of the cache ... *)
RecoverCacheMarks ==
    /\ books.pc = "probe"
    /\ books' = [books EXCEPT !.pc = "write",
          !.present = {k \in LiveStems \cap disk : ~row[k[1]].ready},
          !.missing = LiveStems \ disk]
    /\ UNCHANGED <<row, disk, memVars, queueVars, cell, worker, pull,
                   thumbBudget>>

(* ... and written later, for the rows that kept their modification time.   *)
ReconcileThumbnailMarks ==
    /\ books.pc = "write"
    /\ row' = [s \in Sources |->
          [row[s] EXCEPT !.ready = /\ CacheKey(s) \notin books.missing
                                   /\ @ \/ CacheKey(s) \in books.present]]
    /\ books' = [IdleBooks EXCEPT !.pc = "done"]
    /\ UNCHANGED <<disk, memVars, queueVars, cell, worker, pull, thumbBudget>>

-----------------------------------------------------------------------------
Work(w) == \/ PopRequest(w) \/ PullRow(w) \/ RegisterPull(w) \/ Generate(w)
           \/ Store(w) \/ MarkThumbnailsGenerated(w) \/ Reply(w)

Bookkeeping == \/ SnapshotStems \/ PurgeOrphanThumbnails
               \/ RecoverCacheMarks \/ ReconcileThumbnailMarks

ThumbNext ==
    \/ \E c \in Cells, s \in Sources :
          \/ TryLoadCached(c, s) \/ RequestJoin(c, s)
          \/ \E tier \in {Boost, Normal} : RequestNew(c, s, tier)
    \/ Enqueue
    \/ \E c \in Cells : Cancel(c)
    \/ \E k \in DOMAIN queued : PrioritizeKeys(k)
    \/ StartBackgroundPrewarm
    \/ \E o \in 0..(Rows - 1) : RedirectPrewarmToOffset(o)
    \/ \E w \in Workers : Work(w) \/ DropInFlight(w)
    \/ \E s \in Sources : \/ FileChanged(s) \/ ImportCachedThumbnails(s)
                          \/ InvalidateCachedThumbnail(s)
    \/ \E k \in disk : EnforceSizeLimit(k)
    \/ Bookkeeping

(* Workers and the bookkeeping thread are operating-system threads, and the *)
(* GTK thread finishes a call it began: each runs on as long as it can.     *)
(* (It takes each of them: the prewarm keeps one worker busy for ever while *)
(* a request of the GTK thread has yet to enter the queue.)                 *)
ThumbFairness == /\ WF_ThumbVars(Enqueue)
                 /\ \A w \in Workers : WF_ThumbVars(Work(w))
                 /\ WF_ThumbVars(Bookkeeping)

ThumbSpec == ThumbInit /\ [][ThumbNext]_ThumbVars /\ ThumbFairness

-----------------------------------------------------------------------------
(* Properties *)

IsKey(k) == k[1] \in Sources /\ k[2] \in Nat
IsItem(i) == /\ i = NoItem \/ IsKey(i.key)
             /\ i.tier \in {Boost, Normal, Background}
             /\ i.media \in BOOLEAN

(* What the fields of the loader, of the media rows and of the workers may  *)
(* hold: neither memory cache ever exceeds its capacity, nor the queue its  *)
(* own, and one worker at most holds the background slot (request_inner,    *)
(* LruCache::put, next_request_or_pull).                                    *)
ThumbTypeOK ==
    /\ row \in [Sources -> [mtime : Nat, ready : BOOLEAN]]
    /\ \A k \in disk \cup LruKeys(mem) \cup LruKeys(prewarm)
                \cup DOMAIN inFlight \cup DOMAIN queued : IsKey(k)
    /\ Len(mem) <= MemCap /\ Len(prewarm) <= PrewarmCap
    /\ Cardinality(DOMAIN queued) <= QueueCap
    /\ IsItem(enqueuing) /\ \A i \in DOMAIN heap : IsItem(heap[i])
    /\ \A c \in Cells : cell[c] = NoRequest \/ IsKey(cell[c].key)
    /\ \A w \in Workers :
          /\ worker[w].pc \in {"idle", "register", "generate", "store", "mark",
                               "reply"}
          /\ IsItem(worker[w].item)
    /\ Cardinality({w \in Workers : worker[w].slot}) <= 1
    /\ pull.offset \in 0..Rows

Producing(w) == worker[w].pc \in {"generate", "store"}

Producers(k) == {w \in Workers : Producing(w) /\ worker[w].item.key = k}

(* The same thumbnail is never produced twice at once: neither the stale    *)
(* items a boost or a cancellation leaves in the heap nor a prewarm pull    *)
(* queues or takes a key whose file a worker is about to write              *)
(* (request_inner, prioritize_keys, next_request_or_pull,                   *)
(* pull_batch_and_enqueue).                                                 *)
OneProducer ==
    \A w \in Workers : Producing(w) =>
        LET k == worker[w].item.key
        IN  Producers(k) = {w} /\ k \notin DOMAIN queued /\ enqueuing.key # k

(* Whoever waits is owed an answer: a key in flight is about to be queued,  *)
(* queued under a live heap item, or in a worker's hands; and a waiting     *)
(* cell is registered with such a key or with the worker about to reply.    *)
(* An in-flight key nobody works on would swallow every later request for   *)
(* it (cancel_cancellable_request, drop_in_flight).                         *)
WaitIsOwed ==
    /\ \A k \in DOMAIN inFlight :
          enqueuing.key = k \/ k \in DOMAIN queued \/ Producers(k) # {}
    /\ \A k \in DOMAIN queued : /\ k \in DOMAIN inFlight
                                /\ \E i \in LiveItems : heap[i].key = k
    /\ \A c \in Cells : cell[c] # NoRequest =>
          \/ cell[c].key \in DOMAIN inFlight /\ Waits(c, inFlight[cell[c].key])
          \/ \E w \in Workers : Waits(c, worker[w].waiters)

(* Every request is answered or dropped, unless its cell gives it up        *)
(* (worker_loop, request_inner): none waits for ever.                       *)
CellAnswered == \A c \in Cells : cell[c] # NoRequest ~> cell[c] = NoRequest

(* Once the prewarm is on, the table ends up marking every row generated,   *)
(* whatever was edited, evicted, redirected or reconciled meanwhile: a row  *)
(* the bookkeeping thread unmarks from a probe older than the worker's mark *)
(* is pulled again, and the cache hit settles it.                           *)
PrewarmConverges == <>[](pull.enabled => \A s \in Sources : row[s].ready)
=============================================================================
