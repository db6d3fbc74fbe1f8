-------------------------- MODULE ThumbnailsProofs --------------------------
(***************************************************************************)
(* Proofs about Thumbnails, for any number of rows, cells and workers and  *)
(* any capacities: no thumbnail is produced twice at once, and no request  *)
(* is lost.                                                                *)
(*                                                                         *)
(* The invariant has four parts.  LoaderTypes says what the fields hold;   *)
(* Keys, who is about a key: the GTK thread between its two locks, the     *)
(* queue, or one worker; Findable, that the heap of stale and live items   *)
(* still leads to every queued key; Registered, where a waiting cell's     *)
(* reply channel is.                                                       *)
(***************************************************************************)
EXTENDS Thumbnails, FiniteSetTheorems, TLAPS

USE ZenonT(30), SMTT(60)

-----------------------------------------------------------------------------
(* Numbers *)

\* A nonempty set of natural numbers has a least element.
LEMMA Least ==
    ASSUME NEW T \in SUBSET Nat, T # {}
    PROVE  \E x \in T : \A y \in T : x <= y
<1>1. PICK x \in T : \A y \in T : <<y, x>> \notin OpToRel(<, Nat)
  BY NatLessThanWellFounded, WFMin
<1>2. \A y \in T : ~(y < x) BY <1>1 DEF OpToRel
<1> QED BY SMTT(60), <1>2

\* Counting the members of S up to i numbers S from 1 to its cardinality.
LEMMA Ranks ==
    ASSUME NEW N \in Nat, NEW S \in SUBSET (1..N)
    PROVE  /\ IsFiniteSet(S) /\ Cardinality(S) \in Nat
           /\ \A i \in S : Cardinality({j \in S : j <= i}) \in 1..Cardinality(S)
           /\ \A i, k \in S :
                 Cardinality({j \in S : j <= i}) = Cardinality({j \in S : j <= k}) => i = k
           /\ \A n \in 1..Cardinality(S) :
                 \E i \in S : Cardinality({j \in S : j <= i}) = n
<1> DEFINE Upto(i) == {j \in S : j <= i}
           rank == [i \in S |-> Cardinality(Upto(i))]
<1>1. IsFiniteSet(S) /\ Cardinality(S) \in Nat
  <2>1. IsFiniteSet(1..N) BY SMTT(60), FS_Interval
  <2>2. IsFiniteSet(S) BY <2>1, FS_Subset
  <2> QED BY <2>2, FS_CardinalityType
<1>2. ASSUME NEW i \in S
      PROVE  IsFiniteSet(Upto(i)) /\ Cardinality(Upto(i)) \in 1..Cardinality(S)
  <2>1. Upto(i) \subseteq S /\ i \in Upto(i) BY SMTT(60)
  <2>2. IsFiniteSet(Upto(i)) /\ Cardinality(Upto(i)) <= Cardinality(S)
    BY <1>1, <2>1, FS_Subset
  <2>3. Cardinality(Upto(i)) \in Nat /\ Cardinality(Upto(i)) # 0
    BY <2>1, <2>2, FS_CardinalityType, FS_EmptySet
  <2> HIDE DEF Upto
  <2> QED BY SMTT(60), <1>1, <2>2, <2>3
<1>3. ASSUME NEW i \in S, NEW k \in S, i < k
      PROVE  Cardinality(Upto(i)) # Cardinality(Upto(k))
  <2>1. Upto(i) \subseteq Upto(k) /\ k \in Upto(k) /\ k \notin Upto(i)
    <3>1. \A j \in S : j \in Int BY SMTT(60)
    <3>2. \A j \in S : j <= i => j <= k BY SMTT(60), <1>3, <3>1
    <3>3. k <= k /\ ~(k <= i) BY SMTT(60), <1>3, <3>1
    <3> QED BY <3>2, <3>3
  <2> HIDE DEF Upto
  <2> QED BY <1>2, <2>1, FS_Subset
<1>4. \A i, k \in S : Cardinality(Upto(i)) = Cardinality(Upto(k)) => i = k
  <2> HIDE DEF Upto
  <2> QED BY SMTT(60), <1>3
<1>5. rank \in Injection(S, 1..Cardinality(S))
  <2> HIDE DEF Upto
  <2> QED BY <1>2, <1>4 DEF Injection, IsInjective
<1>6. IsFiniteSet(1..Cardinality(S)) /\ Cardinality(1..Cardinality(S)) = Cardinality(S)
  BY SMTT(60), <1>1, FS_Interval
<1>7. rank \in Surjection(S, 1..Cardinality(S))
  <2> HIDE DEF rank
  <2> QED BY <1>5, <1>6, FS_Injection
<1>8. \A n \in 1..Cardinality(S) : \E i \in S : Cardinality(Upto(i)) = n
  <2> HIDE DEF Upto
  <2> QED BY <1>7 DEF Surjection
<1> QED BY <1>1, <1>2, <1>4, <1>8

-----------------------------------------------------------------------------
(* What the fields of the loader hold *)

Key == Sources \X Nat
Item == [key : Key, tier : {Boost, Normal, Background}, media : BOOLEAN]
Ticket == Cells \X Nat

RowsTyped ==
    /\ row \in [Sources -> [mtime : Nat, ready : BOOLEAN]]
    /\ thumbBudget \in [asks : Nat, changes : Nat, faults : Nat, prewarm : Nat]

QueueTyped ==
    /\ inFlight \in [DOMAIN inFlight -> SUBSET Ticket] /\ DOMAIN inFlight \subseteq Key
    /\ queued \in [DOMAIN queued -> Item] /\ \A k \in DOMAIN queued : queued[k].key = k
    /\ heap \in Seq(Item)
    /\ enqueuing \in Item \cup {NoItem}

CellsTyped == cell \in [Cells -> [key : Key, n : Nat] \cup {NoRequest}]

WorkersTyped ==
    /\ worker \in [Workers -> [pc : {"idle", "register", "generate", "store", "mark", "reply"},
                               item : Item \cup {NoItem}, slot : BOOLEAN, hit : BOOLEAN,
                               waiters : SUBSET Ticket]]
    /\ \A w \in Workers : worker[w].pc # "idle" => worker[w].item \in Item

LoaderTypes == RowsTyped /\ QueueTyped /\ CellsTyped /\ WorkersTyped

\* NoKey is the key of no source.
LEMMA NoKeyIsNone == NoKey \notin Key /\ NoItem \notin Item
BY SMTT(60) DEF NoKey, Key, Sources, NoItem, Item

\* CacheKey names a source and its modification time.
LEMMA KeyOfSource ==
    ASSUME LoaderTypes, NEW s \in Sources
    PROVE  CacheKey(s) \in Key
BY DEF LoaderTypes, RowsTyped, CacheKey, Key

\* next_request takes a live item that every live item comes after.
LEMMA TakenIsFirst ==
    ASSUME LoaderTypes, LiveItems # {}
    PROVE  Taken \in LiveItems /\ \A j \in LiveItems : Before(Taken, j)
<1> DEFINE tiers == {heap[i].tier : i \in LiveItems}
<1>1. \A i \in LiveItems : i \in Nat /\ heap[i] \in Item BY SMTT(60) DEF LoaderTypes, QueueTyped, LiveItems
<1>2. \A i \in LiveItems : heap[i].tier \in Nat BY SMTT(60), <1>1 DEF Item, Boost, Normal, Background
<1>3. tiers \in SUBSET Nat /\ tiers # {} BY <1>2
<1>4. PICK t \in tiers : \A u \in tiers : t <= u
  <2> HIDE DEF tiers
  <2> QED BY <1>3, Least
<1> DEFINE top == {i \in LiveItems : heap[i].tier = t}
<1>5. top \in SUBSET Nat /\ top # {} BY <1>1
<1>6. PICK i \in top : \A j \in top : i <= j
  <2> HIDE DEF top
  <2> QED BY <1>5, Least
<1>7. i \in LiveItems /\ heap[i].tier = t BY <1>6
<1>8. ASSUME NEW j \in LiveItems PROVE Before(i, j)
  <2>1. t <= heap[j].tier BY <1>4
  <2>2. CASE heap[j].tier = t BY <1>6, <1>7, <2>2 DEF Before
  <2>3. CASE heap[j].tier # t BY SMTT(60), <1>2, <1>7, <2>1, <2>3 DEF Before
  <2> QED BY <2>2, <2>3
<1> QED BY <1>7, <1>8 DEF Taken

\* The heap the pop leaves: items of the heap, among them every one that did not
\* come before the taken one.
LEMMA PoppedHeap ==
    ASSUME LoaderTypes, NEW w \in Workers, PopRequest(w)
    PROVE  /\ heap' \in Seq(Item)
           /\ \A i \in 1..Len(heap) : ~Before(i, Taken) =>
                 \E n \in 1..Len(heap') : heap'[n] = heap[i]
<1> DEFINE rest == {i \in 1..Len(heap) : ~Before(i, Taken)}
           rank(i) == Cardinality({j \in rest : j <= i})
           at(n) == CHOOSE i \in rest : rank(i) = n
<1>1. heap' = [n \in 1..Cardinality(rest) |-> heap[at(n)]] BY DEF PopRequest
<1>2. Len(heap) \in Nat /\ rest \in SUBSET (1..Len(heap)) BY SMTT(60) DEF LoaderTypes, QueueTyped
<1>3. /\ Cardinality(rest) \in Nat
      /\ \A i \in rest : rank(i) \in 1..Cardinality(rest)
      /\ \A i, k \in rest : rank(i) = rank(k) => i = k
      /\ \A n \in 1..Cardinality(rest) : \E i \in rest : rank(i) = n
  <2> HIDE DEF rest
  <2> QED BY <1>2, Ranks
<1> HIDE DEF rank
<1>4. \A n \in 1..Cardinality(rest) : at(n) \in rest /\ rank(at(n)) = n
  <2> HIDE DEF rest
  <2> QED BY <1>3
<1> HIDE DEF at
<1>5. heap' \in Seq(Item)
  <2>1. \A n \in 1..Cardinality(rest) : heap[at(n)] \in Item BY SMTT(60), <1>2, <1>4 DEF LoaderTypes, QueueTyped
  <2> HIDE DEF rest
  <2> QED BY SMTT(60), <1>1, <1>3, <2>1
<1>6. ASSUME NEW i \in rest PROVE \E n \in 1..Len(heap') : heap'[n] = heap[i]
  <2> HIDE DEF rest
  <2>1. at(rank(i)) = i BY <1>3, <1>4
  <2>2. Len(heap') = Cardinality(rest) BY SMTT(60), <1>1, <1>3
  <2> QED BY <1>1, <1>3, <2>1, <2>2
<1> QED BY <1>5, <1>6

\* A new loader is well typed (ThumbnailLoader::new).
LEMMA TypesInit == ThumbInit => LoaderTypes
<1> SUFFICES ASSUME ThumbInit PROVE LoaderTypes OBVIOUS
<1>1. RowsTyped BY BudgetsAssumption DEF ThumbInit, RowsTyped
<1>2. QueueTyped BY SMTT(60) DEF ThumbInit, QueueTyped
<1>3. CellsTyped BY DEF ThumbInit, CellsTyped
<1>4. WorkersTyped BY DEF ThumbInit, WorkersTyped, IdleWorker
<1> QED BY <1>1, <1>2, <1>3, <1>4 DEF LoaderTypes

\* Every step keeps the media rows and the budget well typed.
LEMMA RowsStep ==
    ASSUME LoaderTypes, ThumbNext
    PROVE  RowsTyped'
<1> USE DEF LoaderTypes, RowsTyped
<1>0. ASSUME NEW s, row' = [row EXCEPT ![s].ready = TRUE]
      PROVE  row' \in [Sources -> [mtime : Nat, ready : BOOLEAN]]
  <2>1. \A t \in Sources : row[t] \in [mtime : Nat, ready : BOOLEAN] OBVIOUS
  <2>2. \A t \in Sources : row'[t] = IF t = s THEN [row[t] EXCEPT !.ready = TRUE] ELSE row[t]
    BY <1>0
  <2>3. \A t \in Sources : [row[t] EXCEPT !.ready = TRUE] \in [mtime : Nat, ready : BOOLEAN]
    BY <2>1
  <2>4. row' = [t \in Sources |-> row'[t]] BY <1>0
  <2> QED BY <2>1, <2>2, <2>3, <2>4
<1>1. ASSUME NEW a \in {"asks", "changes", "faults", "prewarm"}, Spend(a)
      PROVE  thumbBudget' \in [asks : Nat, changes : Nat, faults : Nat, prewarm : Nat]
  BY SMTT(60), <1>1 DEF Spend
<1>2. ASSUME NEW c \in Cells, NEW s \in Sources,
             \/ TryLoadCached(c, s) \/ RequestJoin(c, s)
             \/ \E tier \in {Boost, Normal} : RequestNew(c, s, tier)
      PROVE  RowsTyped'
  BY <1>1, <1>2 DEF TryLoadCached, RequestJoin, RequestNew, Asks
<1>3. CASE Enqueue BY <1>3 DEF Enqueue
<1>4. ASSUME NEW c \in Cells, Cancel(c) PROVE RowsTyped' BY <1>4 DEF Cancel
<1>5. ASSUME NEW k \in DOMAIN queued, PrioritizeKeys(k) PROVE RowsTyped'
  BY <1>5 DEF PrioritizeKeys
<1>6. CASE StartBackgroundPrewarm BY <1>1, <1>6 DEF StartBackgroundPrewarm
<1>7. ASSUME NEW o, RedirectPrewarmToOffset(o) PROVE RowsTyped'
  BY <1>1, <1>7 DEF RedirectPrewarmToOffset
<1>8. ASSUME NEW w \in Workers, Work(w) \/ DropInFlight(w) PROVE RowsTyped'
  <2>1. CASE PopRequest(w) \/ PullRow(w) \/ RegisterPull(w) \/ Store(w) \/ Reply(w)
    BY <2>1 DEF PopRequest, PullRow, RegisterPull, Store, Reply
  <2>2. CASE Generate(w)
    BY <1>1, <2>2 DEF Generate, LoadPixbuf, GenerateViaPixbuf, UnavailablePlaceholder, Generated
  <2>3. CASE MarkThumbnailsGenerated(w)
    BY <1>0, <1>1, <2>3 DEF MarkThumbnailsGenerated
  <2>4. CASE DropInFlight(w) BY <1>1, <2>4 DEF DropInFlight
  <2> QED BY <1>8, <2>1, <2>2, <2>3, <2>4 DEF Work
<1>9. ASSUME NEW s \in Sources, FileChanged(s) \/ ImportCachedThumbnails(s) \/ InvalidateCachedThumbnail(s)
      PROVE  RowsTyped'
  <2>1. CASE FileChanged(s)
    <3>1. thumbBudget' \in [asks : Nat, changes : Nat, faults : Nat, prewarm : Nat]
      BY <1>1, <2>1 DEF FileChanged
    <3>2. row' = [row EXCEPT ![s] = [mtime |-> row[s].mtime + 1, ready |-> FALSE]]
      BY <2>1 DEF FileChanged
    <3>3. [mtime |-> row[s].mtime + 1, ready |-> FALSE] \in [mtime : Nat, ready : BOOLEAN] BY SMTT(60)
    <3> QED BY <3>1, <3>2, <3>3
  <2>2. CASE ImportCachedThumbnails(s) BY <1>0, <1>1, <2>2 DEF ImportCachedThumbnails
  <2>3. CASE InvalidateCachedThumbnail(s) BY <1>1, <2>3 DEF InvalidateCachedThumbnail
  <2> QED BY <1>9, <2>1, <2>2, <2>3
<1>10. ASSUME NEW k \in disk, EnforceSizeLimit(k) PROVE RowsTyped'
  BY <1>1, <1>10 DEF EnforceSizeLimit
<1>11. CASE Bookkeeping
  <2>1. CASE SnapshotStems \/ PurgeOrphanThumbnails \/ RecoverCacheMarks
    BY <2>1 DEF SnapshotStems, PurgeOrphanThumbnails, RecoverCacheMarks
  <2>2. CASE ReconcileThumbnailMarks
    <3> DEFINE marks(s) == [row[s] EXCEPT !.ready = /\ CacheKey(s) \notin books.missing
                                                    /\ @ \/ CacheKey(s) \in books.present]
    <3>1. row' = [s \in Sources |-> marks(s)] /\ thumbBudget' = thumbBudget
      BY <2>2 DEF ReconcileThumbnailMarks
    <3>2. \A s \in Sources : marks(s) \in [mtime : Nat, ready : BOOLEAN] OBVIOUS
    <3> HIDE DEF marks
    <3> QED BY <3>1, <3>2
  <2> QED BY <1>11, <2>1, <2>2 DEF Bookkeeping
<1> QED BY <1>2, <1>3, <1>4, <1>5, <1>6, <1>7, <1>8, <1>9, <1>10, <1>11 DEF ThumbNext

(* The steps that touch the queue, the waits or the workers; every other one *)
(* is about the files, the rows or the caches.                               *)
LoaderStep ==
    \/ \E c \in Cells, s \in Sources :
          RequestJoin(c, s) \/ \E tier \in {Boost, Normal} : RequestNew(c, s, tier)
    \/ Enqueue
    \/ \E c \in Cells : Cancel(c)
    \/ \E k \in DOMAIN queued : PrioritizeKeys(k)
    \/ \E w \in Workers : Work(w) \/ DropInFlight(w)

loaderVars == <<inFlight, queued, heap, enqueuing, cell, worker>>

\* Every other step of the system leaves the queue, the waits and the workers alone.
LEMMA LoaderSteps == [ThumbNext]_ThumbVars => [LoaderStep]_loaderVars
<1>1. UNCHANGED ThumbVars => UNCHANGED loaderVars BY DEF ThumbVars, queueVars, loaderVars
<1>2. ASSUME NEW c \in Cells, NEW s \in Sources, TryLoadCached(c, s) PROVE UNCHANGED loaderVars
  BY <1>2 DEF TryLoadCached, queueVars, loaderVars
<1>3. StartBackgroundPrewarm => UNCHANGED loaderVars
  BY DEF StartBackgroundPrewarm, queueVars, loaderVars
<1>4. ASSUME NEW o, RedirectPrewarmToOffset(o) PROVE UNCHANGED loaderVars
  BY <1>4 DEF RedirectPrewarmToOffset, queueVars, loaderVars
<1>5. ASSUME NEW s \in Sources,
             FileChanged(s) \/ ImportCachedThumbnails(s) \/ InvalidateCachedThumbnail(s)
      PROVE  UNCHANGED loaderVars
  BY <1>5 DEF FileChanged, ImportCachedThumbnails, InvalidateCachedThumbnail, queueVars, loaderVars
<1>6. ASSUME NEW k \in disk, EnforceSizeLimit(k) PROVE UNCHANGED loaderVars
  BY <1>6 DEF EnforceSizeLimit, queueVars, loaderVars
<1>7. Bookkeeping => UNCHANGED loaderVars
  BY DEF Bookkeeping, SnapshotStems, PurgeOrphanThumbnails, RecoverCacheMarks,
         ReconcileThumbnailMarks, queueVars, loaderVars
<1> QED BY <1>1, <1>2, <1>3, <1>4, <1>5, <1>6, <1>7 DEF ThumbNext, LoaderStep

\* The row a pull takes is one of the library.
LEMMA PulledKey ==
    ASSUME LoaderTypes, NEW w \in Workers, PullRow(w)
    PROVE  \/ worker' = worker
           \/ \E k \in Key :
                 worker' = [worker EXCEPT ![w].pc = "register",
                              ![w].item = [key |-> k, tier |-> Background, media |-> TRUE]]
<1> DEFINE page == IF pull.offset >= Rows THEN {} ELSE Needing(pull.offset)
           s == CHOOSE x \in page : \A y \in page : x <= y
<1>1. CASE page = {} BY <1>1 DEF PullRow
<1>2. CASE page # {}
  <2>1. page \subseteq Sources BY DEF Needing
  <2>2. page \in SUBSET Nat BY SMTT(60), <2>1 DEF Sources
  <2>3. \E x \in page : \A y \in page : x <= y
    <3> HIDE DEF page
    <3> QED BY <1>2, <2>2, Least
  <2>4. s \in Sources
    <3> HIDE DEF page
    <3> QED BY <2>1, <2>3
  <2>5. worker' = [worker EXCEPT ![w].pc = "register",
                     ![w].item = [key |-> CacheKey(s), tier |-> Background, media |-> TRUE]]
    BY <1>2 DEF PullRow
  <2> HIDE DEF s
  <2> QED BY <2>4, <2>5, KeyOfSource
<1> QED BY <1>1, <1>2

\* Every step keeps the maps, the heap and the request being queued well typed.
LEMMA QueueStep ==
    ASSUME LoaderTypes, [LoaderStep]_loaderVars
    PROVE  QueueTyped'
<1> USE DEF LoaderTypes, QueueTyped
<1>1. CASE UNCHANGED loaderVars BY <1>1 DEF loaderVars
<1>2. ASSUME NEW c \in Cells, NEW s \in Sources, RequestJoin(c, s) PROVE QueueTyped'
  <2>1. Waiter(c) \in Ticket BY DEF Waiter, Ticket, RowsTyped
  <2> QED BY <1>2, <2>1 DEF RequestJoin
<1>3. ASSUME NEW c \in Cells, NEW s \in Sources, NEW tier \in {Boost, Normal}, RequestNew(c, s, tier)
      PROVE  QueueTyped'
  <2>1. Waiter(c) \in Ticket BY DEF Waiter, Ticket, RowsTyped
  <2>2. CacheKey(s) \in Key BY KeyOfSource
  <2>3. enqueuing' \in Item BY <1>3, <2>2 DEF RequestNew, Item
  <2>4. inFlight' = Entered(inFlight, CacheKey(s), {Waiter(c)}) /\ UNCHANGED <<queued, heap>>
    BY <1>3 DEF RequestNew
  <2> QED BY <2>1, <2>2, <2>3, <2>4 DEF Entered
<1>4. CASE Enqueue
  <2>1. enqueuing \in Item /\ enqueuing.key \in Key /\ enqueuing' = NoItem BY <1>4 DEF Enqueue, Item
  <2>2. CASE inFlight' = Forgotten(enqueuing.key) /\ UNCHANGED <<queued, heap>>
    BY <2>1, <2>2 DEF Forgotten
  <2>3. CASE /\ queued' = Entered(queued, enqueuing.key, enqueuing)
             /\ heap' = Append(heap, enqueuing) /\ UNCHANGED inFlight
    BY SMTT(60), <2>1, <2>3 DEF Entered
  <2> QED BY <1>4, <2>2, <2>3 DEF Enqueue
<1>5. ASSUME NEW c \in Cells, Cancel(c) PROVE QueueTyped'
  <2> DEFINE k == cell[c].key
             waiters == inFlight[k] \ {<<c, cell[c].n>>}
  <2>1. UNCHANGED <<heap, enqueuing>> BY <1>5 DEF Cancel
  <2>2. CASE UNCHANGED <<inFlight, queued>> BY <2>1, <2>2
  <2>3. CASE inFlight' = Forgotten(k) /\ queued' = [j \in DOMAIN queued \ {k} |-> queued[j]]
    BY <2>1, <2>3 DEF Forgotten
  <2>4. CASE k \in DOMAIN inFlight /\ inFlight' = [inFlight EXCEPT ![k] = waiters] /\ UNCHANGED queued
    BY <2>1, <2>4
  <2> QED BY <1>5, <2>2, <2>3, <2>4 DEF Cancel
<1>6. ASSUME NEW k \in DOMAIN queued, PrioritizeKeys(k) PROVE QueueTyped'
  <2>1. [queued[k] EXCEPT !.tier = Boost] \in Item /\ [queued[k] EXCEPT !.tier = Boost].key = k
    BY DEF Item
  <2>2. queued' = [queued EXCEPT ![k] = [queued[k] EXCEPT !.tier = Boost]]
    BY <1>6 DEF PrioritizeKeys
  <2>3. heap' = Append(heap, [queued[k] EXCEPT !.tier = Boost]) /\ UNCHANGED <<inFlight, enqueuing>>
    BY <1>6 DEF PrioritizeKeys
  <2> QED BY SMTT(60), <2>1, <2>2, <2>3
<1>7. ASSUME NEW w \in Workers, PopRequest(w) PROVE QueueTyped'
  <2>1. heap' \in Seq(Item) BY <1>7, PoppedHeap
  <2>2. queued' = [j \in DOMAIN queued \ {heap[Taken].key} |-> queued[j]] /\ UNCHANGED <<inFlight, enqueuing>>
    BY <1>7 DEF PopRequest
  <2> QED BY <2>1, <2>2
<1>8. ASSUME NEW w \in Workers, PullRow(w) PROVE QueueTyped' BY SMTT(60), <1>8 DEF PullRow
<1>9. ASSUME NEW w \in Workers, RegisterPull(w) PROVE QueueTyped'
  <2>1. worker[w].item.key \in Key BY <1>9 DEF RegisterPull, WorkersTyped, Item
  <2>2. inFlight' \in {inFlight, Entered(inFlight, worker[w].item.key, {})}
        /\ UNCHANGED <<queued, heap, enqueuing>>
    BY <1>9 DEF RegisterPull
  <2> QED BY <2>1, <2>2 DEF Entered
<1>10. ASSUME NEW w \in Workers, Store(w) \/ DropInFlight(w) PROVE QueueTyped'
  <2>1. inFlight' = Forgotten(worker[w].item.key) /\ UNCHANGED <<queued, heap, enqueuing>>
    BY <1>10 DEF Store, DropInFlight
  <2> QED BY <2>1 DEF Forgotten
<1>11. ASSUME NEW w \in Workers, Generate(w) \/ MarkThumbnailsGenerated(w) \/ Reply(w) PROVE QueueTyped'
  BY <1>11 DEF Generate, LoadPixbuf, GenerateViaPixbuf, UnavailablePlaceholder, Generated,
       MarkThumbnailsGenerated, Reply, queueVars
<1> QED
  BY <1>1, <1>2, <1>3, <1>4, <1>5, <1>6, <1>7, <1>8, <1>9, <1>10, <1>11 DEF LoaderStep, Work

\* Every step keeps the requests of the cells well typed.
LEMMA CellsStep ==
    ASSUME LoaderTypes, [LoaderStep]_loaderVars
    PROVE  CellsTyped'
<1> USE DEF LoaderTypes, CellsTyped
<1>1. \A ws : Answered(ws) \in [Cells -> [key : Key, n : Nat] \cup {NoRequest}] BY DEF Answered
<1>2. CASE UNCHANGED loaderVars BY <1>2 DEF loaderVars
<1>3. ASSUME NEW c \in Cells, NEW s \in Sources,
             RequestJoin(c, s) \/ \E tier \in {Boost, Normal} : RequestNew(c, s, tier)
      PROVE  CellsTyped'
  <2>1. [key |-> CacheKey(s), n |-> thumbBudget.asks] \in [key : Key, n : Nat]
    BY KeyOfSource DEF RowsTyped
  <2>2. Asks(c, CacheKey(s)) BY <1>3 DEF RequestJoin, RequestNew
  <2> QED BY <2>1, <2>2 DEF Asks
<1>4. CASE Enqueue BY <1>1, <1>4 DEF Enqueue
<1>5. ASSUME NEW c \in Cells, Cancel(c) PROVE CellsTyped' BY <1>5 DEF Cancel
<1>6. ASSUME NEW k \in DOMAIN queued, PrioritizeKeys(k) PROVE CellsTyped' BY <1>6 DEF PrioritizeKeys
<1>7. ASSUME NEW w \in Workers, DropInFlight(w) \/ Reply(w) PROVE CellsTyped'
  BY SMTT(60), <1>1, <1>7 DEF DropInFlight, Reply
<1>8. ASSUME NEW w \in Workers, PopRequest(w) \/ PullRow(w) \/ RegisterPull(w) \/ Store(w)
      PROVE  CellsTyped'
  BY <1>8 DEF PopRequest, PullRow, RegisterPull, Store
<1>9. ASSUME NEW w \in Workers, Generate(w) \/ MarkThumbnailsGenerated(w) PROVE CellsTyped'
  BY <1>9 DEF Generate, LoadPixbuf, GenerateViaPixbuf, UnavailablePlaceholder, Generated,
       MarkThumbnailsGenerated
<1> QED BY <1>2, <1>3, <1>4, <1>5, <1>6, <1>7, <1>8, <1>9 DEF LoaderStep, Work

(* What a step of worker w does to the workers: only w moves, as one of its *)
(* operations moves it.                                                     *)
Moves(w, pc, item, waiters) ==
    /\ \A v \in Workers \ {w} : worker'[v] = worker[v]
    /\ worker'[w].pc = pc /\ worker'[w].item = item /\ worker'[w].waiters = waiters

\* How each operation of worker_loop moves its worker.
LEMMA WorkerMoves ==
    ASSUME LoaderTypes, NEW w \in Workers
    PROVE  /\ PopRequest(w) => Moves(w, "generate", heap[Taken], worker[w].waiters)
           /\ PullRow(w) => \/ worker' = worker
                            \/ \E i \in Item : Moves(w, "register", i, worker[w].waiters)
           /\ RegisterPull(w) =>
                 IF worker[w].item.key \notin DOMAIN inFlight \cup DOMAIN queued
                 THEN Moves(w, "generate", worker[w].item, worker[w].waiters)
                 ELSE Moves(w, "idle", NoItem, {})
           /\ Generate(w) => Moves(w, "store", worker[w].item, worker[w].waiters)
           /\ Store(w) => \E pc \in {"mark", "reply"} :
                 Moves(w, pc, worker[w].item, inFlight[worker[w].item.key])
           /\ MarkThumbnailsGenerated(w) => Moves(w, "reply", worker[w].item, worker[w].waiters)
           /\ DropInFlight(w) \/ Reply(w) => Moves(w, "idle", NoItem, {})
<1> USE DEF LoaderTypes, WorkersTyped, Moves
<1>1. PopRequest(w) => Moves(w, "generate", heap[Taken], worker[w].waiters) BY SMTT(60) DEF PopRequest
<1>2. ASSUME PullRow(w)
      PROVE  worker' = worker \/ \E i \in Item : Moves(w, "register", i, worker[w].waiters)
  <2>1. ASSUME NEW k \in Key,
               worker' = [worker EXCEPT ![w].pc = "register",
                              ![w].item = [key |-> k, tier |-> Background, media |-> TRUE]]
        PROVE  \E i \in Item : Moves(w, "register", i, worker[w].waiters)
    <3> DEFINE i == [key |-> k, tier |-> Background, media |-> TRUE]
    <3>1. i \in Item BY DEF Item
    <3>2. Moves(w, "register", i, worker[w].waiters) BY <2>1
    <3> HIDE DEF i
    <3> QED BY <3>1, <3>2 DEF i
  <2> QED BY <1>2, <2>1, PulledKey
<1>3. ASSUME RegisterPull(w)
      PROVE  IF worker[w].item.key \notin DOMAIN inFlight \cup DOMAIN queued
             THEN Moves(w, "generate", worker[w].item, worker[w].waiters)
             ELSE Moves(w, "idle", NoItem, {})
  <2>1. CASE worker[w].item.key \notin DOMAIN inFlight \cup DOMAIN queued
    BY <1>3, <2>1 DEF RegisterPull
  <2>2. CASE ~(worker[w].item.key \notin DOMAIN inFlight \cup DOMAIN queued)
    BY <1>3, <2>2 DEF RegisterPull, IdleWorker
  <2> QED BY <2>1, <2>2
<1>4. Generate(w) => Moves(w, "store", worker[w].item, worker[w].waiters)
  BY SMTT(60) DEF Generate, LoadPixbuf, GenerateViaPixbuf, UnavailablePlaceholder, Generated
<1>5. ASSUME Store(w)
      PROVE  \E pc \in {"mark", "reply"} : Moves(w, pc, worker[w].item, inFlight[worker[w].item.key])
  <2>1. CASE MustMark(w) BY <1>5, <2>1 DEF Store
  <2>2. CASE ~MustMark(w) BY <1>5, <2>2 DEF Store
  <2> QED BY <2>1, <2>2
<1>6. MarkThumbnailsGenerated(w) => Moves(w, "reply", worker[w].item, worker[w].waiters)
  BY DEF MarkThumbnailsGenerated
<1>7. DropInFlight(w) \/ Reply(w) => Moves(w, "idle", NoItem, {})
  BY SMTT(60) DEF DropInFlight, Reply, IdleWorker
<1> HIDE DEF Moves
<1> QED BY <1>1, <1>2, <1>3, <1>4, <1>5, <1>6, <1>7

-----------------------------------------------------------------------------
(* Who is about a key *)

(* A key a worker produces, or the GTK thread is about to queue, is in      *)
(* flight and not queued, and nobody else is about it; a queued key is in   *)
(* flight; a key in flight is one of the three.                             *)
Keys ==
    /\ \A w \in Workers : Producing(w) =>
          /\ worker[w].item.key \in DOMAIN inFlight
          /\ worker[w].item.key \notin DOMAIN queued
          /\ worker[w].item.key # enqueuing.key
    /\ \A v, w \in Workers :
          Producing(v) /\ Producing(w) /\ worker[v].item.key = worker[w].item.key => v = w
    /\ enqueuing # NoItem =>
          enqueuing.key \in DOMAIN inFlight /\ enqueuing.key \notin DOMAIN queued
    /\ DOMAIN queued \subseteq DOMAIN inFlight
    /\ \A k \in DOMAIN inFlight :
          \/ enqueuing.key = k
          \/ k \in DOMAIN queued
          \/ \E w \in Workers : Producing(w) /\ worker[w].item.key = k

\* Every step keeps the workers well typed; one that is not idle holds an item.
LEMMA WorkersStep ==
    ASSUME LoaderTypes, Keys, [LoaderStep]_loaderVars
    PROVE  WorkersTyped'
<1> DEFINE State == [pc : {"idle", "register", "generate", "store", "mark", "reply"},
                     item : Item \cup {NoItem}, slot : BOOLEAN, hit : BOOLEAN,
                     waiters : SUBSET Ticket]
<1>1. worker \in [Workers -> State] /\ \A w \in Workers : worker[w].pc # "idle" => worker[w].item \in Item
  BY DEF LoaderTypes, WorkersTyped
<1>2. ASSUME NEW w \in Workers, NEW x \in State, x.pc # "idle" => x.item \in Item,
             worker' = [worker EXCEPT ![w] = x]
      PROVE  WorkersTyped'
  <2> HIDE DEF State
  <2>1. worker' \in [Workers -> State] BY <1>1, <1>2
  <2>2. \A v \in Workers : worker'[v].pc # "idle" => worker'[v].item \in Item BY <1>1, <1>2
  <2> QED BY <2>1, <2>2 DEF WorkersTyped, State
<1>3. IdleWorker \in State /\ IdleWorker.pc = "idle" BY DEF IdleWorker
<1>4. CASE UNCHANGED worker BY <1>4 DEF LoaderTypes, WorkersTyped
<1>5. ASSUME NEW w \in Workers, PopRequest(w) PROVE WorkersTyped'
  <2>1. heap[Taken] \in Item
    BY SMTT(60), <1>5, TakenIsFirst DEF PopRequest, LiveItems, LoaderTypes, QueueTyped
  <2> DEFINE x == [worker[w] EXCEPT !.pc = "generate", !.item = heap[Taken]]
  <2>2. worker' = [worker EXCEPT ![w] = x] BY <1>1, <1>5 DEF PopRequest
  <2>3. x \in State /\ x.item \in Item BY <1>1, <2>1
  <2> QED BY <1>2, <2>2, <2>3
<1>6. ASSUME NEW w \in Workers, PullRow(w) PROVE WorkersTyped'
  <2>1. ASSUME NEW k \in Key,
               worker' = [worker EXCEPT ![w].pc = "register",
                              ![w].item = [key |-> k, tier |-> Background, media |-> TRUE]]
        PROVE  WorkersTyped'
    <3> DEFINE i == [key |-> k, tier |-> Background, media |-> TRUE]
               x == [worker[w] EXCEPT !.pc = "register", !.item = i]
    <3>1. worker' = [worker EXCEPT ![w] = x] BY <1>1, <2>1
    <3>2. x \in State /\ x.item \in Item
      <4>1. i \in Item BY DEF Item
      <4> HIDE DEF i
      <4> QED BY <1>1, <4>1
    <3> QED BY <1>2, <3>1, <3>2
  <2> QED BY <1>4, <1>6, <2>1, PulledKey
<1>7. ASSUME NEW w \in Workers, RegisterPull(w) PROVE WorkersTyped'
  <2> DEFINE x == [worker[w] EXCEPT !.pc = "generate", !.slot = TRUE]
  <2>1. x \in State /\ x.item \in Item BY <1>1, <1>7 DEF RegisterPull
  <2>2. \/ worker' = [worker EXCEPT ![w] = x]
        \/ worker' = [worker EXCEPT ![w] = IdleWorker]
    BY <1>7 DEF RegisterPull
  <2> HIDE DEF x
  <2> QED BY <1>2, <1>3, <2>1, <2>2
<1>8. ASSUME NEW w \in Workers, Generate(w) PROVE WorkersTyped'
  <2>1. PICK h \in BOOLEAN : Generated(w, h)
    BY <1>8 DEF Generate, LoadPixbuf, GenerateViaPixbuf, UnavailablePlaceholder
  <2> DEFINE x == [worker[w] EXCEPT !.pc = "store", !.hit = h]
  <2>2. x \in State /\ x.item \in Item BY <1>1, <2>1 DEF Generated
  <2>3. worker' = [worker EXCEPT ![w] = x] BY <1>1, <2>1 DEF Generated
  <2> QED BY <1>2, <2>2, <2>3
<1>9. ASSUME NEW w \in Workers, Store(w) PROVE WorkersTyped'
  <2>1. PICK pc \in {"mark", "reply"} :
           worker' = [worker EXCEPT ![w].pc = pc, ![w].waiters = inFlight[worker[w].item.key]]
    <3>1. CASE MustMark(w) BY <1>9, <3>1 DEF Store
    <3>2. CASE ~MustMark(w) BY <1>9, <3>2 DEF Store
    <3> QED BY <3>1, <3>2
  <2>2. inFlight[worker[w].item.key] \in SUBSET Ticket
    BY <1>9 DEF Store, Producing, Keys, LoaderTypes, QueueTyped
  <2> DEFINE x == [worker[w] EXCEPT !.pc = pc, !.waiters = inFlight[worker[w].item.key]]
  <2>3. x \in State /\ x.item \in Item BY <1>1, <1>9, <2>2 DEF Store
  <2>4. worker' = [worker EXCEPT ![w] = x] BY <1>1, <2>1
  <2> QED BY <1>2, <2>3, <2>4
<1>10. ASSUME NEW w \in Workers, MarkThumbnailsGenerated(w) PROVE WorkersTyped'
  <2> DEFINE x == [worker[w] EXCEPT !.pc = "reply"]
  <2>1. x \in State /\ x.item \in Item BY <1>1, <1>10 DEF MarkThumbnailsGenerated
  <2>2. worker' = [worker EXCEPT ![w] = x] BY <1>1, <1>10 DEF MarkThumbnailsGenerated
  <2> QED BY <1>2, <2>1, <2>2
<1>11. ASSUME NEW w \in Workers, DropInFlight(w) \/ Reply(w) PROVE WorkersTyped'
  BY <1>2, <1>3, <1>11 DEF DropInFlight, Reply
<1>12. ASSUME NEW c \in Cells, NEW s \in Sources,
             RequestJoin(c, s) \/ \E tier \in {Boost, Normal} : RequestNew(c, s, tier)
      PROVE  UNCHANGED worker
  BY <1>12 DEF RequestJoin, RequestNew
<1>13. Enqueue => UNCHANGED worker BY DEF Enqueue
<1>14. \A c \in Cells : Cancel(c) => UNCHANGED worker BY DEF Cancel
<1>15. \A k \in DOMAIN queued : PrioritizeKeys(k) => UNCHANGED worker BY DEF PrioritizeKeys
<1> QED
  BY <1>4, <1>5, <1>6, <1>7, <1>8, <1>9, <1>10, <1>11, <1>12, <1>13, <1>14, <1>15
  DEF LoaderStep, Work, loaderVars

\* Every step keeps each key with one owner.
LEMMA KeysStep ==
    ASSUME LoaderTypes, Keys, [LoaderStep]_loaderVars
    PROVE  Keys'
<1> USE DEF Producing
<1>1. CASE UNCHANGED loaderVars BY <1>1 DEF Keys, loaderVars
<1>2. NoItem.key = NoKey /\ NoKey \notin Key /\ NoItem \notin Item BY NoKeyIsNone DEF NoItem
<1>3. DOMAIN inFlight \subseteq Key /\ DOMAIN queued \subseteq Key
  BY DEF LoaderTypes, QueueTyped, Keys
<1>4. ASSUME NEW c \in Cells, NEW s \in Sources, RequestJoin(c, s) PROVE Keys'
  <2>1. DOMAIN inFlight' = DOMAIN inFlight /\ UNCHANGED <<queued, enqueuing, worker>>
    BY <1>4 DEF RequestJoin
  <2> QED BY <2>1 DEF Keys
<1>5. ASSUME NEW c \in Cells, NEW s \in Sources, NEW tier \in {Boost, Normal}, RequestNew(c, s, tier)
      PROVE  Keys'
  <2> DEFINE k == CacheKey(s)
  <2>1. k \notin DOMAIN inFlight /\ enqueuing'.key = k /\ enqueuing = NoItem /\ UNCHANGED <<queued, worker>>
    BY <1>5 DEF RequestNew, Idle
  <2>2. DOMAIN inFlight' = DOMAIN inFlight \cup {k} BY <1>5 DEF RequestNew, Entered
  <2> HIDE DEF k
  <2> QED BY SMTT(60), <1>2, <1>3, <2>1, <2>2 DEF Keys
<1>6. CASE Enqueue
  <2> DEFINE k == enqueuing.key
  <2>1. enqueuing # NoItem /\ enqueuing' = NoItem /\ UNCHANGED worker BY <1>6 DEF Enqueue
  <2>2. CASE inFlight' = Forgotten(k) /\ UNCHANGED queued
    <3>1. DOMAIN inFlight' = DOMAIN inFlight \ {k} BY <2>2 DEF Forgotten
    <3> QED BY <1>2, <1>3, <2>1, <2>2, <3>1 DEF Keys
  <2>3. CASE queued' = Entered(queued, k, enqueuing) /\ UNCHANGED inFlight
    <3>1. DOMAIN queued' = DOMAIN queued \cup {k} BY <2>3 DEF Entered
    <3> QED BY <1>2, <1>3, <2>1, <2>3, <3>1 DEF Keys
  <2> QED BY <1>6, <2>2, <2>3 DEF Enqueue
<1>7. ASSUME NEW c \in Cells, Cancel(c) PROVE Keys'
  <2> DEFINE k == cell[c].key
  <2>1. enqueuing = NoItem /\ UNCHANGED <<enqueuing, worker>> BY <1>7 DEF Cancel
  <2>2. CASE DOMAIN inFlight' = DOMAIN inFlight /\ UNCHANGED queued BY <2>1, <2>2 DEF Keys
  <2>3. CASE /\ k \in DOMAIN queued /\ inFlight' = Forgotten(k)
             /\ queued' = [j \in DOMAIN queued \ {k} |-> queued[j]]
    <3>1. DOMAIN inFlight' = DOMAIN inFlight \ {k} /\ DOMAIN queued' = DOMAIN queued \ {k}
      BY <2>3 DEF Forgotten
    <3> HIDE DEF k
    <3> QED BY SMTT(60), <2>1, <2>3, <3>1 DEF Keys
  <2> QED BY <1>7, <2>2, <2>3 DEF Cancel
<1>8. ASSUME NEW k \in DOMAIN queued, PrioritizeKeys(k) PROVE Keys'
  <2>1. DOMAIN queued' = DOMAIN queued /\ UNCHANGED <<inFlight, enqueuing, worker>>
    BY <1>8 DEF PrioritizeKeys
  <2> QED BY <2>1 DEF Keys
<1>9. ASSUME NEW w \in Workers, PopRequest(w) PROVE Keys'
  <2> DEFINE k == heap[Taken].key
  <2>1. k \in DOMAIN queued BY <1>9, TakenIsFirst DEF PopRequest, LiveItems, Live
  <2>2. worker[w].pc = "idle" /\ DOMAIN queued' = DOMAIN queued \ {k} /\ UNCHANGED <<inFlight, enqueuing>>
    BY <1>9 DEF PopRequest
  <2>3. Moves(w, "generate", heap[Taken], worker[w].waiters) BY <1>9, WorkerMoves
  <2>4. enqueuing.key # k BY <1>2, <1>3, <2>1 DEF Keys
  <2> QED BY SMTT(60), <2>1, <2>2, <2>3, <2>4 DEF Keys, Moves
<1>10. ASSUME NEW w \in Workers, PullRow(w) PROVE Keys'
  <2>1. worker[w].pc = "idle" /\ UNCHANGED <<inFlight, queued, enqueuing>> BY <1>10 DEF PullRow
  <2>2. worker' = worker \/ \E i \in Item : Moves(w, "register", i, worker[w].waiters)
    BY <1>10, WorkerMoves
  <2> QED BY SMTT(60), <2>1, <2>2 DEF Keys, Moves
<1>11. ASSUME NEW w \in Workers, RegisterPull(w) PROVE Keys'
  <2> DEFINE k == worker[w].item.key
  <2>1. worker[w].pc = "register" /\ UNCHANGED <<queued, enqueuing>> BY <1>11 DEF RegisterPull
  <2>2. k \in Key BY <2>1 DEF LoaderTypes, WorkersTyped, Item
  <2>3. CASE k \notin DOMAIN inFlight \cup DOMAIN queued
    <3>1. DOMAIN inFlight' = DOMAIN inFlight \cup {k} BY <1>11, <2>3 DEF RegisterPull, Entered
    <3>2. Moves(w, "generate", worker[w].item, worker[w].waiters) BY <1>11, <2>3, WorkerMoves
    <3>3. enqueuing.key # k BY <1>2, <2>2, <2>3 DEF Keys
    <3> QED BY SMTT(60), <2>1, <2>3, <3>1, <3>2, <3>3 DEF Keys, Moves
  <2>4. CASE ~(k \notin DOMAIN inFlight \cup DOMAIN queued)
    <3>1. Moves(w, "idle", NoItem, {}) BY <1>11, <2>4, WorkerMoves
    <3>2. UNCHANGED inFlight BY <1>11, <2>4 DEF RegisterPull
    <3> QED BY SMTT(60), <2>1, <3>1, <3>2 DEF Keys, Moves
  <2> QED BY <2>3, <2>4
<1>12. ASSUME NEW w \in Workers, Generate(w) PROVE Keys'
  <2>1. worker[w].pc = "generate" /\ UNCHANGED <<inFlight, queued, enqueuing>>
    BY <1>12 DEF Generate, LoadPixbuf, GenerateViaPixbuf, UnavailablePlaceholder, Generated, queueVars
  <2>2. Moves(w, "store", worker[w].item, worker[w].waiters) BY <1>12, WorkerMoves
  <2> QED BY SMTT(60), <2>1, <2>2 DEF Keys, Moves
<1>13. ASSUME NEW w \in Workers, Store(w) \/ DropInFlight(w) PROVE Keys'
  <2> DEFINE k == worker[w].item.key
  <2>1. worker[w].pc \in {"generate", "store"} /\ inFlight' = Forgotten(k) /\ UNCHANGED <<queued, enqueuing>>
    BY <1>13 DEF Store, DropInFlight
  <2>2. DOMAIN inFlight' = DOMAIN inFlight \ {k} BY <2>1 DEF Forgotten
  <2>3. PICK pc, i, ws : pc \in {"mark", "reply", "idle"} /\ Moves(w, pc, i, ws) BY <1>13, WorkerMoves
  <2> QED BY SMTT(60), <2>1, <2>2, <2>3 DEF Keys, Moves
<1>14. ASSUME NEW w \in Workers, MarkThumbnailsGenerated(w) \/ Reply(w) PROVE Keys'
  <2>1. worker[w].pc \in {"mark", "reply"} /\ UNCHANGED <<inFlight, queued, enqueuing>>
    BY <1>14 DEF MarkThumbnailsGenerated, Reply, queueVars
  <2>2. PICK pc, i, ws : pc \in {"reply", "idle"} /\ Moves(w, pc, i, ws) BY <1>14, WorkerMoves
  <2> QED BY SMTT(60), <2>1, <2>2 DEF Keys, Moves
<1> QED
  BY <1>1, <1>4, <1>5, <1>6, <1>7, <1>8, <1>9, <1>10, <1>11, <1>12, <1>13, <1>14 DEF LoaderStep, Work

-----------------------------------------------------------------------------
(* What is queued can be found *)

(* Every queued key has an item in the heap that still names its tier. *)
Findable ==
    \A k \in DOMAIN queued : \E i \in 1..Len(heap) :
        heap[i].key = k /\ heap[i].tier = queued[k].tier

\* No boost, cancellation, pop or pull hides a queued key from the workers.
LEMMA FindableStep ==
    ASSUME LoaderTypes, Findable, [LoaderStep]_loaderVars
    PROVE  Findable'
<1>1. heap \in Seq(Item) /\ \A i \in 1..Len(heap) : heap[i] \in Item BY SMTT(60) DEF LoaderTypes, QueueTyped
<1>2. ASSUME NEW x \in Item, heap' = Append(heap, x)
      PROVE  /\ Len(heap) + 1 \in 1..Len(heap') /\ heap'[Len(heap) + 1] = x
             /\ \A i \in 1..Len(heap) : i \in 1..Len(heap') /\ heap'[i] = heap[i]
  BY SMTT(60), <1>1, <1>2
<1>3. CASE UNCHANGED <<queued, heap>> BY <1>3 DEF Findable
<1>4. CASE Enqueue
  <2>1. enqueuing \in Item BY <1>4 DEF Enqueue, LoaderTypes, QueueTyped
  <2>2. CASE /\ queued' = Entered(queued, enqueuing.key, enqueuing)
             /\ heap' = Append(heap, enqueuing)
    <3>1. DOMAIN queued' = DOMAIN queued \cup {enqueuing.key} /\ queued'[enqueuing.key] = enqueuing
          /\ \A k \in DOMAIN queued : k # enqueuing.key => queued'[k] = queued[k]
      BY <2>2 DEF Entered
    <3> QED BY SMTT(60), <1>2, <2>1, <2>2, <3>1 DEF Findable
  <2> QED BY <1>3, <1>4, <2>2 DEF Enqueue
<1>5. ASSUME NEW c \in Cells, Cancel(c) PROVE Findable'
  <2>1. CASE queued' = [j \in DOMAIN queued \ {cell[c].key} |-> queued[j]] /\ UNCHANGED heap
    BY <2>1 DEF Findable
  <2> QED BY <1>3, <1>5, <2>1 DEF Cancel
<1>6. ASSUME NEW k \in DOMAIN queued, PrioritizeKeys(k) PROVE Findable'
  <2> DEFINE x == [queued[k] EXCEPT !.tier = Boost]
  <2>1. x \in Item /\ x.key = k /\ x.tier = Boost BY DEF LoaderTypes, QueueTyped, Item
  <2>2. queued' = [queued EXCEPT ![k] = x] /\ heap' = Append(heap, x)
    BY <1>6 DEF PrioritizeKeys, LoaderTypes, QueueTyped
  <2> HIDE DEF x
  <2>3. DOMAIN queued' = DOMAIN queued /\ queued'[k] = x
        /\ \A j \in DOMAIN queued : j # k => queued'[j] = queued[j]
    BY <2>2
  <2> QED BY SMTT(60), <1>2, <2>1, <2>2, <2>3 DEF Findable
<1>7. ASSUME NEW w \in Workers, PopRequest(w) PROVE Findable'
  <2>1. queued' = [j \in DOMAIN queued \ {heap[Taken].key} |-> queued[j]] /\ LiveItems # {}
    BY <1>7 DEF PopRequest
  <2>2. Taken \in LiveItems /\ \A j \in LiveItems : Before(Taken, j) BY <2>1, TakenIsFirst
  <2>3. ASSUME NEW i \in LiveItems, heap[i].key # heap[Taken].key PROVE ~Before(i, Taken)
    <3>1. i \in Int /\ Taken \in Int /\ i # Taken BY SMTT(60), <2>2, <2>3 DEF LiveItems
    <3>2. heap[i].tier \in Int /\ heap[Taken].tier \in Int
      BY SMTT(60), <1>1, <2>2 DEF LiveItems, Item, Boost, Normal, Background
    <3>3. Before(Taken, i) BY <2>2
    <3> QED BY SMTT(60), <3>1, <3>2, <3>3 DEF Before
  <2>4. ASSUME NEW k \in DOMAIN queued, k # heap[Taken].key
        PROVE  \E n \in 1..Len(heap') : heap'[n].key = k /\ heap'[n].tier = queued[k].tier
    <3>1. PICK i \in 1..Len(heap) : heap[i].key = k /\ heap[i].tier = queued[k].tier BY DEF Findable
    <3>2. i \in LiveItems BY <3>1 DEF LiveItems, Live
    <3>3. ~Before(i, Taken) BY <2>3, <2>4, <3>1, <3>2
    <3> QED BY <1>7, <3>1, <3>3, PoppedHeap
  <2> QED BY <2>1, <2>4 DEF Findable
<1>8. ASSUME NEW w \in Workers, PullRow(w) PROVE Findable'
  <2>1. LiveItems = {} /\ UNCHANGED queued BY <1>8 DEF PullRow
  <2>2. ASSUME NEW k \in DOMAIN queued PROVE FALSE
    <3>1. PICK i \in 1..Len(heap) : heap[i].key = k /\ heap[i].tier = queued[k].tier BY DEF Findable
    <3>2. i \in LiveItems BY <3>1 DEF LiveItems, Live
    <3> QED BY <2>1, <3>2
  <2> QED BY <2>1, <2>2 DEF Findable
<1>9. ASSUME NEW w \in Workers,
             RegisterPull(w) \/ Store(w) \/ DropInFlight(w) \/ MarkThumbnailsGenerated(w) \/ Reply(w)
      PROVE  UNCHANGED <<queued, heap>>
  BY <1>9 DEF RegisterPull, Store, DropInFlight, MarkThumbnailsGenerated, Reply, queueVars
<1>10. ASSUME NEW w \in Workers, Generate(w) PROVE UNCHANGED <<queued, heap>>
  BY <1>10 DEF Generate, LoadPixbuf, GenerateViaPixbuf, UnavailablePlaceholder, Generated, queueVars
<1>11. ASSUME NEW c \in Cells, NEW s \in Sources,
             RequestJoin(c, s) \/ \E tier \in {Boost, Normal} : RequestNew(c, s, tier)
      PROVE  UNCHANGED <<queued, heap>>
  BY <1>11 DEF RequestJoin, RequestNew
<1> QED
  BY <1>3, <1>4, <1>5, <1>6, <1>7, <1>8, <1>9, <1>10, <1>11 DEF LoaderStep, Work, loaderVars

-----------------------------------------------------------------------------
(* Who waits is registered *)

(* A worker holds waiters only between storing the picture and replying;    *)
(* a waiting cell is registered with its key in flight or with a worker.    *)
Registered ==
    /\ \A w \in Workers : worker[w].pc \notin {"mark", "reply"} => worker[w].waiters = {}
    /\ \A c \in Cells : cell[c] # NoRequest =>
          \/ cell[c].key \in DOMAIN inFlight /\ <<c, cell[c].n>> \in inFlight[cell[c].key]
          \/ \E w \in Workers : <<c, cell[c].n>> \in worker[w].waiters

\* No step drops the reply channel of a waiting cell without answering it.
LEMMA RegisteredStep ==
    ASSUME LoaderTypes, Keys, Registered, [LoaderStep]_loaderVars
    PROVE  Registered'
<1>1. CASE UNCHANGED <<inFlight, cell, worker>> BY <1>1 DEF Registered
<1>2. cell \in [Cells -> [key : Key, n : Nat] \cup {NoRequest}] BY DEF LoaderTypes, CellsTyped
<1>3. ASSUME NEW c \in Cells, NEW k, Asks(c, k)
      PROVE  /\ cell'[c].key = k /\ <<c, cell'[c].n>> = Waiter(c)
             /\ \A d \in Cells \ {c} : cell'[d] = cell[d]
  BY <1>2, <1>3 DEF Asks, Waiter
<1>4. ASSUME NEW c \in Cells, NEW s \in Sources, RequestJoin(c, s) PROVE Registered'
  <2> DEFINE k == CacheKey(s)
  <2>1. Asks(c, k) /\ k \in DOMAIN inFlight /\ inFlight' = [inFlight EXCEPT ![k] = @ \cup {Waiter(c)}]
        /\ UNCHANGED worker
    BY <1>4 DEF RequestJoin
  <2>2. DOMAIN inFlight' = DOMAIN inFlight /\ Waiter(c) \in inFlight'[k]
        /\ \A j \in DOMAIN inFlight : inFlight[j] \subseteq inFlight'[j]
    BY <2>1 DEF LoaderTypes, QueueTyped
  <2> HIDE DEF k
  <2> QED BY SMTT(60), <1>3, <2>1, <2>2 DEF Registered
<1>5. ASSUME NEW c \in Cells, NEW s \in Sources, NEW tier \in {Boost, Normal}, RequestNew(c, s, tier)
      PROVE  Registered'
  <2> DEFINE k == CacheKey(s)
  <2>1. Asks(c, k) /\ k \notin DOMAIN inFlight /\ inFlight' = Entered(inFlight, k, {Waiter(c)})
        /\ UNCHANGED worker
    BY <1>5 DEF RequestNew
  <2>2. DOMAIN inFlight' = DOMAIN inFlight \cup {k} /\ Waiter(c) \in inFlight'[k]
        /\ \A j \in DOMAIN inFlight : inFlight'[j] = inFlight[j]
    BY <2>1 DEF Entered
  <2>3. /\ cell'[c].key = k /\ <<c, cell'[c].n>> = Waiter(c)
        /\ \A d \in Cells \ {c} : cell'[d] = cell[d]
    BY <1>3, <2>1
  <2> HIDE DEF k
  <2>4. \A d \in Cells : cell'[d] # NoRequest =>
           \/ cell'[d].key \in DOMAIN inFlight' /\ <<d, cell'[d].n>> \in inFlight'[cell'[d].key]
           \/ \E w \in Workers : <<d, cell'[d].n>> \in worker'[w].waiters
    <3>1. ASSUME NEW d \in Cells, d # c, cell'[d] # NoRequest
          PROVE  \/ cell'[d].key \in DOMAIN inFlight' /\ <<d, cell'[d].n>> \in inFlight'[cell'[d].key]
                 \/ \E w \in Workers : <<d, cell'[d].n>> \in worker'[w].waiters
      <4>1. cell'[d] = cell[d] BY <2>3, <3>1
      <4> QED BY <2>1, <2>2, <3>1, <4>1 DEF Registered
    <3>2. cell'[c].key \in DOMAIN inFlight' /\ <<c, cell'[c].n>> \in inFlight'[cell'[c].key]
      BY <2>2, <2>3
    <3> QED BY <3>1, <3>2
  <2> QED BY <2>1, <2>4 DEF Registered
<1>6. ASSUME NEW k \in DOMAIN inFlight, cell' = Answered(inFlight[k]), inFlight' = Forgotten(k),
             \A w \in Workers : worker'[w].waiters = worker[w].waiters
      PROVE  \A c \in Cells : cell'[c] # NoRequest =>
                \/ cell'[c].key \in DOMAIN inFlight' /\ <<c, cell'[c].n>> \in inFlight'[cell'[c].key]
                \/ \E w \in Workers : <<c, cell'[c].n>> \in worker'[w].waiters
  <2>1. \A c \in Cells : cell'[c] # NoRequest => cell'[c] = cell[c] /\ <<c, cell[c].n>> \notin inFlight[k]
    BY <1>6 DEF Answered, Waits
  <2>2. \A j \in DOMAIN inFlight \ {k} : j \in DOMAIN inFlight' /\ inFlight'[j] = inFlight[j]
    BY <1>6 DEF Forgotten
  <2> SUFFICES ASSUME NEW c \in Cells, cell'[c] # NoRequest
               PROVE  \/ cell'[c].key \in DOMAIN inFlight' /\ <<c, cell'[c].n>> \in inFlight'[cell'[c].key]
                      \/ \E w \in Workers : <<c, cell'[c].n>> \in worker'[w].waiters
    OBVIOUS
  <2>3. cell'[c] = cell[c] /\ <<c, cell[c].n>> \notin inFlight[k] BY <2>1
  <2>4. CASE cell[c].key \in DOMAIN inFlight /\ <<c, cell[c].n>> \in inFlight[cell[c].key]
    BY <2>2, <2>3, <2>4
  <2>5. CASE \E w \in Workers : <<c, cell[c].n>> \in worker[w].waiters BY <1>6, <2>3, <2>5
  <2> QED BY <2>3, <2>4, <2>5 DEF Registered
<1>7. CASE Enqueue
  <2>1. CASE cell' = Answered(inFlight[enqueuing.key]) /\ inFlight' = Forgotten(enqueuing.key)
    <3>1. enqueuing.key \in DOMAIN inFlight /\ UNCHANGED worker BY <1>7 DEF Enqueue, Keys
    <3> QED BY <1>6, <2>1, <3>1 DEF Registered
  <2> QED BY <1>1, <1>7, <2>1 DEF Enqueue
<1>8. ASSUME NEW c \in Cells, Cancel(c) PROVE Registered'
  <2> DEFINE k == cell[c].key
             waiters == inFlight[k] \ {<<c, cell[c].n>>}
  <2>1. cell'[c] = NoRequest /\ (\A d \in Cells \ {c} : cell'[d] = cell[d]) /\ UNCHANGED worker
    BY <1>2, <1>8 DEF Cancel
  <2>2. CASE UNCHANGED inFlight BY <2>1, <2>2 DEF Registered
  <2>3. CASE waiters = {} /\ inFlight' = Forgotten(k)
    <3>1. \A j \in DOMAIN inFlight \ {k} : j \in DOMAIN inFlight' /\ inFlight'[j] = inFlight[j]
      BY <2>3 DEF Forgotten
    <3>2. \A d \in Cells \ {c} : <<d, cell[d].n>> \notin inFlight[k] BY SMTT(60), <2>3
    <3> QED BY SMTT(60), <2>1, <3>1, <3>2 DEF Registered
  <2>4. CASE k \in DOMAIN inFlight /\ inFlight' = [inFlight EXCEPT ![k] = waiters]
    <3>1. DOMAIN inFlight' = DOMAIN inFlight /\ \A d \in Cells \ {c}, j \in DOMAIN inFlight :
             <<d, cell[d].n>> \in inFlight[j] => <<d, cell[d].n>> \in inFlight'[j]
      BY <2>4
    <3> QED BY <2>1, <3>1 DEF Registered
  <2> QED BY <1>8, <2>2, <2>3, <2>4 DEF Cancel
<1>9. ASSUME NEW k \in DOMAIN queued, PrioritizeKeys(k) PROVE Registered'
  BY <1>1, <1>9 DEF PrioritizeKeys
<1>10. ASSUME NEW w \in Workers, worker[w].waiters = {}, UNCHANGED <<cell>>,
              \A k \in DOMAIN inFlight : k \in DOMAIN inFlight' /\ inFlight'[k] = inFlight[k],
              \/ worker' = worker
              \/ \E pc, i : Moves(w, pc, i, {})
       PROVE  Registered'
  BY <1>10 DEF Registered, Moves
<1>11. ASSUME NEW w \in Workers, PopRequest(w) PROVE Registered'
  <2>1. worker[w].waiters = {} /\ UNCHANGED <<cell, inFlight>> BY <1>11 DEF PopRequest, Registered
  <2> QED BY <1>10, <1>11, <2>1, WorkerMoves
<1>12. ASSUME NEW w \in Workers, PullRow(w) PROVE Registered'
  <2>1. worker[w].waiters = {} /\ UNCHANGED <<cell, inFlight>> BY <1>12 DEF PullRow, Registered
  <2> QED BY <1>10, <1>12, <2>1, WorkerMoves
<1>13. ASSUME NEW w \in Workers, RegisterPull(w) PROVE Registered'
  <2>1. worker[w].waiters = {} /\ UNCHANGED cell BY <1>13 DEF RegisterPull, Registered
  <2>2. \A k \in DOMAIN inFlight : k \in DOMAIN inFlight' /\ inFlight'[k] = inFlight[k]
    BY <1>13 DEF RegisterPull, Entered
  <2>3. \E pc, i : Moves(w, pc, i, {}) BY <1>13, <2>1, WorkerMoves
  <2> QED BY <1>10, <2>1, <2>2, <2>3
<1>14. ASSUME NEW w \in Workers, Generate(w) PROVE Registered'
  <2>1. worker[w].waiters = {} /\ UNCHANGED <<cell, inFlight>>
    BY <1>14 DEF Generate, LoadPixbuf, GenerateViaPixbuf, UnavailablePlaceholder, Generated,
         queueVars, Registered
  <2> QED BY <1>10, <1>14, <2>1, WorkerMoves
<1>15. ASSUME NEW w \in Workers, DropInFlight(w) PROVE Registered'
  <2>1. worker[w].pc = "generate" /\ worker[w].waiters = {} /\ worker[w].item.key \in DOMAIN inFlight
    BY <1>15 DEF DropInFlight, Registered, Keys, Producing
  <2>2. Moves(w, "idle", NoItem, {}) BY <1>15, WorkerMoves
  <2>3. cell' = Answered(inFlight[worker[w].item.key]) /\ inFlight' = Forgotten(worker[w].item.key)
    BY <1>15 DEF DropInFlight
  <2>4. \A v \in Workers : worker'[v].waiters = worker[v].waiters BY <2>1, <2>2 DEF Moves
  <2>5. \A v \in Workers : worker'[v].pc \notin {"mark", "reply"} => worker'[v].waiters = {}
    BY <2>2 DEF Moves, Registered
  <2> QED BY <1>6, <2>1, <2>3, <2>4, <2>5 DEF Registered
<1>16. ASSUME NEW w \in Workers, Store(w) PROVE Registered'
  <2> DEFINE k == worker[w].item.key
  <2>1. worker[w].waiters = {} /\ inFlight' = Forgotten(k) /\ UNCHANGED cell
    BY <1>16 DEF Store, Registered
  <2>2. PICK pc \in {"mark", "reply"} : Moves(w, pc, worker[w].item, inFlight[k])
    BY <1>16, WorkerMoves
  <2>3. \A j \in DOMAIN inFlight \ {k} : j \in DOMAIN inFlight' /\ inFlight'[j] = inFlight[j]
    BY <2>1 DEF Forgotten
  <2> HIDE DEF k
  <2> QED BY SMTT(60), <2>1, <2>2, <2>3 DEF Registered, Moves
<1>17. ASSUME NEW w \in Workers, MarkThumbnailsGenerated(w) PROVE Registered'
  <2>1. UNCHANGED <<cell, inFlight>> BY <1>17 DEF MarkThumbnailsGenerated, queueVars
  <2>2. Moves(w, "reply", worker[w].item, worker[w].waiters) BY <1>17, WorkerMoves
  <2> QED BY <2>1, <2>2 DEF Registered, Moves
<1>18. ASSUME NEW w \in Workers, Reply(w) PROVE Registered'
  <2>1. UNCHANGED inFlight /\ cell' = Answered(worker[w].waiters) BY <1>18 DEF Reply, queueVars
  <2>2. \A c \in Cells : cell'[c] # NoRequest => cell'[c] = cell[c] /\ <<c, cell[c].n>> \notin worker[w].waiters
    BY <2>1 DEF Answered, Waits
  <2>3. Moves(w, "idle", NoItem, {}) BY <1>18, WorkerMoves
  <2> QED BY <2>1, <2>2, <2>3 DEF Registered, Moves
<1> QED
  BY <1>1, <1>4, <1>5, <1>7, <1>8, <1>9, <1>11, <1>12, <1>13, <1>14, <1>15, <1>16, <1>17, <1>18
  DEF LoaderStep, Work, loaderVars

-----------------------------------------------------------------------------
(* The invariant of the loader *)

LoaderInv == LoaderTypes /\ Keys /\ Findable /\ Registered

\* The loader's invariant holds in every reachable state.
LEMMA LoaderInductive == ThumbSpec => []LoaderInv
<1>1. ThumbInit => LoaderInv
  <2> SUFFICES ASSUME ThumbInit PROVE LoaderInv OBVIOUS
  <2>1. LoaderTypes BY TypesInit
  <2>2. /\ DOMAIN inFlight = {} /\ DOMAIN queued = {} /\ enqueuing = NoItem
        /\ \A c \in Cells : cell[c] = NoRequest
        /\ \A w \in Workers : worker[w].pc = "idle" /\ worker[w].waiters = {}
    BY SMTT(60) DEF ThumbInit, IdleWorker
  <2>3. Keys BY <2>2 DEF Keys, Producing
  <2>4. Findable BY <2>2 DEF Findable
  <2>5. Registered BY <2>2 DEF Registered
  <2> QED BY <2>1, <2>3, <2>4, <2>5 DEF LoaderInv
<1>2. LoaderInv /\ [ThumbNext]_ThumbVars => LoaderInv'
  <2> SUFFICES ASSUME LoaderInv, [ThumbNext]_ThumbVars PROVE LoaderInv' OBVIOUS
  <2>1. LoaderTypes /\ Keys /\ Findable /\ Registered /\ [LoaderStep]_loaderVars
    BY LoaderSteps DEF LoaderInv
  <2>2. RowsTyped'
    <3>1. CASE UNCHANGED ThumbVars BY <2>1, <3>1 DEF LoaderTypes, RowsTyped, ThumbVars
    <3> QED BY <2>1, <3>1, RowsStep
  <2>3. LoaderTypes' BY <2>1, <2>2, QueueStep, CellsStep, WorkersStep DEF LoaderTypes
  <2>4. Keys' BY <2>1, KeysStep
  <2>5. Findable' BY <2>1, FindableStep
  <2>6. Registered' BY <2>1, RegisteredStep
  <2> QED BY <2>3, <2>4, <2>5, <2>6 DEF LoaderInv
<1> QED BY <1>1, <1>2, PTL DEF ThumbSpec

\* OneProducer: no thumbnail is ever produced twice at once, whatever boosts,
\* cancellations, full queues and prewarm pulls left in the heap (request_inner,
\* prioritize_keys, next_request_or_pull, pull_batch_and_enqueue).
THEOREM NeverProducedTwice == ThumbSpec => []OneProducer
<1>1. LoaderInv => OneProducer
  <2> SUFFICES ASSUME Keys PROVE OneProducer BY DEF LoaderInv
  <2> QED BY SMTT(60) DEF Keys, OneProducer, Producers
<1> QED BY <1>1, LoaderInductive, PTL

\* WaitIsOwed: no request is ever lost. A key in flight is about to be queued,
\* queued under a live item of the heap, or with a worker, and a waiting cell is
\* registered with such a key or with the worker about to reply
\* (cancel_cancellable_request, drop_in_flight, next_request).
THEOREM WaitAlwaysOwed == ThumbSpec => []WaitIsOwed
<1>1. LoaderInv => WaitIsOwed
  <2> SUFFICES ASSUME LoaderInv PROVE WaitIsOwed OBVIOUS
  <2>1. \A k \in DOMAIN inFlight : enqueuing.key = k \/ k \in DOMAIN queued \/ Producers(k) # {}
    BY DEF LoaderInv, Keys, Producers
  <2>2. \A k \in DOMAIN queued : k \in DOMAIN inFlight /\ \E i \in LiveItems : heap[i].key = k
    BY SMTT(60) DEF LoaderInv, Keys, Findable, LiveItems, Live
  <2>3. \A c \in Cells : cell[c] # NoRequest =>
          \/ cell[c].key \in DOMAIN inFlight /\ Waits(c, inFlight[cell[c].key])
          \/ \E w \in Workers : Waits(c, worker[w].waiters)
    BY DEF LoaderInv, Registered, Waits
  <2> QED BY <2>1, <2>2, <2>3 DEF WaitIsOwed
<1> QED BY <1>1, LoaderInductive, PTL
=============================================================================
