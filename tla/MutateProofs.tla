---------------------------- MODULE MutateProofs ----------------------------
(***************************************************************************)
(* Proofs about Mutate: no operation on a file destroys a picture, and a   *)
(* save that fails after it has published its file takes it back, for      *)
(* every set of threads, every sequence of operations and every number of  *)
(* failures, crashes and writes of other programs.                         *)
(*                                                                         *)
(* Effect(t) says what a step of thread t may do to the disk.  Whatever    *)
(* keeps to it preserves the parts of MutateInv that belong to the other   *)
(* threads (OthersRendered, OthersWindow), so that every action is left    *)
(* with its own part and with KeptStands.                                  *)
(***************************************************************************)
EXTENDS Mutate, TLAPS

USE ZenonT(30), SMTT(60)

LEMMA Values ==
    ASSUME NEW S, NEW f, DOMAIN f = S, NEW x \in S
    PROVE  f[x] \in ValuesOf(f)
BY DEF ValuesOf

LEMMA Paths ==
    /\ Photo \in MuPaths /\ Renamed \in MuPaths
    /\ \A p \in FirstFree(AlbumNames) : p \in MuPaths /\ muFs[p] = 0
    /\ \A p \in FirstFree(EditedNames) : p \in MuPaths /\ muFs[p] = 0
BY DEF MuPaths, FirstFree

(***************************************************************************)
(* What stays on disk                                                      *)
(***************************************************************************)
\* Every thread but one is where it was.
OthersWait(t) == \A u \in MuThreads \ {t} : muOps'[u] = muOps[u]

\* A step that neither begins nor ends the removal of a source keeps what stands, when it
\* changes no file that holds it but the tentative one of its own.
LEMMA Settles ==
    ASSUME NEW t, OthersWait(t), t \notin Unlinking',
           DOMAIN muFs = MuPaths, DOMAIN muFs' = MuPaths,
           NEW c \in Standing,
           t \in Tentative' => \/ t \in Tentative /\ muOps'[t].dst = muOps[t].dst
                               \/ muFs[muOps'[t].dst] # c,
           \A q \in MuPaths : muFs[q] = c => muFs'[q] = c \/ (t \in Tentative /\ q = muOps[t].dst)
    PROVE  c \in Standing'
<1>1. ASSUME NEW moved \in SUBSET Unlinking'
      PROVE  Remains(c, moved)'
  <2>1. moved \in SUBSET Unlinking /\ t \notin moved
    BY <1>1 DEF Unlinking, OthersWait
  <2>2. PICK q \in MuPaths : /\ muFs[q] = c
                             /\ \A u \in moved : muOps[u].src # q
                             /\ \A u \in Tentative \ moved : muOps[u].dst # q
    BY <2>1 DEF Standing, Remains
  <2>3. muFs'[q] = c
    BY <2>1, <2>2 DEF Unlinking, Tentative
  <2>4. \A u \in moved : muOps'[u].src # q
    BY <2>1, <2>2 DEF OthersWait, Unlinking
  <2>5. ASSUME NEW u \in Tentative' \ moved PROVE muOps'[u].dst # q
    <3>1. CASE u = t
      BY <2>1, <2>2, <2>5, <3>1
    <3>2. CASE u # t
      BY <2>2, <2>5, <3>2 DEF OthersWait, Tentative
    <3> QED BY <3>1, <3>2
  <2> QED BY <2>3, <2>4, <2>5 DEF Remains
<1>2. c \in ValuesOf(muFs')
  <2>1. Remains(c, {})' BY SMTT(60), <1>1
  <2> QED BY <2>1, Values DEF Remains
<1> QED BY <1>1, <1>2 DEF Standing

\* Removing the source of a move leaves what stands: the new name is not tentative any more.
LEMMA UnlinkedStands ==
    ASSUME NEW t \in Unlinking, OthersWait(t), t \notin Unlinking', t \notin Tentative',
           DOMAIN muFs = MuPaths, DOMAIN muFs' = MuPaths,
           \A q \in MuPaths : q # muOps[t].src => muFs'[q] = muFs[q],
           NEW c \in Standing
    PROVE  c \in Standing'
<1>1. ASSUME NEW moved \in SUBSET Unlinking'
      PROVE  Remains(c, moved)'
  <2>1. moved \cup {t} \in SUBSET Unlinking /\ t \notin moved
    BY <1>1 DEF Unlinking, OthersWait
  <2>2. PICK q \in MuPaths : /\ muFs[q] = c
                             /\ \A u \in moved \cup {t} : muOps[u].src # q
                             /\ \A u \in Tentative \ (moved \cup {t}) : muOps[u].dst # q
    BY <2>1 DEF Standing, Remains
  <2>3. muFs'[q] = c
    BY <2>2
  <2>4. \A u \in moved : muOps'[u].src # q
    BY SMTT(60), <2>1, <2>2 DEF OthersWait, Unlinking
  <2>5. \A u \in Tentative' \ moved : muOps'[u].dst # q
    BY <2>1, <2>2 DEF OthersWait, Tentative
  <2> QED BY <2>3, <2>4, <2>5 DEF Remains
<1>2. c \in ValuesOf(muFs')
  <2>1. Remains(c, {})' BY SMTT(60), <1>1
  <2> QED BY <2>1, Values DEF Remains
<1> QED BY <1>1, <1>2 DEF Standing

\* A move whose new name is in place may go either way: what stands is under another name,
\* or under the new one, which no other operation is about to remove.
LEMMA LinkedStands ==
    ASSUME NEW t \in MuThreads, OthersWait(t), t \notin Unlinking,
           DOMAIN muFs = MuPaths, DOMAIN muFs' = MuPaths,
           NEW d \in MuPaths, muOps'[t].dst = d, muOps'[t].src = muOps[t].src,
           \A q \in MuPaths : q # d => muFs'[q] = muFs[q],
           t \in Tentative => muOps[t].dst = d,
           NEW c \in Standing, muFs[d] # c, muOps[t].src \in MuPaths,
           c = muFs[muOps[t].src] =>
             /\ muFs'[d] = c
             /\ \A u \in MuThreads \ {t} : /\ u \in Tentative => muOps[u].dst # d
                                           /\ u \in Unlinking => muOps[u].src # d
    PROVE  c \in Standing'
<1>1. ASSUME NEW moved \in SUBSET Unlinking'
      PROVE  Remains(c, moved)'
  <2>1. moved \ {t} \in SUBSET Unlinking
    BY <1>1 DEF Unlinking, OthersWait
  <2>2. PICK q \in MuPaths : /\ muFs[q] = c
                             /\ \A u \in moved \ {t} : muOps[u].src # q
                             /\ \A u \in Tentative \ (moved \ {t}) : muOps[u].dst # q
    BY <2>1 DEF Standing, Remains
  <2>3. q # d /\ muFs'[q] = c
    BY <2>2
  <2>4. CASE q # muOps[t].src \/ t \notin moved
    <3>1. \A u \in moved : muOps'[u].src # q
      BY SMTT(60), <2>1, <2>2, <2>4 DEF OthersWait, Unlinking
    <3>2. \A u \in Tentative' \ moved : muOps'[u].dst # q
      BY SMTT(60), <2>2, <2>3 DEF OthersWait, Tentative
    <3> QED BY <2>3, <3>1, <3>2 DEF Remains
  <2>5. CASE q = muOps[t].src /\ t \in moved
    <3>1. muFs'[d] = c /\ d # muOps[t].src
      BY <2>2, <2>3, <2>5
    <3>2. \A u \in moved : muOps'[u].src # d
      BY <2>1, <2>2, <2>5, <3>1 DEF OthersWait, Unlinking
    <3>3. \A u \in Tentative' \ moved : muOps'[u].dst # d
      BY SMTT(60), <2>2, <2>5 DEF OthersWait, Tentative
    <3> QED BY <3>1, <3>2, <3>3 DEF Remains
  <2> QED BY <2>4, <2>5
<1>2. c \in ValuesOf(muFs')
  <2>1. Remains(c, {})' BY SMTT(60), <1>1
  <2> QED BY SMTT(60), <2>1, Values DEF Remains
<1> QED BY <1>1, <1>2 DEF Standing

\* A file that is given another name, which no other operation is about to remove, stands there.
LEMMA RenamedStands ==
    ASSUME NEW t \in MuThreads, OthersWait(t),
           t \notin Unlinking, t \notin Unlinking', t \notin Tentative, t \notin Tentative',
           DOMAIN muFs = MuPaths, DOMAIN muFs' = MuPaths,
           NEW x \in MuPaths, NEW y \in MuPaths,
           \A q \in MuPaths : q # x /\ q # y => muFs'[q] = muFs[q],
           NEW c \in Standing, muFs[y] # c,
           c = muFs[x] => /\ muFs'[y] = c
                          /\ \A u \in MuThreads \ {t} : /\ u \in Tentative => muOps[u].dst # y
                                                        /\ u \in Unlinking => muOps[u].src # y
    PROVE  c \in Standing'
<1>1. ASSUME NEW moved \in SUBSET Unlinking'
      PROVE  Remains(c, moved)'
  <2>1. moved \in SUBSET Unlinking /\ t \notin moved
    BY <1>1 DEF Unlinking, OthersWait
  <2>2. PICK q \in MuPaths : /\ muFs[q] = c
                             /\ \A u \in moved : muOps[u].src # q
                             /\ \A u \in Tentative \ moved : muOps[u].dst # q
    BY <2>1 DEF Standing, Remains
  <2>4. CASE q # x
    <3>0. muFs'[q] = c
      BY <2>2, <2>4
    <3>1. \A u \in moved : muOps'[u].src # q
      BY <2>1, <2>2 DEF OthersWait, Unlinking
    <3>2. \A u \in Tentative' \ moved : muOps'[u].dst # q
      BY <2>2 DEF OthersWait, Tentative
    <3> QED BY <3>0, <3>1, <3>2 DEF Remains
  <2>5. CASE q = x
    <3>1. muFs'[y] = c
      BY <2>2, <2>5
    <3>2. \A u \in moved : muOps'[u].src # y
      BY <2>1, <2>2, <2>5 DEF OthersWait, Unlinking
    <3>3. \A u \in Tentative' \ moved : muOps'[u].dst # y
      BY <2>2, <2>5 DEF OthersWait, Tentative
    <3> QED BY <3>1, <3>2, <3>3 DEF Remains
  <2> QED BY <2>4, <2>5
<1>2. c \in ValuesOf(muFs')
  <2>1. Remains(c, {})' BY SMTT(60), <1>1
  <2> QED BY <2>1, Values DEF Remains
<1> QED BY <1>1, <1>2 DEF Standing

(***************************************************************************)
(* What a step of one thread may do to the files, and what that leaves of  *)
(* the other threads' claims                                               *)
(***************************************************************************)
\* The files that change take a content that was on disk, is the thread's own, or is no
\* picture; where another step is about to replace the file, the content counts as raced.
Touches(t) ==
    /\ muRaced \subseteq muRaced'
    /\ \A q \in MuPaths : muFs'[q] # muFs[q] =>
         /\ muFs'[q] \in OnDisk \cup {0, Partial, muOps[t].new}
         /\ Exposed(t, q) => muFs'[q] \in muRaced'

\* A backup is written only by the overwrite that has come to it.
BacksUp(t) ==
    \/ muBak' = muBak
    \/ /\ muOps[t].kind = "overwrite" /\ muOps[t].step = "backup"
       /\ muBak' = [muBak EXCEPT ![muOps[t].src] = muFs[muOps[t].src]]

Effect(t) ==
    /\ OthersWait(t) /\ Touches(t) /\ BacksUp(t)
    /\ muOps'[t].new \in {0, muOps[t].new, muStamp + 1}
    /\ muKept' \subseteq muKept \cup ({muOps[t].new} \ {0})

LEMMA OthersRendered ==
    ASSUME MutateTypeOK, LeaseHeld, \A u \in MuThreads : Rendered(u),
           NEW t \in MuThreads, Effect(t), MutateTypeOK',
           NEW u \in MuThreads, u # t
    PROVE  Rendered(u)'
<1> DEFINE o == muOps[u]
<1>0. muOps'[u] = o /\ o \in MuOp /\ muOps[t] \in MuOp
  BY DEF Effect, OthersWait, MutateTypeOK
<1>1. SUFFICES ASSUME o.new # 0
               PROVE  /\ o.new \notin muKept'
                      /\ \A v \in MuThreads \ {u} : muOps'[v].new # o.new
                      /\ o.step \in {"check", "backup", "replace", "persist"} => o.new \notin OnDisk'
                      /\ o.kind = "overwrite" => muBak'[o.src] # o.new
  BY <1>0 DEF Rendered
<1>2. /\ o.new >= 2 /\ o.new \notin muKept
      /\ \A v \in MuThreads \ {u} : muOps[v].new # o.new
      /\ o.step \in {"check", "backup", "replace", "persist"} => o.new \notin OnDisk
      /\ o.kind = "overwrite" => o.step # "lease" /\ o.dst = o.src /\ muBak[o.src] # o.new
  BY <1>1 DEF Rendered
<1>3. o.new # muStamp + 1
  BY SMTT(60), <1>0 DEF MuOp, MutateTypeOK
<1>4. o.new \notin muKept'
  BY <1>2 DEF Effect
<1>5. \A v \in MuThreads \ {u} : muOps'[v].new # o.new
  BY <1>1, <1>2, <1>3 DEF Effect, OthersWait
<1>6. ASSUME o.step \in {"check", "backup", "replace", "persist"} PROVE o.new \notin OnDisk'
  <2>1. \A q \in MuPaths : muFs[q] # o.new /\ muBak[q] # o.new
    BY <1>2, <1>6 DEF OnDisk, ValuesOf, MutateTypeOK
  <2>2. ASSUME NEW q \in MuPaths PROVE muFs'[q] # o.new
    <3>1. CASE muFs'[q] = muFs[q] BY <2>1, <3>1
    <3>2. CASE muFs'[q] # muFs[q]
      <4>1. muFs'[q] \in OnDisk \cup {0, Partial, muOps[t].new} BY <3>2 DEF Effect, Touches
      <4>2. o.new # 0 /\ o.new # Partial BY SMTT(60), <1>2 DEF Partial
      <4> QED BY <4>1, <4>2, <1>2, <1>6
    <3> QED BY <3>1, <3>2
  <2>3. ASSUME NEW q \in MuPaths PROVE muBak'[q] # o.new
    <3>1. CASE muBak' = muBak BY <2>1, <3>1
    <3>2. CASE muBak' = [muBak EXCEPT ![muOps[t].src] = muFs[muOps[t].src]]
      <4>1. muOps[t].src \in MuPaths BY <1>0 DEF MuOp
      <4>2. muBak'[q] = IF q = muOps[t].src THEN muFs[q] ELSE muBak[q] BY <3>2, <4>1 DEF MutateTypeOK
      <4> QED BY <2>1, <4>2
    <3> QED BY <3>1, <3>2 DEF Effect, BacksUp
  <2> QED BY <2>2, <2>3 DEF OnDisk, ValuesOf, MutateTypeOK
<1>7. ASSUME o.kind = "overwrite" PROVE muBak'[o.src] # o.new
  <2>1. CASE muBak' = muBak BY <1>2, <1>7, <2>1
  <2>2. CASE muBak' # muBak
    <3>1. t \in muLock BY <2>2 DEF Effect, BacksUp, LeaseHeld
    <3>2. o.step = "lease" BY <1>7, <3>1 DEF LeaseHeld, MutateTypeOK
    <3> QED BY <1>2, <1>7, <3>2, <1>0
  <2> QED BY <2>1, <2>2
<1> QED BY <1>4, <1>5, <1>6, <1>7

\* A claim survives whatever another actor writes, when the backup it names stays.
LEMMA WindowStays ==
    ASSUME MutateTypeOK, NEW u \in MuThreads, Window(u), muOps'[u] = muOps[u],
           NEW t, u # t, muRaced \subseteq muRaced',
           \A q \in MuPaths : muFs'[q] # muFs[q] /\ Exposed(t, q) => muFs'[q] \in muRaced',
           muOps[u].kind = "overwrite" /\ muOps[u].step = "replace" => muBak' = muBak
    PROVE  Window(u)'
<1> DEFINE o == muOps[u]
<1>0. muOps'[u] = o /\ o \in MuOp
  BY DEF MutateTypeOK
<1>p. o.src \in MuPaths /\ o.dst \in MuPaths
  BY <1>0 DEF MuOp
<1>e. ASSUME NEW q \in MuPaths, NEW S, Exposed(t, q), muFs[q] \in S \cup muRaced
      PROVE  muFs'[q] \in S \cup muRaced'
  <2>1. CASE muFs'[q] = muFs[q] BY <1>e, <2>1
  <2>2. CASE muFs'[q] # muFs[q] BY <1>e, <2>2
  <2> QED BY <2>1, <2>2
<1>1. ASSUME o.kind = "overwrite", o.step = "replace"
      PROVE  muFs'[o.src] \in {0, muBak'[o.src]} \cup muRaced'
  <2>1. Exposed(t, o.src) BY <1>1 DEF Exposed
  <2>2. muFs[o.src] \in {0, muBak[o.src]} \cup muRaced BY <1>1 DEF Window
  <2>3. muBak' = muBak BY <1>1
  <2> QED BY <2>1, <2>2, <2>3, <1>e, <1>p
<1>2. ASSUME o.kind = "overwrite", o.step \in {"hash", "commit", "restore"}
      PROVE  muFs'[o.src] \in {o.new} \cup muRaced'
  <2>1. Exposed(t, o.src) BY <1>2 DEF Exposed
  <2>2. muFs[o.src] \in {o.new} \cup muRaced BY <1>2 DEF Window
  <2> QED BY <2>1, <2>2, <1>e, <1>p
<1>3. ASSUME o.kind = "save_copy", o.step \in {"hash", "commit", "undo"}
      PROVE  muFs'[o.dst] \in {o.new} \cup muRaced'
  <2>1. Exposed(t, o.dst) BY <1>3 DEF Exposed
  <2>2. muFs[o.dst] \in {o.new} \cup muRaced BY <1>3 DEF Window
  <2> QED BY <2>1, <2>2, <1>e, <1>p
<1>4. ASSUME o.kind \in {"copy", "move"}, o.step = "fill"
      PROVE  muFs'[o.dst] \in {Partial} \cup muRaced'
  <2>1. Exposed(t, o.dst) BY <1>4 DEF Exposed
  <2>2. muFs[o.dst] \in {Partial} \cup muRaced BY <1>4 DEF Window
  <2> QED BY <2>1, <2>2, <1>e, <1>p
<1>5. ASSUME o.kind = "rename", o.step = "rename"
      PROVE  muFs'[o.dst] \in {0} \cup muRaced'
  <2>1. Exposed(t, o.dst) BY <1>5 DEF Exposed
  <2>2. muFs[o.dst] \in {0} \cup muRaced BY <1>5 DEF Window
  <2> QED BY <2>1, <2>2, <1>e, <1>p
<1>6. ASSUME \/ o.kind \in {"move", "rename"} /\ o.step \in {"relocate", "back"}
             \/ o.kind = "move" /\ o.step = "free"
      PROVE  muFs'[o.src] \in {0} \cup muRaced'
  <2>1. Exposed(t, o.src) BY <1>6 DEF Exposed
  <2>2. muFs[o.src] \in {0} \cup muRaced BY <1>6 DEF Window
  <2> QED BY <2>1, <2>2, <1>e, <1>p
<1> QED BY <1>0, <1>1, <1>2, <1>3, <1>4, <1>5, <1>6 DEF Window

LEMMA OthersWindow ==
    ASSUME MutateTypeOK, LeaseHeld, \A u \in MuThreads : Window(u),
           NEW t \in MuThreads, Effect(t), MutateTypeOK',
           NEW u \in MuThreads, u # t
    PROVE  Window(u)'
<1>1. muOps'[u] = muOps[u] /\ muRaced \subseteq muRaced'
  BY DEF Effect, OthersWait, Touches
<1>2. \A q \in MuPaths : muFs'[q] # muFs[q] /\ Exposed(t, q) => muFs'[q] \in muRaced'
  BY DEF Effect, Touches
<1>3. ASSUME muOps[u].kind = "overwrite", muOps[u].step = "replace" PROVE muBak' = muBak
  <2>1. u \in muLock BY <1>3 DEF LeaseHeld
  <2>2. muOps[t].kind = "overwrite" /\ muOps[t].step = "backup" => t \in muLock BY DEF LeaseHeld
  <2> QED BY <2>1, <2>2 DEF Effect, BacksUp, MutateTypeOK
<1> QED BY <1>1, <1>2, <1>3, WindowStays

(***************************************************************************)
(* Types                                                                   *)
(***************************************************************************)
LEMMA IdleOp ==
    ASSUME MutateTypeOK PROVE MuIdle \in MuOp
BY SMTT(60), Paths DEF MutateTypeOK, MuIdle, MuOp, MuSteps

\* A step with which the operation ends.
LEMMA Ends ==
    ASSUME MutateTypeOK, NEW t \in MuThreads, EndOp(t), muStamp' \in {muStamp, muStamp + 1}
    PROVE  /\ muOps' \in [MuThreads -> MuOp'] /\ muOps'[t] = MuIdle /\ OthersWait(t)
           /\ muLock' \subseteq MuThreads /\ \A u, v \in muLock' : u = v
           /\ muSaving' \subseteq MuThreads \X MuPaths /\ \A s, u \in muSaving' : s[2] = u[2] => s = u
           /\ \A u \in muLock : u # t => u \in muLock'
<1>1. muOps' = [muOps EXCEPT ![t] = MuIdle] /\ muLock' = muLock \ {t}
  BY DEF EndOp
<1>2. MuOp \subseteq MuOp'
  BY SMTT(60) DEF MuOp, MutateTypeOK
<1>3. muOps' \in [MuThreads -> MuOp'] /\ muOps'[t] = MuIdle /\ OthersWait(t)
  BY <1>1, <1>2, IdleOp DEF MutateTypeOK, OthersWait
<1>4. muSaving' \subseteq muSaving
  BY DEF EndOp
<1> QED BY <1>1, <1>3, <1>4 DEF MutateTypeOK

LEMMA MayFailPlan ==
    ASSUME MutateTypeOK, NEW bad, MuMayFail(bad)
    PROVE  muPlan' \in MuPlanType /\ muPlan'.crashes = muPlan.crashes
<1>1. CASE muPlan' = muPlan BY <1>1 DEF MutateTypeOK
<1>2. CASE muPlan.fails > 0 /\ muPlan' = [muPlan EXCEPT !.fails = @ - 1]
  <2>1. muPlan.fails - 1 \in Nat BY <1>2, SMTT(60) DEF MutateTypeOK, MuPlanType
  <2>2. muPlan' \in MuPlanType
    BY <1>2, <2>1, ZenonT(60) DEF MutateTypeOK, MuPlanType
  <2>3. muPlan'.crashes = muPlan.crashes
    BY <1>2, SMTT(60) DEF MutateTypeOK, MuPlanType
  <2> QED BY <2>2, <2>3
<1> QED BY <1>1, <1>2 DEF MuMayFail

\* Changing one file.
LEMMA Writes ==
    ASSUME MutateTypeOK, NEW t, NEW p \in MuPaths, NEW v \in 0 .. muStamp, v \in OnDisk \cup {0, Partial, muOps[t].new},
           Write(t, [muFs EXCEPT ![p] = v])
    PROVE  /\ muFs' \in [MuPaths -> 0 .. muStamp] /\ muFs'[p] = v
           /\ \A q \in MuPaths : q # p => muFs'[q] = muFs[q]
           /\ Touches(t)
           /\ muDirty' \subseteq MuPaths /\ muHeld' = muHeld
<1>2. muFs' = [muFs EXCEPT ![p] = v] /\ muHeld' = muHeld
  BY DEF Write
<1>3. /\ muFs' \in [MuPaths -> 0 .. muStamp] /\ muFs'[p] = v
      /\ \A q \in MuPaths : q # p => muFs'[q] = muFs[q]
  BY <1>2 DEF MutateTypeOK
<1>4. muDirty' \subseteq MuPaths
  BY DEF Write, MutateTypeOK
<1>5. muRaced \subseteq muRaced'
  BY DEF Write
<1>6. ASSUME NEW q \in MuPaths, muFs'[q] # muFs[q], Exposed(t, q) PROVE muFs'[q] \in muRaced'
  BY <1>2, <1>6 DEF Write
<1> QED BY <1>2, <1>3, <1>4, <1>5, <1>6 DEF Touches

\* Giving a file another name.
LEMMA Renames ==
    ASSUME MutateTypeOK, NEW t, NEW x \in MuPaths, NEW y \in MuPaths,
           Write(t, [muFs EXCEPT ![y] = muFs[x], ![x] = 0])
    PROVE  /\ muFs' \in [MuPaths -> 0 .. muStamp] /\ muFs'[x] = 0
           /\ y # x => muFs'[y] = muFs[x]
           /\ \A q \in MuPaths : q # x /\ q # y => muFs'[q] = muFs[q]
           /\ Touches(t)
           /\ muDirty' \subseteq MuPaths /\ muHeld' = muHeld
<1>2. muFs' = [muFs EXCEPT ![y] = muFs[x], ![x] = 0] /\ muHeld' = muHeld
  BY DEF Write
<1>3. /\ muFs' \in [MuPaths -> 0 .. muStamp] /\ muFs'[x] = 0
      /\ y # x => muFs'[y] = muFs[x]
      /\ \A q \in MuPaths : q # x /\ q # y => muFs'[q] = muFs[q]
  BY SMTT(60), <1>2 DEF MutateTypeOK
<1>4. muDirty' \subseteq MuPaths
  BY DEF Write, MutateTypeOK
<1>5. muRaced \subseteq muRaced'
  BY DEF Write
<1>6. ASSUME NEW q \in MuPaths, muFs'[q] # muFs[q], Exposed(t, q) PROVE muFs'[q] \in muRaced'
  BY <1>2, <1>6 DEF Write
<1>7. muFs[x] \in OnDisk
  BY DEF OnDisk, ValuesOf, MutateTypeOK
<1>8. \A q \in MuPaths : muFs'[q] # muFs[q] => muFs'[q] \in OnDisk \cup {0}
  BY <1>3, <1>7
<1> QED BY <1>2, <1>3, <1>4, <1>5, <1>6, <1>8 DEF Touches

LEMMA FileSize ==
    ASSUME MutateTypeOK, NEW p \in MuPaths
    PROVE  muFs[p] \in Nat
BY SMTT(60) DEF MutateTypeOK

(***************************************************************************)
(* Putting a step together                                                 *)
(***************************************************************************)
RowsOK ==
    /\ muRows \subseteq [id : 0 .. 1, path : MuPaths, content : Nat]
    /\ \A r, q \in muRows : r.path = q.path \/ (r.id = 1 /\ q.id = 1) => r = q
HeldOK == \A h \in muHeld : DOMAIN h \subseteq MuPaths /\ \A p \in DOMAIN h : h[p] \in Nat
DiskOK ==
    /\ muStamp \in Nat /\ muStamp >= 3
    /\ muFs \in [MuPaths -> 0 .. muStamp] /\ muBak \in [MuPaths -> 0 .. muStamp]
    /\ muKept \subseteq 2 .. muStamp

LEMMA TypesHold ==
    ASSUME MutateTypeOK
    PROVE  RowsOK /\ HeldOK /\ DiskOK /\ muPlan \in MuPlanType /\ muDirty \subseteq MuPaths
BY DEF MutateTypeOK, RowsOK, HeldOK, DiskOK

\* An operation that is over claims nothing.
LEMMA OverClaimsNothing ==
    ASSUME NEW t \in MuThreads, muOps'[t] = MuIdle
    PROVE  Rendered(t)' /\ Window(t)' /\ t \notin Tentative' /\ t \notin Unlinking'
BY SMTT(60) DEF Rendered, Window, Tentative, Unlinking, MuIdle

\* The operation ends with this step.
LEMMA EndingStep ==
    ASSUME MutateInv, NEW t \in MuThreads, EndOp(t), muStamp' \in {muStamp, muStamp + 1},
           DiskOK', RowsOK', HeldOK', muPlan' \in MuPlanType, muDirty' \subseteq MuPaths,
           Touches(t), BacksUp(t), muKept' \subseteq muKept \cup ({muOps[t].new} \ {0}),
           KeptStands'
    PROVE  MutateInv'
<1>1. /\ muOps' \in [MuThreads -> MuOp'] /\ muOps'[t] = MuIdle /\ OthersWait(t)
      /\ muLock' \subseteq MuThreads /\ \A u, v \in muLock' : u = v
      /\ muSaving' \subseteq MuThreads \X MuPaths /\ \A s, u \in muSaving' : s[2] = u[2] => s = u
      /\ \A u \in muLock : u # t => u \in muLock'
  BY Ends DEF MutateInv
<1>2. MutateTypeOK'
  BY <1>1 DEF MutateTypeOK, DiskOK, RowsOK, HeldOK
<1>3. Effect(t)
  BY SMTT(60), <1>1 DEF Effect, MuIdle
<1>4. Rendered(t)' /\ Window(t)'
  BY <1>1, OverClaimsNothing
<1>5. LeaseHeld'
  BY SMTT(60), <1>1 DEF LeaseHeld, OthersWait, MutateInv, MuIdle
<1>6. \A u \in MuThreads : Rendered(u)' /\ Window(u)'
  BY <1>2, <1>3, <1>4, OthersRendered, OthersWindow DEF MutateInv
<1> QED BY <1>2, <1>5, <1>6 DEF MutateInv

\* The operation goes on.
LEMMA GoingStep ==
    ASSUME MutateInv, NEW t \in MuThreads, NEW o \in MuOp', muStamp' \in {muStamp, muStamp + 1},
           muOps' = [muOps EXCEPT ![t] = o], muLock' = muLock, muSaving' = muSaving,
           DiskOK', RowsOK', HeldOK', muPlan' \in MuPlanType, muDirty' \subseteq MuPaths,
           Touches(t), BacksUp(t), muKept' \subseteq muKept \cup ({muOps[t].new} \ {0}),
           o.new \in {0, muOps[t].new, muStamp + 1},
           o.kind = "overwrite" /\ o.step # "lease" => t \in muLock,
           Rendered(t)', Window(t)', KeptStands'
    PROVE  MutateInv'
<1>0. MuOp \subseteq MuOp'
  BY SMTT(60) DEF MuOp, MutateTypeOK, MutateInv
<1>1. muOps' \in [MuThreads -> MuOp'] /\ muOps'[t] = o /\ OthersWait(t)
  BY <1>0 DEF MutateInv, MutateTypeOK, OthersWait
<1>2. MutateTypeOK'
  BY <1>1 DEF MutateTypeOK, DiskOK, RowsOK, HeldOK, MutateInv
<1>3. Effect(t)
  BY <1>1 DEF Effect
<1>5. LeaseHeld'
  BY <1>1 DEF LeaseHeld, OthersWait, MutateInv
<1>6. \A u \in MuThreads : Rendered(u)' /\ Window(u)'
  BY <1>2, <1>3, OthersRendered, OthersWindow DEF MutateInv
<1> QED BY <1>2, <1>5, <1>6 DEF MutateInv

\* Steps that leave the files alone.
Quiet == /\ muFs' = muFs /\ muBak' = muBak /\ muKept' = muKept /\ muRaced' = muRaced
         /\ muDirty' = muDirty /\ muHeld' = muHeld

LEMMA QuietDisk ==
    ASSUME MutateInv, Quiet, muStamp' \in {muStamp, muStamp + 1}
    PROVE  DiskOK' /\ HeldOK' /\ muDirty' \subseteq MuPaths /\ \A t : Touches(t) /\ BacksUp(t)
<1>1. DiskOK /\ HeldOK /\ muDirty \subseteq MuPaths
  BY TypesHold DEF MutateInv
<1>2. DiskOK'
  BY SMTT(60), <1>1 DEF DiskOK, Quiet
<1> QED BY <1>1, <1>2 DEF HeldOK, Quiet, Touches, BacksUp

LEMMA QuietStands ==
    ASSUME MutateInv, Quiet, NEW t \in MuThreads, OthersWait(t), t \notin Unlinking',
           t \in Tentative' => t \in Tentative /\ muOps'[t].dst = muOps[t].dst
    PROVE  KeptStands' /\ Standing \subseteq Standing'
<1>1. DOMAIN muFs = MuPaths /\ DOMAIN muFs' = MuPaths /\ \A q \in MuPaths : muFs'[q] = muFs[q]
  BY DEF MutateInv, MutateTypeOK, Quiet
<1>2. \A c \in Standing : c \in Standing'
  BY <1>1, Settles
<1> QED BY <1>2 DEF KeptStands, MutateInv, Quiet

LEMMA QuietEnd ==
    ASSUME MutateInv, NEW t \in MuThreads, EndOp(t), Quiet, muStamp' = muStamp, RowsOK', muPlan' \in MuPlanType
    PROVE  MutateInv'
<1>1. DiskOK' /\ HeldOK' /\ muDirty' \subseteq MuPaths /\ Touches(t) /\ BacksUp(t)
  BY QuietDisk
<1>2. OthersWait(t) /\ muOps'[t] = MuIdle
  BY Ends DEF MutateInv
<1>3. KeptStands'
  BY <1>2, QuietStands, OverClaimsNothing
<1>4. muKept' \subseteq muKept \cup ({muOps[t].new} \ {0})
  BY DEF Quiet
<1> QED BY <1>1, <1>3, <1>4, EndingStep

LEMMA QuietGo ==
    ASSUME MutateInv, NEW t \in MuThreads, NEW o \in MuOp', muStamp' \in {muStamp, muStamp + 1}, Quiet,
           muOps' = [muOps EXCEPT ![t] = o], muLock' = muLock, muSaving' = muSaving,
           RowsOK', muPlan' \in MuPlanType,
           o.new \in {0, muOps[t].new, muStamp + 1},
           o.kind = "overwrite" /\ o.step # "lease" => t \in muLock,
           ~(o.kind = "move" /\ o.step = "unlink"),
           o.kind \in {"copy", "move"} /\ o.step \in {"fill", "insert", "undo"} =>
             muOps[t].kind = o.kind /\ muOps[t].step \in {"fill", "insert", "undo"} /\ o.dst = muOps[t].dst,
           ~(o.kind = "copy" /\ o.step = "unlink"),
           Rendered(t)', Window(t)'
    PROVE  MutateInv'
<1>1. DiskOK' /\ HeldOK' /\ muDirty' \subseteq MuPaths /\ Touches(t) /\ BacksUp(t)
  BY QuietDisk
<1>2. OthersWait(t) /\ muOps'[t] = o
  BY DEF MutateInv, MutateTypeOK, OthersWait
<1>3. t \notin Unlinking' /\ (t \in Tentative' => t \in Tentative /\ muOps'[t].dst = muOps[t].dst)
  BY <1>2 DEF Unlinking, Tentative
<1>4. KeptStands'
  BY <1>2, <1>3, QuietStands
<1>5. muKept' \subseteq muKept \cup ({muOps[t].new} \ {0})
  BY DEF Quiet
<1> QED BY <1>1, <1>4, <1>5, GoingStep

(***************************************************************************)
(* Every step                                                              *)
(***************************************************************************)
\* Steps of no operation: only the rows, the watcher and the plan change.
LEMMA Beside ==
    ASSUME MutateInv, UNCHANGED <<muDisk, muOps, muLocks>>,
           RowsOK', HeldOK', muPlan' \in MuPlanType, muDirty' \subseteq MuPaths
    PROVE  MutateInv'
<1>0. /\ muFs' = muFs /\ muBak' = muBak /\ muStamp' = muStamp /\ muKept' = muKept /\ muRaced' = muRaced
      /\ muOps' = muOps /\ muSaving' = muSaving /\ muLock' = muLock
  BY DEF muDisk, muLocks
<1>1. MutateTypeOK'
  BY <1>0 DEF MutateInv, MutateTypeOK, RowsOK, HeldOK, MuOp
<1>2. LeaseHeld'
  BY <1>0 DEF MutateInv, LeaseHeld
<1>3. \A t \in MuThreads : Rendered(t)'
  BY SMTT(60), <1>0 DEF MutateInv, Rendered, OnDisk, ValuesOf
<1>4. \A t \in MuThreads : Window(t)'
  BY <1>0 DEF MutateInv, Window
<1>5. KeptStands'
  BY SMTT(60), <1>0 DEF MutateInv, KeptStands, Standing, Remains, Tentative, Unlinking, ValuesOf
<1> QED BY <1>1, <1>2, <1>3, <1>4, <1>5 DEF MutateInv

LEMMA BeginKeeps ==
    ASSUME MutateInv, NEW t \in MuThreads, NEW kind \in MuKinds, BeginOp(t, kind)
    PROVE  MutateInv'
<1>0. MutateTypeOK /\ RowsOK /\ muOps[t] = MuIdle
  BY TypesHold DEF MutateInv, BeginOp
<1> DEFINE first == CASE kind = "overwrite" -> "lease" [] kind = "save_copy" -> "guard"
                      [] kind = "rename" -> "probe" [] OTHER -> "place"
<1>1. PICK r \in RowOf(1) : GoOn(t, [MuIdle EXCEPT !.kind = kind, !.src = r.path, !.read = r.content, !.step = first])
  BY DEF BeginOp
<1> DEFINE o == [MuIdle EXCEPT !.kind = kind, !.src = r.path, !.read = r.content, !.step = first]
<1>2. r.path \in MuPaths /\ r.content \in Nat
  BY <1>0 DEF RowOf, RowsOK
<1>3. /\ first \in {"lease", "guard", "probe", "place"} /\ first \in MuSteps
      /\ kind = "overwrite" => first = "lease"
  BY DEF MuSteps
<1>4. Quiet /\ muStamp' = muStamp /\ muRows' = muRows
  BY DEF BeginOp, Quiet, muDisk, muWatch
<1> HIDE DEF first
<1>5. o.kind = kind /\ o.step = first /\ o.new = 0 /\ o \in MuOp
  BY <1>0, <1>2, <1>3, IdleOp DEF MuIdle, MuOp
<1>6. muPlan' \in MuPlanType
  <2>1. muPlan \in MuPlanType /\ muPlan.todo[t] # <<>> /\ muPlan' = [muPlan EXCEPT !.todo[t] = Tail(@)]
    BY <1>0 DEF BeginOp, MutateTypeOK
  <2>2. muPlan.todo \in [MuThreads -> Seq(MuKinds)]
    BY <2>1 DEF MuPlanType
  <2>3. Tail(muPlan.todo[t]) \in Seq(MuKinds)
    BY SMTT(60), <2>1, <2>2
  <2> DEFINE todo == [muPlan.todo EXCEPT ![t] = Tail(muPlan.todo[t])]
  <2>4. todo \in [MuThreads -> Seq(MuKinds)]
    BY <2>2, <2>3
  <2>5. muPlan' = [muPlan EXCEPT !.todo = todo]
    BY <2>1 DEF MuPlanType
  <2> HIDE DEF todo
  <2> QED BY <2>1, <2>4, <2>5 DEF MuPlanType
<1>7. /\ muOps' = [muOps EXCEPT ![t] = o] /\ muLock' = muLock /\ muSaving' = muSaving
  BY <1>1 DEF GoOn, muLocks
<1> HIDE DEF o
<1>8. muOps'[t] = o
  BY <1>0, <1>7 DEF MutateTypeOK
<1>9. Rendered(t)' /\ Window(t)'
  BY <1>3, <1>5, <1>8 DEF Rendered, Window
<1>10. o \in MuOp' /\ RowsOK'
  BY <1>0, <1>4, <1>5 DEF MuOp, RowsOK
<1> QED BY <1>3, <1>4, <1>5, <1>6, <1>7, <1>9, <1>10, QuietGo

LEMMA SkipKeeps ==
    ASSUME MutateInv, NEW t \in MuThreads, SkipOp(t)
    PROVE  MutateInv'
<1>1. /\ UNCHANGED <<muDisk, muOps, muLocks>>
      /\ muRows' = muRows /\ muHeld' = muHeld /\ muDirty' = muDirty
  BY DEF SkipOp, muWatch
<1>2. RowsOK' /\ HeldOK' /\ muDirty' \subseteq MuPaths
  BY <1>1, TypesHold DEF MutateInv, RowsOK, HeldOK
<1>3. muPlan' \in MuPlanType
  <2>1. muPlan \in MuPlanType /\ muPlan' = [muPlan EXCEPT !.todo[t] = <<>>]
    BY DEF SkipOp, MutateInv, MutateTypeOK
  <2> DEFINE todo == [muPlan.todo EXCEPT ![t] = <<>>]
  <2>2. todo \in [MuThreads -> Seq(MuKinds)]
    BY SMTT(60), <2>1 DEF MuPlanType
  <2>3. muPlan' = [muPlan EXCEPT !.todo = todo]
    BY <2>1 DEF MuPlanType
  <2> HIDE DEF todo
  <2> QED BY <2>1, <2>2, <2>3 DEF MuPlanType
<1> QED BY <1>1, <1>2, <1>3, Beside

LEMMA TakeLeaseKeeps ==
    ASSUME MutateInv, NEW t \in MuThreads, TakeLease(t)
    PROVE  MutateInv'
<1> DEFINE o == [muOps[t] EXCEPT !.step = "guard"]
<1>0. MutateTypeOK /\ muOps[t] \in MuOp /\ muOps[t].kind = "overwrite" /\ muOps[t].step = "lease" /\ muLock = {}
  BY DEF MutateInv, MutateTypeOK, TakeLease, At
<1>1. /\ Quiet /\ muStamp' = muStamp /\ muRows' = muRows /\ muPlan' = muPlan
      /\ muLock' = {t} /\ muSaving' = muSaving
  BY DEF TakeLease, Quiet, muDisk, muWatch
<1>2. muOps' = [muOps EXCEPT ![t] = o]
  BY <1>0 DEF TakeLease, MutateTypeOK
<1>3. o \in MuOp /\ o.kind = "overwrite" /\ o.step = "guard" /\ o.new = muOps[t].new
  BY <1>0 DEF MuOp, MuSteps
<1> HIDE DEF o
<1>4. muOps' \in [MuThreads -> MuOp] /\ muOps'[t] = o /\ OthersWait(t)
  BY <1>0, <1>2, <1>3 DEF MutateTypeOK, OthersWait
<1>5. MutateTypeOK'
  BY <1>0, <1>1, <1>4 DEF MutateTypeOK, MuOp, Quiet
<1>6. Effect(t)
  BY <1>1, <1>3, <1>4 DEF Effect, Quiet, Touches, BacksUp
<1>7. muOps[t].new = 0
  BY <1>0 DEF MutateInv, Rendered
<1>8. Rendered(t)' /\ Window(t)'
  BY <1>3, <1>4, <1>7 DEF Rendered, Window
<1>9. LeaseHeld'
  BY <1>0, <1>1, <1>4 DEF LeaseHeld, MutateInv, OthersWait
<1>10. KeptStands'
  <2>1. t \notin Unlinking' /\ t \notin Tentative'
    BY <1>3, <1>4 DEF Unlinking, Tentative
  <2> QED BY <1>1, <1>4, <2>1, QuietStands
<1>11. \A u \in MuThreads : Rendered(u)' /\ Window(u)'
  BY <1>0, <1>5, <1>6, <1>8, OthersRendered, OthersWindow DEF MutateInv
<1> QED BY <1>5, <1>9, <1>10, <1>11 DEF MutateInv

LEMMA AcquireKeeps ==
    ASSUME MutateInv, NEW t \in MuThreads, Acquire(t)
    PROVE  MutateInv'
<1>0. MutateTypeOK /\ muOps[t] \in MuOp /\ muOps[t].kind \in {"overwrite", "save_copy"} /\ muOps[t].step = "guard"
  BY DEF MutateInv, MutateTypeOK, Acquire, At
<1>1. Quiet /\ muStamp' = muStamp /\ muRows' = muRows /\ muPlan' = muPlan
  BY DEF Acquire, Quiet, muDisk, muWatch
<1>2. RowsOK' /\ muPlan' \in MuPlanType
  BY <1>0, <1>1, TypesHold DEF RowsOK
<1>3. CASE EndOp(t)
  BY <1>1, <1>2, <1>3, QuietEnd
<1>4. CASE ~EndOp(t)
  <2> DEFINE o == [muOps[t] EXCEPT !.step = "render", !.before = muFs[muOps[t].src]]
  <2>1. /\ \A s \in muSaving : s[2] # muOps[t].src
        /\ muSaving' = muSaving \cup {<<t, muOps[t].src>>} /\ muLock' = muLock
        /\ muOps' = [muOps EXCEPT ![t] = o]
    BY <1>4 DEF Acquire
  <2>2. o \in MuOp /\ o.kind = muOps[t].kind /\ o.step = "render" /\ o.new = muOps[t].new /\ o.src = muOps[t].src
        /\ o.dst = muOps[t].dst
    <3>1. muFs[muOps[t].src] \in Nat /\ "render" \in MuSteps
      BY <1>0, FileSize DEF MuOp, MuSteps
    <3>2. o \in MuOp
      BY <1>0, <3>1, ZenonT(60) DEF MuOp
    <3>3. o.kind = muOps[t].kind /\ o.step = "render" /\ o.new = muOps[t].new /\ o.src = muOps[t].src /\ o.dst = muOps[t].dst
      BY <1>0, SMTT(60) DEF MuOp
    <3> QED BY <3>2, <3>3
  <2> HIDE DEF o
  <2>3. muOps' \in [MuThreads -> MuOp] /\ muOps'[t] = o /\ OthersWait(t)
    BY <1>0, <2>1, <2>2 DEF MutateTypeOK, OthersWait
  <2>4. muSaving' \subseteq MuThreads \X MuPaths /\ \A s, u \in muSaving' : s[2] = u[2] => s = u
    BY SMTT(60), <1>0, <2>1 DEF MutateTypeOK, MuOp
  <2>5. MutateTypeOK'
    BY <1>0, <1>1, <2>1, <2>3, <2>4 DEF MutateTypeOK, MuOp, Quiet
  <2>6. Effect(t)
    BY <1>1, <2>2, <2>3 DEF Effect, Quiet, Touches, BacksUp
  <2>7. Rendered(t)'
    <3>1. Rendered(t) BY DEF MutateInv
    <3> QED BY <1>0, <1>1, <2>2, <2>3, <3>1 DEF Rendered, Quiet, OthersWait
  <2>8. Window(t)'
    BY <1>0, <2>2, <2>3 DEF Window
  <2>9. LeaseHeld'
    BY <1>0, <2>1, <2>2, <2>3 DEF LeaseHeld, MutateInv, OthersWait
  <2>10. KeptStands'
    <3>1. t \notin Unlinking' /\ t \notin Tentative'
      BY <1>0, <2>2, <2>3 DEF Unlinking, Tentative
    <3> QED BY <1>1, <2>3, <3>1, QuietStands
  <2>11. \A u \in MuThreads : Rendered(u)' /\ Window(u)'
    BY <1>0, <2>5, <2>6, <2>7, <2>8, OthersRendered, OthersWindow DEF MutateInv
  <2> QED BY <2>5, <2>9, <2>10, <2>11 DEF MutateInv
<1> QED BY <1>3, <1>4

LEMMA RenderKeeps ==
    ASSUME MutateInv, NEW t \in MuThreads, NEW ok \in BOOLEAN, Render(t, ok)
    PROVE  MutateInv'
<1>0. MutateTypeOK /\ muOps[t] \in MuOp /\ muOps[t].kind \in {"overwrite", "save_copy"} /\ muOps[t].step = "render"
  BY DEF MutateInv, MutateTypeOK, Render, At
<1>1. Quiet /\ muRows' = muRows
  BY DEF Render, Quiet, muWatch
<1>2. RowsOK' /\ muPlan' \in MuPlanType
  BY <1>0, <1>1, TypesHold, MayFailPlan DEF RowsOK, Render
<1>3. CASE EndOp(t) /\ muStamp' = muStamp
  BY <1>1, <1>2, <1>3, QuietEnd
<1>4. CASE ~(EndOp(t) /\ muStamp' = muStamp)
  <2>1. muStamp' = muStamp + 1
    BY <1>4 DEF Render
  <2>2. PICK o \in MuOp' : /\ GoOn(t, o) /\ o.new = muStamp + 1 /\ o.kind = muOps[t].kind
                           /\ o.step \in {"check", "persist"} /\ o.src = muOps[t].src
                           /\ o.kind = "overwrite" => o.dst = o.src
    <3> DEFINE a == [muOps[t] EXCEPT !.step = "check", !.new = muStamp + 1, !.dst = muOps[t].src]
               b(p) == [muOps[t] EXCEPT !.step = "persist", !.new = muStamp + 1, !.dst = p]
    <3>1. a \in MuOp' /\ a.new = muStamp + 1 /\ a.kind = muOps[t].kind /\ a.step = "check" /\ a.dst = a.src /\ a.src = muOps[t].src
      <4>1. muOps[t].src \in MuPaths /\ "check" \in MuSteps /\ muStamp \in Nat
        BY <1>0 DEF MuOp, MuSteps, MutateTypeOK
      <4>2. muStamp + 1 \in 0 .. muStamp'
        BY <2>1, <4>1, SMTT(60)
      <4>3. a \in MuOp'
        BY <1>0, <4>1, <4>2, ZenonT(60) DEF MuOp
      <4>4. a.new = muStamp + 1 /\ a.kind = muOps[t].kind /\ a.step = "check" /\ a.dst = a.src /\ a.src = muOps[t].src
        BY <1>0, SMTT(60) DEF MuOp
      <4> QED BY <4>3, <4>4
    <3>2. ASSUME NEW p \in MuPaths
          PROVE  b(p) \in MuOp' /\ b(p).new = muStamp + 1 /\ b(p).kind = muOps[t].kind /\ b(p).step = "persist" /\ b(p).src = muOps[t].src
      <4>1. "persist" \in MuSteps /\ muStamp \in Nat
        BY <1>0 DEF MuSteps, MutateTypeOK
      <4>2. muStamp + 1 \in 0 .. muStamp'
        BY <2>1, <4>1, SMTT(60)
      <4>3. b(p) \in MuOp'
        BY <1>0, <4>1, <4>2, ZenonT(60) DEF MuOp
      <4>4. b(p).new = muStamp + 1 /\ b(p).kind = muOps[t].kind /\ b(p).step = "persist" /\ b(p).src = muOps[t].src
        BY <1>0, SMTT(60) DEF MuOp
      <4> QED BY <4>3, <4>4
    <3>3. CASE muOps[t].kind = "overwrite"
      <4>1. GoOn(t, a) BY <1>4, <3>3 DEF Render
      <4> QED BY <3>1, <4>1
    <3>4. CASE muOps[t].kind # "overwrite"
      <4>1. PICK p \in FirstFree(EditedNames) : GoOn(t, b(p)) BY <1>4, <3>4 DEF Render
      <4>2. p \in MuPaths BY Paths
      <4> QED BY <3>2, <3>4, <4>1, <4>2
    <3> QED BY <3>3, <3>4
  <2>3. muOps' = [muOps EXCEPT ![t] = o] /\ muLock' = muLock /\ muSaving' = muSaving
    BY <2>2 DEF GoOn, muLocks
  <2>4. muOps'[t] = o /\ OthersWait(t)
    BY <1>0, <2>3 DEF MutateTypeOK, OthersWait
  <2>5. muStamp + 1 >= 2 /\ muStamp + 1 \notin muKept /\ muStamp + 1 # 0
    BY SMTT(60), <1>0 DEF MutateTypeOK
  <2>6. \A u \in MuThreads : muOps[u].new # muStamp + 1
    BY SMTT(60), <1>0 DEF MutateTypeOK, MuOp
  <2>7. muStamp + 1 \notin OnDisk
    BY SMTT(60), <1>0 DEF MutateTypeOK, OnDisk, ValuesOf
  <2>8. muBak[o.src] # muStamp + 1
    BY SMTT(60), <1>0, <2>2 DEF MutateTypeOK, MuOp
  <2>9. Rendered(t)'
    <3>1. \A u \in MuThreads \ {t} : muOps'[u].new # o.new
      BY <2>2, <2>4, <2>6 DEF OthersWait
    <3>2. o.new >= 2 /\ o.new \notin muKept' /\ o.new # 0
      BY <1>1, <2>2, <2>5 DEF Quiet
    <3>3. o.new \notin OnDisk' /\ muBak'[o.src] # o.new
      BY <1>1, <2>2, <2>7, <2>8 DEF Quiet, OnDisk, ValuesOf
    <3> QED BY <2>2, <2>4, <3>1, <3>2, <3>3 DEF Rendered
  <2>10. Window(t)'
    BY <1>0, <2>2, <2>4 DEF Window
  <2>11. o.kind = "overwrite" /\ o.step # "lease" => t \in muLock
    BY <1>0, <2>2 DEF MutateInv, LeaseHeld
  <2> QED BY <1>0, <1>1, <1>2, <2>1, <2>2, <2>3, <2>9, <2>10, <2>11, QuietGo
<1> QED BY <1>3, <1>4

LEMMA CheckSourceKeeps ==
    ASSUME MutateInv, NEW t \in MuThreads, CheckSource(t)
    PROVE  MutateInv'
<1>0. MutateTypeOK /\ muOps[t] \in MuOp /\ muOps[t].kind = "overwrite" /\ muOps[t].step = "check"
  BY DEF MutateInv, MutateTypeOK, CheckSource, At
<1>1. Quiet /\ muStamp' = muStamp /\ muRows' = muRows /\ muPlan' = muPlan
  BY DEF CheckSource, Quiet, muDisk, muWatch
<1>2. RowsOK' /\ muPlan' \in MuPlanType
  BY <1>0, <1>1, TypesHold DEF RowsOK
<1>3. CASE EndOp(t)
  BY <1>1, <1>2, <1>3, QuietEnd
<1>4. CASE ~EndOp(t)
  <2> DEFINE o == [muOps[t] EXCEPT !.step = "backup"]
  <2>1. GoOn(t, o)
    BY <1>4 DEF CheckSource
  <2>2. o \in MuOp /\ o.kind = "overwrite" /\ o.step = "backup" /\ o.new = muOps[t].new /\ o.src = muOps[t].src /\ o.dst = muOps[t].dst
    BY <1>0 DEF MuOp, MuSteps
  <2> HIDE DEF o
  <2>3. muOps' = [muOps EXCEPT ![t] = o] /\ muLock' = muLock /\ muSaving' = muSaving
    BY <2>1 DEF GoOn, muLocks
  <2>4. muOps'[t] = o /\ OthersWait(t)
    BY <1>0, <2>3 DEF MutateTypeOK, OthersWait
  <2>5. Rendered(t)'
    <3>1. Rendered(t) BY DEF MutateInv
    <3>2. OnDisk' = OnDisk BY <1>1 DEF OnDisk, Quiet
    <3> QED BY <1>0, <1>1, <2>2, <2>4, <3>1, <3>2 DEF Rendered, Quiet, OthersWait
  <2>6. Window(t)'
    BY <2>2, <2>4 DEF Window
  <2>7. o \in MuOp' /\ t \in muLock
    BY <1>0, <1>1, <2>2 DEF MuOp, MutateInv, LeaseHeld
  <2> QED BY <1>1, <1>2, <2>2, <2>3, <2>5, <2>6, <2>7, QuietGo
<1> QED BY <1>3, <1>4

LEMMA HashEditedKeeps ==
    ASSUME MutateInv, NEW t \in MuThreads, NEW ok \in BOOLEAN, HashEdited(t, ok)
    PROVE  MutateInv'
<1>0. MutateTypeOK /\ muOps[t] \in MuOp /\ muOps[t].kind \in {"overwrite", "save_copy"} /\ muOps[t].step = "hash"
  BY DEF MutateInv, MutateTypeOK, HashEdited, At
<1>1. Quiet /\ muStamp' = muStamp /\ muRows' = muRows
  BY DEF HashEdited, Quiet, muWatch
<1>2. RowsOK' /\ muPlan' \in MuPlanType
  BY <1>0, <1>1, TypesHold, MayFailPlan DEF RowsOK, HashEdited
<1>3. CASE EndOp(t)
  BY <1>1, <1>2, <1>3, QuietEnd
<1>4. CASE ~EndOp(t)
  <2>1. PICK o \in MuOp : /\ GoOn(t, o) /\ o.new = muOps[t].new /\ o.kind = muOps[t].kind
                          /\ o.src = muOps[t].src /\ o.dst = muOps[t].dst
                          /\ o.step = "commit" \/ (o.kind = "overwrite" /\ o.step = "restore")
    <3> DEFINE a == [muOps[t] EXCEPT !.step = "commit", !.read = muFs[muOps[t].dst]]
               b == [muOps[t] EXCEPT !.step = "restore"]
    <3>1. /\ a \in MuOp /\ a.new = muOps[t].new /\ a.kind = muOps[t].kind
          /\ a.src = muOps[t].src /\ a.dst = muOps[t].dst /\ a.step = "commit"
      <4>1. muFs[muOps[t].dst] \in Nat /\ "commit" \in MuSteps
        BY <1>0, FileSize DEF MuOp, MuSteps
      <4>2. a \in MuOp
        BY <1>0, <4>1, ZenonT(60) DEF MuOp
      <4>3. /\ a.new = muOps[t].new /\ a.kind = muOps[t].kind
            /\ a.src = muOps[t].src /\ a.dst = muOps[t].dst /\ a.step = "commit"
        BY <1>0, SMTT(60) DEF MuOp
      <4> QED BY <4>2, <4>3
    <3>2. /\ b \in MuOp /\ b.new = muOps[t].new /\ b.kind = muOps[t].kind
          /\ b.src = muOps[t].src /\ b.dst = muOps[t].dst /\ b.step = "restore"
      <4>1. "restore" \in MuSteps
        BY DEF MuSteps
      <4> QED BY <1>0, <4>1, SMTT(60) DEF MuOp
    <3>3. GoOn(t, a) \/ (muOps[t].kind = "overwrite" /\ GoOn(t, b))
      BY <1>4 DEF HashEdited
    <3> HIDE DEF a, b
    <3> QED BY <3>1, <3>2, <3>3
  <2>3. muOps' = [muOps EXCEPT ![t] = o] /\ muLock' = muLock /\ muSaving' = muSaving
    BY <2>1 DEF GoOn, muLocks
  <2>4. muOps'[t] = o /\ OthersWait(t)
    BY <1>0, <2>3 DEF MutateTypeOK, OthersWait
  <2>5. Rendered(t)'
    <3>1. Rendered(t) BY DEF MutateInv
    <3>2. OnDisk' = OnDisk BY <1>1 DEF OnDisk, Quiet
    <3> QED BY <1>0, <1>1, <2>1, <2>4, <3>1, <3>2 DEF Rendered, Quiet, OthersWait
  <2>6. Window(t)'
    <3>1. Window(t) BY DEF MutateInv
    <3> QED BY <1>0, <1>1, <2>1, <2>4, <3>1 DEF Window, Quiet
  <2>7. o \in MuOp' /\ (o.kind = "overwrite" => t \in muLock)
    BY <1>0, <1>1, <2>1 DEF MuOp, MutateInv, LeaseHeld
  <2> QED BY <1>0, <1>1, <1>2, <2>1, <2>3, <2>5, <2>6, <2>7, QuietGo
<1> QED BY <1>3, <1>4

\* The table: writing a row of a path, the content of the photo's row, its path.
LEMMA UpsertedRows ==
    ASSUME RowsOK, NEW p \in MuPaths, NEW c \in Nat, muRows' = MuUpserted(muRows, p, c)
    PROVE  RowsOK'
<1> DEFINE old == {r \in muRows : r.path = p}
<1>1. CASE old = {}
  <2>1. muRows' = muRows \cup {[id |-> 0, path |-> p, content |-> c]}
    BY <1>1 DEF MuUpserted
  <2>2. \A r \in muRows : r.path # p
    BY <1>1
  <2> QED BY <2>1, <2>2, SMTT(60) DEF RowsOK
<1>2. CASE old # {}
  <2>1. PICK r \in muRows : r.path = p
    BY <1>2
  <2>2. old = {r}
    BY <2>1 DEF RowsOK
  <2> DEFINE n == [r EXCEPT !.content = c]
  <2>3. muRows' = (muRows \ {r}) \cup {n}
    <3>1. muRows' = (muRows \ old) \cup {[q EXCEPT !.content = c] : q \in old}
      BY <1>2 DEF MuUpserted
    <3> QED BY <2>2, <3>1
  <2>4. n \in [id : 0 .. 1, path : MuPaths, content : Nat] /\ n.id = r.id /\ n.path = r.path
    BY <2>1, SMTT(60) DEF RowsOK
  <2> HIDE DEF n
  <2> QED BY <2>1, <2>3, <2>4, SMTT(60) DEF RowsOK
<1> QED BY <1>1, <1>2

LEMMA OwnRowRewritten ==
    ASSUME RowsOK, NEW c \in Nat,
           muRows' = (muRows \ RowOf(1)) \cup {[r EXCEPT !.content = c] : r \in RowOf(1)}
    PROVE  RowsOK'
<1>1. CASE RowOf(1) = {}
  <2>1. muRows' = muRows BY <1>1
  <2> QED BY <2>1 DEF RowsOK
<1>2. CASE RowOf(1) # {}
  <2>1. PICK r \in muRows : r.id = 1
    BY <1>2 DEF RowOf
  <2>2. RowOf(1) = {r}
    BY <2>1 DEF RowsOK, RowOf
  <2> DEFINE n == [r EXCEPT !.content = c]
  <2>3. muRows' = (muRows \ {r}) \cup {n}
    BY <2>2
  <2>4. n \in [id : 0 .. 1, path : MuPaths, content : Nat] /\ n.id = r.id /\ n.path = r.path
    BY <2>1, SMTT(60) DEF RowsOK
  <2> HIDE DEF n
  <2> QED BY <2>1, <2>3, <2>4, SMTT(60) DEF RowsOK
<1> QED BY <1>1, <1>2

LEMMA OwnRowMoved ==
    ASSUME RowsOK, NEW p \in MuPaths, RowOf(1) # {}, RowAt(p) \subseteq RowOf(1),
           muRows' = (muRows \ RowOf(1)) \cup {[r EXCEPT !.path = p] : r \in RowOf(1)}
    PROVE  RowsOK'
<1>1. PICK r \in muRows : r.id = 1
  BY DEF RowOf
<1>2. RowOf(1) = {r}
  BY <1>1 DEF RowsOK, RowOf
<1> DEFINE n == [r EXCEPT !.path = p]
<1>3. muRows' = (muRows \ {r}) \cup {n}
  BY <1>2
<1>4. n \in [id : 0 .. 1, path : MuPaths, content : Nat] /\ n.id = 1 /\ n.path = p
  BY <1>1, SMTT(60) DEF RowsOK
<1>5. \A q \in muRows \ {r} : q.path # p /\ q.id # 1
  BY <1>2 DEF RowAt, RowOf
<1> HIDE DEF n
<1> QED BY <1>1, <1>3, <1>4, <1>5, SMTT(60) DEF RowsOK

LEMMA ProbeTargetKeeps ==
    ASSUME MutateInv, NEW t \in MuThreads, ProbeTarget(t)
    PROVE  MutateInv'
<1>0. MutateTypeOK /\ muOps[t] \in MuOp /\ muOps[t].kind = "rename" /\ muOps[t].step = "probe"
  BY DEF MutateInv, MutateTypeOK, ProbeTarget, At
<1>1. Quiet /\ muStamp' = muStamp /\ muRows' = muRows /\ muPlan' = muPlan
  BY DEF ProbeTarget, Quiet, muDisk, muWatch
<1>2. RowsOK' /\ muPlan' \in MuPlanType
  BY <1>0, <1>1, TypesHold DEF RowsOK
<1>3. CASE EndOp(t)
  BY <1>1, <1>2, <1>3, QuietEnd
<1>4. CASE ~EndOp(t)
  <2> DEFINE o == [muOps[t] EXCEPT !.dst = Renamed, !.step = "rename"]
  <2>1. GoOn(t, o) /\ muFs[Renamed] = 0
    BY <1>4 DEF ProbeTarget
  <2>2. o \in MuOp
    <3>1. Renamed \in MuPaths /\ "rename" \in MuSteps BY Paths DEF MuSteps
    <3> QED BY <1>0, <3>1, ZenonT(60) DEF MuOp
  <2>3. o.kind = "rename" /\ o.step = "rename" /\ o.new = muOps[t].new /\ o.dst = Renamed
    BY <1>0, SMTT(60) DEF MuOp
  <2> HIDE DEF o
  <2>4. muOps' = [muOps EXCEPT ![t] = o] /\ muLock' = muLock /\ muSaving' = muSaving
    BY <2>1 DEF GoOn, muLocks
  <2>5. muOps'[t] = o /\ OthersWait(t)
    BY <1>0, <2>4 DEF MutateTypeOK, OthersWait
  <2>6. Rendered(t)'
    <3>1. Rendered(t) BY DEF MutateInv
    <3> QED BY <1>0, <1>1, <2>3, <2>5, <3>1 DEF Rendered, Quiet, OthersWait
  <2>7. Window(t)'
    BY <1>1, <2>1, <2>3, <2>5 DEF Window, Quiet
  <2>8. o \in MuOp'
    BY <1>1, <2>2 DEF MuOp
  <2> QED BY <1>1, <1>2, <2>3, <2>4, <2>6, <2>7, <2>8, QuietGo
<1> QED BY <1>3, <1>4

LEMMA ProbeSourceKeeps ==
    ASSUME MutateInv, NEW t \in MuThreads, ProbeSource(t)
    PROVE  MutateInv'
<1>0. MutateTypeOK /\ muOps[t] \in MuOp /\ muOps[t].kind = "move" /\ muOps[t].step = "free"
  BY DEF MutateInv, MutateTypeOK, ProbeSource, At
<1>1. Quiet /\ muStamp' = muStamp /\ muRows' = muRows /\ muPlan' = muPlan
  BY DEF ProbeSource, Quiet, muDisk, muWatch
<1>2. RowsOK' /\ muPlan' \in MuPlanType
  BY <1>0, <1>1, TypesHold DEF RowsOK
<1>3. CASE EndOp(t)
  BY <1>1, <1>2, <1>3, QuietEnd
<1>4. CASE ~EndOp(t)
  <2> DEFINE o == [muOps[t] EXCEPT !.step = "back"]
  <2>1. GoOn(t, o) /\ muFs[muOps[t].src] = 0
    BY <1>4 DEF ProbeSource
  <2>2. o \in MuOp /\ o.kind = "move" /\ o.step = "back" /\ o.new = muOps[t].new /\ o.src = muOps[t].src
    BY <1>0 DEF MuOp, MuSteps
  <2> HIDE DEF o
  <2>4. muOps' = [muOps EXCEPT ![t] = o] /\ muLock' = muLock /\ muSaving' = muSaving
    BY <2>1 DEF GoOn, muLocks
  <2>5. muOps'[t] = o /\ OthersWait(t)
    BY <1>0, <2>4 DEF MutateTypeOK, OthersWait
  <2>6. Rendered(t)'
    <3>1. Rendered(t) BY DEF MutateInv
    <3> QED BY <1>0, <1>1, <2>2, <2>5, <3>1 DEF Rendered, Quiet, OthersWait
  <2>7. Window(t)'
    BY <1>1, <2>1, <2>2, <2>5 DEF Window, Quiet
  <2>8. o \in MuOp'
    BY <1>1, <2>2 DEF MuOp
  <2> QED BY <1>1, <1>2, <2>2, <2>4, <2>6, <2>7, <2>8, QuietGo
<1> QED BY <1>3, <1>4

LEMMA UpdateMediaLocationKeeps ==
    ASSUME MutateInv, NEW t \in MuThreads, NEW ok \in BOOLEAN, UpdateMediaLocation(t, ok)
    PROVE  MutateInv'
<1>0. MutateTypeOK /\ muOps[t] \in MuOp /\ muOps[t].kind \in {"move", "rename"} /\ muOps[t].step = "relocate"
  BY DEF MutateInv, MutateTypeOK, UpdateMediaLocation, At
<1>1. Quiet /\ muStamp' = muStamp
  BY DEF UpdateMediaLocation, Quiet, muDisk, muWatch
<1>2. RowsOK /\ muPlan' \in MuPlanType
  BY <1>0, TypesHold, MayFailPlan DEF UpdateMediaLocation
<1>3. CASE ok /\ RowOf(1) # {} /\ RowAt(muOps[t].dst) \subseteq RowOf(1)
  <2>1. /\ EndOp(t)
        /\ muRows' = (muRows \ RowOf(1)) \cup {[r EXCEPT !.path = muOps[t].dst] : r \in RowOf(1)}
    BY <1>3 DEF UpdateMediaLocation
  <2>2. muOps[t].dst \in MuPaths
    BY <1>0 DEF MuOp
  <2>3. RowsOK'
    BY <1>2, <1>3, <2>1, <2>2, OwnRowMoved
  <2> QED BY <1>1, <1>2, <2>1, <2>3, QuietEnd
<1>4. CASE ~(ok /\ RowOf(1) # {} /\ RowAt(muOps[t].dst) \subseteq RowOf(1))
  <2> DEFINE s == IF muOps[t].kind = "move" THEN "free" ELSE "back"
             o == [muOps[t] EXCEPT !.step = s]
  <2>1. GoOn(t, o) /\ muRows' = muRows
    BY <1>4 DEF UpdateMediaLocation
  <2>2. /\ s \in MuSteps /\ s \in {"free", "back"}
        /\ s = "free" => muOps[t].kind = "move"
    BY DEF MuSteps
  <2> HIDE DEF s
  <2>3. o \in MuOp /\ o.kind = muOps[t].kind /\ o.step = s /\ o.new = muOps[t].new /\ o.src = muOps[t].src
    BY <1>0, <2>2 DEF MuOp
  <2> HIDE DEF o
  <2>4. muOps' = [muOps EXCEPT ![t] = o] /\ muLock' = muLock /\ muSaving' = muSaving
    BY <2>1 DEF GoOn, muLocks
  <2>5. muOps'[t] = o /\ OthersWait(t)
    BY <1>0, <2>4 DEF MutateTypeOK, OthersWait
  <2>6. Rendered(t)'
    <3>1. Rendered(t) BY DEF MutateInv
    <3> QED BY <1>0, <1>1, <2>2, <2>3, <2>5, <3>1 DEF Rendered, Quiet, OthersWait
  <2>7. Window(t)'
    <3>1. Window(t) BY DEF MutateInv
    <3>2. muFs[muOps[t].src] \in {0} \cup muRaced
      BY <1>0, <3>1 DEF Window
    <3> QED BY <1>0, <1>1, <2>2, <2>3, <2>5, <3>2 DEF Window, Quiet
  <2>8. o \in MuOp' /\ RowsOK'
    BY <1>1, <1>2, <2>1, <2>3 DEF MuOp, RowsOK
  <2> QED BY <1>0, <1>1, <1>2, <2>2, <2>3, <2>4, <2>6, <2>7, <2>8, QuietGo
<1> QED BY <1>3, <1>4

LEMMA InsertCopyKeeps ==
    ASSUME MutateInv, NEW t \in MuThreads, NEW ok \in BOOLEAN, InsertCopy(t, ok)
    PROVE  MutateInv'
<1>0. MutateTypeOK /\ muOps[t] \in MuOp /\ muOps[t].kind = "copy" /\ muOps[t].step = "insert"
  BY DEF MutateInv, MutateTypeOK, InsertCopy, At
<1>1. Quiet /\ muStamp' = muStamp
  BY DEF InsertCopy, Quiet, muDisk, muWatch
<1>2. RowsOK /\ muPlan' \in MuPlanType
  BY <1>0, TypesHold, MayFailPlan DEF InsertCopy
<1>3. CASE ok /\ RowAt(muOps[t].dst) = {}
  <2>1. EndOp(t) /\ muRows' = MuUpserted(muRows, muOps[t].dst, muOps[t].read)
    BY <1>3 DEF InsertCopy
  <2>2. muOps[t].dst \in MuPaths /\ muOps[t].read \in Nat
    BY <1>0 DEF MuOp
  <2>3. RowsOK'
    BY <1>2, <2>1, <2>2, UpsertedRows
  <2> QED BY <1>1, <1>2, <2>1, <2>3, QuietEnd
<1>4. CASE ~(ok /\ RowAt(muOps[t].dst) = {})
  <2> DEFINE o == [muOps[t] EXCEPT !.step = "undo"]
  <2>1. GoOn(t, o) /\ muRows' = muRows
    BY <1>4 DEF InsertCopy
  <2>3. /\ o \in MuOp /\ o.kind = "copy" /\ o.step = "undo" /\ o.new = muOps[t].new /\ o.src = muOps[t].src
        /\ o.dst = muOps[t].dst
    BY <1>0 DEF MuOp, MuSteps
  <2> HIDE DEF o
  <2>4. muOps' = [muOps EXCEPT ![t] = o] /\ muLock' = muLock /\ muSaving' = muSaving
    BY <2>1 DEF GoOn, muLocks
  <2>5. muOps'[t] = o /\ OthersWait(t)
    BY <1>0, <2>4 DEF MutateTypeOK, OthersWait
  <2>6. Rendered(t)'
    <3>1. Rendered(t) BY DEF MutateInv
    <3> QED BY <1>0, <1>1, <2>3, <2>5, <3>1 DEF Rendered, Quiet, OthersWait
  <2>7. Window(t)'
    BY <2>3, <2>5 DEF Window
  <2>8. o \in MuOp' /\ RowsOK'
    BY <1>1, <1>2, <2>1, <2>3 DEF MuOp, RowsOK
  <2> QED BY <1>0, <1>1, <1>2, <2>3, <2>4, <2>6, <2>7, <2>8, QuietGo
<1> QED BY <1>3, <1>4

LEMMA CommitEditKeeps ==
    ASSUME MutateInv, NEW t \in MuThreads, NEW ok \in BOOLEAN, CommitEdit(t, ok)
    PROVE  MutateInv'
<1> DEFINE good == ok /\ (muOps[t].kind = "save_copy" \/ RowOf(1) # {})
<1>0. MutateTypeOK /\ muOps[t] \in MuOp /\ muOps[t].kind \in {"overwrite", "save_copy"} /\ muOps[t].step = "commit"
  BY DEF MutateInv, MutateTypeOK, CommitEdit, At
<1>1. /\ muFs' = muFs /\ muBak' = muBak /\ muStamp' = muStamp /\ muRaced' = muRaced
      /\ muDirty' = muDirty /\ muHeld' = muHeld
  BY DEF CommitEdit, muWatch
<1>2. RowsOK /\ HeldOK /\ DiskOK /\ muDirty \subseteq MuPaths /\ muPlan' \in MuPlanType
  BY <1>0, TypesHold, MayFailPlan DEF CommitEdit
<1>3. CASE good
  <2>1. /\ EndOp(t)
        /\ muRows' = IF muOps[t].kind = "save_copy" THEN MuUpserted(muRows, muOps[t].dst, muOps[t].read)
                     ELSE (muRows \ RowOf(1)) \cup {[r EXCEPT !.content = muOps[t].read] : r \in RowOf(1)}
        /\ muKept' = muKept \cup ({muOps[t].new} \cap Standing)
    BY <1>3 DEF CommitEdit
  <2>2. muOps[t].dst \in MuPaths /\ muOps[t].read \in Nat /\ muOps[t].new \in 0 .. muStamp
    BY <1>0 DEF MuOp
  <2>3. RowsOK'
    <3>1. CASE muOps[t].kind = "save_copy"
      BY <1>2, <2>1, <2>2, <3>1, UpsertedRows
    <3>2. CASE muOps[t].kind # "save_copy"
      BY <1>2, <2>1, <2>2, <3>2, OwnRowRewritten
    <3> QED BY <3>1, <3>2
  <2>4. muOps[t].new >= 2 /\ muOps[t].new # 0
    <3>1. Rendered(t) BY DEF MutateInv
    <3> QED BY <1>0, <3>1 DEF Rendered
  <2>5. DiskOK' /\ HeldOK'
    BY SMTT(60), <1>1, <1>2, <2>1, <2>2, <2>4 DEF DiskOK, HeldOK
  <2>6. Touches(t) /\ BacksUp(t)
    BY <1>1 DEF Touches, BacksUp
  <2>7. muOps'[t] = MuIdle /\ OthersWait(t)
    BY <1>0, <1>1, <2>1, Ends
  <2>8. Standing \subseteq Standing'
    <3>1. t \notin Unlinking' /\ t \notin Tentative'
      BY <2>7, OverClaimsNothing
    <3>2. DOMAIN muFs = MuPaths /\ DOMAIN muFs' = MuPaths /\ \A q \in MuPaths : muFs'[q] = muFs[q]
      BY <1>0, <1>1 DEF MutateTypeOK
    <3> QED BY <2>7, <3>1, <3>2, Settles
  <2>9. KeptStands'
    BY <1>1, <2>1, <2>8 DEF KeptStands, MutateInv
  <2>10. muKept' \subseteq muKept \cup ({muOps[t].new} \ {0})
    BY <2>1, <2>4
  <2> QED BY <1>1, <1>2, <2>1, <2>3, <2>5, <2>6, <2>9, <2>10, EndingStep
<1>4. CASE ~good
  <2> DEFINE s == IF muOps[t].kind = "overwrite" THEN "restore" ELSE "undo"
             o == [muOps[t] EXCEPT !.step = s]
  <2>1. GoOn(t, o) /\ muRows' = muRows /\ muKept' = muKept
    BY <1>4 DEF CommitEdit
  <2>2. /\ s \in MuSteps /\ s \in {"restore", "undo"}
        /\ s = "restore" <=> muOps[t].kind = "overwrite"
    BY DEF MuSteps
  <2> HIDE DEF s
  <2>3. /\ o \in MuOp /\ o.kind = muOps[t].kind /\ o.step = s /\ o.new = muOps[t].new /\ o.src = muOps[t].src
        /\ o.dst = muOps[t].dst
    BY <1>0, <2>2 DEF MuOp
  <2> HIDE DEF o
  <2>4. muOps' = [muOps EXCEPT ![t] = o] /\ muLock' = muLock /\ muSaving' = muSaving
    BY <2>1 DEF GoOn, muLocks
  <2>5. muOps'[t] = o /\ OthersWait(t)
    BY <1>0, <2>4 DEF MutateTypeOK, OthersWait
  <2>q. Quiet
    BY <1>1, <2>1 DEF Quiet
  <2>6. Rendered(t)'
    <3>1. Rendered(t) BY DEF MutateInv
    <3> QED BY <1>0, <2>q, <2>2, <2>3, <2>5, <3>1 DEF Rendered, Quiet, OthersWait
  <2>7. Window(t)'
    <3>1. Window(t) BY DEF MutateInv
    <3> QED BY <1>0, <2>q, <2>2, <2>3, <2>5, <3>1 DEF Window, Quiet
  <2>8. o \in MuOp' /\ RowsOK' /\ (o.kind = "overwrite" => t \in muLock)
    BY <1>0, <1>1, <1>2, <2>1, <2>3 DEF MuOp, RowsOK, MutateInv, LeaseHeld
  <2> QED BY <1>0, <1>1, <1>2, <2>q, <2>2, <2>3, <2>4, <2>6, <2>7, <2>8, QuietGo
<1> QED BY <1>3, <1>4

LEMMA WriteBackupKeeps ==
    ASSUME MutateInv, NEW t \in MuThreads, NEW r \in Outcomes, WriteBackup(t, r)
    PROVE  MutateInv'
<1> DEFINE p == muOps[t].src
           there == r # "early" /\ muFs[p] # 0
<1>0. MutateTypeOK /\ muOps[t] \in MuOp /\ muOps[t].kind = "overwrite" /\ muOps[t].step = "backup" /\ p \in MuPaths
  BY DEF MutateInv, MutateTypeOK, WriteBackup, At, MuOp
<1>1. /\ muFs' = muFs /\ muStamp' = muStamp /\ muRaced' = muRaced /\ muRows' = muRows
      /\ muDirty' = muDirty /\ muHeld' = muHeld
  BY DEF WriteBackup, muWatch
<1>2. RowsOK' /\ HeldOK' /\ muDirty' \subseteq MuPaths /\ muPlan' \in MuPlanType
  BY <1>0, <1>1, TypesHold, MayFailPlan DEF WriteBackup, RowsOK, HeldOK
<1>3. \/ muBak' = muBak /\ muKept' = muKept /\ EndOp(t)
      \/ /\ muBak' = [muBak EXCEPT ![p] = muFs[p]] /\ muKept' = muKept \ ({muBak[p]} \ Standing)
         /\ EndOp(t) \/ GoOn(t, [muOps[t] EXCEPT !.step = "replace"])
  BY DEF WriteBackup
<1>4. muKept' \subseteq muKept
  BY <1>3
<1>5. DiskOK'
  <2>1. DiskOK BY <1>0, TypesHold
  <2>2. muBak' \in [MuPaths -> 0 .. muStamp] BY <1>0, <1>3 DEF MutateTypeOK
  <2> QED BY <1>1, <1>4, <2>1, <2>2 DEF DiskOK
<1>6. Touches(t) /\ BacksUp(t)
  <2>1. Touches(t) BY <1>1 DEF Touches
  <2>2. BacksUp(t) BY <1>0, <1>3 DEF BacksUp
  <2> QED BY <2>1, <2>2
<1>7. ASSUME Standing \subseteq Standing' PROVE KeptStands'
  <2>1. KeptStands BY DEF MutateInv
  <2>2. CASE muBak' = muBak /\ muKept' = muKept
    BY <1>1, <1>7, <2>1, <2>2 DEF KeptStands
  <2>3. CASE muBak' = [muBak EXCEPT ![p] = muFs[p]] /\ muKept' = muKept \ ({muBak[p]} \ Standing)
    <3>1. ASSUME NEW c \in muKept', c \in ValuesOf(muBak), c \notin Standing
          PROVE  c \in ValuesOf(muBak')
      <4>1. PICK q \in MuPaths : muBak[q] = c BY <1>0, <3>1 DEF ValuesOf, MutateTypeOK
      <4>2. q # p BY <2>3, <3>1, <4>1
      <4>3. muBak'[q] = c /\ DOMAIN muBak' = MuPaths BY <1>0, <2>3, <4>1, <4>2 DEF MutateTypeOK
      <4> QED BY <4>3, Values
    <3> QED BY <1>1, <1>4, <1>7, <2>1, <3>1 DEF KeptStands
  <2> QED BY <1>3, <2>2, <2>3
<1>8. DOMAIN muFs = MuPaths /\ DOMAIN muFs' = MuPaths /\ \A q \in MuPaths : muFs'[q] = muFs[q]
  BY <1>0, <1>1 DEF MutateTypeOK
<1>9. CASE EndOp(t)
  <2>1. muOps'[t] = MuIdle /\ OthersWait(t)
    BY <1>0, <1>1, <1>9, Ends
  <2>2. t \notin Unlinking' /\ t \notin Tentative'
    BY <2>1, OverClaimsNothing
  <2>3. Standing \subseteq Standing'
    BY <1>8, <2>1, <2>2, Settles
  <2> QED BY <1>1, <1>2, <1>4, <1>5, <1>6, <1>7, <1>9, <2>3, EndingStep
<1>10. CASE ~EndOp(t)
  <2> DEFINE o == [muOps[t] EXCEPT !.step = "replace"]
  <2>1. GoOn(t, o) /\ muBak' = [muBak EXCEPT ![p] = muFs[p]]
    BY <1>3, <1>10
  <2>3. /\ o \in MuOp /\ o.kind = "overwrite" /\ o.step = "replace" /\ o.new = muOps[t].new /\ o.src = p
        /\ o.dst = muOps[t].dst
    BY <1>0 DEF MuOp, MuSteps
  <2> HIDE DEF o
  <2>4. muOps' = [muOps EXCEPT ![t] = o] /\ muLock' = muLock /\ muSaving' = muSaving
    BY <2>1 DEF GoOn, muLocks
  <2>5. muOps'[t] = o /\ OthersWait(t)
    BY <1>0, <2>4 DEF MutateTypeOK, OthersWait
  <2>b. muBak'[p] = muFs[p] /\ \A q \in MuPaths : q # p => muBak'[q] = muBak[q]
    BY <1>0, <2>1 DEF MutateTypeOK
  <2>6. Rendered(t)'
    <3>1. /\ o.new # 0 /\ o.new >= 2 /\ o.new \notin muKept /\ o.new \notin OnDisk
          /\ \A u \in MuThreads \ {t} : muOps[u].new # o.new
          /\ o.dst = o.src
      BY <1>0, <2>3 DEF Rendered, MutateInv
    <3>2. \A q \in MuPaths : muFs[q] # o.new /\ muBak[q] # o.new
      BY <1>0, <3>1 DEF OnDisk, ValuesOf, MutateTypeOK
    <3>3. \A q \in MuPaths : muFs'[q] # o.new /\ muBak'[q] # o.new
      BY <1>0, <1>8, <2>b, <3>2
    <3>4. o.new \notin OnDisk'
      <4>1. DOMAIN muBak' = MuPaths BY <1>5 DEF DiskOK
      <4> QED BY <1>8, <3>3, <4>1 DEF OnDisk, ValuesOf
    <3>5. o.new \notin muKept'
      BY <1>4, <3>1
    <3>6. \A u \in MuThreads \ {t} : muOps'[u].new # o.new
      BY <2>5, <3>1 DEF OthersWait
    <3> QED BY <1>0, <2>3, <2>5, <3>1, <3>3, <3>4, <3>5, <3>6 DEF Rendered
  <2>7. Window(t)'
    BY <1>1, <2>3, <2>5, <2>b DEF Window
  <2>8. o \in MuOp' /\ t \in muLock
    BY <1>0, <1>1, <2>3 DEF MuOp, MutateInv, LeaseHeld
  <2>9. t \notin Unlinking' /\ t \notin Tentative'
    BY <2>3, <2>5 DEF Unlinking, Tentative
  <2>10. Standing \subseteq Standing'
    BY <1>8, <2>5, <2>9, Settles
  <2> QED BY <1>1, <1>2, <1>4, <1>5, <1>6, <1>7, <2>3, <2>4, <2>6, <2>7, <2>8, <2>10, GoingStep
<1> QED BY <1>9, <1>10

\* Writing one file: what was there is not a kept picture, or is somewhere else, or the file
\* was a tentative one of this operation.
LEMMA WrittenStands ==
    ASSUME MutateInv, NEW t \in MuThreads, OthersWait(t), t \notin Unlinking',
           t \in Tentative' => \/ t \in Tentative /\ muOps'[t].dst = muOps[t].dst
                               \/ muFs[muOps'[t].dst] \notin muKept,
           DOMAIN muFs' = MuPaths, muBak' = muBak, muKept' \subseteq muKept, muRaced \subseteq muRaced',
           NEW p \in MuPaths, \A q \in MuPaths : q # p => muFs'[q] = muFs[q],
           \/ muFs[p] \notin muKept \/ muFs[p] \in muRaced \cup ValuesOf(muBak)
           \/ t \in Tentative /\ p = muOps[t].dst
    PROVE  KeptStands'
<1>1. SUFFICES ASSUME NEW c \in muKept, c \notin muRaced, c \notin ValuesOf(muBak)
               PROVE  c \in Standing'
  BY DEF KeptStands
<1>2. c \in Standing
  BY <1>1 DEF MutateInv, KeptStands
<1>3. DOMAIN muFs = MuPaths
  BY DEF MutateInv, MutateTypeOK
<1>4. \A q \in MuPaths : muFs[q] = c => muFs'[q] = c \/ (t \in Tentative /\ q = muOps[t].dst)
  BY <1>1
<1>5. t \in Tentative' => \/ t \in Tentative /\ muOps'[t].dst = muOps[t].dst
                          \/ muFs[muOps'[t].dst] # c
  BY <1>1
<1> QED BY <1>2, <1>3, <1>4, <1>5, Settles

\* A step that writes one file and with which the operation ends.
LEMMA WriteAndEnd ==
    ASSUME MutateInv, NEW t \in MuThreads, EndOp(t), NEW p \in MuPaths,
           NEW v \in 0 .. muStamp, v \in OnDisk \cup {0, Partial, muOps[t].new},
           Write(t, [muFs EXCEPT ![p] = v]),
           muBak' = muBak, muKept' = muKept, muStamp' = muStamp, muRows' = muRows, muPlan' \in MuPlanType,
           \/ muFs[p] \notin muKept \/ muFs[p] \in muRaced \cup ValuesOf(muBak)
           \/ t \in Tentative /\ p = muOps[t].dst
    PROVE  MutateInv'
<1>0. MutateTypeOK /\ RowsOK /\ DiskOK /\ HeldOK
  BY TypesHold DEF MutateInv
<1>1. /\ muFs' \in [MuPaths -> 0 .. muStamp] /\ muFs'[p] = v
      /\ \A q \in MuPaths : q # p => muFs'[q] = muFs[q]
      /\ Touches(t)
      /\ muDirty' \subseteq MuPaths /\ muHeld' = muHeld
  BY <1>0, Writes
<1>2. muOps'[t] = MuIdle /\ OthersWait(t)
  BY <1>0, Ends
<1>3. t \notin Unlinking' /\ t \notin Tentative'
  BY <1>2, OverClaimsNothing
<1>4. KeptStands'
  <2>1. DOMAIN muFs' = MuPaths /\ muRaced \subseteq muRaced' BY <1>1 DEF Touches
  <2> QED BY <1>1, <1>2, <1>3, <2>1, WrittenStands
<1>5. RowsOK' /\ HeldOK' /\ DiskOK'
  BY <1>0, <1>1 DEF RowsOK, HeldOK, DiskOK
<1>6. BacksUp(t)
  BY DEF BacksUp
<1> QED BY <1>1, <1>4, <1>5, <1>6, EndingStep

\* A step that changes nothing on disk and with which the operation ends.
LEMMA NoWriteEnd ==
    ASSUME MutateInv, NEW t \in MuThreads, EndOp(t), NoWrite,
           muBak' = muBak, muKept' = muKept, muStamp' = muStamp, muRows' = muRows, muPlan' \in MuPlanType
    PROVE  MutateInv'
<1>1. Quiet
  BY DEF NoWrite, Quiet, muWatch
<1>2. RowsOK'
  BY TypesHold DEF MutateInv, RowsOK
<1> QED BY <1>1, <1>2, QuietEnd

LEMMA PublishKeeps ==
    ASSUME MutateInv, NEW t \in MuThreads, NEW r \in Outcomes, Publish(t, r)
    PROVE  MutateInv'
<1> DEFINE p == muOps[t].dst
           over == muOps[t].kind = "overwrite"
           done == r # "early" /\ (over \/ muFs[p] = 0)
<1>0. /\ MutateTypeOK /\ muOps[t] \in MuOp /\ p \in MuPaths
      /\ \/ over /\ muOps[t].step = "replace"
         \/ muOps[t].kind = "save_copy" /\ muOps[t].step = "persist"
  BY DEF MutateInv, MutateTypeOK, Publish, At, MuOp
<1>1. /\ muBak' = muBak /\ muStamp' = muStamp /\ muKept' = muKept /\ muRows' = muRows
      /\ muPlan' \in MuPlanType
  BY <1>0, MayFailPlan DEF Publish
<1>2. CASE ~done
  <2>1. NoWrite /\ EndOp(t)
    BY <1>2 DEF Publish
  <2> QED BY <1>1, <2>1, NoWriteEnd
<1>3. CASE done
  <2>n. /\ muOps[t].new \in 0 .. muStamp /\ muOps[t].new # 0 /\ muOps[t].new >= 2
        /\ muOps[t].new \notin muKept /\ muOps[t].new \notin OnDisk
        /\ \A u \in MuThreads \ {t} : muOps[u].new # muOps[t].new
        /\ over => p = muOps[t].src /\ muBak[p] # muOps[t].new
    <3>1. Rendered(t) BY DEF MutateInv
    <3> QED BY <1>0, <3>1 DEF Rendered, MuOp
  <2>1. Write(t, [muFs EXCEPT ![p] = muOps[t].new])
    BY <1>3 DEF Publish
  <2>2. muFs[p] \notin muKept \/ muFs[p] \in muRaced \cup ValuesOf(muBak)
    <3>1. CASE over
      <4>1. muFs[p] \in {0, muBak[p]} \cup muRaced
        BY <1>0, <2>n, <3>1 DEF MutateInv, Window
      <4>2. 0 \notin muKept BY SMTT(60), <1>0 DEF MutateTypeOK
      <4>3. muBak[p] \in ValuesOf(muBak) BY <1>0, Values DEF MutateTypeOK
      <4> QED BY <4>1, <4>2, <4>3
    <3>2. CASE ~over
      <4>1. muFs[p] = 0 BY <1>3, <3>2
      <4> QED BY SMTT(60), <1>0, <4>1 DEF MutateTypeOK
    <3> QED BY <3>1, <3>2
  <2>3. CASE EndOp(t)
    BY <1>0, <1>1, <2>n, <2>1, <2>2, <2>3, WriteAndEnd
  <2>4. CASE ~EndOp(t)
    <3> DEFINE o == [muOps[t] EXCEPT !.step = "hash"]
    <3>1. GoOn(t, o)
      BY <1>3, <2>4 DEF Publish
    <3>2. /\ o \in MuOp /\ o.kind = muOps[t].kind /\ o.step = "hash" /\ o.new = muOps[t].new
          /\ o.src = muOps[t].src /\ o.dst = p
      BY <1>0 DEF MuOp, MuSteps
    <3> HIDE DEF o
    <3>3. muOps' = [muOps EXCEPT ![t] = o] /\ muLock' = muLock /\ muSaving' = muSaving
      BY <3>1 DEF GoOn, muLocks
    <3>4. muOps'[t] = o /\ OthersWait(t)
      BY <1>0, <3>3 DEF MutateTypeOK, OthersWait
    <3>5. /\ muFs' \in [MuPaths -> 0 .. muStamp] /\ muFs'[p] = muOps[t].new
          /\ \A q \in MuPaths : q # p => muFs'[q] = muFs[q]
          /\ Touches(t)
          /\ muDirty' \subseteq MuPaths /\ muHeld' = muHeld
      BY <1>0, <2>n, <2>1, Writes
    <3>6. t \notin Unlinking' /\ t \notin Tentative'
      BY <1>0, <3>2, <3>4 DEF Unlinking, Tentative
    <3>7. KeptStands'
      <4>1. DOMAIN muFs' = MuPaths /\ muRaced \subseteq muRaced' BY <3>5 DEF Touches
      <4> QED BY <1>0, <1>1, <2>2, <3>4, <3>5, <3>6, <4>1, WrittenStands
    <3>8. Rendered(t)'
      BY <1>0, <1>1, <2>n, <3>2, <3>4 DEF Rendered, OthersWait
    <3>9. Window(t)'
      BY <1>0, <2>n, <3>2, <3>4, <3>5 DEF Window
    <3>10. RowsOK' /\ HeldOK' /\ DiskOK' /\ BacksUp(t) /\ o \in MuOp' /\ (o.kind = "overwrite" => t \in muLock)
      <4>1. RowsOK /\ HeldOK /\ DiskOK BY <1>0, TypesHold
      <4>2. RowsOK' /\ HeldOK' /\ DiskOK' BY <1>1, <3>5, <4>1 DEF RowsOK, HeldOK, DiskOK
      <4>3. BacksUp(t) /\ o \in MuOp' BY <1>1, <3>2 DEF BacksUp, MuOp
      <4>4. o.kind = "overwrite" => t \in muLock BY <1>0, <3>2 DEF MutateInv, LeaseHeld
      <4> QED BY <4>2, <4>3, <4>4
    <3> QED BY <1>1, <3>2, <3>3, <3>5, <3>7, <3>8, <3>9, <3>10, GoingStep
  <2> QED BY <2>3, <2>4
<1> QED BY <1>2, <1>3

LEMMA RestoreBackupKeeps ==
    ASSUME MutateInv, NEW t \in MuThreads, NEW ok \in BOOLEAN, RestoreBackup(t, ok)
    PROVE  MutateInv'
<1> DEFINE p == muOps[t].src
<1>0. /\ MutateTypeOK /\ muOps[t] \in MuOp /\ p \in MuPaths
      /\ muOps[t].kind = "overwrite" /\ muOps[t].step = "restore"
  BY DEF MutateInv, MutateTypeOK, RestoreBackup, At, MuOp
<1>1. /\ muBak' = muBak /\ muStamp' = muStamp /\ muKept' = muKept /\ muRows' = muRows
      /\ muPlan' \in MuPlanType /\ EndOp(t)
  BY <1>0, MayFailPlan DEF RestoreBackup
<1>2. CASE ~ok
  <2>1. NoWrite BY <1>2 DEF RestoreBackup
  <2> QED BY <1>1, <2>1, NoWriteEnd
<1>3. CASE ok
  <2>1. Write(t, [muFs EXCEPT ![p] = muBak[p]])
    BY <1>3 DEF RestoreBackup
  <2>2. muFs[p] \in {muOps[t].new} \cup muRaced
    BY <1>0 DEF MutateInv, Window
  <2>3. muOps[t].new \notin muKept
    <3>1. Rendered(t) BY DEF MutateInv
    <3> QED BY <1>0, <3>1 DEF Rendered
  <2>4. muBak[p] \in OnDisk /\ muBak[p] \in 0 .. muStamp
    BY <1>0 DEF OnDisk, ValuesOf, MutateTypeOK
  <2> QED BY <1>0, <1>1, <2>1, <2>2, <2>3, <2>4, WriteAndEnd
<1> QED BY <1>2, <1>3

LEMMA UndoCopyKeeps ==
    ASSUME MutateInv, NEW t \in MuThreads, NEW ok \in BOOLEAN, UndoCopy(t, ok)
    PROVE  MutateInv'
<1> DEFINE p == muOps[t].dst
<1>0. /\ MutateTypeOK /\ muOps[t] \in MuOp /\ p \in MuPaths
      /\ muOps[t].kind \in {"copy", "save_copy"} /\ muOps[t].step = "undo"
  BY DEF MutateInv, MutateTypeOK, UndoCopy, At, MuOp
<1>1. /\ muBak' = muBak /\ muStamp' = muStamp /\ muKept' = muKept /\ muRows' = muRows
      /\ muPlan' \in MuPlanType /\ EndOp(t)
  BY <1>0, MayFailPlan DEF UndoCopy
<1>2. CASE ~ok
  <2>1. NoWrite BY <1>2 DEF UndoCopy
  <2> QED BY <1>1, <2>1, NoWriteEnd
<1>3. CASE ok
  <2>1. Write(t, [muFs EXCEPT ![p] = 0]) /\ 0 \in 0 .. muStamp
    BY SMTT(60), <1>0, <1>3 DEF UndoCopy, MutateTypeOK
  <2>2. CASE muOps[t].kind = "copy"
    <3>1. t \in Tentative BY <1>0, <2>2 DEF Tentative
    <3> QED BY <1>0, <1>1, <2>1, <3>1, WriteAndEnd
  <2>3. CASE muOps[t].kind = "save_copy"
    <3>1. muFs[p] \in {muOps[t].new} \cup muRaced
      BY <1>0, <2>3 DEF MutateInv, Window
    <3>2. muOps[t].new \notin muKept
      <4>1. Rendered(t) BY DEF MutateInv
      <4> QED BY <1>0, <2>3, <4>1 DEF Rendered
    <3> QED BY <1>0, <1>1, <2>1, <3>1, <3>2, WriteAndEnd
  <2> QED BY <1>0, <2>2, <2>3
<1> QED BY <1>2, <1>3

\* A move comes to the removal of its source with the new name in place: what a kept picture
\* loses if the source goes it has under the new name, unless that is raced.
LEMMA MoveLinked ==
    ASSUME MutateInv, NEW t \in MuThreads, OthersWait(t), t \notin Unlinking,
           NEW d \in MuPaths, muOps'[t].dst = d, muOps'[t].src = muOps[t].src, muOps[t].src \in MuPaths,
           t \in Tentative => muOps[t].dst = d,
           DOMAIN muFs' = MuPaths, muFs'[d] = muFs[muOps[t].src],
           \A q \in MuPaths : q # d => muFs'[q] = muFs[q],
           muFs[d] \notin muKept \/ muFs[d] \in muRaced,
           Touches(t), muBak' = muBak, muKept' = muKept
    PROVE  KeptStands'
<1>1. SUFFICES ASSUME NEW c \in muKept, c \notin muRaced', c \notin ValuesOf(muBak)
               PROVE  c \in Standing'
  BY DEF KeptStands
<1>2. c \in Standing /\ c \notin muRaced
  BY <1>1 DEF MutateInv, KeptStands, Touches
<1>3. DOMAIN muFs = MuPaths /\ muFs[d] # c
  BY <1>1, <1>2 DEF MutateInv, MutateTypeOK
<1>4. ASSUME c = muFs[muOps[t].src]
      PROVE  /\ muFs'[d] = c
             /\ \A u \in MuThreads \ {t} : /\ u \in Tentative => muOps[u].dst # d
                                           /\ u \in Unlinking => muOps[u].src # d
  <2>1. muFs'[d] = c /\ muFs'[d] # muFs[d] BY <1>3, <1>4
  <2>2. ~Exposed(t, d) BY <1>1, <2>1 DEF Touches
  <2> QED BY <2>1, <2>2 DEF Exposed, Tentative, Unlinking
<1> QED BY <1>2, <1>3, <1>4, LinkedStands

\* Where an operation writes a file and goes on, all but its own claims.
LEMMA WriteAndGo ==
    ASSUME MutateInv, NEW t \in MuThreads, NEW o \in MuOp, GoOn(t, o), NEW p \in MuPaths,
           NEW v \in 0 .. muStamp, v \in OnDisk \cup {0, Partial},
           Write(t, [muFs EXCEPT ![p] = v]),
           muBak' = muBak, muKept' = muKept, muStamp' = muStamp, muRows' = muRows, muPlan' \in MuPlanType,
           o.kind = muOps[t].kind, o.kind \in {"copy", "move"}, o.new = muOps[t].new,
           o.step \in {"fill", "insert", "unlink", "relocate"},
           Window(t)', KeptStands'
    PROVE  MutateInv'
<1>0. MutateTypeOK /\ RowsOK /\ DiskOK /\ HeldOK
  BY TypesHold DEF MutateInv
<1>1. /\ muFs' \in [MuPaths -> 0 .. muStamp] /\ muFs'[p] = v
      /\ \A q \in MuPaths : q # p => muFs'[q] = muFs[q]
      /\ Touches(t)
      /\ muDirty' \subseteq MuPaths /\ muHeld' = muHeld
  BY <1>0, Writes
<1>2. muOps' = [muOps EXCEPT ![t] = o] /\ muLock' = muLock /\ muSaving' = muSaving
  BY DEF GoOn, muLocks
<1>3. muOps'[t] = o /\ OthersWait(t)
  BY <1>0, <1>2 DEF MutateTypeOK, OthersWait
<1>4. RowsOK' /\ HeldOK' /\ DiskOK' /\ BacksUp(t) /\ o \in MuOp'
  <2>1. RowsOK' /\ HeldOK' /\ DiskOK' BY <1>0, <1>1 DEF RowsOK, HeldOK, DiskOK
  <2>2. BacksUp(t) /\ o \in MuOp' BY DEF BacksUp, MuOp
  <2> QED BY <2>1, <2>2
<1>5. Rendered(t)'
  <2>1. Rendered(t) BY DEF MutateInv
  <2>2. o.new # 0 => /\ o.new >= 2 /\ o.new \notin muKept
                     /\ \A u \in MuThreads \ {t} : muOps[u].new # o.new
    BY <2>1 DEF Rendered
  <2> QED BY <1>3, <2>2 DEF Rendered, OthersWait
<1> QED BY <1>1, <1>2, <1>4, <1>5, GoingStep

LEMMA PlaceKeeps ==
    ASSUME MutateInv, NEW t \in MuThreads, NEW linked \in BOOLEAN, Place(t, linked)
    PROVE  MutateInv'
<1>0. /\ MutateTypeOK /\ muOps[t] \in MuOp /\ muOps[t].src \in MuPaths
      /\ muOps[t].kind \in {"copy", "move"} /\ muOps[t].step = "place"
      /\ linked => muOps[t].kind = "move"
  BY DEF MutateInv, MutateTypeOK, Place, At, MuOp
<1>1. /\ muBak' = muBak /\ muStamp' = muStamp /\ muKept' = muKept /\ muRows' = muRows /\ muPlan' \in MuPlanType
  BY <1>0 DEF Place, MutateTypeOK
<1>2. CASE FirstFree(AlbumNames) = {} \/ (linked /\ muFs[muOps[t].src] = 0)
  <2>1. EndOp(t) /\ NoWrite BY <1>2 DEF Place
  <2> QED BY <1>1, <2>1, NoWriteEnd
<1>3. CASE ~(FirstFree(AlbumNames) = {} \/ (linked /\ muFs[muOps[t].src] = 0))
  <2> DEFINE v == IF linked THEN muFs[muOps[t].src] ELSE Partial
             s == IF linked THEN "unlink" ELSE "fill"
             n(p) == [muOps[t] EXCEPT !.dst = p, !.step = s, !.before = muFs[muOps[t].src]]
  <2>1. PICK p \in FirstFree(AlbumNames) : Write(t, [muFs EXCEPT ![p] = v]) /\ GoOn(t, n(p))
    BY <1>3 DEF Place
  <2> DEFINE o == n(p)
  <2>2. p \in MuPaths /\ muFs[p] = 0
    BY Paths
  <2>3. v \in 0 .. muStamp /\ v \in OnDisk \cup {0, Partial}
    BY SMTT(60), <1>0 DEF MutateTypeOK, OnDisk, ValuesOf, Partial
  <2>4. s \in MuSteps /\ s \in {"unlink", "fill"} /\ (s = "unlink" <=> linked)
    BY DEF MuSteps
  <2> HIDE DEF s
  <2>5. o \in MuOp
    <3>1. muFs[muOps[t].src] \in Nat BY <1>0, FileSize
    <3> QED BY <1>0, <2>2, <2>4, <3>1, ZenonT(60) DEF MuOp
  <2>6. o.kind = muOps[t].kind /\ o.src = muOps[t].src /\ o.dst = p /\ o.new = muOps[t].new /\ o.step = s
    BY <1>0, SMTT(60) DEF MuOp
  <2>g. GoOn(t, o) BY <2>1
  <2> HIDE DEF o, n
  <2>7. muOps'[t] = o /\ OthersWait(t)
    BY <1>0, <2>g DEF MutateTypeOK, OthersWait, GoOn
  <2>8. /\ muFs' \in [MuPaths -> 0 .. muStamp] /\ muFs'[p] = v
        /\ \A q \in MuPaths : q # p => muFs'[q] = muFs[q]
        /\ Touches(t)
    <3> HIDE DEF v
    <3> QED BY SMTT(60), <1>0, <2>1, <2>2, <2>3, Writes
  <2>9. muFs[p] \notin muKept
    BY SMTT(60), <1>0, <2>2 DEF MutateTypeOK
  <2>10. t \notin Unlinking /\ t \notin Tentative
    BY <1>0 DEF Unlinking, Tentative
  <2>11. DOMAIN muFs' = MuPaths /\ muRaced \subseteq muRaced'
    BY <2>8 DEF Touches
  <2>12. KeptStands'
    <3>1. CASE linked
      <4>1. muFs'[p] = muFs[muOps[t].src] BY <2>8, <3>1
      <4> HIDE DEF v
      <4> QED BY <1>0, <1>1, <2>2, <2>6, <2>7, <2>8, <2>9, <2>10, <2>11, <4>1, MoveLinked
    <3>2. CASE ~linked
      <4>1. t \notin Unlinking' BY <2>4, <2>6, <2>7, <3>2 DEF Unlinking
      <4> HIDE DEF v
      <4> QED BY <1>1, <2>2, <2>6, <2>7, <2>8, <2>9, <2>11, <4>1, WrittenStands
    <3> QED BY <3>1, <3>2
  <2>13. Window(t)'
    <3>1. ~linked => muFs'[p] = Partial BY <2>8
    <3> QED BY <1>0, <2>4, <2>6, <2>7, <3>1 DEF Window
  <2> HIDE DEF v
  <2> QED BY <1>0, <1>1, <2>1, <2>g, <2>2, <2>3, <2>4, <2>5, <2>6, <2>12, <2>13, WriteAndGo
<1> QED BY <1>2, <1>3

LEMMA FillKeeps ==
    ASSUME MutateInv, NEW t \in MuThreads, NEW ok \in BOOLEAN, Fill(t, ok)
    PROVE  MutateInv'
<1> DEFINE p == muOps[t].dst
           x == muOps[t].src
           good == ok /\ muFs[x] # 0
           v == IF good THEN muFs[x] ELSE 0
<1>0. /\ MutateTypeOK /\ muOps[t] \in MuOp /\ x \in MuPaths /\ p \in MuPaths
      /\ muOps[t].kind \in {"copy", "move"} /\ muOps[t].step = "fill"
  BY DEF MutateInv, MutateTypeOK, Fill, At, MuOp
<1>1. /\ muBak' = muBak /\ muStamp' = muStamp /\ muKept' = muKept /\ muRows' = muRows /\ muPlan' \in MuPlanType
  BY <1>0, MayFailPlan DEF Fill
<1>2. t \in Tentative /\ t \notin Unlinking
  BY <1>0 DEF Tentative, Unlinking
<1>w. Write(t, [muFs EXCEPT ![p] = v])
  BY DEF Fill
<1>3. CASE ~good
  <2>1. EndOp(t)
    BY <1>3 DEF Fill
  <2>2. v \in 0 .. muStamp /\ v \in {0}
    BY SMTT(60), <1>0, <1>3 DEF MutateTypeOK
  <2> HIDE DEF v
  <2> QED BY <1>0, <1>1, <1>2, <1>w, <2>1, <2>2, WriteAndEnd
<1>4. CASE good
  <2> DEFINE s == IF muOps[t].kind = "copy" THEN "insert" ELSE "unlink"
             o == [muOps[t] EXCEPT !.step = s]
  <2>1. GoOn(t, o)
    BY <1>4 DEF Fill
  <2>2. v \in 0 .. muStamp /\ v \in OnDisk
    BY <1>0, <1>4 DEF MutateTypeOK, OnDisk, ValuesOf
  <2>e. v = muFs[x]
    BY <1>4
  <2> HIDE DEF v
  <2>3. s \in MuSteps /\ s \in {"insert", "unlink"} /\ (s = "insert" <=> muOps[t].kind = "copy")
    BY DEF MuSteps
  <2> HIDE DEF s
  <2>4. o \in MuOp /\ o.kind = muOps[t].kind /\ o.src = x /\ o.dst = p /\ o.new = muOps[t].new /\ o.step = s
    BY <1>0, <2>3 DEF MuOp
  <2> HIDE DEF o
  <2>5. muOps'[t] = o /\ OthersWait(t)
    BY <1>0, <2>1 DEF MutateTypeOK, OthersWait, GoOn
  <2>6. /\ muFs' \in [MuPaths -> 0 .. muStamp] /\ muFs'[p] = muFs[x]
        /\ \A q \in MuPaths : q # p => muFs'[q] = muFs[q]
        /\ Touches(t)
    <3>1. /\ muFs' \in [MuPaths -> 0 .. muStamp] /\ muFs'[p] = v
          /\ \A q \in MuPaths : q # p => muFs'[q] = muFs[q]
          /\ Touches(t)
      <4>1. p \in MuPaths /\ v \in 0 .. muStamp /\ v \in OnDisk \cup {0, Partial, muOps[t].new} /\ MutateTypeOK
        BY <1>0, <2>2
      <4> HIDE DEF p
      <4> QED BY <1>w, <4>1, Writes
    <3> QED BY <2>e, <3>1
  <2>7. DOMAIN muFs' = MuPaths /\ muRaced \subseteq muRaced'
    BY <2>6 DEF Touches
  <2>8. muFs[p] \notin muKept \/ muFs[p] \in muRaced
    <3>1. muFs[p] \in {Partial} \cup muRaced BY <1>0 DEF MutateInv, Window
    <3>2. Partial \notin muKept BY SMTT(60), <1>0 DEF MutateTypeOK, Partial
    <3> QED BY <3>1, <3>2
  <2>9. KeptStands'
    <3>1. CASE s = "insert"
      <4>1. t \notin Unlinking' BY <2>4, <2>5, <3>1 DEF Unlinking
      <4> QED BY <1>0, <1>1, <1>2, <2>4, <2>5, <2>6, <2>7, <4>1, WrittenStands
    <3>2. CASE s = "unlink"
      BY <1>0, <1>1, <1>2, <2>4, <2>5, <2>6, <2>7, <2>8, MoveLinked
    <3> QED BY <2>3, <3>1, <3>2
  <2>10. Window(t)'
    BY <1>0, <2>3, <2>4, <2>5 DEF Window
  <2> QED BY <1>0, <1>1, <1>w, <2>1, <2>2, <2>3, <2>4, <2>9, <2>10, WriteAndGo
<1> QED BY <1>3, <1>4

LEMMA UnlinkSourceKeeps ==
    ASSUME MutateInv, NEW t \in MuThreads, NEW ok \in BOOLEAN, UnlinkSource(t, ok)
    PROVE  MutateInv'
<1> DEFINE p == muOps[t].dst
           x == muOps[t].src
           good == ok /\ muFs[x] # 0
<1>0. /\ MutateTypeOK /\ muOps[t] \in MuOp /\ x \in MuPaths /\ p \in MuPaths
      /\ muOps[t].kind = "move" /\ muOps[t].step = "unlink" /\ 0 \in 0 .. muStamp
  BY SMTT(60) DEF MutateInv, MutateTypeOK, UnlinkSource, At, MuOp
<1>1. /\ muBak' = muBak /\ muStamp' = muStamp /\ muKept' = muKept /\ muRows' = muRows /\ muPlan' \in MuPlanType
  BY <1>0, MayFailPlan DEF UnlinkSource
<1>2. t \in Tentative /\ t \in Unlinking
  BY <1>0 DEF Tentative, Unlinking
<1>3. CASE ~good
  <2>1. Write(t, [muFs EXCEPT ![p] = 0]) /\ EndOp(t)
    BY <1>3 DEF UnlinkSource
  <2> QED BY <1>0, <1>1, <1>2, <2>1, WriteAndEnd
<1>4. CASE good
  <2> DEFINE o == [muOps[t] EXCEPT !.step = "relocate"]
  <2>1. Write(t, [muFs EXCEPT ![x] = 0]) /\ GoOn(t, o)
    BY <1>4 DEF UnlinkSource
  <2>4. o \in MuOp /\ o.kind = "move" /\ o.src = x /\ o.dst = p /\ o.new = muOps[t].new /\ o.step = "relocate"
    BY <1>0 DEF MuOp, MuSteps
  <2> HIDE DEF o
  <2>5. muOps'[t] = o /\ OthersWait(t)
    BY <1>0, <2>1 DEF MutateTypeOK, OthersWait, GoOn
  <2>6. /\ muFs' \in [MuPaths -> 0 .. muStamp] /\ muFs'[x] = 0
        /\ \A q \in MuPaths : q # x => muFs'[q] = muFs[q]
        /\ Touches(t)
    <3>1. 0 \in 0 .. muStamp /\ 0 \in OnDisk \cup {0, Partial, muOps[t].new} /\ MutateTypeOK /\ x \in MuPaths
      BY <1>0 DEF MutateTypeOK
    <3> HIDE DEF x
    <3> QED BY <2>1, <3>1, Writes
  <2>7. DOMAIN muFs' = MuPaths /\ muRaced \subseteq muRaced' /\ DOMAIN muFs = MuPaths
    BY <1>0, <2>6 DEF Touches, MutateTypeOK
  <2>8. t \notin Unlinking' /\ t \notin Tentative'
    BY <2>4, <2>5 DEF Unlinking, Tentative
  <2>9. Standing \subseteq Standing'
    BY <1>2, <2>5, <2>6, <2>7, <2>8, UnlinkedStands
  <2>10. KeptStands'
    BY <1>1, <2>7, <2>9 DEF KeptStands, MutateInv
  <2>11. Window(t)'
    BY <2>4, <2>5, <2>6 DEF Window
  <2> QED BY <1>0, <1>1, <2>1, <2>4, <2>10, <2>11, WriteAndGo
<1> QED BY <1>3, <1>4

\* A file gets another name: what was there under it is raced or nothing, and what moves is
\* where no other operation is about to remove it, or is raced.
LEMMA NameStands ==
    ASSUME MutateInv, NEW t \in MuThreads, OthersWait(t),
           t \notin Unlinking, t \notin Unlinking', t \notin Tentative, t \notin Tentative',
           DOMAIN muFs' = MuPaths, NEW x \in MuPaths, NEW y \in MuPaths,
           y # x => muFs'[y] = muFs[x],
           \A q \in MuPaths : q # x /\ q # y => muFs'[q] = muFs[q],
           muFs[y] \in {0} \cup muRaced,
           Touches(t), muBak' = muBak, muKept' = muKept
    PROVE  KeptStands'
<1>1. SUFFICES ASSUME NEW c \in muKept, c \notin muRaced', c \notin ValuesOf(muBak)
               PROVE  c \in Standing'
  BY DEF KeptStands
<1>2. c \in Standing /\ c \notin muRaced
  BY <1>1 DEF MutateInv, KeptStands, Touches
<1>3. DOMAIN muFs = MuPaths /\ c # 0
  BY SMTT(60), <1>1 DEF MutateInv, MutateTypeOK
<1>4. muFs[y] # c
  BY <1>2, <1>3
<1>5. ASSUME c = muFs[x]
      PROVE  /\ muFs'[y] = c
             /\ \A u \in MuThreads \ {t} : /\ u \in Tentative => muOps[u].dst # y
                                           /\ u \in Unlinking => muOps[u].src # y
  <2>1. muFs'[y] = c /\ muFs'[y] # muFs[y] BY <1>4, <1>5
  <2>2. ~Exposed(t, y) BY <1>1, <2>1 DEF Touches
  <2> QED BY <2>1, <2>2 DEF Exposed, Tentative, Unlinking
<1> QED BY SMTT(60), <1>2, <1>3, <1>4, <1>5, RenamedStands

LEMMA RenameMediaFileKeeps ==
    ASSUME MutateInv, NEW t \in MuThreads, NEW ok \in BOOLEAN, RenameMediaFile(t, ok)
    PROVE  MutateInv'
<1> DEFINE y == muOps[t].dst
           x == muOps[t].src
           good == ok /\ muFs[x] # 0
<1>0. /\ MutateTypeOK /\ muOps[t] \in MuOp /\ x \in MuPaths /\ y \in MuPaths
      /\ muOps[t].kind = "rename" /\ muOps[t].step = "rename"
  BY DEF MutateInv, MutateTypeOK, RenameMediaFile, At, MuOp
<1>1. /\ muBak' = muBak /\ muStamp' = muStamp /\ muKept' = muKept /\ muRows' = muRows /\ muPlan' \in MuPlanType
  BY <1>0, MayFailPlan DEF RenameMediaFile
<1>3. CASE ~good
  <2>1. NoWrite /\ EndOp(t)
    BY <1>3 DEF RenameMediaFile
  <2> QED BY <1>1, <2>1, NoWriteEnd
<1>4. CASE good
  <2> DEFINE o == [muOps[t] EXCEPT !.step = "relocate"]
  <2>1. Write(t, [muFs EXCEPT ![y] = muFs[x], ![x] = 0]) /\ GoOn(t, o)
    BY <1>4 DEF RenameMediaFile
  <2>2. o \in MuOp /\ o.kind = "rename" /\ o.src = x /\ o.dst = y /\ o.new = muOps[t].new /\ o.step = "relocate"
    BY <1>0 DEF MuOp, MuSteps
  <2> HIDE DEF o
  <2>3. muOps' = [muOps EXCEPT ![t] = o] /\ muLock' = muLock /\ muSaving' = muSaving
    BY <2>1 DEF GoOn, muLocks
  <2>4. muOps'[t] = o /\ OthersWait(t)
    BY <1>0, <2>3 DEF MutateTypeOK, OthersWait
  <2>5. /\ muFs' \in [MuPaths -> 0 .. muStamp] /\ muFs'[x] = 0
        /\ y # x => muFs'[y] = muFs[x]
        /\ \A q \in MuPaths : q # x /\ q # y => muFs'[q] = muFs[q]
        /\ Touches(t)
        /\ muDirty' \subseteq MuPaths /\ muHeld' = muHeld
    BY <1>0, <2>1, Renames
  <2>6. /\ t \notin Unlinking /\ t \notin Unlinking' /\ t \notin Tentative /\ t \notin Tentative'
    BY <1>0, <2>2, <2>4 DEF Unlinking, Tentative
  <2>7. muFs[y] \in {0} \cup muRaced
    BY <1>0 DEF MutateInv, Window
  <2>8. KeptStands'
    <3>1. DOMAIN muFs' = MuPaths BY <2>5
    <3> QED BY SMTT(60), <1>0, <1>1, <2>4, <2>5, <2>6, <2>7, <3>1, NameStands
  <2>9. Window(t)'
    BY <2>2, <2>4, <2>5 DEF Window
  <2>10. Rendered(t)'
    <3>1. Rendered(t) BY DEF MutateInv
    <3>2. o.new # 0 => /\ o.new >= 2 /\ o.new \notin muKept
                       /\ \A u \in MuThreads \ {t} : muOps[u].new # o.new
      BY <2>2, <3>1 DEF Rendered
    <3> QED BY <1>1, <2>2, <2>4, <3>2 DEF Rendered, OthersWait
  <2>11. RowsOK' /\ HeldOK' /\ DiskOK' /\ BacksUp(t) /\ o \in MuOp'
    <3>1. RowsOK /\ HeldOK /\ DiskOK BY <1>0, TypesHold
    <3>2. RowsOK' /\ HeldOK' /\ DiskOK' BY <1>1, <2>5, <3>1 DEF RowsOK, HeldOK, DiskOK
    <3>3. BacksUp(t) /\ o \in MuOp' BY <1>1, <2>2 DEF BacksUp, MuOp
    <3> QED BY <3>2, <3>3
  <2> QED BY <1>1, <2>2, <2>3, <2>5, <2>8, <2>9, <2>10, <2>11, GoingStep
<1> QED BY <1>3, <1>4

LEMMA MoveBackKeeps ==
    ASSUME MutateInv, NEW t \in MuThreads, NEW ok \in BOOLEAN, MoveBack(t, ok)
    PROVE  MutateInv'
<1> DEFINE x == muOps[t].dst
           y == muOps[t].src
           good == ok /\ muFs[x] # 0
<1>0. /\ MutateTypeOK /\ muOps[t] \in MuOp /\ x \in MuPaths /\ y \in MuPaths
      /\ muOps[t].kind \in {"move", "rename"} /\ muOps[t].step = "back"
  BY DEF MutateInv, MutateTypeOK, MoveBack, At, MuOp
<1>1. /\ muBak' = muBak /\ muStamp' = muStamp /\ muKept' = muKept /\ muRows' = muRows /\ muPlan' \in MuPlanType
      /\ EndOp(t)
  BY <1>0, MayFailPlan DEF MoveBack
<1>3. CASE ~good
  <2>1. NoWrite
    BY <1>3 DEF MoveBack
  <2> QED BY <1>1, <2>1, NoWriteEnd
<1>4. CASE good
  <2>1. Write(t, [muFs EXCEPT ![y] = muFs[x], ![x] = 0])
    BY <1>4 DEF MoveBack
  <2>4. muOps'[t] = MuIdle /\ OthersWait(t)
    BY <1>0, <1>1, Ends
  <2>5. /\ muFs' \in [MuPaths -> 0 .. muStamp] /\ muFs'[x] = 0
        /\ y # x => muFs'[y] = muFs[x]
        /\ \A q \in MuPaths : q # x /\ q # y => muFs'[q] = muFs[q]
        /\ Touches(t)
        /\ muDirty' \subseteq MuPaths /\ muHeld' = muHeld
    BY <1>0, <2>1, Renames
  <2>6. /\ t \notin Unlinking /\ t \notin Unlinking' /\ t \notin Tentative /\ t \notin Tentative'
    BY <1>0, <2>4, OverClaimsNothing DEF Unlinking, Tentative
  <2>7. muFs[y] \in {0} \cup muRaced
    BY <1>0 DEF MutateInv, Window
  <2>8. KeptStands'
    <3>1. DOMAIN muFs' = MuPaths BY <2>5
    <3> QED BY SMTT(60), <1>0, <1>1, <2>4, <2>5, <2>6, <2>7, <3>1, NameStands
  <2>11. RowsOK' /\ HeldOK' /\ DiskOK' /\ BacksUp(t)
    <3>1. RowsOK /\ HeldOK /\ DiskOK BY <1>0, TypesHold
    <3>2. RowsOK' /\ HeldOK' /\ DiskOK' BY <1>1, <2>5, <3>1 DEF RowsOK, HeldOK, DiskOK
    <3>3. BacksUp(t) BY <1>1 DEF BacksUp
    <3> QED BY <3>2, <3>3
  <2> QED BY <1>1, <2>5, <2>8, <2>11, EndingStep
<1> QED BY <1>3, <1>4

LEMMA OtherWritesKeeps ==
    ASSUME MutateInv, NEW p \in MuPaths, OtherWrites(p)
    PROVE  MutateInv'
<1>0. MutateTypeOK /\ RowsOK /\ HeldOK /\ DiskOK
  BY TypesHold DEF MutateInv
<1>v. PICK v \in Nat : v = muStamp + 1
  BY SMTT(60), <1>0 DEF MutateTypeOK
<1>1. /\ muStamp' = v /\ muBak' = muBak /\ muRows' = muRows /\ muOps' = muOps
      /\ muSaving' = muSaving /\ muLock' = muLock
      /\ muKept' = (muKept \ {muFs[p]}) \cup {v}
      /\ Write("other", [muFs EXCEPT ![p] = v])
  BY <1>v DEF OtherWrites, muLocks
<1>2. /\ muFs' = [muFs EXCEPT ![p] = v] /\ muHeld' = muHeld /\ muRaced \subseteq muRaced'
      /\ muDirty' \subseteq MuPaths
      /\ \A q \in MuPaths : muFs'[q] # muFs[q] /\ Exposed("other", q) => muFs'[q] \in muRaced'
  BY <1>0, <1>1 DEF Write, MutateTypeOK
<1>3. /\ v \in Nat /\ v >= 3 /\ v > muStamp
      /\ muStamp \in Nat
  BY SMTT(60), <1>0, <1>v DEF MutateTypeOK
<1>4. /\ DOMAIN muFs = MuPaths /\ DOMAIN muFs' = MuPaths /\ muFs'[p] = v
      /\ \A q \in MuPaths : q # p => muFs'[q] = muFs[q]
  BY <1>0, <1>2 DEF MutateTypeOK
<1>5. DiskOK'
  <2>1. muFs' \in [MuPaths -> 0 .. v] /\ muBak' \in [MuPaths -> 0 .. v]
    BY SMTT(60), <1>0, <1>1, <1>2, <1>3 DEF MutateTypeOK
  <2>2. muKept' \subseteq 2 .. v
    <3>1. muKept \subseteq 2 .. v BY SMTT(60), <1>0, <1>3 DEF MutateTypeOK
    <3>2. v \in 2 .. v BY SMTT(60), <1>3
    <3> QED BY <1>1, <3>1, <3>2
  <2> QED BY <1>1, <1>3, <2>1, <2>2 DEF DiskOK
<1>6. muPlan' \in MuPlanType
  <2>1. muPlan.writes > 0 /\ muPlan' = [muPlan EXCEPT !.writes = @ - 1] /\ muPlan \in MuPlanType
    BY <1>0 DEF OtherWrites, MutateTypeOK
  <2>2. muPlan.writes - 1 \in Nat BY <2>1, SMTT(60) DEF MuPlanType
  <2> QED BY <2>1, <2>2, ZenonT(60) DEF MuPlanType
<1>7. MutateTypeOK'
  <2>1. muOps' \in [MuThreads -> MuOp']
    <3>1. MuOp \subseteq MuOp' BY SMTT(60), <1>1, <1>3 DEF MuOp
    <3> QED BY <1>0, <1>1, <3>1 DEF MutateTypeOK
  <2>2. RowsOK' /\ HeldOK'
    BY <1>0, <1>1, <1>2 DEF RowsOK, HeldOK
  <2> QED BY <1>0, <1>1, <1>2, <1>5, <1>6, <2>1, <2>2 DEF MutateTypeOK, RowsOK, HeldOK, DiskOK
<1>8. LeaseHeld'
  BY <1>1 DEF MutateInv, LeaseHeld
<1>9. ASSUME NEW t \in MuThreads PROVE Window(t)'
  BY <1>0, <1>1, <1>2, <1>9, MuAssumption, WindowStays DEF MutateInv
<1>10. ASSUME NEW t \in MuThreads PROVE Rendered(t)'
  <2>1. Rendered(t) /\ muOps[t] \in MuOp
    BY <1>0 DEF MutateInv, MutateTypeOK
  <2>2. muOps[t].new # v
    BY SMTT(60), <1>3, <2>1 DEF MuOp
  <2>3. muOps[t].new \notin OnDisk => muOps[t].new \notin OnDisk'
    BY SMTT(60), <1>0, <1>1, <1>4, <2>2 DEF OnDisk, ValuesOf, MutateTypeOK
  <2> QED BY <1>1, <2>1, <2>2, <2>3 DEF Rendered
<1>11. KeptStands'
  <2>u. Unlinking' = Unlinking /\ Tentative' = Tentative /\ OthersWait("other") /\ "other" \notin Unlinking'
        /\ "other" \notin Tentative'
    BY <1>1, MuAssumption DEF Unlinking, Tentative, OthersWait
  <2>1. ASSUME NEW c \in muKept, c # muFs[p], c \notin muRaced, c \notin ValuesOf(muBak)
        PROVE  c \in Standing'
    <3>1. c \in Standing BY <2>1 DEF MutateInv, KeptStands
    <3>2. \A q \in MuPaths : muFs[q] = c => muFs'[q] = c BY <1>4, <2>1
    <3> QED BY <1>4, <2>u, <3>1, <3>2, Settles
  <2>2. ASSUME v \notin muRaced' PROVE v \in Standing'
    <3>1. muFs'[p] # muFs[p] BY SMTT(60), <1>0, <1>3, <1>4 DEF MutateTypeOK
    <3>2. ~Exposed("other", p) BY <1>2, <1>4, <2>2, <3>1
    <3>3. \A u \in MuThreads : /\ u \in Tentative => muOps[u].dst # p
                               /\ u \in Unlinking => muOps[u].src # p
      BY <3>2, MuAssumption DEF Exposed, Tentative, Unlinking
    <3>4. ASSUME NEW moved \in SUBSET Unlinking PROVE Remains(v, moved)'
      <4>1. \A u \in moved : muOps'[u].src # p
        BY <1>1, <3>3, <3>4 DEF Unlinking
      <4>2. \A u \in Tentative' \ moved : muOps'[u].dst # p
        BY <1>1, <2>u, <3>3 DEF Tentative
      <4> QED BY <1>4, <4>1, <4>2 DEF Remains
    <3>5. v \in ValuesOf(muFs') BY <1>4, Values
    <3> QED BY <2>u, <3>4, <3>5 DEF Standing
  <2> QED BY <1>1, <1>2, <2>1, <2>2 DEF KeptStands
<1> QED BY <1>7, <1>8, <1>9, <1>10, <1>11 DEF MutateInv

LEMMA CrashKeeps ==
    ASSUME MutateInv, MuCrash
    PROVE  MutateInv'
<1>0. MutateTypeOK /\ RowsOK /\ DiskOK /\ MuIdle \in MuOp
  BY TypesHold, IdleOp DEF MutateInv
<1>1. /\ muFs' = muFs /\ muBak' = muBak /\ muStamp' = muStamp /\ muKept' = muKept /\ muRaced' = muRaced
      /\ muRows' = muRows /\ muOps' = [t \in MuThreads |-> MuIdle] /\ muSaving' = {} /\ muLock' = {}
      /\ muHeld' = {muFs} /\ muDirty' = {}
  BY DEF MuCrash, muDisk
<1>2. \A t \in MuThreads : muOps'[t] = MuIdle
  BY <1>1
<1>3. \A t \in MuThreads : Rendered(t)' /\ Window(t)' /\ t \notin Tentative' /\ t \notin Unlinking'
  BY <1>2, OverClaimsNothing
<1>4. muPlan' \in MuPlanType
  <2>1. muPlan.crashes > 0 /\ muPlan' = [muPlan EXCEPT !.crashes = @ - 1] /\ muPlan \in MuPlanType
    BY <1>0 DEF MuCrash, MutateTypeOK
  <2>2. muPlan.crashes - 1 \in Nat BY <2>1, SMTT(60) DEF MuPlanType
  <2> QED BY <2>1, <2>2, ZenonT(60) DEF MuPlanType
<1>5. MutateTypeOK'
  <2>1. muOps' \in [MuThreads -> MuOp']
    BY <1>0, <1>1 DEF MuOp
  <2>2. \A h \in muHeld' : DOMAIN h \subseteq MuPaths /\ \A p \in DOMAIN h : h[p] \in Nat
    BY SMTT(60), <1>0, <1>1 DEF MutateTypeOK
  <2> QED BY <1>0, <1>1, <1>4, <2>1, <2>2 DEF MutateTypeOK
<1>6. LeaseHeld'
  BY SMTT(60), <1>2 DEF LeaseHeld, MuIdle
<1>7. KeptStands'
  <2>1. Unlinking' = {} /\ Tentative' = {}
    BY <1>3 DEF Unlinking, Tentative
  <2>2. ASSUME NEW c \in Standing PROVE c \in Standing'
    <3>1. Remains(c, {}) /\ c \in ValuesOf(muFs)
      BY SMTT(60), <2>2 DEF Standing
    <3>2. PICK q \in MuPaths : muFs[q] = c
      BY <3>1 DEF Remains
    <3>3. \A moved \in SUBSET Unlinking' : Remains(c, moved)'
      BY <1>1, <2>1, <3>2 DEF Remains
    <3> QED BY <1>1, <3>1, <3>3 DEF Standing
  <2> QED BY <1>1, <2>2 DEF MutateInv, KeptStands
<1> QED BY <1>3, <1>5, <1>6, <1>7 DEF MutateInv

LEMMA WatcherKeeps ==
    ASSUME MutateInv, MuWatcher
    PROVE  MutateInv'
<1>0. MutateTypeOK /\ RowsOK /\ HeldOK
  BY TypesHold DEF MutateInv
<1>1. CASE CommitBurst
  <2>1. PICK h \in muHeld :
          LET there == {p \in DOMAIN h : h[p] # 0}
              gone == {p \in DOMAIN h \ there : muFs[p] = 0}
          IN  /\ muRows' = {r \in muRows : r.path \notin there \cup gone}
                           \cup {[r EXCEPT !.content = h[r.path]] : r \in {x \in muRows : x.path \in there}}
                           \cup {[id |-> 0, path |-> p, content |-> h[p]] : p \in {q \in there : RowAt(q) = {}}}
              /\ muHeld' = {}
              /\ UNCHANGED <<muDisk, muOps, muLocks, muDirty, muPlan>>
    BY <1>1 DEF CommitBurst
  <2> DEFINE there == {p \in DOMAIN h : h[p] # 0}
             gone == {p \in DOMAIN h \ there : muFs[p] = 0}
             n(r) == [r EXCEPT !.content = h[r.path]]
             f(p) == [id |-> 0, path |-> p, content |-> h[p]]
  <2>2. \A p \in there : p \in MuPaths /\ h[p] \in Nat
    BY <1>0 DEF HeldOK
  <2>3. ASSUME NEW x \in muRows'
        PROVE  /\ x \in [id : 0 .. 1, path : MuPaths, content : Nat]
               /\ \/ x \in muRows /\ x.path \notin there
                  \/ \E r \in muRows : r.path \in there /\ x.path = r.path /\ x.id = r.id /\ x.content = h[r.path]
                  \/ x.path \in there /\ RowAt(x.path) = {} /\ x.id = 0 /\ x.content = h[x.path]
    <3>1. CASE x \in muRows /\ x.path \notin there
      BY <1>0, <3>1 DEF RowsOK
    <3>2. CASE \E r \in muRows : r.path \in there /\ x = n(r)
      <4>1. PICK r \in muRows : r.path \in there /\ x = n(r) BY <3>2
      <4>2. r \in [id : 0 .. 1, path : MuPaths, content : Nat] /\ h[r.path] \in Nat
        BY <1>0, <2>2, <4>1 DEF RowsOK
      <4>3. x \in [id : 0 .. 1, path : MuPaths, content : Nat] /\ x.path = r.path /\ x.id = r.id /\ x.content = h[r.path]
        BY <4>1, <4>2, SMTT(60)
      <4> QED BY <4>1, <4>3
    <3>3. CASE \E p \in there : RowAt(p) = {} /\ x = f(p)
      <4>1. PICK p \in there : RowAt(p) = {} /\ x = f(p) BY <3>3
      <4>2. x \in [id : 0 .. 1, path : MuPaths, content : Nat] /\ x.path = p /\ x.id = 0 /\ x.content = h[p]
        BY <2>2, <4>1, SMTT(60)
      <4> QED BY <4>1, <4>2
    <3> QED BY <2>1, <2>3, <3>1, <3>2, <3>3
  <2>4. ASSUME NEW x \in muRows', NEW y \in muRows', x.path = y.path \/ (x.id = 1 /\ y.id = 1)
        PROVE  x.path = y.path /\ x.id = y.id /\ x.content = y.content
    <3> HIDE DEF there, gone, n, f
    <3>1. \A r, q \in muRows : r.path = q.path \/ (r.id = 1 /\ q.id = 1) => r = q
      BY <1>0 DEF RowsOK
    <3>2. /\ \/ x \in muRows /\ x.path \notin there
             \/ \E r \in muRows : r.path \in there /\ x.path = r.path /\ x.id = r.id /\ x.content = h[r.path]
             \/ x.path \in there /\ RowAt(x.path) = {} /\ x.id = 0 /\ x.content = h[x.path]
          /\ \/ y \in muRows /\ y.path \notin there
             \/ \E r \in muRows : r.path \in there /\ y.path = r.path /\ y.id = r.id /\ y.content = h[r.path]
             \/ y.path \in there /\ RowAt(y.path) = {} /\ y.id = 0 /\ y.content = h[y.path]
      BY <2>3
    <3> QED BY SMTT(60), <2>4, <3>1, <3>2 DEF RowAt
  <2>5. ASSUME NEW x \in [id : 0 .. 1, path : MuPaths, content : Nat], NEW y \in [id : 0 .. 1, path : MuPaths, content : Nat],
               x.path = y.path, x.id = y.id, x.content = y.content
        PROVE  x = y
    BY <2>5, SMTT(60)
  <2>6. RowsOK'
    <3> HIDE DEF there, gone, n, f
    <3> QED BY <2>3, <2>4, <2>5 DEF RowsOK
  <2>7. HeldOK' /\ UNCHANGED <<muDisk, muOps, muLocks>> /\ muDirty' = muDirty /\ muPlan' = muPlan
    BY <2>1 DEF HeldOK
  <2>8. muDirty' \subseteq MuPaths /\ muPlan' \in MuPlanType
    BY <1>0, <2>7 DEF MutateTypeOK
  <2> HIDE DEF there, gone, n, f
  <2> QED BY <2>6, <2>7, <2>8, Beside
<1>2. ASSUME NEW ps \in SUBSET muDirty, ReadBurst(ps) PROVE MutateInv'
  <2>1. /\ UNCHANGED <<muDisk, muOps, muLocks>> /\ muRows' = muRows /\ muPlan' = muPlan
        /\ muHeld' = {[p \in ps |-> muFs[p]]} /\ muDirty' \subseteq muDirty
    BY <1>2 DEF ReadBurst
  <2>2. HeldOK'
    <3>1. ps \subseteq MuPaths /\ \A p \in ps : muFs[p] \in Nat
      BY SMTT(60), <1>0, <1>2 DEF MutateTypeOK
    <3> QED BY <2>1, <3>1 DEF HeldOK
  <2>3. RowsOK' /\ muDirty' \subseteq MuPaths /\ muPlan' \in MuPlanType
    BY <1>0, <2>1 DEF RowsOK, MutateTypeOK
  <2> QED BY <2>1, <2>2, <2>3, Beside
<1> QED BY <1>1, <1>2 DEF MuWatcher

(***************************************************************************)
(* The theorems                                                            *)
(***************************************************************************)
LEMMA InitHolds ==
    ASSUME MutateInit
    PROVE  MutateInv
<1>0. muPlan \in MuPlanType
  BY MuAssumption DEF MutateInit
<1>1. /\ muFs = [p \in MuPaths |-> IF p = Photo THEN 2 ELSE IF p \in muPlan.there THEN 3 ELSE 0]
      /\ muBak = [p \in MuPaths |-> 0] /\ muStamp = 3 /\ muKept = ValuesOf(muFs) \ {0} /\ muRaced = {}
      /\ muOps = [t \in MuThreads |-> MuIdle] /\ muSaving = {} /\ muLock = {} /\ muDirty = {} /\ muHeld = {}
  BY DEF MutateInit
<1>2. /\ muFs \in [MuPaths -> 0 .. 3] /\ muBak \in [MuPaths -> 0 .. 3]
      /\ \A p \in MuPaths : muFs[p] \in {0, 2, 3}
  BY SMTT(60), <1>1
<1>3. muKept \subseteq 2 .. 3
  <2>1. \A c \in muKept : c \in {2, 3} BY <1>1, <1>2 DEF ValuesOf
  <2> QED BY SMTT(60), <2>1
<1>4. muPlan.there \subseteq MuPaths \ {Photo}
  BY <1>0 DEF MuPlanType
<1>5. RowsOK
  <2> DEFINE f(p) == [id |-> IF p = Photo THEN 1 ELSE 0, path |-> p, content |-> muFs[p]]
  <2>1. muRows = {f(p) : p \in {Photo} \cup muPlan.there}
    BY DEF MutateInit
  <2>2. ASSUME NEW p \in {Photo} \cup muPlan.there
        PROVE  /\ f(p) \in [id : 0 .. 1, path : MuPaths, content : Nat]
               /\ f(p).path = p /\ (f(p).id = 1 <=> p = Photo)
    <3>1. p \in MuPaths /\ muFs[p] \in Nat BY SMTT(60), <1>2, <1>4, Paths
    <3> QED BY <3>1, SMTT(60)
  <2> HIDE DEF f
  <2>3. ASSUME NEW r \in muRows, NEW q \in muRows, r.path = q.path \/ (r.id = 1 /\ q.id = 1)
        PROVE  r = q
    <3>1. PICK a \in {Photo} \cup muPlan.there : r = f(a) BY <2>1
    <3>2. PICK b \in {Photo} \cup muPlan.there : q = f(b) BY <2>1
    <3>3. a = b BY <2>2, <2>3, <3>1, <3>2
    <3> QED BY <3>1, <3>2, <3>3
  <2>4. muRows \subseteq [id : 0 .. 1, path : MuPaths, content : Nat] BY <2>1, <2>2
  <2> QED BY <2>3, <2>4 DEF RowsOK
<1>6. MutateTypeOK
  <2>1. MuIdle \in MuOp BY SMTT(60), <1>1, Paths DEF MuIdle, MuOp, MuSteps
  <2>2. muOps \in [MuThreads -> MuOp] BY <1>1, <2>1
  <2> QED BY SMTT(60), <1>0, <1>1, <1>2, <1>3, <1>5, <2>2 DEF MutateTypeOK, RowsOK
<1>7. \A t \in MuThreads : muOps[t] = MuIdle
  BY <1>1
<1>8. LeaseHeld /\ \A t \in MuThreads : Rendered(t) /\ Window(t)
  BY SMTT(60), <1>7 DEF LeaseHeld, Rendered, Window, MuIdle
<1>9. KeptStands
  <2>1. Unlinking = {} /\ Tentative = {}
    BY SMTT(60), <1>7 DEF Unlinking, Tentative, MuIdle
  <2>2. ASSUME NEW c \in muKept PROVE c \in Standing
    <3>1. c \in ValuesOf(muFs) BY <1>1
    <3>2. PICK q \in MuPaths : muFs[q] = c BY <1>2, <3>1 DEF ValuesOf
    <3>3. \A moved \in SUBSET Unlinking : Remains(c, moved) BY <2>1, <3>2 DEF Remains
    <3> QED BY <3>1, <3>3 DEF Standing
  <2> QED BY <2>2 DEF KeptStands
<1> QED BY <1>6, <1>8, <1>9 DEF MutateInv

LEMMA NextKeeps ==
    ASSUME MutateInv, [MutateNext]_muVars
    PROVE  MutateInv'
<1>1. CASE UNCHANGED muVars
  <2>1. UNCHANGED <<muDisk, muOps, muLocks>> /\ muRows' = muRows /\ muHeld' = muHeld /\ muDirty' = muDirty /\ muPlan' = muPlan
    BY <1>1 DEF muVars, muWatch
  <2>2. RowsOK /\ HeldOK /\ muPlan \in MuPlanType /\ muDirty \subseteq MuPaths
    BY TypesHold DEF MutateInv
  <2>3. RowsOK' /\ HeldOK' /\ muPlan' \in MuPlanType /\ muDirty' \subseteq MuPaths
    BY <2>1, <2>2 DEF RowsOK, HeldOK
  <2> QED BY <2>1, <2>3, Beside
<1>2. ASSUME NEW t \in MuThreads, MutateWork(t) PROVE MutateInv'
  <2>1. ASSUME NEW kind \in MuKinds, BeginOp(t, kind) PROVE MutateInv' BY <2>1, BeginKeeps
  <2>2. CASE SkipOp(t) BY <2>2, SkipKeeps
  <2>3. CASE TakeLease(t) BY <2>3, TakeLeaseKeeps
  <2>4. CASE Acquire(t) BY <2>4, AcquireKeeps
  <2>5. CASE CheckSource(t) BY <2>5, CheckSourceKeeps
  <2>6. CASE ProbeTarget(t) BY <2>6, ProbeTargetKeeps
  <2>7. CASE ProbeSource(t) BY <2>7, ProbeSourceKeeps
  <2>8. ASSUME NEW r \in Outcomes, WriteBackup(t, r) PROVE MutateInv' BY <2>8, WriteBackupKeeps
  <2>9. ASSUME NEW r \in Outcomes, Publish(t, r) PROVE MutateInv' BY <2>9, PublishKeeps
  <2>10. ASSUME NEW linked \in BOOLEAN, Place(t, linked) PROVE MutateInv' BY <2>10, PlaceKeeps
  <2>11. ASSUME NEW ok \in BOOLEAN, Render(t, ok) PROVE MutateInv' BY <2>11, RenderKeeps
  <2>12. ASSUME NEW ok \in BOOLEAN, HashEdited(t, ok) PROVE MutateInv' BY <2>12, HashEditedKeeps
  <2>13. ASSUME NEW ok \in BOOLEAN, CommitEdit(t, ok) PROVE MutateInv' BY <2>13, CommitEditKeeps
  <2>14. ASSUME NEW ok \in BOOLEAN, RestoreBackup(t, ok) PROVE MutateInv' BY <2>14, RestoreBackupKeeps
  <2>15. ASSUME NEW ok \in BOOLEAN, Fill(t, ok) PROVE MutateInv' BY <2>15, FillKeeps
  <2>16. ASSUME NEW ok \in BOOLEAN, InsertCopy(t, ok) PROVE MutateInv' BY <2>16, InsertCopyKeeps
  <2>17. ASSUME NEW ok \in BOOLEAN, UndoCopy(t, ok) PROVE MutateInv' BY <2>17, UndoCopyKeeps
  <2>18. ASSUME NEW ok \in BOOLEAN, UnlinkSource(t, ok) PROVE MutateInv' BY <2>18, UnlinkSourceKeeps
  <2>19. ASSUME NEW ok \in BOOLEAN, RenameMediaFile(t, ok) PROVE MutateInv' BY <2>19, RenameMediaFileKeeps
  <2>20. ASSUME NEW ok \in BOOLEAN, UpdateMediaLocation(t, ok) PROVE MutateInv' BY <2>20, UpdateMediaLocationKeeps
  <2>21. ASSUME NEW ok \in BOOLEAN, MoveBack(t, ok) PROVE MutateInv' BY <2>21, MoveBackKeeps
  <2> QED BY <1>2, <2>1, <2>2, <2>3, <2>4, <2>5, <2>6, <2>7, <2>8, <2>9, <2>10, <2>11, <2>12, <2>13, <2>14,
             <2>15, <2>16, <2>17, <2>18, <2>19, <2>20, <2>21 DEF MutateWork
<1>3. CASE MuWatcher BY <1>3, WatcherKeeps
<1>4. ASSUME NEW p \in muPlan.paths, OtherWrites(p) PROVE MutateInv'
  <2>1. p \in MuPaths BY <1>4 DEF MutateInv, MutateTypeOK, MuPlanType
  <2> QED BY <1>4, <2>1, OtherWritesKeeps
<1>5. CASE MuCrash BY <1>5, CrashKeeps
<1> QED BY <1>1, <1>2, <1>3, <1>4, <1>5 DEF MutateNext

\* The files, the backups, the table, the lease, the guards of saves and what the watcher
\* holds keep their types: one holder of the publication lease, one save of a file at a time,
\* one row of a path, whatever fails and wherever the process dies.
THEOREM MutateTypeCorrect == MutateSpec => []MutateTypeOK
<1>1. MutateInv => MutateTypeOK BY DEF MutateInv
<1>2. MutateInit => MutateInv BY InitHolds
<1>3. MutateInv /\ [MutateNext]_muVars => MutateInv' BY NextKeeps
<1> QED BY <1>1, <1>2, <1>3, PTL DEF MutateSpec

\* Saving over the original, saving a copy, copying and moving to an album and renaming, any
\* number of them at once, beside the watcher and other programs, destroy no picture.
THEOREM ContentAlwaysKept == MutateSpec => []ContentKept
<1>1. MutateInv => ContentKept
  <2> SUFFICES ASSUME MutateInv PROVE ContentKept
    OBVIOUS
  <2>1. Standing \subseteq ValuesOf(muFs) BY DEF Standing
  <2> QED BY <2>1 DEF MutateInv, KeptStands, ContentKept, OnDisk
<1>2. MutateInit => MutateInv BY InitHolds
<1>3. MutateInv /\ [MutateNext]_muVars => MutateInv' BY NextKeeps
<1> QED BY <1>1, <1>2, <1>3, PTL DEF MutateSpec


(***************************************************************************)
(* How a save that published its file ends                                 *)
(***************************************************************************)
Marks == muGhost \in [torn : BOOLEAN, late : BOOLEAN]

\* A step of a thread is a step of that thread only, and marks what went wrong.
LEMMA OneThreadSteps ==
    ASSUME MutateTypeOK, Marks, NEW t \in MuThreads, MutateWork(t)
    PROVE  Marks' /\ \A u \in MuThreads : u # t => muOps'[u] = muOps[u]
<1> DEFINE Own == \A u \in MuThreads : u # t => muOps'[u] = muOps[u]
<1>0. muOps \in [MuThreads -> MuOp]
  BY DEF MutateTypeOK
<1>e. EndOp(t) => Own
  BY <1>0 DEF EndOp
<1>g. ASSUME NEW o, GoOn(t, o) PROVE Own
  BY <1>0, <1>g DEF GoOn
<1>m. ASSUME NEW b \in BOOLEAN, muGhost' = [muGhost EXCEPT !.torn = @ \/ b] PROVE Marks'
  <2>1. muGhost.torn \/ b \in BOOLEAN BY DEF Marks
  <2> QED BY <1>m, <2>1 DEF Marks
<1>u. muGhost' = muGhost => Marks'
  BY DEF Marks
<1> HIDE DEF Own
<1>1. ASSUME NEW kind \in MuKinds, BeginOp(t, kind) PROVE Marks' /\ Own
  BY <1>1, <1>g, <1>u DEF BeginOp, muDisk
<1>2. ASSUME SkipOp(t) PROVE Marks' /\ Own
  BY <1>2, <1>u DEF SkipOp, muDisk, Own
<1>3. ASSUME TakeLease(t) PROVE Marks' /\ Own
  BY <1>0, <1>3, <1>u DEF TakeLease, muDisk, Own
<1>4. ASSUME Acquire(t) PROVE Marks' /\ Own
  <2>1. Own BY <1>0, <1>4, <1>e DEF Acquire, Own
  <2>2. muGhost' = muGhost BY <1>4, SMTT(60) DEF Acquire, muDisk
  <2>3. Marks' BY <2>2 DEF Marks
  <2> QED BY <2>1, <2>3
<1>5. ASSUME CheckSource(t) PROVE Marks' /\ Own
  <2>1. muGhost' = muGhost BY <1>5, SMTT(60) DEF CheckSource, muDisk
  <2>2. EndOp(t) \/ \E o : GoOn(t, o) BY <1>5, ZenonT(60) DEF CheckSource
  <2>3. Marks' BY <2>1 DEF Marks
  <2> QED BY <1>e, <1>g, <2>2, <2>3
<1>6. ASSUME ProbeTarget(t) PROVE Marks' /\ Own
  <2>1. muGhost' = muGhost BY <1>6, SMTT(60) DEF ProbeTarget, muDisk
  <2>2. EndOp(t) \/ \E o : GoOn(t, o) BY <1>6, ZenonT(60) DEF ProbeTarget
  <2>3. Marks' BY <2>1 DEF Marks
  <2> QED BY <1>e, <1>g, <2>2, <2>3
<1>7. ASSUME ProbeSource(t) PROVE Marks' /\ Own
  <2>1. muGhost' = muGhost BY <1>7, SMTT(60) DEF ProbeSource, muDisk
  <2>2. EndOp(t) \/ \E o : GoOn(t, o) BY <1>7, ZenonT(60) DEF ProbeSource
  <2>3. Marks' BY <2>1 DEF Marks
  <2> QED BY <1>e, <1>g, <2>2, <2>3
<1>8. ASSUME NEW r \in Outcomes, WriteBackup(t, r) PROVE Marks' /\ Own
  BY <1>8, <1>e, <1>g, <1>u DEF WriteBackup
<1>9. ASSUME NEW r \in Outcomes, Publish(t, r) PROVE Marks' /\ Own
  <2>1. Own BY <1>9, <1>e, <1>g DEF Publish
  <2>2. PICK b \in BOOLEAN : muGhost' = [muGhost EXCEPT !.torn = @ \/ b] BY <1>9 DEF Publish
  <2> QED BY <1>m, <2>1, <2>2
<1>10. ASSUME NEW linked \in BOOLEAN, Place(t, linked) PROVE Marks' /\ Own
  BY <1>10, <1>e, <1>g, <1>u DEF Place
<1>11. ASSUME NEW ok \in BOOLEAN, Render(t, ok) PROVE Marks' /\ Own
  BY <1>11, <1>e, <1>g, <1>u DEF Render
<1>12. ASSUME NEW ok \in BOOLEAN, HashEdited(t, ok) PROVE Marks' /\ Own
  <2>1. Own BY <1>12, <1>e, <1>g DEF HashEdited
  <2>2. PICK b \in BOOLEAN : muGhost' = [muGhost EXCEPT !.torn = @ \/ b] BY <1>12 DEF HashEdited
  <2> QED BY <1>m, <2>1, <2>2
<1>13. ASSUME NEW ok \in BOOLEAN, CommitEdit(t, ok) PROVE Marks' /\ Own
  BY <1>13, <1>e, <1>g, <1>u DEF CommitEdit
<1>14. ASSUME NEW ok \in BOOLEAN, RestoreBackup(t, ok) PROVE Marks' /\ Own
  <2>1. Own BY <1>14, <1>e DEF RestoreBackup
  <2>2. PICK b \in BOOLEAN : muGhost' = [muGhost EXCEPT !.torn = @ \/ b] BY <1>14 DEF RestoreBackup
  <2> QED BY <1>m, <2>1, <2>2
<1>15. ASSUME NEW ok \in BOOLEAN, Fill(t, ok) PROVE Marks' /\ Own
  BY <1>15, <1>e, <1>g, <1>u DEF Fill
<1>16. ASSUME NEW ok \in BOOLEAN, InsertCopy(t, ok) PROVE Marks' /\ Own
  BY <1>16, <1>e, <1>g, <1>u DEF InsertCopy, muDisk
<1>17. ASSUME NEW ok \in BOOLEAN, UndoCopy(t, ok) PROVE Marks' /\ Own
  <2>1. Own BY <1>17, <1>e DEF UndoCopy
  <2>2. PICK b \in BOOLEAN : muGhost' = [muGhost EXCEPT !.torn = @ \/ b] BY <1>17 DEF UndoCopy
  <2> QED BY <1>m, <2>1, <2>2
<1>18. ASSUME NEW ok \in BOOLEAN, UnlinkSource(t, ok) PROVE Marks' /\ Own
  BY <1>18, <1>e, <1>g, <1>u DEF UnlinkSource
<1>19. ASSUME NEW ok \in BOOLEAN, RenameMediaFile(t, ok) PROVE Marks' /\ Own
  BY <1>19, <1>e, <1>g, <1>u DEF RenameMediaFile
<1>20. ASSUME NEW ok \in BOOLEAN, UpdateMediaLocation(t, ok) PROVE Marks' /\ Own
  BY <1>20, <1>e, <1>g, <1>u DEF UpdateMediaLocation, muDisk
<1>21. ASSUME NEW ok \in BOOLEAN, MoveBack(t, ok) PROVE Marks' /\ Own
  BY <1>21, <1>e, <1>u DEF MoveBack
<1> QED BY <1>1, <1>2, <1>3, <1>4, <1>5, <1>6, <1>7, <1>8, <1>9, <1>10, <1>11, <1>12, <1>13, <1>14,
           <1>15, <1>16, <1>17, <1>18, <1>19, <1>20, <1>21 DEF MutateWork, Own

LEMMA MarksKept ==
    ASSUME MutateInv, Marks, [MutateNext]_muVars
    PROVE  Marks'
<1>1. CASE UNCHANGED muVars
  BY <1>1 DEF muVars, muDisk, Marks
<1>2. ASSUME NEW t \in MuThreads, MutateWork(t) PROVE Marks'
  BY <1>2, OneThreadSteps DEF MutateInv
<1>3. CASE MuWatcher
  BY <1>3 DEF MuWatcher, CommitBurst, ReadBurst, muDisk, Marks
<1>4. ASSUME NEW p \in muPlan.paths, OtherWrites(p) PROVE Marks'
  <2>1. PICK b \in BOOLEAN : muGhost' = [muGhost EXCEPT !.late = @ \/ b] BY <1>4 DEF OtherWrites
  <2>2. muGhost.late \/ b \in BOOLEAN BY DEF Marks
  <2> QED BY <2>1, <2>2 DEF Marks
<1>5. CASE MuCrash
  BY <1>5 DEF MuCrash, muDisk, Marks
<1> QED BY <1>1, <1>2, <1>3, <1>4, <1>5 DEF MutateNext


LEMMA SaveEnds ==
    ASSUME MutateInv, Marks, NEW t \in MuThreads, MutateWork(t),
           muOps[t].kind \in {"overwrite", "save_copy"},
           muOps[t].step \in {"hash", "commit", "restore", "undo"},
           muOps'[t] = MuIdle
    PROVE  \/ \E r \in muRows' : r.content = muOps[t].read /\ (r.id = 1 \/ r.path = muOps[t].dst)
           \/ muFs'[muOps[t].dst] # muOps[t].new \/ muGhost'.torn
<1> DEFINE o == muOps[t]
           Told == \E r \in muRows' : r.content = o.read /\ (r.id = 1 \/ r.path = o.dst)
           Gone == muFs'[o.dst] # o.new
<1>0. /\ muOps \in [MuThreads -> MuOp] /\ o \in MuOp /\ muFs \in [MuPaths -> 0 .. muStamp]
      /\ o.src \in MuPaths /\ o.dst \in MuPaths
      /\ muRows \subseteq [id : 0 .. 1, path : MuPaths, content : Nat]
  BY DEF MutateInv, MutateTypeOK, MuOp
<1>i. o # MuIdle /\ o.step \notin {"idle", "lease", "guard", "render", "check", "backup", "replace", "persist"}
  BY SMTT(60) DEF MuIdle
<1>r. o.new # 0 /\ (o.kind = "overwrite" => o.dst = o.src /\ muBak[o.src] # o.new)
  <2>1. Rendered(t) BY DEF MutateInv
  <2> QED BY <2>1 DEF Rendered
<1>t. ASSUME NEW b \in BOOLEAN, b, muGhost' = [muGhost EXCEPT !.torn = @ \/ b] PROVE muGhost'.torn
  BY <1>t DEF Marks
<1>1. ASSUME NEW ok \in BOOLEAN, HashEdited(t, ok) PROVE muGhost'.torn
  <2> DEFINE good == ok /\ muFs[o.dst] # 0
  <2>1. ~good /\ o.kind = "save_copy"
    <3>1. CASE good
      <4>1. muOps' = [muOps EXCEPT ![t] = [o EXCEPT !.step = "commit", !.read = muFs[o.dst]]]
        BY <1>1, <3>1, ZenonT(60) DEF HashEdited, GoOn
      <4>2. muOps'[t] = [o EXCEPT !.step = "commit", !.read = muFs[o.dst]] BY <1>0, <4>1, ZenonT(60)
      <4>3. [o EXCEPT !.step = "commit", !.read = muFs[o.dst]].step = "commit" BY <1>0, SMTT(60) DEF MuOp
      <4> DEFINE e == [o EXCEPT !.step = "commit", !.read = muFs[o.dst]]
      <4>4. muOps'[t] = e /\ e.step = "commit" BY <4>2, <4>3
      <4> HIDE DEF e
      <4>5. muOps'[t].step = "commit" BY <4>4
      <4> QED BY SMTT(60), <4>5 DEF MuIdle
    <3>2. CASE ~good /\ o.kind = "overwrite"
      <4>1. muOps' = [muOps EXCEPT ![t] = [o EXCEPT !.step = "restore"]]
        BY <1>1, <3>2, ZenonT(60) DEF HashEdited, GoOn
      <4>2. muOps'[t].step = "restore" BY <1>0, <4>1, SMTT(60) DEF MuOp
      <4> QED BY SMTT(60), <4>2 DEF MuIdle
    <3> QED BY <3>1, <3>2
  <2>2. muGhost' = [muGhost EXCEPT !.torn = @ \/ (~good /\ o.kind = "save_copy")]
    BY <1>1 DEF HashEdited
  <2> QED BY <1>t, <2>1, <2>2
<1>2. ASSUME NEW ok \in BOOLEAN, CommitEdit(t, ok) PROVE Told
  <2> DEFINE mine == RowOf(1)
             good == ok /\ (o.kind = "save_copy" \/ mine # {})
  <2>1. good
    <3>1. SUFFICES ASSUME ~good PROVE FALSE OBVIOUS
    <3>2. muOps' = [muOps EXCEPT ![t] = [o EXCEPT !.step = IF o.kind = "overwrite" THEN "restore" ELSE "undo"]]
      BY <1>2, <3>1, ZenonT(60) DEF CommitEdit, GoOn
    <3>3. muOps'[t].step \in {"restore", "undo"} BY <1>0, <3>2, SMTT(60) DEF MuOp
    <3> QED BY SMTT(60), <3>3 DEF MuIdle
  <2>2. CASE o.kind = "save_copy"
    <3>1. muRows' = MuUpserted(muRows, o.dst, o.read)
      BY <1>2, <2>1, <2>2, ZenonT(60) DEF CommitEdit
    <3>2. CASE {r \in muRows : r.path = o.dst} = {}
      <4>1. [id |-> 0, path |-> o.dst, content |-> o.read] \in muRows'
        BY <3>1, <3>2 DEF MuUpserted
      <4> QED BY <4>1
    <3>3. CASE {r \in muRows : r.path = o.dst} # {}
      <4>1. PICK r \in muRows : r.path = o.dst BY <3>3
      <4>2. [r EXCEPT !.content = o.read] \in muRows'
        BY <3>1, <3>3, <4>1, ZenonT(60) DEF MuUpserted
      <4>3. /\ [r EXCEPT !.content = o.read].content = o.read
            /\ [r EXCEPT !.content = o.read].path = o.dst
        BY <1>0, <4>1, SMTT(60)
      <4> QED BY <4>2, <4>3, ZenonT(60)
    <3> QED BY <3>2, <3>3
  <2>3. CASE o.kind = "overwrite"
    <3>1. muRows' = (muRows \ mine) \cup {[r EXCEPT !.content = o.read] : r \in mine}
      BY <1>2, <2>1, <2>3, ZenonT(60) DEF CommitEdit
    <3>2. PICK r \in muRows : r \in mine /\ r.id = 1 BY <2>1, <2>3 DEF RowOf
    <3>3. [r EXCEPT !.content = o.read] \in muRows'
      BY <3>1, <3>2, ZenonT(60)
    <3>4. /\ [r EXCEPT !.content = o.read].content = o.read
          /\ [r EXCEPT !.content = o.read].id = 1
      BY <1>0, <3>2, SMTT(60)
    <3> QED BY <3>3, <3>4, ZenonT(60)
  <2> QED BY <2>2, <2>3
<1>3. ASSUME NEW ok \in BOOLEAN, RestoreBackup(t, ok) PROVE Gone \/ muGhost'.torn
  <2>1. CASE ok
    <3>1. muFs' = [muFs EXCEPT ![o.src] = muBak[o.src]] /\ o.kind = "overwrite"
      BY <1>3, <2>1 DEF RestoreBackup, Write, At
    <3> QED BY <1>0, <1>r, <3>1
  <2>2. CASE ~ok
    BY <1>3, <1>t, <2>2 DEF RestoreBackup
  <2> QED BY <2>1, <2>2
<1>4. ASSUME NEW ok \in BOOLEAN, UndoCopy(t, ok) PROVE Gone \/ muGhost'.torn
  <2>1. CASE ok
    <3>1. muFs' = [muFs EXCEPT ![o.dst] = 0]
      BY <1>4, <2>1 DEF UndoCopy, Write
    <3> QED BY <1>0, <1>r, <3>1
  <2>2. CASE ~ok
    BY <1>4, <1>t, <2>2 DEF UndoCopy
  <2> QED BY <2>1, <2>2
<1>5. \/ \E ok \in BOOLEAN : HashEdited(t, ok) \/ CommitEdit(t, ok) \/ RestoreBackup(t, ok) \/ UndoCopy(t, ok)
  <2>1. \A kind \in MuKinds : ~BeginOp(t, kind) BY <1>i DEF BeginOp
  <2>2. ~SkipOp(t) BY <1>i DEF SkipOp
  <2>3. ~TakeLease(t) /\ ~Acquire(t) /\ ~CheckSource(t)
    BY <1>i DEF TakeLease, Acquire, CheckSource, At
  <2>4. ~ProbeTarget(t) /\ ~ProbeSource(t)
    BY DEF ProbeTarget, ProbeSource, At
  <2>5. \A r \in Outcomes : ~WriteBackup(t, r) /\ ~Publish(t, r)
    BY <1>i DEF WriteBackup, Publish, At
  <2>6. \A b \in BOOLEAN : ~Place(t, b) /\ ~Render(t, b) /\ ~Fill(t, b) /\ ~InsertCopy(t, b)
    BY <1>i DEF Place, Render, Fill, InsertCopy, At
  <2>7. \A b \in BOOLEAN : ~UnlinkSource(t, b) /\ ~RenameMediaFile(t, b) /\ ~UpdateMediaLocation(t, b) /\ ~MoveBack(t, b)
    BY DEF UnlinkSource, RenameMediaFile, UpdateMediaLocation, MoveBack, At
  <2> QED BY <2>1, <2>2, <2>3, <2>4, <2>5, <2>6, <2>7 DEF MutateWork
<1> QED BY <1>1, <1>2, <1>3, <1>4, <1>5

\* A save that has published its file ends with a row that has the edit, or takes the edited
\* file away again, unless the clean-up itself failed: whatever the other threads, the
\* watcher and other programs do meanwhile.
THEOREM FailureAlwaysUndone == MutateSpec => FailureUndone
<1> DEFINE Undone ==
      \A t \in MuThreads :
        LET o == muOps[t]
        IN  /\ o.kind \in {"overwrite", "save_copy"} /\ o.step \in {"hash", "commit", "restore", "undo"}
            /\ muOps'[t] = MuIdle /\ muPlan'.crashes = muPlan.crashes
            => \/ \E r \in muRows' : r.content = o.read /\ (r.id = 1 \/ r.path = o.dst)
               \/ muFs'[o.dst] # o.new \/ muGhost'.torn
<1>1. ASSUME MutateInv, Marks, MutateNext PROVE Undone
  <2> SUFFICES ASSUME NEW t \in MuThreads, muOps[t].kind \in {"overwrite", "save_copy"},
                      muOps[t].step \in {"hash", "commit", "restore", "undo"},
                      muOps'[t] = MuIdle, muPlan'.crashes = muPlan.crashes
               PROVE  \/ \E r \in muRows' : r.content = muOps[t].read /\ (r.id = 1 \/ r.path = muOps[t].dst)
                      \/ muFs'[muOps[t].dst] # muOps[t].new \/ muGhost'.torn
    OBVIOUS
  <2>1. muOps'[t] # muOps[t]
    <3>1. muOps'[t].step = "idle" BY SMTT(60) DEF MuIdle
    <3> QED BY <3>1
  <2>2. CASE MutateWork(t)
    BY <1>1, <2>2, SaveEnds
  <2>3. ASSUME NEW u \in MuThreads, u # t, MutateWork(u) PROVE FALSE
    BY <1>1, <2>1, <2>3, OneThreadSteps DEF MutateInv
  <2>4. ~MuWatcher
    BY <2>1 DEF MuWatcher, CommitBurst, ReadBurst
  <2>5. \A p \in muPlan.paths : ~OtherWrites(p)
    BY <2>1 DEF OtherWrites
  <2>6. ~MuCrash
    <3>1. ASSUME MuCrash PROVE FALSE
      <4>1. muPlan \in MuPlanType /\ muPlan' = [muPlan EXCEPT !.crashes = @ - 1]
        BY <1>1, <3>1 DEF MutateInv, MutateTypeOK, MuCrash
      <4>2. muPlan'.crashes = muPlan.crashes - 1 /\ muPlan.crashes \in Nat
        BY <4>1, SMTT(60) DEF MuPlanType
      <4> QED BY SMTT(60), <4>2
    <3> QED BY <3>1
  <2> QED BY <1>1, <2>2, <2>3, <2>4, <2>5, <2>6 DEF MutateNext
<1>2. MutateInit => MutateInv /\ Marks
  <2>1. MutateInit => Marks BY SMTT(60) DEF MutateInit, Marks
  <2> QED BY <2>1, InitHolds
<1>3. MutateInv /\ Marks /\ [MutateNext]_muVars => (MutateInv /\ Marks)'
  BY NextKeeps, MarksKept
<1>4. MutateInv /\ Marks /\ [MutateNext]_muVars => [Undone]_muVars
  BY <1>1
<1>5. MutateSpec => [][Undone]_muVars
  BY <1>2, <1>3, <1>4, PTL DEF MutateSpec
<1> QED BY <1>5 DEF FailureUndone
=============================================================================
