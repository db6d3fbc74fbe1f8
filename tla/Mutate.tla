------------------------------- MODULE Mutate -------------------------------
(***************************************************************************)
(* The operations that change a photo's file and then its row: saving an   *)
(* edit over the original or as a copy (src/core/edit/save.rs), copying    *)
(* and moving to an album (src/core/album_ops.rs) and renaming             *)
(* (src/core/repository.rs), on worker threads beside each other, beside   *)
(* the file watcher (src/core/notify_watcher.rs, module Indexer) and       *)
(* beside other programs.  Every file system call and every database       *)
(* command is a step of its own and may fail; the program may crash        *)
(* between any two.                                                        *)
(*                                                                         *)
(* A file is what it contains: 0 for no file, 1 for a copy that is still   *)
(* being written, a larger number for a picture.  Modification time and    *)
(* size, and the hash of a row, stand for the content they were taken      *)
(* from.  Photo 1 is the one worked on.                                    *)
(***************************************************************************)
EXTENDS Integers, Sequences, FiniteSets

CONSTANTS AlbumNames,   \* candidate_paths: the names tried in the album, in order
          EditedNames,  \* the names generate_edited_path tries, in order
          MuThreads,    \* worker threads
          MuPlans       \* what the threads do and what goes wrong: bounds

VARIABLES muFs,     \* the library's files
          muBak,    \* the .bak beside each
          muRows,   \* media_items: path, content, and id 1 for the photo's own row
          muOps,    \* the operation of every thread
          muSaving, \* SAVING: paths whose save is under way
          muLock,   \* who holds the publication lease
          muDirty,  \* paths the watcher has events of
          muHeld,   \* the burst it is working on: what it read
          muStamp,  \* the newest content
          muKept,   \* history: contents nobody has asked to give up
          muRaced,  \* history: contents written where a step was about to replace
          muGhost,  \* history: other things that went wrong
          muPlan    \* what is left to happen

muDisk == <<muFs, muBak, muStamp, muKept, muRaced, muGhost>>
muLocks == <<muSaving, muLock>>
muWatch == <<muDirty, muHeld>>
muVars == <<muDisk, muRows, muOps, muLocks, muWatch, muPlan>>

Photo == "photo"
Renamed == "renamed"
ValuesOf(f) == {f[x] : x \in DOMAIN f}
MuPaths == {Photo, Renamed} \cup ValuesOf(AlbumNames) \cup ValuesOf(EditedNames)
Partial == 1

MuKinds == {"overwrite", "save_copy", "copy", "move", "rename"}

MuPlanType == [todo : [MuThreads -> Seq(MuKinds)], writes : Nat, paths : SUBSET MuPaths,
               fails : Nat, crashes : Nat, there : SUBSET (MuPaths \ {Photo})]
ASSUME MuAssumption ==
    /\ "other" \notin MuThreads
    /\ MuPlans \subseteq MuPlanType

MuIdle == [kind |-> "none", step |-> "idle", src |-> Photo, dst |-> Photo,
           before |-> 0, new |-> 0, read |-> 0]
RowAt(p) == {r \in muRows : r.path = p}
RowOf(id) == {r \in muRows : r.id = id}

\* What a step that may fail can do: fail before or after it took effect.
Outcomes == {"ok", "early", "late"}
MuMayFail(bad) ==
    IF bad THEN muPlan.fails > 0 /\ muPlan' = [muPlan EXCEPT !.fails = @ - 1]
    ELSE UNCHANGED muPlan

\* Files change, and the watcher hears of it.  A path is exposed while a step of another
\* thread is about to replace or remove whatever is there.
Exposed(t, p) ==
    \E u \in MuThreads \ {t} :
      LET o == muOps[u]
      IN  \/ o.kind = "overwrite" /\ o.src = p /\ o.step \in {"replace", "hash", "commit", "restore"}
          \/ o.kind = "move" /\ o.src = p /\ o.step \in {"unlink", "relocate", "free", "back"}
          \/ o.kind \in {"copy", "move"} /\ o.dst = p /\ o.step \in {"fill", "unlink", "insert", "undo"}
          \/ o.kind = "save_copy" /\ o.dst = p /\ o.step \in {"hash", "commit", "undo"}
          \/ o.kind = "rename" /\ o.dst = p /\ o.step = "rename"
          \/ o.kind = "rename" /\ o.src = p /\ o.step \in {"relocate", "back"}
Write(t, fs) ==
    LET changed == {p \in MuPaths : fs[p] # muFs[p]}
    IN  /\ muFs' = fs
        /\ muDirty' = muDirty \cup changed
        /\ muRaced' = muRaced \cup {fs[p] : p \in {q \in changed : Exposed(t, q)}}
        /\ UNCHANGED muHeld
NoWrite == UNCHANGED <<muFs, muRaced, muWatch>>

\* The pictures that stay however the unfinished copies and moves end: of every move about to
\* remove its source either the old or the new name goes, of a copy possibly the new one.
Unlinking == {t \in MuThreads : muOps[t].kind = "move" /\ muOps[t].step = "unlink"}
Tentative == {t \in MuThreads : /\ muOps[t].kind \in {"copy", "move"}
                                /\ muOps[t].step \in {"fill", "unlink", "insert", "undo"}}
Remains(c, moved) ==
    \E p \in MuPaths : /\ muFs[p] = c
                       /\ \A t \in moved : muOps[t].src # p
                       /\ \A t \in Tentative \ moved : muOps[t].dst # p
Standing == {c \in ValuesOf(muFs) : \A moved \in SUBSET Unlinking : Remains(c, moved)}

FirstFree(names) == {p \in ValuesOf(names) : /\ muFs[p] = 0
                                          /\ \A i, j \in DOMAIN names :
                                               names[i] = p /\ j < i => muFs[names[j]] # 0}

(***************************************************************************)
(* One thread: an operation goes on, or ends and drops what it holds       *)
(***************************************************************************)
GoOn(t, o) == muOps' = [muOps EXCEPT ![t] = o] /\ UNCHANGED muLocks

EndOp(t) ==
    /\ muOps' = [muOps EXCEPT ![t] = MuIdle]
    /\ muSaving' = {s \in muSaving : s[1] # t}
    /\ muLock' = muLock \ {t}

At(t, kinds, step) == muOps[t].kind \in kinds /\ muOps[t].step = step

\* The worker starts with the photo's row as the page shows it.
BeginOp(t, kind) ==
    /\ muOps[t] = MuIdle
    /\ muPlan.todo[t] # <<>> /\ Head(muPlan.todo[t]) = kind
    /\ muPlan' = [muPlan EXCEPT !.todo[t] = Tail(@)]
    /\ \E r \in RowOf(1) :
         GoOn(t, [MuIdle EXCEPT !.kind = kind, !.src = r.path, !.read = r.content,
                    !.step = CASE kind = "overwrite" -> "lease"
                               [] kind = "save_copy" -> "guard"
                               [] kind = "rename" -> "probe"
                               [] OTHER -> "place"])
    /\ UNCHANGED <<muDisk, muRows, muWatch>>

\* The photo has no row any more: nothing is done.
SkipOp(t) ==
    /\ muOps[t] = MuIdle /\ muPlan.todo[t] # <<>> /\ RowOf(1) = {}
    /\ muPlan' = [muPlan EXCEPT !.todo[t] = <<>>]
    /\ UNCHANGED <<muDisk, muRows, muOps, muLocks, muWatch>>

(***************************************************************************)
(* Saving: render beside the target, then publish, then commit             *)
(***************************************************************************)
\* overwrite waits for the publication lease.
TakeLease(t) ==
    /\ At(t, {"overwrite"}, "lease") /\ muLock = {}
    /\ muLock' = {t}
    /\ muOps' = [muOps EXCEPT ![t].step = "guard"]
    /\ UNCHANGED <<muDisk, muRows, muSaving, muWatch, muPlan>>

\* SaveGuard::acquire, and the metadata of the file as it is now.
Acquire(t) ==
    LET o == muOps[t]
    IN  /\ At(t, {"overwrite", "save_copy"}, "guard")
        /\ IF muFs[o.src] = 0 \/ \E s \in muSaving : s[2] = o.src THEN EndOp(t)
           ELSE /\ muSaving' = muSaving \cup {<<t, o.src>>}
                /\ muOps' = [muOps EXCEPT ![t] = [o EXCEPT !.step = "render", !.before = muFs[o.src]]]
                /\ UNCHANGED muLock
        /\ UNCHANGED <<muDisk, muRows, muWatch, muPlan>>

\* render and encode_sibling; the copy's name is chosen here.
Render(t, ok) ==
    LET o == muOps[t]
    IN  /\ At(t, {"overwrite", "save_copy"}, "render") /\ MuMayFail(~ok)
        /\ IF ~ok \/ muFs[o.src] \in {0, Partial} THEN EndOp(t) /\ UNCHANGED muStamp
           ELSE /\ muStamp' = muStamp + 1
                /\ IF o.kind = "overwrite"
                   THEN GoOn(t, [o EXCEPT !.step = "check", !.new = muStamp + 1, !.dst = o.src])
                   ELSE \E p \in FirstFree(EditedNames) :
                          GoOn(t, [o EXCEPT !.step = "persist", !.new = muStamp + 1, !.dst = p])
        /\ UNCHANGED <<muFs, muBak, muKept, muRaced, muGhost, muRows, muWatch>>

\* "source changed while rendering"
CheckSource(t) ==
    LET o == muOps[t]
    IN  /\ At(t, {"overwrite"}, "check")
        /\ IF muFs[o.src] = o.before THEN GoOn(t, [o EXCEPT !.step = "backup"]) ELSE EndOp(t)
        /\ UNCHANGED <<muDisk, muRows, muWatch, muPlan>>

\* atomic_copy(source, backup): the backup of an earlier save is given up.
WriteBackup(t, r) ==
    LET o == muOps[t]
        there == r # "early" /\ muFs[o.src] # 0
    IN  /\ At(t, {"overwrite"}, "backup") /\ MuMayFail(r # "ok")
        /\ muBak' = IF there THEN [muBak EXCEPT ![o.src] = muFs[o.src]] ELSE muBak
        /\ muKept' = IF there THEN muKept \ ({muBak[o.src]} \ Standing) ELSE muKept
        /\ IF r = "ok" /\ there THEN GoOn(t, [o EXCEPT !.step = "replace"]) ELSE EndOp(t)
        /\ UNCHANGED <<muFs, muStamp, muRaced, muGhost, muRows, muWatch>>

\* Publishing the rendered file: staged.persist over the source, persist_noclobber for a copy.
\* A parent directory that cannot be synced afterwards fails the save and undoes nothing.
Publish(t, r) ==
    LET o == muOps[t]
        over == o.kind = "overwrite"
        done == r # "early" /\ (over \/ muFs[o.dst] = 0)
    IN  /\ At(t, {"overwrite"}, "replace") \/ At(t, {"save_copy"}, "persist")
        /\ MuMayFail(r # "ok")
        /\ IF done THEN Write(t, [muFs EXCEPT ![o.dst] = o.new]) ELSE NoWrite
        /\ muGhost' = [muGhost EXCEPT !.torn = @ \/ (done /\ r = "late")]
        /\ IF done /\ r = "ok" THEN GoOn(t, [o EXCEPT !.step = "hash"]) ELSE EndOp(t)
        /\ UNCHANGED <<muBak, muStamp, muKept, muRows>>

\* A bug: the row is given the size, time and hash taken before rendering.
HashEdited_source(t, ok) ==
    LET o == muOps[t]
    IN  /\ At(t, {"overwrite", "save_copy"}, "hash") /\ ok
        /\ GoOn(t, [o EXCEPT !.step = "commit", !.read = o.before])
        /\ UNCHANGED <<muDisk, muRows, muWatch, muPlan>>
\* edited_metadata reads the published file back.
HashEdited(t, ok) ==
    LET o == muOps[t]
        good == ok /\ muFs[o.dst] # 0
    IN  /\ At(t, {"overwrite", "save_copy"}, "hash") /\ MuMayFail(~ok)
        /\ IF good THEN GoOn(t, [o EXCEPT !.step = "commit", !.read = muFs[o.dst]])
           ELSE IF o.kind = "overwrite" THEN GoOn(t, [o EXCEPT !.step = "restore"])
           ELSE EndOp(t)
        /\ muGhost' = [muGhost EXCEPT !.torn = @ \/ (~good /\ o.kind = "save_copy")]
        /\ UNCHANGED <<muFs, muBak, muStamp, muKept, muRaced, muRows, muWatch>>

\* A row of a path takes the content, or a new row does.
MuUpserted(rows, p, c) ==
    LET old == {r \in rows : r.path = p}
    IN  IF old = {} THEN rows \cup {[id |-> 0, path |-> p, content |-> c]}
        ELSE (rows \ old) \cup {[r EXCEPT !.content = c] : r \in old}

\* A bug: a failed commit is reported and nothing is put back.
CommitEdit_keeps(t, ok) ==
    LET o == muOps[t]
        mine == RowOf(1)
        good == ok /\ (o.kind = "save_copy" \/ mine # {})
    IN  /\ At(t, {"overwrite", "save_copy"}, "commit") /\ MuMayFail(~ok)
        /\ EndOp(t)
        /\ IF ~good THEN UNCHANGED <<muRows, muKept>>
           ELSE /\ muRows' = IF o.kind = "save_copy" THEN MuUpserted(muRows, o.dst, o.read)
                             ELSE (muRows \ mine) \cup {[r EXCEPT !.content = o.read] : r \in mine}
                /\ muKept' = muKept \cup ({o.new} \cap Standing)
        /\ UNCHANGED <<muFs, muBak, muStamp, muRaced, muGhost, muWatch>>
\* UpdateEditedMedia fails for a row that is gone; InsertEditedMedia is an upsert.
CommitEdit(t, ok) ==
    LET o == muOps[t]
        mine == RowOf(1)
        good == ok /\ (o.kind = "save_copy" \/ mine # {})
    IN  /\ At(t, {"overwrite", "save_copy"}, "commit") /\ MuMayFail(~ok)
        /\ IF good
           THEN /\ EndOp(t)
                /\ muRows' = IF o.kind = "save_copy" THEN MuUpserted(muRows, o.dst, o.read)
                             ELSE (muRows \ mine) \cup {[r EXCEPT !.content = o.read] : r \in mine}
                /\ muKept' = muKept \cup ({o.new} \cap Standing)
           ELSE /\ GoOn(t, [o EXCEPT !.step = IF o.kind = "overwrite" THEN "restore" ELSE "undo"])
                /\ UNCHANGED <<muRows, muKept>>
        /\ UNCHANGED <<muFs, muBak, muStamp, muRaced, muGhost, muWatch>>

\* atomic_copy(backup, source)
RestoreBackup(t, ok) ==
    LET o == muOps[t]
    IN  /\ At(t, {"overwrite"}, "restore") /\ MuMayFail(~ok)
        /\ IF ok THEN Write(t, [muFs EXCEPT ![o.src] = muBak[o.src]]) ELSE NoWrite
        /\ muGhost' = [muGhost EXCEPT !.torn = @ \/ ~ok]
        /\ EndOp(t)
        /\ UNCHANGED <<muBak, muStamp, muKept, muRows>>

(***************************************************************************)
(* Copying and moving to an album                                          *)
(***************************************************************************)
\* A bug: the first name is taken whether it is free or not.
Place_first(t, linked) ==
    LET o == muOps[t]
        p == AlbumNames[1]
    IN  /\ At(t, {"copy", "move"}, "place")
        /\ IF linked /\ (o.kind = "copy" \/ muFs[o.src] = 0) THEN EndOp(t) /\ NoWrite
           ELSE /\ Write(t, [muFs EXCEPT ![p] = IF linked THEN muFs[o.src] ELSE Partial])
                /\ GoOn(t, [o EXCEPT !.dst = p, !.step = IF linked THEN "unlink" ELSE "fill"])
        /\ UNCHANGED <<muBak, muStamp, muKept, muGhost, muRows, muPlan>>
\* copy_to_unique creates an empty file under the first free name; move_to_unique links the
\* file there, or copies it when the album is on another device.
Place(t, linked) ==
    LET o == muOps[t]
    IN  /\ At(t, {"copy", "move"}, "place") /\ (linked => o.kind = "move")
        /\ IF FirstFree(AlbumNames) = {} \/ (linked /\ muFs[o.src] = 0)
           THEN EndOp(t) /\ NoWrite
           ELSE \E p \in FirstFree(AlbumNames) :
                  /\ Write(t, [muFs EXCEPT ![p] = IF linked THEN muFs[o.src] ELSE Partial])
                  /\ GoOn(t, [o EXCEPT !.dst = p, !.step = IF linked THEN "unlink" ELSE "fill",
                                       !.before = muFs[o.src]])
        /\ UNCHANGED <<muBak, muStamp, muKept, muGhost, muRows, muPlan>>

Fill(t, ok) ==
    LET o == muOps[t]
        good == ok /\ muFs[o.src] # 0
    IN  /\ At(t, {"copy", "move"}, "fill") /\ MuMayFail(~ok)
        /\ Write(t, [muFs EXCEPT ![o.dst] = IF good THEN muFs[o.src] ELSE 0])
        /\ IF good THEN GoOn(t, [o EXCEPT !.step = IF o.kind = "copy" THEN "insert" ELSE "unlink"])
           ELSE EndOp(t)
        /\ UNCHANGED <<muBak, muStamp, muKept, muGhost, muRows>>

\* insert_media_item is a plain INSERT: a row the watcher made first refuses it.
InsertCopy(t, ok) ==
    LET o == muOps[t]
        good == ok /\ RowAt(o.dst) = {}
    IN  /\ At(t, {"copy"}, "insert") /\ MuMayFail(~ok)
        /\ IF good
           THEN /\ muRows' = MuUpserted(muRows, o.dst, o.read)
                /\ EndOp(t)
           ELSE GoOn(t, [o EXCEPT !.step = "undo"]) /\ UNCHANGED muRows
        /\ UNCHANGED <<muDisk, muWatch>>

\* rollback_copy, and the copy of a save whose row could not be written.
UndoCopy(t, ok) ==
    LET o == muOps[t]
    IN  /\ At(t, {"copy", "save_copy"}, "undo") /\ MuMayFail(~ok)
        /\ IF ok THEN Write(t, [muFs EXCEPT ![o.dst] = 0]) ELSE NoWrite
        /\ muGhost' = [muGhost EXCEPT !.torn = @ \/ ~ok]
        /\ EndOp(t)
        /\ UNCHANGED <<muBak, muStamp, muKept, muRows>>

\* remove_file(source); if that fails the new name is removed instead.
UnlinkSource(t, ok) ==
    LET o == muOps[t]
        good == ok /\ muFs[o.src] # 0
    IN  /\ At(t, {"move"}, "unlink") /\ MuMayFail(~ok)
        /\ Write(t, [muFs EXCEPT ![IF good THEN o.src ELSE o.dst] = 0])
        /\ IF good THEN GoOn(t, [o EXCEPT !.step = "relocate"]) ELSE EndOp(t)
        /\ UNCHANGED <<muBak, muStamp, muKept, muGhost, muRows>>

(***************************************************************************)
(* Renaming, and the row of a file that has moved                          *)
(***************************************************************************)
\* rename_target_path, and target.exists().
ProbeTarget(t) ==
    LET o == muOps[t]
    IN  /\ At(t, {"rename"}, "probe")
        /\ IF o.src = Renamed \/ muFs[Renamed] # 0 THEN EndOp(t)
           ELSE GoOn(t, [o EXCEPT !.dst = Renamed, !.step = "rename"])
        /\ UNCHANGED <<muDisk, muRows, muWatch, muPlan>>

RenameMediaFile(t, ok) ==
    LET o == muOps[t]
        good == ok /\ muFs[o.src] # 0
    IN  /\ At(t, {"rename"}, "rename") /\ MuMayFail(~ok)
        /\ IF good
           THEN /\ Write(t, [muFs EXCEPT ![o.dst] = muFs[o.src], ![o.src] = 0])
                /\ GoOn(t, [o EXCEPT !.step = "relocate"])
           ELSE NoWrite /\ EndOp(t)
        /\ UNCHANGED <<muBak, muStamp, muKept, muGhost, muRows>>

\* UpdateMediaLocation: refused when the watcher has a row of the new path already, or has
\* removed the photo's row.
UpdateMediaLocation(t, ok) ==
    LET o == muOps[t]
        mine == RowOf(1)
    IN  /\ At(t, {"move", "rename"}, "relocate") /\ MuMayFail(~ok)
        /\ IF ok /\ mine # {} /\ RowAt(o.dst) \subseteq mine
           THEN muRows' = (muRows \ mine) \cup {[r EXCEPT !.path = o.dst] : r \in mine} /\ EndOp(t)
           ELSE /\ GoOn(t, [o EXCEPT !.step = IF o.kind = "move" THEN "free" ELSE "back"])
                /\ UNCHANGED muRows
        /\ UNCHANGED <<muDisk, muWatch>>

\* rollback_move leaves the file where it is when the old name has been taken.
ProbeSource(t) ==
    LET o == muOps[t]
    IN  /\ At(t, {"move"}, "free")
        /\ IF muFs[o.src] # 0 THEN EndOp(t) ELSE GoOn(t, [o EXCEPT !.step = "back"])
        /\ UNCHANGED <<muDisk, muRows, muWatch, muPlan>>

MoveBack(t, ok) ==
    LET o == muOps[t]
    IN  /\ At(t, {"move", "rename"}, "back") /\ MuMayFail(~ok)
        /\ IF ok /\ muFs[o.dst] # 0
           THEN Write(t, [muFs EXCEPT ![o.src] = muFs[o.dst], ![o.dst] = 0]) ELSE NoWrite
        /\ EndOp(t)
        /\ UNCHANGED <<muBak, muStamp, muKept, muGhost, muRows>>

(***************************************************************************)
(* The watcher, other programs, crashes                                    *)
(***************************************************************************)
\* A burst has settled: files that are there are read.
ReadBurst(ps) ==
    /\ muHeld = {} /\ ps # {} /\ ps \subseteq muDirty
    /\ muHeld' = {[p \in ps |-> muFs[p]]} /\ muDirty' = muDirty \ ps
    /\ UNCHANGED <<muDisk, muRows, muOps, muLocks, muPlan>>

\* The actor upserts what was read, and removes rows whose file is still not there.
CommitBurst ==
    \E h \in muHeld :
      LET there == {p \in DOMAIN h : h[p] # 0}
          gone == {p \in DOMAIN h \ there : muFs[p] = 0}
      IN  /\ muRows' = {r \in muRows : r.path \notin there \cup gone}
                       \cup {[r EXCEPT !.content = h[r.path]] : r \in {x \in muRows : x.path \in there}}
                       \cup {[id |-> 0, path |-> p, content |-> h[p]] : p \in {q \in there : RowAt(q) = {}}}
          /\ muHeld' = {}
          /\ UNCHANGED <<muDisk, muOps, muLocks, muDirty, muPlan>>

\* Another program saves a picture.
OtherWrites(p) ==
    /\ muPlan.writes > 0 /\ muPlan' = [muPlan EXCEPT !.writes = @ - 1]
    /\ muStamp' = muStamp + 1
    /\ Write("other", [muFs EXCEPT ![p] = muStamp + 1])
    /\ muKept' = (muKept \ {muFs[p]}) \cup {muStamp + 1}
    /\ muGhost' = [muGhost EXCEPT
         !.late = @ \/ \E t \in MuThreads : muOps[t].step \in {"backup", "replace"} /\ muOps[t].dst = p]
    /\ UNCHANGED <<muBak, muRows, muOps, muLocks>>

\* The next start scans everything.
MuCrash ==
    /\ muPlan.crashes > 0 /\ muPlan' = [muPlan EXCEPT !.crashes = @ - 1]
    /\ muOps' = [t \in MuThreads |-> MuIdle] /\ muSaving' = {} /\ muLock' = {}
    /\ muHeld' = {muFs} /\ muDirty' = {}
    /\ UNCHANGED <<muDisk, muRows>>

(***************************************************************************)
(* Specification                                                           *)
(***************************************************************************)
MutateInit ==
    /\ muPlan \in MuPlans
    /\ muFs = [p \in MuPaths |-> IF p = Photo THEN 2 ELSE IF p \in muPlan.there THEN 3 ELSE 0]
    /\ muBak = [p \in MuPaths |-> 0]
    /\ muRows = {[id |-> IF p = Photo THEN 1 ELSE 0, path |-> p, content |-> muFs[p]] :
                    p \in {Photo} \cup muPlan.there}
    /\ muOps = [t \in MuThreads |-> MuIdle] /\ muSaving = {} /\ muLock = {}
    /\ muDirty = {} /\ muHeld = {}
    /\ muStamp = 3 /\ muKept = ValuesOf(muFs) \ {0} /\ muRaced = {}
    /\ muGhost = [torn |-> FALSE, late |-> FALSE]

MutateWork(t) ==
    \/ \E kind \in MuKinds : BeginOp(t, kind)
    \/ SkipOp(t) \/ TakeLease(t) \/ Acquire(t) \/ CheckSource(t) \/ ProbeTarget(t) \/ ProbeSource(t)
    \/ \E r \in Outcomes : WriteBackup(t, r) \/ Publish(t, r)
    \/ \E linked \in BOOLEAN : Place(t, linked)
    \/ \E ok \in BOOLEAN :
         \/ Render(t, ok) \/ HashEdited(t, ok) \/ CommitEdit(t, ok) \/ RestoreBackup(t, ok)
         \/ Fill(t, ok) \/ InsertCopy(t, ok) \/ UndoCopy(t, ok) \/ UnlinkSource(t, ok)
         \/ RenameMediaFile(t, ok) \/ UpdateMediaLocation(t, ok) \/ MoveBack(t, ok)
MuWatcher == CommitBurst \/ \E ps \in SUBSET muDirty : ReadBurst(ps)
MutateNext ==
    \/ \E t \in MuThreads : MutateWork(t)
    \/ MuWatcher
    \/ \E p \in muPlan.paths : OtherWrites(p)
    \/ MuCrash

\* Workers and the watcher are threads of their own: as long as one can go on, one does.
MuWork == (\E t \in MuThreads : MutateWork(t)) \/ MuWatcher
MutateFairness == WF_muVars(MuWork)

MutateSpec == MutateInit /\ [][MutateNext]_muVars /\ MutateFairness

(***************************************************************************)
(* Properties                                                              *)
(***************************************************************************)
OnDisk == ValuesOf(muFs) \cup ValuesOf(muBak)

MuSteps == {"idle", "lease", "guard", "render", "check", "backup", "replace", "persist", "hash",
            "commit", "restore", "place", "fill", "insert", "undo", "unlink", "probe", "rename",
            "relocate", "free", "back"}
MuOp == [kind : MuKinds \cup {"none"}, step : MuSteps, src : MuPaths, dst : MuPaths,
         before : Nat, new : 0 .. muStamp, read : Nat]

\* Types; one holder of the lease, one save of a file (SaveGuard), one row of a path.
MutateTypeOK ==
    /\ muStamp \in Nat /\ muStamp >= 3
    /\ muFs \in [MuPaths -> 0 .. muStamp] /\ muBak \in [MuPaths -> 0 .. muStamp]
    /\ muRows \subseteq [id : 0 .. 1, path : MuPaths, content : Nat]
    /\ \A r, q \in muRows : r.path = q.path \/ (r.id = 1 /\ q.id = 1) => r = q
    /\ muOps \in [MuThreads -> MuOp]
    /\ muLock \subseteq MuThreads /\ \A t, u \in muLock : t = u
    /\ muSaving \subseteq MuThreads \X MuPaths /\ \A s, u \in muSaving : s[2] = u[2] => s = u
    /\ muDirty \subseteq MuPaths
    /\ \A h \in muHeld : DOMAIN h \subseteq MuPaths /\ \A p \in DOMAIN h : h[p] \in Nat
    /\ muKept \subseteq 2 .. muStamp
    /\ muPlan \in MuPlanType

\* Whatever fails, crashes or runs beside it, no operation destroys a picture: the one an
\* overwrite replaces is in the .bak, a file that has the wanted name is left alone, and
\* only what was written into the window of a step about to replace it can go.
ContentKept == muKept \subseteq OnDisk \cup muRaced

\* An edit is published over the very content it was rendered from, which is then the backup,
\* unless the file changed in the moment between the last look at it and the replacement.
EditReplacesItsBase ==
    \A t \in MuThreads :
      LET o == muOps[t]
      IN  o.kind = "overwrite" /\ o.step \in {"hash", "commit"} =>
            muBak[o.src] = o.before \/ muGhost.late

\* When a save that has published its file is over, a row has the edit as it was read back,
\* or the edited file is gone again, unless the failure was of the clean-up itself or of
\* syncing the directory.
FailureUndone ==
    [][\A t \in MuThreads :
         LET o == muOps[t]
         IN  /\ o.kind \in {"overwrite", "save_copy"} /\ o.step \in {"hash", "commit", "restore", "undo"}
             /\ muOps'[t] = MuIdle /\ muPlan'.crashes = muPlan.crashes
             => \/ \E r \in muRows' : r.content = o.read /\ (r.id = 1 \/ r.path = o.dst)
                \/ muFs'[o.dst] # o.new \/ muGhost'.torn]_muVars

\* When no operation runs and the watcher has nothing left, the table lists exactly the
\* files there are, as they are; after failures and crashes too, but not after a write into
\* the window of a step.
RowsTrue ==
    (\A t \in MuThreads : muOps[t] = MuIdle) /\ muDirty = {} /\ muHeld = {} /\ muRaced = {}
    => {<<r.path, r.content>> : r \in muRows} = {<<p, muFs[p]>> : p \in {q \in MuPaths : muFs[q] # 0}}

\* Every operation comes to an end: no save waits for a lease that is never given back.
OpsEnd == \A t \in MuThreads : muOps[t] # MuIdle ~> muOps[t] = MuIdle

(***************************************************************************)
(* The inductive invariant behind ContentKept                              *)
(***************************************************************************)
\* Past the first step an overwrite holds the lease.
LeaseHeld ==
    \A t \in MuThreads : muOps[t].kind = "overwrite" /\ muOps[t].step # "lease" => t \in muLock

\* A rendered picture is nobody else's, is not counted among the kept before its row is
\* written, and is nowhere on disk before it is published; nor is it ever its own backup.
Rendered(t) ==
    LET o == muOps[t]
    IN  /\ o.kind \in {"overwrite", "save_copy"}
              /\ o.step \in {"check", "backup", "replace", "persist", "hash", "commit", "restore", "undo"}
           => o.new # 0
        /\ o.new # 0 =>
             /\ o.new >= 2 /\ o.new \notin muKept
             /\ \A u \in MuThreads \ {t} : muOps[u].new # o.new
             /\ o.step \in {"check", "backup", "replace", "persist"} => o.new \notin OnDisk
             /\ o.kind = "overwrite" => o.step # "lease" /\ o.dst = o.src /\ muBak[o.src] # o.new

\* What is where a step is about to replace or remove a file is what the operation put or
\* saw there, or was written into the window.
Window(t) ==
    LET o == muOps[t]
        In(p, expected) == muFs[p] \in expected \cup muRaced
    IN  /\ o.kind = "overwrite" /\ o.step = "replace" => In(o.src, {0, muBak[o.src]})
        /\ o.kind = "overwrite" /\ o.step \in {"hash", "commit", "restore"} => In(o.src, {o.new})
        /\ o.kind = "save_copy" /\ o.step \in {"hash", "commit", "undo"} => In(o.dst, {o.new})
        /\ o.kind \in {"copy", "move"} /\ o.step = "fill" => In(o.dst, {Partial})
        /\ o.kind = "rename" /\ o.step = "rename" => In(o.dst, {0})
        /\ o.kind \in {"move", "rename"} /\ o.step \in {"relocate", "back"} => In(o.src, {0})
        /\ o.kind = "move" /\ o.step = "free" => In(o.src, {0})

\* A kept picture is in a backup or stays however the unfinished operations end.
KeptStands == muKept \subseteq muRaced \cup ValuesOf(muBak) \cup Standing

MutateInv ==
    /\ MutateTypeOK /\ LeaseHeld
    /\ \A t \in MuThreads : Rendered(t) /\ Window(t)
    /\ KeptStands

\* "Move: ... update_media_location in place (same id)": a move or a rename keeps the row of
\* the photo, with its favourite mark and its sync entry.
MoveKeepsRow == RowOf(1) # {}
=============================================================================
