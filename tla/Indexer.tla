------------------------------ MODULE Indexer ------------------------------
(***************************************************************************)
(* How the media table follows the files of the library: the startup scan  *)
(* (src/core/bootstrap.rs, src/core/backend/local.rs), the file watcher    *)
(* (src/core/notify_watcher.rs), the user ignoring an album                *)
(* (src/ui/window/albums.rs), and the database actor that executes what    *)
(* the three submit, one command at a time in order of priority            *)
(* (src/core/db_actor.rs, src/core/db.rs).                                 *)
(*                                                                         *)
(* There is one media root.  A file is named by its folder and its name;   *)
(* its version stands for modification time and size, 0 for "not there".   *)
(* A row holds the version it was indexed with.  Trash transitions are the *)
(* subject of module Trash, sync obligations of module Uplink.             *)
(***************************************************************************)
EXTENDS Integers, Sequences, SequencesExt, FiniteSets, FiniteSetsExt

CONSTANTS Folders,        \* folders directly below the media root
          Names,          \* names of files in a folder
          EventQueueCap,  \* EVENT_QUEUE_CAPACITY
          Libraries,      \* disks and tables the program may start on
          IndexBudgets    \* how many outside changes and user acts are explored

VARIABLES file,        \* the disk: version of every file
          dirs,        \* the disk: folders that exist
          mounted,     \* the drive the root is on is there
          stamp,       \* the newest version
          table,       \* media_items: the version of every live row
          excluded,    \* settings.json: excluded_scan_roots
          rawEvents,   \* the channel of the notify callback
          overflowed,  \* the flag it sets when the channel is full
          watching,    \* the watcher thread between two receives
          pass,        \* the scan a thread is in
          cmd,         \* the command each blocked client waits for
          exec,        \* the command the actor executes
          raced,       \* history: files changed while a command held a reading
          indexBudget  \* what is left of the budget

diskVars == <<file, dirs, mounted, stamp, raced>>
notifyVars == <<rawEvents, overflowed>>
IndexVars == <<diskVars, table, excluded, notifyVars, watching, pass, cmd, exec,
               indexBudget>>

Files == Folders \X Names
FolderOf(f) == f[1]
FilesIn(ds) == {f \in Files : FolderOf(f) \in ds}

Scanners == {"scan", "watcher"}
Clients == Scanners \cup {"user"}

NoFiles == [f \in {} |-> 0]
NoCommand == [op |-> "none", items |-> NoFiles, paths |-> {}]
IdleActor == [client |-> "none", op |-> "none", items |-> NoFiles,
              verified |-> {}]
IdleWatch == [step |-> "idle", pending |-> NoFiles, work |-> << >>]
NoPass == [step |-> "off", skip |-> {}, index |-> NoFiles, todo |-> {},
           batch |-> NoFiles, listed |-> {}, prunes |-> FALSE]

(* The program starts on whatever the last session left in the table and    *)
(* others have done to the folders since.                                   *)
IndexInit ==
    /\ \E l \in Libraries :
         dirs = l.dirs /\ file = l.file /\ table = l.table /\ stamp = l.stamp
    /\ mounted = TRUE
    /\ excluded = {}
    /\ rawEvents = << >> /\ overflowed = FALSE
    /\ watching = IdleWatch
    /\ pass = [c \in Scanners |->
                 IF c = "scan" THEN [NoPass EXCEPT !.step = "start"] ELSE NoPass]
    /\ cmd = [c \in Clients |-> NoCommand]
    /\ exec = IdleActor
    /\ raced = [read |-> {}, judged |-> {}]
    /\ indexBudget \in IndexBudgets

IndexSpend(what) == /\ indexBudget[what] > 0
                    /\ indexBudget' = [indexBudget EXCEPT ![what] = @ - 1]

Present(f) == mounted /\ file[f] # 0
DirThere(d) == mounted /\ d \in dirs

-----------------------------------------------------------------------------
(* Other programs on the disk, and what the notify callback makes of it *)

(* A bug: the channel takes one event too many. *)

(* The callback never blocks: what does not fit is dropped and remembered.  *)
Notify(es) ==
    LET all == rawEvents \o es
    IN  /\ rawEvents' = SubSeq(all, 1, Min({Len(all), EventQueueCap}))
        /\ overflowed' = (overflowed \/ Len(all) > EventQueueCap)

(* Files whose earlier version the startup scan has read but not written,   *)
(* and files the executing command found missing and has not removed yet.   *)
HeldByScan == DOMAIN pass["scan"].batch \cup DOMAIN cmd["scan"].items

Leaving == IF exec.op \in {"trees", "folder"} THEN FilesIn(exec.verified)
           ELSE exec.verified

Changes(new) ==
    /\ mounted
    /\ file' = new
    /\ raced' = [read |-> raced.read \cup {f \in HeldByScan : new[f] # file[f]},
                 judged |-> raced.judged \cup {f \in Leaving : new[f] # file[f]}]
    /\ UNCHANGED <<mounted, table, excluded, watching, pass, cmd, exec>>

WriteFile(f) ==
    /\ IndexSpend("files")
    /\ FolderOf(f) \in dirs
    /\ stamp' = stamp + 1
    /\ Changes([file EXCEPT ![f] = stamp + 1])
    /\ Notify(<< <<"change", f>> >>)
    /\ UNCHANGED dirs

RemoveFile(f) ==
    /\ IndexSpend("files")
    /\ file[f] # 0
    /\ Changes([file EXCEPT ![f] = 0])
    /\ Notify(<< <<"remove", f>> >>)
    /\ UNCHANGED <<dirs, stamp>>

RenameFile(f, g) ==
    /\ IndexSpend("files")
    /\ f # g /\ file[f] # 0 /\ FolderOf(g) \in dirs
    /\ Changes([file EXCEPT ![f] = 0, ![g] = file[f]])
    /\ Notify(<< <<"name", f>>, <<"name", g>> >>)
    /\ UNCHANGED <<dirs, stamp>>

(* A folder is emptied before it is removed. *)
RemoveFolder(d) ==
    LET gone == {f \in FilesIn({d}) : file[f] # 0}
    IN  /\ IndexSpend("folders")
        /\ d \in dirs
        /\ dirs' = dirs \ {d}
        /\ Changes([f \in Files |-> IF f \in gone THEN 0 ELSE file[f]])
        /\ \E order \in SetToSeqs(gone) :
             Notify([i \in 1..Len(order) |-> <<"remove", order[i]>>]
                    \o << <<"remove", d>> >>)
        /\ UNCHANGED stamp

(* The files of a renamed folder produce no events of their own. *)
RenameFolder(d, e) ==
    /\ IndexSpend("folders")
    /\ d \in dirs /\ e \notin dirs
    /\ dirs' = (dirs \ {d}) \cup {e}
    /\ Changes([f \in Files |-> CASE FolderOf(f) = d -> 0
                                  [] FolderOf(f) = e -> file[<<d, f[2]>>]
                                  [] OTHER -> file[f]])
    /\ Notify(<< <<"name", d>>, <<"name", e>> >>)
    /\ UNCHANGED stamp

NotifyError ==
    /\ IndexSpend("faults")
    /\ rawEvents' = IF Len(rawEvents) = EventQueueCap THEN rawEvents
                    ELSE Append(rawEvents, <<"error", << >> >>)
    /\ overflowed' = TRUE
    /\ UNCHANGED <<diskVars, table, excluded, watching, pass, cmd, exec>>

(* The drive goes away with everything on it; no event tells of its files.  *)
Unmount ==
    /\ IndexSpend("unmounts")
    /\ mounted' = FALSE
    /\ UNCHANGED <<file, dirs, stamp, raced, table, excluded, notifyVars,
                   watching, pass, cmd, exec>>

-----------------------------------------------------------------------------
(* Clients of the actor wait for the reply of their one command *)

Free(c) == cmd[c].op = "none"

Command(op, items, paths) == [op |-> op, items |-> items, paths |-> paths]

Submit(c, command) == cmd' = [cmd EXCEPT ![c] = command]

-----------------------------------------------------------------------------
(* A scan: scan_and_process_dir_with, then the missing rows *)

(* scan_root_is_available: the root can be read. *)
RootAvailable == mounted

(* What process_file makes of a file whose row is not of its version. *)
Reading(f, index) == IF Present(f) /\ index[f] # file[f] THEN f :> file[f]
                     ELSE NoFiles

(* An unavailable root is neither scanned nor reconciled. *)
BeginScan(c, ds, skip, prunes) ==
    pass' = [pass EXCEPT ![c] =
               IF RootAvailable
               THEN [NoPass EXCEPT !.step = "walk", !.skip = skip,
                                   !.index = table, !.prunes = prunes,
                                   !.todo = FilesIn(ds \ skip)]
               ELSE NoPass]

StartupScan ==
    /\ pass["scan"].step = "start"
    /\ BeginScan("scan", Folders, excluded, TRUE)
    /\ UNCHANGED <<diskVars, table, excluded, notifyVars, watching, cmd, exec,
                   indexBudget>>

(* The producer reads every file that is there and not indexed as it is;    *)
(* it goes on while the consumer waits for the database.                    *)
Visit(c, f) ==
    LET p == pass[c]
    IN  /\ p.step = "walk" /\ f \in p.todo
        /\ pass' = [pass EXCEPT ![c].todo = @ \ {f},
                                ![c].batch = Reading(f, p.index) @@ @]
        /\ UNCHANGED <<diskVars, table, excluded, notifyVars, watching, cmd, exec,
                       indexBudget>>

CommitBatch(c) ==
    /\ Free(c) /\ pass[c].batch # NoFiles
    /\ Submit(c, Command("upsert", pass[c].batch, {}))
    /\ pass' = [pass EXCEPT ![c].batch = NoFiles]
    /\ UNCHANGED <<diskVars, table, excluded, notifyVars, watching, exec,
                   indexBudget>>

WalkDone(c) ==
    /\ Free(c) /\ pass[c].step = "walk"
    /\ pass[c].todo = {} /\ pass[c].batch = NoFiles
    /\ pass' = [pass EXCEPT ![c] = IF pass[c].prunes
                                   THEN [@ EXCEPT !.step = "list"] ELSE NoPass]
    /\ UNCHANGED <<diskVars, table, excluded, notifyVars, watching, cmd, exec,
                   indexBudget>>

ListLive(c) ==
    /\ pass[c].step = "list"
    /\ pass' = [pass EXCEPT ![c] =
                  IF RootAvailable
                  THEN [@ EXCEPT !.step = "stat",
                          !.listed = {f \in Files :
                                        /\ table[f] # 0
                                        /\ FolderOf(f) \notin pass[c].skip}]
                  ELSE NoPass]
    /\ UNCHANGED <<diskVars, table, excluded, notifyVars, watching, cmd, exec,
                   indexBudget>>

CollectMissing(c) ==
    LET missing == {f \in pass[c].listed : ~Present(f)}
    IN  /\ pass[c].step = "stat"
        /\ pass' = [pass EXCEPT ![c] = [NoPass EXCEPT !.step = "prune"]]
        /\ IF missing = {} THEN UNCHANGED cmd
           ELSE Submit(c, Command("prune", NoFiles, missing))
        /\ UNCHANGED <<diskVars, table, excluded, notifyVars, watching, exec,
                       indexBudget>>

PassDone(c) ==
    /\ Free(c) /\ pass[c].step = "prune"
    /\ pass' = [pass EXCEPT ![c] = NoPass]
    /\ UNCHANGED <<diskVars, table, excluded, notifyVars, watching, cmd, exec,
                   indexBudget>>

Scanning(c) ==
    \/ \E f \in Files : Visit(c, f)
    \/ CommitBatch(c) \/ WalkDone(c) \/ ListLive(c) \/ CollectMissing(c)
    \/ PassDone(c)

-----------------------------------------------------------------------------
(* The watcher thread *)

PathFolder(p) == IF p \in Folders THEN p ELSE FolderOf(p)

(* A bug: every action wants the extension of a media file. *)
ClassifyPathAction_extension(e) ==
    LET p == e[2]
    IN  CASE e[1] = "error" \/ p \in Folders -> "none"
          [] e[1] = "change" -> "upsert"
          [] e[1] = "remove" -> "delete"
          [] OTHER -> IF Present(p) THEN "upsert" ELSE "delete"

(* What one event means, judged when the burst is flushed. *)
ClassifyPathAction(e) ==
    LET p == e[2]
    IN  CASE e[1] = "error" -> "none"
          [] e[1] = "change" -> IF p \in Folders THEN "none" ELSE "upsert"
          [] e[1] = "remove" -> IF p \in Folders THEN "tree" ELSE "delete"
          [] OTHER -> IF p \in Folders
                      THEN IF DirThere(p) THEN "scan" ELSE "tree"
                      ELSE IF Present(p) THEN "upsert" ELSE "delete"

Actionable(e) == /\ ClassifyPathAction(e) # "none"
                 /\ PathFolder(e[2]) \notin excluded

(* The last action of a path wins. *)
Coalesced(es) ==
    [p \in {es[i][2] : i \in {j \in DOMAIN es : Actionable(es[j])}} |->
       ClassifyPathAction(es[CHOOSE i \in DOMAIN es :
         /\ es[i][2] = p /\ Actionable(es[i])
         /\ \A j \in DOMAIN es : es[j][2] = p /\ Actionable(es[j]) => j <= i])]

FlushEventBurst(n) ==
    /\ watching.step = "idle"
    /\ watching' = [watching EXCEPT !.step = "settle",
                                    !.pending = Coalesced(SubSeq(rawEvents, 1, n))]
    /\ rawEvents' = SubSeq(rawEvents, n + 1, Len(rawEvents))
    /\ UNCHANGED <<diskVars, table, excluded, overflowed, pass, cmd, exec,
                   indexBudget>>

Acting(a) == {p \in DOMAIN watching.pending : watching.pending[p] = a}

Listed(cond, task) == IF cond THEN <<task>> ELSE << >>

(* After the settle time: folders that came are scanned, files that are     *)
(* there are read, and what has vanished is deleted, in this order.         *)
FlushPendingPaths ==
    LET there == {f \in Acting("upsert") : Present(f)}
        gone  == Acting("delete") \cup (Acting("upsert") \ there)
        trees == Acting("tree")
    IN  /\ watching.step = "settle"
        /\ watching' = [step |-> "work", pending |-> NoFiles,
                        work |-> [i \in 1..Cardinality(Acting("scan")) |->
                                    Command("scan", NoFiles,
                                            {SetToSeq(Acting("scan"))[i]})]
                          \o Listed(there # {}, Command("upsert",
                                       [f \in there |-> file[f]], {}))
                          \o Listed(gone # {}, Command("delete", NoFiles, gone))
                          \o Listed(trees # {}, Command("trees", NoFiles, trees))]
        /\ UNCHANGED <<diskVars, table, excluded, notifyVars, pass, cmd, exec,
                       indexBudget>>

Working == watching.step = "work" /\ Free("watcher") /\ pass["watcher"] = NoPass

ScanDirectoryTree ==
    /\ Working /\ watching.work # << >> /\ Head(watching.work).op = "scan"
    /\ watching' = [watching EXCEPT !.work = Tail(@)]
    /\ BeginScan("watcher", Head(watching.work).paths, excluded, FALSE)
    /\ UNCHANGED <<diskVars, table, excluded, notifyVars, cmd, exec,
                   indexBudget>>

SubmitPending ==
    /\ Working /\ watching.work # << >> /\ Head(watching.work).op # "scan"
    /\ watching' = [watching EXCEPT !.work = Tail(@)]
    /\ Submit("watcher", Head(watching.work))
    /\ UNCHANGED <<diskVars, table, excluded, notifyVars, pass, exec,
                   indexBudget>>

(* The rescan knows the exclusions the watcher was started with: none. *)
RecoverFromEventOverflow ==
    /\ Working /\ watching.work = << >> /\ overflowed
    /\ overflowed' = FALSE
    /\ BeginScan("watcher", Folders, {}, TRUE)
    /\ UNCHANGED <<diskVars, table, excluded, rawEvents, watching, cmd, exec,
                   indexBudget>>

(* A bug: the loop goes back to waiting without looking at the flag. *)

BurstDone ==
    /\ Working /\ watching.work = << >> /\ ~overflowed
    /\ watching' = IdleWatch
    /\ UNCHANGED <<diskVars, table, excluded, notifyVars, pass, cmd, exec,
                   indexBudget>>

RunWatcherLoop ==
    \/ \E n \in 1..Len(rawEvents) : FlushEventBurst(n)
    \/ FlushPendingPaths \/ ScanDirectoryTree \/ SubmitPending
    \/ RecoverFromEventOverflow \/ BurstDone

-----------------------------------------------------------------------------
(* The user ignores an album: the folder is excluded, then its rows go *)

IgnoreAlbum(d) ==
    /\ IndexSpend("ignores")
    /\ Free("user")
    /\ excluded' = excluded \cup {d}
    /\ Submit("user", Command("folder", NoFiles, {d}))
    /\ UNCHANGED <<diskVars, table, notifyVars, watching, pass, exec>>

-----------------------------------------------------------------------------
(* The database actor *)

Priority(c) ==
    CASE c = "user" -> 100
      [] c = "watcher" /\ cmd[c].op # "prune" -> 70
      [] OTHER -> 30

(* A bug: watcher evidence does not ask for the folder of a file. *)

(* ParentMustSurvive: a file is gone from a folder that is still there. *)
PathEvidence(fs) == {f \in fs : DirThere(FolderOf(f)) /\ ~Present(f)}

FolderEvidence(ds) == {d \in ds : mounted /\ d \notin dirs}

(* PruneVerified: rows that are still live and whose file is not found. *)
PruneEvidence(fs) == {f \in fs : table[f] # 0 /\ ~Present(f)}

(* What the command finds on the disk before it takes the write lock. *)
Evidence(command) ==
    CASE command.op = "delete" -> PathEvidence(command.paths)
      [] command.op = "trees"  -> FolderEvidence(command.paths)
      [] command.op = "prune"  -> PruneEvidence(command.paths)
      [] OTHER -> command.paths

Execute(c) ==
    /\ exec = IdleActor /\ ~Free(c)
    /\ \A o \in Clients : ~Free(o) => Priority(o) <= Priority(c)
    /\ exec' = [client |-> c, op |-> cmd[c].op, items |-> cmd[c].items,
                verified |-> Evidence(cmd[c])]
    /\ UNCHANGED <<diskVars, table, excluded, notifyVars, watching, pass, cmd,
                   indexBudget>>

UpsertMediaItems == exec.items @@ table

RemoveRows == [f \in Files |-> IF f \in Leaving THEN 0 ELSE table[f]]

Commit ==
    /\ exec # IdleActor
    /\ table' = IF exec.op = "upsert" THEN UpsertMediaItems ELSE RemoveRows
    /\ cmd' = [cmd EXCEPT ![exec.client] = NoCommand]
    /\ exec' = IdleActor
    /\ UNCHANGED <<diskVars, excluded, notifyVars, watching, pass, indexBudget>>

RunDbActor == Commit \/ \E c \in Clients : Execute(c)

-----------------------------------------------------------------------------
Outside ==
    \/ \E f \in Files : WriteFile(f) \/ RemoveFile(f)
    \/ \E f, g \in Files : RenameFile(f, g)
    \/ \E d \in Folders : RemoveFolder(d)
    \/ \E d, e \in Folders : RenameFolder(d, e)
    \/ NotifyError
    \/ Unmount
    \/ \E d \in Folders : IgnoreAlbum(d)

IndexWork ==
    \/ StartupScan
    \/ \E c \in Scanners : Scanning(c)
    \/ RunWatcherLoop
    \/ RunDbActor
IndexNext == Outside \/ IndexWork

(* As long as a thread of the program can go on, one of them does; nothing  *)
(* obliges the outside world.                                               *)
IndexFairness == WF_IndexVars(IndexWork)

IndexSpec == IndexInit /\ [][IndexNext]_IndexVars /\ IndexFairness

-----------------------------------------------------------------------------
(* Properties *)

Versions == 0..stamp
IsVersions(m) == DOMAIN m \subseteq Files /\ \A f \in DOMAIN m : m[f] \in Versions
Ops == {"none", "upsert", "delete", "trees", "prune", "folder"}

(* The type of every variable; the channel of the watcher never holds more  *)
(* than EVENT_QUEUE_CAPACITY events.                                           *)
IndexTypeOK ==
    /\ file \in [Files -> Versions] /\ table \in [Files -> Versions]
    /\ dirs \subseteq Folders /\ excluded \subseteq Folders
    /\ mounted \in BOOLEAN /\ overflowed \in BOOLEAN
    /\ raced \in [read : SUBSET Files, judged : SUBSET Files]
    /\ Len(rawEvents) <= EventQueueCap
    /\ watching.step \in {"idle", "settle", "work"}
    /\ \A c \in Scanners :
         /\ pass[c].step \in {"off", "start", "walk", "list", "stat", "prune"}
         /\ pass[c].todo \subseteq Files /\ IsVersions(pass[c].batch)
    /\ \A c \in Clients : cmd[c].op \in Ops /\ IsVersions(cmd[c].items)
    /\ exec.op \in Ops /\ exec.client \in Clients \cup {"none"}

IndexQuiet ==
    /\ rawEvents = << >> /\ ~overflowed
    /\ watching = IdleWatch
    /\ \A c \in Scanners : pass[c] = NoPass
    /\ \A c \in Clients : Free(c)

(* storage.md promises "eventual convergence": when the scan has ended and  *)
(* the watcher has nothing left to do, a file of a mounted, not ignored     *)
(* folder has a row exactly when it exists, whatever happened while the     *)
(* program was closed or is running, and the row is of the file's version   *)
(* unless the file changed between the scan reading it and committing it    *)
(* (or came back while the very command that removes its row executed).     *)
Converged ==
    IndexQuiet /\ mounted =>
      \A f \in FilesIn(Folders \ excluded) \ raced.judged :
        /\ file[f] = 0 <=> table[f] = 0
        /\ f \notin raced.read => table[f] = file[f]

ToldOf(f) == \/ \E i \in DOMAIN rawEvents : rawEvents[i][2] \in {f, FolderOf(f)}
             \/ {f, FolderOf(f)} \cap DOMAIN watching.pending # {}
             \/ overflowed

(* An unmounted drive looks like deleted folders.  What the watcher learned *)
(* from its events never removes the row of a file that is still on the     *)
(* drive, unless it came back there while the command was executing and     *)
(* the watcher is told (DeletionEvidence::ParentMustSurvive).               *)
WatcherSpares ==
    [][\A f \in Files :
         /\ table[f] # 0 /\ table'[f] = 0
         /\ exec.op \in {"delete", "trees"}
         => file[f] = 0 \/ ToldOf(f)]_IndexVars

(* The threads never wait for each other for good, and dropped events are   *)
(* always recovered: once the outside world is still, all work ends.        *)
Settles == <>[]IndexQuiet

(* storage.md:259-262: the rows of a root that is not there are retained.   *)
OfflineKept ==
    [][\A f \in Files : ~mounted /\ file[f] # 0 /\ table[f] # 0
                          => table'[f] # 0]_IndexVars

(* albums-trash.md:175-177: ignoring an album removes its rows, and         *)
(* storage.md:221: an excluded folder is skipped by scans and the watcher.  *)
IgnoredStaysOut ==
    \A f \in FilesIn(excluded) :
      Free("user") => table[f] = 0
=============================================================================
