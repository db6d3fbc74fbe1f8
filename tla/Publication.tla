---------------------------- MODULE Publication ----------------------------
(***************************************************************************)
(* One photo on its way from the cloud into the library folder.            *)
(*                                                                         *)
(* A receive cycle repairs interrupted publications, indexes the paths the *)
(* received graph names, moves a foreign file out of the way, projects the *)
(* photo into a pending publication, downloads both resources and places   *)
(* the file: copy, journal, recheck, hard link, rename, admit, clean up    *)
(* (service/transfer.rs, service/receive/collisions.rs, store/runtime.rs). *)
(* The user, other programs and the indexer work on the same files, and    *)
(* the process may die between any two file or database operations.        *)
(*                                                                         *)
(* Files are names with contents; `link` holds the two names a hard link   *)
(* has made one file.  The stamps the code compares (length and mtime) are *)
(* taken to tell contents apart.                                           *)
(***************************************************************************)
EXTENDS Integers, FiniteSets

CONSTANTS
    MaxVersion,   \* bound on the versions the cloud sends
    MaxEdits,     \* bound on the contents the user writes
    MaxCrashes    \* bound on the number of process deaths

ASSUME PublicationBounds ==
    MaxVersion \in Nat /\ MaxEdits \in Nat /\ MaxCrashes \in Nat

VARIABLES
    fs,       \* content of every name
    link,     \* the two names that share one file, or {}
    media,    \* the media_items row of the photo: location, path, content indexed
    entry,    \* the sync_entries row: baseline version, dirty, capture still valid
    others,   \* paths of the media rows of files that are not this photo
    row,      \* the publication: state, version and path it is for
    rec,      \* its recovery details, NoDetails when there are none
    res,      \* state of the two resources of the projected version
    step,     \* where the receive cycle is; "down" when the process is dead
    pass,     \* publication attempts made in this transfer
    graph,    \* version and path being promoted
    seen,     \* what publish_pair read before it wrote its journal
    version,  \* newest cloud version promoted
    mine,     \* contents the user wrote and nobody has replaced or conceded
    known,    \* contents the index recorded before a journal named them and still has
    edits, crashes

files == <<fs, link>>
db == <<media, entry, others, row, rec, res, version>>
pubCycle == <<step, pass, graph, seen>>
history == <<mine, known, edits, crashes>>
pubVars == <<files, db, pubCycle, history>>

Path == {"A", "B"}
Suffixed == {"A_1", "A_2"}   \* the numeric suffixes tried for a preserved file
Name == Path \cup Suffixed \cup {"next", "backup"}

Absent == [by |-> "none", n |-> 0]
Cloud(v) == [by |-> "cloud", n |-> v]
Content == {Absent} \cup [by : {"cloud"}, n : 1..MaxVersion]
                  \cup [by : {"user", "race"}, n : 1..MaxEdits]

NoDetails == [kind |-> "none", target |-> "A", old |-> Absent, from |-> "A", fromOld |-> Absent, v |-> 0]
Details ==
    [kind : {"none", "pair", "collision"}, target : Name, old : Content,
     from : Name, fromOld : Content, v : 0..MaxVersion]

Role == {"original", "thumbnail"}
ResourceState == {"none", "pending", "staged", "verified", "failed"}

\* The process-wide file lease (publication_io): the publication from its recheck
\* on, the collision move and the recovery hold it for writing.
Moving == {"move", "moveLinked", "moveGone"}
Recovering == {"recover", "recoverAgain", "restored", "restoredAgain"}
LeaseHeld == step \in Moving \cup Recovering \cup {"locked", "linked", "placed", "admitted", "swept"}

Steps == {"down", "idle", "received", "observed", "transfer", "prepared", "journaled"}
      \cup Moving \cup Recovering \cup {"locked", "linked", "placed", "admitted", "swept"}

PubTypeOK ==
    /\ fs \in [Name -> Content] /\ link \in SUBSET Name
    /\ media \in [loc : {"none", "cloud", "local"}, path : Path, seen : Content]
    /\ entry \in [base : 0..MaxVersion, dirty : {"clean", "content", "delete"}, fresh : {"yes", "no"}]
    /\ others \in SUBSET (Path \cup Suffixed)
    /\ row \in [state : {"none", "pending", "publishing", "complete", "superseded"},
                v : 0..MaxVersion, path : Path]
    /\ rec \in Details /\ seen \in Details
    /\ res \in [Role -> ResourceState]
    /\ step \in Steps /\ pass \in 0..3
    /\ graph \in [v : 0..MaxVersion, path : Path]
    /\ version \in 0..MaxVersion
    /\ mine \subseteq Content /\ known \subseteq Content
    /\ edits \in 0..MaxEdits /\ crashes \in 0..MaxCrashes

PubInit ==
    /\ fs = [n \in Name |-> Absent] /\ link = {}
    /\ media = [loc |-> "none", path |-> "A", seen |-> Absent]
    /\ entry = [base |-> 0, dirty |-> "clean", fresh |-> "yes"]
    /\ others = {}
    /\ row = [state |-> "none", v |-> 0, path |-> "A"]
    /\ rec = NoDetails /\ seen = NoDetails
    /\ res = [r \in Role |-> "none"]
    /\ step = "idle" /\ pass = 0
    /\ graph = [v |-> 0, path |-> "A"]
    /\ version = 0
    /\ mine = {} /\ known = {}
    /\ edits = 0 /\ crashes = 0

-----------------------------------------------------------------------------
(* Files. *)

Exists(n) == fs[n] # Absent

Written(n, c) == [fs EXCEPT ![n] = c]
Unlinked(n) == IF n \in link THEN {} ELSE link

\* rename(from, to): a no-op when the two names are one file.
Renamed(from, to) ==
    IF {from, to} = link THEN fs ELSE [fs EXCEPT ![to] = fs[from], ![from] = Absent]
RenamedLink(from, to) == IF {from, to} = link THEN link ELSE Unlinked(to)

-----------------------------------------------------------------------------
(* The user, other programs, and the index. *)

\* Between the last comparison and the rename or removal that follows it, no
\* check can see a write of another program: its content is marked "race".
Window(n) ==
    \/ step \in {"locked", "linked"} /\ n = rec.target
    \/ step = "moveLinked" /\ n = rec.target

\* Another program writes a file, in place or by replacing the name.
UserWrites(n, how) ==
    LET new == [by |-> IF Window(n) THEN "race" ELSE "user", n |-> edits + 1]
        same == IF how = "inPlace" /\ n \in link THEN link ELSE {n}
    IN /\ edits < MaxEdits
       /\ n \in Path \/ Exists(n)
       /\ how = "inPlace" => Exists(n)
       /\ fs' = [m \in Name |-> IF m \in same THEN new ELSE fs[m]]
       /\ link' = IF how = "inPlace" THEN link ELSE Unlinked(n)
       /\ mine' = (mine \ {fs[n]}) \cup IF Window(n) THEN {} ELSE {new}
       /\ edits' = edits + 1
       /\ UNCHANGED <<db, pubCycle, known, crashes>>

UserDeletes(n) ==
    /\ Exists(n)
    /\ fs' = Written(n, Absent) /\ link' = Unlinked(n)
    /\ mine' = mine \ {fs[n]}
    /\ UNCHANGED <<db, pubCycle, known, edits, crashes>>

\* upsert_media_items_in on the file at n: a path an open publication is writing is
\* skipped; the photo's own path becomes a content change of the photo, a
\* cloud-only row included; any other path is another media row.
Skipped(n) == row.state = "publishing" /\ rec.kind = "pair" /\ rec.target = n

OwnPath(n) == media.loc # "none" /\ media.path = n

\* An edit that an open journal has already taken for the version it replaces comes
\* to the index too late: `known` holds what was recorded in time.
InTime(c) == {c} \ {rec.old, rec.fromOld}

Upsert(n) ==
    IF ~Exists(n) \/ Skipped(n) THEN UNCHANGED <<media, entry, others, known>>
    ELSE IF OwnPath(n)
    THEN IF media.loc = "local" /\ media.seen = fs[n]
         THEN UNCHANGED <<media, entry, others, known>>
         ELSE /\ media' = [media EXCEPT !.loc = "local", !.seen = fs[n]]
              /\ entry' = [entry EXCEPT !.dirty = IF @ = "delete" THEN @ ELSE "content",
                                        !.fresh = "no"]
              /\ known' = known \cup InTime(fs[n])
              /\ UNCHANGED others
    ELSE /\ others' = others \cup {n} /\ known' = known \cup InTime(fs[n])
         /\ UNCHANGED <<media, entry>>

Index(n) ==
    /\ step # "down" /\ Exists(n)
    /\ Upsert(n)
    /\ UNCHANGED <<files, row, rec, res, version, pubCycle, mine, edits, crashes>>

\* delete_live_media_by_paths on a name whose file is gone: the photo's row stays
\* as a cloud row that owes a deletion, any other row goes.
IndexGone(n) ==
    /\ step # "down" /\ ~Exists(n)
    /\ \/ /\ OwnPath(n) /\ media.loc = "local"
          /\ media' = [media EXCEPT !.loc = "cloud"]
          /\ entry' = [entry EXCEPT !.dirty = "delete", !.fresh = "no"]
          /\ UNCHANGED others
       \/ /\ n \in others
          /\ others' = others \ {n}
          /\ UNCHANGED <<media, entry>>
    /\ UNCHANGED <<files, row, rec, res, version, pubCycle, history>>

\* save.rs overwrite: the edited image replaces the file under the write lease and
\* the media row and its obligation are committed before the lease is dropped.
SaveEdit ==
    LET n == media.path
        new == [by |-> "user", n |-> edits + 1]
    IN /\ step # "down" /\ ~LeaseHeld
       /\ edits < MaxEdits
       /\ media.loc = "local" /\ Exists(n)
       /\ fs' = Written(n, new) /\ link' = Unlinked(n)
       /\ media' = [media EXCEPT !.seen = new]
       /\ entry' = [entry EXCEPT !.dirty = IF @ = "delete" THEN @ ELSE "content", !.fresh = "no"]
       /\ mine' = (mine \ {fs[n]}) \cup {new}
       /\ known' = known \cup {new}
       /\ edits' = edits + 1
       /\ UNCHANGED <<others, row, rec, res, version, pubCycle, crashes>>

-----------------------------------------------------------------------------
(* Repair of interrupted publications: recover_publications, first in      *)
(* receive_complete and again in transfer_selected.                        *)

Again == step \in {"recoverAgain", "restoredAgain"}
AfterRecovery == IF Again THEN "transfer" ELSE "received"
Restored == IF Again THEN "restoredAgain" ELSE "restored"

BeginCycle ==
    /\ step = "idle"
    /\ step' = "recover"
    /\ UNCHANGED <<files, db, pass, graph, seen, history>>

NothingToRecover ==
    /\ step \in {"recover", "recoverAgain"} /\ rec.kind = "none"
    /\ step' = AfterRecovery
    /\ UNCHANGED <<files, db, pass, graph, seen, history>>

\* matches_published: the file has the digest and size of the journalled version.
Published(n) == fs[n] = Cloud(rec.v)

\* Mutant: recovery does not recognise the version it placed itself.
EditedTarget_strict == Exists(rec.target) /\ fs[rec.target] # rec.old

\* A file that is neither the version being replaced nor the version being placed.
EditedTarget == Exists(rec.target) /\ fs[rec.target] # rec.old /\ ~Published(rec.target)

\* cleanup_renamed_source refuses a previous path that was edited.
SourceEdited ==
    rec.from # rec.target /\ Exists(rec.from) /\ fs[rec.from] # rec.fromOld

RecoveryRefused ==
    \/ /\ rec.kind = "collision" /\ Exists(rec.from)
       /\ ~ (fs[rec.from] = rec.old /\ fs[rec.target] \in {Absent, rec.old})
    \/ rec.kind = "pair" /\ row.state = "complete" /\ SourceEdited
    \/ rec.kind = "pair" /\ row.state = "publishing" /\ Exists("backup") /\ EditedTarget
    \/ /\ rec.kind = "pair" /\ row.state = "publishing" /\ ~Exists("backup")
       /\ rec.old = Absent /\ Exists(rec.target) /\ ~Published(rec.target)

\* The first refusal ends the whole cycle.
RecoveryFails ==
    /\ step \in {"recover", "recoverAgain"} /\ rec.kind # "none"
    /\ RecoveryRefused
    /\ step' = "idle"
    /\ UNCHANGED <<files, db, pass, graph, seen, history>>

Without(names) == [n \in Name |-> IF n \in names THEN Absent ELSE fs[n]]

\* recover_collision gives the file its name back, then drops the suffixed name.
RecoverCollision ==
    /\ rec.kind = "collision"
    /\ IF Exists(rec.from) /\ ~Exists(rec.target)
       THEN /\ fs' = Written(rec.target, fs[rec.from])
            /\ link' = {rec.target, rec.from}
            /\ UNCHANGED step
       ELSE /\ fs' = Written(rec.from, Absent) /\ link' = Unlinked(rec.from)
            /\ step' = Restored

\* Mutant: an interrupted publication keeps the version it has placed.
RecoverPair_keeps ==
    /\ rec.kind = "pair"
    /\ fs' = Without({"backup", "next"}) /\ link' = {}
    /\ step' = Restored

\* A complete publication is swept; an interrupted one gets its backup back, or
\* loses the version it placed where nothing was before.
RecoverPair ==
    /\ rec.kind = "pair"
    /\ \/ /\ row.state = "complete"
          /\ fs' = Without({"backup", "next"} \cup ({rec.from} \ {rec.target}))
          /\ link' = {}
       \/ /\ row.state = "publishing" /\ Exists("backup")
          /\ fs' = [Renamed("backup", rec.target) EXCEPT !["next"] = Absent]
          /\ link' = RenamedLink("backup", rec.target)
       \/ /\ row.state = "publishing" /\ ~Exists("backup")
          /\ fs' = Without({"next"} \cup IF rec.old = Absent THEN {rec.target} ELSE {})
          /\ UNCHANGED link
    /\ step' = Restored

RecoverFiles ==
    /\ step \in {"recover", "recoverAgain"} /\ rec.kind # "none"
    /\ ~RecoveryRefused
    /\ RecoverCollision \/ RecoverPair
    /\ UNCHANGED <<db, pass, graph, seen, history>>

\* Rollback, CleanPublication or AbortCollision: the details go with the files they
\* name settled.  A backup left under its own name is nobody's file from here on.
RecoverCommit ==
    /\ step \in {"restored", "restoredAgain"}
    /\ row' = IF rec.kind = "pair" /\ row.state = "publishing"
              THEN [row EXCEPT !.state = "pending"] ELSE row
    /\ rec' = NoDetails
    /\ fs' = Written("backup", Absent) /\ link' = {}
    /\ step' = AfterRecovery
    /\ UNCHANGED <<media, entry, others, res, version, pass, graph, seen, history>>

-----------------------------------------------------------------------------
(* Receiving: prepare_local_matches, preserve_receive_paths, promote.       *)

\* A new version with its path, or the open one again when a local change has made
\* its capture stale (pending_records).  The path it names is indexed first.
Observe(v, p) ==
    /\ step = "received"
    /\ \/ v = version + 1 /\ v <= MaxVersion
       \/ v = version /\ row.state = "pending" /\ entry.fresh = "no" /\ p = row.path
    /\ graph' = [v |-> v, path |-> p]
    /\ Upsert(p)
    /\ step' = "observed"
    /\ UNCHANGED <<files, row, rec, res, version, pass, seen, mine, edits, crashes>>

NothingReceived ==
    /\ step = "received"
    /\ row.state = "pending" => entry.fresh = "yes"
    /\ step' = "recoverAgain" /\ pass' = 0
    /\ UNCHANGED <<files, db, graph, seen, history>>

InTheWay == graph.path \in others /\ Exists(graph.path)

\* BeginCollision journals the move of the foreign file to a free suffixed name.
BeginCollision(k) ==
    /\ step = "observed" /\ InTheWay
    /\ ~Exists(k) /\ k \notin others
    /\ rec' = [NoDetails EXCEPT !.kind = "collision", !.target = graph.path, !.from = k,
                                !.old = fs[graph.path]]
    /\ step' = "move"
    /\ UNCHANGED <<files, media, entry, others, row, res, version, pass, graph, seen, history>>

\* The stamp is compared once more; a changed file or a taken name aborts, a missing
\* one ends the cycle with the journal open.
LinkCollision ==
    /\ step = "move"
    /\ IF fs[rec.target] = rec.old /\ ~Exists(rec.from)
       THEN /\ fs' = Written(rec.from, fs[rec.target])
            /\ link' = {rec.target, rec.from}
            /\ step' = "moveLinked"
            /\ UNCHANGED rec
       ELSE /\ rec' = IF Exists(rec.target) THEN NoDetails ELSE rec
            /\ step' = "idle"
            /\ UNCHANGED files
    /\ UNCHANGED <<media, entry, others, row, res, version, pass, graph, seen, history>>

RemoveCollisionSource ==
    /\ step = "moveLinked"
    /\ fs' = Written(rec.target, Absent) /\ link' = {}
    /\ step' = IF Exists(rec.target) THEN "moveGone" ELSE "recover"
    /\ UNCHANGED <<db, pass, graph, seen, history>>

\* Mutant: the move closes its journal and leaves the media row at the old name.
FinishCollision_unlisted ==
    /\ step = "moveGone"
    /\ rec' = NoDetails /\ step' = "observed"
    /\ UNCHANGED <<files, media, entry, others, row, res, version, pass, graph, seen, history>>

\* FinishCollision renames the media row in one transaction; it fails when the row
\* is gone or the new name has a row, and the repair then restores the old name.  A
\* file written and indexed at the old name since the move loses its row to the rename.
FinishCollision ==
    /\ step = "moveGone"
    /\ IF rec.target \in others /\ rec.from \notin others
       THEN /\ others' = (others \ {rec.target}) \cup {rec.from}
            /\ rec' = NoDetails
            /\ known' = known \ {fs[rec.target]}
            /\ step' = "observed"
       ELSE /\ step' = "recover"
            /\ UNCHANGED <<others, rec, known>>
    /\ UNCHANGED <<files, media, entry, row, res, version, pass, graph, seen, mine, edits, crashes>>

Owed(v) == [r \in Role |-> IF v = version /\ res[r] \in {"staged", "verified"} THEN res[r] ELSE "pending"]

\* project_publication, with the photo already bound or its path free: the version
\* becomes a pending publication that captures the local state.  A cloud-only row
\* has no local original to keep; its path follows the photo unless taken.
ProjectRemote ==
    /\ row' = [state |-> "pending", v |-> graph.v, path |-> graph.path]
    /\ res' = Owed(graph.v)
    /\ entry' = [entry EXCEPT !.dirty = "clean", !.fresh = "yes"]
    /\ media' = IF media.loc # "local" /\ graph.path \notin others
                THEN [media EXCEPT !.loc = "cloud", !.path = graph.path] ELSE media
    /\ mine' = IF entry.dirty = "content" /\ media.loc = "local" THEN mine \ {media.seen} ELSE mine

\* The local edit is newer, or a deletion is owed: the version is noted as the
\* baseline and nothing is downloaded.
ProjectLocal ==
    /\ row' = IF row.state = "pending" THEN [row EXCEPT !.state = "superseded"] ELSE row
    /\ res' = [r \in Role |-> "none"]
    /\ entry' = [entry EXCEPT !.base = graph.v]
    /\ UNCHANGED <<media, mine>>

\* Another file's row holds the path of a photo that is not bound yet.
ProjectConflict == UNCHANGED <<row, res, entry, media, mine>>

PromotePhoto ==
    /\ step = "observed" /\ ~InTheWay
    /\ \/ media.loc = "none" /\ graph.path \in others /\ ProjectConflict
       \/ /\ media.loc # "none" \/ graph.path \notin others
          /\ \/ entry.dirty = "delete" /\ ProjectLocal
             \/ entry.dirty = "content" /\ media.loc = "local" /\ ProjectLocal
             \/ entry.dirty # "delete" /\ ProjectRemote
    /\ version' = graph.v
    /\ step' = "recoverAgain" /\ pass' = 0
    /\ UNCHANGED <<files, others, rec, graph, seen, known, edits, crashes>>

-----------------------------------------------------------------------------
(* Transfer: fetch_one and publish_pair. *)

\* PublicationCommand::Outstanding: what is still to be fetched, thumbnails first.
Outstanding(r) ==
    /\ row.state = "pending"
    /\ res[r] = "pending"
    /\ r = "original" => res["thumbnail"] # "pending"

\* A download ends staged or, after any error, failed.
Download(r) ==
    /\ step = "transfer"
    /\ Outstanding(r)
    /\ \E s \in {"staged", "failed"} : res' = [res EXCEPT ![r] = s]
    /\ UNCHANGED <<files, media, entry, others, row, rec, version, pubCycle, history>>

\* PublicationCommand::Intents: an interrupted publication is still an intent.
Intent == row.state \in {"pending", "publishing"}

Ready ==
    /\ Intent
    /\ \A r \in Role : res[r] \in {"staged", "verified"}

\* Mutant: the capture is not compared with the entry.
CheckPublication_blind == TRUE

\* check_publication: the local version and dirty state the projection captured.
CheckPublication == entry.fresh = "yes"

\* A publication that fails is tried again by the closing pass of the transfer.
Failed == step' = "transfer" /\ pass' = pass + 1

\* The copy beside the target, and what publish_pair reads of the target and of the
\* photo's previous path.  A target this photo does not own ends the attempt.
Prepare ==
    LET target == row.path
        old == fs[target]
    IN /\ step = "transfer" /\ pass < 3 /\ Ready
       /\ IF old # Absent /\ (entry.base = 0 \/ media.path # target)
          THEN Failed /\ UNCHANGED <<files, seen>>
          ELSE /\ fs' = Written("next", Cloud(row.v)) /\ UNCHANGED link
               /\ seen' = [kind |-> "pair", target |-> target, old |-> old,
                           from |-> media.path, fromOld |-> fs[media.path], v |-> row.v]
               /\ step' = "prepared" /\ UNCHANGED pass
       /\ UNCHANGED <<db, graph, history>>

\* Command::Publishing: check_publication, then the journal, durably.  Every attempt
\* has a backup name of its own: the name an earlier attempt used is forgotten.
Publishing ==
    /\ step = "prepared"
    /\ IF CheckPublication
       THEN /\ row' = [row EXCEPT !.state = "publishing"]
            /\ rec' = seen
            /\ fs' = Written("backup", Absent) /\ link' = {}
            /\ step' = "journaled" /\ UNCHANGED pass
       ELSE Failed /\ UNCHANGED <<row, rec, files>>
    /\ UNCHANGED <<media, entry, others, res, version, graph, seen, history>>

\* Under the lease the target must still be what was observed.
Recheck ==
    /\ step = "journaled"
    /\ IF fs[rec.target] = rec.old THEN step' = "locked" /\ UNCHANGED pass ELSE Failed
    /\ UNCHANGED <<files, db, graph, seen, history>>

\* Mutant: the rename goes ahead without a backup.
LinkBackup_none ==
    /\ step = "locked"
    /\ step' = "linked"
    /\ UNCHANGED <<files, db, pass, graph, seen, history>>

\* A target that exists is kept under the backup name by a hard link.
LinkBackup ==
    /\ step = "locked"
    /\ \/ /\ rec.old # Absent /\ Exists(rec.target)
          /\ fs' = Written("backup", fs[rec.target]) /\ link' = {"backup", rec.target}
          /\ step' = "linked" /\ UNCHANGED pass
       \/ rec.old # Absent /\ ~Exists(rec.target) /\ Failed /\ UNCHANGED files
       \/ rec.old = Absent /\ step' = "linked" /\ UNCHANGED <<files, pass>>
    /\ UNCHANGED <<db, graph, seen, history>>

Place ==
    /\ step = "linked"
    /\ fs' = Renamed("next", rec.target) /\ link' = RenamedLink("next", rec.target)
    /\ step' = "placed"
    /\ UNCHANGED <<db, pass, graph, seen, history>>

\* Command::Admit: the media row, the baseline and both resources in one transaction.
Admit ==
    /\ step = "placed"
    /\ CheckPublication
    /\ rec.target \notin others
    /\ media' = [loc |-> "local", path |-> rec.target, seen |-> Cloud(rec.v)]
    /\ entry' = [entry EXCEPT !.base = rec.v]
    /\ row' = [row EXCEPT !.state = "complete"]
    /\ res' = [r \in Role |-> "verified"]
    /\ step' = "admitted"
    /\ UNCHANGED <<files, others, rec, version, pass, graph, seen, history>>

\* The transaction is refused or fails: the previous file is put back unless the
\* target was edited since.
AdmitFails ==
    /\ step = "placed"
    /\ IF ~Published(rec.target) THEN UNCHANGED files
       ELSE IF Exists("backup")
       THEN fs' = Renamed("backup", rec.target) /\ link' = RenamedLink("backup", rec.target)
       ELSE /\ fs' = IF rec.old = Absent THEN Written(rec.target, Absent) ELSE fs
            /\ link' = IF rec.old = Absent THEN Unlinked(rec.target) ELSE link
    /\ Failed
    /\ UNCHANGED <<db, graph, seen, history>>

\* The backup goes, then the file at the previous path unless it was edited.
Sweep ==
    /\ step = "admitted"
    /\ link' = Unlinked("backup")
    /\ IF SourceEdited
       THEN fs' = Written("backup", Absent) /\ Failed
       ELSE /\ fs' = Without({"backup"} \cup ({rec.from} \ {rec.target}))
            /\ step' = "swept" /\ UNCHANGED pass
    /\ UNCHANGED <<db, graph, seen, history>>

CleanPublication ==
    /\ step = "swept"
    /\ rec' = NoDetails
    /\ step' = "transfer"
    /\ UNCHANGED <<files, media, entry, others, row, res, version, pass, graph, seen, history>>

EndTransfer ==
    /\ step = "transfer"
    /\ \A r \in Role : ~Outstanding(r)
    /\ Ready => pass > 0
    /\ step' = "idle"
    /\ UNCHANGED <<files, db, pass, graph, seen, history>>

-----------------------------------------------------------------------------
Crash ==
    /\ step # "down" /\ crashes < MaxCrashes
    /\ step' = "down" /\ crashes' = crashes + 1
    /\ UNCHANGED <<files, db, pass, graph, seen, mine, known, edits>>

Restart ==
    /\ step = "down"
    /\ step' = "idle" /\ pass' = 0
    /\ seen' = NoDetails
    /\ UNCHANGED <<files, db, graph, history>>

Recovery == NothingToRecover \/ RecoveryFails \/ RecoverFiles \/ RecoverCommit
Receiving ==
    \/ \E v \in 1..MaxVersion, p \in Path : Observe(v, p)
    \/ NothingReceived \/ PromotePhoto
    \/ \E k \in Suffixed : BeginCollision(k)
    \/ LinkCollision \/ RemoveCollisionSource \/ FinishCollision
Transfer ==
    \/ \E r \in Role : Download(r)
    \/ Prepare \/ Publishing \/ Recheck \/ LinkBackup \/ Place
    \/ Admit \/ AdmitFails \/ Sweep \/ CleanPublication \/ EndTransfer
PubCycle == BeginCycle \/ Recovery \/ Receiving \/ Transfer

Environment ==
    \/ \E n \in Path \cup Suffixed : UserDeletes(n) \/ Index(n) \/ IndexGone(n)
    \/ \E n \in Path \cup Suffixed, how \in {"inPlace", "replace"} : UserWrites(n, how)
    \/ SaveEdit
    \/ Crash

PubNext == PubCycle \/ Restart \/ Environment

\* The worker runs cycles as long as the process lives, and is started again.
PubSpec == PubInit /\ [][PubNext]_pubVars /\ WF_pubVars(PubCycle) /\ WF_pubVars(Restart)

-----------------------------------------------------------------------------
(* Properties. *)

Held(c) == \E n \in Name : fs[n] = c

\* An edit the index has recorded is never lost to a publication, a collision move or
\* their repair, whatever the interleaving and wherever the process dies: until the
\* user replaces or deletes it, or a newer remote edit wins, its content is in a file.
RecordedEditKept == \A c \in mine \cap known : Held(c)

\* While nothing is being placed, no file of the library is a version newer than the
\* photo's baseline: no crash, refused admission or failed step leaves a version there
\* that the database has not admitted.  (An older one may stay: a version whose edit
\* won locally is the baseline and was never placed.)
RestIsAdmitted ==
    rec.kind = "none" =>
        \A n \in Path \cup Suffixed : fs[n].by = "cloud" => fs[n].n <= entry.base

\* The last complete version survives an interrupted publication: as long as the
\* journal is open, a target that already shows the new version has its backup.
LastVersionKept ==
    rec.kind = "pair" /\ row.state = "publishing" /\ rec.old # Absent /\ fs[rec.target] = Cloud(rec.v)
        => Exists("backup") \/ rec.old = Cloud(rec.v)

\* A file that had to make way for a received photo stays in the library: once the
\* move is over, the suffixed name it was given is the name its media row has.
PreservedIsListed ==
    rec.kind = "none" => \A n \in Suffixed : Exists(n) => n \in others

\* An interrupted publication is repaired: its journal closes, unless a user's file sits
\* where the repair would have to write.
UsersFile(n) == fs[n].by \in {"user", "race"}
Repaired == []<>(rec.kind # "none" => UsersFile(rec.target) \/ UsersFile(rec.from))

\* No edit of another program made before the last comparison is overwritten.  The
\* storage notes promise it for any user edit during a download; an edit the index
\* has not recorded is taken for the old version.
EditNotOverwritten == \A c \in mine : Held(c)

\* A resource whose download failed is downloaded again.  The usage notes promise it;
\* the failed state leaves the outstanding set and only a new projection resets it.
DownloadRetried == res["original"] = "failed" ~> res["original"] # "failed"
=============================================================================
