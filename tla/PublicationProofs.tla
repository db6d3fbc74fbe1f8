------------------------- MODULE PublicationProofs --------------------------
(***************************************************************************)
(* Proofs about Publication, for any number of versions, edits and crashes:*)
(* the types, the listing of preserved files, the backup of the last       *)
(* version, and the admission of what lies in the library.                 *)
(*                                                                         *)
(* Each property rests on the layer before it: Typed says which journal    *)
(* goes with which step of the cycle, Linked which two names may share a   *)
(* file, Backed what a backup may hold, Versions which version the rows    *)
(* speak of, and Rest which versions may lie where.                        *)
(***************************************************************************)
EXTENDS Publication, TLAPS

\* The names of the library folder; the other two belong to the publication itself.
Files == Path \cup Suffixed

\* The edits at stake: the user's, recorded in time, neither replaced nor conceded.
Recorded == mine \cap known

\* The steps of publish_pair between the journal and the admission.
Placing == {"journaled", "locked", "linked", "placed"}

\* The steps of a transfer.
Attempt == {"transfer", "prepared", "admitted", "swept"} \cup Placing

\* The parts of PubTypeOK, each with what its own induction needs.
FilesOK == fs \in [Name -> Content] /\ link \in SUBSET Name
RowsOK ==
    /\ media \in [loc : {"none", "cloud", "local"}, path : Path, seen : Content]
    /\ entry \in [base : 0..MaxVersion, dirty : {"clean", "content", "delete"}, fresh : {"yes", "no"}]
    /\ others \in SUBSET (Path \cup Suffixed)
    /\ row \in [state : {"none", "pending", "publishing", "complete", "superseded"},
                v : 0..MaxVersion, path : Path]
    /\ row.state \in {"pending", "publishing"} => row.v > 0
    /\ res \in [Role -> ResourceState]
    /\ version \in 0..MaxVersion
JournalOK ==  rec \in Details /\ seen \in Details
CycleOK ==
    /\ step \in Steps /\ pass \in 0..3
    /\ step \in {"prepared", "admitted", "swept"} \cup Placing => pass < 3
    /\ graph \in [v : 0..MaxVersion, path : Path]
    /\ step \in {"observed"} \cup Moving => graph.v > 0
HistoryOK ==
    /\ mine \subseteq Content /\ known \subseteq Content
    /\ edits \in 0..MaxEdits /\ crashes \in 0..MaxCrashes

\* Which recovery details and which publication state go with which step: the cycle
\* receives only with no details left, a move has a collision journal, a placement
\* the journal of an open publication for the row's version and path.
Journal ==
    /\ step \in {"received", "observed", "recoverAgain"} => rec.kind = "none"
    /\ step # "restoredAgain"
    /\ step \in Moving => rec.kind = "collision" /\ rec.target = graph.path
    /\ step \in Attempt => rec.kind # "collision"
    /\ step \in Placing => rec.kind = "pair" /\ row.state = "publishing"
    /\ step \in {"admitted", "swept"} => rec.kind = "pair" /\ row.state = "complete"
    /\ step = "prepared" =>
         /\ seen.kind = "pair" /\ row.state \in {"pending", "publishing"}
         /\ seen.target = row.path /\ seen.v = row.v /\ seen.from = media.path
    /\ row.state = "publishing" => rec.kind = "pair" /\ rec.target = row.path /\ rec.v = row.v
    /\ rec.kind = "pair" =>
         row.state \in {"publishing", "complete"} /\ rec.target \in Path /\ rec.from \in Path
    /\ rec.kind = "collision" =>
         rec.target \in Path /\ rec.from \in Suffixed /\ rec.old # Absent

\* The type invariant with the journal: the base of every layer below.
Typed == FilesOK /\ RowsOK /\ JournalOK /\ CycleOK /\ HistoryOK /\ Journal

\* The tuples behind UNCHANGED, and the provers of a leaf that names none: most leaves
\* are sets and equality, which Zenon finds at once.
USE ZenonT(30), SMTT(60) DEF files, db, pubCycle, history

\* The constants have their types.
LEMMA Constants ==
    /\ Absent \in Content
    /\ NoDetails \in Details
    /\ \A v \in 1..MaxVersion : Cloud(v) \in Content
    /\ \A e \in 1..MaxEdits, b \in {"user", "race"} : [by |-> b, n |-> e] \in Content
    /\ Path \subseteq Name /\ Suffixed \subseteq Name /\ "next" \in Name /\ "backup" \in Name
BY SMTT(60), PublicationBounds DEF Content, Details, NoDetails, Absent, Cloud, Name, Path, Suffixed

\* Only these steps touch files.
LEMMA FilesFrame ==
    ASSUME PubNext
    PROVE  \/ UNCHANGED files
           \/ RecoverFiles \/ RecoverCommit \/ LinkCollision \/ RemoveCollisionSource
           \/ Prepare \/ Publishing \/ LinkBackup \/ Place \/ AdmitFails \/ Sweep
           \/ SaveEdit
           \/ \E n \in Files : UserDeletes(n) \/ UserWrites(n, "inPlace") \/ UserWrites(n, "replace")
BY DEF PubNext, PubCycle, Recovery, Receiving, Transfer, Environment, Files,
   BeginCycle, NothingToRecover, RecoveryFails, Observe, NothingReceived, PromotePhoto,
   BeginCollision, FinishCollision, Download, Recheck, Admit, CleanPublication, EndTransfer,
   Index, IndexGone, Crash, Restart

\* Only these steps touch the journal, what publish_pair has read, or the
\* publication.
LEMMA JournalFrame ==
    ASSUME PubNext
    PROVE  \/ UNCHANGED <<rec, seen, row>>
           \/ RecoverCommit \/ LinkCollision \/ FinishCollision \/ PromotePhoto
           \/ Prepare \/ Publishing \/ Admit \/ CleanPublication \/ Restart
           \/ \E k \in Suffixed : BeginCollision(k)
BY DEF PubNext, PubCycle, Recovery, Receiving, Transfer, Environment, Files,
   BeginCycle, NothingToRecover, RecoveryFails, RecoverFiles, Observe, NothingReceived, 
   RemoveCollisionSource, Download, Recheck, LinkBackup, Place, AdmitFails, Sweep,
   EndTransfer, UserDeletes, UserWrites, SaveEdit, Index, IndexGone, Crash

\* Only these steps touch the rows of the database other than the journal.
LEMMA RowsFrame ==
    ASSUME PubNext
    PROVE  \/ UNCHANGED <<media, entry, others, row, res, version>>
           \/ RecoverCommit \/ FinishCollision \/ PromotePhoto \/ Publishing \/ Admit \/ SaveEdit
           \/ \E r \in Role : Download(r)
           \/ \E v \in 1..MaxVersion, p \in Path : Observe(v, p)
           \/ \E n \in Files : Index(n) \/ IndexGone(n)
BY DEF PubNext, PubCycle, Recovery, Receiving, Transfer, Environment, Files,
   BeginCycle, NothingToRecover, RecoveryFails, RecoverFiles, NothingReceived, BeginCollision,
   LinkCollision, RemoveCollisionSource, Prepare, Recheck, LinkBackup, Place, AdmitFails, Sweep,
   CleanPublication, EndTransfer, UserDeletes, UserWrites, Crash, Restart

\* A journal names files, a content and a version.
LEMMA JournalNames ==
    ASSUME JournalOK
    PROVE  /\ rec.target \in Name /\ rec.from \in Name /\ rec.old \in Content
           /\ rec.v \in 0..MaxVersion
BY DEF JournalOK, Details

\* Every step leaves names with contents.
LEMMA FilesStep ==
    ASSUME Typed, PubNext PROVE FilesOK'
<1> USE Constants, PublicationBounds DEF FilesOK
<1>1. FilesOK /\ rec.target \in Name /\ rec.from \in Name /\ row.v \in Nat /\ media.path \in Path
  BY SMTT(60), JournalNames DEF Typed, RowsOK
<1> HIDE DEF FilesOK
<1>2. CASE UNCHANGED files BY <1>1, <1>2 DEF FilesOK
<1> USE DEF FilesOK, Written, Without, Unlinked, Renamed, RenamedLink
<1>3. CASE RecoverFiles BY <1>1, <1>3 DEF RecoverFiles, RecoverCollision, RecoverPair
<1>4. CASE RecoverCommit BY <1>1, <1>4 DEF RecoverCommit
<1>5. CASE LinkCollision BY <1>1, <1>5 DEF LinkCollision
<1>6. CASE RemoveCollisionSource BY <1>1, <1>6 DEF RemoveCollisionSource
<1>7. CASE Prepare
  <2>1. row.v \in 1..MaxVersion BY SMTT(60), <1>7 DEF Prepare, Ready, Intent, Typed, RowsOK
  <2> QED BY <1>1, <1>7, <2>1 DEF Prepare
<1>8. CASE Publishing BY <1>1, <1>8 DEF Publishing
<1>9. CASE LinkBackup BY <1>1, <1>9 DEF LinkBackup
<1>10. CASE Place BY <1>1, <1>10 DEF Place
<1>11. CASE AdmitFails BY <1>1, <1>11 DEF AdmitFails
<1>12. CASE Sweep BY <1>1, <1>12 DEF Sweep
<1>13. CASE SaveEdit
  <2>1. edits + 1 \in 1..MaxEdits BY SMTT(60), <1>13 DEF SaveEdit, Typed, HistoryOK
  <2> QED BY <1>1, <1>13, <2>1 DEF SaveEdit
<1>14. ASSUME NEW n \in Files, UserDeletes(n) PROVE FilesOK' BY <1>1, <1>14 DEF UserDeletes, Files
<1>15. ASSUME NEW n \in Files, NEW how \in {"inPlace", "replace"}, UserWrites(n, how)
      PROVE FilesOK'
  <2>1. edits + 1 \in 1..MaxEdits BY SMTT(60), <1>15 DEF UserWrites, Typed, HistoryOK
  <2> QED BY <1>1, <1>15, <2>1 DEF UserWrites, Files
<1> QED
  BY <1>2, <1>3, <1>4, <1>5, <1>6, <1>7, <1>8, <1>9, <1>10, <1>11, <1>12, <1>13, <1>14, <1>15,
     FilesFrame

\* Every step leaves a well-typed journal.
LEMMA JournalOKStep ==
    ASSUME Typed, PubNext PROVE JournalOK'
<1> USE Constants DEF JournalOK
<1>1. JournalOK BY DEF Typed
<1>2. CASE UNCHANGED <<rec, seen, row>> BY <1>1, <1>2
<1>3. CASE RecoverCommit \/ LinkCollision \/ FinishCollision \/ PromotePhoto \/ Publishing \/ Admit
           \/ CleanPublication \/ Restart
  BY <1>1, <1>3
  DEF RecoverCommit, LinkCollision, FinishCollision, PromotePhoto, Publishing, Admit,
                    CleanPublication, Restart
<1>4. CASE Prepare
  <2>1. /\ fs \in [Name -> Content] /\ media.path \in Path /\ row.path \in Path
        /\ row.v \in 0..MaxVersion
    BY DEF Typed, FilesOK, RowsOK
  <2> QED BY SMTT(60), <1>1, <1>4, <2>1 DEF Prepare, Details
<1>5. ASSUME NEW k \in Suffixed, BeginCollision(k) PROVE JournalOK'
  <2>1. fs \in [Name -> Content] /\ graph.path \in Path
    BY DEF Typed, FilesOK, CycleOK
  <2> QED BY <1>1, <1>5, <2>1 DEF BeginCollision, NoDetails, Details
<1> QED BY <1>2, <1>3, <1>4, <1>5, JournalFrame

\* Every step leaves well-typed rows.
LEMMA RowsStep ==
    ASSUME Typed, PubNext PROVE RowsOK'
<1> USE PublicationBounds DEF RowsOK
<1>1. RowsOK BY DEF Typed
<1>2. CASE UNCHANGED <<media, entry, others, row, res, version>> BY <1>1, <1>2
<1>3. CASE RecoverCommit BY <1>1, <1>3 DEF RecoverCommit
<1>4. CASE FinishCollision
  <2>1. rec.from \in Suffixed BY <1>4 DEF FinishCollision, Typed, Journal, Moving
  <2> QED BY <1>1, <1>4, <2>1 DEF FinishCollision
<1>5. CASE PromotePhoto
  <2>1. graph.v \in 1..MaxVersion /\ graph.path \in Path BY SMTT(60), <1>5 DEF PromotePhoto, Typed, CycleOK
  <2>2. CASE ProjectConflict BY SMTT(60), <1>1, <1>5, <2>1, <2>2 DEF PromotePhoto, ProjectConflict
  <2>3. CASE ProjectLocal BY SMTT(60), <1>1, <1>5, <2>1, <2>3 DEF PromotePhoto, ProjectLocal, ResourceState
  <2>4. CASE ProjectRemote
    <3>1. res' \in [Role -> ResourceState] BY <1>1, <2>4 DEF ProjectRemote, Owed, ResourceState
    <3>2. media' \in [loc : {"none", "cloud", "local"}, path : Path, seen : Content]
      BY <1>1, <2>1, <2>4 DEF ProjectRemote
    <3>3. entry' \in [base : 0..MaxVersion, dirty : {"clean", "content", "delete"},
                      fresh : {"yes", "no"}]
      BY <1>1, <2>4 DEF ProjectRemote
    <3>4. /\ row' \in [state : {"none", "pending", "publishing", "complete", "superseded"},
                      v : 0..MaxVersion, path : Path]
          /\ row'.v > 0
      BY SMTT(60), <2>1, <2>4 DEF ProjectRemote
    <3> QED BY SMTT(60), <1>1, <1>5, <2>1, <3>1, <3>2, <3>3, <3>4 DEF PromotePhoto
  <2> QED BY <1>5, <2>2, <2>3, <2>4 DEF PromotePhoto
<1>6. CASE Publishing BY <1>1, <1>6 DEF Publishing, Typed, Journal
<1>7. CASE Admit
  <2>1. rec.target \in Path /\ rec.v \in 1..MaxVersion
    BY SMTT(60), <1>1, <1>7, JournalNames DEF Admit, Typed, Journal, Placing
  <2> QED BY SMTT(60), <1>1, <1>7, <2>1, Constants DEF Admit, ResourceState
<1>8. CASE SaveEdit
  <2>1. edits + 1 \in 1..MaxEdits BY SMTT(60), <1>8 DEF SaveEdit, Typed, HistoryOK
  <2> QED BY <1>1, <1>8, <2>1, Constants DEF SaveEdit
<1>9. ASSUME NEW r \in Role, Download(r) PROVE RowsOK' BY SMTT(60), <1>1, <1>9 DEF Download, ResourceState
<1>10. ASSUME NEW n \in Files, Upsert(n), UNCHANGED <<row, res, version>> PROVE RowsOK'
  <2>1. fs[n] \in Content BY Constants DEF Typed, FilesOK, Files
  <2> QED BY <1>1, <1>10, <2>1 DEF Upsert, Files
<1>11. ASSUME NEW n \in Files, IndexGone(n) PROVE RowsOK' BY <1>1, <1>11 DEF IndexGone
<1> QED
  BY <1>2, <1>3, <1>4, <1>5, <1>6, <1>7, <1>8, <1>9, <1>10, <1>11, RowsFrame
  DEF Observe, Index, Files

\* Every step leaves the cycle at one of its steps, with at most three attempts.
LEMMA CycleStep ==
    ASSUME Typed, PubNext PROVE CycleOK'
<1> USE PublicationBounds DEF Steps, Moving, Recovering, Placing
<1>1. CycleOK /\ step # "restoredAgain" BY DEF Typed, Journal
<1>2. CASE UNCHANGED pubCycle BY <1>1, <1>2 DEF CycleOK
<1>3. CASE BeginCycle \/ NothingToRecover \/ RecoveryFails \/ RecoverFiles \/ RecoverCommit
  BY <1>1, <1>3
  DEF CycleOK, BeginCycle, NothingToRecover, RecoveryFails, RecoverFiles, RecoverCollision,
     RecoverPair, RecoverCommit, AfterRecovery, Restored, Again
<1>4. ASSUME NEW v \in 1..MaxVersion, NEW p \in Path, Observe(v, p) PROVE CycleOK'
  BY SMTT(60), <1>1, <1>4 DEF CycleOK, Observe
<1>5. ASSUME NEW k \in Suffixed, BeginCollision(k) PROVE CycleOK'
  BY <1>1, <1>5 DEF CycleOK, BeginCollision
<1>6. CASE NothingReceived \/ PromotePhoto \/ LinkCollision \/ RemoveCollisionSource \/ FinishCollision
  BY SMTT(60), <1>1, <1>6
  DEF CycleOK, NothingReceived, PromotePhoto, LinkCollision, RemoveCollisionSource,
      FinishCollision
<1>7. CASE Prepare \/ Publishing \/ Recheck \/ LinkBackup \/ Place
  BY SMTT(60), <1>1, <1>7 DEF CycleOK, Prepare, Publishing, Recheck, LinkBackup, Place, Failed
<1>8. CASE Admit \/ AdmitFails \/ Sweep \/ CleanPublication \/ EndTransfer
  BY SMTT(60), <1>1, <1>8 DEF CycleOK, Admit, AdmitFails, Sweep, CleanPublication, EndTransfer, Failed
<1>9. CASE Crash \/ Restart BY SMTT(60), <1>1, <1>9 DEF CycleOK, Crash, Restart
<1> HIDE DEF Steps, Moving, Recovering, Placing
<1>10. CASE \/ \E r \in Role : Download(r)
            \/ \E n \in Path \cup Suffixed : UserDeletes(n) \/ Index(n) \/ IndexGone(n)
            \/ \E n \in Path \cup Suffixed, how \in {"inPlace", "replace"} : UserWrites(n, how)
            \/ SaveEdit
  <2>1. UNCHANGED pubCycle
    BY <1>10 DEF Download, UserDeletes, Index, IndexGone, UserWrites, SaveEdit
  <2> QED BY <1>2, <2>1
<1> QED
  BY <1>3, <1>4, <1>5, <1>6, <1>7, <1>8, <1>9, <1>10
  DEF PubNext, PubCycle, Recovery, Receiving, Transfer, Environment

\* Only these steps touch the ghosts and counters.
LEMMA HistoryFrame ==
    ASSUME PubNext
    PROVE  \/ UNCHANGED history
           \/ FinishCollision \/ PromotePhoto \/ SaveEdit \/ Crash
           \/ \E v \in 1..MaxVersion, p \in Path : Observe(v, p)
           \/ \E n \in Files : \/ UserDeletes(n) \/ Index(n)
                               \/ UserWrites(n, "inPlace") \/ UserWrites(n, "replace")
BY DEF PubNext, PubCycle, Recovery, Receiving, Transfer, Environment, Files,
   BeginCycle, NothingToRecover, RecoveryFails, RecoverFiles, RecoverCommit, NothingReceived,
   BeginCollision, LinkCollision, RemoveCollisionSource, Download, Prepare, Publishing, Recheck,
   LinkBackup, Place, Admit, AdmitFails, Sweep, CleanPublication, EndTransfer, IndexGone, Restart

\* Every step keeps the ghosts and counters typed.
LEMMA HistoryStep ==
    ASSUME Typed, PubNext PROVE HistoryOK'
<1> USE PublicationBounds DEF HistoryOK
<1>1. HistoryOK BY DEF Typed
<1>2. CASE UNCHANGED history BY <1>1, <1>2
<1>3. CASE FinishCollision \/ Crash BY SMTT(60), <1>1, <1>3 DEF FinishCollision, Crash
<1>4. CASE PromotePhoto
  BY <1>1, <1>4 DEF PromotePhoto, ProjectConflict, ProjectLocal, ProjectRemote
<1>5. CASE SaveEdit
  <2>1. edits + 1 \in 1..MaxEdits BY SMTT(60), <1>1, <1>5 DEF SaveEdit
  <2>2. [by |-> "user", n |-> edits + 1] \in Content BY <2>1, Constants
  <2> QED BY SMTT(60), <1>1, <1>5, <2>1, <2>2 DEF SaveEdit
<1>6. ASSUME NEW n \in Files, Upsert(n), UNCHANGED <<mine, edits, crashes>> PROVE HistoryOK'
  <2>1. fs[n] \in Content BY Constants DEF Typed, FilesOK, Files
  <2> QED BY <1>1, <1>6, <2>1 DEF Upsert, InTime
<1>7. ASSUME NEW n \in Files, UserDeletes(n) PROVE HistoryOK' BY <1>1, <1>7 DEF UserDeletes
<1>8. ASSUME NEW n \in Files, NEW how \in {"inPlace", "replace"}, UserWrites(n, how)
      PROVE HistoryOK'
  <2>1. edits + 1 \in 1..MaxEdits BY SMTT(60), <1>1, <1>8 DEF UserWrites
  <2>2. \A b \in {"user", "race"} : [by |-> b, n |-> edits + 1] \in Content BY <2>1, Constants
  <2> QED BY SMTT(60), <1>1, <1>8, <2>1, <2>2 DEF UserWrites
<1> QED BY <1>2, <1>3, <1>4, <1>5, <1>6, <1>7, <1>8, HistoryFrame DEF Observe, Index, Files

\* Every step keeps journal, publication state and position of the cycle together.
LEMMA JournalStep ==
    ASSUME Typed, PubNext PROVE Journal'
<1> USE DEF Moving, Recovering, Placing, Attempt
<1>1. Journal /\ RowsOK /\ graph.path \in Path BY DEF Typed, CycleOK
<1> USE DEF Journal
<1>2. CASE BeginCycle \/ NothingToRecover \/ RecoveryFails \/ RecoverFiles
  BY <1>1, <1>2 DEF BeginCycle, NothingToRecover, RecoveryFails, RecoverFiles, RecoverCollision,
     RecoverPair, AfterRecovery, Restored, Again
<1>3. CASE RecoverCommit BY <1>1, <1>3 DEF RecoverCommit, AfterRecovery, Again, NoDetails, RowsOK
<1>4. ASSUME NEW v \in 1..MaxVersion, NEW p \in Path, Observe(v, p) PROVE Journal'
  BY <1>1, <1>4 DEF Observe
<1>5. ASSUME NEW k \in Suffixed, BeginCollision(k) PROVE Journal'
  BY <1>1, <1>5 DEF BeginCollision, NoDetails, InTheWay, Exists
<1>6. CASE NothingReceived BY <1>1, <1>6 DEF NothingReceived
<1>7. CASE PromotePhoto
  BY SMTT(60), <1>1, <1>7 DEF PromotePhoto, ProjectConflict, ProjectLocal, ProjectRemote, RowsOK
<1>8. CASE LinkCollision \/ RemoveCollisionSource \/ FinishCollision
  BY SMTT(60), <1>1, <1>8 DEF LinkCollision, RemoveCollisionSource, FinishCollision, NoDetails
<1>9. ASSUME NEW r \in Role, Download(r) PROVE Journal' BY <1>1, <1>9 DEF Download
<1>10. CASE Prepare BY SMTT(60), <1>1, <1>10 DEF Prepare, Ready, Intent, Failed
<1>11. CASE Publishing
  <2>1. row.path \in Path /\ media.path \in Path BY <1>1 DEF RowsOK
  <2> QED BY <1>1, <1>11, <2>1 DEF Publishing, Failed, RowsOK
<1>12. CASE Recheck \/ LinkBackup \/ Place
  BY <1>1, <1>12 DEF Recheck, LinkBackup, Place, Failed
<1>13. CASE Admit BY <1>1, <1>13 DEF Admit, RowsOK
<1>14. CASE AdmitFails \/ Sweep \/ CleanPublication \/ EndTransfer
  BY SMTT(60), <1>1, <1>14 DEF AdmitFails, Sweep, CleanPublication, EndTransfer, Failed, NoDetails
<1>15. CASE Crash \/ Restart BY <1>1, <1>15 DEF Crash, Restart
<1>16. ASSUME NEW n \in Files, Index(n) \/ IndexGone(n) PROVE Journal'
  <2>1. media'.path = media.path BY <1>1, <1>16 DEF Index, IndexGone, Upsert, RowsOK
  <2> QED BY <1>1, <1>16, <2>1 DEF Index, IndexGone
<1>17. CASE SaveEdit
  <2>1. media'.path = media.path BY <1>1, <1>17 DEF SaveEdit, RowsOK
  <2> QED BY <1>1, <1>17, <2>1 DEF SaveEdit
<1>18. ASSUME NEW n \in Files, UserDeletes(n) PROVE Journal' BY <1>1, <1>18 DEF UserDeletes
<1>19. ASSUME NEW n \in Files, NEW how \in {"inPlace", "replace"}, UserWrites(n, how)
      PROVE Journal'
  BY <1>1, <1>19 DEF UserWrites
<1> HIDE DEF Journal, Moving, Recovering, Placing, Attempt
<1> QED
  BY <1>2, <1>3, <1>4, <1>5, <1>6, <1>7, <1>8, <1>9, <1>10, <1>11, <1>12, <1>13, <1>14, <1>15,
     <1>16, <1>17, <1>18, <1>19
  DEF PubNext, PubCycle, Recovery, Receiving, Transfer, Environment, Files

\* The typed journal holds in every behaviour.
LEMMA TypedInductive == PubSpec => []Typed
<1>1. PubInit => Typed
  BY SMTT(60), Constants, PublicationBounds
  DEF PubInit, Typed, FilesOK, RowsOK, JournalOK, CycleOK, HistoryOK, Journal, Steps, Moving,
      Recovering,
      Placing, Attempt, NoDetails, Path, ResourceState
<1>2. Typed /\ UNCHANGED pubVars => Typed'
  BY SMTT(60) DEF Typed, FilesOK, RowsOK, JournalOK, CycleOK, HistoryOK, Journal, pubVars
<1>3. Typed /\ [PubNext]_pubVars => Typed'
  BY <1>2, FilesStep, RowsStep, JournalOKStep, CycleStep, HistoryStep, JournalStep DEF Typed
<1> QED BY <1>1, <1>3, PTL DEF PubSpec

\* The state of a publication has its type in every behaviour: rows, journal, files
\* and the cycle of transfer.rs and collisions.rs.
THEOREM PubTypeCorrect == PubSpec => []PubTypeOK
<1>1. Typed => PubTypeOK
  BY DEF Typed, FilesOK, RowsOK, JournalOK, CycleOK, HistoryOK, PubTypeOK
<1> QED BY <1>1, TypedInductive, PTL

-----------------------------------------------------------------------------

\* Two names share a file only for the journal that linked them: the backup with the
\* target of a publication, or the old with the new name of a preserved file.
Linked ==
    /\ \/ link = {}
       \/ /\ rec.kind = "pair" /\ link = {"backup", rec.target}
          /\ Exists("backup") /\ fs["backup"] = fs[rec.target]
       \/ /\ rec.kind = "collision" /\ link = {rec.target, rec.from}
          /\ Exists(rec.from) /\ fs[rec.from] = fs[rec.target]
    /\ step \in {"move", "moveGone", "swept"} => link = {}

\* A suffixed name holds a file only while its move is journalled or after its row
\* has the name (collisions.rs begin, link, finish and recover_collision).
Preserved ==
    /\ \A n \in Suffixed : Exists(n) => n \in others \/ (rec.kind = "collision" /\ rec.from = n)
    /\ step = "move" => ~Exists(rec.from)
    /\ step = "restored" /\ rec.kind = "collision" => ~Exists(rec.from)

\* The names of photos, of preserved files and of the publication differ.
LEMMA Apart ==
    /\ \A p \in Path : p \notin Suffixed \cup {"next", "backup"}
    /\ \A k \in Suffixed : k \notin {"next", "backup"}
BY DEF Path, Suffixed

\* Only these steps touch files or the journal, or enter a step where a link must be
\* gone.
LEMMA StepFrame ==
    ASSUME PubNext
    PROVE  \/ /\ UNCHANGED <<files, rec>>
              /\ step' = step \/ step' \notin {"move", "moveGone", "swept"}
           \/ RecoverFiles \/ RecoverCommit \/ LinkCollision \/ RemoveCollisionSource
           \/ FinishCollision \/ Prepare \/ Publishing \/ LinkBackup \/ Place \/ AdmitFails \/ Sweep
           \/ CleanPublication \/ SaveEdit
           \/ \E k \in Suffixed : BeginCollision(k)
           \/ \E n \in Files : UserDeletes(n) \/ UserWrites(n, "inPlace") \/ UserWrites(n, "replace")
BY DEF PubNext, PubCycle, Recovery, Receiving, Transfer, Environment, Files,
   BeginCycle, NothingToRecover, RecoveryFails, Observe, NothingReceived, PromotePhoto,
   AfterRecovery,
   Download, Recheck, Admit, EndTransfer, Index, IndexGone, Crash, Restart, Failed

\* Every step keeps links and journal together.
LEMMA LinkedStep ==
    ASSUME Typed, Linked, PubNext PROVE Linked'
<1>1. FilesOK /\ Journal /\ rec.target \in Name /\ rec.from \in Name BY JournalNames DEF Typed
<1>2. ASSUME UNCHANGED <<files, rec>>, step' = step \/ step' \notin {"move", "moveGone", "swept"}
      PROVE Linked'
  BY <1>2 DEF Linked, Exists
<1> USE Constants, Apart
DEF FilesOK, Moving, Attempt, Placing, Exists, Written, Without, Unlinked, Renamed, RenamedLink
<1>3. CASE RecoverFiles
  <2>1. CASE RecoverCollision
    BY <1>1, <1>3, <2>1 DEF Linked, Journal, RecoverFiles, RecoverCollision, Restored
  <2>2. CASE RecoverPair
    BY <1>1, <1>3, <2>2 DEF Linked, Journal, RecoverFiles, RecoverPair, Restored
  <2> QED BY <1>3, <2>1, <2>2 DEF RecoverFiles
<1>4. CASE RecoverCommit BY <1>4 DEF Linked, RecoverCommit
<1>5. CASE LinkCollision BY <1>1, <1>5 DEF Linked, Journal, LinkCollision
<1>6. CASE RemoveCollisionSource BY <1>6 DEF Linked, RemoveCollisionSource
<1>7. CASE FinishCollision BY <1>7 DEF Linked, FinishCollision
<1>8. CASE Prepare BY <1>1, <1>8 DEF Linked, Journal, Prepare, Failed
<1>9. CASE Publishing BY <1>9 DEF Linked, Publishing, Failed
<1>10. CASE LinkBackup BY <1>1, <1>10 DEF Linked, Journal, LinkBackup, Failed
<1>11. CASE Place BY <1>1, <1>11 DEF Linked, Journal, Place
<1>12. CASE AdmitFails BY <1>1, <1>12 DEF Linked, Journal, AdmitFails, Failed
<1>13. CASE Sweep BY <1>1, <1>13 DEF Linked, Journal, Sweep, Failed
<1>14. CASE CleanPublication BY <1>14 DEF Linked, CleanPublication
<1>15. CASE SaveEdit BY <1>1, <1>15 DEF Linked, SaveEdit
<1>16. ASSUME NEW k \in Suffixed, BeginCollision(k) PROVE Linked'
  BY <1>1, <1>16 DEF Linked, Journal, BeginCollision
<1>17. ASSUME NEW n \in Files, UserDeletes(n) PROVE Linked' BY <1>1, <1>17 DEF Linked, UserDeletes
<1>18. ASSUME NEW n \in Files, NEW how \in {"inPlace", "replace"}, UserWrites(n, how)
      PROVE Linked'
  BY <1>1, <1>18 DEF Linked, UserWrites, Absent
<1> HIDE
DEF FilesOK, Moving, Attempt, Placing, Exists, Written, Without, Unlinked, Renamed, RenamedLink
<1> QED
  BY <1>2, <1>3, <1>4, <1>5, <1>6, <1>7, <1>8, <1>9, <1>10, <1>11, <1>12, <1>13, <1>14, <1>15,
     <1>16, <1>17, <1>18, StepFrame

\* Every step keeps the suffixed names journalled or listed.
LEMMA PreservedStep ==
    ASSUME Typed, Linked, Preserved, PubNext PROVE Preserved'
<1>1. FilesOK /\ Journal /\ rec.target \in Name /\ rec.from \in Name /\ media.path \in Path
  BY JournalNames DEF Typed, RowsOK
<1>2. ASSUME UNCHANGED <<fs, rec>>, others \subseteq others',
             step' = step \/ step' \notin {"move", "restored"}
      PROVE Preserved'
  BY <1>2 DEF Preserved, Exists
<1> USE Constants, Apart DEF FilesOK, Moving, Attempt, Placing, Exists, Written, Without, Renamed
<1>3. CASE RecoverFiles
  <2>1. CASE RecoverCollision
    BY <1>1, <1>3, <2>1 DEF Preserved, Journal, RecoverFiles, RecoverCollision, Restored
  <2>2. CASE RecoverPair
    BY <1>1, <1>3, <2>2 DEF Preserved, Journal, RecoverFiles, RecoverPair, Restored
  <2> QED BY <1>3, <2>1, <2>2 DEF RecoverFiles
<1>4. CASE RecoverCommit
  <2>1. step = "restored" BY <1>1, <1>4 DEF Journal, RecoverCommit
  <2>2. step' \notin {"move", "restored"} BY <1>4 DEF RecoverCommit, AfterRecovery
  <2> QED BY <1>1, <1>4, <2>1, <2>2 DEF Preserved, RecoverCommit, NoDetails
<1>5. CASE LinkCollision BY <1>1, <1>5 DEF Preserved, Journal, LinkCollision, NoDetails
<1>6. CASE RemoveCollisionSource BY <1>1, <1>6 DEF Preserved, Journal, RemoveCollisionSource
<1>7. CASE FinishCollision BY <1>1, <1>7 DEF Preserved, Journal, FinishCollision, NoDetails
<1>8. CASE Prepare BY <1>1, <1>8 DEF Preserved, Prepare, Failed
<1>9. CASE Publishing BY <1>1, <1>9 DEF Preserved, Journal, Publishing, Failed
<1>10. CASE LinkBackup BY <1>1, <1>10 DEF Preserved, Journal, LinkBackup, Failed
<1>11. CASE Place BY <1>1, <1>11 DEF Preserved, Journal, Place
<1>12. CASE AdmitFails BY <1>1, <1>12 DEF Preserved, Journal, AdmitFails, Failed
<1>13. CASE Sweep BY <1>1, <1>13 DEF Preserved, Journal, Sweep, Failed
<1>14. CASE CleanPublication BY <1>1, <1>14 DEF Preserved, Journal, CleanPublication, NoDetails
<1>15. CASE SaveEdit BY <1>1, <1>15 DEF Preserved, SaveEdit, LeaseHeld, Recovering
<1>16. ASSUME NEW k \in Suffixed, BeginCollision(k) PROVE Preserved'
  BY <1>1, <1>16 DEF Preserved, Journal, BeginCollision, NoDetails
<1>17. ASSUME NEW n \in Files, UserDeletes(n) PROVE Preserved'
  BY <1>1, <1>17 DEF Preserved, UserDeletes
<1>18. ASSUME NEW n \in Files, NEW how \in {"inPlace", "replace"}, UserWrites(n, how)
      PROVE Preserved'
  <2>1. \A k \in Suffixed : Exists(k)' => Exists(k)
    <3>1. \A k \in link : Exists(k) BY <1>1 DEF Linked
    <3>2. \A k \in Suffixed : fs'[k] = fs[k] \/ k = n \/ k \in link BY <1>18 DEF UserWrites
    <3>3. n \in Path \/ Exists(n) BY <1>18 DEF UserWrites
    <3> QED BY <3>1, <3>2, <3>3
  <2>2. UNCHANGED <<rec, step, others>> BY <1>18 DEF UserWrites
  <2>3. rec.kind = "collision" => rec.from \in Suffixed BY <1>1 DEF Journal
  <2>4. step = "move" => rec.kind = "collision" BY <1>1 DEF Journal
  <2> HIDE DEF Exists
  <2> QED BY <2>1, <2>2, <2>3, <2>4 DEF Preserved
<1>19. ASSUME NEW n \in Files, IndexGone(n) PROVE Preserved'
  BY <1>1, <1>19 DEF Preserved, IndexGone
<1> HIDE DEF FilesOK, Moving, Attempt, Placing, Exists, Written, Without, Renamed
<1>20. CASE \/ BeginCycle \/ NothingToRecover \/ RecoveryFails \/ NothingReceived \/ PromotePhoto
            \/ Recheck \/ Admit \/ EndTransfer \/ Crash \/ Restart
            \/ \E r \in Role : Download(r)
            \/ \E v \in 1..MaxVersion, p \in Path : Observe(v, p)
            \/ \E n \in Files : Index(n)
  <2>1. /\ UNCHANGED <<fs, rec>> /\ others \subseteq others'
        /\ (step' = step \/ step' \notin {"move", "restored"})
    BY <1>20
    DEF BeginCycle, NothingToRecover, RecoveryFails, Observe, NothingReceived, PromotePhoto,
        AfterRecovery,
      Download, Recheck, Admit, EndTransfer, Index, Crash, Restart, Failed, Upsert
  <2> QED BY <1>2, <2>1
<1> QED
  BY <1>3, <1>4, <1>5, <1>6, <1>7, <1>8, <1>9, <1>10, <1>11, <1>12, <1>13, <1>14, <1>15, <1>16,
     <1>17, <1>18, <1>19, <1>20
  DEF PubNext, PubCycle, Recovery, Receiving, Transfer, Environment, Files

\* Links and preserved files are accounted for in every behaviour.
LEMMA PreservedInductive == PubSpec => [](Typed /\ Linked /\ Preserved)
<1>1. PubInit => Linked /\ Preserved
  BY Constants DEF PubInit, Linked, Preserved, Exists, NoDetails
<1>2. Linked /\ Preserved /\ UNCHANGED pubVars => Linked' /\ Preserved'
  BY DEF Linked, Preserved, Exists, pubVars
<1>3. Typed /\ Linked /\ Preserved /\ [PubNext]_pubVars => Linked' /\ Preserved'
  BY <1>2, LinkedStep, PreservedStep
<1> QED BY <1>1, <1>3, TypedInductive, PTL DEF PubSpec

\* A file that made way for a received photo is never left without a row once its
\* move is over, whatever crash, abort or repair ended the move (collisions.rs,
\* BeginCollision to FinishCollision and recover_collision).
THEOREM PreservedAlwaysListed == PubSpec => []PreservedIsListed
<1>1. Preserved => PreservedIsListed BY DEF Preserved, PreservedIsListed
<1> QED BY <1>1, PreservedInductive, PTL

-----------------------------------------------------------------------------

\* A content that is the replaced one, none, or not a cloud version.
NotNew(c, old) == c \in {old, Absent} \/ c.by # "cloud"

\* LastVersionKept, with what it needs of the steps before the rename: what
\* publish_pair has compared is not yet the new version, the backup exists once
\* linked, and it holds no version but the replaced one.
Backed ==
    /\ LastVersionKept
    /\ step = "prepared" => NotNew(fs[seen.target], seen.old)
    /\ step = "locked" => NotNew(fs[rec.target], rec.old)
    /\ step = "linked" /\ rec.old # Absent => Exists("backup")
    /\ rec.kind = "pair" /\ row.state = "publishing" /\ Exists("backup") =>
         NotNew(fs["backup"], rec.old)

\* Every step keeps the last version backed.
LEMMA BackedStep ==
    ASSUME Typed, Linked, Backed, PubNext PROVE Backed'
<1>1. /\ FilesOK /\ Journal /\ Linked /\ rec.target \in Name /\ rec.from \in Name
      /\ media.path \in Path
      /\ seen.target \in Name
  BY JournalNames DEF Typed, RowsOK, JournalOK, Details
<1> USE Constants, Apart
DEF FilesOK, Moving, Attempt, Placing, Exists, Written, Without, Renamed, NotNew, LastVersionKept
<1>2. CASE RecoverFiles
  <2>1. CASE RecoverCollision
    BY <1>1, <1>2, <2>1 DEF Backed, Journal, RecoverFiles, RecoverCollision, Restored
  <2>2. CASE RecoverPair
    BY SMTT(60), <1>1, <1>2, <2>2
    DEF Backed, Linked, Journal, RecoverFiles, RecoverPair, Restored, Absent, Cloud
  <2> QED BY <1>2, <2>1, <2>2 DEF RecoverFiles
<1>3. CASE RecoverCommit BY <1>1, <1>3 DEF Backed, RecoverCommit, NoDetails, AfterRecovery
<1>4. CASE LinkCollision BY <1>1, <1>4 DEF Backed, Journal, LinkCollision, NoDetails
<1>5. CASE RemoveCollisionSource BY <1>1, <1>5 DEF Backed, Journal, RemoveCollisionSource
<1>6. CASE FinishCollision BY <1>1, <1>6 DEF Backed, Journal, FinishCollision, NoDetails
<1>7. CASE Prepare
  <2>1. row.path \in Path BY DEF Typed, RowsOK
  <2> QED BY SMTT(60), <1>1, <1>7, <2>1 DEF Backed, Journal, Prepare, Failed
<1>8. CASE Publishing BY SMTT(60), <1>1, <1>8 DEF Backed, Journal, Publishing, Failed, Absent, Cloud
<1>9. CASE Recheck BY <1>1, <1>9 DEF Backed, Recheck, Failed
<1>10. CASE LinkBackup BY <1>1, <1>10 DEF Backed, Journal, LinkBackup, Failed
<1>11. CASE Place BY <1>1, <1>11 DEF Backed, Linked, Journal, Place
<1>12. CASE Admit BY <1>1, <1>12 DEF Backed, Admit, Typed, RowsOK
<1>13. CASE AdmitFails
  BY SMTT(60), <1>1, <1>13 DEF Backed, Linked, Journal, AdmitFails, Failed, Absent, Cloud
<1>14. CASE Sweep BY <1>1, <1>14 DEF Backed, Journal, Sweep, Failed
<1>15. CASE CleanPublication BY <1>1, <1>15 DEF Backed, Journal, CleanPublication, NoDetails
<1>16. CASE SaveEdit BY <1>1, <1>16 DEF Backed, SaveEdit, LeaseHeld, Recovering, Cloud
<1>17. CASE PromotePhoto BY <1>1, <1>17 DEF Backed, Journal, PromotePhoto
<1>18. ASSUME NEW k \in Suffixed, BeginCollision(k) PROVE Backed'
  BY <1>1, <1>18 DEF Backed, Journal, BeginCollision, NoDetails
<1>19. ASSUME NEW n \in Files, UserDeletes(n) PROVE Backed'
  BY <1>1, <1>19 DEF Backed, UserDeletes, Files, Cloud, Absent
<1>20. ASSUME NEW n \in Files, NEW how \in {"inPlace", "replace"}, UserWrites(n, how)
      PROVE Backed'
  BY <1>1, <1>20 DEF Backed, UserWrites, Files, Cloud, Absent
<1> HIDE
DEF FilesOK, Moving, Attempt, Placing, Exists, Written, Without, Renamed, NotNew, LastVersionKept
<1>21. CASE \/ BeginCycle \/ NothingToRecover \/ RecoveryFails \/ NothingReceived
            \/ EndTransfer \/ Crash \/ Restart
            \/ \E r \in Role : Download(r)
            \/ \E v \in 1..MaxVersion, p \in Path : Observe(v, p)
            \/ \E n \in Files : Index(n) \/ IndexGone(n)
  <2>1. /\ UNCHANGED <<fs, rec, row>>
        /\ ((step' = step /\ seen' = seen) \/ step' \notin {"prepared", "locked", "linked"})
    BY <1>21
    DEF BeginCycle, NothingToRecover, RecoveryFails, Observe, NothingReceived, AfterRecovery,
      Download, EndTransfer, Index, IndexGone, Crash, Restart
  <2> QED BY <2>1 DEF Backed, LastVersionKept, Exists
<1> QED
  BY <1>2, <1>3, <1>4, <1>5, <1>6, <1>7, <1>8, <1>9, <1>10, <1>11, <1>12, <1>13, <1>14, <1>15,
     <1>16, <1>17, <1>18, <1>19, <1>20, <1>21
  DEF PubNext, PubCycle, Recovery, Receiving, Transfer, Environment, Files

\* The last version is backed in every behaviour.
LEMMA BackedInductive == PubSpec => []Backed
<1>1. PubInit => Backed
  BY SMTT(60), Constants DEF PubInit, Backed, LastVersionKept, Exists, NoDetails
<1>2. Backed /\ UNCHANGED pubVars => Backed'
  BY DEF Backed, LastVersionKept, Exists, pubVars
<1>3. Typed /\ Linked /\ Backed /\ [PubNext]_pubVars => Backed'
  BY <1>2, BackedStep
<1> QED BY <1>1, <1>3, PreservedInductive, PTL DEF PubSpec

\* A target that shows the new version under an open journal has the backup of the
\* version it replaced, wherever publish_pair, its rollback or recover_publications
\* was interrupted (transfer.rs).
THEOREM LastVersionAlwaysKept == PubSpec => []LastVersionKept
<1>1. Backed => LastVersionKept BY DEF Backed
<1> QED BY <1>1, BackedInductive, PTL

-----------------------------------------------------------------------------

\* The baseline never runs ahead of the newest version promoted, an open publication
\* is for that version, and a photo without a row has no publication.
Versions ==
    /\ entry.base <= version
    /\ row.state \in {"pending", "publishing"} => row.v = version
    /\ media.loc = "none" => row.state = "none"
    /\ step \in {"observed"} \cup Moving => graph.v \in {version, version + 1}

\* Every step keeps baseline, publication and promoted version in order.
LEMMA VersionsStep ==
    ASSUME Typed, Versions, PubNext PROVE Versions'
<1>1. RowsOK /\ Journal /\ graph.v \in Int BY SMTT(60) DEF Typed, CycleOK
<1> USE DEF Versions, RowsOK, Moving
<1>2. CASE RecoverCommit BY <1>1, <1>2 DEF RecoverCommit, AfterRecovery
<1>3. CASE FinishCollision BY <1>1, <1>3 DEF FinishCollision
<1>4. CASE PromotePhoto
  <2>1. CASE ProjectConflict /\ media.loc = "none"
    BY SMTT(60), <1>1, <1>4, <2>1 DEF PromotePhoto, ProjectConflict
  <2>2. CASE ProjectLocal BY SMTT(60), <1>1, <1>4, <2>2 DEF PromotePhoto, ProjectLocal, Journal
  <2>3. CASE ProjectRemote /\ (media.loc # "none" \/ graph.path \notin others)
    <3>1. media'.loc # "none" BY <1>1, <2>3 DEF ProjectRemote
    <3>2. entry'.base = entry.base /\ row'.v = graph.v BY <1>1, <2>3 DEF ProjectRemote
    <3> QED BY SMTT(60), <1>1, <1>4, <3>1, <3>2 DEF PromotePhoto
  <2> QED BY <1>4, <2>1, <2>2, <2>3 DEF PromotePhoto
<1>5. CASE Publishing BY <1>1, <1>5 DEF Publishing, Failed, Journal
<1>6. CASE Admit BY SMTT(60), <1>1, <1>6 DEF Admit, Journal, Placing
<1>7. CASE SaveEdit BY <1>1, <1>7 DEF SaveEdit
<1>8. ASSUME NEW v \in 1..MaxVersion, NEW p \in Path, Observe(v, p) PROVE Versions'
  BY <1>1, <1>8 DEF Observe, Upsert
<1>9. ASSUME NEW n \in Files, Index(n) \/ IndexGone(n) PROVE Versions'
  BY <1>1, <1>9 DEF Index, Upsert, IndexGone
<1>10. ASSUME NEW r \in Role, Download(r) PROVE Versions' BY <1>10 DEF Download
<1>11. ASSUME NEW k \in Suffixed, BeginCollision(k) PROVE Versions' BY <1>11 DEF BeginCollision
<1>12. ASSUME NEW n \in Files, UserDeletes(n) PROVE Versions' BY <1>12 DEF UserDeletes
<1>13. ASSUME NEW n \in Files, NEW how \in {"inPlace", "replace"}, UserWrites(n, how)
      PROVE Versions'
  BY <1>13 DEF UserWrites
<1>14. CASE BeginCycle \/ NothingToRecover \/ RecoveryFails \/ RecoverFiles \/ NothingReceived
            \/ LinkCollision \/ RemoveCollisionSource
  BY <1>14
  DEF BeginCycle, NothingToRecover, RecoveryFails, RecoverFiles, RecoverCollision, RecoverPair,
     Restored, AfterRecovery, NothingReceived, LinkCollision, RemoveCollisionSource
<1>15. CASE Prepare \/ Recheck \/ LinkBackup \/ Place \/ AdmitFails \/ Sweep
            \/ CleanPublication \/ EndTransfer \/ Crash \/ Restart
  BY <1>15
  DEF Prepare, Recheck, LinkBackup, Place, AdmitFails, Sweep, CleanPublication, EndTransfer,
      Crash, Restart, Failed
<1> HIDE DEF Versions, RowsOK, Moving
<1> QED
  BY <1>2, <1>3, <1>4, <1>5, <1>6, <1>7, <1>8, <1>9, <1>10, <1>11, <1>12, <1>13, <1>14, <1>15
  DEF PubNext, PubCycle, Recovery, Receiving, Transfer, Environment, Files

\* A version the database has admitted.
Admitted(c) == c.by = "cloud" => c.n <= entry.base

\* The version just placed, under its open journal.
Pending(n) ==
    /\ step \in {"placed", "down", "idle", "recover"}
    /\ row.state = "publishing" /\ n = rec.target /\ fs[n] = Cloud(rec.v)

\* Every file of the library and the backup is admitted or is the version being
\* placed; the copy beside the target is the version of the journal.
Rest ==
    /\ \A n \in Files \cup {"backup"} : Admitted(fs[n]) \/ Pending(n)
    /\ row.state = "publishing" => Admitted(rec.old)
    /\ step = "prepared" => Admitted(seen.old) /\ fs["next"] = Cloud(seen.v)
    /\ step \in {"journaled", "locked", "linked"} => fs["next"] = Cloud(rec.v)

\* Every step keeps every version admitted or journalled.
LEMMA RestStep ==
    ASSUME Typed, Linked, Backed, Versions, Rest, PubNext PROVE Rest'
<1>1. /\ FilesOK /\ Journal /\ Linked /\ rec.target \in Name /\ rec.from \in Name
      /\ media.path \in Path
      /\ seen.target \in Name /\ row.path \in Path
      /\ entry.base \in Int /\ LastVersionKept
      /\ \A c \in Content : c.n \in Int
  BY SMTT(60), JournalNames, PublicationBounds
  DEF Typed, RowsOK, JournalOK, Details, Backed, Content, Absent
<1> USE Constants, Apart
DEF FilesOK, Files, Moving, Attempt, Placing, Exists, Written, Without, Renamed, Admitted, Pending
<1>2. CASE RecoverFiles
  <2>1. UNCHANGED <<entry, row, rec>> /\ step = "recover" /\ step' \in {"recover", "restored"}
    BY <1>1, <1>2 DEF Journal, RecoverFiles, RecoverCollision, RecoverPair, Restored, Again
  <2>2. CASE RecoverCollision
    BY SMTT(60), <1>1, <1>2, <2>1, <2>2 DEF Rest, Journal, RecoverFiles, RecoverCollision, Absent
  <2>3. CASE RecoverPair /\ row.state = "complete"
    BY SMTT(60), <1>1, <1>2, <2>1, <2>3 DEF Rest, Journal, RecoverFiles, RecoverPair, Absent
  <2>4. CASE RecoverPair /\ row.state = "publishing" /\ Exists("backup")
    <3>1. rec.target \in Files \ {"backup"} /\ rec.kind = "pair" BY <1>1, <2>4 DEF Journal
    <3>2. Admitted(fs["backup"]) BY <3>1 DEF Rest
    <3>3. \A n \in Files \ {rec.target} : Admitted(fs[n]) BY DEF Rest
    <3>4. step' = "restored" /\ fs' = [Renamed("backup", rec.target) EXCEPT !["next"] = Absent]
      BY <2>1, <2>4 DEF RecoverPair, Restored, Again
    <3>5. \A n \in Files \cup {"backup"} : Admitted(fs'[n])
      BY <1>1, <3>1, <3>2, <3>3, <3>4 DEF Linked, Absent
    <3> QED BY <2>1, <3>4, <3>5 DEF Rest
  <2>5. CASE RecoverPair /\ row.state = "publishing" /\ ~Exists("backup")
    BY SMTT(60), <1>1, <1>2, <2>1, <2>5
    DEF Rest, LastVersionKept, Journal, RecoverFiles, RecoverPair, Absent
  <2> QED BY <1>2, <2>2, <2>3, <2>4, <2>5 DEF RecoverFiles, RecoverPair
<1>3. CASE RecoverCommit
  BY SMTT(60), <1>1, <1>3 DEF Rest, Journal, RecoverCommit, NoDetails, AfterRecovery, Absent, Typed, RowsOK
<1>4. CASE LinkCollision BY SMTT(60), <1>1, <1>4 DEF Rest, Journal, LinkCollision, NoDetails, Absent
<1>5. CASE RemoveCollisionSource BY <1>1, <1>5 DEF Rest, Journal, RemoveCollisionSource, Absent
<1>6. CASE FinishCollision BY <1>1, <1>6 DEF Rest, Journal, FinishCollision, NoDetails
<1>7. CASE Prepare BY SMTT(60), <1>1, <1>7 DEF Rest, Journal, Prepare, Failed
<1>8. CASE Publishing BY SMTT(60), <1>1, <1>8 DEF Rest, Journal, Publishing, Failed, Absent
<1>9. CASE Recheck BY <1>1, <1>9 DEF Rest, Recheck, Failed
<1>10. CASE LinkBackup BY SMTT(60), <1>1, <1>10 DEF Rest, Journal, LinkBackup, Failed
<1>11. CASE Place BY <1>1, <1>11 DEF Rest, Linked, Journal, Place
<1>12. CASE Admit
  <2>1. rec.v \in Int /\ entry.base <= rec.v
    BY SMTT(60), <1>12, <1>1, JournalNames DEF Admit, Versions, Journal, Typed, RowsOK
  <2> QED BY SMTT(60), <1>1, <1>12, <2>1 DEF Rest, Admit, Typed, RowsOK, Cloud
<1>13. CASE AdmitFails
  <2>1. /\ rec.target \in Files \ {"backup"} /\ rec.kind = "pair" /\ row.state = "publishing"
        /\ step' = "transfer" /\ UNCHANGED <<entry, row, rec>>
    BY <1>1, <1>13 DEF Journal, AdmitFails, Failed
  <2>2. Admitted(fs["backup"]) BY <2>1 DEF Rest
  <2>3. \A n \in Files \ {rec.target} : Admitted(fs[n]) BY DEF Rest
  <2>4. Admitted(fs'[rec.target])
    <3>1. CASE ~Published(rec.target) BY <1>13, <2>1, <3>1 DEF AdmitFails, Published, Rest
    <3>2. CASE Published(rec.target) /\ Exists("backup")
      BY <1>1, <1>13, <2>1, <2>2, <3>2 DEF AdmitFails, Linked
    <3>3. CASE Published(rec.target) /\ ~Exists("backup")
      BY <1>1, <1>13, <2>1, <3>3 DEF AdmitFails, Published, LastVersionKept, Rest, Absent
    <3> QED BY <3>1, <3>2, <3>3
  <2>5. \A n \in (Files \cup {"backup"}) \ {rec.target} : Admitted(fs'[n])
    BY SMTT(60), <1>1, <1>13, <2>1, <2>2, <2>3 DEF AdmitFails, Absent
  <2> QED BY <2>1, <2>4, <2>5 DEF Rest
<1>14. CASE Sweep BY SMTT(60), <1>1, <1>14 DEF Rest, Journal, Sweep, Failed, Absent
<1>15. CASE CleanPublication BY <1>1, <1>15 DEF Rest, Journal, CleanPublication, NoDetails
<1>16. CASE SaveEdit BY SMTT(60), <1>1, <1>16 DEF Rest, SaveEdit, LeaseHeld, Recovering, Typed, RowsOK
<1>17. CASE PromotePhoto
  <2>1. entry.base <= entry'.base /\ entry'.base \in Int
    <3>1. /\ version \in Int /\ graph.v \in {version, version + 1} /\ entry.base <= version
      BY SMTT(60), <1>17 DEF PromotePhoto, Versions, Typed, RowsOK
    <3>2. ProjectLocal => entry'.base = graph.v BY DEF ProjectLocal, Typed, RowsOK
    <3>3. ProjectRemote => entry'.base = entry.base BY DEF ProjectRemote, Typed, RowsOK
    <3>4. ProjectConflict => entry' = entry BY DEF ProjectConflict
    <3> QED BY SMTT(60), <1>1, <1>17, <3>1, <3>2, <3>3, <3>4 DEF PromotePhoto
  <2>2. rec.kind = "none" /\ row'.state # "publishing" /\ row.state # "publishing"
    BY SMTT(60), <1>1, <1>17
    DEF PromotePhoto, ProjectConflict, ProjectLocal, ProjectRemote, Journal, Typed, RowsOK
  <2> QED BY SMTT(60), <1>1, <1>17, <2>1, <2>2 DEF Rest, PromotePhoto
<1>18. ASSUME NEW k \in Suffixed, BeginCollision(k) PROVE Rest'
  BY <1>1, <1>18 DEF Rest, Journal, BeginCollision, NoDetails
<1>19. ASSUME NEW n \in Files, UserDeletes(n) PROVE Rest'
  BY <1>1, <1>19 DEF Rest, UserDeletes, Cloud, Absent
<1> HIDE
DEF FilesOK, Files, Moving, Attempt, Placing, Exists, Written, Without, Renamed, Admitted, Pending
<1>20. ASSUME NEW n \in Files, NEW how \in {"inPlace", "replace"}, UserWrites(n, how) PROVE Rest'
  <2>1. /\ UNCHANGED <<entry, row, rec, step, seen>>
        /\ \A m \in Name : fs'[m] = fs[m] \/ fs'[m].by # "cloud"
    BY <1>1, <1>20 DEF UserWrites
  <2>2. "next" \notin link /\ n # "next" BY <1>1 DEF Linked, Journal, Files
  <2>3. fs'["next"] = fs["next"] BY <1>20, <2>2 DEF UserWrites
  <2> QED BY <2>1, <2>3 DEF Rest, Admitted, Pending, Files
\* Steps that leave the files and the rows, and an open journal to be recovered.
<1>21. ASSUME UNCHANGED <<fs, rec, row>>, entry'.base = entry.base,
              \/ UNCHANGED <<step, seen>>
              \/ step' \in {"down", "idle", "recover"}
              \/ /\ row.state # "publishing"
                 /\ step' \in {"received", "observed", "recoverAgain", "transfer"}
       PROVE  Rest'
  BY <1>21 DEF Rest, Admitted, Pending
<1>22. CASE BeginCycle \/ NothingToRecover \/ RecoveryFails \/ NothingReceived \/ EndTransfer
            \/ Crash \/ Restart
  <2>1. UNCHANGED <<fs, rec, row, entry>>
    BY <1>22 DEF BeginCycle, NothingToRecover, RecoveryFails, NothingReceived, EndTransfer,
       Crash, Restart
  <2>2. \/ step' \in {"down", "idle", "recover"}
        \/ row.state # "publishing" /\ step' \in {"received", "recoverAgain", "transfer"}
    BY <1>1, <1>22 DEF Journal, BeginCycle, NothingToRecover, RecoveryFails, AfterRecovery,
       NothingReceived, EndTransfer, Crash, Restart
  <2> QED BY <1>21, <2>1, <2>2
<1>23. ASSUME NEW v \in 1..MaxVersion, NEW p \in Path, Observe(v, p) PROVE Rest'
  <2>1. entry'.base = entry.base BY <1>23 DEF Observe, Upsert, Typed, RowsOK
  <2>2. row.state # "publishing" /\ step' = "observed" /\ UNCHANGED <<fs, rec, row>>
    BY <1>1, <1>23 DEF Journal, Observe
  <2> QED BY <1>21, <2>1, <2>2
<1>24. ASSUME NEW n \in Files, Index(n) \/ IndexGone(n) PROVE Rest'
  <2>1. entry'.base = entry.base BY <1>24 DEF Index, IndexGone, Upsert, Typed, RowsOK
  <2>2. UNCHANGED <<fs, rec, row, step, seen>> BY <1>24 DEF Index, IndexGone
  <2> QED BY <1>21, <2>1, <2>2
<1>25. ASSUME NEW r \in Role, Download(r) PROVE Rest'
  <2>1. UNCHANGED <<fs, rec, row, entry, step, seen>> BY <1>25 DEF Download
  <2> QED BY <1>21, <2>1
<1> QED
  BY <1>2, <1>3, <1>4, <1>5, <1>6, <1>7, <1>8, <1>9, <1>10, <1>11, <1>12, <1>13, <1>14, <1>15,
     <1>16, <1>17, <1>18, <1>19, <1>20, <1>22, <1>23, <1>24, <1>25
  DEF PubNext, PubCycle, Recovery, Receiving, Transfer, Environment, Files

\* Every version in the library is admitted or journalled in every behaviour.
LEMMA RestInductive == PubSpec => [](Versions /\ Rest)
<1>1. PubInit => Versions /\ Rest
  BY SMTT(60), Constants DEF PubInit, Versions, Rest, Admitted, Pending, Files, Absent, Moving
<1>2. Versions /\ Rest /\ UNCHANGED pubVars => Versions' /\ Rest'
  BY DEF Versions, Rest, Admitted, Pending, pubVars
<1>3. Typed /\ Linked /\ Backed /\ Versions /\ Rest /\ [PubNext]_pubVars => Versions' /\ Rest'
  BY <1>2, VersionsStep, RestStep
<1> QED BY <1>1, <1>3, PreservedInductive, BackedInductive, PTL DEF PubSpec

\* With no journal open, no file of the library is newer than the photo's baseline:
\* no crash, refused admission or failed attempt leaves a version the database has
\* not admitted (publish_pair, Command::Admit, recover_publications).
THEOREM RestAlwaysAdmitted == PubSpec => []RestIsAdmitted
<1>1. Typed /\ Rest => RestIsAdmitted
  BY DEF Typed, Journal, Rest, RestIsAdmitted, Pending, Admitted, Files
<1> QED BY <1>1, TypedInductive, RestInductive, PTL
=============================================================================
