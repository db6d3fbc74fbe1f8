------------------------- MODULE RecordedEditProofs -------------------------
(***************************************************************************)
(* The proof that no publication, collision move or repair loses an edit   *)
(* the index has recorded (RecordedEditKept).                              *)
(*                                                                         *)
(* A content of the user is new when it is written (Fresh) and lies in one *)
(* file or one linked pair (Unique); the photo's path is no other row's    *)
(* (Own).  A recorded edit at that path has made the capture stale         *)
(* (Captured), so no journal names it as the version to be replaced        *)
(* (Replaced), and what a step overwrites between its last comparison and  *)
(* its rename is the replaced version or a write no comparison could see   *)
(* (Windows).  So the edit stays in a file of the library (Kept).          *)
(***************************************************************************)
EXTENDS PublicationProofs

\* As in PublicationProofs.
USE ZenonT(30), SMTT(60) DEF files, db, pubCycle, history

\* A content of the user that has been written already.
Old(c) == c.by = "user" => c.n <= edits

\* Every content in a file, the index or a journal has been written already, and
\* only contents of the user are at stake: the next edit is a new one.
Fresh ==
    /\ \A n \in Name : Old(fs[n])
    /\ \A c \in known : Old(c)
    /\ Old(rec.old) /\ Old(rec.fromOld) /\ Old(seen.old) /\ Old(seen.fromOld)
    /\ \A c \in mine : c.by = "user"

\* Contents are numbered.
LEMMA NumberOf == \A c \in Content : c.n \in Int
BY SMTT(60), PublicationBounds DEF Content, Absent

\* Every step keeps the next edit new.
LEMMA FreshStep ==
    ASSUME Typed, Fresh, PubNext PROVE Fresh'
<1>1. /\ FilesOK /\ rec.target \in Name /\ rec.from \in Name /\ media.path \in Path
      /\ row.path \in Path
      /\ graph.path \in Path /\ edits \in Int
      /\ rec.old \in Content /\ rec.fromOld \in Content
      /\ seen.old \in Content /\ seen.fromOld \in Content
      /\ known \subseteq Content
  BY SMTT(60), PublicationBounds DEF Typed, RowsOK, CycleOK, HistoryOK, JournalOK, Details
<1>2. Old(Absent) /\ \A v : Old(Cloud(v)) BY DEF Old, Absent, Cloud
<1> USE Constants, NumberOf, Apart DEF FilesOK, Files, Fresh, Written, Without, Renamed
<1>3. CASE SaveEdit BY SMTT(60), <1>1, <1>3 DEF SaveEdit, Old
<1>4. ASSUME NEW n \in Files, NEW how \in {"inPlace", "replace"}, UserWrites(n, how) PROVE Fresh'
  BY SMTT(60), <1>1, <1>4 DEF UserWrites, Old
<1>5. ASSUME edits' = edits PROVE \A c : Old(c)' <=> Old(c) BY <1>5 DEF Old
<1> HIDE DEF Fresh
<1>6. ASSUME UNCHANGED <<edits, mine, rec, seen>>,
             \A n \in Name : \E m \in Name :
                fs'[n] \in {fs[m], Absent} \cup {Cloud(v) : v \in 0..MaxVersion},
             known' \subseteq known \cup {fs[n] : n \in Name}
      PROVE  Fresh'
  BY SMTT(60), <1>1, <1>2, <1>5, <1>6 DEF Fresh
<1>7. CASE RecoverFiles BY <1>1, <1>6, <1>7 DEF RecoverFiles, RecoverCollision, RecoverPair
<1>8. CASE RecoverCommit BY <1>1, <1>2, <1>5, <1>8 DEF RecoverCommit, NoDetails, Fresh
<1>9. CASE LinkCollision BY SMTT(60), <1>1, <1>2, <1>5, <1>9 DEF LinkCollision, NoDetails, Fresh
<1>10. CASE RemoveCollisionSource BY <1>1, <1>6, <1>10 DEF RemoveCollisionSource
<1>11. CASE FinishCollision BY SMTT(60), <1>1, <1>2, <1>5, <1>11 DEF FinishCollision, NoDetails, Fresh
<1>12. CASE Prepare BY SMTT(60), <1>1, <1>2, <1>5, <1>12 DEF Prepare, Fresh
<1>13. CASE Publishing BY <1>1, <1>2, <1>5, <1>13 DEF Publishing, Fresh
<1>14. CASE LinkBackup BY <1>1, <1>6, <1>14 DEF LinkBackup
<1>15. CASE Place BY <1>1, <1>6, <1>15 DEF Place
<1>16. CASE AdmitFails BY <1>1, <1>6, <1>16 DEF AdmitFails
<1>17. CASE Sweep BY <1>1, <1>6, <1>17 DEF Sweep
<1>18. CASE CleanPublication \/ Restart
  BY SMTT(60), <1>1, <1>2, <1>5, <1>18 DEF CleanPublication, Restart, NoDetails, Fresh
<1>19. CASE PromotePhoto
  BY <1>1, <1>2, <1>5, <1>19 DEF PromotePhoto, ProjectConflict, ProjectLocal, ProjectRemote, Fresh
<1>20. ASSUME NEW k \in Suffixed, BeginCollision(k) PROVE Fresh'
  BY <1>1, <1>2, <1>5, <1>20 DEF BeginCollision, NoDetails, Fresh
<1>21. ASSUME NEW n \in Files, UserDeletes(n) PROVE Fresh'
  BY <1>1, <1>2, <1>5, <1>21 DEF UserDeletes, Fresh
<1>22. ASSUME NEW n \in Files, Upsert(n), UNCHANGED <<edits, mine, fs, rec, seen>> PROVE Fresh'
  BY <1>1, <1>6, <1>22 DEF Upsert, InTime
<1>23. CASE \/ BeginCycle \/ NothingToRecover \/ RecoveryFails \/ NothingReceived \/ Recheck \/ Admit
            \/ EndTransfer \/ Crash
            \/ \E r \in Role : Download(r)
            \/ \E n \in Files : IndexGone(n)
  <2>1. UNCHANGED <<fs, rec, seen, mine, known, edits>>
    BY <1>23
    DEF BeginCycle, NothingToRecover, RecoveryFails, NothingReceived, Recheck, Admit, Failed,
      Download, EndTransfer, IndexGone, Crash
  <2> QED BY <2>1 DEF Fresh, Old
<1> HIDE DEF FilesOK, Files, Written, Without, Renamed
<1> QED
  BY <1>3, <1>4, <1>7, <1>8, <1>9, <1>10, <1>11, <1>12, <1>13, <1>14, <1>15, <1>16, <1>17, <1>18,
     <1>19, <1>20, <1>21, <1>22, <1>23
  DEF PubNext, PubCycle, Recovery, Receiving, Transfer, Environment, Files, Observe, Index

\* What another program may do to a file: it takes what it overwrites out of the
\* contents at stake, and what it writes is not recorded yet.
LEMMA Outside ==
    ASSUME Typed, Linked, Fresh, NEW n \in Files,
           UserDeletes(n) \/ UserWrites(n, "inPlace") \/ UserWrites(n, "replace")
    PROVE  /\ \A m \in Name : fs'[m] = fs[m] \/ (fs'[m] \notin Recorded' /\ fs[m] \notin mine')
           /\ Recorded' \subseteq Recorded
           /\ \A c \in mine' : Old(c) => c \in mine
           /\ UNCHANGED <<db, pubCycle, known>>
<1>1. /\ FilesOK /\ rec.target \in Name /\ rec.from \in Name /\ n \in Name /\ edits \in Int
      /\ known \subseteq Content /\ link \subseteq Name
      /\ Absent \notin mine /\ \A c \in mine : c.by = "user"
      /\ \A c \in known : c.by = "user" => c.n <= edits
      /\ \A m \in Name : fs[m].by = "user" => fs[m].n <= edits
      /\ \A m \in link : n \in link => fs[m] = fs[n]
  BY SMTT(60), JournalNames, Constants, PublicationBounds
  DEF Typed, RowsOK, HistoryOK, Fresh, Old, Linked, Files, Absent, FilesOK
<1>2. CASE UserDeletes(n) BY <1>1, <1>2 DEF UserDeletes, Written, FilesOK, Recorded
<1>3. ASSUME NEW how \in {"inPlace", "replace"}, UserWrites(n, how)
      PROVE  /\ \A m \in Name : fs'[m] = fs[m] \/ (fs'[m] \notin Recorded' /\ fs[m] \notin mine')
             /\ Recorded' \subseteq Recorded
             /\ \A c \in mine' : Old(c) => c \in mine
             /\ UNCHANGED <<db, pubCycle, known>>
  <2> DEFINE new == [by |-> IF Window(n) THEN "race" ELSE "user", n |-> edits + 1]
  <2>1. new \notin Recorded'
    <3>1. CASE Window(n) BY <1>1, <1>3, <3>1 DEF UserWrites, Recorded
    <3>2. CASE ~Window(n) BY SMTT(60), <1>1, <1>3, <3>2 DEF UserWrites, Recorded
    <3> QED BY <3>1, <3>2
  <2>2. mine' \subseteq (mine \ {fs[n]}) \cup {new} BY <1>3 DEF UserWrites
  <2>3. \A m \in Name : fs'[m] = fs[m] \/ (fs'[m] = new /\ fs[m] = fs[n])
    BY <1>1, <1>3 DEF UserWrites, FilesOK
  <2>4. fs[n] \notin mine'
    BY SMTT(60), <1>1, <1>3 DEF UserWrites
  <2>5. UNCHANGED <<db, pubCycle, known>> BY <1>3 DEF UserWrites
  <2>6. new \in mine' => ~Old(new)
    BY SMTT(60), <1>1, <1>3 DEF UserWrites, Old
  <2> HIDE DEF new
  <2> QED BY <2>1, <2>2, <2>3, <2>4, <2>5, <2>6 DEF Recorded
<1> QED BY <1>2, <1>3 DEF UserDeletes

\* A content at stake lies in one file, or in the two names of one file.
Unique ==
    \A n, m \in Files \cup {"backup"} :
        fs[n] = fs[m] /\ fs[n] \in mine => n = m \/ {n, m} \subseteq link

\* No cloud version is at stake, and neither is a missing file.
LEMMA NotMine ==
    ASSUME Fresh
    PROVE  Absent \notin mine /\ (\A v : Cloud(v) \notin mine)
BY DEF Fresh, Absent, Cloud

\* Every step keeps a content at stake in one file.
LEMMA UniqueStep ==
    ASSUME Typed, Linked, Preserved, Rest, Fresh, Unique, PubNext PROVE Unique'
<1>1. /\ FilesOK /\ Journal /\ rec.target \in Name /\ rec.from \in Name /\ media.path \in Path
      /\ Absent \notin mine /\ (\A v : Cloud(v) \notin mine) /\ edits \in Int
  BY SMTT(60), JournalNames, NotMine, PublicationBounds DEF Typed, RowsOK, HistoryOK
<1>2. \A a, b, c \in link : a = b \/ c \in {a, b} BY DEF Linked
<1>3. ASSUME UNCHANGED files, mine' \subseteq mine PROVE Unique' BY <1>3 DEF Unique
<1> USE Constants, Apart
DEF FilesOK, Files, Moving, Attempt, Placing, Exists, Written, Without, Unlinked, Renamed,
    RenamedLink
<1>4. CASE RecoverFiles
  <2>1. CASE RecoverCollision
    BY SMTT(60), <1>1, <1>4, <2>1 DEF Unique, Linked, Journal, RecoverFiles, RecoverCollision
  <2>2. CASE RecoverPair
    BY SMTT(60), <1>1, <1>4, <2>2 DEF Unique, Linked, Journal, RecoverFiles, RecoverPair
  <2> QED BY <1>4, <2>1, <2>2 DEF RecoverFiles
<1>5. CASE RecoverCommit BY SMTT(60), <1>1, <1>5 DEF Unique, Linked, Preserved, Journal, RecoverCommit
<1>6. CASE LinkCollision BY SMTT(60), <1>1, <1>6 DEF Unique, Linked, Journal, LinkCollision
<1>7. CASE RemoveCollisionSource BY SMTT(60), <1>1, <1>7 DEF Unique, Linked, Journal, RemoveCollisionSource
<1>8. CASE FinishCollision BY <1>3, <1>8 DEF FinishCollision
<1>9. CASE Prepare BY SMTT(60), <1>1, <1>9 DEF Unique, Prepare
<1>10. CASE Publishing BY SMTT(60), <1>1, <1>10 DEF Unique, Linked, Journal, Publishing
<1>11. CASE LinkBackup BY SMTT(60), <1>1, <1>11 DEF Unique, Linked, Journal, LinkBackup
<1>12. CASE Place BY SMTT(60), <1>1, <1>12 DEF Unique, Linked, Journal, Place, Rest
<1>13. CASE AdmitFails BY SMTT(60), <1>1, <1>13 DEF Unique, Linked, Journal, AdmitFails
<1>14. CASE Sweep BY SMTT(60), <1>1, <1>14 DEF Unique, Linked, Journal, Sweep
<1>15. CASE SaveEdit
  <2> DEFINE new == [by |-> "user", n |-> edits + 1]
  <2>1. \A n \in Name : fs[n] # new BY SMTT(60), <1>1 DEF Fresh, Old
  <2>2. new # fs[media.path] BY <1>1, <2>1
  <2>3. /\ fs' = Written(media.path, new) /\ link' = Unlinked(media.path)
        /\ mine' = (mine \ {fs[media.path]}) \cup {new}
    BY <1>15 DEF SaveEdit
  <2> HIDE DEF new
  <2> QED BY SMTT(60), <1>2, <1>1, <2>1, <2>3 DEF Unique
<1>16. ASSUME NEW n \in Files, UserDeletes(n) PROVE Unique'
  BY SMTT(60), <1>2, <1>1, <1>16 DEF Unique, UserDeletes
<1>17. ASSUME NEW n \in Files, NEW how \in {"inPlace", "replace"}, UserWrites(n, how)
      PROVE Unique'
  <2> DEFINE new == [by |-> IF Window(n) THEN "race" ELSE "user", n |-> edits + 1]
             same == IF how = "inPlace" /\ n \in link THEN link ELSE {n}
  <2>1. new \in mine' => \A m \in Name : fs[m] # new
    <3>1. CASE Window(n) BY <1>17, <3>1 DEF UserWrites, Fresh
    <3>2. CASE ~Window(n) BY SMTT(60), <1>1, <3>2 DEF Fresh, Old
    <3> QED BY <3>1, <3>2
  <2>2. /\ fs' = [m \in Name |-> IF m \in same THEN new ELSE fs[m]]
        /\ link' = IF how = "inPlace" THEN link ELSE Unlinked(n)
        /\ mine' \subseteq (mine \ {fs[n]}) \cup {new}
    BY <1>17 DEF UserWrites
  <2> HIDE DEF new
  <2> QED BY SMTT(60), <1>2, <1>1, <2>1, <2>2 DEF Unique
<1>18. CASE PromotePhoto
  BY <1>3, <1>18 DEF PromotePhoto, ProjectConflict, ProjectLocal, ProjectRemote
<1> HIDE
DEF FilesOK, Files, Moving, Attempt, Placing, Exists, Written, Without, Unlinked, Renamed,
    RenamedLink
<1>19. CASE \/ BeginCycle \/ NothingToRecover \/ RecoveryFails \/ NothingReceived \/ Recheck \/ Admit
            \/ CleanPublication \/ EndTransfer \/ Crash \/ Restart
            \/ \E r \in Role : Download(r)
            \/ \E v \in 1..MaxVersion, p \in Path : Observe(v, p)
            \/ \E k \in Suffixed : BeginCollision(k)
            \/ \E n \in Files : Index(n) \/ IndexGone(n)
  <2>1. UNCHANGED <<fs, link, mine>>
    BY <1>19
    DEF BeginCycle, NothingToRecover, RecoveryFails, NothingReceived, Recheck, Admit, Failed,
      CleanPublication, EndTransfer, Crash, Restart, Download, Observe, BeginCollision, Index,
      IndexGone
  <2> QED BY <1>3, <2>1
<1> QED
  BY <1>4, <1>5, <1>6, <1>7, <1>8, <1>9, <1>10, <1>11, <1>12, <1>13, <1>14, <1>15, <1>16, <1>17,
     <1>18, <1>19
  DEF PubNext, PubCycle, Recovery, Receiving, Transfer, Environment, Files

\* The photo's own path is no other row's, and no collision move starts from it
\* (preserve_receive_paths moves only foreign rows).
Own ==
    /\ media.loc # "none" => media.path \notin others
    /\ media.loc # "none" /\ rec.kind = "collision" => rec.target # media.path

\* Every step keeps the photo's path its own.
LEMMA OwnStep ==
    ASSUME Typed, Own, PubNext PROVE Own'
<1>1. RowsOK /\ Journal BY DEF Typed
<1> USE Apart DEF Own, RowsOK
<1>2. CASE RecoverCommit BY <1>1, <1>2 DEF RecoverCommit, NoDetails
<1>3. CASE LinkCollision BY SMTT(60), <1>1, <1>3 DEF LinkCollision, NoDetails
<1>4. CASE FinishCollision BY SMTT(60), <1>1, <1>4 DEF FinishCollision, NoDetails, Journal, Moving
<1>5. CASE PromotePhoto
  <2>1. CASE ProjectConflict BY <1>1, <1>5, <2>1 DEF PromotePhoto, ProjectConflict
  <2>2. CASE ProjectLocal BY <1>1, <1>5, <2>2 DEF PromotePhoto, ProjectLocal
  <2>3. CASE ProjectRemote /\ (media.loc # "none" \/ graph.path \notin others)
    BY <1>1, <1>5, <2>3 DEF PromotePhoto, ProjectRemote, Journal
  <2> QED BY <1>5, <2>1, <2>2, <2>3 DEF PromotePhoto
<1>6. CASE Publishing BY <1>1, <1>6 DEF Publishing, Journal
<1>7. CASE Admit BY <1>1, <1>7 DEF Admit, Journal, Placing
<1>8. CASE SaveEdit BY <1>1, <1>8 DEF SaveEdit
<1>9. CASE CleanPublication BY <1>1, <1>9 DEF CleanPublication, NoDetails
<1>10. ASSUME NEW k \in Suffixed, BeginCollision(k) PROVE Own'
  BY <1>1, <1>10 DEF BeginCollision, InTheWay, NoDetails
<1>11. ASSUME NEW n \in Files, Upsert(n), rec' = rec PROVE Own'
  <2>1. media'.path = media.path /\ (media'.loc = "none" <=> media.loc = "none")
    <3>1. CASE OwnPath(n) /\ media' = [media EXCEPT !.loc = "local", !.seen = fs[n]]
      BY <1>1, <3>1 DEF OwnPath
    <3> QED BY <1>11, <3>1 DEF Upsert
  <2>2. others' = others \/ (others' = others \cup {n} /\ ~OwnPath(n)) BY <1>11 DEF Upsert
  <2> QED BY <1>11, <2>1, <2>2 DEF OwnPath
<1>12. ASSUME NEW n \in Files, IndexGone(n) PROVE Own' BY <1>1, <1>12 DEF IndexGone
<1> HIDE DEF Own, RowsOK
<1>13. CASE \/ BeginCycle \/ NothingToRecover \/ RecoveryFails \/ RecoverFiles \/ NothingReceived
            \/ RemoveCollisionSource \/ Prepare \/ Recheck \/ LinkBackup \/ Place \/ AdmitFails \/ Sweep
            \/ EndTransfer \/ Crash \/ Restart
            \/ \E r \in Role : Download(r)
            \/ \E n \in Files : UserDeletes(n) \/ UserWrites(n, "inPlace") \/ UserWrites(n, "replace")
  <2>1. UNCHANGED <<media, others, rec>>
    BY <1>13 DEF BeginCycle, NothingToRecover, RecoveryFails, RecoverFiles, NothingReceived,
      RemoveCollisionSource, Prepare, Recheck, LinkBackup, Place, AdmitFails, Sweep, EndTransfer,
      Crash, Restart,
      Download, UserDeletes, UserWrites
  <2> QED BY <2>1 DEF Own
<1> QED
  BY <1>2, <1>3, <1>4, <1>5, <1>6, <1>7, <1>8, <1>9, <1>10, <1>11, <1>12, <1>13
  DEF PubNext, PubCycle, Recovery, Receiving, Transfer, Environment, Files, Observe, Index

\* What a rename or removal may overwrite: between the recheck and the rename the
\* target holds the replaced version, nothing, or a write no comparison could see; a
\* linked source still has its other name; an unlinked backup holds the replaced
\* version or nothing at stake.
Windows ==
    /\ step \in {"locked", "linked"} =>
         fs[rec.target] \in {rec.old, Absent} \/ fs[rec.target].by = "race"
    /\ step = "moveLinked" => fs[rec.target] \notin mine \/ fs[rec.from] = fs[rec.target]
    /\ row.state = "publishing" /\ Exists("backup") /\ link = {} =>
         fs["backup"] = rec.old \/ fs["backup"] \notin mine

\* Every step keeps the windows harmless.
LEMMA WindowsStep ==
    ASSUME Typed, Linked, Fresh, Windows, PubNext PROVE Windows'
<1>1. /\ FilesOK /\ Journal /\ rec.target \in Name /\ rec.from \in Name /\ media.path \in Path
      /\ Absent \notin mine /\ edits \in Int /\ RowsOK
      /\ \A c \in mine : c.by = "user"
  BY SMTT(60), JournalNames, NotMine, PublicationBounds DEF Typed, RowsOK, HistoryOK, Fresh
<1> USE Constants, Apart
DEF FilesOK, Files, Moving, Attempt, Placing, Exists, Written, Without, Unlinked, Renamed,
    RenamedLink
<1>2. CASE RecoverFiles
  <2>1. CASE RecoverCollision
    BY <1>1, <1>2, <2>1 DEF Windows, Linked, Journal, RecoverFiles, RecoverCollision, Restored
  <2>2. CASE RecoverPair
    BY SMTT(60), <1>1, <1>2, <2>2 DEF Windows, Linked, Journal, RecoverFiles, RecoverPair, Restored
  <2> QED BY <1>2, <2>1, <2>2 DEF RecoverFiles
<1>3. CASE RecoverCommit BY <1>1, <1>3 DEF Windows, RecoverCommit, AfterRecovery
<1>4. CASE LinkCollision BY SMTT(60), <1>1, <1>4 DEF Windows, Linked, Journal, LinkCollision
<1>5. CASE RemoveCollisionSource BY <1>1, <1>5 DEF Windows, Linked, Journal, RemoveCollisionSource
<1>6. CASE FinishCollision BY <1>1, <1>6 DEF Windows, Journal, FinishCollision
<1>7. CASE Prepare BY <1>1, <1>7 DEF Windows, Prepare, Failed
<1>8. CASE Publishing BY <1>1, <1>8 DEF Windows, Linked, Journal, Publishing, Failed
<1>9. CASE Recheck BY <1>1, <1>9 DEF Windows, Recheck, Failed
<1>10. CASE LinkBackup BY <1>1, <1>10 DEF Windows, Linked, Journal, LinkBackup, Failed
<1>11. CASE Place BY <1>1, <1>11 DEF Windows, Linked, Journal, Place
<1>12. CASE Admit BY <1>1, <1>12 DEF Windows, Admit, RowsOK
<1>13. CASE AdmitFails BY <1>1, <1>13 DEF Windows, Linked, Journal, AdmitFails, Failed
<1>14. CASE Sweep BY <1>1, <1>14 DEF Windows, Linked, Journal, Sweep, Failed
<1>15. CASE CleanPublication BY <1>1, <1>15 DEF Windows, Linked, Journal, CleanPublication
<1>16. CASE SaveEdit
  <2>1. step \notin {"locked", "linked", "moveLinked"} BY <1>16 DEF SaveEdit, LeaseHeld
  <2>2. [by |-> "user", n |-> edits + 1] # fs["backup"] BY SMTT(60), <1>1 DEF Fresh, Old
  <2> QED BY <1>1, <1>16, <2>1, <2>2 DEF Windows, Linked, Journal, SaveEdit
<1>17. CASE PromotePhoto
  <2>1. row'.state # "publishing"
    BY SMTT(60), <1>1, <1>17 DEF PromotePhoto, ProjectConflict, ProjectLocal, ProjectRemote, Journal, RowsOK
  <2> QED BY <1>1, <1>17, <2>1 DEF Windows, PromotePhoto
<1>18. ASSUME NEW k \in Suffixed, BeginCollision(k) PROVE Windows'
  BY <1>1, <1>18 DEF Windows, Journal, BeginCollision
<1>19. ASSUME NEW n \in Files, UserDeletes(n) PROVE Windows'
  BY <1>1, <1>19 DEF Windows, Linked, Journal, UserDeletes
<1>20. ASSUME NEW n \in Files, NEW how \in {"inPlace", "replace"}, UserWrites(n, how)
      PROVE Windows'
  <2> DEFINE new == [by |-> IF Window(n) THEN "race" ELSE "user", n |-> edits + 1]
             same == IF how = "inPlace" /\ n \in link THEN link ELSE {n}
  <2>1. /\ fs' = [m \in Name |-> IF m \in same THEN new ELSE fs[m]]
        /\ link' = IF how = "inPlace" THEN link ELSE Unlinked(n)
        /\ mine' = (mine \ {fs[n]}) \cup IF Window(n) THEN {} ELSE {new}
        /\ UNCHANGED <<rec, row, step>>
    BY <1>20 DEF UserWrites
  <2>2. Window(n) => new.by = "race" OBVIOUS
  <2>3. new \in mine' => \A m \in Name : fs[m] # new
    <3>1. CASE Window(n) BY <1>1, <2>1, <3>1
    <3>2. CASE ~Window(n) BY SMTT(60), <1>1, <3>2 DEF Fresh, Old
    <3> QED BY <3>1, <3>2
  <2>4. Window(n) => new \notin mine' BY <1>1, <2>1
  <2> HIDE DEF new
  <2>5. step \in {"locked", "linked"} =>
          fs'[rec.target] \in {rec.old, Absent} \/ fs'[rec.target].by = "race"
    BY <1>1, <2>1, <2>2 DEF Windows, Linked, Journal, Window
  <2>6. step = "moveLinked" => fs'[rec.target] \notin mine' \/ fs'[rec.from] = fs'[rec.target]
    BY <1>1, <2>1, <2>3, <2>4 DEF Windows, Linked, Journal, Window
  <2>7. row.state = "publishing" /\ fs'["backup"] # Absent /\ link' = {} =>
         fs'["backup"] = rec.old \/ fs'["backup"] \notin mine'
    BY <1>1, <2>1, <2>3 DEF Windows, Linked, Journal
  <2> QED BY <2>1, <2>5, <2>6, <2>7 DEF Windows
<1> HIDE
DEF FilesOK, Files, Moving, Attempt, Placing, Exists, Written, Without, Unlinked, Renamed,
    RenamedLink
<1>21. CASE \/ BeginCycle \/ NothingToRecover \/ RecoveryFails \/ NothingReceived
            \/ EndTransfer \/ Crash \/ Restart
            \/ \E r \in Role : Download(r)
            \/ \E v \in 1..MaxVersion, p \in Path : Observe(v, p)
            \/ \E n \in Files : Index(n) \/ IndexGone(n)
  <2>1. /\ UNCHANGED <<fs, link, rec, row, mine>>
        /\ (step' = step \/ step' \notin {"locked", "linked", "moveLinked"})
    BY <1>21 DEF BeginCycle, NothingToRecover, RecoveryFails, NothingReceived, AfterRecovery,
      EndTransfer, Crash, Restart, Download, Observe, Index, IndexGone
  <2> QED BY <2>1 DEF Windows, Exists
<1> QED
  BY <1>2, <1>3, <1>4, <1>5, <1>6, <1>7, <1>8, <1>9, <1>10, <1>11, <1>12, <1>13, <1>14, <1>15,
     <1>16, <1>17, <1>18, <1>19, <1>20, <1>21
  DEF PubNext, PubCycle, Recovery, Receiving, Transfer, Environment, Files

\* A recorded edit at the photo's own path has made the capture stale, and shows as
\* a deletion or a content change of the photo; a recorded edit at the path being
\* received has a row (prepare_local_matches, upsert_media_items_in).
Captured ==
    /\ media.loc # "none" /\ fs[media.path] \in Recorded =>
          /\ entry.fresh = "no"
          /\ \/ entry.dirty = "delete"
             \/ entry.dirty = "content" /\ media.loc = "local" /\ media.seen = fs[media.path]
    /\ step = "observed" /\ fs[graph.path] \in Recorded =>
          graph.path \in others \/ OwnPath(graph.path)

\* No journal names a recorded edit as what it replaces: publish_pair reads the
\* target and the previous path before check_publication, and the check refuses a
\* capture that an index step has made stale since. What a placement has put at the
\* target is not recorded while the index skips the path.
Replaced ==
    /\ step = "prepared" =>
          /\ seen.old # Absent => media.path = seen.target
          /\ seen.old \in mine => fs[seen.target] = seen.old
          /\ seen.fromOld \in mine => fs[seen.from] = seen.fromOld
          /\ entry.fresh = "yes" => seen.old \notin Recorded /\ seen.fromOld \notin Recorded
    /\ rec.kind = "pair" => rec.old \notin Recorded /\ rec.fromOld \notin Recorded
    /\ step = "placed" => fs[rec.target] \notin Recorded

\* Every recorded edit is in a file of the library.
Kept == \A c \in Recorded : \E n \in Files : fs[n] = c

\* What upsert_media_items_in does to the rows: only the content it finds is newly
\* recorded, never one an open journal names, and at the photo's own path it makes
\* the capture stale.
LEMMA Indexed ==
    ASSUME Typed, NEW n \in Files, Upsert(n), UNCHANGED <<fs, mine, rec>>
    PROVE  /\ media'.path = media.path /\ (media'.loc = "none" <=> media.loc = "none")
           /\ \A c \in Recorded' \ Recorded :
                /\ c = fs[n] /\ ~Skipped(n) /\ c \notin {rec.old, rec.fromOld}
                /\ OwnPath(n) => entry'.fresh = "no"
           /\ others \subseteq others'
           /\ \/ UNCHANGED <<media, entry>>
              \/ /\ OwnPath(n) /\ media'.loc = "local" /\ media'.seen = fs[n]
                 /\ entry'.fresh = "no" /\ entry'.dirty \in {"delete", "content"}
           /\ Exists(n) /\ ~Skipped(n) /\ ~OwnPath(n) => n \in others' /\ UNCHANGED <<media, entry>>
<1>1. RowsOK BY DEF Typed
<1>2. CASE UNCHANGED <<media, entry, others, known>>
  <2>1. Recorded' = Recorded BY <1>2 DEF Recorded
  <2>2. Exists(n) /\ ~Skipped(n) /\ ~OwnPath(n) => n \in others' BY <1>2 DEF Upsert
  <2> QED BY <1>2, <2>1, <2>2
<1>3. CASE ~Exists(n) \/ Skipped(n) BY <1>2, <1>3 DEF Upsert
<1>4. CASE Exists(n) /\ ~Skipped(n) /\ OwnPath(n)
  <2>1. CASE media.loc = "local" /\ media.seen = fs[n] BY <1>2, <1>4, <2>1 DEF Upsert
  <2>2. CASE ~(media.loc = "local" /\ media.seen = fs[n])
    <3>1. /\ media' = [media EXCEPT !.loc = "local", !.seen = fs[n]]
          /\ entry' = [entry EXCEPT !.dirty = IF @ = "delete" THEN @ ELSE "content", !.fresh = "no"]
          /\ known' = known \cup InTime(fs[n]) /\ UNCHANGED others
      BY <1>4, <2>2 DEF Upsert
    <3>2. /\ media'.loc = "local" /\ media'.seen = fs[n] /\ media'.path = media.path
          /\ entry'.fresh = "no" /\ entry'.dirty \in {"delete", "content"}
      BY <1>1, <3>1 DEF RowsOK
    <3>3. \A c \in Recorded' \ Recorded : c = fs[n] /\ c \notin {rec.old, rec.fromOld}
      BY <3>1 DEF Recorded, InTime
    <3> QED BY <1>4, <3>1, <3>2, <3>3 DEF OwnPath
  <2> QED BY <2>1, <2>2
<1>5. CASE Exists(n) /\ ~Skipped(n) /\ ~OwnPath(n)
  BY <1>1, <1>5 DEF Upsert, Recorded, InTime
<1> QED BY <1>3, <1>4, <1>5

\* Two names of the library share a file only in a collision move.
LEMMA LinkedFiles ==
    ASSUME Typed, Linked, NEW a \in Files, NEW b \in Files, a # b, {a, b} \subseteq link
    PROVE  rec.kind = "collision" /\ rec.target \in {a, b} /\ rec.from \in {a, b}
BY Apart DEF Typed, Linked, Files

\* Putting a backup back brings no recorded edit to a path: the backup is the other
\* name of the target, the replaced version, or nothing at stake.
LEMMA PutBack ==
    ASSUME Typed, Linked, Windows, Replaced, NEW p \in Path, row.state = "publishing",
           Exists("backup"),
           fs'[p] = Renamed("backup", rec.target)[p]
    PROVE  fs'[p] = fs[p] \/ fs'[p] \notin Recorded
<1>1. FilesOK /\ Journal /\ rec.target \in Path /\ rec.kind = "pair" BY DEF Typed, Journal
<1>2. CASE {"backup", rec.target} = link BY <1>2 DEF Renamed
<1>3. CASE {"backup", rec.target} # link
  <2>1. link = {} BY <1>1, <1>3 DEF Linked
  <2>2. fs["backup"] \notin Recorded BY <1>1, <2>1 DEF Windows, Replaced, Recorded
  <2>3. p \in Name /\ rec.target \in Name /\ "backup" \in Name /\ p # "backup"
    BY <1>1, Constants, Apart
  <2> QED BY <1>1, <1>3, <2>2, <2>3 DEF Renamed, FilesOK
<1> QED BY <1>2, <1>3

\* Every step keeps recorded edits captured.
LEMMA CapturedStep ==
    ASSUME Typed, Linked, Windows, Rest, Fresh, Unique, Own, Captured, Replaced, PubNext
    PROVE  Captured'
<1>1. /\ FilesOK /\ Journal /\ rec.target \in Name /\ rec.from \in Name
      /\ media.path \in Path /\ graph.path \in Path
      /\ Absent \notin mine /\ (\A v : Cloud(v) \notin mine) /\ edits \in Int
  BY SMTT(60), JournalNames, NotMine, PublicationBounds DEF Typed, RowsOK, HistoryOK, CycleOK
<1>2. media.path \in Name /\ graph.path \in Name /\ media.path \in Files /\ graph.path \in Files
  BY <1>1, Constants DEF Files
\* A step that does not end at "observed" and leaves the photo's file, or nothing recorded
\* in its place.
<1>3. ASSUME step' # "observed", UNCHANGED <<media, entry>>, Recorded' \subseteq Recorded,
             media.loc # "none" => fs'[media.path] = fs[media.path] \/ fs'[media.path] \notin Recorded
      PROVE  Captured'
  BY <1>3 DEF Captured
<1>4. CASE RecoverFiles
  <2>1. UNCHANGED <<media, entry, mine, known>> /\ Recorded' = Recorded
    BY <1>4 DEF RecoverFiles, Recorded
  <2>2. CASE RecoverCollision
    <3>1. media.loc # "none" => media.path # rec.target /\ media.path # rec.from
      BY <1>1, <2>2, Apart DEF RecoverCollision, Own, Journal
    <3>2. step' # "observed" BY <1>4, <2>2 DEF RecoverFiles, RecoverCollision, Restored
    <3> QED BY <1>1, <1>2, <1>3, <2>1, <2>2, <3>1, <3>2 DEF RecoverCollision, Written, FilesOK
  <2>3. CASE RecoverPair
    <3>1. step' # "observed" BY <2>3 DEF RecoverPair, Restored
    <3>2. CASE row.state = "publishing" /\ Exists("backup")
      <4>1. fs'[media.path] = Renamed("backup", rec.target)[media.path]
        <5>1. fs' = [Renamed("backup", rec.target) EXCEPT !["next"] = Absent]
          BY <2>3, <3>2 DEF RecoverPair
        <5> QED BY SMTT(60), <5>1, <1>1, Apart
      <4> QED BY <1>1, <1>3, <2>1, <3>1, <3>2, <4>1, PutBack
    <3>3. CASE ~(row.state = "publishing" /\ Exists("backup"))
      <4>1. fs'[media.path] \in {fs[media.path], Absent}
        BY <1>2, <2>3, <3>3 DEF RecoverPair, Without
      <4> QED BY <1>1, <1>3, <2>1, <3>1, <4>1 DEF Recorded
    <3> QED BY <3>2, <3>3
  <2> QED BY <1>4, <2>2, <2>3 DEF RecoverFiles
<1>5. CASE FinishCollision
  <2>1. /\ UNCHANGED <<fs, media, entry, graph, mine>> /\ Recorded' \subseteq Recorded
        /\ step' = "observed" => fs[rec.target] \notin Recorded'
    BY <1>5 DEF FinishCollision, Recorded
  <2>2. rec.target = graph.path BY <1>1, <1>5 DEF FinishCollision, Journal, Moving
  <2> QED BY <2>1, <2>2 DEF Captured
<1>6. CASE Place
  <2>1. fs["next"] = Cloud(rec.v) BY <1>6 DEF Place, Rest
  <2>2. fs'[media.path] = fs[media.path] \/ fs'[media.path] \notin mine
    BY <1>1, <1>2, <1>6, <2>1, Apart DEF Place, Renamed, FilesOK
  <2> QED BY <1>3, <1>6, <2>2 DEF Place, Recorded
<1>7. CASE Admit
  <2>1. /\ fs' = fs /\ media'.path = rec.target /\ step' # "observed" /\ Recorded' = Recorded
    BY <1>7 DEF Admit, Recorded
  <2>2. fs[rec.target] \notin Recorded BY <1>7 DEF Admit, Replaced
  <2> QED BY <2>1, <2>2 DEF Captured
<1>8. CASE AdmitFails
  <2>1. /\ step' # "observed" /\ UNCHANGED <<media, entry>> /\ Recorded' = Recorded
        /\ row.state = "publishing"
    BY <1>1, <1>8 DEF AdmitFails, Failed, Recorded, Journal, Placing
  <2>2. CASE Published(rec.target) /\ Exists("backup")
    <3>1. fs'[media.path] = Renamed("backup", rec.target)[media.path] BY <1>8, <2>2 DEF AdmitFails
    <3> QED BY <1>1, <1>3, <2>1, <2>2, <3>1, PutBack
  <2>3. CASE ~(Published(rec.target) /\ Exists("backup"))
    <3>1. fs'[media.path] \in {fs[media.path], Absent}
      BY <1>1, <1>2, <1>8, <2>3 DEF AdmitFails, Written, FilesOK
    <3> QED BY <1>1, <1>3, <2>1, <3>1 DEF Recorded
  <2> QED BY <2>2, <2>3
<1>9. CASE SaveEdit
  <2> DEFINE new == [by |-> "user", n |-> edits + 1]
  <2>1. /\ \A m \in Name : fs[m] # new
        /\ RowsOK
    BY SMTT(60), <1>1 DEF Fresh, Old, Typed
  <2>2. /\ fs' = [fs EXCEPT ![media.path] = new] /\ media' = [media EXCEPT !.seen = new]
        /\ entry' = [entry EXCEPT !.dirty = IF @ = "delete" THEN @ ELSE "content", !.fresh = "no"]
        /\ mine' \subseteq mine \cup {new} /\ known' \subseteq known \cup {new}
        /\ UNCHANGED <<step, graph, others>> /\ media.loc = "local"
    BY <1>9 DEF SaveEdit, Written
  <2> HIDE DEF new
  <2>3. fs'[media.path] = new /\ (graph.path # media.path => fs'[graph.path] = fs[graph.path])
    BY <1>1, <1>2, <2>2 DEF FilesOK
  <2>4. /\ media'.seen = new /\ media'.loc = "local" /\ media'.path = media.path
        /\ entry'.fresh = "no" /\ entry'.dirty \in {"delete", "content"}
    BY <2>1, <2>2 DEF RowsOK
  <2>5. graph.path # media.path /\ fs'[graph.path] \in Recorded' => fs[graph.path] \in Recorded
    BY <1>2, <2>1, <2>2, <2>3 DEF Recorded
  <2> QED BY <2>2, <2>3, <2>4, <2>5 DEF Captured, OwnPath
<1>10. CASE PromotePhoto
  <2>1. /\ step' # "observed" /\ fs' = fs /\ known' = known /\ RowsOK /\ step = "observed"
    BY <1>10 DEF PromotePhoto, Typed
  <2>2. CASE ProjectConflict BY <1>3, <2>1, <2>2 DEF ProjectConflict, Recorded
  <2>3. CASE ProjectLocal
    <3>1. /\ media' = media /\ mine' = mine /\ entry'.fresh = entry.fresh
          /\ entry'.dirty = entry.dirty
      BY <2>1, <2>3 DEF ProjectLocal, RowsOK
    <3> QED BY <2>1, <3>1 DEF Captured, Recorded
  <2>4. CASE ProjectRemote /\ entry.dirty # "delete" /\ (media.loc # "none" \/ graph.path \notin others)
    <3>1. /\ Recorded' \subseteq Recorded
          /\ entry.dirty = "content" /\ media.loc = "local" => media.seen \notin Recorded'
      BY <2>1, <2>4 DEF ProjectRemote, Recorded
    <3>2. CASE media.loc # "local" /\ graph.path \notin others
      <4>1. media'.path = graph.path BY <2>1, <2>4, <3>2 DEF ProjectRemote, RowsOK
      <4>2. fs[graph.path] \notin Recorded BY <2>1, <2>4, <3>2 DEF Captured, OwnPath
      <4> QED BY <2>1, <3>1, <4>1, <4>2 DEF Captured
    <3>3. CASE ~(media.loc # "local" /\ graph.path \notin others)
      <4>1. media' = media BY <2>4, <3>3 DEF ProjectRemote
      <4>2. fs[media.path] \notin Recorded'
        BY <2>4, <3>1, <3>3 DEF Captured
      <4> QED BY <2>1, <4>1, <4>2 DEF Captured
    <3> QED BY <3>2, <3>3
  <2> QED BY <1>10, <2>2, <2>3, <2>4 DEF PromotePhoto
<1>11. ASSUME NEW n \in Files, UserDeletes(n) \/ UserWrites(n, "inPlace") \/ UserWrites(n, "replace")
      PROVE Captured'
  <2>1. /\ \A m \in Name : fs'[m] = fs[m] \/ fs'[m] \notin Recorded'
        /\ Recorded' \subseteq Recorded
        /\ UNCHANGED <<db, pubCycle, known>>
    BY <1>11, Outside
  <2> QED BY <1>2, <2>1 DEF Captured, OwnPath
<1>12. ASSUME NEW n \in Files, Index(n) \/ (n \in Path /\ \E v \in 1..MaxVersion : Observe(v, n))
       PROVE  Captured'
  <2>1. /\ Upsert(n) /\ UNCHANGED <<fs, mine, rec>>
        /\ UNCHANGED <<step, graph>> \/ (step = "received" /\ graph'.path = n /\ n \in Path)
    <3>1. CASE Index(n)
      <4>1. Upsert(n) /\ UNCHANGED <<fs, mine, rec>> BY <3>1 DEF Index
      <4>2. UNCHANGED <<step, graph>> BY <3>1 DEF Index
      <4> QED BY <4>1, <4>2
    <3>2. ASSUME n \in Path, NEW v \in 1..MaxVersion, Observe(v, n)
          PROVE  /\ Upsert(n) /\ UNCHANGED <<fs, mine, rec>>
                 /\ step = "received" /\ graph'.path = n
      BY <3>2 DEF Observe
    <3> QED BY <1>12, <3>1, <3>2
  <2>2. /\ media'.path = media.path /\ (media'.loc = "none" <=> media.loc = "none")
        /\ \A c \in Recorded' \ Recorded : c = fs[n]
        /\ others \subseteq others'
        /\ \/ UNCHANGED <<media, entry>>
           \/ /\ OwnPath(n) /\ media'.loc = "local" /\ media'.seen = fs[n]
              /\ entry'.fresh = "no" /\ entry'.dirty \in {"delete", "content"}
        /\ \A c \in Recorded' \ Recorded : OwnPath(n) => entry'.fresh = "no"
        /\ Exists(n) /\ ~Skipped(n) /\ ~OwnPath(n) => n \in others'
        /\ \A c \in Recorded' \ Recorded : ~Skipped(n)
    BY <2>1, Indexed
  <2>3. \A m \in Files : fs[m] \in Recorded' \ Recorded => m = n \/ {m, n} \subseteq link
    BY <2>2, <2>1 DEF Unique, Recorded
  <2>4. media.loc # "none" /\ fs[media.path] \in Recorded' \ Recorded => n = media.path
    BY SMTT(60), <1>2, <1>1, <2>3, LinkedFiles, Apart DEF Own, Journal
  <2>5. media'.loc # "none" /\ fs[media.path] \in Recorded' \ Recorded =>
          media'.loc = "local" /\ media'.seen = fs[media.path]
             /\ entry'.fresh = "no" /\ entry'.dirty \in {"delete", "content"}
    <3>1. SUFFICES ASSUME media'.loc # "none", fs[media.path] \in Recorded' \ Recorded
                   PROVE  /\ media'.loc = "local" /\ media'.seen = fs[media.path]
                          /\ entry'.fresh = "no" /\ entry'.dirty \in {"delete", "content"}
      OBVIOUS
    <3>2. OwnPath(n) /\ n = media.path BY <2>2, <2>4, <3>1 DEF OwnPath
    <3>3. CASE UNCHANGED <<media, entry>>
      <4>1. RowsOK /\ Exists(n) /\ ~Skipped(n) /\ known' # known
        BY <1>1, <2>1, <2>2, <3>1, <3>2 DEF Typed, Exists, Recorded
      <4>2. media' = [media EXCEPT !.loc = "local", !.seen = fs[n]]
            /\ entry' = [entry EXCEPT !.dirty = IF @ = "delete" THEN @ ELSE "content", !.fresh = "no"]
        BY <2>1, <3>2, <4>1 DEF Upsert
      <4> QED BY <3>2, <4>1, <4>2 DEF RowsOK
    <3> QED BY <2>2, <3>2, <3>3
  <2>6. media'.loc # "none" /\ fs[media.path] \in Recorded' =>
           /\ entry'.fresh = "no"
           /\ \/ entry'.dirty = "delete"
              \/ entry'.dirty = "content" /\ media'.loc = "local" /\ media'.seen = fs[media.path]
    BY <2>2, <2>5 DEF Captured, OwnPath
  <2>7. step' = "observed" /\ fs[graph'.path] \in Recorded' =>
          graph'.path \in others' \/ OwnPath(graph'.path)
    <3>1. SUFFICES ASSUME step' = "observed", fs[graph'.path] \in Recorded'
                   PROVE  graph'.path \in others' \/ OwnPath(graph'.path)
      OBVIOUS
    <3>2. rec.kind = "none" BY <1>1, <2>1, <3>1 DEF Journal
    <3>3. graph'.path \in Files BY <1>2, <2>1, <3>1
    <3>4. fs[graph'.path] \in Recorded => graph'.path = n \/ UNCHANGED <<step, graph>>
      BY <2>1, <3>1
    <3>5. fs[graph'.path] \notin Recorded => graph'.path = n
      BY <2>3, <3>1, <3>2, <3>3, LinkedFiles
    <3>6. fs[graph'.path] \in mine /\ fs'[graph'.path] # Absent BY <1>1, <2>1, <3>1 DEF Recorded
    <3>7. CASE graph'.path = n BY <2>2, <3>2, <3>6, <3>7, <2>1 DEF Exists, Skipped
    <3>8. CASE graph'.path # n BY <2>2, <3>1, <3>4, <3>5, <3>8 DEF Captured
    <3> QED BY <3>7, <3>8
  <2> QED BY <2>1, <2>2, <2>6, <2>7 DEF Captured, OwnPath
<1>13. ASSUME NEW n \in Files, IndexGone(n) PROVE Captured'
  <2>1. /\ UNCHANGED <<fs, mine, known, step, graph>> /\ fs[n] = Absent
        /\ Recorded' = Recorded /\ RowsOK
    BY <1>13 DEF IndexGone, Exists, Recorded, Typed
  <2>2. fs[n] \notin Recorded BY <1>1, <2>1 DEF Recorded
  <2>3. CASE OwnPath(n) /\ media' = [media EXCEPT !.loc = "cloud"] /\ UNCHANGED others
    <3>1. media'.path = n /\ media'.loc # "none" /\ media.path = n /\ media.loc # "none"
      BY <2>1, <2>3 DEF RowsOK, OwnPath
    <3> QED BY SMTT(60), <2>1, <2>2, <2>3, <3>1 DEF Captured, OwnPath
  <2>4. CASE others' = others \ {n} /\ UNCHANGED <<media, entry>>
    BY <2>1, <2>2, <2>4 DEF Captured, OwnPath
  <2> QED BY <1>13, <2>3, <2>4 DEF IndexGone
<1>14. CASE \/ RecoverCommit \/ LinkCollision \/ RemoveCollisionSource \/ Prepare \/ Publishing
            \/ LinkBackup \/ Sweep
  <2>1. /\ UNCHANGED <<media, entry, mine, known>> /\ step' # "observed"
    BY <1>14
    DEF RecoverCommit, AfterRecovery, LinkCollision, RemoveCollisionSource, Prepare, Publishing,
        LinkBackup, Sweep, Failed
  <2>2. rec.kind = "collision" => rec.from # media.path BY <1>1, Apart DEF Journal
  <2>3. media.path # "next" /\ media.path # "backup" BY <1>1, Apart
  <2>4. fs'[media.path] \in {fs[media.path], Absent}
    <3> USE <1>1, <1>2, <2>2, <2>3 DEF Written, FilesOK
    <3>1. CASE RecoverCommit \/ Publishing BY <3>1 DEF RecoverCommit, Publishing
    <3>2. CASE Prepare \/ LinkBackup BY <3>2 DEF Prepare, LinkBackup
    <3>3. CASE LinkCollision BY <3>3 DEF LinkCollision, Journal, Moving
    <3>4. CASE RemoveCollisionSource BY <3>4 DEF RemoveCollisionSource
    <3>5. CASE Sweep BY <3>5 DEF Sweep, Without
    <3> HIDE DEF Written, FilesOK
    <3> QED BY <1>14, <3>1, <3>2, <3>3, <3>4, <3>5
  <2> QED BY <1>1, <1>3, <2>1, <2>4 DEF Recorded
<1>15. CASE \/ BeginCycle \/ NothingToRecover \/ RecoveryFails \/ NothingReceived
            \/ (\E k \in Suffixed : BeginCollision(k)) \/ (\E r \in Role : Download(r))
            \/ Recheck \/ CleanPublication \/ EndTransfer \/ Crash \/ Restart
  <2>1. UNCHANGED <<fs, media, entry, mine, known>> /\ step' # "observed"
    BY <1>15
    DEF BeginCycle, NothingToRecover, RecoveryFails, NothingReceived, AfterRecovery,
        BeginCollision,
      Download, Recheck, CleanPublication, EndTransfer, Failed, Crash, Restart
  <2> QED BY <1>3, <2>1 DEF Recorded
<1> QED
  BY <1>4, <1>5, <1>6, <1>7, <1>8, <1>9, <1>10, <1>11, <1>12, <1>13, <1>14, <1>15
  DEF PubNext, PubCycle, Recovery, Receiving, Transfer, Environment, Files
\* Every step keeps recorded edits out of the journals.
LEMMA ReplacedStep ==
    ASSUME Typed, Linked, Versions, Rest, Fresh, Unique, Captured, Replaced, PubNext
    PROVE  Replaced'
<1>1. /\ FilesOK /\ Journal /\ rec.target \in Name /\ rec.from \in Name
      /\ seen.target \in Name /\ seen.from \in Name
      /\ media.path \in Path /\ media.path \in Name /\ row.path \in Path /\ row.path \in Name
      /\ Absent \notin mine /\ (\A v : Cloud(v) \notin mine) /\ edits \in Int
  BY SMTT(60), JournalNames, NotMine, PublicationBounds, Constants
  DEF Typed, RowsOK, HistoryOK, JournalOK, Details
\* Steps that leave the cycle elsewhere, the journal as it is or closed, and record nothing.
<1>2. ASSUME step' \notin {"prepared", "placed"}, rec' = rec \/ rec'.kind # "pair",
             Recorded' \subseteq Recorded
      PROVE  Replaced'
  BY <1>2 DEF Replaced
<1>3. CASE \/ BeginCycle \/ NothingToRecover \/ RecoveryFails \/ RecoverFiles
           \/ NothingReceived \/ PromotePhoto \/ RemoveCollisionSource
           \/ Recheck \/ LinkBackup \/ Admit \/ AdmitFails \/ Sweep
           \/ EndTransfer \/ Crash \/ Restart
  <2>1. step' \notin {"prepared", "placed"}
    BY <1>3
    DEF BeginCycle, NothingToRecover, RecoveryFails, RecoverFiles, RecoverCollision, RecoverPair,
      Restored, NothingReceived, AfterRecovery, PromotePhoto, RemoveCollisionSource, Recheck,
      LinkBackup,
      Admit, AdmitFails, Sweep, EndTransfer, Crash, Restart, Failed
  <2>2. rec' = rec /\ mine' \subseteq mine /\ known' = known
    BY <1>3 DEF BeginCycle, NothingToRecover, RecoveryFails, RecoverFiles, NothingReceived,
      PromotePhoto, ProjectConflict, ProjectLocal, ProjectRemote, RemoveCollisionSource,
      Recheck, LinkBackup, Admit, AdmitFails, Sweep, EndTransfer, Crash, Restart
  <2> QED BY <1>2, <2>1, <2>2 DEF Recorded
<1>4. CASE \/ RecoverCommit \/ (\E k \in Suffixed : BeginCollision(k))
            \/ LinkCollision \/ FinishCollision \/ CleanPublication
  <2>1. /\ step' \notin {"prepared", "placed"}
        /\ rec' = rec \/ rec'.kind # "pair"
        /\ mine' = mine /\ known' \subseteq known
    <3>1. CASE RecoverCommit BY <3>1 DEF RecoverCommit, AfterRecovery, NoDetails
    <3>2. ASSUME NEW k \in Suffixed, BeginCollision(k)
          PROVE  step' = "move" /\ rec'.kind = "collision" /\ UNCHANGED <<mine, known>>
      BY <3>2 DEF BeginCollision, NoDetails
    <3>3. CASE LinkCollision BY SMTT(60), <3>3 DEF LinkCollision, NoDetails
    <3>4. CASE FinishCollision BY SMTT(60), <3>4 DEF FinishCollision, NoDetails
    <3>5. CASE CleanPublication BY <3>5 DEF CleanPublication, NoDetails
    <3> QED BY <1>4, <3>1, <3>2, <3>3, <3>4, <3>5
  <2> QED BY <1>2, <2>1 DEF Recorded
<1>5. CASE Prepare
  <2>1. /\ UNCHANGED <<media, entry, rec, row, mine, known>> /\ Recorded' = Recorded
        /\ step = "transfer"
    BY <1>5 DEF Prepare, Recorded
  <2>2. CASE step' # "prepared"
    <3>1. step' # "placed" BY <1>5 DEF Prepare, Failed
    <3> QED BY <1>2, <2>1, <2>2, <3>1
  <2>3. CASE step' = "prepared"
    <3>1. /\ fs[row.path] # Absent => media.path = row.path
          /\ fs' = Written("next", Cloud(row.v))
          /\ seen' = [kind |-> "pair", target |-> row.path, old |-> fs[row.path],
                      from |-> media.path, fromOld |-> fs[media.path], v |-> row.v]
      BY <1>5, <2>3 DEF Prepare, Failed
    <3>2. media.loc # "none" BY <1>5 DEF Prepare, Ready, Intent, Versions
    <3>3. fs'[row.path] = fs[row.path] /\ fs'[media.path] = fs[media.path]
      BY <1>1, <3>1, Apart DEF Written, FilesOK
    <3>4. entry.fresh = "yes" => fs[media.path] \notin Recorded BY <3>2 DEF Captured
    <3>5. entry.fresh = "yes" => fs[row.path] \notin Recorded BY <1>1, <3>1, <3>4 DEF Recorded
    <3> QED BY <2>1, <2>3, <3>1, <3>3, <3>4, <3>5 DEF Replaced
  <2> QED BY <2>2, <2>3
<1>6. CASE Publishing
  <2>1. step' \notin {"prepared", "placed"} /\ Recorded' = Recorded
    BY <1>6 DEF Publishing, Failed, Recorded
  <2>2. rec' = rec \/ (entry.fresh = "yes" /\ rec' = seen /\ step = "prepared")
    BY <1>6 DEF Publishing, CheckPublication
  <2> QED BY <2>1, <2>2 DEF Replaced
<1>7. CASE Place
  <2>1. fs["next"] = Cloud(rec.v) BY <1>7 DEF Place, Rest
  <2>2. rec.kind = "pair" /\ rec.target \in Path BY <1>1, <1>7 DEF Place, Journal, Placing
  <2>3. link # {"next", rec.target} BY <2>2, Apart DEF Linked
  <2>4. fs'[rec.target] = Cloud(rec.v)
    BY <1>1, <1>7, <2>1, <2>2, <2>3, Apart DEF Place, Renamed, FilesOK
  <2>5. /\ UNCHANGED <<rec, mine, known>> /\ step' = "placed" BY <1>7 DEF Place
  <2> QED BY <1>1, <2>4, <2>5 DEF Replaced, Recorded
<1>8. CASE SaveEdit
  <2> DEFINE new == [by |-> "user", n |-> edits + 1]
  <2>1. /\ \A m \in Name : fs[m] # new
        /\ new \notin {rec.old, rec.fromOld, seen.old, seen.fromOld}
        /\ RowsOK
    BY SMTT(60), <1>1 DEF Fresh, Old, Typed
  <2>2. /\ fs' = [fs EXCEPT ![media.path] = new] /\ media' = [media EXCEPT !.seen = new]
        /\ entry' = [entry EXCEPT !.dirty = IF @ = "delete" THEN @ ELSE "content", !.fresh = "no"]
        /\ mine' = (mine \ {fs[media.path]}) \cup {new} /\ known' \subseteq known \cup {new}
        /\ UNCHANGED <<step, rec, seen>> /\ step # "placed"
    BY <1>8 DEF SaveEdit, Written, LeaseHeld
  <2> HIDE DEF new
  <2>3. /\ \A m \in Name : fs'[m] = fs[m] \/ m = media.path
        /\ media'.path = media.path /\ entry'.fresh = "no"
    BY <1>1, <2>1, <2>2 DEF FilesOK, RowsOK
  <2>4. rec.kind = "pair" => rec.old \notin Recorded' /\ rec.fromOld \notin Recorded'
    BY <2>1, <2>2 DEF Replaced, Recorded
  <2>5. step = "prepared" => /\ seen.old # Absent => media.path = seen.target
                             /\ seen.old \in mine' => fs'[seen.target] = seen.old
                             /\ seen.fromOld \in mine' => fs'[seen.from] = seen.fromOld
    BY <1>1, <2>1, <2>2, <2>3 DEF Replaced
  <2> QED BY <2>2, <2>3, <2>4, <2>5 DEF Replaced
<1>9. ASSUME NEW n \in Files, UserDeletes(n) \/ UserWrites(n, "inPlace") \/ UserWrites(n, "replace")
      PROVE Replaced'
  <2>1. /\ \A m \in Name : fs'[m] = fs[m] \/ (fs'[m] \notin Recorded' /\ fs[m] \notin mine')
        /\ Recorded' \subseteq Recorded
        /\ \A c \in mine' : Old(c) => c \in mine
        /\ UNCHANGED <<db, pubCycle, known>>
    BY <1>9, Outside
  <2>2. Old(seen.old) /\ Old(seen.fromOld) BY DEF Fresh
  <2>3. step = "prepared" => /\ seen.old \in mine' => fs'[seen.target] = seen.old
                             /\ seen.fromOld \in mine' => fs'[seen.from] = seen.fromOld
    BY <1>1, <2>1, <2>2 DEF Replaced
  <2>4. step = "placed" => fs'[rec.target] \notin Recorded' BY <1>1, <2>1 DEF Replaced
  <2> QED BY <2>1, <2>3, <2>4 DEF Replaced
<1>10. ASSUME NEW n \in Files, Index(n) PROVE Replaced'
  <2>1. Upsert(n) /\ UNCHANGED <<fs, mine, rec, step, seen, row>> BY <1>10 DEF Index
  <2>2. /\ media'.path = media.path
        /\ \A c \in Recorded' \ Recorded :
             /\ c = fs[n] /\ ~Skipped(n) /\ c \notin {rec.old, rec.fromOld}
             /\ OwnPath(n) => entry'.fresh = "no"
        /\ UNCHANGED <<media, entry>> \/ entry'.fresh = "no"
    BY <2>1, Indexed
  <2>3. \A m \in Files : fs[m] \in Recorded' \ Recorded => m = n \/ {m, n} \subseteq link
    BY <2>1, <2>2 DEF Unique, Recorded
  <2>4. step \in {"prepared", "placed"} => \A m \in Files : fs[m] \in Recorded' \ Recorded => m = n
    BY <1>1, <2>3, LinkedFiles DEF Journal, Attempt, Placing
  <2>5. ASSUME step = "prepared", entry'.fresh = "yes"
        PROVE  seen.old \notin Recorded' /\ seen.fromOld \notin Recorded'
    <3>1. media.loc # "none" /\ seen.from = media.path /\ media.path \in Files
      BY <1>1, <2>5 DEF Versions, Journal, Files
    <3>2. entry.fresh = "yes" /\ ~(\E c \in Recorded' \ Recorded : OwnPath(n)) BY <2>2, <2>5
    <3>3. seen.fromOld \notin Recorded'
      BY <2>1, <2>2, <2>4, <2>5, <3>1, <3>2 DEF Replaced, Recorded, OwnPath
    <3>4. seen.old \notin Recorded'
      BY <1>1, <2>1, <2>2, <2>4, <2>5, <3>1, <3>2 DEF Replaced, Recorded, OwnPath
    <3> QED BY <3>3, <3>4
  <2>6. step = "placed" => fs[rec.target] \notin Recorded'
    <3>1. step = "placed" => rec.target \in Files /\ Skipped(rec.target)
      BY <1>1 DEF Journal, Placing, Skipped, Files
    <3> QED BY <2>2, <2>4, <3>1 DEF Replaced
  <2> QED BY <2>1, <2>2, <2>5, <2>6 DEF Replaced
<1>11. ASSUME NEW v \in 1..MaxVersion, NEW p \in Path, Observe(v, p) PROVE Replaced'
  <2>1. step' \notin {"prepared", "placed"} /\ rec' = rec /\ step = "received"
    BY <1>11 DEF Observe
  <2>2. rec.kind = "none" BY <1>1, <2>1 DEF Journal
  <2> QED BY <2>1, <2>2 DEF Replaced
<1>12. ASSUME NEW n \in Files, IndexGone(n) PROVE Replaced'
  <2>1. UNCHANGED <<fs, rec, seen, step, mine, known>> /\ Recorded' = Recorded /\ RowsOK
    BY <1>12 DEF IndexGone, Recorded, Typed
  <2>2. media'.path = media.path /\ (entry'.fresh = entry.fresh \/ entry'.fresh = "no")
    BY <1>12, <2>1 DEF IndexGone, RowsOK
  <2> QED BY <2>1, <2>2 DEF Replaced
<1>13. ASSUME NEW r \in Role, Download(r) PROVE Replaced'
  BY <1>2, <1>13 DEF Download, Recorded
<1> QED
  BY <1>3, <1>5, <1>6, <1>7, <1>8, <1>9, <1>10, <1>11, <1>12, <1>13, <1>4
  DEF PubNext, PubCycle, Recovery, Receiving, Transfer, Environment, Files

\* Every step keeps recorded edits in a file: what it overwrites or removes is the
\* replaced version, a version of the cloud, or has another name.
LEMMA KeptStep ==
    ASSUME Typed, Linked, Preserved, Windows, Fresh, Replaced, Kept, PubNext
    PROVE  Kept'
<1>1. /\ FilesOK /\ Journal /\ rec.target \in Name /\ rec.from \in Name
      /\ media.path \in Path
      /\ Absent \notin Recorded /\ (\A v : Cloud(v) \notin Recorded) /\ edits \in Int
  BY SMTT(60), JournalNames, NotMine, PublicationBounds DEF Typed, RowsOK, HistoryOK, Recorded
\* A file may change only if what it held is not recorded or is in another file.
<1>2. ASSUME Recorded' \subseteq Recorded,
             \A n \in Files : fs[n] \in Recorded' => \E m \in Files : fs'[m] = fs[n]
      PROVE  Kept'
  BY <1>2 DEF Kept
<1> USE Constants, Apart DEF FilesOK, Files, Exists, Written, Without
<1>3. CASE RecoverFiles
  <2>1. Recorded' = Recorded /\ ~RecoveryRefused BY <1>3 DEF RecoverFiles, Recorded
  <2>2. CASE RecoverCollision
    <3>1. rec.kind = "collision" /\ rec.target \in Path /\ rec.from \in Suffixed
      BY <1>1, <2>2 DEF RecoverCollision, Journal
    <3>2. CASE fs[rec.from] # Absent /\ fs[rec.target] = Absent
      <4>1. fs' = Written(rec.target, fs[rec.from]) BY <2>2, <3>2 DEF RecoverCollision
      <4> QED BY <1>1, <1>2, <2>1, <3>2, <4>1
    <3>3. CASE ~(fs[rec.from] # Absent /\ fs[rec.target] = Absent)
      <4>1. fs' = Written(rec.from, Absent) BY <2>2, <3>3 DEF RecoverCollision
      <4>2. fs[rec.from] \in {Absent, fs[rec.target]}
        BY <2>1, <3>1, <3>3 DEF RecoveryRefused
      <4> QED BY <1>1, <1>2, <2>1, <3>1, <4>1, <4>2
    <3> QED BY <3>2, <3>3
  <2>3. CASE RecoverPair
    <3>1. /\ rec.kind = "pair" /\ rec.target \in Path /\ rec.from \in Path
          /\ rec.old \notin Recorded /\ rec.fromOld \notin Recorded
      BY <1>1, <2>3 DEF RecoverPair, Journal, Replaced
    <3>2. CASE row.state = "complete"
      <4>1. rec.from = rec.target \/ fs[rec.from] \notin Recorded
        BY <1>1, <2>1, <3>1, <3>2 DEF RecoveryRefused, SourceEdited
      <4>2. fs' = Without({"backup", "next"} \cup ({rec.from} \ {rec.target}))
        BY <2>3, <3>2 DEF RecoverPair
      <4> QED BY <1>1, <1>2, <2>1, <3>1, <4>1, <4>2
    <3>3. CASE row.state = "publishing" /\ fs["backup"] # Absent
      <4>1. fs[rec.target] \notin Recorded
        BY <1>1, <2>1, <3>1, <3>3 DEF RecoveryRefused, EditedTarget, Published
      <4>2. fs' = [Renamed("backup", rec.target) EXCEPT !["next"] = Absent]
        BY <2>3, <3>3 DEF RecoverPair
      <4>3. \A n \in Files : n # rec.target => fs'[n] = fs[n] BY <1>1, <3>1, <4>2 DEF Renamed
      <4> QED BY <1>2, <2>1, <4>1, <4>3
    <3>4. CASE row.state = "publishing" /\ fs["backup"] = Absent
      <4>1. rec.old = Absent => fs[rec.target] \notin Recorded
        BY <1>1, <2>1, <3>1, <3>4 DEF RecoveryRefused, Published
      <4>2. fs' = Without({"next"} \cup IF rec.old = Absent THEN {rec.target} ELSE {})
        BY <2>3, <3>4 DEF RecoverPair
      <4> QED BY <1>1, <1>2, <2>1, <3>1, <4>1, <4>2
    <3> QED BY <2>3, <3>2, <3>3, <3>4 DEF RecoverPair
  <2> QED BY <1>3, <2>2, <2>3 DEF RecoverFiles
<1>4. CASE LinkCollision
  <2>1. step = "move" /\ ~Exists(rec.from) BY <1>4 DEF LinkCollision, Preserved
  <2> QED BY <1>1, <1>2, <1>4, <2>1 DEF LinkCollision, Recorded
<1>5. CASE RemoveCollisionSource
  <2>1. /\ rec.target \in Path /\ rec.from \in Suffixed
        /\ fs[rec.target] \notin mine \/ fs[rec.from] = fs[rec.target]
    BY <1>1, <1>5 DEF RemoveCollisionSource, Journal, Moving, Windows
  <2>2. fs' = Written(rec.target, Absent) /\ Recorded' = Recorded
    BY <1>5 DEF RemoveCollisionSource, Recorded
  <2> QED BY SMTT(60), <1>1, <1>2, <2>1, <2>2 DEF Recorded
<1>6. CASE Place
  <2>1. /\ rec.kind = "pair" /\ rec.target \in Path /\ rec.old \notin Recorded
        /\ fs[rec.target] \in {rec.old, Absent} \/ fs[rec.target].by = "race"
    BY <1>1, <1>6 DEF Place, Journal, Placing, Replaced, Windows
  <2>2. fs[rec.target] \notin Recorded BY <1>1, <2>1 DEF Fresh, Recorded
  <2>3. \A n \in Files : n # rec.target => fs'[n] = fs[n] BY <1>1, <1>6, <2>1 DEF Place, Renamed
  <2>4. Recorded' = Recorded BY <1>6 DEF Place, Recorded
  <2> QED BY <1>2, <2>2, <2>3, <2>4
<1>7. CASE AdmitFails
  <2>1. Recorded' = Recorded /\ rec.target \in Path
    BY <1>1, <1>7 DEF AdmitFails, Recorded, Journal, Placing
  <2>2. UNCHANGED files \/ fs[rec.target] \notin Recorded BY <1>1, <1>7 DEF AdmitFails, Published
  <2>3. \A n \in Files : n # rec.target => fs'[n] = fs[n]
    BY <1>1, <1>7, <2>1 DEF AdmitFails, Renamed
  <2> QED BY <1>2, <2>1, <2>2, <2>3
<1>8. CASE Sweep
  <2>1. Recorded' = Recorded /\ rec.from \in Path /\ rec.fromOld \notin Recorded
    BY <1>1, <1>8 DEF Sweep, Recorded, Journal, Replaced
  <2>2. \/ fs' = Written("backup", Absent)
        \/ /\ rec.from = rec.target \/ fs[rec.from] \notin Recorded
           /\ fs' = Without({"backup"} \cup ({rec.from} \ {rec.target}))
    BY <1>1, <1>8, <2>1 DEF Sweep, SourceEdited
  <2> QED BY <1>1, <1>2, <2>1, <2>2
<1>9. CASE SaveEdit
  <2> DEFINE new == [by |-> "user", n |-> edits + 1]
  <2>1. /\ fs' = [fs EXCEPT ![media.path] = new]
        /\ mine' = (mine \ {fs[media.path]}) \cup {new} /\ known' = known \cup {new}
    BY <1>9 DEF SaveEdit
  <2>2. fs[media.path] # new BY SMTT(60), <1>1 DEF Fresh, Old
  <2> HIDE DEF new
  <2>3. fs'[media.path] = new /\ \A n \in Files : n # media.path => fs'[n] = fs[n] BY <1>1, <2>1
  <2>4. Recorded' \subseteq (Recorded \ {fs[media.path]}) \cup {new} BY <2>1, <2>2 DEF Recorded
  <2> QED BY <1>1, <2>3, <2>4 DEF Kept
<1>10. ASSUME NEW n \in Files, UserDeletes(n) \/ UserWrites(n, "inPlace") \/ UserWrites(n, "replace")
      PROVE Kept'
  <2>1. /\ \A m \in Name : fs'[m] = fs[m] \/ (fs'[m] \notin Recorded' /\ fs[m] \notin mine')
        /\ Recorded' \subseteq Recorded
    BY <1>10, Outside
  <2> QED BY <1>2, <2>1 DEF Recorded
<1>11. ASSUME NEW n \in Files, Upsert(n), UNCHANGED <<fs, mine, rec>> PROVE Kept'
  <2>1. \A c \in Recorded' \ Recorded : c = fs[n] BY <1>11, Indexed
  <2> QED BY <1>11, <2>1 DEF Kept
<1>12. CASE RecoverCommit \/ Prepare \/ Publishing \/ LinkBackup
  <2>1. Recorded' = Recorded /\ \A n \in Files : fs'[n] = fs[n]
    BY <1>1, <1>12 DEF RecoverCommit, Prepare, Publishing, LinkBackup, Recorded
  <2> QED BY <1>2, <2>1
<1>13. CASE \/ BeginCycle \/ NothingToRecover \/ RecoveryFails \/ NothingReceived \/ PromotePhoto
            \/ (\E k \in Suffixed : BeginCollision(k)) \/ FinishCollision
            \/ (\E r \in Role : Download(r))
            \/ Recheck \/ Admit \/ CleanPublication \/ EndTransfer \/ Crash \/ Restart
            \/ \E n \in Files : IndexGone(n)
  <2>1. fs' = fs /\ mine' \subseteq mine /\ known' \subseteq known
    BY <1>13 DEF BeginCycle, NothingToRecover, RecoveryFails, NothingReceived, PromotePhoto,
      ProjectConflict, ProjectLocal, ProjectRemote, BeginCollision, FinishCollision, Download,
      Recheck,
      Admit, CleanPublication, EndTransfer, Crash, Restart, IndexGone
  <2> QED BY <1>2, <2>1 DEF Recorded
<1>14. ASSUME NEW v \in 1..MaxVersion, NEW p \in Path, Observe(v, p) PROVE Kept'
  BY <1>11, <1>14 DEF Observe
<1>15. ASSUME NEW n \in Files, Index(n) PROVE Kept'
  <2>1. Upsert(n) /\ UNCHANGED <<fs, mine, rec>> BY <1>15 DEF Index
  <2> QED BY <1>11, <2>1
<1> QED
  BY <1>3, <1>4, <1>5, <1>6, <1>7, <1>8, <1>9, <1>10, <1>12, <1>13, <1>14, <1>15
  DEF PubNext, PubCycle, Recovery, Receiving, Transfer, Environment

\* Recorded edits are captured, journalled by nobody and kept in every behaviour.
LEMMA KeptInductive ==
    PubSpec => [](Fresh /\ Unique /\ Own /\ Windows /\ Captured /\ Replaced /\ Kept)
<1> DEFINE Lower == Typed /\ Linked /\ Preserved /\ Versions /\ Rest
           Upper == Fresh /\ Unique /\ Own /\ Windows /\ Captured /\ Replaced /\ Kept
<1>1. PubInit => Upper
  <2> SUFFICES ASSUME PubInit PROVE Upper OBVIOUS
  <2>1. /\ mine = {} /\ known = {} /\ step = "idle" /\ row.state = "none" /\ media.loc = "none"
        /\ rec = NoDetails /\ seen = NoDetails /\ \A n \in Name : fs[n] = Absent
    BY DEF PubInit
  <2>2. Fresh BY SMTT(60), <2>1 DEF Fresh, Old, NoDetails, Absent
  <2>3. Unique /\ Own /\ Windows BY <2>1 DEF Unique, Own, Windows
  <2>4. Captured /\ Replaced /\ Kept BY <2>1 DEF Captured, Replaced, Kept, Recorded, NoDetails
  <2> QED BY <2>2, <2>3, <2>4
<1>2. Upper /\ UNCHANGED pubVars => Upper'
  <2> SUFFICES ASSUME Upper, UNCHANGED pubVars PROVE Upper' OBVIOUS
  <2>1. Fresh' BY DEF pubVars, Fresh, Old
  <2>2. Unique' /\ Own' /\ Windows' BY DEF pubVars, Unique, Own, Windows, Exists
  <2>3. Captured' BY DEF pubVars, Captured, Recorded, OwnPath
  <2>4. Replaced' /\ Kept' BY DEF pubVars, Replaced, Kept, Recorded
  <2> QED BY <2>1, <2>2, <2>3, <2>4
<1>3. Lower /\ Upper /\ PubNext => Upper'
  BY FreshStep, UniqueStep, OwnStep, WindowsStep, CapturedStep, ReplacedStep, KeptStep
<1>4. PubSpec => []Lower BY PreservedInductive, RestInductive, PTL
<1> HIDE DEF Lower, Upper
<1>5. PubSpec => []Upper BY <1>1, <1>2, <1>3, <1>4, PTL DEF PubSpec
<1> QED BY <1>5 DEF Upper

\* An edit the index recorded is never lost to a publication, a collision move or
\* their repair, whatever the interleaving with the user and the index and wherever
\* the process dies, until the user replaces or deletes it or a newer remote edit
\* wins (publish_pair, check_publication, recover_publications, collisions.rs).
THEOREM RecordedEditAlwaysKept == PubSpec => []RecordedEditKept
<1>1. Kept => RecordedEditKept
  BY Constants DEF Kept, RecordedEditKept, Held, Recorded, Files
<1> QED BY <1>1, KeptInductive, PTL
=============================================================================
