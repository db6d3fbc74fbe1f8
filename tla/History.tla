------------------------------ MODULE History ------------------------------
(***************************************************************************)
(* The server's zone as the receiving client sees it: one ordered history  *)
(* of record changes.  A photo is a pair of records, its CPLAsset ("A") and *)
(* its CPLMaster ("M"); a change writes or deletes one of them.  The two    *)
(* records of a photo carry the content generation of the upload that      *)
(* wrote them; a metadata edit rewrites the asset record and keeps it.      *)
(* A position (sync token, snapshot token) is a number of changes.          *)
(***************************************************************************)
EXTENDS Integers, Sequences, FiniteSetsExt

CONSTANT Photos

RecordTypes == {"M", "A"}

Change == [photo : Photos, rec : RecordTypes, gen : Nat, dead : BOOLEAN]

\* A photo the zone does not hold, or the client does not know.
NoPair == [a |-> 0, m |-> 0]

\* Index of the last change of record r of photo p up to position h.
LastChange(log, r, p, h) ==
    Max({0} \cup {i \in 1..h : log[i].photo = p /\ log[i].rec = r})

Gone(log, p, h) ==
    LET a == LastChange(log, "A", p, h) IN a # 0 /\ log[a].dead

\* The photo at position h: the changes that wrote its two records.
StateAt(log, p, h) ==
    IF Gone(log, p, h) THEN NoPair
    ELSE [a |-> LastChange(log, "A", p, h), m |-> LastChange(log, "M", p, h)]

\* The last change a pair knows of.
Known(v) == Max({v.a, v.m})
=============================================================================
