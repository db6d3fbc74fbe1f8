------------------------------- MODULE Stage -------------------------------
(***************************************************************************)
(* What the viewer paints (ui/viewer/stage.rs, the stage half of show_at   *)
(* in viewer_page.rs, the texture the editor borrows in viewer/editor.rs). *)
(*                                                                         *)
(* Every switch bumps current_token and sends out up to four workers: the  *)
(* preview thumbnail, the decode of the original, the frames of an         *)
(* animation, the clip of a motion photo; a video attaches a stream whose  *)
(* notifications arrive later.  They land in any order, before or after    *)
(* the next switch, and the picture keeps the previous frame until one of  *)
(* them paints.  `fresh' says that a worker's token is the page's.         *)
(***************************************************************************)
EXTENDS Integers, FiniteSets

CONSTANTS
    StageMedia,    \* photographs
    StageKind,     \* [StageMedia -> image, gif, motion, video]
    StageBudgets   \* sessions: the first item, the cloud-only ones and a bound on each input

VARIABLES
    stItem,     \* the displayed item as the list holds it: id, local
    stTex,      \* paintable of the picture, if any: whose and which
    stView,     \* picture, video or error: the visible surface
    stSpin,     \* the spinner turns
    stOrig,     \* original_painted_token = current_token
    stAnim,     \* animated_image_source holds a timer
    stStream,   \* the stream attached to the video widget, if any
    stJobs,     \* workers under way and notifications to come
    stEdit,     \* the edit button is sensitive
    stEditing,  \* is_editing
    stSaved,    \* original_texture
    stLocal,    \* items whose original is on this machine, per the database
    stKnown,    \* the ones the page's list knows of
    stBudget,
    stGhost     \* history: what the code does not promise to repair

stageVars == <<stItem, stTex, stView, stSpin, stOrig, stAnim, stStream, stJobs, stEdit,
               stEditing, stSaved, stLocal, stKnown, stBudget, stGhost>>

StageSpend(what) ==
    /\ stBudget[what] > 0
    /\ stBudget' = [stBudget EXCEPT ![what] = @ - 1]

StageJob(what, id) == [what |-> what, id |-> id, fresh |-> TRUE]
Paint(id, grade) == {[id |-> id, grade |-> grade]}
Voided(jobs) == {[j EXCEPT !.fresh = FALSE] : j \in jobs}

IsVideo(id) == StageKind[id] = "video"
\* is_editable_image: a standard picture whose original is here.
IsEditableImage(item) == item.local /\ StageKind[item.id] = "image"
\* A media stream notifies prepared, error and ended.
IsStream(j) == j.what \in {"stream", "clipstream"}

(***************************************************************************)
(* show_at                                                                 *)
(***************************************************************************)
StageSpinner(on) == stSpin' = on

\* The workers a local picture starts: its preview, and its frames or its original.
ImageJobs(id) ==
    {StageJob("thumb", id),
     StageJob(IF StageKind[id] = "gif" THEN "frames" ELSE "orig", id)}

\* Motion photos play by themselves when the preference says so.
AutoPlays(id) == StageKind[id] = "motion" /\ stBudget.autoplay

\* A preview without an original: no stream, no editing.
ShowCloudOnly(id, jobs) ==
    /\ stView' = "picture" /\ stStream' = {}
    /\ StageSpinner(stTex = {})
    /\ stEdit' = FALSE
    /\ stJobs' = jobs \cup {StageJob("thumb", id)}

\* show_video_stage: the preview stays up, under a spinner, until the stream is prepared.
ShowVideoStage(id, jobs) ==
    /\ stView' = "picture"
    /\ StageSpinner(TRUE)
    /\ stEdit' = FALSE
    /\ stStream' = {[id |-> id, motion |-> FALSE]}
    /\ stJobs' = jobs \cup {StageJob("thumb", id), StageJob("stream", id)}

\* The stream already attached for this very item is kept, with whatever it shows.
ReuseVideoStream(id, jobs) ==
    /\ StageSpinner(stTex = {})
    /\ stJobs' = jobs \cup {StageJob("thumb", id)}
    /\ UNCHANGED <<stView, stStream, stEdit>>

StreamAttached(id) == [id |-> id, motion |-> FALSE] \in stStream

ShowVideo(id, jobs) ==
    IF StreamAttached(id) THEN ReuseVideoStream(id, jobs) ELSE ShowVideoStage(id, jobs)

ShowImage(id, jobs) ==
    /\ stView' = "picture" /\ stStream' = {}
    /\ StageSpinner(stTex = {} \/ AutoPlays(id))
    /\ stEdit' = FALSE
    /\ stJobs' = jobs \cup ImageJobs(id)
                    \cup (IF AutoPlays(id) THEN {StageJob("clip", id)} ELSE {})

\* Every switch makes the workers under way stale and leaves the previous frame up.
ShowStage(id, local, jobs) ==
    /\ stItem' = [id |-> id, local |-> local]
    /\ stOrig' = FALSE /\ stAnim' = FALSE
    /\ IF ~local THEN ShowCloudOnly(id, Voided(jobs))
       ELSE IF IsVideo(id) THEN ShowVideo(id, Voided(jobs))
       ELSE ShowImage(id, Voided(jobs))
    /\ stGhost' = [stGhost EXCEPT
          !.dropped = FALSE,
          !.underEditor = @ \/ stEditing,
          !.stale = ~local /\ id \in stLocal /\ ~\E j \in jobs : j.what = "event",
          !.reused = local /\ StreamAttached(id) /\ stView # "video"]
    /\ UNCHANGED stTex

\* A navigation settles on an item of the list; under the editor only an undone deletion does.
SwitchStage(id) ==
    /\ StageSpend("switch")
    /\ stEditing => stBudget.undo
    /\ ShowStage(id, id \in stKnown, stJobs)
    /\ UNCHANGED <<stEditing, stSaved, stLocal, stKnown>>

\* Retry on the error surface shows the current index again.
RetryStage ==
    /\ stView = "error" /\ StageSpend("retry")
    /\ ShowStage(stItem.id, stItem.id \in stKnown, stJobs)
    /\ UNCHANGED <<stEditing, stSaved, stLocal, stKnown>>

(***************************************************************************)
(* Landings                                                                *)
(***************************************************************************)
Drop(j) == stJobs' = stJobs \ {j}

\* show_media_error_background: both surfaces give way to the error.
ShowMediaErrorBackground ==
    /\ stView' = "error"
    /\ StageSpinner(FALSE)

\* The preview: suppressed by a newer switch, a running animation or a landed original; the
\* stand-in for a file that cannot be decoded raises the error surface.
ThumbSuppressed_stale(j) == stAnim \/ stOrig
ThumbSuppressed(j) == ~j.fresh \/ stAnim \/ stOrig

LandThumb(j, outcome) ==
    /\ j.what = "thumb" /\ Drop(j)
    /\ IF ThumbSuppressed(j) \/ outcome = "dropped"
       THEN UNCHANGED <<stTex, stView, stSpin>>
       ELSE IF outcome = "unavailable" THEN ShowMediaErrorBackground /\ UNCHANGED stTex
       ELSE stTex' = Paint(j.id, "thumb") /\ StageSpinner(FALSE) /\ UNCHANGED stView
    /\ stGhost' = [stGhost EXCEPT !.dropped = @ \/ (j.fresh /\ outcome = "dropped")]
    /\ UNCHANGED <<stOrig, stAnim, stStream, stEdit>>

\* The original: recorded as landed before it paints.
OriginalLands(j) ==
    /\ stOrig' = TRUE
    /\ stTex' = Paint(j.id, "orig")
    /\ StageSpinner(FALSE)
    /\ stEdit' = IsEditableImage(stItem)
    /\ UNCHANGED stView

\* A failed decode shows the error only when nothing is painted.
OriginalFails ==
    /\ IF stTex # {} THEN StageSpinner(FALSE) /\ UNCHANGED stView ELSE ShowMediaErrorBackground
    /\ UNCHANGED <<stTex, stOrig, stEdit>>

LandOriginal(j, outcome) ==
    /\ j.what = "orig" /\ Drop(j)
    /\ IF ~j.fresh THEN UNCHANGED <<stTex, stView, stSpin, stOrig, stEdit>>
       ELSE IF outcome = "ok" THEN OriginalLands(j)
       ELSE OriginalFails
    /\ UNCHANGED <<stAnim, stStream, stGhost>>

\* The frames of an animation: fewer than two means an ordinary picture.
LandFrames(j, outcome) ==
    /\ j.what = "frames"
    /\ \/ /\ outcome = "failed"
          /\ StageSpinner(FALSE) /\ Drop(j)
          /\ UNCHANGED <<stTex, stAnim, stEdit>>
       \/ /\ outcome # "failed" /\ ~j.fresh /\ Drop(j)
          /\ UNCHANGED <<stTex, stSpin, stAnim, stEdit>>
       \/ /\ outcome = "single" /\ j.fresh
          /\ stJobs' = (stJobs \ {j}) \cup {StageJob("orig", j.id)}
          /\ UNCHANGED <<stTex, stSpin, stAnim, stEdit>>
       \/ /\ outcome = "ok" /\ j.fresh
          /\ stTex' = Paint(j.id, "frame")
          /\ StageSpinner(FALSE)
          /\ stEdit' = IsEditableImage(stItem)
          /\ stAnim' = TRUE
          /\ stJobs' = (stJobs \ {j}) \cup {StageJob("tick", j.id)}
    /\ UNCHANGED <<stView, stOrig, stStream, stGhost>>

\* The animation's timer paints the next frame and sets itself again.
TickFrame(j) ==
    /\ j.what = "tick"
    /\ IF j.fresh /\ stAnim THEN stTex' = Paint(j.id, "frame") /\ UNCHANGED stJobs
       ELSE Drop(j) /\ UNCHANGED stTex
    /\ UNCHANGED <<stView, stSpin, stOrig, stAnim, stStream, stEdit, stGhost>>

\* The clip of a motion photo: attached to the video widget of the page it was asked for.
ShowMotionVideoStage(j) ==
    /\ stAnim' = FALSE
    /\ stView' = "picture"
    /\ StageSpinner(TRUE)
    /\ stEdit' = FALSE
    /\ stStream' = {[id |-> j.id, motion |-> TRUE]}
    /\ stJobs' = (stJobs \ {j}) \cup {StageJob("clipstream", j.id)}

LandClip(j, outcome) ==
    /\ j.what = "clip"
    /\ \/ outcome = "failed" /\ StageSpinner(FALSE) /\ Drop(j)
          /\ UNCHANGED <<stView, stAnim, stStream, stEdit>>
       \/ outcome = "ok" /\ ~j.fresh /\ Drop(j)
          /\ UNCHANGED <<stView, stSpin, stAnim, stStream, stEdit>>
       \/ outcome = "ok" /\ j.fresh /\ ShowMotionVideoStage(j)
    /\ UNCHANGED <<stTex, stOrig, stGhost>>

\* The still picture comes back when the clip ends or fails.
RestoreImageAfterMotionVideo ==
    /\ stView' = "picture" /\ stStream' = {}
    /\ stEdit' = IsEditableImage(stItem)

\* A video that cannot be played.
StreamFails == ShowMediaErrorBackground

\* The stream reports that it is prepared, that it failed, or that the clip ended.
NotifyStream(j, outcome) ==
    /\ IsStream(j)
    /\ IF ~j.fresh
       THEN Drop(j) /\ UNCHANGED <<stView, stSpin, stStream, stEdit>>
       ELSE \/ /\ outcome = "prepared"
               /\ stView' = "video" /\ StageSpinner(FALSE)
               /\ UNCHANGED <<stJobs, stStream, stEdit>>
            \/ /\ outcome = "failed" /\ Drop(j)
               /\ IF j.what = "clipstream"
                  THEN RestoreImageAfterMotionVideo /\ StageSpinner(FALSE)
                  ELSE StreamFails /\ UNCHANGED <<stStream, stEdit>>
            \/ /\ outcome = "ended" /\ j.what = "clipstream" /\ stView = "video" /\ Drop(j)
               /\ RestoreImageAfterMotionVideo
               /\ UNCHANGED stSpin
    /\ UNCHANGED <<stTex, stOrig, stAnim, stGhost>>

\* The outcomes a worker or a stream may report; the ones that are not the usual answer
\* are bounded.
Usual == {"ok", "prepared", "ended"}

Land(j, outcome) ==
    /\ IF outcome \in Usual THEN UNCHANGED stBudget ELSE StageSpend("fail")
    /\ \/ outcome \in {"ok", "unavailable", "dropped"} /\ LandThumb(j, outcome)
       \/ outcome \in {"ok", "failed"} /\ LandOriginal(j, outcome)
       \/ outcome \in {"ok", "failed", "single"} /\ LandFrames(j, outcome)
       \/ outcome \in {"ok", "failed"} /\ LandClip(j, outcome)
       \/ outcome \in {"prepared", "failed", "ended"} /\ NotifyStream(j, outcome)
    /\ UNCHANGED <<stItem, stEditing, stSaved, stLocal, stKnown>>

Landings ==
    \E j \in stJobs :
        \E outcome \in Usual \cup {"unavailable", "dropped", "failed", "single"} : Land(j, outcome)

Tick ==
    /\ \E j \in stJobs : TickFrame(j)
    /\ UNCHANGED <<stItem, stEditing, stSaved, stLocal, stKnown, stBudget>>

\* The play button of a motion photo.
PlayMotion ==
    /\ StageKind[stItem.id] = "motion" /\ stItem.local /\ stStream = {} /\ ~stEditing
    /\ \A j \in stJobs : ~(j.what = "clip" /\ j.fresh)
    /\ StageSpend("play")
    /\ stJobs' = stJobs \cup {StageJob("clip", stItem.id)}
    /\ StageSpinner(TRUE)
    /\ UNCHANGED <<stItem, stTex, stView, stOrig, stAnim, stStream, stEdit, stEditing, stSaved,
                   stLocal, stKnown, stGhost>>

(***************************************************************************)
(* The editor borrows the picture                                          *)
(***************************************************************************)
OpenEditor ==
    /\ stEdit /\ ~stEditing /\ stView = "picture" /\ IsEditableImage(stItem)
    /\ StageSpend("edit")
    /\ stEditing' = TRUE
    /\ stSaved' = stTex
    /\ UNCHANGED <<stItem, stTex, stView, stSpin, stOrig, stAnim, stStream, stJobs, stEdit,
                   stLocal, stKnown, stGhost>>

\* A rendered preview of the edits replaces the picture.
PreviewEdits ==
    /\ stEditing
    /\ stTex' = Paint(stItem.id, "edit")
    /\ UNCHANGED <<stItem, stView, stSpin, stOrig, stAnim, stStream, stJobs, stEdit, stEditing,
                   stSaved, stLocal, stKnown, stBudget, stGhost>>

CloseEditor ==
    /\ stEditing
    /\ stEditing' = FALSE
    /\ stTex' = IF stSaved # {} THEN stSaved ELSE stTex
    /\ stSaved' = {}
    /\ UNCHANGED <<stItem, stView, stSpin, stOrig, stAnim, stStream, stJobs, stEdit, stLocal,
                   stKnown, stBudget, stGhost>>

(***************************************************************************)
(* A cloud-only photograph gains its original                              *)
(***************************************************************************)
PublishOriginal ==
    /\ StageSpend("publish")
    /\ \E id \in StageMedia \ stLocal :
          /\ stLocal' = stLocal \cup {id}
          \* the publication's events follow its commit
          /\ stJobs' = stJobs \cup {StageJob("event", id)}
    /\ UNCHANGED <<stItem, stTex, stView, stSpin, stOrig, stAnim, stStream, stEdit, stEditing,
                   stSaved, stKnown, stGhost>>

\* refresh_current_cloud_badge: a displayed cloud-only item is read again.  The shared list
\* takes the new row from the same events, the list of an album or a search does not.
HearSyncState(j) ==
    /\ j.what = "event"
    /\ stJobs' = (stJobs \ {j}) \cup
          (IF stItem.local THEN {} ELSE {StageJob("record", stItem.id)})
    /\ stKnown' = IF stBudget.shared THEN stKnown \cup {j.id} ELSE stKnown
    /\ UNCHANGED <<stItem, stTex, stView, stSpin, stOrig, stAnim, stStream, stEdit, stEditing,
                   stSaved, stLocal, stBudget, stGhost>>

\* The row lands: upgraded in place only if the page still shows that cloud-only item.
UpgradesStage(j) == j.fresh /\ stItem.id = j.id /\ ~stItem.local /\ j.id \in stLocal

LandRecord(j) ==
    /\ j.what = "record"
    /\ IF UpgradesStage(j)
       THEN stKnown' = stKnown \cup {j.id} /\ ShowStage(j.id, TRUE, stJobs \ {j})
       ELSE /\ Drop(j)
            /\ UNCHANGED <<stItem, stTex, stView, stSpin, stOrig, stAnim, stStream, stEdit,
                           stKnown, stGhost>>
    /\ UNCHANGED <<stEditing, stSaved, stLocal, stBudget>>

Upgrade == \E j \in stJobs : HearSyncState(j) \/ LandRecord(j)

(***************************************************************************)
(* The specification                                                       *)
(***************************************************************************)
\* The viewer opens on an empty picture.
StageInit ==
    /\ stBudget \in StageBudgets
    /\ stItem = [id |-> stBudget.first, local |-> stBudget.first \notin stBudget.cloud]
    /\ stTex = {} /\ stView = "picture" /\ stSpin = TRUE
    /\ stOrig = FALSE /\ stAnim = FALSE
    /\ stEdit = FALSE /\ stEditing = FALSE /\ stSaved = {}
    /\ stLocal = StageMedia \ stBudget.cloud
    /\ stKnown = stLocal
    /\ stStream = IF stItem.local /\ IsVideo(stItem.id)
                  THEN {[id |-> stItem.id, motion |-> FALSE]} ELSE {}
    /\ stJobs = IF ~stItem.local THEN {StageJob("thumb", stItem.id)}
                ELSE IF IsVideo(stItem.id)
                THEN {StageJob("thumb", stItem.id), StageJob("stream", stItem.id)}
                ELSE ImageJobs(stItem.id)
                        \cup (IF AutoPlays(stItem.id) THEN {StageJob("clip", stItem.id)} ELSE {})
    /\ stGhost = [dropped |-> FALSE, underEditor |-> FALSE, stale |-> FALSE, reused |-> FALSE]

StageNext ==
    \/ \E id \in StageMedia : SwitchStage(id)
    \/ RetryStage \/ Landings \/ Tick \/ PlayMotion
    \/ OpenEditor \/ PreviewEdits \/ CloseEditor
    \/ PublishOriginal \/ Upgrade

\* Workers answer, streams report, the main loop runs their continuations.
StageSpec ==
    /\ StageInit /\ [][StageNext]_stageVars
    /\ WF_stageVars(Landings \/ Upgrade)

(***************************************************************************)
(* Properties                                                              *)
(***************************************************************************)
\* Every worker is one the displayed kind of item starts, and at most one of each answers for
\* the page as it is now.
StageTypeOK ==
    /\ stItem \in [id : StageMedia, local : BOOLEAN]
    /\ \A t \in stTex \cup stSaved :
          t \in [id : StageMedia, grade : {"thumb", "orig", "frame", "edit"}]
    /\ Cardinality(stTex) <= 1 /\ Cardinality(stSaved) <= 1
    /\ stStream \subseteq [id : StageMedia, motion : BOOLEAN] /\ Cardinality(stStream) <= 1
    /\ stView \in {"picture", "video", "error"}
    /\ {stSpin, stOrig, stAnim, stEdit, stEditing} \subseteq BOOLEAN
    /\ \A j \in stJobs : j.fresh /\ j.what # "event" => j.id = stItem.id
    /\ stKnown \subseteq stLocal

PicturePending == \E j \in stJobs : j.fresh /\ j.what \in {"thumb", "orig", "frames"}

\* Once the preview and the original have answered, the picture on screen is the displayed
\* photograph's own, whatever landed late from the photographs before it (show_at keeps the
\* previous frame up and relies on the tokens).  A preview the loader dropped, and a switch made
\* under the editor, are excepted.
OwnPicture ==
    (stView = "picture" /\ ~PicturePending /\ ~stGhost.dropped /\ ~stGhost.underEditor) =>
        \E t \in stTex : t.id = stItem.id

\* A landed original is never replaced by the preview of the same photograph, which may be slower
\* to decode (original_has_landed), nor by an animation's.
OriginalKept ==
    [][(stOrig /\ stOrig' /\ stItem' = stItem /\ ~stGhost.underEditor) =>
          \A t \in stTex' : t.grade \in {"orig", "edit"}]_stageVars

\* What the editor puts back when it is cancelled is the full original of the photograph it was
\* opened on (setup_edit_button saves the paintable, update_edit_button_sensitivity gates it).
EditsTheOriginal ==
    (stEditing /\ ~stGhost.underEditor) => stSaved = Paint(stItem.id, "orig")

\* Audio and video never go on behind another item: the attached stream is the displayed
\* item's, and the video surface is up only with a stream (stop_video_playback).
StreamIsDisplayed ==
    /\ \A st \in stStream : st.id = stItem.id /\ stItem.local
    /\ stView = "video" => stStream # {}

\* The spinner stops: every switch ends in a picture, a playing video or the error surface.
SpinnerEnds == []<>(~stSpin \/ stGhost.dropped)

\* A displayed video ends up playing or on the error surface.  A page shown again for the same
\* video before its stream was prepared is excepted: the stream's handlers hold the old token.
VideoIsRevealed ==
    []<>(stItem.local /\ IsVideo(stItem.id) => stView \in {"video", "error"} \/ stGhost.reused)

\* A cloud-only photograph on screen is shown again from its original once that is published.
CloudIsUpgraded == []<>(stItem.id \in stLocal => stItem.local \/ stGhost.stale)

\* The Retry button of the error surface starts the photograph again (setup_media_error_buttons).
RetryRevives == [][stView = "error" /\ stBudget'.retry # stBudget.retry => stView' # "error"]_stageVars
=============================================================================
