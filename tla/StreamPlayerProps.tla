------------------------- MODULE StreamPlayerProps -------------------------
(***************************************************************************)
(* What a pane's player must get right while sessions overlap.             *)
(***************************************************************************)
EXTENDS StreamPlayer

Clips  == 0..MaxClips
Shown  == {"Idle", "Connecting", "Streaming", "Error", "Stopped"}
Stages == {"off", "begin", "open", "loop", "read", "decode", "back", "over", "done"}

News ==
       [what : {"state"}, from : Sessions, state : Shown]
  \cup [what : {"frame"}, from : Sessions]
  \cup [what : {"recording"}, from : Sessions, on : BOOLEAN, clip : Clips]

(* Every variable keeps its type, and the queued calls their bound.        *)
TypeOK ==
  /\ cur \in 0..started /\ started \in 0..MaxSessions /\ clips \in Clips
  /\ state \in Shown \cup {"Gone"} /\ recording \in BOOLEAN
  /\ {held, screen} \subseteq 0..started
  /\ posts \in Seq(News) /\ Len(posts) <= MaxPosts
  /\ kind \in [Sessions -> Kinds \cup {"once"}] /\ recPath \in [Sessions -> Clips]
  /\ UNION {alive, abort, lastError, wanted, streaming} \subseteq 1..started
  /\ pc \in [Sessions -> Stages] /\ tries \in [Sessions -> 0..Budget]
  /\ frames \in [Sessions -> {"none", "some", "many"}]
  /\ recorder \in [Sessions -> [clip : Clips, key : BOOLEAN]]
  /\ failures \in [Sessions -> Nat] /\ saved \subseteq 1..clips

-----------------------------------------------------------------------------
(* Sessions                                                                *)

(* At most one session is meant to have the camera: every one but the      *)
(* current has been told to end and can no longer reach the object,        *)
(* whatever pages start and stop ("stop()/destruction signal abort and     *)
(* detach", StreamPlayer.h).  One that was told to end may still read:     *)
(* that it does end is WorkersProceed.                                     *)
OneStream == alive = {cur} \ {None} /\ abort = 1..started \ alive

(* The sink is never given a picture of a session that was stopped or      *)
(* replaced, neither from the event queue nor from the smoothing buffer    *)
(* (applyFrameFromWorker, resetPlayout).                                   *)
OnlyCurrentOnScreen == [][screen' # screen => screen' = cur]_vars

(* A worker that has ended by itself is shown as stopped, or will be: no   *)
(* late call of an earlier session covers that up for good (runWorker).    *)
EndIsShown ==
  cur # None /\ pc[cur] = "done" =>
    \/ state = "Stopped"
    \/ \E k \in 1..Len(posts) : posts[k] = State(cur, "Stopped")

(* The picture of the current session is shown once nothing is queued:     *)
(* panes show the sink only in state Streaming ("auto-reconnect",          *)
(* README.md; LivePane.qml hides it in any other state).                   *)
PictureIsShown ==
  cur # None /\ frames[cur] # "none" /\ pc[cur] \in {"loop", "read", "decode"} /\ posts = <<>>
    => state = "Streaming"

-----------------------------------------------------------------------------
(* Retries                                                                 *)

(* Playback from a busy NVR asks Budget times for want of progress, then   *)
(* lets it be ("capped so it can't loop forever", runWorker).              *)
RetriesAreLimited == \A s \in Sessions : kind[s] # "live" => failures[s] <= Budget

(* "Live sources reconnect indefinitely" (runWorker): a live worker that   *)
(* is not stopped leaves its loop only while it opens the stream - there   *)
(* it ends for good when the stream has no video or none that can be       *)
(* decoded ("terminal non-retryable end") - and after every other failure  *)
(* it opens again; and a session that was cut loose gives its stream back. *)
WorkersProceed ==
  /\ [][\A s \in Sessions :
          kind[s] = "live" /\ pc[s] # "over" /\ pc'[s] = "over"
            => s \in abort \/ pc[s] = "open"]_vars
  /\ \A s \in Sessions :
       /\ pc[s] = "back" /\ kind[s] = "live" ~> pc[s] = "open" \/ s \in abort
       /\ s \in abort ~> pc[s] = "done"

-----------------------------------------------------------------------------
(* Recordings                                                              *)

(* No file is left open by a worker that has ended ("Finalize on any       *)
(* session exit", StreamPlayer.cpp:791), and what was announced as saved   *)
(* is not being written any more; and the user always sees that a          *)
(* recording runs, whatever earlier sessions and recordings still have     *)
(* queued: the flag is set, or the last news on its way from the current   *)
(* session says so.  Whether a recording outlives a reconnect is           *)
(* TapsSurviveReconnects.                                                  *)
RecordingsAreInOrder ==
  /\ \A s \in Sessions : recorder[s].clip # 0 =>
       pc[s] \notin {"off", "over", "done"} /\ recorder[s].clip \notin saved
  /\ cur # None /\ recorder[cur].clip # 0 =>
       LET news == {k \in 1..Len(posts) : posts[k].what = "recording" /\ posts[k].from = cur} IN
         \/ news = {} /\ recording
         \/ \E k \in news : posts[k].on /\ \A l \in news : l <= k

(* "Recording taps survive reconnects" (docs/DESIGN.md:298): an attempt    *)
(* that ends to be repeated leaves the request to record in place.  The    *)
(* code says the opposite ("Recording does not survive a reconnect - it    *)
(* saves what it has and disarms", StreamPlayer.cpp:791).                  *)
TapsSurviveReconnects ==
  [][\A s \in Sessions :
       s \in wanted /\ recorder[s].clip # 0 /\ pc[s] = "read" /\ pc'[s] = "back"
         => s \in wanted']_vars
=============================================================================
