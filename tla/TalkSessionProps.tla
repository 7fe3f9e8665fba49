-------------------------- MODULE TalkSessionProps --------------------------
(***************************************************************************)
(* What must be true of push-to-talk.                                      *)
(***************************************************************************)
EXTENDS TalkSession

Phases == {"off", "connect", "ability", "config", "reset", "config2", "checked",
           "failed", "ready", "loop", "send", "lost", "close", "done"}

(* Types of the variables of a talk session.                               *)
TypeOK ==
  /\ state \in {"idle", "connecting", "talking", "error", "gone"}
  /\ shared \in Sessions \cup {None}
  /\ mic \in BOOLEAN
  /\ started \in 0..MaxSessions
  /\ captured \in 0..MaxBlocks
  /\ posts \in Seq([what : {"ready", "failed"}, from : Sessions])
  /\ owner \subseteq Sessions
  /\ abort \subseteq Sessions
  /\ queue \in [Sessions -> Seq(1..MaxBlocks)]
  /\ pc \in [Sessions -> Phases]
  /\ status \in [Sessions -> {0, 200, 400, 422}]
  /\ talking \in [Sessions -> BOOLEAN]
  /\ block \in [Sessions -> 0..MaxBlocks]
  /\ link \in [Sessions -> BOOLEAN]
  /\ speaker \in Sessions \cup {None, Other}
  /\ accepted \subseteq Sessions
  /\ heard \in [Sessions -> Seq(1..MaxBlocks)]

-----------------------------------------------------------------------------
(* Who may use the microphone                                              *)

(* The microphone is only ever open for the session that is current and    *)
(* shown as talking, and every other session has been told to end: no      *)
(* order of stop, start and late callbacks leaves the mic hot, or leaves a *)
(* worker that neither the user nor the object can stop any more.          *)
OnlyTheCurrentSession ==
  /\ mic <=> state = "talking"
  /\ IsActive <=> shared # None
  /\ abort = 1..started \ {shared}
  /\ owner = {shared} \ {None}

(* "The microphone is only opened once the camera has accepted the talk    *)
(* config, so a refused session never leaves the mic hot" (TalkSession.h). *)
(* The code violates it: a config that is never answered counts as         *)
(* accepted (README.md, known deviations); no run checks it.               *)
MicOnlyAfterAccept == mic => shared \in accepted

-----------------------------------------------------------------------------
(* Speech and the speaker                                                  *)

(* The camera hears a session's speech in the order it was spoken, nothing *)
(* twice, and nothing that was spoken in another session, although the     *)
(* queue drops blocks under the worker's hands and sessions overlap.       *)
HeardInOrder ==
  \A s \in Sessions :
    /\ \A k, l \in 1..Len(heard[s]) : k < l => heard[s][k] < heard[s][l]
    /\ \A t \in Sessions \ {s} : \A k \in 1..Len(heard[s]), l \in 1..Len(heard[t]) :
         heard[s][k] # heard[t][l]

(* The delay of live speech stays bounded: at most MaxQueue blocks wait.   *)
(* Once a session is cut loose no further block leaves its queue, so what  *)
(* was captured before stop() is not spoken after it.                      *)
NoSpeechAfterStop ==
  [][\A s \in Sessions : Len(queue[s]) <= MaxQueue /\ (s \in abort => queue'[s] = queue[s])]_vars

(* A worker that gives up is reported: while the object still shows its    *)
(* session as active, its failure is waiting to be delivered.              *)
DeadWorkerIsReported ==
  IsActive /\ pc[shared] \in {"close", "done"} =>
    \E k \in 1..Len(posts) : posts[k].what = "failed" /\ posts[k].from = shared

-----------------------------------------------------------------------------
(* Progress                                                                *)

(* A session that was cut loose gives its connection back; and connecting  *)
(* is never for ever: the object starts to talk, or shows an error, or was *)
(* stopped.                                                                *)
WorkersEnd ==
  /\ \A s \in Sessions : s \in abort ~> pc[s] = "done"
  /\ state = "connecting" ~> state # "connecting"
=============================================================================
