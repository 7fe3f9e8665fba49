-------------------------- MODULE MediaClientProps --------------------------
(***************************************************************************)
(* What the media client must get right while a recording is sought, the   *)
(* ring is full and the player stops.                                      *)
(***************************************************************************)
EXTENDS MediaClient

Requests == Positions \cup {Live}
Times    == Moments \cup {Live}
Frames   == [of : Nat, at : Times, kind : Kinds]
Stages   == {"off", "login", "loop", "clear", "parse", "push", "end", "done"}

(* Every variable keeps its type; nobody sleeps without having asked.      *)
TypeOK ==
  /\ {epoch, seekEpoch, seekTarget} \subseteq Requests /\ requests \in Seq(Requests)
  /\ ring \in Seq(Frames) /\ wire \in Seq(Frames) /\ hand \in Frames /\ flight \subseteq Frames
  /\ Len(ring) <= MaxRing + 1 /\ Len(wire) <= MaxWire /\ sent \in 0..MaxFrames
  /\ answered \in 0..Len(requests) /\ moment \in Times /\ sound \subseteq Nat
  /\ {finished, abort, picture, stopping} \subseteq BOOLEAN
  /\ pc \in Stages /\ reading \in {"out", "in", "eof", "gone"}
  /\ asleep \subseteq {"reader", "pump"}
  /\ "reader" \in asleep => reading = "in"
  /\ "pump" \in asleep => pc = "push"

Range(s)  == {s[i] : i \in DOMAIN s}
Asked     == Len(requests)
Latest    == requests[Asked]
OfLatest(f) == f.of = Asked

-----------------------------------------------------------------------------
(* Playback that is left by the last seek may have come near its target    *)
(* (two buttons of the player jump by 10 s): nothing tells such a picture  *)
(* from one that answers the seek.                                         *)
Strayed == \E f \in flight : f.of < Asked /\ Near(f.at, Latest)

(* What is handed over of a recording answers the last request, however    *)
(* many seeks are carried out and however much is still on its way.        *)
OfLatestOnly ==
  /\ \A f \in Range(ring) : OfLatest(f)
  /\ pc = "push" => OfLatest(hand)
  /\ sound \subseteq {Asked}

(* "drop them until an I-frame lands at the requested time"                *)
(* (BaichuanClient.cpp:349): once a seek is carried out, nothing that an   *)
(* earlier request brought reaches the decoder or the loudspeaker, unless  *)
(* a picture on its way then, or sent later by a camera that has not       *)
(* turned to the seek yet, is near its target.                             *)
NothingOld == requests # <<>> /\ ~Strayed /\ pc # "clear" => OfLatestOnly

(* "On a seek, the connection still carries old-position frames briefly;   *)
(* drop them until an I-frame lands at the requested time"                 *)
(* (BaichuanClient.cpp:349): while earlier requests are still played, an   *)
(* I-frame of theirs is let through only if it lands at the moment that    *)
(* was asked for last.                                                     *)
OldIsDropped ==
  pc = "push" /\ hand.kind = "I" /\ ~OfLatest(hand) => hand.at = Latest

(* The sound of a recording never runs ahead of its picture ("hold it back *)
(* until the picture starts"): what has been heard since the last seek     *)
(* came after a picture of it.                                             *)
SoundHasPicture == epoch # Live /\ sound # {} => picture

-----------------------------------------------------------------------------
(* A seek that was accepted, or the one that took its place, is asked of   *)
(* the camera, unless the stream or the player's worker has ended: a pump  *)
(* that sleeps at a full ring does not keep it from the camera as long as  *)
(* somebody reads, nor do more seeks.                                      *)
SeekIsSent ==
  seekEpoch # 0 ~> seekEpoch = 0 \/ finished \/ reading = "gone"

(* "every network wait is short + abort-checked, so the join is bounded":  *)
(* once stop() was called the pump ends and a read() in progress returns,  *)
(* whoever sleeps at the full or the empty ring.                           *)
StopEnds == abort ~> pc = "done" /\ reading # "in"
=============================================================================
