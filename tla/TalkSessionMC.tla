--------------------------- MODULE TalkSessionMC ---------------------------
(* Instances of push-to-talk for TLC: the bounds are numbers and the       *)
(* environment's freedoms are switches, both given in the cfg files.       *)
EXTENDS TalkSessionProps
=============================================================================
