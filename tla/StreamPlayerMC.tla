--------------------------- MODULE StreamPlayerMC ---------------------------
(* Small instances of StreamPlayer for TLC; the bounds are in the cfg.     *)
EXTENDS StreamPlayerProps
=============================================================================
