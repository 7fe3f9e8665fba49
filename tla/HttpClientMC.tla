---------------------------- MODULE HttpClientMC ----------------------------
(* Small instances of HttpClient for TLC: the constants are in the cfg.   *)
EXTENDS HttpClientProps

=============================================================================
