---------------------------- MODULE DeviceHostMC ----------------------------
(* Small instances of DeviceHost for TLC.                                  *)
EXTENDS DeviceHostProps
=============================================================================
