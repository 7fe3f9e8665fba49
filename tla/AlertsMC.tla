------------------------------ MODULE AlertsMC ------------------------------
(* A small instance of Alerts for TLC.                                     *)
EXTENDS AlertsProps

(* All events, and the detections of one camera.                           *)
MCFilters == {NoFilter, [type |-> "person", camera |-> 1]}
=============================================================================
