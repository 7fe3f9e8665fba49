------------------------------ MODULE NvrSlots ------------------------------
(***************************************************************************)
(* What the download queue promises about the NVRs: "Items to the same NVR *)
(* run one at a time, different NVRs in parallel" (DownloadQueue.h), and   *)
(* the oldest waiting item of an NVR is the one that runs next.            *)
(*                                                                         *)
(* A request is a pair <<id, host>>.  It is being served from the moment a *)
(* worker exists for it until that worker has stopped talking to the NVR.  *)
(***************************************************************************)
EXTENDS Integers

CONSTANTS
  Ids,    \* integers, in the order the items were added
  Hosts

VARIABLES waiting, serving

Requests == Ids \X Hosts

Free(h) == \A q \in serving : q[2] # h

(* r is the oldest of the requests W to its host.                          *)
Oldest(r, W) == \A q \in W : q[2] = r[2] => r[1] <= q[1]

Init == waiting = {} /\ serving = {}

(* A request arrives, or an old one is made again.  It waits, or it starts *)
(* at once, overtaking nobody.                                             *)
Submit(r) ==
  /\ r \notin waiting \cup serving
  /\ \/ waiting' = waiting \cup {r} /\ UNCHANGED serving
     \/ /\ Free(r[2]) /\ Oldest(r, waiting)
        /\ serving' = serving \cup {r}
        /\ UNCHANGED waiting

Withdraw(r) ==
  /\ r \in waiting
  /\ waiting' = waiting \ {r}
  /\ UNCHANGED serving

Serve(r) ==
  /\ r \in waiting /\ Free(r[2]) /\ Oldest(r, waiting)
  /\ waiting' = waiting \ {r}
  /\ serving' = serving \cup {r}

Complete(r) ==
  /\ r \in serving
  /\ serving' = serving \ {r}
  /\ UNCHANGED waiting

Next == \E r \in Requests : Submit(r) \/ Withdraw(r) \/ Serve(r) \/ Complete(r)

Spec == Init /\ [][Next]_<<waiting, serving>>
=============================================================================
