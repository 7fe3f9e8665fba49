---------------------------- MODULE LaunchProps ----------------------------
(***************************************************************************)
(* What launching, quitting and updating must get right.                   *)
(***************************************************************************)
EXTENDS Launch

CONSTANT Watched  \* the launches whose answer is followed; all are alike

Stages == {"unborn", "lock", "connect", "remove", "listen", "start", "run", "closing", "unlink",
           "gone"}
Steps  == {"none", "offer", "downloading", "dropbak", "setaside", "swapin", "dropold", "rollback",
           "discard", "relaunch"}

(* Every variable keeps its type; only a living process serves a socket.   *)
TypeOK ==
  /\ pc \in [Processes -> Stages] /\ update \in [Processes -> Steps]
  /\ {lock, path} \subseteq Processes \cup {None}
  /\ server \subseteq {p \in Processes : pc[p] \in {"start", "run", "closing"}}
  /\ raised \subseteq Processes /\ excused \in BOOLEAN
  /\ handed \in [Processes -> Processes \cup {None}]
  /\ mail \in [Processes -> SUBSET Processes] /\ version \in [Processes -> Whole]
  /\ file \in [Files -> Whole \cup {"part", "none"}]

-----------------------------------------------------------------------------
Clients == {p \in Processes : pc[p] \in {"start", "run"}}

(* "a double-click on the launcher can have both processes fail to connect *)
(* and then both claim the socket, which is the very pile-up we're         *)
(* preventing" (SingleInstance.cpp): one client runs, whatever crashed or  *)
(* was updated before - unless a launch gave up the lock after 3 s, or a   *)
(* quitting client unlinked the socket of the next one.                    *)
OneClient == ~excused => Cardinality(Clients) <= 1

(* "Atomic swap with a backup we can roll back to" (Updater.cpp): with one *)
(* client, a whole program is left under the name, the backup's or the     *)
(* download's, wherever a crash falls and whichever rename fails; the      *)
(* program's own name never holds a part of one and, while it is free, the *)
(* backup is there - unless a client whose own file is gone updates again. *)
ProgramSurvives ==
  ~excused => /\ \E f \in Files : file[f] \in Whole
              /\ file["app"] # "part"
              /\ file["app"] = "none" => file["bak"] \in Whole

(* A launch ends in a window: its own, or that of the client it was handed *)
(* over to - unless it asks for none, crashes, or that client is itself on *)
(* its way out                                                             *)
(* ("later launches hand it their activation token and exit, so the        *)
(* running window is raised instead", SingleInstance.h).                   *)
Ended(p)   == pc[p] = "gone" /\ handed[p] = None
Leaving(q) == q # None /\ pc[q] \in {"closing", "unlink", "gone"}
LaunchIsAnswered ==
  \A p \in Watched :
    pc[p] = "lock" ~> \/ pc[p] \in {"run", "closing"} \/ p \in raised \/ Ended(p)
                      \/ Leaving(handed[p])

(* "Relaunch the freshly-written AppImage and bow out" (Updater.cpp:167):  *)
(* the new program takes the place of the old one.  It does not hand its   *)
(* launch to the old one, whose socket still answers while main() returns, *)
(* and end.                                                                *)
UpdateTakesOver ==
  [][\A p \in Processes :
       handed'[p] # handed[p] /\ version[p] = "fresh" =>
         ~(version[handed'[p]] = "old" /\ pc[handed'[p]] = "closing")]_vars
=============================================================================
