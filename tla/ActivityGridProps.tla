------------------------- MODULE ActivityGridProps -------------------------
(***************************************************************************)
(* What Activity mode promises ("wayfinder ticket 11", ActivityPolicy.h).  *)
(***************************************************************************)
EXTENDS ActivityGrid

(* Every variable keeps its type; a camera waits once, and not for the     *)
(* tile it is on already.                                                  *)
TypeOK ==
  /\ {enabled, quiet} \subseteq BOOLEAN
  /\ {seen, seenAi} \subseteq 0..Hold /\ onFor \in 0..MinShown
  /\ tiles \in Seq([baseline : Rows \cup {Empty}, shown : Rows \cup {Empty}, kind : Kinds,
                    pinned : BOOLEAN, shownFor : 0..MinShown, left : 0..Hold, idle : Nat])
  /\ queue \in Seq([row : Rows, kind : Kinds \ {"none"}])
  /\ \A i, j \in DOMAIN queue : queue[i].row = queue[j].row => i = j
  /\ \A h \in Hosts : starts[h] \in Seq(1..Window) /\ Len(starts[h]) <= MaxStarts
  /\ ~enabled => queue = <<>> /\ \A i \in DOMAIN tiles : ~Active(tiles[i])

Baselines(ts) == [i \in DOMAIN ts |-> ts[i].baseline]
ByItself == enabled /\ enabled' /\ Baselines(tiles) = Baselines(tiles')

-----------------------------------------------------------------------------
(* "a tile keeps its camera at least 30 s after the last detection, and at *)
(* least 15 s from when it was actually shown": a camera leaves the screen *)
(* by itself only when nothing was detected there for the whole hold, or   *)
(* when it was held for motion alone, has been shown its minimum time, and *)
(* an AI detection takes its tile - however tiles were pinned, rearranged, *)
(* queued for and given back in between.                                   *)
HeldCamerasStay ==
  [][ByItself /\ OnScreen(tiles) /\ Times(tiles') = 0 =>
       \/ seen' = Hold
       \/ /\ seenAi' = Hold /\ onFor' >= MinShown
          /\ \E i \in DOMAIN tiles : tiles[i].shown = Watched /\ tiles'[i].kind = "ai"]_vars

(* Activity shows no camera "a second tile", never replaces a pinned one,  *)
(* and gives motion a tile only when no AI detection is left waiting whose *)
(* NVR may start another stream.                                           *)
Given(i) == tiles'[i].shown # tiles[i].shown
TilesAreGivenRight ==
  [][ByItself =>
       \A i \in DOMAIN tiles : Given(i) =>
         /\ ~tiles[i].pinned
         /\ \A j \in DOMAIN tiles : tiles'[j].shown = tiles'[i].shown => j = i
         /\ tiles'[i].kind = "motion" =>
              \A k \in DOMAIN queue' : queue'[k].kind = "ai" =>
                Len(starts'[HostOf[queue'[k].row]]) = MaxStarts]_vars

(* "a full grid queues (nothing is dropped)": once the cameras are quiet   *)
(* and nobody rearranges the grid, every camera that waits gets a tile,    *)
(* unless there is none that is not pinned.                                *)
NoTile == \A i \in DOMAIN tiles : tiles[i].pinned
QueueDrains == quiet ~> (queue = <<>> \/ NoTile)
=============================================================================
