---------------------------- MODULE ActivityGrid ----------------------------
(***************************************************************************)
(* The live grid's Activity mode (device/ActivityPolicy.cpp,               *)
(* device/ActivityGrid.cpp): a camera that detects something asks for a    *)
(* tile, holds it while the activity lasts, and gives it back.             *)
(*                                                                         *)
(* Everything runs on the GUI thread: a detection is followed by tick() in *)
(* one call, and a timer ticks every second.  Times are kept relative: a   *)
(* hold and a start in the window by the seconds left, what has been shown *)
(* by the seconds since (up to MinShown), and idleSince by its rank (0:    *)
(* never).  An untracked detection has kind "none".  setExcluded() has no  *)
(* caller.                                                                 *)
(***************************************************************************)
EXTENDS Integers, Sequences, FiniteSets

CONSTANTS
  Rows,      \* cameras
  Empty,     \* no camera
  HostOf,    \* the NVR of a camera
  Layouts,   \* the user's arrangements: sequences of cameras or Empty
  Hold, MinShown, Window, MaxStarts,  \* Params, in seconds
  MaxPins,   \* bound: pinned tiles
  Watched    \* a camera whose time on screen is followed

ASSUME ActivityAssumption ==
  /\ Empty \notin Rows /\ Watched \in Rows /\ DOMAIN HostOf = Rows
  /\ \A l \in Layouts : l \in Seq(Rows \cup {Empty})
  /\ {Hold, Window, MaxStarts} \subseteq Nat \ {0} /\ {MinShown, MaxPins} \subseteq Nat

Hosts == {HostOf[r] : r \in Rows}
Kinds == {"none", "motion", "ai"}
priorityOf == [k \in Kinds |-> CASE k = "none" -> 0 [] k = "motion" -> 1 [] k = "ai" -> 2]
Higher(a, b) == IF priorityOf[a] > priorityOf[b] THEN a ELSE b

VARIABLES
  enabled,  \* m_enabled
  tiles,    \* m_tiles; a tile is active while its kind is not "none"
  queue,    \* m_queue, in order of arrival
  starts,   \* m_starts: seconds left in the window of each start
  \* history
  seen, seenAi, \* seconds since activity marked Watched's tile (as an AI's), up to Hold
  onFor,        \* seconds since Watched came on screen, up to MinShown
  quiet         \* nothing is detected or rearranged any more

vars == <<enabled, tiles, queue, starts, seen, seenAi, onFor, quiet>>

Tile(row) == [baseline |-> row, shown |-> row, kind |-> "none", pinned |-> FALSE,
              shownFor |-> 0, left |-> 0, idle |-> 0]

Init ==
  /\ enabled = FALSE /\ tiles = <<>> /\ queue = <<>>
  /\ starts = [h \in Hosts |-> <<>>]
  /\ seen = Hold /\ seenAi = Hold /\ onFor = 0 /\ quiet = FALSE

Least(n, m) == IF n < m THEN n ELSE m
Active(t)   == t.kind # "none"

-----------------------------------------------------------------------------
(* ActivityPolicy                                                          *)
tileShowing(row, ts) ==
  LET on == {i \in DOMAIN ts : ts[i].shown = row}
  IN  IF on = {} THEN 0 ELSE CHOOSE i \in on : \A j \in on : i <= j

(* A camera on screen is marked, or its hold extended, where it is.        *)
Marked(t, kind) ==
  [t EXCEPT !.kind = Higher(kind, t.kind), !.left = Hold,
            !.shownFor = IF Active(t) THEN @ ELSE 0]

Asked(row, kind) ==
  IF \E i \in DOMAIN queue : queue[i].row = row
    THEN [i \in DOMAIN queue |->
            IF queue[i].row = row THEN [queue[i] EXCEPT !.kind = Higher(kind, @)] ELSE queue[i]]
    ELSE Append(queue, [row |-> row, kind |-> kind])

(* 1. A hold that is over frees the tile; it keeps its camera.             *)
Ranked(f) ==
  [i \in DOMAIN f |->
     IF f[i] = 0 THEN 0 ELSE 1 + Cardinality({f[j] : j \in {k \in DOMAIN f : f[k] \in 1..(f[i] - 1)}})]

Over(t) == Active(t) /\ t.left = 0

Released(ts) ==
  LET idle == Ranked([i \in DOMAIN ts |->
                        IF Over(ts[i]) /\ ~ts[i].pinned THEN Len(ts) + 1 ELSE ts[i].idle])
  IN  [i \in DOMAIN ts |->
         IF Over(ts[i]) THEN [ts[i] EXCEPT !.kind = "none", !.shownFor = 0, !.idle = idle[i]]
                        ELSE [ts[i] EXCEPT !.idle = idle[i]]]

(* The first tile of a set with the least key.                             *)
FirstLeast(set, key(_)) ==
  CHOOSE i \in set : \A j \in set : key(i) < key(j) \/ (key(i) = key(j) /\ i <= j)

(* Mutant: a tile held for motion may be taken at once.                    *)
Takeable(ts, kind) ==
  {i \in DOMAIN ts : ~ts[i].pinned /\ ts[i].kind = "motion" /\ kind = "ai"}

HeldForMotion(ts, kind) ==
  {i \in DOMAIN ts : /\ ~ts[i].pinned /\ ts[i].kind = "motion" /\ kind = "ai"
                     /\ ts[i].shownFor >= MinShown}

(* A free tile, idle longest, or for an AI detection one held for motion.  *)
pickTile(ts, kind) ==
  LET free == {i \in DOMAIN ts : ~ts[i].pinned /\ ~Active(ts[i])}
      held == HeldForMotion(ts, kind)
  IN  IF free # {} THEN FirstLeast(free, LAMBDA i : ts[i].idle)
      ELSE IF held # {} THEN FirstLeast(held, LAMBDA i : ts[i].left)
      ELSE 0

startAllowed(s, row) == Len(s.starts[HostOf[row]]) < MaxStarts

(* 2. One request of the queue: s holds what tick() has made so far.       *)
Served(s, q) ==
  LET there == tileShowing(q.row, s.tiles)
      tile  == pickTile(s.tiles, q.kind)
      gone  == SelectSeq(s.queue, LAMBDA e : e.row # q.row)
  IN  IF there # 0
        THEN [s EXCEPT !.tiles[there] = Marked(@, q.kind), !.queue = gone]
      ELSE IF tile # 0 /\ startAllowed(s, q.row)
        THEN [tiles  |-> [s.tiles EXCEPT ![tile].shown = q.row, ![tile].kind = q.kind,
                                         ![tile].shownFor = 0, ![tile].left = Hold],
              queue  |-> gone,
              starts |-> [s.starts EXCEPT ![HostOf[q.row]] = Append(@, Window)]]
      ELSE s

OfKind(q, kind) == SelectSeq(q, LAMBDA e : e.kind = kind)

(* Mutant: first come, first served.                                       *)
InArrival(q) == q

(* AI first, then in order of arrival.                                     *)
queuedRows(q) == OfKind(q, "ai") \o OfKind(q, "motion")

tick(ts, q, st) ==
  LET order == queuedRows(q)
      made[n \in 0..Len(order)] ==
        IF n = 0 THEN [tiles |-> Released(ts), queue |-> q, starts |-> st]
                 ELSE CHOOSE s \in {Served(p, order[n]) : p \in {made[n - 1]}} : TRUE
  IN  made[Len(order)]

-----------------------------------------------------------------------------
(* History of the watched camera; a layout may put it on two tiles.        *)
Times(ts)    == Cardinality({i \in DOMAIN ts : ts[i].shown = Watched})
OnScreen(ts) == Times(ts) = 1

Waits(q) == \E i \in DOMAIN q : q[i].row = Watched

(* An age counts while the camera is on one tile.                          *)
Unseen == IF Times(tiles) = 0 THEN 0 ELSE MinShown
Age(n, most, dt, off) == IF OnScreen(tiles) THEN Least(n + dt, most) ELSE off

Followed(asks, dt) ==
  LET marked == Times(tiles) <= 1 /\ (asks \/ Waits(queue)) /\ ~Waits(queue')
      byAi   == marked /\ \E i \in DOMAIN tiles' : tiles'[i].shown = Watched /\ tiles'[i].kind = "ai"
  IN  /\ seen'   = IF marked THEN 0 ELSE Age(seen, Hold, dt, Hold)
      /\ seenAi' = IF byAi THEN 0 ELSE Age(seenAi, Hold, dt, Hold)
      /\ onFor'  = Age(onFor, MinShown, dt, Unseen)

Unfollowed ==
  /\ seen' = Age(seen, Hold, 0, Hold) /\ seenAi' = Age(seenAi, Hold, 0, Hold)
  /\ onFor' = Age(onFor, MinShown, 0, Unseen)

Ticked(ts, q, st) ==
  \E s \in {tick(ts, q, st)} : tiles' = s.tiles /\ queue' = s.queue /\ starts' = s.starts

-----------------------------------------------------------------------------
(* ActivityGrid                                                            *)

(* ingest(): the policy is told and ticked at once.                        *)
Ingest(row, kind) ==
  /\ enabled
  /\ LET at == tileShowing(row, tiles)
     IN  IF kind = "none" THEN Ticked(tiles, queue, starts)
         ELSE IF at # 0 THEN Ticked([tiles EXCEPT ![at] = Marked(@, kind)], queue, starts)
         ELSE Ticked(tiles, Asked(row, kind), starts)
  /\ UNCHANGED enabled /\ Followed(row = Watched /\ kind # "none", 0)

(* Mutant: starts are never forgotten.                                     *)
StartsKept == starts

(* startAllowed() drops the starts that have left the window.              *)
StartsLater ==
  [h \in Hosts |-> SelectSeq([i \in DOMAIN starts[h] |-> starts[h][i] - 1], LAMBDA n : n > 0)]

Later(t) == IF ~Active(t) THEN t
            ELSE [t EXCEPT !.left = IF @ > 0 THEN @ - 1 ELSE 0,
                           !.shownFor = Least(@ + 1, MinShown)]

(* onTick(): a second has passed.                                          *)
Second ==
  /\ enabled
  /\ Ticked([i \in DOMAIN tiles |-> Later(tiles[i])], queue, StartsLater)
  /\ UNCHANGED enabled /\ Followed(FALSE, 1)

SetBaseline(l) ==
  /\ enabled
  /\ tiles' = [i \in DOMAIN l |->
       IF i \notin DOMAIN tiles THEN Tile(l[i])
       ELSE [tiles[i] EXCEPT !.baseline = l[i],
                             !.shown = IF l[i] # tiles[i].baseline /\ ~Active(tiles[i])
                                         THEN l[i] ELSE @]]
  /\ UNCHANGED <<enabled, queue, starts>> /\ Unfollowed

SetPinned(i) ==
  /\ enabled /\ i \in DOMAIN tiles
  /\ tiles' = [tiles EXCEPT ![i].pinned = ~@]
  /\ Cardinality({j \in DOMAIN tiles : tiles'[j].pinned}) <= MaxPins
  /\ UNCHANGED <<enabled, queue, starts>> /\ Unfollowed

SwitchOn ==
  /\ ~enabled /\ enabled' = TRUE
  /\ UNCHANGED <<tiles, queue, starts>> /\ Unfollowed

(* reset(): the layout is restored.                                        *)
SwitchOff ==
  /\ enabled /\ enabled' = FALSE
  /\ tiles' = [i \in DOMAIN tiles |->
                 [tiles[i] EXCEPT !.shown = tiles[i].baseline, !.kind = "none", !.left = 0,
                                  !.shownFor = 0]]
  /\ queue' = <<>> /\ starts' = [h \in Hosts |-> <<>>]
  /\ seen' = Hold /\ seenAi' = Hold /\ onFor' = 0

-----------------------------------------------------------------------------
User == \/ SwitchOn \/ SwitchOff
        \/ \E l \in Layouts : SetBaseline(l)
        \/ \E i \in DOMAIN tiles : SetPinned(i)

Cameras == \E r \in Rows, k \in Kinds : Ingest(r, k)

(* From some moment on there may be only the timer.                        *)
FallQuiet == enabled /\ ~quiet /\ quiet' = TRUE /\ UNCHANGED <<enabled, tiles, queue, starts, seen, seenAi, onFor>>

Next == \/ ~quiet /\ (User \/ Cameras) /\ UNCHANGED quiet
        \/ Second /\ UNCHANGED quiet
        \/ FallQuiet

Spec     == Init /\ [][Next]_vars
FairSpec == Spec /\ WF_vars(Second /\ UNCHANGED quiet)
=============================================================================
