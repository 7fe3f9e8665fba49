------------------------------- MODULE Alerts -------------------------------
(***************************************************************************)
(* From what a site reports to the event inbox: the detection poll of a    *)
(* Reolink host and of a Frigate server (device/DeviceManager.cpp,         *)
(* device/FrigateApi.cpp), composed with EventInbox.                       *)
(*                                                                         *)
(* A poll asks from the pool and posts one result; per site there is at    *)
(* most one.  What a Reolink host answers is arbitrary, so it is chosen    *)
(* when the result is delivered; of person, vehicle and pet one stands for *)
(* all.  When a site is found unreachable or back is DeviceHost's.         *)
(*                                                                         *)
(* Frigate lists events in the order of their starts, no two start at the  *)
(* same time, its clock is ours, and fewer than the 50 events of one       *)
(* request happen between two polls.  An event nobody tracks, or of a      *)
(* camera that is not listed, is Ignored.                                  *)
(***************************************************************************)
EXTENDS EventInbox

CONSTANTS
  Sites,      \* of "reolink", "frigate"
  Gap,        \* kBurstGapSecs
  Spacing,    \* times between two events of Frigate
  MaxHappens  \* bound: events of Frigate

ASSUME AlertsAssumption ==
  /\ Sites \subseteq {"reolink", "frigate"} /\ Gap \in Nat \ {0}
  /\ Spacing \subseteq Nat \ {0} /\ MaxHappens \in Nat

Ignored == 0
None    == -1
NoPoll  == [pc |-> "off"]

VARIABLES
  site,
  poll,       \* m_pollInFlight, and what the poll of Frigate has copied
  seen,       \* m_lastDetection
  watermark,  \* m_frigateWatermark, or None
  lastRaised, \* m_frigateLastRaised
  happened,   \* Frigate's events, oldest first
  \* history
  alerted,    \* cameras alerted of since they were last seen idle
  base,       \* the first watermark of this run
  raised      \* Frigate's events raised in this run

polls   == <<poll, seen, watermark, lastRaised, alerted, base, raised>>
vars    == <<box, site, polls, happened>>
Reolink == <<seen, alerted>>
Frigate == <<watermark, lastRaised, base, raised>>

Fresh ==
  /\ poll = NoPoll /\ seen = [c \in Channels |-> {}] /\ alerted = {}
  /\ watermark = None /\ base = None /\ raised = {}
  /\ lastRaised = [c \in Channels |-> -Gap]

Init == InboxInit /\ site \in Sites /\ happened = <<>> /\ Fresh

Alert(c, t) == [channel |-> c, type |-> t]

(* What applyConnectivity() may tell first.                                *)
Health == {<<>>} \cup {<<Alert(c, "health")>> : c \in Channels}

-----------------------------------------------------------------------------
(* A Reolink host                                                          *)
PollHost ==
  /\ site = "reolink" /\ poll = NoPoll
  /\ poll' = [pc |-> "call"]
  /\ UNCHANGED <<box, site, Reolink, Frigate, happened>>

(* What is seen now and was not before; motion only when nothing better    *)
(* is, or was.                                                             *)
Edge(now, was) ==
  IF "person" \in now \ was THEN "person"
  ELSE IF "motion" \in now \ was /\ "person" \notin now \cup was THEN "motion"
  ELSE "none"

(* A command of the batch that failed reads as nothing seen.               *)
HostAnswers(states, told) ==
  LET rises(c) == Edge(states[c], seen[c])
      rising   == InOrder({c \in Channels : rises(c) # "none"})
      alerts   == [k \in DOMAIN rising |-> Alert(rising[k], rises(rising[k]))]
  IN  /\ site = "reolink" /\ poll # NoPoll
      /\ poll' = NoPoll /\ seen' = states
      /\ Raise(told \o alerts)
      /\ alerted' = {c \in alerted \cup {alerts[i].channel : i \in DOMAIN alerts} : states[c] # {}}
      /\ UNCHANGED <<site, Frigate, happened>>

-----------------------------------------------------------------------------
(* A Frigate server                                                        *)
Start(i) == IF i = 0 THEN 0 ELSE happened[i].start

Happens(c, d) ==
  /\ site = "frigate" /\ Len(happened) < MaxHappens
  /\ happened' = Append(happened, [channel |-> c, start |-> Start(Len(happened)) + d])
  /\ UNCHANGED <<box, site, polls>>

PollFrigate ==
  /\ site = "frigate" /\ poll = NoPoll
  /\ poll' = [pc |-> "call", known |-> watermark # None,
              after |-> IF watermark = None THEN 0 ELSE watermark, from |-> Len(happened)]
  /\ UNCHANGED <<box, site, Reolink, Frigate, happened>>

(* The first answer only says where now is.                                *)
FirstAnswer(n) ==
  /\ ~poll.known
  /\ watermark' = IF n = 0 THEN Start(Len(happened)) ELSE Start(n)
  /\ base' = watermark'
  /\ UNCHANGED <<lastRaised, raised>>

startsNewBurst(last, start) == start - last >= Gap

(* Mutant: in the order of the listing, newest first.                      *)
Listing(n, after) ==
  LET new == {i \in 1..n : happened[i].start > after}
      up  == InOrder(new)
  IN  [k \in DOMAIN up |-> up[Len(up) + 1 - k]]

(* Frigate lists its newest event first; the oldest is raised first.       *)
OldestFirst(n, after) == InOrder({i \in 1..n : happened[i].start > after})

(* One event more: m_frigateLastRaised, and which events are raised.       *)
Heard(m, i) ==
  LET e == happened[i]
  IN  IF e.channel = Ignored \/ ~startsNewBurst(m.last[e.channel], e.start) THEN m
      ELSE [last |-> [m.last EXCEPT ![e.channel] = e.start], raise |-> Append(m.raise, i)]

Bursts(order) ==
  LET made[k \in 0..Len(order)] ==
        IF k = 0 THEN [last |-> lastRaised, raise |-> <<>>] ELSE Heard(made[k - 1], order[k])
  IN  made[Len(order)]

(* n events had happened when the server was asked.                        *)
FrigateAnswers(n, told) ==
  LET burst  == Bursts(OldestFirst(n, poll.after))
      alerts == [k \in DOMAIN burst.raise |-> Alert(happened[burst.raise[k]].channel, "person")]
  IN  /\ site = "frigate" /\ poll # NoPoll /\ n >= poll.from
      /\ poll' = NoPoll
      /\ \/ FirstAnswer(n) /\ Raise(told)
         \/ /\ poll.known
            /\ Raise(told \o alerts)
            /\ lastRaised' = burst.last
            /\ watermark' = IF Start(n) > poll.after THEN Start(n) ELSE poll.after
            /\ raised' = raised \cup {burst.raise[k] : k \in DOMAIN burst.raise}
            /\ UNCHANGED base
      /\ UNCHANGED <<site, Reolink, happened>>

-----------------------------------------------------------------------------
NoAnswer(told) ==
  /\ poll # NoPoll /\ poll' = NoPoll
  /\ Raise(told)
  /\ UNCHANGED <<site, Reolink, Frigate, happened>>

Restart ==
  /\ InboxRestarts
  /\ poll' = NoPoll /\ seen' = [c \in Channels |-> {}] /\ alerted' = {}
  /\ watermark' = None /\ base' = None /\ raised' = {}
  /\ lastRaised' = [c \in Channels |-> -Gap]
  /\ UNCHANGED <<site, happened>>

Site ==
  \/ PollHost \/ PollFrigate
  \/ \E c \in Channels \cup {Ignored}, d \in Spacing : Happens(c, d)
  \/ \E told \in Health :
       \/ NoAnswer(told)
       \/ \E states \in [Channels -> SUBSET Detections] : HostAnswers(states, told)
       \/ \E n \in 0..Len(happened) : FrigateAnswers(n, told)

Next ==
  \/ Site \/ Restart
  \/ InboxNext /\ UNCHANGED <<site, polls, happened>>

Spec == Init /\ [][Next]_vars
=============================================================================
