---------------------------- MODULE TalkSession ----------------------------
(***************************************************************************)
(* Push-to-talk to one camera (media/TalkSession.cpp and the network side, *)
(* protocol/BaichuanTalk.cpp over BaichuanControl::transact).              *)
(*                                                                         *)
(* One TalkSession object lives on the GUI thread.  Every start() makes a  *)
(* new Shared block and a detached worker; the number of the start() names *)
(* both.  stop(), a failure and the destructor cut the Shared block loose  *)
(* and never wait for its worker, so the workers of earlier sessions go on *)
(* beside the current one.  Workers reach the object through queued calls  *)
(* (posts), which carry no session: `from' is kept for the properties.     *)
(*                                                                         *)
(* The camera is modelled from how BaichuanTalk uses it: one session at a  *)
(* time has its speaker, TalkConfig is answered 422 while it is taken, and *)
(* TalkReset, from any connection, frees it ("also clears a stale one").   *)
(***************************************************************************)
EXTENDS Integers, Sequences, FiniteSets

CONSTANTS
  MaxSessions,   \* bound: calls of start() that get as far as a worker
  MaxQueue,      \* kMaxQueuedBlocks, 24 in the code
  MaxBlocks,     \* bound: ADPCM blocks the microphone delivers
  RepliesLost,   \* the reply to a TalkConfig may miss its 12 s
  LinkDrops,     \* a connection may be lost
  StopsAccepting \* the camera may refuse audio it had agreed to

ASSUME TalkAssumption ==
  /\ {MaxSessions, MaxQueue, MaxBlocks} \subseteq Nat \ {0}
  /\ {RepliesLost, LinkDrops, StopsAccepting} \subseteq BOOLEAN

Sessions == 1..MaxSessions
None     == 0                  \* no Shared block; a free speaker
Other    == MaxSessions + 1    \* another client of the camera

VARIABLES
  \* the TalkSession object, GUI thread
  state,      \* State, and "gone" once destroyed
  shared,     \* m_shared: the session it points to, or None
  mic,        \* m_mic is open
  started,    \* sessions started so far
  captured,   \* blocks the microphone has delivered so far
  posts,      \* queued calls of applyReady() and applyFailed()
  \* struct Shared of each session
  owner,      \* sessions whose `owner' still points to the object
  abort,      \* sessions whose `abort' is set
  queue,
  \* the worker of each session and its BaichuanTalk
  pc, status, talking, block,
  \* the camera and its connections
  link,       \* session -> its connection is up
  speaker,    \* who talks: a session, Other or None
  accepted,   \* history: sessions whose TalkConfig the camera has accepted
  heard       \* history: session -> the blocks it has sent, in order

gui    == <<state, shared, mic, started, captured>>
blocks == <<owner, abort, queue>>
net    == <<link, speaker, accepted, heard>>
vars   == <<gui, posts, blocks, pc, status, talking, block, net>>

Init ==
  /\ state = "idle" /\ shared = None /\ mic = FALSE /\ started = 0 /\ captured = 0
  /\ posts = <<>>
  /\ owner   = {} /\ abort = {}
  /\ queue   = [s \in Sessions |-> <<>>]
  /\ pc      = [s \in Sessions |-> "off"]
  /\ status  = [s \in Sessions |-> 0]
  /\ talking = [s \in Sessions |-> FALSE]
  /\ block   = [s \in Sessions |-> 0]
  /\ link    = [s \in Sessions |-> FALSE]
  /\ speaker \in {None, Other}
  /\ accepted = {}
  /\ heard   = [s \in Sessions |-> <<>>]

-----------------------------------------------------------------------------
(* The GUI thread                                                          *)

IsActive == state \in {"connecting", "talking"}

(* Owner gone, abort set, pointer dropped: shared by stop(), applyFailed() *)
(* and the destructor.                                                     *)
CutLoose ==
  /\ owner' = owner \ {shared}
  /\ abort' = abort \cup ({shared} \ {None})
  /\ shared' = None

(* start() without a microphone, and with one.                             *)
StartWithoutMic ==
  /\ state \in {"idle", "error"}
  /\ state' = "error"
  /\ UNCHANGED <<shared, mic, started, captured, posts, blocks, pc, status, talking, block, net>>

Start ==
  /\ state \in {"idle", "error"} /\ started < MaxSessions
  /\ started' = started + 1
  /\ shared' = started + 1
  /\ owner' = owner \cup {started + 1}
  /\ state' = "connecting"
  /\ pc' = [pc EXCEPT ![started + 1] = "connect"]
  /\ UNCHANGED <<mic, captured, posts, abort, queue, status, talking, block, net>>

Stop ==
  /\ state # "gone"
  /\ mic' = FALSE
  /\ CutLoose
  /\ state' = "idle"
  /\ UNCHANGED <<started, captured, posts, queue, pc, status, talking, block, net>>

(* The destructor; calls still queued for the object are dropped.          *)
Destroy ==
  /\ state # "gone"
  /\ state' = "gone"
  /\ mic' = FALSE
  /\ CutLoose
  /\ posts' = <<>>
  /\ UNCHANGED <<started, captured, queue, pc, status, talking, block, net>>

(* applyFailed().                                                          *)
ApplyFailed ==
  IF state = "idle"
    THEN UNCHANGED <<state, mic, shared, owner, abort>>
    ELSE mic' = FALSE /\ CutLoose /\ state' = "error"

(* Mutant: an unusable microphone leaves the worker running.               *)
ReadyWithoutCut ==
  IF state # "connecting"
    THEN UNCHANGED <<state, mic, shared, owner, abort>>
    ELSE /\ \/ mic' = TRUE /\ state' = "talking"
            \/ mic' = FALSE /\ state' = "error"
         /\ UNCHANGED <<shared, owner, abort>>

(* applyReady(): the microphone may be unusable.                           *)
ApplyReady ==
  IF state # "connecting"
    THEN UNCHANGED <<state, mic, shared, owner, abort>>
    ELSE \/ mic' = TRUE /\ state' = "talking" /\ UNCHANGED <<shared, owner, abort>>
         \/ ApplyFailed

Deliver ==
  /\ posts # <<>>
  /\ posts' = Tail(posts)
  /\ IF Head(posts).what = "ready" THEN ApplyReady ELSE ApplyFailed
  /\ UNCHANGED <<started, captured, queue, pc, status, talking, block, net>>

(* Mutants: the newest block takes the place of the oldest one; one block  *)
(* too many waits.                                                         *)
MicDataTurnsRound ==
  /\ mic /\ shared # None /\ captured < MaxBlocks
  /\ captured' = captured + 1
  /\ queue' = [queue EXCEPT ![shared] =
                 IF Len(@) >= MaxQueue THEN <<captured + 1>> \o Tail(@)
                 ELSE Append(@, captured + 1)]
  /\ UNCHANGED <<state, shared, mic, started, posts, owner, abort, pc, status, talking, block, net>>

MicDataKeepsOneMore ==
  /\ mic /\ shared # None /\ captured < MaxBlocks
  /\ captured' = captured + 1
  /\ queue' = [queue EXCEPT ![shared] =
                 Append(IF Len(@) > MaxQueue THEN Tail(@) ELSE @, captured + 1)]
  /\ UNCHANGED <<state, shared, mic, started, posts, owner, abort, pc, status, talking, block, net>>

(* onMicData(): one block; the oldest queued one is dropped when full.     *)
MicData ==
  /\ mic /\ shared # None /\ captured < MaxBlocks
  /\ captured' = captured + 1
  /\ queue' = [queue EXCEPT ![shared] =
                 Append(IF Len(@) >= MaxQueue THEN Tail(@) ELSE @, captured + 1)]
  /\ UNCHANGED <<state, shared, mic, started, posts, owner, abort, pc, status, talking, block, net>>

-----------------------------------------------------------------------------
(* runTalkWorker() and BaichuanTalk, session s                             *)

Goto(s, l) == pc' = [pc EXCEPT ![s] = l]

(* postReady() and postFailed(): nothing once the owner is gone.           *)
Post(s, what) ==
  posts' = IF s \in owner THEN Append(posts, [what |-> what, from |-> s]) ELSE posts

(* BaichuanControl::open(): connect, nonce, login.                         *)
Connect(s) ==
  /\ pc[s] = "connect"
  /\ \/ Goto(s, "ability") /\ link' = [link EXCEPT ![s] = TRUE]
     \/ Goto(s, "failed") /\ UNCHANGED link
  /\ UNCHANGED <<gui, posts, blocks, status, talking, block, speaker, accepted, heard>>

(* TalkAbility: no answer, a bad status or no usable format ends it; some  *)
(* firmware answers with status 0.                                         *)
Ability(s) ==
  /\ pc[s] = "ability"
  /\ \/ /\ link[s]
        /\ \E code \in {200, 0} : status' = [status EXCEPT ![s] = code]
        /\ Goto(s, "config")
     \/ Goto(s, "failed") /\ UNCHANGED status
  /\ UNCHANGED <<gui, posts, blocks, talking, block, net>>

(* transact(TalkConfig, &status).  The camera takes it when its speaker is *)
(* free, answers 422 when it is not, or refuses the format (400).  Without *)
(* an answer `status' keeps the value it had.                              *)
TakeSpeaker(s) ==
  /\ speaker = None
  /\ speaker' = s
  /\ accepted' = accepted \cup {s}

Reply(s, code) == status' = [status EXCEPT ![s] = code]

TransactConfig(s) ==
  \/ link[s] /\ TakeSpeaker(s) /\ Reply(s, 200)
  \/ link[s] /\ speaker # None /\ Reply(s, 422) /\ UNCHANGED <<speaker, accepted>>
  \/ link[s] /\ Reply(s, 400) /\ UNCHANGED <<speaker, accepted>>
  \/ link[s] /\ RepliesLost /\ TakeSpeaker(s) /\ UNCHANGED status
  \/ (RepliesLost \/ ~link[s]) /\ UNCHANGED <<status, speaker, accepted>>

Config(s) ==
  /\ pc[s] = "config"
  /\ TransactConfig(s)
  /\ Goto(s, IF status'[s] = 422 THEN "reset" ELSE "checked")
  /\ UNCHANGED <<gui, posts, blocks, talking, block, link, heard>>

(* 422: end whatever session is there, then ask once more.                 *)
ResetStale(s) ==
  /\ pc[s] = "reset"
  /\ speaker' = IF link[s] THEN None ELSE speaker
  /\ Goto(s, "config2")
  /\ UNCHANGED <<gui, posts, blocks, status, talking, block, link, accepted, heard>>

ConfigAgain(s) ==
  /\ pc[s] = "config2"
  /\ TransactConfig(s)
  /\ Goto(s, "checked")
  /\ UNCHANGED <<gui, posts, blocks, talking, block, link, heard>>

(* The end of open(), and the worker's look at the abort flag after it.    *)
(* A failed open() closes the connection without a TalkReset.              *)
Opened(s) ==
  /\ pc[s] = "checked"
  /\ talking' = [talking EXCEPT ![s] = status[s] = 200]
  /\ Goto(s, CASE status[s] # 200 -> "failed"
               [] status[s] = 200 /\ s \in abort -> "close"
               [] OTHER -> "ready")
  /\ UNCHANGED <<gui, posts, blocks, status, block, net>>

OpenFailed(s) ==
  /\ pc[s] = "failed"
  /\ Post(s, "failed")
  /\ Goto(s, "done")
  /\ link' = [link EXCEPT ![s] = FALSE]
  /\ UNCHANGED <<gui, blocks, status, talking, block, speaker, accepted, heard>>

Ready(s) ==
  /\ pc[s] = "ready"
  /\ Post(s, "ready")
  /\ Goto(s, "loop")
  /\ UNCHANGED <<gui, blocks, status, talking, block, net>>

(* Mutant: abort does not wake a waiting worker.                           *)
DequeueSleeps(s) ==
  /\ pc[s] = "loop" /\ queue[s] # <<>>
  /\ \/ s \in abort /\ Goto(s, "close") /\ UNCHANGED <<queue, block>>
     \/ /\ s \notin abort
        /\ block' = [block EXCEPT ![s] = Head(queue[s])]
        /\ queue' = [queue EXCEPT ![s] = Tail(queue[s])]
        /\ Goto(s, "send")
  /\ UNCHANGED <<gui, posts, owner, abort, status, talking, net>>

(* Under the mutex: abort wins over queued speech.                         *)
Dequeue(s) ==
  /\ pc[s] = "loop"
  /\ \/ s \in abort /\ Goto(s, "close") /\ UNCHANGED <<queue, block>>
     \/ /\ s \notin abort /\ queue[s] # <<>>
        /\ block' = [block EXCEPT ![s] = Head(queue[s])]
        /\ queue' = [queue EXCEPT ![s] = Tail(queue[s])]
        /\ Goto(s, "send")
  /\ UNCHANGED <<gui, posts, owner, abort, status, talking, net>>

(* BaichuanTalk::send(): the connection is gone, the camera answers with   *)
(* an error, or the block is on its way.  A failure clears m_talking.      *)
Send(s) ==
  /\ pc[s] = "send"
  /\ \/ /\ link[s]
        /\ heard' = [heard EXCEPT ![s] = Append(@, block[s])]
        /\ Goto(s, "loop")
        /\ UNCHANGED talking
     \/ /\ ~link[s] \/ speaker # s \/ StopsAccepting
        /\ talking' = [talking EXCEPT ![s] = FALSE]
        /\ Goto(s, "lost")
        /\ UNCHANGED heard
  /\ UNCHANGED <<gui, posts, blocks, status, block, link, speaker, accepted>>

(* Mutant: nobody is told.                                                 *)
SendFailedSilently(s) ==
  /\ pc[s] = "lost"
  /\ Goto(s, "close")
  /\ UNCHANGED <<gui, posts, blocks, status, talking, block, net>>

SendFailed(s) ==
  /\ pc[s] = "lost"
  /\ Post(s, "failed")
  /\ Goto(s, "close")
  /\ UNCHANGED <<gui, blocks, status, talking, block, net>>

(* BaichuanTalk::close(): TalkReset only while m_talking.                  *)
Close(s) ==
  /\ pc[s] = "close"
  /\ IF talking[s] /\ link[s]
       THEN speaker' = None
       ELSE UNCHANGED speaker
  /\ talking' = [talking EXCEPT ![s] = FALSE]
  /\ link' = [link EXCEPT ![s] = FALSE]
  /\ Goto(s, "done")
  /\ UNCHANGED <<gui, posts, blocks, status, block, accepted, heard>>

Worker(s) ==
  \/ Connect(s) \/ Ability(s) \/ Config(s) \/ ResetStale(s) \/ ConfigAgain(s)
  \/ Opened(s) \/ OpenFailed(s) \/ Ready(s) \/ Dequeue(s) \/ Send(s)
  \/ SendFailed(s) \/ Close(s)

-----------------------------------------------------------------------------
(* The camera and the network                                              *)

(* A connection is lost while a worker uses it.                            *)
DropLink(s) ==
  /\ LinkDrops /\ link[s]
  /\ link' = [link EXCEPT ![s] = FALSE]
  /\ UNCHANGED <<gui, posts, blocks, pc, status, talking, block, speaker, accepted, heard>>

(* Another client takes or frees the speaker, or the camera notices that   *)
(* the connection of a talker is gone.                                     *)
OthersUseSpeaker ==
  /\ \/ speaker = None /\ speaker' = Other
     \/ speaker = Other /\ speaker' = None
     \/ speaker \in Sessions /\ ~link[speaker] /\ speaker' = None
  /\ UNCHANGED <<gui, posts, blocks, pc, status, talking, block, link, accepted, heard>>

User == Start \/ StartWithoutMic \/ Stop \/ Destroy

Next ==
  \/ User \/ Deliver \/ MicData
  \/ \E s \in Sessions : Worker(s) \/ DropLink(s)
  \/ OthersUseSpeaker

(* The event loop delivers; each worker's network calls end by themselves  *)
(* (5 s to connect, 12 s for a reply).  Neither the user, the microphone   *)
(* nor the camera owes a step.                                             *)
Fairness == WF_vars(Deliver) /\ \A s \in Sessions : WF_vars(Worker(s))

Spec     == Init /\ [][Next]_vars
FairSpec == Spec /\ Fairness
=============================================================================
