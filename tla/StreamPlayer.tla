---------------------------- MODULE StreamPlayer ----------------------------
(***************************************************************************)
(* One stream of one pane (media/StreamPlayer.cpp).                        *)
(*                                                                         *)
(* The StreamPlayer object lives on the GUI thread.  Every start() makes a *)
(* Session and a detached worker that opens, decodes and reconnects; the   *)
(* number of the start() names both.  stop() cuts the Session loose and    *)
(* never waits for its worker.  A worker reaches the object by queued      *)
(* calls (posts), and only as long as its Session still points to it; of   *)
(* these only a frame carries its session, `from' of the others is kept    *)
(* for the properties.                                                     *)
(*                                                                         *)
(* A stream is "live" (RTSP), "retried" (a file played from a busy NVR) or *)
(* "once" (any other file, and native Baichuan, whose blocking read stop() *)
(* wakes).  Sound, rotation, pacing, looping and the lengths of timeouts   *)
(* are left out: a wait may end at any time.                               *)
(***************************************************************************)
EXTENDS Integers, Sequences, FiniteSets

CONSTANTS
  MaxSessions,  \* bound: streams started
  MaxPosts,     \* bound: queued calls that wait at a time
  MaxClips,     \* bound: recordings asked for
  Budget,       \* retriesLeft of a new worker, 6 in the code
  Kinds         \* the kinds of streams that pages open

ASSUME StreamAssumption ==
  /\ {MaxSessions, Budget} \subseteq Nat \ {0} /\ MaxPosts \in Nat \ {0, 1}
  /\ MaxClips \in Nat /\ Kinds \subseteq {"live", "retried", "once"}

Sessions == 1..MaxSessions
None     == 0                  \* no session; no frame
NoFile   == [clip |-> 0, key |-> FALSE]

VARIABLES
  \* the StreamPlayer object, GUI thread
  cur,        \* m_session, or None
  state,      \* m_state, and "Gone" once destroyed
  recording,  \* m_recording
  held,       \* m_playout: the session of the frames it holds, or None
  screen,     \* the session whose frame the sink shows
  started,    \* sessions started so far
  clips,      \* recordings asked for so far
  posts,
  \* struct Session
  kind,
  alive,      \* sessions whose `player' still points to the object
  abort,      \* sessions whose `abort' is set
  lastError,  \* sessions whose `lastWasError' is set
  wanted,     \* sessions whose `recordRequested' is set
  recPath,    \* session -> the recording asked for last
  \* the worker
  pc, tries,
  streaming,  \* sessions whose worker has told of its first frame
  frames,     \* frames of this attempt: "none", "some", "many" (over 100)
  recorder,   \* the file being written; `key': it has a picture
  \* history
  failures,   \* session -> attempts since the last many frames, not of live
  saved       \* recordings announced as saved

gui     == <<cur, state, recording, held, screen, started, clips>>
session == <<kind, alive, abort, lastError, wanted, recPath>>
worker  == <<pc, tries, streaming, frames, recorder, failures>>
vars    == <<gui, posts, session, worker, saved>>

Init ==
  /\ cur = None /\ state = "Idle" /\ recording = FALSE
  /\ held = None /\ screen = None /\ started = 0 /\ clips = 0
  /\ posts = <<>>
  /\ alive = {} /\ abort = {} /\ lastError = {} /\ wanted = {}
  /\ kind      = [s \in Sessions |-> "once"]
  /\ recPath   = [s \in Sessions |-> 0]
  /\ pc        = [s \in Sessions |-> "off"]
  /\ tries     = [s \in Sessions |-> Budget]
  /\ streaming = {}
  /\ frames    = [s \in Sessions |-> "none"]
  /\ recorder  = [s \in Sessions |-> NoFile]
  /\ failures  = [s \in Sessions |-> 0]
  /\ saved = {}

-----------------------------------------------------------------------------
(* The GUI thread                                                          *)

(* stop(), of a session that runs.                                         *)
CutLoose ==
  /\ abort' = abort \cup ({cur} \ {None})
  /\ held' = None

(* Mutant: the old worker is not told to end.                              *)
OpenBeside(k) ==
  /\ state # "Gone" /\ started < MaxSessions
  /\ UNCHANGED abort
  /\ held' = None
  /\ started' = started + 1 /\ cur' = started + 1 /\ alive' = {started + 1}
  /\ kind' = [kind EXCEPT ![started + 1] = k]
  /\ pc' = [pc EXCEPT ![started + 1] = "begin"]
  /\ recording' = (recording /\ cur = None)
  /\ state' = "Connecting"
  /\ UNCHANGED <<screen, clips, posts, lastError, wanted, recPath, tries, streaming, frames,
                 recorder, failures, saved>>

(* setSource() or setPacketSource(), and start(): pages call one after the *)
(* other.  Both stop what runs.                                            *)
Open(k) ==
  /\ state # "Gone" /\ started < MaxSessions
  /\ CutLoose
  /\ started' = started + 1 /\ cur' = started + 1 /\ alive' = {started + 1}
  /\ kind' = [kind EXCEPT ![started + 1] = k]
  /\ pc' = [pc EXCEPT ![started + 1] = "begin"]
  /\ recording' = (recording /\ cur = None)
  /\ state' = "Connecting"
  /\ UNCHANGED <<screen, clips, posts, lastError, wanted, recPath, tries, streaming, frames,
                 recorder, failures, saved>>

Stop ==
  /\ cur # None
  /\ CutLoose
  /\ cur' = None /\ alive' = {}
  /\ recording' = FALSE
  /\ state' = "Stopped"
  /\ UNCHANGED <<screen, started, clips, posts, kind, lastError, wanted, recPath, worker, saved>>

(* The destructor; queued calls of a destroyed object are dropped.         *)
Destroy ==
  /\ state # "Gone"
  /\ CutLoose
  /\ cur' = None /\ alive' = {} /\ posts' = <<>>
  /\ state' = "Gone"
  /\ UNCHANGED <<recording, screen, started, clips, kind, lastError, wanted, recPath, worker, saved>>

StartRecording ==
  /\ cur # None /\ state = "Streaming" /\ clips < MaxClips
  /\ clips' = clips + 1
  /\ recPath' = [recPath EXCEPT ![cur] = clips + 1]
  /\ wanted' = wanted \cup {cur}
  /\ UNCHANGED <<cur, state, recording, held, screen, started, posts, kind, alive, abort,
                 lastError, worker, saved>>

StopRecording ==
  /\ cur \in wanted
  /\ wanted' = wanted \ {cur}
  /\ UNCHANGED <<gui, posts, kind, alive, abort, lastError, recPath, worker, saved>>

(* Mutant: whose frame it is does not matter.                              *)
ApplyAnyFrame(s) ==
  \/ screen' = s /\ UNCHANGED held
  \/ held' = s /\ UNCHANGED screen

(* applyFrameFromWorker(): shown at once, or held by smoothing.            *)
ApplyFrame(s) ==
  IF s # cur
    THEN UNCHANGED <<screen, held>>
    ELSE \/ screen' = s /\ UNCHANGED held
         \/ kind[s] = "live" /\ held' = s /\ UNCHANGED screen

(* applyRecordingState().                                                  *)
ApplyRecording(p) ==
  /\ recording' = p.on
  /\ saved' = IF ~p.on /\ p.clip # 0 THEN saved \cup {p.clip} ELSE saved

Deliver ==
  /\ posts # <<>>
  /\ posts' = Tail(posts)
  /\ LET p == Head(posts) IN
       \/ p.what = "state" /\ state' = p.state /\ UNCHANGED <<screen, held, recording, saved>>
       \/ p.what = "frame" /\ ApplyFrame(p.from) /\ UNCHANGED <<state, recording, saved>>
       \/ p.what = "recording" /\ ApplyRecording(p) /\ UNCHANGED <<state, screen, held>>
  /\ UNCHANGED <<cur, started, clips, session, worker>>

(* servicePlayout(): a held frame is due; others may stay.                 *)
ShowHeld ==
  /\ held # None
  /\ screen' = held /\ held' \in {held, None}
  /\ UNCHANGED <<cur, state, recording, started, clips, posts, session, worker, saved>>

-----------------------------------------------------------------------------
(* What a worker tells the object                                          *)

(* Posted only while the session points to the object.                     *)
Tell(s, news) ==
  IF s \in alive
    THEN Len(posts) + Len(news) <= MaxPosts /\ posts' = posts \o news
    ELSE UNCHANGED posts

State(s, st)     == [what |-> "state", from |-> s, state |-> st]
Frame(s)         == [what |-> "frame", from |-> s]
Recorded(s, on, c) == [what |-> "recording", from |-> s, on |-> on, clip |-> c]

Goto(s, l) == pc' = [pc EXCEPT ![s] = l]

(* Finalize: a file without a picture is reported as a failure.            *)
Finalized(s) ==
  IF recorder[s].clip = 0 THEN <<>>
  ELSE <<Recorded(s, FALSE, IF recorder[s].key THEN recorder[s].clip ELSE 0)>>

(* Mutant: the file is left open.                                          *)
KeepOpen(s) == UNCHANGED <<recorder, wanted>>

(* finalizeRecording(): without an open file the request stays.            *)
CloseFile(s) ==
  /\ recorder' = [recorder EXCEPT ![s] = NoFile]
  /\ wanted' = IF recorder[s].clip = 0 THEN wanted ELSE wanted \ {s}

(* runSession() returns after a failure.                                   *)
Failed(s) ==
  /\ lastError' = lastError \cup {s}
  /\ Goto(s, IF kind[s] \in {"live", "retried"} THEN "back" ELSE "over")

-----------------------------------------------------------------------------
(* The worker                                                              *)

(* An attempt begins; after a failed one, when the backoff ends because    *)
(* time is up or the session was stopped.                                  *)
Begin(s) ==
  /\ pc[s] = "begin"
  /\ Goto(s, IF s \in abort THEN "over" ELSE "open")
  /\ frames' = [frames EXCEPT ![s] = "none"]
  /\ UNCHANGED <<gui, posts, session, tries, streaming, recorder, failures, saved>>

OpenFails(s) ==
  /\ pc[s] = "open"
  /\ Tell(s, <<State(s, "Error")>>)
  /\ Failed(s)
  /\ UNCHANGED <<gui, kind, alive, abort, wanted, recPath, tries, streaming, frames, recorder,
                 failures, saved>>

(* No video, or none that can be decoded: no retry.                        *)
OpenHopeless(s) ==
  /\ pc[s] = "open"
  /\ Tell(s, <<State(s, "Error")>>)
  /\ lastError' = lastError \cup {s}
  /\ Goto(s, "over")
  /\ UNCHANGED <<gui, kind, alive, abort, wanted, recPath, tries, streaming, frames, recorder,
                 failures, saved>>

Opened(s) ==
  /\ pc[s] = "open"
  /\ Goto(s, "loop")
  /\ UNCHANGED <<gui, posts, session, tries, streaming, frames, recorder, failures, saved>>

(* The head of the packet loop.                                            *)
Loop(s) ==
  /\ pc[s] = "loop"
  /\ IF s \notin abort
       THEN Goto(s, "read") /\ UNCHANGED <<posts, recorder, wanted>>
       ELSE Goto(s, "over") /\ Tell(s, Finalized(s)) /\ CloseFile(s)
  /\ UNCHANGED <<gui, kind, alive, abort, lastError, recPath, tries, streaming, frames,
                 failures, saved>>

EndOfStream(s) ==
  /\ pc[s] = "read"
  /\ Tell(s, Finalized(s)) /\ CloseFile(s)
  /\ Goto(s, IF kind[s] = "live" THEN "back" ELSE "over")
  /\ UNCHANGED <<gui, kind, alive, abort, lastError, recPath, tries, streaming, frames,
                 failures, saved>>

(* A read error, or no packet within the watchdog's time.                  *)
ReadFails(s) ==
  /\ pc[s] = "read"
  /\ Tell(s, <<State(s, "Error")>> \o Finalized(s)) /\ CloseFile(s)
  /\ Failed(s)
  /\ UNCHANGED <<gui, kind, alive, abort, recPath, tries, streaming, frames, failures, saved>>

(* syncRecording() and Recorder::write(), for a packet of video.           *)
Unchanged(s) ==
  /\ (s \in wanted) = (recorder[s].clip # 0)
  /\ UNCHANGED <<posts, wanted>>
  /\ \E k \in {recorder[s].key, recorder[s].clip # 0} :
       recorder' = [recorder EXCEPT ![s].key = k]

OpenFile(s) ==
  /\ s \in wanted /\ recorder[s].clip = 0
  /\ \/ /\ Tell(s, <<Recorded(s, TRUE, recPath[s])>>)
        /\ \E k \in BOOLEAN : recorder' = [recorder EXCEPT ![s] = [clip |-> recPath[s], key |-> k]]
        /\ UNCHANGED wanted
     \/ /\ Tell(s, <<Recorded(s, FALSE, 0)>>)
        /\ wanted' = wanted \ {s}
        /\ UNCHANGED recorder

EndFile(s) ==
  /\ s \notin wanted /\ recorder[s].clip # 0
  /\ Tell(s, Finalized(s))
  /\ recorder' = [recorder EXCEPT ![s] = NoFile]
  /\ UNCHANGED wanted

Packet(s) ==
  /\ pc[s] = "read"
  /\ Unchanged(s) \/ OpenFile(s) \/ EndFile(s)
  /\ Goto(s, "decode")
  /\ UNCHANGED <<gui, kind, alive, abort, lastError, recPath, tries, streaming, frames,
                 failures, saved>>

(* A packet of sound, or of neither.                                       *)
OtherPacket(s) ==
  /\ pc[s] = "read"
  /\ Goto(s, "loop")
  /\ UNCHANGED <<gui, posts, session, tries, streaming, frames, recorder, failures, saved>>

(* receiveFrames(): no frame or one at a time, those drained at the end of *)
(* the stream included; the first of the session is news.                  *)
NoPicture(s) ==
  /\ pc[s] = "decode"
  /\ Goto(s, "loop")
  /\ UNCHANGED <<gui, posts, session, tries, streaming, frames, recorder, failures, saved>>

Picture(s) ==
  /\ pc[s] = "decode" /\ s \notin abort
  /\ Tell(s, IF s \in streaming THEN <<Frame(s)>> ELSE <<Frame(s), State(s, "Streaming")>>)
  /\ lastError' = IF s \in streaming THEN lastError ELSE lastError \ {s}
  /\ streaming' = streaming \cup {s}
  /\ \E n \in {"some", "many"} :
       /\ frames[s] = "many" => n = "many"
       /\ frames' = [frames EXCEPT ![s] = n]
  /\ Goto(s, "loop")
  /\ UNCHANGED <<gui, kind, alive, abort, wanted, recPath, tries, recorder, failures, saved>>

-----------------------------------------------------------------------------
(* Between two attempts                                                    *)

(* Mutants: any frame renews the budget; live streams have a budget too.   *)
BudgetRenewed(s) == IF frames[s] # "none" THEN Budget ELSE tries[s]

Unlimited(s) == FALSE

(* What is left of the budget before this attempt is charged.              *)
BudgetLeft(s) == IF frames[s] = "many" THEN Budget ELSE tries[s]

Endless(s) == kind[s] = "live"

(* The attempt is charged, unless the stream is live.                      *)
Charged(s) ==
  LET left == BudgetLeft(s) IN
  /\ failures' = [failures EXCEPT ![s] = IF kind[s] = "live" THEN 0
                                         ELSE IF frames[s] = "many" THEN 1 ELSE @ + 1]
  /\ tries' = [tries EXCEPT ![s] = IF Endless(s) THEN left ELSE left - 1]

GiveUp(s) ==
  /\ pc[s] = "back"
  /\ \/ s \in abort /\ UNCHANGED <<tries, failures>>
     \/ s \notin abort /\ ~Endless(s) /\ BudgetLeft(s) <= 1 /\ Charged(s)
  /\ Goto(s, "over")
  /\ UNCHANGED <<gui, posts, session, streaming, frames, recorder, saved>>

Reconnect(s) ==
  /\ pc[s] = "back" /\ s \notin abort
  /\ Endless(s) \/ BudgetLeft(s) > 1
  /\ Charged(s)
  /\ IF s \in lastError THEN UNCHANGED posts ELSE Tell(s, <<State(s, "Connecting")>>)
  /\ Goto(s, "begin")
  /\ UNCHANGED <<gui, session, streaming, frames, recorder, saved>>

(* Mutant: nobody is told.                                                 *)
OverSilently(s) ==
  /\ pc[s] = "over"
  /\ Goto(s, "done")
  /\ UNCHANGED <<gui, posts, session, tries, streaming, frames, recorder, failures, saved>>

(* What the worker kept is gone with it.                                   *)
Forgotten(s) ==
  /\ tries' = [tries EXCEPT ![s] = Budget] /\ failures' = [failures EXCEPT ![s] = 0]
  /\ frames' = [frames EXCEPT ![s] = "none"] /\ streaming' = streaming \ {s}

Over(s) ==
  /\ pc[s] = "over"
  /\ IF s \in abort THEN UNCHANGED <<posts, lastError>>
     ELSE Tell(s, <<State(s, "Stopped")>>) /\ lastError' = lastError \ {s}
  /\ Goto(s, "done") /\ Forgotten(s)
  /\ UNCHANGED <<gui, kind, alive, abort, wanted, recPath, recorder, saved>>

Worker(s) ==
  \/ Begin(s) \/ OpenFails(s) \/ OpenHopeless(s) \/ Opened(s) \/ Loop(s)
  \/ EndOfStream(s) \/ ReadFails(s) \/ Packet(s) \/ OtherPacket(s)
  \/ NoPicture(s) \/ Picture(s)
  \/ GiveUp(s) \/ Reconnect(s) \/ Over(s)

User == (\E k \in Kinds : Open(k)) \/ Stop \/ Destroy \/ StartRecording \/ StopRecording

Next == User \/ Deliver \/ ShowHeld \/ \E s \in Sessions : Worker(s)

(* The event loop turns and workers run.  Every blocking call of a worker  *)
(* has a limit or is woken by stop(); what it finds then is its own affair.*)
Fairness == WF_vars(Deliver) /\ \A s \in Sessions : WF_vars(Worker(s))

Spec     == Init /\ [][Next]_vars
FairSpec == Spec /\ Fairness
=============================================================================
