----------------------------- MODULE MediaClient -----------------------------
(***************************************************************************)
(* The Baichuan media client of one stream (protocol/BaichuanClient.cpp):  *)
(* its network thread (the pump) signs in, asks the camera for live or     *)
(* recorded media and fills a ring; the player's decode worker empties it  *)
(* with blocking read() calls; the GUI thread seeks and stops.             *)
(*                                                                         *)
(* m_mutex guards the ring, m_finished and m_seekEpoch, and m_cond is      *)
(* shared by both waiters: `asleep' holds the threads that wait on it.     *)
(* m_abort is set outside of the mutex.  A frame is of the request it      *)
(* answers, the of-th one; an I-frame also carries its own time, which     *)
(* goes on as the recording plays (the code lets one without through: not  *)
(* here).  Two moments are Near when they are at most 120 s apart.  Pacing *)
(* and bytes are left out: a wait may end at any time, and read() takes    *)
(* whole frames.                                                           *)
(***************************************************************************)
EXTENDS Integers, Sequences, FiniteSets

CONSTANTS
  Moments,    \* moments of the recording, one for each I-frame
  Positions,  \* ... those that are asked for
  Tolerance,  \* how far an I-frame may be from a seek's target
  MaxRing,    \* kMaxRing: the producer waits while the ring holds more
  MaxWire,    \* bound: frames on their way
  MaxSeeks,   \* bound: seeks that are carried out
  MaxFrames   \* bound: frames between two requests

ASSUME MediaAssumption ==
  /\ Moments \subseteq Nat \ {0} /\ Positions \subseteq Moments /\ Tolerance \in Nat
  /\ {MaxWire, MaxFrames} \subseteq Nat \ {0} /\ {MaxRing, MaxSeeks} \subseteq Nat

Live   == 0    \* startEpoch of a live stream; no position
Kinds  == {"I", "P", "audio"}
Near(a, b) == a - b <= Tolerance /\ b - a <= Tolerance

VARIABLES
  epoch,      \* m_p.startEpoch
  \* shared, under m_mutex
  ring, finished, seekEpoch,
  asleep,     \* threads waiting on m_cond
  abort,      \* m_abort
  \* the pump
  pc, picture, seekTarget,
  hand,       \* the frame in pushAnnexB(), or NoFrame
  \* the reader
  reading,    \* "out" | "in" read() | "eof" | "gone": the worker has ended
  stopping,   \* stop() between the store and the wake-up
  \* the connection and the camera
  requests,   \* positions asked for, in order
  answered,   \* how many of them the camera has turned to
  moment,     \* where in the recording it is
  wire,       \* frames on their way
  sent,
  \* history
  flight,     \* I-frames on their way at the last request, or sent since
  sound       \* requests whose sound was handed over since the last flush

shared == <<ring, finished, seekEpoch, asleep>>
pump   == <<pc, picture, seekTarget, hand, requests, sound>>
camera == <<answered, moment, wire, sent>>
vars   == <<epoch, shared, abort, pump, reading, stopping, camera, flight>>

NoFrame == [of |-> 0, at |-> 0, kind |-> "P"]

Init ==
  /\ epoch \in Positions \cup {Live}
  /\ ring = <<>> /\ finished = FALSE /\ seekEpoch = 0 /\ asleep = {} /\ abort = FALSE
  /\ pc = "off" /\ picture = FALSE /\ seekTarget = 0 /\ hand = NoFrame
  /\ reading = "out" /\ stopping = FALSE
  /\ requests = <<>> /\ answered = 0 /\ moment = 0 /\ wire = <<>> /\ sent = 0
  /\ flight = {} /\ sound = {}

WakeAll == asleep' = {}

-----------------------------------------------------------------------------
(* The GUI thread                                                          *)
Start ==
  /\ pc = "off" /\ ~abort
  /\ pc' = "login"
  /\ UNCHANGED <<epoch, shared, abort, picture, seekTarget, hand, requests, sound, reading, stopping,
                 camera, flight>>

(* seek(): only noted; the pump carries it out.  DeviceManager remembers   *)
(* the clients of recordings only.                                         *)
Seek(p) ==
  /\ epoch # Live /\ pc # "off" /\ ~finished /\ ~abort /\ Len(requests) <= MaxSeeks
  /\ seekEpoch' = p
  /\ UNCHANGED <<epoch, ring, finished, asleep, abort, pump, reading, stopping, camera, flight>>

StopStore ==
  /\ pc # "off" /\ ~abort
  /\ abort' = TRUE /\ stopping' = TRUE
  /\ UNCHANGED <<epoch, shared, pump, reading, camera, flight>>

(* Mutant: the waiters are not woken.                                      *)
StopWithoutWake ==
  /\ stopping
  /\ stopping' = FALSE /\ finished' = TRUE
  /\ UNCHANGED <<epoch, ring, seekEpoch, asleep, abort, pump, reading, camera, flight>>

StopWake ==
  /\ stopping
  /\ stopping' = FALSE /\ finished' = TRUE /\ WakeAll
  /\ UNCHANGED <<epoch, ring, seekEpoch, abort, pump, reading, camera, flight>>

-----------------------------------------------------------------------------
(* The reader                                                              *)
ReadCall ==
  /\ pc # "off" /\ reading = "out" /\ ~abort
  /\ reading' = "in"
  /\ UNCHANGED <<epoch, shared, abort, pump, stopping, camera, flight>>

(* Mutant: the pump at a full ring is not wakened.                         *)
ReadSilently ==
  /\ reading = "in" /\ "reader" \notin asleep
  /\ \/ /\ ring # <<>>
        /\ \E n \in 1..Len(ring) : ring' = SubSeq(ring, n + 1, Len(ring))
        /\ reading' = "out" /\ UNCHANGED asleep
     \/ /\ ring = <<>> /\ (finished \/ abort)
        /\ reading' = "eof" /\ UNCHANGED <<ring, asleep>>
     \/ /\ ring = <<>> /\ ~finished /\ ~abort
        /\ asleep' = asleep \cup {"reader"} /\ UNCHANGED <<ring, reading>>
  /\ UNCHANGED <<epoch, finished, seekEpoch, abort, pump, stopping, camera, flight>>

(* One turn of read() under the mutex: it takes what there is, ends, or    *)
(* waits.                                                                  *)
ReadTurn ==
  /\ reading = "in" /\ "reader" \notin asleep
  /\ \/ /\ ring # <<>>
        /\ \E n \in 1..Len(ring) : ring' = SubSeq(ring, n + 1, Len(ring))
        /\ reading' = "out" /\ WakeAll
     \/ /\ ring = <<>> /\ (finished \/ abort)
        /\ reading' = "eof" /\ UNCHANGED <<ring, asleep>>
     \/ /\ ring = <<>> /\ ~finished /\ ~abort
        /\ asleep' = asleep \cup {"reader"} /\ UNCHANGED <<ring, reading>>
  /\ UNCHANGED <<epoch, finished, seekEpoch, abort, pump, stopping, camera, flight>>

(* runWorker() ends between two reads: it is stopped, or cannot open or    *)
(* decode what it has read.  It does not stop the client.                  *)
ReaderLeaves ==
  /\ pc # "off" /\ reading = "out"
  /\ reading' = "gone"
  /\ UNCHANGED <<epoch, shared, abort, pump, stopping, camera, flight>>

-----------------------------------------------------------------------------
(* The pump                                                                *)
Pictures(w) == {w[i] : i \in {j \in DOMAIN w : w[j].kind = "I"}}

Ask(p) == requests' = Append(requests, p) /\ flight' = Pictures(wire)

(* connectAndLogin() and startStream(); a failure ends the thread.         *)
Login ==
  /\ pc = "login"
  /\ \/ ~abort /\ pc' = "loop" /\ Ask(epoch)
     \/ pc' = "end" /\ UNCHANGED <<requests, flight>>
  /\ UNCHANGED <<epoch, shared, abort, picture, seekTarget, hand, sound, reading, stopping, camera>>

(* Mutant: the picture need not start anew.                                *)
TakeSeekRunning ==
  /\ pc = "loop" /\ ~abort /\ seekEpoch # 0
  /\ Ask(seekEpoch)
  /\ seekEpoch' = 0 /\ seekTarget' = seekEpoch
  /\ sound' = {}
  /\ pc' = "clear"
  /\ UNCHANGED <<epoch, ring, finished, asleep, abort, picture, hand, reading, stopping, camera>>

(* The top of the loop: a seek is taken out under the mutex and sent; the  *)
(* sound that waits in the player is dropped.                              *)
TakeSeek ==
  /\ pc = "loop" /\ ~abort /\ seekEpoch # 0
  /\ Ask(seekEpoch)
  /\ seekEpoch' = 0 /\ seekTarget' = seekEpoch
  /\ picture' = FALSE /\ sound' = {}
  /\ pc' = "clear"
  /\ UNCHANGED <<epoch, ring, finished, asleep, abort, hand, reading, stopping, camera>>

(* ... and the ring is emptied in a section of its own.                    *)
ClearRing ==
  /\ pc = "clear"
  /\ ring' = <<>> /\ WakeAll
  /\ pc' = "parse"
  /\ UNCHANGED <<epoch, finished, seekEpoch, abort, picture, seekTarget, hand, requests, sound,
                 reading, stopping, camera, flight>>

NoSeek ==
  /\ pc = "loop" /\ ~abort /\ seekEpoch = 0
  /\ pc' = "parse"
  /\ UNCHANGED <<epoch, shared, abort, picture, seekTarget, hand, requests, sound, reading, stopping,
                 camera, flight>>

(* waitForReadyRead() times out, a message has another number, or its bytes *)
(* end no frame of these kinds; a keep-alive changes nothing here.         *)
Quiet ==
  /\ pc = "parse"
  /\ pc' = "loop"
  /\ UNCHANGED <<epoch, shared, abort, picture, seekTarget, hand, requests, sound, reading, stopping,
                 camera, flight>>

(* Mutant: sound of a recording is not held back.                          *)
AudioAhead(f) ==
  /\ f.kind = "audio"
  /\ sound' = sound \cup {f.of}
  /\ pc' = "loop" /\ UNCHANGED <<picture, seekTarget, hand>>

(* onAudio: of a recording only with a picture.                            *)
Audio(f) ==
  /\ f.kind = "audio"
  /\ sound' = IF epoch = Live \/ picture THEN sound \cup {f.of} ELSE sound
  /\ pc' = "loop" /\ UNCHANGED <<picture, seekTarget, hand>>

(* onVideo: until the picture has started, only an I-frame near the target *)
(* of the seek is let through.                                             *)
TooFar(f) == seekTarget # 0 /\ ~Near(f.at, seekTarget)
Starts(f) == f.kind = "I" /\ ~TooFar(f)

Video(f) ==
  /\ f.kind \in {"I", "P"}
  /\ IF picture \/ Starts(f)
       THEN /\ picture' = TRUE
            /\ seekTarget' = IF picture THEN seekTarget ELSE 0
            /\ hand' = f /\ pc' = "push"
       ELSE pc' = "loop" /\ UNCHANGED <<picture, seekTarget, hand>>
  /\ UNCHANGED sound

Parse ==
  /\ pc = "parse" /\ wire # <<>>
  /\ wire' = Tail(wire)
  /\ Audio(Head(wire)) \/ Video(Head(wire))
  /\ UNCHANGED <<epoch, shared, abort, requests, reading, stopping, answered, moment, sent, flight>>

(* One turn of pushAnnexB() under the mutex.                               *)
Push ==
  /\ pc = "push" /\ "pump" \notin asleep
  /\ \/ /\ Len(ring) > MaxRing /\ ~abort
        /\ asleep' = asleep \cup {"pump"} /\ UNCHANGED <<ring, pc, hand>>
     \/ /\ abort
        /\ pc' = "loop" /\ hand' = NoFrame /\ UNCHANGED <<ring, asleep>>
     \/ /\ Len(ring) <= MaxRing /\ ~abort
        /\ ring' = Append(ring, hand) /\ WakeAll
        /\ hand' = NoFrame
        /\ pc' \in {"loop", "parse"}  \* a message may hold another frame
  /\ UNCHANGED <<epoch, finished, seekEpoch, abort, picture, seekTarget, requests, sound, reading,
                 stopping, camera, flight>>

Aborted ==
  /\ pc = "loop" /\ abort
  /\ pc' = "end"
  /\ UNCHANGED <<epoch, shared, abort, picture, seekTarget, hand, requests, sound, reading, stopping,
                 camera, flight>>

(* The end of run().                                                       *)
Finish ==
  /\ pc = "end"
  /\ pc' = "done" /\ finished' = TRUE /\ WakeAll
  /\ UNCHANGED <<epoch, ring, seekEpoch, abort, picture, seekTarget, hand, requests, sound, reading,
                 stopping, camera, flight>>

-----------------------------------------------------------------------------
(* The camera turns to the next request and plays on from there.           *)
Answer ==
  /\ answered < Len(requests)
  /\ answered' = answered + 1 /\ moment' = requests[answered + 1] /\ sent' = 0
  /\ UNCHANGED <<epoch, shared, abort, pump, reading, stopping, wire, flight>>

Carry(f) == wire' = Append(wire, f)

Send ==
  /\ answered > 0 /\ pc # "done"
  /\ Len(wire) < MaxWire /\ sent < MaxFrames
  /\ \/ \E t \in Moments :
          LET f == [of |-> answered, at |-> t, kind |-> "I"]
          IN  t >= moment /\ moment' = t /\ Carry(f) /\ flight' = flight \cup {f}
     \/ /\ \E k \in {"P", "audio"} : Carry([of |-> answered, at |-> 0, kind |-> k])
        /\ UNCHANGED <<moment, flight>>
  /\ sent' = sent + 1
  /\ UNCHANGED <<epoch, shared, abort, pump, reading, stopping, answered>>

-----------------------------------------------------------------------------
Gui    == Start \/ StopStore \/ StopWake \/ \E p \in Positions : Seek(p)
Reader == ReadCall \/ ReadTurn \/ ReaderLeaves
Pump   ==
  Login \/ TakeSeek \/ ClearRing \/ NoSeek \/ Quiet \/ Parse \/ Push \/ Aborted \/ Finish
Camera == Answer \/ Send

Next == Gui \/ Reader \/ Pump \/ Camera

(* Every network wait of the pump is short, stop() runs to its end, and    *)
(* the decode worker reads on or ends.                                     *)
Fairness == WF_vars(Pump) /\ WF_vars(Reader) /\ WF_vars(StopWake)

Spec     == Init /\ [][Next]_vars
FairSpec == Spec /\ Fairness
=============================================================================
