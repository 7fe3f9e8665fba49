------------------------- MODULE TalkSessionProofs -------------------------
(***************************************************************************)
(* Proofs about push-to-talk, for every number of sessions, blocks and     *)
(* queue places, and whatever the camera and the network do.               *)
(***************************************************************************)
EXTENDS TalkSessionProps, TLAPS

(* The inductive invariant: OnlyTheCurrentSession with the types it needs. *)
CurrentInv ==
  /\ state \in {"idle", "connecting", "talking", "error", "gone"}
  /\ mic \in BOOLEAN
  /\ started \in 0..MaxSessions
  /\ shared \in 0..started
  /\ OnlyTheCurrentSession

LEMMA CurrentInit == Init => CurrentInv
<1> SUFFICES ASSUME Init PROVE CurrentInv
  OBVIOUS
<1>1. state = "idle" /\ shared = 0 /\ mic = FALSE /\ started = 0 /\ owner = {} /\ abort = {}
  BY DEF Init, None
<1>2. 1..started = {} /\ {shared} \ {None} = {}
  BY <1>1 DEF None
<1>3. started \in 0..MaxSessions /\ shared \in 0..started
  BY <1>1, TalkAssumption DEF TalkAssumption
<1>4. OnlyTheCurrentSession
  BY <1>1, <1>2 DEF OnlyTheCurrentSession, IsActive, None
<1> QED BY <1>1, <1>3, <1>4 DEF CurrentInv

(* Cutting the Shared block loose ends the current session and no other.   *)
LEMMA CutLooseCuts ==
  ASSUME CurrentInv, CutLoose, mic' = FALSE, started' = started,
         state' \in {"idle", "error", "gone"}
  PROVE  CurrentInv'
<1>1. started \in 0..MaxSessions /\ shared \in 0..started /\ MaxSessions \in Nat
  BY TalkAssumption DEF TalkAssumption, CurrentInv
<1>2. shared' = 0
  BY DEF CutLoose, None
<1>3. started' \in 0..MaxSessions /\ shared' \in 0..started'
  BY <1>1, <1>2
<1>4. abort' = 1..started' \ {shared'}
  BY <1>1, <1>2 DEF CurrentInv, OnlyTheCurrentSession, CutLoose, None
<1>5. owner' = {shared'} \ {None}
  BY <1>2 DEF CurrentInv, OnlyTheCurrentSession, CutLoose, None
<1>6. OnlyTheCurrentSession'
  BY <1>2, <1>4, <1>5 DEF OnlyTheCurrentSession, IsActive, None
<1> QED BY <1>3, <1>6 DEF CurrentInv

(* Steps that leave the object and the Shared flags alone.                 *)
LEMMA OthersKeepCurrent ==
  ASSUME CurrentInv, UNCHANGED <<state, mic, started, shared, owner, abort>>
  PROVE  CurrentInv'
BY DEF CurrentInv, OnlyTheCurrentSession, IsActive

LEMMA CurrentNext == CurrentInv /\ [Next]_vars => CurrentInv'
<1> SUFFICES ASSUME CurrentInv, [Next]_vars PROVE CurrentInv'
  OBVIOUS
<1> USE TalkAssumption DEF TalkAssumption
<1>1. CASE StartWithoutMic
  BY <1>1 DEF StartWithoutMic, CurrentInv, OnlyTheCurrentSession, IsActive, blocks
<1>2. CASE Start
  BY <1>2 DEF Start, CurrentInv, OnlyTheCurrentSession, IsActive, Sessions, None
<1>3. CASE Stop
  BY <1>3, CutLooseCuts DEF Stop
<1>4. CASE Destroy
  BY <1>4, CutLooseCuts DEF Destroy
<1>5. CASE Deliver
  <2>1. started' = started
    BY <1>5 DEF Deliver
  <2>2. ASSUME ApplyFailed PROVE CurrentInv'
    <3>1. CASE state = "idle"
      BY <2>1, <2>2, <3>1, OthersKeepCurrent DEF ApplyFailed
    <3>2. CASE state # "idle"
      BY <2>1, <2>2, <3>2, CutLooseCuts DEF ApplyFailed
    <3> QED BY <3>1, <3>2
  <2>3. ASSUME ApplyReady PROVE CurrentInv'
    <3>1. CASE state # "connecting"
      BY <2>1, <2>3, <3>1, OthersKeepCurrent DEF ApplyReady
    <3>2. CASE state = "connecting" /\ ApplyFailed
      BY <2>2, <3>2
    <3>3. CASE /\ state = "connecting" /\ mic' = TRUE /\ state' = "talking"
               /\ UNCHANGED <<shared, owner, abort>>
      BY <2>1, <3>3 DEF CurrentInv, OnlyTheCurrentSession, IsActive
    <3> QED BY <2>3, <3>1, <3>2, <3>3 DEF ApplyReady
  <2> QED BY <1>5, <2>2, <2>3 DEF Deliver
<1>6. CASE MicData
  BY <1>6, OthersKeepCurrent DEF MicData
<1>7. ASSUME NEW s \in Sessions, Worker(s) PROVE CurrentInv'
  <2>1. UNCHANGED <<state, mic, started, shared, owner, abort>>
    BY <1>7 DEF Worker, Connect, Ability, Config, ResetStale, ConfigAgain, Opened,
       OpenFailed, Ready, Dequeue, Send, SendFailed, Close, gui, blocks
  <2> QED BY <2>1, OthersKeepCurrent
<1>8. ASSUME NEW s \in Sessions, DropLink(s) PROVE CurrentInv'
  BY <1>8, OthersKeepCurrent DEF DropLink, gui, blocks
<1>9. CASE OthersUseSpeaker
  BY <1>9, OthersKeepCurrent DEF OthersUseSpeaker, gui, blocks
<1>10. CASE UNCHANGED vars
  BY <1>10, OthersKeepCurrent DEF vars, gui, blocks
<1> QED
  BY <1>1, <1>2, <1>3, <1>4, <1>5, <1>6, <1>7, <1>8, <1>9, <1>10 DEF Next, User

(* The microphone belongs to the current session, and every other session  *)
(* has been told to end (TalkSession::stop, applyFailed, the destructor).  *)
THEOREM MicHasOneOwner == Spec => []OnlyTheCurrentSession
<1>1. CurrentInv => OnlyTheCurrentSession
  BY DEF CurrentInv
<1> QED BY <1>1, CurrentInit, CurrentNext, PTL DEF Spec

-----------------------------------------------------------------------------
LEMMA HeadAndTail ==
  ASSUME NEW S, NEW q \in Seq(S), q # <<>>
  PROVE  Head(q) \in S /\ Tail(q) \in Seq(S)
OBVIOUS

LEMMA SeqOfMore ==
  ASSUME NEW S, NEW T, S \subseteq T, NEW q \in Seq(S)
  PROVE  q \in Seq(T)
<1>1. Len(q) \in Nat /\ \A k \in 1..Len(q) : q[k] \in T
  OBVIOUS
<1>2. q = [k \in 1..Len(q) |-> q[k]]
  OBVIOUS
<1>3. q \in [1..Len(q) -> T]
  BY <1>1, <1>2
<1> QED BY <1>1, <1>3

(* The types, in three parts: the object, the speech, the workers.         *)
Calls == [what : {"ready", "failed"}, from : Sessions]

Object ==
  /\ state \in {"idle", "connecting", "talking", "error", "gone"}
  /\ shared \in Sessions \cup {None} /\ mic \in BOOLEAN /\ started \in 0..MaxSessions
  /\ posts \in Seq(Calls)
  /\ owner \subseteq Sessions /\ abort \subseteq Sessions

Speech ==
  /\ captured \in 0..MaxBlocks
  /\ queue \in [Sessions -> Seq(1..MaxBlocks)]
  /\ block \in [Sessions -> 0..MaxBlocks]
  /\ heard \in [Sessions -> Seq(1..MaxBlocks)]
  /\ \A s \in Sessions : pc[s] = "send" => block[s] # 0

Workers ==
  /\ pc \in [Sessions -> Phases]
  /\ status \in [Sessions -> {0, 200, 400, 422}]
  /\ talking \in [Sessions -> BOOLEAN]
  /\ link \in [Sessions -> BOOLEAN]
  /\ speaker \in Sessions \cup {None, Other}
  /\ accepted \subseteq Sessions

LEMMA TypesInit == Init => Object /\ Speech /\ Workers
<1> SUFFICES ASSUME Init PROVE Object /\ Speech /\ Workers
  OBVIOUS
<1>1. Object
  <2>1. posts \in Seq(Calls) /\ 0 \in 0..MaxSessions
    BY TalkAssumption DEF TalkAssumption, Init
  <2> QED BY <2>1 DEF Init, Object
<1>2. Speech
  <2>1. captured \in 0..MaxBlocks /\ 0 \in 0..MaxBlocks
    BY TalkAssumption DEF TalkAssumption, Init
  <2> QED BY <2>1 DEF Init, Speech
<1>3. Workers
  BY DEF Init, Workers, Phases
<1> QED BY <1>1, <1>2, <1>3

LEMMA ObjectNext == Object /\ [Next]_vars => Object'
<1> SUFFICES ASSUME Object, [Next]_vars PROVE Object'
  OBVIOUS
<1> USE DEF Object, gui, blocks
<1>1. CASE StartWithoutMic \/ Stop \/ Destroy
  <2>1. posts' = posts \/ posts' = <<>>
    BY <1>1 DEF StartWithoutMic, Stop, Destroy
  <2>2. posts' \in Seq(Calls)
    <3>1. posts \in Seq(Calls) /\ <<>> \in Seq(Calls)
      OBVIOUS
    <3> QED BY <2>1, <3>1, Zenon
  <2> QED BY <1>1, <2>2 DEF StartWithoutMic, Stop, Destroy, CutLoose
<1>2. CASE Start
  <2>1. started + 1 \in Sessions /\ started' \in 0..MaxSessions
    BY <1>2, TalkAssumption DEF TalkAssumption, Start, Sessions
  <2> QED BY <1>2, <2>1 DEF Start
<1>3. CASE Deliver
  <2>1. posts' \in Seq(Calls)
    <3>1. posts # <<>> /\ posts' = Tail(posts)
      BY <1>3 DEF Deliver
    <3> QED BY <3>1, HeadAndTail
  <2>2. started' = started /\ (ApplyReady \/ ApplyFailed)
    BY <1>3 DEF Deliver
  <2> QED BY <2>1, <2>2 DEF ApplyReady, ApplyFailed, CutLoose
<1>4. CASE MicData \/ OthersUseSpeaker \/ UNCHANGED vars
  BY <1>4 DEF MicData, OthersUseSpeaker, vars
<1>5. ASSUME NEW s \in Sessions, Worker(s) \/ DropLink(s) PROVE Object'
  <2>1. UNCHANGED <<state, mic, started, shared, owner, abort>>
    BY <1>5 DEF Worker, Connect, Ability, Config, ResetStale, ConfigAgain, Opened, OpenFailed,
                Ready, Dequeue, Send, SendFailed, Close, DropLink
  <2>2. \/ posts' = posts
        \/ \E w \in {"ready", "failed"} : posts' = Append(posts, [what |-> w, from |-> s])
    BY <1>5 DEF Worker, Connect, Ability, Config, ResetStale, ConfigAgain, Opened, OpenFailed,
                Ready, Dequeue, Send, SendFailed, Close, DropLink, Post
  <2>3. posts' \in Seq(Calls)
    <3>1. \A w \in {"ready", "failed"} : [what |-> w, from |-> s] \in Calls
      BY DEF Calls
    <3> QED BY <2>2, <3>1
  <2> QED BY <2>1, <2>3
<1> QED BY <1>1, <1>2, <1>3, <1>4, <1>5 DEF Next, User

LEMMA WorkersNext == Workers /\ [Next]_vars => Workers'
<1> SUFFICES ASSUME Workers, [Next]_vars PROVE Workers'
  OBVIOUS
<1> USE DEF Workers, net, Goto, Phases
<1>1. CASE \/ StartWithoutMic \/ Stop \/ Destroy \/ Start \/ Deliver \/ MicData
           \/ OthersUseSpeaker \/ UNCHANGED vars
  BY <1>1 DEF StartWithoutMic, Stop, Destroy, Start, Deliver, MicData, OthersUseSpeaker, vars
<1>2. ASSUME NEW s \in Sessions, Worker(s) \/ DropLink(s) PROVE Workers'
  <2>1. pc' \in [Sessions -> Phases]
    <3>1. pc' = pc \/ \E l \in Phases : pc' = [pc EXCEPT ![s] = l]
      BY <1>2 DEF Worker, Connect, Ability, Config, ResetStale, ConfigAgain, Opened, OpenFailed,
                  Ready, Dequeue, Send, SendFailed, Close, DropLink
    <3> QED BY <3>1
  <2>2. talking' \in [Sessions -> BOOLEAN] /\ link' \in [Sessions -> BOOLEAN]
    <3>1. /\ talking' = talking \/ \E b \in BOOLEAN : talking' = [talking EXCEPT ![s] = b]
          /\ link' = link \/ \E b \in BOOLEAN : link' = [link EXCEPT ![s] = b]
      BY <1>2, Zenon DEF Worker, Connect, Ability, Config, ResetStale, ConfigAgain, Opened, OpenFailed,
                  Ready, Dequeue, Send, SendFailed, Close, DropLink
    <3> QED BY <3>1
  <2>3. /\ status' \in [Sessions -> {0, 200, 400, 422}]
        /\ speaker' \in Sessions \cup {None, Other} /\ accepted' \subseteq Sessions
    <3>1. TransactConfig(s) => /\ speaker' \in Sessions \cup {None, Other}
                               /\ accepted' \subseteq Sessions
                               /\ status' \in [Sessions -> {0, 200, 400, 422}]
      BY DEF TransactConfig, TakeSpeaker, Reply
    <3> QED
      BY <1>2, <3>1 DEF Worker, Connect, Ability, Config, ResetStale, ConfigAgain, Opened, OpenFailed,
                        Ready, Dequeue, Send, SendFailed, Close, DropLink
  <2> QED BY <2>1, <2>2, <2>3
<1> QED BY <1>1, <1>2 DEF Next, User

(* onMicData() on the current queue.                                       *)
LEMMA QueueGrows ==
  ASSUME NEW q \in Seq(1..MaxBlocks), NEW n \in 1..MaxBlocks
  PROVE  /\ Append(IF Len(q) >= MaxQueue THEN Tail(q) ELSE q, n) \in Seq(1..MaxBlocks)
         /\ Len(q) <= MaxQueue =>
              Len(Append(IF Len(q) >= MaxQueue THEN Tail(q) ELSE q, n)) <= MaxQueue
<1>1. CASE Len(q) >= MaxQueue
  <2>1. q # <<>> /\ MaxQueue \in Nat /\ MaxQueue > 0
    BY <1>1, TalkAssumption DEF TalkAssumption
  <2>2. Tail(q) \in Seq(1..MaxBlocks) /\ Len(Tail(q)) = Len(q) - 1
    BY <2>1
  <2> QED BY <1>1, <2>1, <2>2
<1>2. CASE ~(Len(q) >= MaxQueue)
  <2>1. MaxQueue \in Nat
    BY TalkAssumption DEF TalkAssumption
  <2> QED BY <1>2, <2>1
<1> QED BY <1>1, <1>2

LEMMA SpeechNext == Object /\ Workers /\ Speech /\ [Next]_vars => Speech'
<1> SUFFICES ASSUME Object, Workers, Speech, [Next]_vars PROVE Speech'
  OBVIOUS
<1>1. ASSUME UNCHANGED <<captured, queue, block, heard>>,
             \A s \in Sessions : pc'[s] = "send" => pc[s] = "send"
      PROVE  Speech'
  BY <1>1 DEF Speech
<1>2. CASE StartWithoutMic \/ Stop \/ Destroy \/ Start \/ Deliver \/ OthersUseSpeaker \/ UNCHANGED vars
  <2>1. UNCHANGED <<captured, queue, block, heard>>
    BY <1>2 DEF StartWithoutMic, Stop, Destroy, Start, Deliver, OthersUseSpeaker, vars, gui, blocks,
                net
  <2>2. \A s \in Sessions : pc'[s] = "send" => pc[s] = "send"
    BY <1>2 DEF StartWithoutMic, Stop, Destroy, Start, Deliver, OthersUseSpeaker, vars, Workers
  <2> QED BY <1>1, <2>1, <2>2
<1>3. CASE MicData
  <2>1. shared \in Sessions /\ captured + 1 \in 1..MaxBlocks /\ captured' = captured + 1
    BY <1>3, TalkAssumption DEF MicData, Object, TalkAssumption, Speech
  <2> DEFINE q == Append(IF Len(queue[shared]) >= MaxQueue THEN Tail(queue[shared])
                                                           ELSE queue[shared], captured + 1)
  <2>2. q \in Seq(1..MaxBlocks)
    BY <2>1, QueueGrows DEF Speech
  <2>3. queue' = [queue EXCEPT ![shared] = q]
    BY <1>3 DEF MicData
  <2> HIDE DEF q
  <2>4. queue' \in [Sessions -> Seq(1..MaxBlocks)]
    BY <2>1, <2>2, <2>3 DEF Speech
  <2>5. captured' \in 0..MaxBlocks
    BY <2>1
  <2> QED BY <1>3, <2>4, <2>5 DEF MicData, net, Speech
<1>4. ASSUME NEW s \in Sessions, Worker(s) \/ DropLink(s) PROVE Speech'
  <2>1. CASE Dequeue(s) /\ s \notin abort
    <3>1. /\ queue[s] # <<>> /\ block' = [block EXCEPT ![s] = Head(queue[s])]
          /\ queue' = [queue EXCEPT ![s] = Tail(queue[s])]
          /\ pc' = [pc EXCEPT ![s] = "send"] /\ captured' = captured /\ heard' = heard
      BY <2>1 DEF Dequeue, gui, net, Goto
    <3>2. Head(queue[s]) \in 1..MaxBlocks /\ Tail(queue[s]) \in Seq(1..MaxBlocks)
      <4>1. queue[s] \in Seq(1..MaxBlocks) /\ queue[s] # <<>>
        BY <3>1 DEF Speech
      <4> QED BY <4>1, HeadAndTail
    <3>3. block' \in [Sessions -> 0..MaxBlocks] /\ block'[s] # 0
      BY <3>1, <3>2 DEF Speech
    <3>4. queue' \in [Sessions -> Seq(1..MaxBlocks)]
      BY <3>1, <3>2 DEF Speech
    <3>5. \A t \in Sessions : pc'[t] = "send" => block'[t] # 0
      BY <3>1, <3>3 DEF Speech, Workers
    <3> QED BY <3>1, <3>3, <3>4, <3>5 DEF Speech
  <2>2. CASE Send(s)
    <3>1. /\ UNCHANGED <<captured, queue, block>> /\ pc[s] = "send"
          /\ heard' = heard \/ heard' = [heard EXCEPT ![s] = Append(@, block[s])]
      BY <2>2 DEF Send, gui, blocks
    <3>2. Append(heard[s], block[s]) \in Seq(1..MaxBlocks)
      <4>1. block[s] \in 1..MaxBlocks
        BY <3>1 DEF Speech
      <4> QED BY <4>1 DEF Speech
    <3>3. heard' \in [Sessions -> Seq(1..MaxBlocks)]
      BY <3>1, <3>2 DEF Speech
    <3>4. \A t \in Sessions : pc'[t] = "send" => pc[t] = "send"
      BY <2>2 DEF Send, Goto, Workers
    <3> QED BY <3>1, <3>3, <3>4 DEF Speech
  <2>3. CASE /\ ~Send(s) /\ ~(Dequeue(s) /\ s \notin abort)
    <3>1. UNCHANGED <<captured, queue, block, heard>>
      BY <1>4, <2>3 DEF Worker, Connect, Ability, Config, ResetStale, ConfigAgain, Opened,
                OpenFailed, Ready, Dequeue, SendFailed, Close, DropLink, gui, blocks, net
    <3>2. \A t \in Sessions : pc'[t] = "send" => pc[t] = "send"
      BY <1>4, <2>3 DEF Worker, Connect, Ability, Config, ResetStale, ConfigAgain, Opened,
                OpenFailed, Ready, Dequeue, SendFailed, Close, DropLink, Goto, Workers
    <3> QED BY <1>1, <3>1, <3>2
  <2> QED BY <2>1, <2>2, <2>3
<1> QED BY <1>2, <1>3, <1>4 DEF Next, User

(* Every variable keeps its type.                                          *)
THEOREM TypesHold == Spec => []TypeOK
<1>1. Object /\ Speech /\ Workers => TypeOK
  BY DEF Object, Speech, Workers, TypeOK, Calls
<1> QED BY <1>1, TypesInit, ObjectNext, WorkersNext, SpeechNext, PTL DEF Spec

-----------------------------------------------------------------------------
(* What a session has said, holds and still has to say stands in the order *)
(* it was spoken.                                                          *)
Elements(q)   == {q[k] : k \in 1..Len(q)}
Increasing(q) == \A k, l \in 1..Len(q) : k < l => q[k] < q[l]

Line(h, b, q) ==
  /\ Increasing(h) /\ Increasing(q)
  /\ \A x \in Elements(h) : \A y \in b \cup Elements(q) : x < y
  /\ \A y \in b : \A z \in Elements(q) : y < z

Hand(s) == IF pc[s] = "send" THEN {block[s]} ELSE {}
Own(s)  == Elements(heard[s]) \cup Hand(s) \cup Elements(queue[s])

InLine ==
  \A s \in Sessions :
    /\ Line(heard[s], Hand(s), queue[s])
    /\ Own(s) \subseteq 1..captured
    /\ \A t \in Sessions \ {s} : Own(s) \cap Own(t) = {}

SpeechInv == Object /\ Workers /\ Speech /\ InLine

LEMMA TailElements ==
  ASSUME NEW q \in Seq(Nat), q # <<>>
  PROVE  /\ Tail(q) \in Seq(Nat) /\ Elements(Tail(q)) \subseteq Elements(q)
         /\ Head(q) \in Elements(q) /\ Head(q) \in Nat
         /\ Increasing(q) => Increasing(Tail(q)) /\ \A z \in Elements(Tail(q)) : Head(q) < z
<1>1. /\ Head(q) = q[1] /\ 1 \in 1..Len(q) /\ Len(Tail(q)) = Len(q) - 1
      /\ \A k \in 1..Len(Tail(q)) : Tail(q)[k] = q[k + 1] /\ k + 1 \in 1..Len(q)
  OBVIOUS
<1>2. Tail(q) \in Seq(Nat) /\ Head(q) \in Nat
  OBVIOUS
<1>3. Elements(Tail(q)) \subseteq Elements(q) /\ Head(q) \in Elements(q)
  BY <1>1 DEF Elements
<1>4. ASSUME Increasing(q) PROVE Increasing(Tail(q))
  <2>1. ASSUME NEW k \in 1..Len(Tail(q)), NEW l \in 1..Len(Tail(q)), k < l
        PROVE  Tail(q)[k] < Tail(q)[l]
    <3>1. k + 1 < l + 1 /\ k + 1 \in 1..Len(q) /\ l + 1 \in 1..Len(q)
      BY <1>1, <2>1
    <3> QED BY <1>1, <1>4, <3>1 DEF Increasing
  <2> QED BY <2>1 DEF Increasing
<1>5. ASSUME Increasing(q), NEW z \in Elements(Tail(q)) PROVE Head(q) < z
  <2>1. PICK k \in 1..Len(Tail(q)) : z = Tail(q)[k]
    BY DEF Elements
  <2>2. 1 < k + 1
    BY <1>1
  <2> QED BY <1>1, <1>5, <2>1, <2>2 DEF Increasing
<1> QED BY <1>2, <1>3, <1>4, <1>5

LEMMA AppendElements ==
  ASSUME NEW q \in Seq(Nat), NEW n \in Nat
  PROVE  /\ Append(q, n) \in Seq(Nat) /\ Elements(Append(q, n)) = Elements(q) \cup {n}
         /\ Increasing(q) /\ (\A x \in Elements(q) : x < n) => Increasing(Append(q, n))
<1>1. /\ Append(q, n) \in Seq(Nat) /\ Len(Append(q, n)) = Len(q) + 1 /\ Len(q) \in Nat
      /\ \A k \in 1..Len(q) : Append(q, n)[k] = q[k]
      /\ Append(q, n)[Len(q) + 1] = n
  OBVIOUS
<1>2. \A k \in 1..Len(q) + 1 : k \in 1..Len(q) \/ k = Len(q) + 1
  BY <1>1
<1>3. Elements(Append(q, n)) = Elements(q) \cup {n}
  <2>1. Elements(Append(q, n)) \subseteq Elements(q) \cup {n}
    BY <1>1, <1>2 DEF Elements
  <2>2. n \in Elements(Append(q, n))
    <3>1. Len(q) + 1 \in 1..Len(Append(q, n))
      BY <1>1
    <3> QED BY <1>1, <3>1 DEF Elements
  <2>3. ASSUME NEW x \in Elements(q) PROVE x \in Elements(Append(q, n))
    <3>1. PICK k \in 1..Len(q) : x = q[k]
      BY DEF Elements
    <3>2. k \in 1..Len(Append(q, n)) /\ x = Append(q, n)[k]
      BY <1>1, <3>1
    <3> QED BY <3>2 DEF Elements
  <2> QED BY <2>1, <2>2, <2>3
<1>4. ASSUME Increasing(q), \A x \in Elements(q) : x < n PROVE Increasing(Append(q, n))
  <2>1. ASSUME NEW k \in 1..Len(q) + 1, NEW l \in 1..Len(q) + 1, k < l
        PROVE  Append(q, n)[k] < Append(q, n)[l]
    <3>1. k \in 1..Len(q)
      BY <1>1, <2>1
    <3>2. CASE l \in 1..Len(q)
      BY <1>1, <1>4, <2>1, <3>1, <3>2 DEF Increasing
    <3>3. CASE l = Len(q) + 1
      <4>1. q[k] \in Elements(q)
        BY <3>1 DEF Elements
      <4> QED BY <1>1, <1>4, <3>1, <3>3, <4>1
    <3> QED BY <1>2, <3>2, <3>3
  <2> QED BY <1>1, <2>1 DEF Increasing
<1> QED BY <1>1, <1>3, <1>4

LEMMA LineInit == Init => InLine
<1> SUFFICES ASSUME Init, NEW s \in Sessions
             PROVE  /\ Line(heard[s], Hand(s), queue[s])
                    /\ Own(s) \subseteq 1..captured
                    /\ \A t \in Sessions \ {s} : Own(s) \cap Own(t) = {}
  BY DEF InLine
<1>1. heard[s] = <<>> /\ queue[s] = <<>> /\ Hand(s) = {}
  BY DEF Init, Hand
<1>2. Elements(<<>>) = {} /\ Increasing(<<>>)
  BY DEF Elements, Increasing
<1> QED BY <1>1, <1>2 DEF Own, Line

(* One session moves: it keeps its line, and gains at most what has just   *)
(* been captured.                                                          *)
LEMMA OneMoves ==
  ASSUME InLine, captured \in Nat, captured' \in Nat, captured <= captured', NEW s \in Sessions,
         \A t \in Sessions \ {s} :
           heard'[t] = heard[t] /\ Hand(t)' = Hand(t) /\ queue'[t] = queue[t],
         Line(heard'[s], Hand(s)', queue'[s]),
         Own(s)' \subseteq Own(s) \cup (captured + 1..captured')
  PROVE  InLine'
<1>1. \A t \in Sessions \ {s} : Own(t)' = Own(t)
  BY DEF Own
<1>2. \A t \in Sessions : Own(t) \subseteq 1..captured /\ Line(heard[t], Hand(t), queue[t])
  BY DEF InLine
<1>3. \A t \in Sessions : Own(t)' \subseteq 1..captured'
  BY <1>1, <1>2
<1>4. \A t \in Sessions \ {s} : Own(s)' \cap Own(t)' = {}
  BY <1>1, <1>2 DEF InLine
<1>5. \A t \in Sessions : \A u \in Sessions \ {t} : Own(t)' \cap Own(u)' = {}
  BY <1>1, <1>4 DEF InLine
<1>6. \A t \in Sessions : Line(heard'[t], Hand(t)', queue'[t])
  BY <1>2
<1> QED BY <1>3, <1>5, <1>6 DEF InLine

(* A move that neither speaks nor takes a block to send.                   *)
LEMMA NothingMoves ==
  ASSUME InLine, Workers, UNCHANGED <<captured, queue, block, heard>>,
         \A s \in Sessions : pc'[s] = "send" <=> pc[s] = "send"
  PROVE  InLine'
<1>1. \A s \in Sessions : Hand(s)' = Hand(s)
  BY DEF Hand
<1>2. \A s \in Sessions : Own(s)' = Own(s)
  BY <1>1 DEF Own
<1> QED BY <1>1, <1>2 DEF InLine

LEMMA LineNext == SpeechInv /\ [Next]_vars => InLine'
<1> SUFFICES ASSUME SpeechInv, [Next]_vars PROVE InLine'
  OBVIOUS
<1>0. /\ captured \in Nat /\ InLine
      /\ \A s \in Sessions :
           queue[s] \in Seq(Nat) /\ heard[s] \in Seq(Nat) /\ block[s] \in Nat
  <2>1. ASSUME NEW q \in Seq(1..MaxBlocks) PROVE q \in Seq(Nat)
    <3>1. 1..MaxBlocks \subseteq Nat
      OBVIOUS
    <3> QED BY <3>1, SeqOfMore
  <2>2. \A s \in Sessions :
          /\ queue[s] \in Seq(1..MaxBlocks) /\ heard[s] \in Seq(1..MaxBlocks)
          /\ block[s] \in 0..MaxBlocks
    BY DEF SpeechInv, Speech
  <2>3. captured \in Nat /\ InLine
    BY DEF SpeechInv, Speech
  <2> QED BY <2>1, <2>2, <2>3
<1>1. CASE \/ StartWithoutMic \/ Stop \/ Destroy \/ Start \/ Deliver \/ OthersUseSpeaker
           \/ UNCHANGED vars
  <2>1. UNCHANGED <<captured, queue, block, heard>>
    BY <1>1 DEF StartWithoutMic, Stop, Destroy, Start, Deliver, OthersUseSpeaker, vars, gui, blocks,
                net
  <2>2. CASE ~Start
    BY <1>1, <2>1, <2>2, NothingMoves
       DEF StartWithoutMic, Stop, Destroy, Deliver, OthersUseSpeaker, vars, SpeechInv
  <2>3. CASE Start
    <3>1. \A s \in Sessions : pc'[s] = "send" => pc[s] = "send"
      BY <2>3 DEF Start, SpeechInv, Workers
    <3>2. CASE pc[started + 1] = "send"
      <4>1. PICK n \in Sessions : n = started + 1
        BY <2>3, TalkAssumption DEF TalkAssumption, Start, Sessions, SpeechInv, Object
      <4>2. pc' = [pc EXCEPT ![n] = "connect"]
        BY <2>3, <4>1 DEF Start
      <4>3. Hand(n)' = {} /\ \A t \in Sessions \ {n} : Hand(t)' = Hand(t)
        BY <2>1, <4>2 DEF Hand, SpeechInv, Workers
      <4>4. Line(heard'[n], Hand(n)', queue'[n])
        BY <1>0, <2>1, <4>1, <4>3 DEF InLine, Line
      <4>5. Own(n)' \subseteq Own(n)
        BY <2>1, <4>3 DEF Own
      <4>6. captured' \in Nat /\ captured <= captured'
        BY <1>0, <2>1
      <4> QED BY <1>0, <2>1, <4>3, <4>4, <4>5, <4>6, OneMoves
    <3>3. CASE pc[started + 1] # "send"
      BY <2>1, <2>3, <3>3, NothingMoves DEF Start, SpeechInv, Workers
    <3> QED BY <3>2, <3>3
  <2> QED BY <2>2, <2>3
<1>2. CASE MicData
  <2> DEFINE cut == IF Len(queue[shared]) >= MaxQueue THEN Tail(queue[shared]) ELSE queue[shared]
             n   == captured + 1
  <2>1. /\ shared \in Sessions /\ captured' = n
        /\ queue' = [queue EXCEPT ![shared] = Append(cut, n)]
        /\ UNCHANGED <<pc, block, heard>>
    BY <1>2 DEF MicData, SpeechInv, Object, net
  <2>2. queue[shared] = <<>> => cut = queue[shared]
    BY <1>0, <2>1, TalkAssumption DEF TalkAssumption
  <2>3. /\ cut \in Seq(Nat) /\ Elements(cut) \subseteq Elements(queue[shared])
        /\ Increasing(queue[shared]) => Increasing(cut)
    BY <1>0, <2>1, <2>2, TailElements, ZenonT(40)
  <2> HIDE DEF cut
  <2>4. Own(shared) \subseteq 1..captured /\ Line(heard[shared], Hand(shared), queue[shared])
    BY <1>0, <2>1 DEF InLine
  <2>5. \A x \in Own(shared) : x < n
    BY <1>0, <2>4
  <2>6. \A x \in Elements(cut) : x < n
    BY <2>3, <2>5 DEF Own
  <2>7. /\ Elements(Append(cut, n)) = Elements(cut) \cup {n}
        /\ Increasing(Append(cut, n))
    BY <1>0, <2>3, <2>4, <2>6, AppendElements DEF Line
  <2>8. Line(heard[shared], Hand(shared), Append(cut, n))
    BY <2>3, <2>4, <2>5, <2>7 DEF Line, Own
  <2>9. \A t \in Sessions : Hand(t)' = Hand(t)
    BY <2>1 DEF Hand
  <2>10. queue'[shared] = Append(cut, n) /\ \A t \in Sessions \ {shared} : queue'[t] = queue[t]
    BY <2>1 DEF SpeechInv, Speech
  <2>11. Own(shared)' \subseteq Own(shared) \cup (captured + 1..captured')
    <3>1. Own(shared)' = Elements(heard[shared]) \cup Hand(shared) \cup Elements(queue'[shared])
      BY <2>1, <2>9, <1>2 DEF Own, MicData
    <3>2. n \in captured + 1..captured'
      BY <1>0, <2>1
    <3> QED BY <2>3, <2>7, <2>10, <3>1, <3>2 DEF Own
  <2>12. captured' \in Nat /\ captured <= captured' /\ shared' = shared
    BY <1>0, <1>2, <2>1 DEF MicData
  <2>13. PICK s \in Sessions : s = shared
    BY <2>1
  <2>14. /\ Line(heard'[s], Hand(s)', queue'[s])
         /\ Own(s)' \subseteq Own(s) \cup (captured + 1..captured')
         /\ \A t \in Sessions \ {s} :
              heard'[t] = heard[t] /\ Hand(t)' = Hand(t) /\ queue'[t] = queue[t]
    BY <2>1, <2>8, <2>9, <2>10, <2>11, <2>12, <2>13
  <2> HIDE DEF n
  <2> QED
    BY <1>0, <2>12, <2>14, OneMoves
<1>3. ASSUME NEW s \in Sessions, Worker(s) \/ DropLink(s) PROVE InLine'
  <2>1. \A t \in Sessions \ {s} : pc'[t] = pc[t]
    BY <1>3 DEF Worker, Connect, Ability, Config, ResetStale, ConfigAgain, Opened, OpenFailed,
                Ready, Dequeue, Send, SendFailed, Close, DropLink, Goto, SpeechInv, Workers
  <2>2. CASE Dequeue(s) /\ s \notin abort
    <3>1. /\ pc[s] = "loop" /\ pc' = [pc EXCEPT ![s] = "send"] /\ queue[s] # <<>>
          /\ block' = [block EXCEPT ![s] = Head(queue[s])]
          /\ queue' = [queue EXCEPT ![s] = Tail(queue[s])]
          /\ UNCHANGED <<captured, heard>>
      BY <2>2 DEF Dequeue, Goto, gui, net
    <3>2. Hand(s) = {} /\ Hand(s)' = {Head(queue[s])} /\ queue'[s] = Tail(queue[s])
      BY <3>1 DEF Hand, SpeechInv, Workers, Speech
    <3>3. \A t \in Sessions \ {s} : Hand(t)' = Hand(t) /\ queue'[t] = queue[t]
      BY <2>1, <3>1 DEF Hand, SpeechInv, Speech
    <3>4. Line(heard[s], {}, queue[s])
      BY <1>0, <3>2 DEF InLine
    <3>5. /\ Elements(Tail(queue[s])) \subseteq Elements(queue[s])
          /\ Head(queue[s]) \in Elements(queue[s])
          /\ Increasing(Tail(queue[s]))
          /\ \A z \in Elements(Tail(queue[s])) : Head(queue[s]) < z
      BY <1>0, <3>1, <3>4, TailElements DEF Line
    <3>6. Line(heard[s], {Head(queue[s])}, Tail(queue[s]))
      BY <3>4, <3>5 DEF Line
    <3>7. Own(s)' \subseteq Own(s)
      BY <3>1, <3>2, <3>5 DEF Own
    <3>8. captured' \in Nat /\ captured <= captured'
      BY <1>0, <3>1
    <3> QED BY <1>0, <3>1, <3>2, <3>3, <3>6, <3>7, <3>8, OneMoves
  <2>3. CASE Send(s)
    <3>1. /\ pc[s] = "send" /\ pc'[s] # "send" /\ UNCHANGED <<captured, queue, block>>
          /\ heard' = heard \/ heard' = [heard EXCEPT ![s] = Append(@, block[s])]
      BY <2>3 DEF Send, Goto, gui, blocks, SpeechInv, Workers
    <3>2. Hand(s) = {block[s]} /\ Hand(s)' = {}
      BY <3>1 DEF Hand
    <3>3. \A t \in Sessions \ {s} : Hand(t)' = Hand(t) /\ heard'[t] = heard[t]
      BY <2>1, <3>1 DEF Hand, SpeechInv, Speech
    <3>4. Line(heard[s], {block[s]}, queue[s])
      BY <1>0, <3>2 DEF InLine
    <3>5. /\ Elements(Append(heard[s], block[s])) = Elements(heard[s]) \cup {block[s]}
          /\ Increasing(Append(heard[s], block[s]))
      BY <1>0, <3>4, AppendElements DEF Line
    <3>6. heard'[s] = heard[s] \/ heard'[s] = Append(heard[s], block[s])
      BY <3>1 DEF SpeechInv, Speech
    <3>7. Line(heard'[s], {}, queue[s])
      <4>1. /\ Increasing(heard'[s]) /\ Elements(heard'[s]) \subseteq Elements(heard[s]) \cup {block[s]}
        BY <3>4, <3>5, <3>6 DEF Line
      <4> QED BY <3>4, <4>1 DEF Line
    <3>8. Own(s)' \subseteq Own(s)
      BY <3>1, <3>2, <3>5, <3>6 DEF Own
    <3>9. captured' \in Nat /\ captured <= captured'
      BY <1>0, <3>1
    <3> QED BY <1>0, <3>1, <3>2, <3>3, <3>7, <3>8, <3>9, OneMoves
  <2>4. CASE ~Send(s) /\ ~(Dequeue(s) /\ s \notin abort)
    <3>1. UNCHANGED <<captured, queue, block, heard>>
      BY <1>3, <2>4 DEF Worker, Connect, Ability, Config, ResetStale, ConfigAgain, Opened,
                OpenFailed, Ready, Dequeue, SendFailed, Close, DropLink, gui, blocks, net
    <3>2. \A t \in Sessions : pc'[t] = "send" <=> pc[t] = "send"
      BY <1>3, <2>4 DEF Worker, Connect, Ability, Config, ResetStale, ConfigAgain, Opened,
                OpenFailed, Ready, Dequeue, SendFailed, Close, DropLink, Goto, SpeechInv, Workers
    <3> QED BY <3>1, <3>2, NothingMoves DEF SpeechInv
  <2> QED BY <2>2, <2>3, <2>4
<1> QED BY <1>1, <1>2, <1>3 DEF Next, User

LEMMA SpeechShows == SpeechInv => HeardInOrder
<1> SUFFICES ASSUME SpeechInv PROVE HeardInOrder
  OBVIOUS
<1>1. \A s \in Sessions : Increasing(heard[s])
  BY DEF SpeechInv, InLine, Line
<1>2. \A s \in Sessions : \A k \in 1..Len(heard[s]) : heard[s][k] \in Own(s)
  BY DEF Own, Elements
<1>3. \A s \in Sessions : \A t \in Sessions \ {s} : Own(s) \cap Own(t) = {}
  BY DEF SpeechInv, InLine
<1> QED BY <1>1, <1>2, <1>3 DEF HeardInOrder, Increasing

(* Whatever onMicData() drops from a full queue and however many workers   *)
(* run side by side, the camera hears each session's speech in order, once *)
(* and in no other session.                                                *)
THEOREM SpeechIsInOrder == Spec => []HeardInOrder
<1>1. Init => SpeechInv
  BY TypesInit, LineInit DEF SpeechInv
<1>2. SpeechInv /\ [Next]_vars => SpeechInv'
  BY ObjectNext, WorkersNext, SpeechNext, LineNext DEF SpeechInv
<1> QED BY <1>1, <1>2, SpeechShows, PTL DEF Spec

-----------------------------------------------------------------------------
(* A queue holds at most MaxQueue blocks; that of a session that was cut   *)
(* loose is left alone, because the microphone feeds the current one only  *)
(* and the worker looks at abort first.                                    *)
Bounded  == \A s \in Sessions : Len(queue[s]) <= MaxQueue
QueueInv == CurrentInv /\ Object /\ Workers /\ Speech /\ Bounded

LEMMA QueueInit == Init => QueueInv
<1> SUFFICES ASSUME Init PROVE Bounded
  BY CurrentInit, TypesInit DEF QueueInv
<1> QED BY TalkAssumption DEF TalkAssumption, Init, Bounded

LEMMA QueueMoves ==
  ASSUME QueueInv, Next
  PROVE  Bounded' /\ \A s \in Sessions : s \in abort => queue'[s] = queue[s]
<1>1. CASE UNCHANGED queue
  BY <1>1 DEF QueueInv, Bounded
<1>2. CASE MicData
  <2>1. /\ shared \in Sessions /\ shared \notin abort /\ captured + 1 \in 1..MaxBlocks
        /\ queue[shared] \in Seq(1..MaxBlocks) /\ Len(queue[shared]) <= MaxQueue
    <3>1. shared \in Sessions /\ shared \notin abort
      BY <1>2 DEF MicData, QueueInv, Object, CurrentInv, OnlyTheCurrentSession
    <3>2. captured + 1 \in 1..MaxBlocks
      BY <1>2, TalkAssumption DEF MicData, QueueInv, Speech, TalkAssumption
    <3> QED BY <3>1, <3>2 DEF QueueInv, Speech, Bounded
  <2> DEFINE q == Append(IF Len(queue[shared]) >= MaxQueue THEN Tail(queue[shared])
                                                           ELSE queue[shared], captured + 1)
  <2>2. Len(q) <= MaxQueue
    BY <2>1, QueueGrows
  <2>3. queue' = [queue EXCEPT ![shared] = q]
    BY <1>2 DEF MicData
  <2> HIDE DEF q
  <2> QED BY <2>1, <2>2, <2>3 DEF QueueInv, Speech, Bounded
<1>3. ASSUME NEW s \in Sessions, Dequeue(s), s \notin abort PROVE
             Bounded' /\ \A t \in Sessions : t \in abort => queue'[t] = queue[t]
  <2>1. queue[s] \in Seq(1..MaxBlocks) /\ queue[s] # <<>> /\ Len(queue[s]) <= MaxQueue
    BY <1>3 DEF Dequeue, QueueInv, Speech, Bounded
  <2>2. queue' = [queue EXCEPT ![s] = Tail(queue[s])]
    BY <1>3 DEF Dequeue
  <2>3. Len(Tail(queue[s])) <= MaxQueue
    BY <2>1, TalkAssumption DEF TalkAssumption
  <2> QED BY <1>3, <2>2, <2>3 DEF QueueInv, Speech, Bounded
<1>4. UNCHANGED queue \/ MicData \/ \E s \in Sessions : Dequeue(s) /\ s \notin abort
  BY DEF Next, User, StartWithoutMic, Start, Stop, Destroy, Deliver, OthersUseSpeaker, DropLink,
         Worker, Connect, Ability, Config, ResetStale, ConfigAgain, Opened, OpenFailed, Ready,
         Dequeue, Send, SendFailed, Close, blocks
<1> QED BY <1>1, <1>2, <1>3, <1>4

LEMMA QueueNext == QueueInv /\ [Next]_vars => QueueInv'
<1> SUFFICES ASSUME QueueInv, [Next]_vars PROVE QueueInv'
  OBVIOUS
<1>1. CurrentInv' /\ Object' /\ Workers' /\ Speech'
  BY CurrentNext, ObjectNext, WorkersNext, SpeechNext DEF QueueInv
<1>2. Bounded'
  <2>1. CASE Next
    BY <2>1, QueueMoves
  <2>2. CASE UNCHANGED vars
    BY <2>2 DEF vars, blocks, QueueInv, Bounded
  <2> QED BY <2>1, <2>2
<1> QED BY <1>1, <1>2 DEF QueueInv

(* At most MaxQueue blocks wait, and none of a session's blocks is taken   *)
(* from its queue once stop(), a failure or the destructor has cut it      *)
(* loose.                                                                  *)
THEOREM SilentAfterStop == Spec => NoSpeechAfterStop
<1>1. QueueInv /\ [Next]_vars =>
        [\A s \in Sessions : Len(queue[s]) <= MaxQueue /\ (s \in abort => queue'[s] = queue[s])]_vars
  <2> SUFFICES ASSUME QueueInv, Next
               PROVE  \A s \in Sessions :
                        Len(queue[s]) <= MaxQueue /\ (s \in abort => queue'[s] = queue[s])
    OBVIOUS
  <2> QED BY QueueMoves DEF QueueInv, Bounded
<1> QED BY <1>1, QueueInit, QueueNext, PTL DEF Spec, NoSpeechAfterStop

-----------------------------------------------------------------------------
(* A worker leaves its loop because it was told to or with a failure that  *)
(* is queued; delivering any failure ends the active session.              *)
ReportInv == CurrentInv /\ Object /\ Workers /\ DeadWorkerIsReported

LEMMA ReportNext == ReportInv /\ [Next]_vars => DeadWorkerIsReported'
<1> SUFFICES ASSUME ReportInv, [Next]_vars, IsActive', pc'[shared'] \in {"close", "done"}
             PROVE  \E k \in 1..Len(posts') : posts'[k].what = "failed" /\ posts'[k].from = shared'
  BY DEF DeadWorkerIsReported
<1>1. shared \in Sessions => IsActive
  BY DEF ReportInv, CurrentInv, OnlyTheCurrentSession, Sessions, None
<1>2. shared' # None
  <2>1. CurrentInv'
    BY CurrentNext DEF ReportInv
  <2> QED BY <2>1 DEF CurrentInv, OnlyTheCurrentSession
<1>3. CASE UNCHANGED <<shared, pc, posts>>
  <2>1. shared \in Sessions
    BY <1>2, <1>3 DEF ReportInv, Object
  <2> QED BY <1>1, <1>3, <2>1 DEF ReportInv, DeadWorkerIsReported
<1>4. CASE StartWithoutMic \/ MicData \/ OthersUseSpeaker \/ UNCHANGED vars
  BY <1>3, <1>4 DEF StartWithoutMic, MicData, OthersUseSpeaker, vars, gui
<1>5. CASE Stop \/ Destroy
  BY <1>2, <1>5 DEF Stop, Destroy, CutLoose
<1>6. CASE Start
  <2>1. started + 1 \in Sessions
    BY <1>6, TalkAssumption DEF TalkAssumption, Start, Sessions, ReportInv, Object
  <2> QED BY <1>6, <2>1 DEF Start, ReportInv, Workers
<1>7. CASE Deliver
  <2>1. shared' = shared /\ pc' = pc /\ posts # <<>> /\ posts' = Tail(posts)
    BY <1>2, <1>7 DEF Deliver, ApplyReady, ApplyFailed, CutLoose
  <2>2. Head(posts).what # "failed"
    <3>1. CASE ApplyFailed
      <4>1. state' = "idle" \/ state' = "error"
        BY <3>1 DEF ApplyFailed
      <4> QED BY <4>1 DEF IsActive
    <3> QED BY <1>7, <3>1 DEF Deliver
  <2>3. shared \in Sessions
    BY <1>2, <2>1 DEF ReportInv, Object
  <2>4. PICK k \in 1..Len(posts) : posts[k].what = "failed" /\ posts[k].from = shared
    BY <1>1, <2>1, <2>3 DEF ReportInv, DeadWorkerIsReported
  <2>5. k # 1
    BY <2>1, <2>2, <2>4 DEF ReportInv, Object
  <2>6. k - 1 \in 1..Len(posts') /\ posts'[k - 1] = posts[k]
    BY <2>1, <2>4, <2>5 DEF ReportInv, Object
  <2> QED BY <2>1, <2>4, <2>6
<1>8. ASSUME NEW s \in Sessions, Worker(s) \/ DropLink(s)
      PROVE  \E k \in 1..Len(posts') : posts'[k].what = "failed" /\ posts'[k].from = shared'
  <2>1. shared' = shared /\ shared \in Sessions
    BY <1>2, <1>8 DEF Worker, Connect, Ability, Config, ResetStale, ConfigAgain, Opened, OpenFailed,
                Ready, Dequeue, Send, SendFailed, Close, DropLink, gui, ReportInv, Object
  <2>2. shared \in owner /\ shared \notin abort
    BY <2>1 DEF ReportInv, CurrentInv, OnlyTheCurrentSession, Sessions, None
  <2>3. CASE pc[shared] \in {"close", "done"}
    <3>1. PICK k \in 1..Len(posts) : posts[k].what = "failed" /\ posts[k].from = shared
      BY <1>1, <2>1, <2>3 DEF ReportInv, DeadWorkerIsReported
    <3>2. posts' = posts \/ \E w \in {"ready", "failed"} :
                              posts' = Append(posts, [what |-> w, from |-> s])
      BY <1>8 DEF Worker, Connect, Ability, Config, ResetStale, ConfigAgain, Opened, OpenFailed,
                  Ready, Dequeue, Send, SendFailed, Close, DropLink, Post
    <3>3. k \in 1..Len(posts') /\ posts'[k] = posts[k]
      BY <3>1, <3>2 DEF ReportInv, Object
    <3> QED BY <2>1, <3>1, <3>3
  <2>4. CASE pc[shared] \notin {"close", "done"}
    <3>1. s = shared
      BY <1>8, <2>1, <2>4 DEF Worker, Connect, Ability, Config, ResetStale, ConfigAgain, Opened,
         OpenFailed, Ready, Dequeue, Send, SendFailed, Close, DropLink, Goto, ReportInv, Workers
    <3>2. OpenFailed(s) \/ SendFailed(s)
      BY <1>8, <2>1, <2>2, <2>4, <3>1 DEF Worker, Connect, Ability, Config, ResetStale, ConfigAgain,
         Opened, Ready, Dequeue, Send, Close, DropLink, Goto, ReportInv, Workers
    <3>3. posts' = Append(posts, [what |-> "failed", from |-> s])
      BY <2>2, <3>1, <3>2 DEF OpenFailed, SendFailed, Post
    <3>4. Len(posts) + 1 \in 1..Len(posts') /\ posts'[Len(posts) + 1] = [what |-> "failed", from |-> s]
      BY <3>3 DEF ReportInv, Object
    <3> QED BY <2>1, <3>1, <3>4
  <2> QED BY <2>3, <2>4
<1> QED
  BY <1>4, <1>5, <1>6, <1>7, <1>8 DEF Next, User

(* A worker that gives up is reported: as long as the object shows its     *)
(* session as active, the failure is waiting in the event queue.           *)
THEOREM FailuresArrive == Spec => []DeadWorkerIsReported
<1>1. Init => ReportInv
  <2>1. Init => DeadWorkerIsReported
    BY DEF Init, DeadWorkerIsReported, IsActive
  <2> QED BY <2>1, CurrentInit, TypesInit DEF ReportInv
<1>2. ReportInv /\ [Next]_vars => ReportInv'
  BY CurrentNext, ObjectNext, WorkersNext, ReportNext DEF ReportInv
<1>3. ReportInv => DeadWorkerIsReported
  BY DEF ReportInv
<1> QED BY <1>1, <1>2, <1>3, PTL DEF Spec
=============================================================================
