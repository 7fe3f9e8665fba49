-------------------------- MODULE MediaClientProofs --------------------------
(***************************************************************************)
(* For any recording, tolerance, ring and number of seeks: nothing that    *)
(* an earlier request brought reaches the decoder or the loudspeaker,      *)
(* unless playback came near the last seek's target by itself.             *)
(***************************************************************************)
EXTENDS MediaClientProps, TLAPS

LEMMA TypesInit == Init => TypeOK
<1> SUFFICES ASSUME Init PROVE TypeOK
  OBVIOUS
<1>1. NoFrame \in Frames
  BY DEF NoFrame, Frames, Times, Live, Kinds
<1>2. epoch \in Requests /\ 0 \in Requests /\ 0 \in Times
  BY DEF Init, Requests, Times, Live
<1>3. MaxRing + 1 >= 0 /\ MaxWire >= 0 /\ 0 \in 0..MaxFrames
  BY MediaAssumption DEF MediaAssumption
<1>4. /\ {epoch, seekEpoch, seekTarget} \subseteq Requests /\ moment \in Times
      /\ {finished, abort, picture, stopping} \subseteq BOOLEAN
  BY <1>2 DEF Init
<1>5. /\ ring \in Seq(Frames) /\ wire \in Seq(Frames) /\ Len(ring) = 0 /\ Len(wire) = 0
      /\ requests \in Seq(Requests) /\ answered \in 0..Len(requests)
      /\ flight \subseteq Frames /\ sound \subseteq Nat
  BY DEF Init
<1> QED BY <1>1, <1>3, <1>4, <1>5, MediaAssumption DEF Init, TypeOK, Stages, MediaAssumption

(* The pictures on their way are frames.                                   *)
LEMMA PicturesAreFrames ==
  ASSUME NEW w \in Seq(Frames)
  PROVE  Pictures(w) \subseteq Frames
BY DEF Pictures

(* A further request leaves the earlier ones where they are.               *)
LEMMA OneMoreRequest ==
  ASSUME TypeOK, NEW p \in Requests, Ask(p)
  PROVE  /\ requests' \in Seq(Requests) /\ Asked \in Nat /\ Asked' = Asked + 1
         /\ requests'[Asked'] = p
         /\ flight' \subseteq Frames /\ flight' = Pictures(wire)
<1>1. requests' = Append(requests, p) /\ requests \in Seq(Requests)
  BY DEF Ask, TypeOK
<1>2. flight' = Pictures(wire) /\ wire \in Seq(Frames)
  BY DEF Ask, TypeOK
<1> QED BY <1>1, <1>2, PicturesAreFrames DEF Asked

(* What the camera sends is of the request it has turned to, and a picture *)
(* is noted.                                                               *)
SendsFrame(f) ==
  /\ f.of = answered /\ Carry(f) /\ flight \subseteq flight' /\ flight' \subseteq flight \cup {f}
  /\ f.kind = "I" => f \in flight'

LEMMA SentFrame ==
  ASSUME TypeOK, Send
  PROVE  /\ answered \in 1..Asked /\ UNCHANGED <<pump, answered, ring, epoch>>
         /\ \E f \in Frames : SendsFrame(f)
<1>1. answered \in 1..Asked /\ UNCHANGED <<pump, answered, ring, epoch>>
  BY DEF Send, TypeOK, Asked, shared
<1>2. ASSUME NEW t \in Moments,
             Carry([of |-> answered, at |-> t, kind |-> "I"]),
             flight' = flight \cup {[of |-> answered, at |-> t, kind |-> "I"]}
      PROVE  \E f \in Frames : SendsFrame(f)
  <2>1. [of |-> answered, at |-> t, kind |-> "I"] \in Frames
    BY <1>1 DEF Frames, Times, Kinds, TypeOK
  <2> QED BY <1>2, <2>1 DEF SendsFrame
<1>3. ASSUME NEW k \in {"P", "audio"}, Carry([of |-> answered, at |-> 0, kind |-> k]),
             UNCHANGED flight
      PROVE  \E f \in Frames : SendsFrame(f)
  <2>1. [of |-> answered, at |-> 0, kind |-> k] \in Frames
    BY <1>1 DEF Frames, Times, Live, Kinds, TypeOK
  <2> QED BY <1>3, <2>1 DEF SendsFrame
<1> QED BY <1>1, <1>2, <1>3 DEF Send

LEMMA TypesNext == TypeOK /\ [Next]_vars => TypeOK'
<1> SUFFICES ASSUME TypeOK, [Next]_vars PROVE TypeOK'
  OBVIOUS
<1> USE DEF TypeOK, Stages, WakeAll, shared, camera, pump
<1>1. CASE Start \/ StopStore \/ StopWake
  BY <1>1 DEF Start, StopStore, StopWake
<1>2. ASSUME NEW p \in Positions, Seek(p) PROVE TypeOK'
  BY <1>2 DEF Seek, Requests
<1>3. CASE ReadCall \/ ReaderLeaves
  BY <1>3 DEF ReadCall, ReaderLeaves
<1>4. CASE ReadTurn
  <2>1. ASSUME ring # <<>>, NEW n \in 1..Len(ring), ring' = SubSeq(ring, n + 1, Len(ring))
        PROVE  ring' \in Seq(Frames) /\ Len(ring') <= MaxRing + 1
    BY <2>1, MediaAssumption DEF MediaAssumption
  <2> QED BY <1>4, <2>1 DEF ReadTurn
<1>5. CASE Login
  <2>1. CASE Ask(epoch)
    <3>1. /\ requests' \in Seq(Requests) /\ flight' \subseteq Frames
          /\ answered \in 0..Len(requests')
      BY <2>1, OneMoreRequest DEF Asked
    <3> QED BY <1>5, <3>1 DEF Login
  <2>2. CASE UNCHANGED <<requests, flight>>
    BY <1>5, <2>2 DEF Login
  <2> QED BY <1>5, <2>1, <2>2 DEF Login
<1>6. CASE TakeSeek
  <2>1. Ask(seekEpoch) /\ seekEpoch \in Requests
    BY <1>6 DEF TakeSeek
  <2>2. /\ requests' \in Seq(Requests) /\ flight' \subseteq Frames
        /\ answered \in 0..Len(requests')
    BY <2>1, OneMoreRequest DEF Asked
  <2>3. 0 \in Requests
    BY DEF Requests, Live
  <2> QED BY <1>6, <2>2, <2>3 DEF TakeSeek
<1>7. CASE ClearRing
  BY <1>7, MediaAssumption DEF MediaAssumption, ClearRing
<1>13. CASE NoSeek \/ Quiet \/ Aborted \/ Finish
  BY <1>13 DEF NoSeek, Quiet, Aborted, Finish
<1>8. CASE Parse
  <2>1. Head(wire) \in Frames /\ wire' \in Seq(Frames) /\ Len(wire') <= MaxWire
    BY <1>8, MediaAssumption DEF MediaAssumption, Parse
  <2>2. Head(wire).of \in Nat /\ 0 \in Requests
    BY <2>1 DEF Frames, Requests, Live
  <2> QED BY <1>8, <2>1, <2>2 DEF Parse, Audio, Video
<1>9. CASE Push
  <2>1. NoFrame \in Frames
    BY DEF NoFrame, Frames, Times, Live, Kinds
  <2>2. CASE ring' = Append(ring, hand) /\ Len(ring) <= MaxRing
    <3>1. ring' \in Seq(Frames) /\ Len(ring') <= MaxRing + 1
      BY <2>2, MediaAssumption DEF MediaAssumption
    <3> QED BY <1>9, <2>1, <2>2, <3>1 DEF Push
  <2>3. CASE ring' = ring
    BY <1>9, <2>1, <2>3 DEF Push
  <2> QED BY <1>9, <2>2, <2>3 DEF Push
<1>10. CASE Answer
  <2>1. answered + 1 \in 1..Len(requests)
    BY <1>10 DEF Answer
  <2>2. requests[answered + 1] \in Times
    <3>1. requests[answered + 1] \in Requests
      BY <2>1
    <3>2. Requests \subseteq Times
      BY MediaAssumption DEF MediaAssumption, Requests, Times
    <3> QED BY <3>1, <3>2
  <2> QED BY <1>10, <2>1, <2>2, MediaAssumption DEF MediaAssumption, Answer
<1>11. CASE Send
  <2>1. PICK f \in Frames : SendsFrame(f)
    BY <1>11, SentFrame
  <2>2. /\ wire' \in Seq(Frames) /\ Len(wire') = Len(wire) + 1 /\ flight' \subseteq Frames
    BY <2>1 DEF SendsFrame, Carry
  <2>3. moment' \in Times
    BY <1>11 DEF Send, Times
  <2> QED BY <1>11, <2>2, <2>3, MediaAssumption DEF MediaAssumption, Send
<1>12. CASE UNCHANGED vars
  BY <1>12 DEF vars
<1> QED
  BY <1>1, <1>2, <1>3, <1>4, <1>5, <1>6, <1>7, <1>8, <1>9, <1>10, <1>11, <1>12, <1>13
  DEF Next, Gui, Reader, Pump, Camera

(* Every variable keeps its type, the ring its limit (pushAnnexB()), and   *)
(* nobody sleeps on m_cond who has not gone to sleep there.                *)
THEOREM TypesHold == Spec => []TypeOK
BY TypesInit, TypesNext, PTL DEF Spec

-----------------------------------------------------------------------------
(* What the connection carries: frames of the requests that the camera has *)
(* turned to, in their order; every picture on its way is noted.           *)
Connection ==
  /\ \A i \in 1..Len(wire) : wire[i].of \in 1..answered
  /\ \A i \in 1..Len(wire) : wire[i].kind = "I" => wire[i] \in flight
  /\ \A i, j \in 1..Len(wire) : i <= j => wire[i].of <= wire[j].of

LEMMA ConnectionNext ==
  ASSUME TypeOK, Connection, [Next]_vars
  PROVE  Connection'
<1>1. ASSUME UNCHANGED <<answered, wire, flight>> PROVE Connection'
  BY <1>1 DEF Connection
<1>2. ASSUME NEW p \in Requests, Ask(p), UNCHANGED <<answered, wire>> PROVE Connection'
  <2>1. flight' = Pictures(wire)
    BY <1>2 DEF Ask
  <2>2. \A i \in 1..Len(wire) : wire[i].kind = "I" => wire[i] \in flight'
    BY <2>1 DEF Pictures, TypeOK
  <2> QED BY <1>2, <2>2 DEF Connection
<1>3. CASE Login
  <2>1. CASE Ask(epoch)
    BY <1>2, <1>3, <2>1 DEF Login, TypeOK, camera
  <2> QED BY <1>1, <1>3, <2>1 DEF Login, camera
<1>4. CASE TakeSeek
  BY <1>2, <1>4 DEF TakeSeek, TypeOK, camera
<1>5. CASE Parse
  <2>1. wire # <<>> /\ wire' = Tail(wire) /\ UNCHANGED <<answered, flight>>
    BY <1>5 DEF Parse
  <2>2. /\ Len(wire') = Len(wire) - 1 /\ Len(wire) \in Nat
        /\ \A i \in 1..Len(wire') : wire'[i] = wire[i + 1] /\ i + 1 \in 1..Len(wire)
    BY <2>1 DEF TypeOK
  <2>3. \A i, j \in 1..Len(wire') : i <= j => i + 1 <= j + 1
    OBVIOUS
  <2> QED BY <2>1, <2>2, <2>3 DEF Connection
<1>6. CASE Answer
  <2>1. answered' = answered + 1 /\ UNCHANGED <<wire, flight>> /\ answered \in Nat
    BY <1>6 DEF Answer, TypeOK
  <2>2. 1..answered \subseteq 1..answered'
    BY <2>1
  <2> QED BY <2>1, <2>2 DEF Connection
<1>7. CASE Send
  <2>1. PICK f \in Frames : SendsFrame(f)
    BY <1>7, SentFrame
  <2>2. answered' = answered /\ answered \in 1..Asked
    BY <1>7, SentFrame
  <2>3. /\ Len(wire') = Len(wire) + 1 /\ Len(wire) \in Nat
        /\ \A i \in 1..Len(wire) : wire'[i] = wire[i]
        /\ wire'[Len(wire) + 1] = f /\ f.of = answered
    BY <2>1 DEF SendsFrame, Carry, TypeOK
  <2>4. answered \in 1..answered
    BY <2>2 DEF Asked, TypeOK
  <2>5. \A i \in 1..Len(wire') : i \in 1..Len(wire) \/ i = Len(wire) + 1
    BY <2>3
  <2>6. \A i \in 1..Len(wire) : wire[i].of <= answered
    BY <2>2 DEF Connection, TypeOK
  <2>7. \A i \in 1..Len(wire') : wire'[i].of \in 1..answered'
    BY <2>2, <2>3, <2>4, <2>5 DEF Connection
  <2>8. \A i \in 1..Len(wire') : wire'[i].kind = "I" => wire'[i] \in flight'
    BY <2>1, <2>3, <2>5 DEF Connection, SendsFrame
  <2>9. ASSUME NEW i \in 1..Len(wire'), NEW j \in 1..Len(wire'), i <= j
        PROVE  wire'[i].of <= wire'[j].of
    <3>1. CASE j = Len(wire) + 1
      <4>1. wire'[j].of = answered /\ answered \in Nat
        BY <2>2, <2>3, <3>1
      <4>2. CASE i \in 1..Len(wire)
        BY <2>3, <2>6, <4>1, <4>2
      <4> QED BY <2>3, <2>5, <4>1, <4>2
    <3>2. CASE i \in 1..Len(wire) /\ j \in 1..Len(wire)
      BY <2>3, <2>9, <3>2 DEF Connection
    <3> QED BY <2>3, <2>5, <2>9, <3>1, <3>2
  <2> QED BY <2>7, <2>8, <2>9 DEF Connection
<1>8. ASSUME NEW p \in Positions, Seek(p) PROVE UNCHANGED <<answered, wire, flight>>
  BY <1>8 DEF Seek, camera
<1>9. CASE \/ Start \/ StopStore \/ StopWake \/ ReadCall \/ ReadTurn \/ ReaderLeaves \/ ClearRing
           \/ NoSeek \/ Quiet \/ Push \/ Aborted \/ Finish \/ UNCHANGED vars
  <2>1. UNCHANGED <<answered, wire, flight>>
    BY <1>9 DEF Start, StopStore, StopWake, ReadCall, ReadTurn, ReaderLeaves, ClearRing, NoSeek,
                Quiet, Push, Aborted, Finish, vars, camera
  <2> QED BY <1>1, <2>1
<1> QED
  BY <1>1, <1>3, <1>4, <1>5, <1>6, <1>7, <1>8, <1>9 DEF Next, Gui, Reader, Pump, Camera

-----------------------------------------------------------------------------
(* Where the pump is before it has asked for anything, and which streams   *)
(* are sought.                                                             *)
Progress ==
  /\ pc \in {"off", "login"} => requests = <<>> /\ ring = <<>> /\ sound = {} /\ ~picture
  /\ pc \in {"loop", "clear", "parse", "push"} => requests # <<>>
  /\ Len(requests) > 1 \/ seekEpoch # 0 => epoch # Live

(* What the pump has let through: while it waits for the picture of a seek *)
(* it knows the target; and unless playback has strayed, the picture shows *)
(* that what is on its way, what the pump holds and, once it has emptied   *)
(* the ring, what it handed over answers the last request.                 *)
Delivery ==
  /\ Asked > 1 /\ ~picture => seekTarget = Latest /\ seekTarget # 0
  /\ requests # <<>> /\ ~Strayed =>
       /\ picture => answered = Asked /\ \A i \in 1..Len(wire) : OfLatest(wire[i])
       /\ pc # "clear" => \A i \in 1..Len(ring) : OfLatest(ring[i])
       /\ pc = "push" => OfLatest(hand)
       /\ sound \subseteq {Asked}

MediaInv == TypeOK /\ Connection /\ Progress /\ Delivery /\ SoundHasPicture

LEMMA MediaInit == Init => MediaInv
<1> SUFFICES ASSUME Init PROVE MediaInv
  OBVIOUS
<1>1. Progress /\ Delivery /\ SoundHasPicture /\ Connection
  BY DEF Init, Progress, Delivery, SoundHasPicture, Connection, Asked
<1> QED BY <1>1, TypesInit DEF MediaInv

LEMMA ProgressNext == MediaInv /\ [Next]_vars => Progress'
<1> SUFFICES ASSUME MediaInv, [Next]_vars PROVE Progress'
  OBVIOUS
<1> USE DEF MediaInv, Progress
<1>1. CASE Login
  <2>1. CASE Ask(epoch)
    <3>1. requests' = Append(requests, epoch) /\ requests = <<>> /\ Len(requests') = 1
      BY <1>1, <2>1 DEF Login, Ask
    <3>2. pc' = "loop" \/ pc' = "end"
      BY <1>1 DEF Login
    <3> QED BY <1>1, <3>1, <3>2 DEF Login, shared
  <2> QED BY <1>1, <2>1 DEF Login, shared
<1>2. CASE TakeSeek
  <2>1. requests' = Append(requests, seekEpoch) /\ requests' # <<>>
    BY <1>2 DEF TakeSeek, Ask, TypeOK
  <2> QED BY <1>2, <2>1 DEF TakeSeek
<1>3. ASSUME NEW p \in Positions, Seek(p) PROVE Progress'
  BY <1>3 DEF Seek, pump
<1>4. CASE \/ Start \/ StopStore \/ StopWake \/ ReadCall \/ ReaderLeaves \/ NoSeek \/ Quiet
           \/ Aborted \/ Finish
  BY <1>4 DEF Start, StopStore, StopWake, ReadCall, ReaderLeaves, NoSeek, Quiet, Aborted, Finish,
              shared, pump
<1>5. CASE ReadTurn
  BY <1>5 DEF ReadTurn, pump
<1>6. CASE ClearRing \/ Push
  BY <1>6 DEF ClearRing, Push
<1>7. CASE Parse
  BY <1>7 DEF Parse, Audio, Video, shared
<1>8. CASE Answer \/ Send \/ UNCHANGED vars
  BY <1>8 DEF Answer, Send, vars, pump, shared
<1> QED
  BY <1>1, <1>2, <1>3, <1>4, <1>5, <1>6, <1>7, <1>8 DEF Next, Gui, Reader, Pump, Camera

(* The sound of a recording follows its picture.                           *)
LEMMA SoundNext == SoundHasPicture /\ [Next]_vars => SoundHasPicture'
<1> SUFFICES ASSUME SoundHasPicture, [Next]_vars PROVE SoundHasPicture'
  OBVIOUS
<1> USE DEF SoundHasPicture
<1>1. CASE Gui
  BY <1>1 DEF Gui, Start, StopStore, StopWake, Seek, pump
<1>2. CASE Reader \/ Camera \/ UNCHANGED vars
  BY <1>2 DEF Reader, ReadCall, ReadTurn, ReaderLeaves, Camera, Answer, Send, vars, pump
<1>3. CASE Login \/ TakeSeek \/ ClearRing \/ NoSeek \/ Quiet \/ Push \/ Aborted \/ Finish
  BY <1>3 DEF Login, TakeSeek, ClearRing, NoSeek, Quiet, Push, Aborted, Finish
<1>4. CASE Parse
  BY <1>4 DEF Parse, Audio, Video
<1> QED BY <1>1, <1>2, <1>3, <1>4 DEF Next, Pump

(* The I-frame that starts the picture, or any frame of a picture that has *)
(* started, answers the last request, and nothing older follows it.        *)
LEMMA LetThrough ==
  ASSUME MediaInv, requests # <<>>, ~Strayed, wire # <<>>, picture \/ Starts(Head(wire))
  PROVE  /\ OfLatest(Head(wire)) /\ answered = Asked
         /\ \A i \in 1..Len(wire) : OfLatest(wire[i])
<1> USE DEF MediaInv
<1>1. /\ Head(wire) = wire[1] /\ 1 \in 1..Len(wire) /\ Asked \in Nat /\ answered \in 0..Asked
      /\ \A i \in 1..Len(wire) : wire[i].of \in 1..answered /\ 1 <= i
  BY DEF TypeOK, Connection, Asked
<1>2. CASE picture
  BY <1>1, <1>2 DEF Delivery
<1>3. ASSUME wire[1].of = Asked
      PROVE  /\ OfLatest(Head(wire)) /\ answered = Asked
             /\ \A i \in 1..Len(wire) : OfLatest(wire[i])
  <2>1. answered = Asked
    BY <1>1, <1>3
  <2>2. \A i \in 1..Len(wire) : wire[1].of <= wire[i].of
    BY <1>1 DEF Connection
  <2>3. \A i \in 1..Len(wire) : wire[i].of = Asked
    BY <1>1, <1>3, <2>1, <2>2
  <2> QED BY <1>1, <2>1, <2>3 DEF OfLatest
<1>4. CASE ~picture /\ Asked > 1
  <2>1. wire[1].kind = "I" /\ Near(wire[1].at, Latest)
    BY <1>1, <1>4 DEF Delivery, Starts, TooFar
  <2>2. wire[1] \in flight
    BY <1>1, <2>1 DEF Connection
  <2>3. ~(wire[1].of < Asked)
    BY <2>1, <2>2 DEF Strayed
  <2>4. wire[1].of = Asked
    BY <1>1, <2>3
  <2> QED BY <1>3, <2>4
<1>5. CASE Asked <= 1
  <2>1. wire[1].of = Asked
    BY <1>1, <1>5
  <2> QED BY <1>3, <2>1
<1> QED BY <1>1, <1>2, <1>4, <1>5

LEMMA DeliveryNext == MediaInv /\ [Next]_vars => Delivery'
<1> SUFFICES ASSUME MediaInv, [Next]_vars PROVE Delivery'
  OBVIOUS
<1> USE DEF MediaInv
<1>1. ASSUME UNCHANGED <<requests, picture, seekTarget, sound, flight>>,
             UNCHANGED <<answered, wire, ring>>,
             pc' # "push" \/ (pc = "push" /\ hand' = hand), pc' # "clear" => pc # "clear"
      PROVE  Delivery'
  BY <1>1 DEF Delivery, Latest, Asked, Strayed, OfLatest
<1>2. CASE \/ Start \/ StopStore \/ StopWake \/ ReadCall \/ ReaderLeaves \/ NoSeek \/ Quiet
           \/ Aborted \/ Finish \/ UNCHANGED vars \/ \E p \in Positions : Seek(p)
  BY <1>1, <1>2 DEF Start, StopStore, StopWake, ReadCall, ReaderLeaves, NoSeek, Quiet, Aborted,
                    Finish, Seek, vars, pump, shared, camera
<1>3. CASE ReadTurn
  <2>1. UNCHANGED <<requests, picture, seekTarget, sound, answered, wire, pc, hand, flight>>
    BY <1>3 DEF ReadTurn, pump, camera
  <2>2. CASE ring' = ring
    BY <1>1, <2>1, <2>2
  <2>3. ASSUME NEW n \in 1..Len(ring), ring' = SubSeq(ring, n + 1, Len(ring)) PROVE Delivery'
    <3>1. \A i \in 1..Len(ring') : ring'[i] = ring[i + n] /\ i + n \in 1..Len(ring)
      BY <2>3 DEF TypeOK
    <3> QED BY <2>1, <3>1 DEF Delivery, Latest, Asked, Strayed, OfLatest
  <2> QED BY <1>3, <2>2, <2>3 DEF ReadTurn
<1>4. CASE Login
  <2>1. CASE Ask(epoch)
    <3>1. requests' = <<epoch>> /\ Asked' = 1 /\ pc' \in {"loop", "end"}
      BY <1>4, <2>1 DEF Login, Ask, Progress, Asked
    <3>2. ring' = <<>> /\ sound' = {} /\ ~picture'
      BY <1>4 DEF Login, shared, Progress
    <3> QED BY <3>1, <3>2 DEF Delivery
  <2> QED BY <1>1, <1>4, <2>1 DEF Login, shared, camera
<1>5. CASE TakeSeek
  <2>1. /\ Ask(seekEpoch) /\ seekEpoch # 0 /\ seekTarget' = seekEpoch /\ seekEpoch \in Requests
        /\ ~picture' /\ sound' = {} /\ pc' = "clear"
    BY <1>5 DEF TakeSeek, TypeOK
  <2>2. Latest' = seekEpoch
    BY <2>1, OneMoreRequest DEF Latest
  <2> QED BY <2>1, <2>2 DEF Delivery
<1>6. CASE ClearRing
  <2>1. /\ UNCHANGED <<requests, picture, seekTarget, sound, answered, wire, flight>>
        /\ pc' = "parse" /\ ring' = <<>>
    BY <1>6 DEF ClearRing, camera
  <2> QED BY <2>1 DEF Delivery, Latest, Asked, Strayed, OfLatest
<1>7. CASE Parse
  <2>1. /\ wire # <<>> /\ wire' = Tail(wire)
        /\ UNCHANGED <<requests, answered, ring, epoch, flight>>
        /\ pc = "parse" /\ pc' \in {"loop", "push"}
    BY <1>7 DEF Parse, Audio, Video, shared
  <2>2. /\ \A i \in 1..Len(wire') : wire'[i] = wire[i + 1] /\ i + 1 \in 1..Len(wire)
        /\ Head(wire) = wire[1] /\ 1 \in 1..Len(wire)
    BY <2>1 DEF TypeOK
  <2>3. Latest' = Latest /\ Asked' = Asked /\ (Strayed' <=> Strayed)
    BY <2>1 DEF Latest, Asked, Strayed
  <2>4. requests # <<>>
    BY <2>1 DEF Progress
  <2>5. CASE Audio(Head(wire))
    <3>1. pc' = "loop" /\ UNCHANGED <<picture, seekTarget, hand>>
      BY <2>5 DEF Audio
    <3>2. ASSUME ~Strayed, epoch = Live \/ picture PROVE wire[1].of = Asked
      <4>1. CASE picture
        BY <2>2, <2>4, <3>2, <4>1 DEF Delivery, OfLatest
      <4>2. CASE epoch = Live
        <5>1. wire[1].of \in 1..answered /\ answered \in 0..Asked /\ Asked \in Nat /\ ~(Asked > 1)
          BY <2>2, <4>2 DEF Connection, Progress, TypeOK, Asked
        <5> QED BY <5>1
      <4> QED BY <3>2, <4>1, <4>2
    <3>3. ~Strayed => sound' \subseteq {Asked}
      BY <2>2, <2>4, <2>5, <3>2 DEF Audio, Delivery
    <3> QED BY <2>1, <2>2, <2>3, <3>1, <3>3 DEF Delivery, OfLatest
  <2>6. CASE Video(Head(wire)) /\ (picture \/ Starts(Head(wire)))
    <3>1. picture' = TRUE /\ hand' = Head(wire) /\ pc' = "push" /\ sound' = sound
      BY <2>6 DEF Video
    <3>2. ~Strayed => /\ OfLatest(Head(wire)) /\ answered = Asked
                      /\ \A i \in 1..Len(wire) : OfLatest(wire[i])
      BY <2>1, <2>4, <2>6, LetThrough
    <3> QED BY <2>1, <2>2, <2>3, <3>1, <3>2 DEF Delivery, OfLatest
  <2>7. CASE Video(Head(wire)) /\ ~(picture \/ Starts(Head(wire)))
    <3>1. pc' = "loop" /\ UNCHANGED <<picture, seekTarget, hand, sound>>
      BY <2>7 DEF Video
    <3> QED BY <2>1, <2>2, <2>3, <3>1 DEF Delivery, OfLatest
  <2> QED BY <1>7, <2>5, <2>6, <2>7 DEF Parse
<1>8. CASE Push
  <2>1. /\ UNCHANGED <<requests, picture, seekTarget, sound, answered, wire, flight>>
        /\ pc = "push" /\ pc' \in {"push", "loop", "parse"}
        /\ pc' = "push" => hand' = hand
    BY <1>8 DEF Push, camera
  <2>2. Latest' = Latest /\ Asked' = Asked /\ (Strayed' <=> Strayed)
    BY <2>1 DEF Latest, Asked, Strayed
  <2>3. CASE ring' = ring
    BY <2>1, <2>2, <2>3 DEF Delivery, OfLatest
  <2>4. CASE ring' = Append(ring, hand) /\ pc' # "push"
    <3>1. \A i \in 1..Len(ring') : (i \in 1..Len(ring) /\ ring'[i] = ring[i]) \/ ring'[i] = hand
      BY <2>4 DEF TypeOK
    <3> QED BY <2>1, <2>2, <2>4, <3>1 DEF Delivery, OfLatest
  <2> QED BY <1>8, <2>3, <2>4 DEF Push
<1>9. CASE Answer
  <2>1. /\ answered' = answered + 1 /\ answered < Asked /\ UNCHANGED <<pump, wire, ring, flight>>
        /\ answered \in Nat /\ Asked \in Nat
    BY <1>9 DEF Answer, shared, TypeOK, Asked
  <2>2. answered # Asked
    BY <2>1
  <2> QED BY <2>1, <2>2 DEF Delivery, Latest, Asked, Strayed, OfLatest, pump
<1>10. CASE Send
  <2>1. PICK f \in Frames : SendsFrame(f)
    BY <1>10, SentFrame
  <2>2. UNCHANGED <<pump, answered, ring, epoch>>
    BY <1>10, SentFrame
  <2>3. \A i \in 1..Len(wire') : (i \in 1..Len(wire) /\ wire'[i] = wire[i]) \/ wire'[i].of = answered
    BY <2>1 DEF SendsFrame, Carry, TypeOK
  <2>4. Asked' = Asked /\ Latest' = Latest /\ (Strayed => Strayed')
    BY <2>1, <2>2 DEF Asked, Latest, Strayed, SendsFrame, pump
  <2> QED BY <2>2, <2>3, <2>4 DEF Delivery, OfLatest, pump
<1> QED
  BY <1>2, <1>3, <1>4, <1>5, <1>6, <1>7, <1>8, <1>9, <1>10 DEF Next, Gui, Reader, Pump, Camera

LEMMA MediaNext == MediaInv /\ [Next]_vars => MediaInv'
BY TypesNext, ConnectionNext, ProgressNext, DeliveryNext, SoundNext DEF MediaInv

LEMMA MediaShows == MediaInv => NothingOld
BY DEF MediaInv, Delivery, NothingOld, OfLatestOnly, Range, TypeOK

(* However many seeks are asked for, overtake each other or wait behind    *)
(* old frames, whose own time goes on: once one is carried out, neither a  *)
(* picture nor a sound that an earlier request brought is handed over,     *)
(* unless the playback that was left had come near the target.             *)
THEOREM NothingOldGetsThrough == Spec => []NothingOld
<1>1. Init => MediaInv
  BY MediaInit
<1>2. MediaInv /\ [Next]_vars => MediaInv'
  BY MediaNext
<1> QED BY <1>1, <1>2, MediaShows, PTL DEF Spec

(* The sound of a recording never runs ahead of its picture.               *)
THEOREM SoundWaits == Spec => []SoundHasPicture
<1>1. Init => SoundHasPicture
  BY DEF Init, SoundHasPicture
<1> QED BY <1>1, SoundNext, PTL DEF Spec
=============================================================================
