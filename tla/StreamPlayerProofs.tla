------------------------- MODULE StreamPlayerProofs -------------------------
(***************************************************************************)
(* For any number of streams, of any kind, and any budget: one session has *)
(* the camera, only its pictures are shown, retries are limited, every     *)
(* recording that began is ended in order, and the end of a stream is      *)
(* shown.                                                                  *)
(***************************************************************************)
EXTENDS StreamPlayerProps, TLAPS

(* OneStream is inductive with the types it needs.  A held frame is always *)
(* of the current session: whatever replaces the session empties the       *)
(* buffer.                                                                 *)
SessionInv ==
  /\ started \in 0..MaxSessions
  /\ cur \in 0..started
  /\ held \in {None, cur}
  /\ OneStream

LEMMA SessionInit == Init => SessionInv
<1> SUFFICES ASSUME Init PROVE SessionInv
  OBVIOUS
<1>1. started = 0 /\ cur = 0 /\ held = 0 /\ alive = {} /\ abort = {} /\ 1..started = {}
  BY DEF Init, None
<1> QED BY <1>1, StreamAssumption DEF StreamAssumption, SessionInv, OneStream, None

(* Steps that leave the sessions and the smoothing buffer alone.           *)
LEMMA OthersKeepSessions ==
  ASSUME SessionInv, UNCHANGED <<started, cur, alive, abort>>, held' \in {None, held, cur}
  PROVE  SessionInv'
BY DEF SessionInv, OneStream, None

LEMMA WorkerKeepsGui ==
  ASSUME NEW s \in Sessions, Worker(s)
  PROVE  UNCHANGED <<gui, alive, abort>>
<1>1. CASE Begin(s) \/ Opened(s) \/ OtherPacket(s) \/ NoPicture(s) \/ GiveUp(s) \/ Reconnect(s)
  BY <1>1 DEF Begin, Opened, OtherPacket, NoPicture, GiveUp, Reconnect, session
<1>2. CASE OpenFails(s) \/ OpenHopeless(s) \/ Loop(s) \/ EndOfStream(s) \/ ReadFails(s)
  BY <1>2 DEF OpenFails, OpenHopeless, Loop, EndOfStream, ReadFails
<1>3. CASE Packet(s) \/ Picture(s) \/ Over(s)
  BY <1>3 DEF Packet, Picture, Over
<1> QED BY <1>1, <1>2, <1>3 DEF Worker

LEMMA SessionNext == SessionInv /\ [Next]_vars => SessionInv'
<1> SUFFICES ASSUME SessionInv, [Next]_vars PROVE SessionInv'
  OBVIOUS
<1>0. started \in Nat /\ cur \in 0..started
  BY StreamAssumption DEF StreamAssumption, SessionInv
<1>1. ASSUME NEW k \in Kinds, Open(k) PROVE SessionInv'
  <2>1. started' \in 0..MaxSessions /\ cur' = started' /\ started' = started + 1 /\ held' = None
    BY <1>1, <1>0, StreamAssumption DEF StreamAssumption, Open, CutLoose
  <2>2. abort' = 1..started
    BY <1>1, <1>0 DEF Open, CutLoose, SessionInv, OneStream, None
  <2>3. alive' = {cur'} \ {None}
    BY <1>1, <2>1, <1>0 DEF Open, None
  <2>4. abort' = 1..started' \ alive'
    BY <2>1, <2>2, <2>3, <1>0 DEF None
  <2> QED BY <2>1, <2>3, <2>4, <1>0 DEF SessionInv, OneStream
<1>2. CASE Stop
  BY <1>2, <1>0 DEF Stop, CutLoose, SessionInv, OneStream, None
<1>3. CASE Destroy
  BY <1>3, <1>0 DEF Destroy, CutLoose, SessionInv, OneStream, None
<1>4. CASE StartRecording \/ StopRecording
  BY <1>4, OthersKeepSessions DEF StartRecording, StopRecording, gui
<1>5. CASE Deliver
  <2>1. held' \in {None, held, cur} /\ UNCHANGED <<started, cur, alive, abort>>
    BY <1>5 DEF Deliver, ApplyFrame, session
  <2> QED BY <2>1, OthersKeepSessions
<1>6. CASE ShowHeld
  BY <1>6, OthersKeepSessions DEF ShowHeld, session
<1>7. ASSUME NEW s \in Sessions, Worker(s) PROVE SessionInv'
  BY <1>7, WorkerKeepsGui, OthersKeepSessions DEF gui
<1>8. CASE UNCHANGED vars
  BY <1>8, OthersKeepSessions DEF vars, gui, session
<1> QED BY <1>1, <1>2, <1>3, <1>4, <1>5, <1>6, <1>7, <1>8 DEF Next, User

(* At most one session has the camera and reaches the object, and every    *)
(* other has been told to end (start(), stop(), ~StreamPlayer()).          *)
THEOREM OneSession == Spec => []OneStream
<1>1. SessionInv => OneStream
  BY DEF SessionInv
<1> QED BY <1>1, SessionInit, SessionNext, PTL DEF Spec

(* The sink is only ever given pictures of the current session, from the   *)
(* event queue (applyFrameFromWorker) and from the smoothing buffer        *)
(* (servicePlayout) alike.                                                 *)
THEOREM NoOldPicture == Spec => OnlyCurrentOnScreen
<1>1. SessionInv /\ [Next]_vars => [screen' # screen => screen' = cur]_vars
  <2> SUFFICES ASSUME SessionInv, Next, screen' # screen PROVE screen' = cur
    BY DEF vars, gui
  <2>1. CASE User
    BY <2>1 DEF User, Open, Stop, Destroy, StartRecording, StopRecording, gui
  <2>2. CASE Deliver
    BY <2>2 DEF Deliver, ApplyFrame
  <2>3. CASE ShowHeld
    BY <2>3 DEF ShowHeld, SessionInv
  <2>4. ASSUME NEW s \in Sessions, Worker(s) PROVE FALSE
    BY <2>4, WorkerKeepsGui DEF gui
  <2> QED BY <2>1, <2>2, <2>3, <2>4 DEF Next
<1> QED BY <1>1, SessionInit, SessionNext, PTL DEF Spec, OnlyCurrentOnScreen

-----------------------------------------------------------------------------
(* Retries.  What is left of the budget and what was used of it are        *)
(* together the budget, and there is something left until the last charge, *)
(* after which the worker only ends.                                       *)
Books(s) ==
  /\ tries[s] \in 0..Budget /\ failures[s] \in Nat
  /\ kind[s] # "live" => failures[s] + tries[s] = Budget
  /\ pc[s] \notin {"over", "done"} => tries[s] >= 1
  /\ s > started => pc[s] = "off" /\ tries[s] = Budget /\ failures[s] = 0

RetryInv ==
  /\ started \in Nat
  /\ kind \in [Sessions -> Kinds \cup {"once"}] /\ pc \in [Sessions -> Stages]
  /\ tries \in [Sessions -> Int] /\ failures \in [Sessions -> Int]
  /\ \A s \in Sessions : Books(s)

LEMMA RetryInit == Init => RetryInv
BY StreamAssumption DEF StreamAssumption, Init, RetryInv, Books, Stages

(* A session that keeps its kind and its books keeps them balanced.        *)
LEMMA BooksKept ==
  ASSUME RetryInv, NEW s \in Sessions, started' = started, kind' = kind,
         tries' = tries, failures' = failures, pc' \in [Sessions -> Stages],
         \A t \in Sessions : pc'[t] = pc[t] \/ (t = s /\ pc[s] # "off" /\ pc[s] \notin {"over", "done"})
  PROVE  RetryInv'
BY DEF RetryInv, Books

LEMMA RetryNext == RetryInv /\ [Next]_vars => RetryInv'
<1> SUFFICES ASSUME RetryInv, [Next]_vars PROVE RetryInv'
  OBVIOUS
<1>1. ASSUME NEW k \in Kinds, Open(k) PROVE RetryInv'
  <2>1. started + 1 \in Sessions /\ started' = started + 1
    BY <1>1, StreamAssumption DEF StreamAssumption, Open, RetryInv, Sessions
  <2>2. UNCHANGED <<tries, failures>>
    BY <1>1 DEF Open
  <2>3. /\ kind' \in [Sessions -> Kinds \cup {"once"}] /\ pc' \in [Sessions -> Stages]
        /\ \A s \in Sessions : s # started + 1 => kind'[s] = kind[s] /\ pc'[s] = pc[s]
        /\ pc'[started + 1] = "begin"
    BY <1>1, <2>1 DEF Open, RetryInv, Stages
  <2>4. ASSUME NEW s \in Sessions PROVE Books(s)'
    BY <2>1, <2>2, <2>3, StreamAssumption DEF StreamAssumption, RetryInv, Books, Sessions
  <2> QED BY <2>1, <2>2, <2>3, <2>4 DEF RetryInv
<1>2. CASE Stop \/ Destroy \/ StartRecording \/ StopRecording
  BY <1>2 DEF Stop, Destroy, StartRecording, StopRecording, gui, worker, RetryInv, Books
<1>3. CASE Deliver \/ ShowHeld
  BY <1>3 DEF Deliver, ShowHeld, worker, session, RetryInv, Books
<1>4. ASSUME NEW s \in Sessions, Worker(s) PROVE RetryInv'
  <2> USE DEF Goto, RetryInv, Stages
  <2>0. started' = started /\ kind' = kind
    BY <1>4, WorkerKeepsGui
    DEF gui, Worker, Begin, Opened, OtherPacket, NoPicture, GiveUp, Reconnect, OpenFails,
        OpenHopeless, Loop, EndOfStream, ReadFails, Packet, Picture, Over, session
  <2>1. CASE Begin(s) \/ OpenHopeless(s) \/ Opened(s) \/ Loop(s) \/ EndOfStream(s)
             \/ Packet(s) \/ OtherPacket(s) \/ NoPicture(s) \/ Picture(s)
    BY <2>0, <2>1, BooksKept
    DEF Begin, OpenHopeless, Opened, Loop, EndOfStream, Packet, OtherPacket, NoPicture, Picture
  <2>2. CASE OpenFails(s) \/ ReadFails(s)
    BY <2>0, <2>2, BooksKept DEF OpenFails, ReadFails, Failed
  <2>3. CASE GiveUp(s)
    <3>1. pc' \in [Sessions -> Stages] /\ pc[s] = "back" /\ pc'[s] = "over"
          /\ \A t \in Sessions : t # s => pc'[t] = pc[t]
      BY <2>3 DEF GiveUp
    <3>2. CASE s \in abort /\ UNCHANGED <<tries, failures>>
      BY <2>0, <3>1, <3>2 DEF Books
    <3>3. CASE ~Endless(s) /\ Charged(s)
      <4>1. ASSUME NEW t \in Sessions PROVE Books(t)'
        BY <2>0, <3>1, <3>3, StreamAssumption
        DEF StreamAssumption, Charged, Endless, BudgetLeft, Books
      <4>2. tries' \in [Sessions -> Int] /\ failures' \in [Sessions -> Int]
        BY <3>3, StreamAssumption DEF StreamAssumption, Charged, BudgetLeft
      <4> QED BY <2>0, <3>1, <4>1, <4>2
    <3> QED BY <2>3, <3>2, <3>3 DEF GiveUp
  <2>4. CASE Reconnect(s)
    <3>1. pc' \in [Sessions -> Stages] /\ pc[s] = "back" /\ pc'[s] = "begin"
          /\ \A t \in Sessions : t # s => pc'[t] = pc[t]
      BY <2>4 DEF Reconnect
    <3>2. Charged(s) /\ (Endless(s) \/ BudgetLeft(s) > 1)
      BY <2>4 DEF Reconnect
    <3>3. ASSUME NEW t \in Sessions PROVE Books(t)'
      BY <2>0, <3>1, <3>2, StreamAssumption
      DEF StreamAssumption, Charged, Endless, BudgetLeft, Books
    <3>4. tries' \in [Sessions -> Int] /\ failures' \in [Sessions -> Int]
      BY <3>2, StreamAssumption DEF StreamAssumption, Charged, BudgetLeft
    <3> QED BY <2>0, <3>1, <3>3, <3>4
  <2>5. CASE Over(s)
    <3>1. /\ pc' \in [Sessions -> Stages] /\ pc[s] = "over" /\ pc'[s] = "done"
          /\ \A t \in Sessions : t # s => pc'[t] = pc[t]
          /\ tries' = [tries EXCEPT ![s] = Budget] /\ failures' = [failures EXCEPT ![s] = 0]
      BY <2>5 DEF Over, Forgotten
    <3>2. ASSUME NEW t \in Sessions PROVE Books(t)'
      BY <2>0, <3>1, StreamAssumption DEF StreamAssumption, Books
    <3> QED BY <2>0, <3>1, <3>2, StreamAssumption DEF StreamAssumption
  <2> QED BY <1>4, <2>1, <2>2, <2>3, <2>4, <2>5 DEF Worker
<1>5. CASE UNCHANGED vars
  BY <1>5 DEF vars, gui, worker, session, RetryInv, Books
<1> QED BY <1>1, <1>2, <1>3, <1>4, <1>5 DEF Next, User

(* A stream that is not live makes at most Budget attempts in a row        *)
(* without progress, whatever the camera does (runWorker()).               *)
THEOREM RetriesEnd == Spec => []RetriesAreLimited
<1>1. RetryInv => RetriesAreLimited
  BY StreamAssumption DEF StreamAssumption, RetryInv, Books, RetriesAreLimited
<1> QED BY <1>1, RetryInit, RetryNext, PTL DEF Spec

-----------------------------------------------------------------------------
(* Types of what the two invariants leave open, and the numbers of clips.  *)

PlainTypes ==
  /\ clips \in Clips /\ state \in Shown \cup {"Gone"} /\ recording \in BOOLEAN
  /\ screen \in 0..started
  /\ posts \in Seq(News) /\ Len(posts) <= MaxPosts
  /\ recPath \in [Sessions -> Clips]
  /\ lastError \subseteq 1..started /\ wanted \subseteq 1..started /\ streaming \subseteq 1..started
  /\ frames \in [Sessions -> {"none", "some", "many"}]
  /\ recorder \in [Sessions -> [clip : Clips, key : BOOLEAN]]
  /\ saved \subseteq 1..clips

Recording(p) == p.what = "recording"

(* No clip is named before it was asked for.                               *)
ClipsKnown ==
  /\ \A s \in Sessions : recPath[s] <= clips /\ recorder[s].clip <= clips
  /\ \A k \in 1..Len(posts) : Recording(posts[k]) => posts[k].clip <= clips

LEMMA StreamBounds ==
  MaxSessions \in Nat \ {0} /\ Budget \in Nat \ {0} /\ MaxPosts \in Nat /\ MaxPosts >= 2 /\ MaxClips \in Nat
BY StreamAssumption DEF StreamAssumption

LEMMA NewsIs ==
  ASSUME NEW s \in Sessions
  PROVE  /\ \A x \in Shown : State(s, x) \in News /\ State(s, x).what = "state"
         /\ Frame(s) \in News /\ Frame(s).what = "frame"
         /\ \A on \in BOOLEAN, c \in Clips :
              /\ Recorded(s, on, c) \in News /\ Recording(Recorded(s, on, c))
              /\ Recorded(s, on, c).on = on /\ Recorded(s, on, c).clip = c
              /\ Recorded(s, on, c).from = s
<1>1. \A x \in Shown : State(s, x) \in News
  BY DEF News, State
<1>2. Frame(s) \in News
  BY DEF News, Frame
<1>3. \A on \in BOOLEAN, c \in Clips : Recorded(s, on, c) \in News
  BY DEF News, Recorded
<1> QED BY <1>1, <1>2, <1>3 DEF State, Frame, Recorded, Recording

LEMMA PostIs ==
  ASSUME PlainTypes, NEW k \in 1..Len(posts)
  PROVE  /\ posts[k] \in News
         /\ posts[k].what = "state" => posts[k].state \in Shown
         /\ Recording(posts[k]) => posts[k].on \in BOOLEAN /\ posts[k].clip \in Clips
<1>1. posts[k] \in News
  BY DEF PlainTypes
<1>2. CASE posts[k] \in [what : {"state"}, from : Sessions, state : Shown]
  BY <1>1, <1>2 DEF Recording
<1>3. CASE posts[k] \in [what : {"frame"}, from : Sessions]
  BY <1>1, <1>3 DEF Recording
<1>4. CASE posts[k] \in [what : {"recording"}, from : Sessions, on : BOOLEAN, clip : Clips]
  BY <1>1, <1>4
<1> QED BY <1>1, <1>2, <1>3, <1>4 DEF News

(* What a worker's post adds to the queue.                                 *)
LEMMA TellAdds ==
  ASSUME PlainTypes, NEW s \in Sessions, NEW news \in Seq(News), Tell(s, news)
  PROVE  /\ posts' \in Seq(News) /\ Len(posts') <= MaxPosts /\ Len(posts') \in Nat
         /\ s \notin alive => posts' = posts
         /\ s \in alive => /\ Len(posts') = Len(posts) + Len(news)
                           /\ \A l \in 1..Len(news) : posts'[Len(posts) + l] = news[l]
         /\ Len(posts) \in Nat /\ Len(posts) <= Len(posts')
         /\ \A k \in 1..Len(posts) : posts'[k] = posts[k]
         /\ \A k \in 1..Len(posts') : \/ k \in 1..Len(posts)
                                      \/ \E l \in 1..Len(news) : k = Len(posts) + l /\ posts'[k] = news[l]
<1>1. posts \in Seq(News) /\ Len(posts) \in Nat /\ Len(news) \in Nat /\ Len(posts) <= MaxPosts
  BY DEF PlainTypes
<1>2. CASE s \notin alive
  BY <1>1, <1>2 DEF Tell
<1>3. CASE s \in alive
  <2>1. posts' = posts \o news /\ Len(posts) + Len(news) <= MaxPosts
    BY <1>3 DEF Tell
  <2>2. /\ posts' \in Seq(News) /\ Len(posts') = Len(posts) + Len(news)
        /\ \A k \in 1..Len(posts) : posts'[k] = posts[k]
        /\ \A l \in 1..Len(news) : posts'[Len(posts) + l] = news[l]
    BY <1>1, <2>1
  <2>3. \A k \in 1..Len(posts') : k \in 1..Len(posts) \/ k - Len(posts) \in 1..Len(news)
    BY <1>1, <2>2
  <2>4. \A k \in 1..Len(posts') : k = Len(posts) + (k - Len(posts))
    BY <1>1, <2>2
  <2>5. ASSUME NEW k \in 1..Len(posts'), k \notin 1..Len(posts)
        PROVE  \E l \in 1..Len(news) : k = Len(posts) + l /\ posts'[k] = news[l]
    <3>1. PICK l \in 1..Len(news) : k = Len(posts) + l
      BY <2>3, <2>4, <2>5
    <3> QED BY <2>2, <3>1
  <2> QED BY <1>1, <1>3, <2>1, <2>2, <2>5
<1> QED BY <1>2, <1>3

(* What finalizing a file tells.                                           *)
LEMMA FinalizedIs ==
  ASSUME PlainTypes, NEW s \in Sessions
  PROVE  /\ Finalized(s) \in Seq(News) /\ Len(Finalized(s)) \in {0, 1}
         /\ recorder[s].clip = 0 => Finalized(s) = <<>>
         /\ recorder[s].clip # 0 =>
              \E c \in {0, recorder[s].clip} : Finalized(s) = <<Recorded(s, FALSE, c)>>
<1>1. recorder[s].clip \in Clips /\ 0 \in Clips
  BY StreamBounds DEF PlainTypes, Clips
<1>2. \A c \in {0, recorder[s].clip} : <<Recorded(s, FALSE, c)>> \in Seq(News)
  <2>1. \A x \in News : <<x>> \in Seq(News)
    OBVIOUS
  <2>2. \A c \in {0, recorder[s].clip} : Recorded(s, FALSE, c) \in News
    BY <1>1, NewsIs, ZenonT(40)
  <2> QED BY <2>1, <2>2
<1>3. <<>> \in Seq(News)
  OBVIOUS
<1>4. recorder[s].clip # 0 =>
        \E c \in {0, recorder[s].clip} : Finalized(s) = <<Recorded(s, FALSE, c)>>
  BY DEF Finalized
<1>5. recorder[s].clip = 0 => Finalized(s) = <<>>
  BY DEF Finalized
<1> QED BY <1>2, <1>3, <1>4, <1>5

Busy == {"loop", "read", "decode"}

(* What a step of a worker does about recordings and tells of them: it     *)
(* leaves the file as it is, closes it, opens it, or fails to open it.     *)
Keeps(s, news) ==
  /\ \A l \in 1..Len(news) : ~Recording(news[l])
  /\ recorder'[s].clip = recorder[s].clip
  /\ wanted' = wanted
  /\ recorder[s].clip # 0 => pc'[s] \in Busy

Closes(s, news) ==
  /\ recorder[s].clip # 0 /\ recorder'[s].clip = 0 /\ s \notin wanted'
  /\ wanted' \cup {s} = wanted \cup {s}
  /\ \A l \in 1..Len(news) : Recording(news[l]) =>
       ~news[l].on /\ news[l].clip \in {0, recorder[s].clip}

Opens(s, news) ==
  /\ recorder[s].clip = 0 /\ recorder'[s].clip = recPath[s]
  /\ s \in wanted /\ wanted' = wanted
  /\ news = <<Recorded(s, TRUE, recPath[s])>>
  /\ pc'[s] \in Busy

CannotOpen(s, news) ==
  /\ recorder[s].clip = 0 /\ recorder'[s].clip = 0
  /\ wanted' = wanted \ {s}
  /\ news = <<Recorded(s, FALSE, 0)>>

Step(s, news) ==
  /\ news \in Seq(News) /\ Tell(s, news)
  /\ saved' = saved /\ recPath' = recPath
  /\ recorder' \in [Sessions -> [clip : Clips, key : BOOLEAN]]
  /\ \A t \in Sessions \ {s} : recorder'[t] = recorder[t] /\ pc'[t] = pc[t]
  /\ Keeps(s, news) \/ Closes(s, news) \/ Opens(s, news) \/ CannotOpen(s, news)

(* Where a file may be open; the invariant below has it for every session. *)
FilesOpen == \A s \in Sessions : recorder[s].clip # 0 => pc[s] \in Busy

LEMMA OffNews ==
  ASSUME NEW s \in Sessions, NEW c \in Clips
  PROVE  /\ Recorded(s, FALSE, c) \in News
         /\ ~Recorded(s, FALSE, c).on /\ Recorded(s, FALSE, c).clip = c
<1>1. Recorded(s, FALSE, c) \in News
  BY DEF News, Recorded
<1> QED BY <1>1 DEF Recorded

(* A step that posts nothing of recordings and leaves the file alone.      *)
LEMMA QuietStep ==
  ASSUME PlainTypes, FilesOpen, NEW s \in Sessions, NEW news \in Seq(News), Tell(s, news),
         \A l \in 1..Len(news) : ~Recording(news[l]),
         UNCHANGED <<saved, recPath, recorder, wanted>>,
         \A t \in Sessions \ {s} : pc'[t] = pc[t],
         pc[s] \notin Busy \/ pc'[s] \in Busy
  PROVE  \E n \in Seq(News) : Step(s, n)
<1>1. Keeps(s, news)
  BY DEF Keeps, FilesOpen
<1> QED BY <1>1 DEF Step, PlainTypes

LEMMA SilentTell ==
  ASSUME PlainTypes, NEW s \in Sessions, UNCHANGED posts
  PROVE  Tell(s, <<>>) /\ <<>> \in Seq(News)
<1>1. posts \in Seq(News) /\ Len(posts) <= MaxPosts /\ Len(<<>>) = 0 /\ Len(posts) \in Nat
  BY DEF PlainTypes
<1>2. posts \o <<>> = posts
  BY <1>1
<1>3. <<>> \in Seq(News)
  OBVIOUS
<1> QED BY <1>1, <1>2, <1>3 DEF Tell

LEMMA OneMore ==
  ASSUME NEW S, NEW a \in Seq(S)
  PROVE  /\ a \o <<>> = a
         /\ \A b \in S : /\ a \o <<b>> \in Seq(S)
                        /\ \A l \in 1..Len(a \o <<b>>) :
                             (l \in 1..Len(a) /\ (a \o <<b>>)[l] = a[l]) \/ (a \o <<b>>)[l] = b
<1>1. a \o <<>> = a
  OBVIOUS
<1>2. ASSUME NEW b \in S
      PROVE  /\ a \o <<b>> \in Seq(S) /\ Len(a \o <<b>>) = Len(a) + 1 /\ Len(a) \in Nat
             /\ (a \o <<b>>)[Len(a) + 1] = b
             /\ \A l \in 1..Len(a) : (a \o <<b>>)[l] = a[l]
  OBVIOUS
<1>3. ASSUME NEW b \in S, NEW l \in 1..Len(a \o <<b>>)
      PROVE  (l \in 1..Len(a) /\ (a \o <<b>>)[l] = a[l]) \/ (a \o <<b>>)[l] = b
  <2>1. l \in 1..Len(a) \/ l = Len(a) + 1
    BY <1>2
  <2> QED BY <1>2, <2>1
<1> QED BY <1>1, <1>2, <1>3

LEMMA StepOfClose ==
  ASSUME PlainTypes, FilesOpen, NEW s \in Sessions, CloseFile(s),
         NEW head \in Seq(News), \A l \in 1..Len(head) : ~Recording(head[l]),
         Tell(s, head \o Finalized(s)),
         UNCHANGED <<saved, recPath>>, \A t \in Sessions \ {s} : pc'[t] = pc[t],
         pc[s] \in Busy
  PROVE  \E n \in Seq(News) : Step(s, n)
<1>1. /\ recorder' \in [Sessions -> [clip : Clips, key : BOOLEAN]]
      /\ \A t \in Sessions \ {s} : recorder'[t] = recorder[t]
      /\ recorder'[s].clip = 0 /\ recorder[s].clip \in Clips
  BY StreamBounds DEF PlainTypes, CloseFile, NoFile, Clips
<1>2. CASE recorder[s].clip = 0
  <2>1. Finalized(s) = <<>>
    BY <1>2, FinalizedIs
  <2>2. head \o Finalized(s) = head
    BY <2>1, OneMore
  <2>3. Tell(s, head)
    BY <2>2
  <2>4. Keeps(s, head)
    BY <1>1, <1>2 DEF Keeps, CloseFile
  <2> QED BY <1>1, <2>3, <2>4 DEF Step
<1>3. CASE recorder[s].clip # 0
  <2>1. PICK c \in {0, recorder[s].clip} : Finalized(s) = <<Recorded(s, FALSE, c)>>
    BY <1>3, FinalizedIs
  <2>2. c \in Clips
    BY <1>1, StreamBounds DEF Clips
  <2> DEFINE b == Recorded(s, FALSE, c)
  <2>3. b \in News /\ ~b.on /\ b.clip = c
    BY <2>2, OffNews
  <2> HIDE DEF b
  <2> DEFINE news == head \o <<b>>
  <2>4. news \in Seq(News) /\ \A l \in 1..Len(news) :
                                (l \in 1..Len(head) /\ news[l] = head[l]) \/ news[l] = b
    BY <2>3, OneMore
  <2>5. Tell(s, news)
    BY <2>1 DEF b
  <2> HIDE DEF news
  <2>6. Closes(s, news)
    BY <1>1, <1>3, <2>3, <2>4 DEF Closes, CloseFile
  <2> QED BY <1>1, <2>4, <2>5, <2>6 DEF Step
<1> QED BY <1>2, <1>3

LEMMA StepOfPacket ==
  ASSUME PlainTypes, FilesOpen, pc \in [Sessions -> Stages], NEW s \in Sessions, Packet(s)
  PROVE  \E n \in Seq(News) : Step(s, n)
<1>1. /\ UNCHANGED <<saved, recPath>> /\ pc' = [pc EXCEPT ![s] = "decode"] /\ pc[s] = "read"
      /\ recorder[s] \in [clip : Clips, key : BOOLEAN] /\ recPath[s] \in Clips /\ 0 \in Clips
      /\ recorder \in [Sessions -> [clip : Clips, key : BOOLEAN]]
  BY StreamBounds DEF Packet, Goto, PlainTypes, Clips
<1>2. (\A t \in Sessions \ {s} : pc'[t] = pc[t]) /\ pc'[s] \in Busy
  BY <1>1 DEF Busy
<1>3. \A x \in News : <<x>> \in Seq(News) /\ Len(<<x>>) = 1 /\ <<x>>[1] = x
  OBVIOUS
<1>4. CASE Unchanged(s)
  <2>1. PICK k \in BOOLEAN : recorder' = [recorder EXCEPT ![s].key = k]
    BY <1>1, <1>4 DEF Unchanged
  <2>2. /\ recorder' \in [Sessions -> [clip : Clips, key : BOOLEAN]]
        /\ \A t \in Sessions \ {s} : recorder'[t] = recorder[t]
        /\ recorder'[s].clip = recorder[s].clip
    BY <1>1, <2>1
  <2>3. Tell(s, <<>>) /\ <<>> \in Seq(News)
    BY <1>4, SilentTell DEF Unchanged
  <2>4. Keeps(s, <<>>)
    BY <1>2, <1>4, <2>2 DEF Keeps, Unchanged
  <2> QED BY <1>1, <1>2, <2>2, <2>3, <2>4 DEF Step
<1>5. CASE OpenFile(s) /\ wanted' = wanted
  <2>0. Recorded(s, TRUE, recPath[s]) \in News
    BY <1>1, NewsIs
  <2>1. CASE Tell(s, <<Recorded(s, TRUE, recPath[s])>>)
             /\ \E k \in BOOLEAN : recorder' = [recorder EXCEPT ![s] = [clip |-> recPath[s], key |-> k]]
    <3>1. PICK k \in BOOLEAN : recorder' = [recorder EXCEPT ![s] = [clip |-> recPath[s], key |-> k]]
      BY <2>1
    <3>2. /\ recorder' \in [Sessions -> [clip : Clips, key : BOOLEAN]]
          /\ \A t \in Sessions \ {s} : recorder'[t] = recorder[t]
          /\ recorder'[s].clip = recPath[s]
      BY <1>1, <3>1
    <3>3. Opens(s, <<Recorded(s, TRUE, recPath[s])>>)
      BY <1>2, <1>5, <3>2 DEF Opens, OpenFile
    <3> QED BY <1>1, <1>2, <1>3, <2>0, <2>1, <3>2, <3>3 DEF Step
  <2>2. CASE wanted' = wanted \ {s}
    BY <1>5, <2>2 DEF OpenFile
  <2> QED BY <1>5, <2>1, <2>2 DEF OpenFile
<1>6. CASE OpenFile(s) /\ wanted' = wanted \ {s}
  <2>0. Recorded(s, FALSE, 0) \in News
    BY <1>1, NewsIs
  <2>1. Tell(s, <<Recorded(s, FALSE, 0)>>) /\ recorder' = recorder
    BY <1>6 DEF OpenFile
  <2>2. CannotOpen(s, <<Recorded(s, FALSE, 0)>>)
    BY <1>6, <2>1 DEF CannotOpen, OpenFile
  <2> QED BY <1>1, <1>2, <1>3, <2>0, <2>1, <2>2 DEF Step
<1>7. CASE EndFile(s)
  <2>1. PICK c \in {0, recorder[s].clip} : Finalized(s) = <<Recorded(s, FALSE, c)>>
    BY <1>7, FinalizedIs DEF EndFile
  <2>2. c \in Clips
    BY <1>1, <2>1
  <2> DEFINE b == Recorded(s, FALSE, c)
  <2>3. b \in News /\ ~b.on /\ b.clip = c
    BY <2>2, OffNews
  <2>4. Tell(s, <<b>>)
    BY <1>7, <2>1 DEF EndFile
  <2> HIDE DEF b
  <2>5. /\ recorder' \in [Sessions -> [clip : Clips, key : BOOLEAN]]
        /\ \A t \in Sessions \ {s} : recorder'[t] = recorder[t]
        /\ recorder'[s].clip = 0 /\ recorder[s].clip # 0 /\ s \notin wanted /\ wanted' = wanted
    BY <1>1, <1>7 DEF EndFile, NoFile
  <2>6. Closes(s, <<b>>)
    BY <1>3, <2>3, <2>5 DEF Closes
  <2> QED BY <1>1, <1>2, <1>3, <2>3, <2>4, <2>5, <2>6 DEF Step
<1>8. Unchanged(s) \/ OpenFile(s) \/ EndFile(s)
  BY DEF Packet
<1>9. OpenFile(s) => wanted' = wanted \/ wanted' = wanted \ {s}
  BY DEF OpenFile
<1> QED BY <1>4, <1>5, <1>6, <1>7, <1>8, <1>9

LEMMA StepIs ==
  ASSUME PlainTypes, FilesOpen, pc \in [Sessions -> Stages], NEW s \in Sessions, Worker(s)
  PROVE  \E n \in Seq(News) : Step(s, n)
<1> USE DEF Busy
<1>0. <<>> \in Seq(News) /\ (\A l \in 1..Len(<<>>) : ~Recording(<<>>[l]))
      /\ (\A x \in Seq(News) : <<>> \o x = x)
  OBVIOUS
<1>1. CASE Begin(s) \/ Opened(s) \/ OtherPacket(s) \/ NoPicture(s) \/ GiveUp(s)
  <2>1. UNCHANGED <<posts, saved, recPath, recorder, wanted>>
    BY <1>1 DEF Begin, Opened, OtherPacket, NoPicture, GiveUp, session
  <2>2. \A t \in Sessions \ {s} : pc'[t] = pc[t]
    BY <1>1 DEF Begin, Opened, OtherPacket, NoPicture, GiveUp, Goto
  <2>3. pc[s] \notin Busy \/ pc'[s] \in Busy
    BY <1>1 DEF Begin, Opened, OtherPacket, NoPicture, GiveUp, Goto
  <2> QED BY <1>0, <2>1, <2>2, <2>3, SilentTell, QuietStep
<1>2. CASE OpenFails(s) \/ OpenHopeless(s) \/ Reconnect(s) \/ Over(s)
  <2>1. UNCHANGED <<saved, recPath, recorder, wanted>>
    BY <1>2 DEF OpenFails, OpenHopeless, Reconnect, Over, session
  <2>2. \A t \in Sessions \ {s} : pc'[t] = pc[t]
    BY <1>2 DEF OpenFails, OpenHopeless, Reconnect, Over, Failed, Goto
  <2>3. pc[s] \notin Busy
    BY <1>2 DEF OpenFails, OpenHopeless, Reconnect, Over
  <2>4. UNCHANGED posts \/ \E x \in Shown : Tell(s, <<State(s, x)>>)
    BY <1>2 DEF OpenFails, OpenHopeless, Reconnect, Over, Shown
  <2>5. CASE UNCHANGED posts
    BY <1>0, <2>1, <2>2, <2>3, <2>5, SilentTell, QuietStep
  <2>6. ASSUME NEW x \in Shown, Tell(s, <<State(s, x)>>) PROVE \E n \in Seq(News) : Step(s, n)
    <3>1. State(s, x) \in News /\ ~Recording(State(s, x))
      BY NewsIs DEF Recording
    <3>2. \A y \in News : <<y>> \in Seq(News) /\ Len(<<y>>) = 1 /\ <<y>>[1] = y
      OBVIOUS
    <3>3. <<State(s, x)>> \in Seq(News) /\ \A l \in 1..Len(<<State(s, x)>>) : ~Recording(<<State(s, x)>>[l])
      BY <3>1, <3>2
    <3> QED BY <2>1, <2>2, <2>3, <2>6, <3>3, QuietStep
  <2> QED BY <2>4, <2>5, <2>6
<1>3. CASE Picture(s)
  <2>1. UNCHANGED <<saved, recPath, recorder, wanted>> /\ pc' = [pc EXCEPT ![s] = "loop"]
    BY <1>3 DEF Picture, Goto
  <2>2. \A t \in Sessions \ {s} : pc'[t] = pc[t]
    BY <2>1
  <2>3. pc'[s] \in Busy
    BY <2>1
  <2> DEFINE f == Frame(s)
  <2> DEFINE g == State(s, "Streaming")
  <2>4. f \in News /\ ~Recording(f) /\ g \in News /\ ~Recording(g)
    BY NewsIs DEF Recording, Shown
  <2>5. Tell(s, <<f>>) \/ Tell(s, <<f, g>>)
    BY <1>3 DEF Picture
  <2> HIDE DEF f, g
  <2>6. /\ <<f>> \in Seq(News) /\ \A l \in 1..Len(<<f>>) : ~Recording(<<f>>[l])
        /\ <<f, g>> \in Seq(News) /\ \A l \in 1..Len(<<f, g>>) : ~Recording(<<f, g>>[l])
    BY <2>4
  <2> QED BY <2>1, <2>2, <2>3, <2>5, <2>6, QuietStep
<1>4. CASE Loop(s)
  <2>1. UNCHANGED <<saved, recPath>> /\ (\A t \in Sessions \ {s} : pc'[t] = pc[t]) /\ pc[s] \in Busy
    BY <1>4 DEF Loop, Goto
  <2>2. CASE s \notin abort
    <3>1. UNCHANGED <<posts, recorder, wanted>> /\ pc'[s] \in Busy
      BY <1>4, <2>2 DEF Loop, Goto
    <3> QED BY <1>0, <2>1, <3>1, SilentTell, QuietStep
  <2>3. CASE s \in abort
    <3>1. Tell(s, <<>> \o Finalized(s)) /\ CloseFile(s)
      BY <1>0, <1>4, <2>3, FinalizedIs DEF Loop
    <3> QED BY <1>0, <2>1, <3>1, StepOfClose
  <2> QED BY <2>2, <2>3
<1>5. CASE EndOfStream(s)
  <2>1. /\ UNCHANGED <<saved, recPath>> /\ (\A t \in Sessions \ {s} : pc'[t] = pc[t])
        /\ pc[s] \in Busy /\ CloseFile(s)
    BY <1>5 DEF EndOfStream, Goto
  <2>2. Tell(s, <<>> \o Finalized(s))
    BY <1>0, <1>5, FinalizedIs DEF EndOfStream
  <2> QED BY <1>0, <2>1, <2>2, StepOfClose
<1>6. CASE ReadFails(s)
  <2>1. /\ UNCHANGED <<saved, recPath>> /\ (\A t \in Sessions \ {s} : pc'[t] = pc[t])
        /\ pc[s] \in Busy /\ CloseFile(s)
    BY <1>6 DEF ReadFails, Failed, Goto
  <2> DEFINE g == State(s, "Error")
  <2>2. Tell(s, <<g>> \o Finalized(s))
    BY <1>6 DEF ReadFails
  <2>3. g \in News /\ ~Recording(g)
    BY NewsIs DEF Recording, Shown
  <2> HIDE DEF g
  <2>4. <<g>> \in Seq(News) /\ \A l \in 1..Len(<<g>>) : ~Recording(<<g>>[l])
    BY <2>3
  <2> QED BY <2>1, <2>2, <2>4, StepOfClose
<1>7. CASE Packet(s)
  BY <1>7, StepOfPacket
<1> QED BY <1>1, <1>2, <1>3, <1>4, <1>5, <1>6, <1>7 DEF Worker

-----------------------------------------------------------------------------
(* Types                                                                   *)

TypesInv == SessionInv /\ RetryInv /\ PlainTypes /\ FilesOpen /\ ClipsKnown

LEMMA TypesInit == Init => TypesInv
<1> SUFFICES ASSUME Init PROVE TypesInv
  OBVIOUS
<1> USE StreamBounds
<1>1. PlainTypes
  <2>1. posts = <<>> /\ <<>> \in Seq(News) /\ Len(<<>>) = 0
    BY DEF Init
  <2>2. clips \in Clips /\ state \in Shown \cup {"Gone"} /\ recording \in BOOLEAN /\ screen \in 0..started
    <3>1. 0 \in Clips /\ 0 \in 0..0
      BY DEF Clips
    <3> QED BY <3>1 DEF Init, Shown, None
  <2>3. recPath \in [Sessions -> Clips] /\ frames \in [Sessions -> {"none", "some", "many"}]
    BY DEF Init, Clips
  <2>4. recorder \in [Sessions -> [clip : Clips, key : BOOLEAN]]
    BY DEF Init, Clips, NoFile
  <2>5. lastError = {} /\ wanted = {} /\ streaming = {} /\ saved = {}
    BY DEF Init
  <2> QED BY <2>1, <2>2, <2>3, <2>4, <2>5 DEF PlainTypes
<1>2. FilesOpen
  BY DEF Init, FilesOpen, NoFile
<1>3. ClipsKnown
  <2>1. Len(posts) = 0
    BY DEF Init
  <2> QED BY <2>1 DEF Init, ClipsKnown, NoFile
<1> QED BY <1>1, <1>2, <1>3, SessionInit, RetryInit DEF TypesInv

(* Where the session of a worker's step is, and what stays.                *)
LEMMA WorkerIsStarted ==
  ASSUME RetryInv, NEW s \in Sessions, Worker(s)
  PROVE  s \in 1..started
<1>1. pc[s] # "off"
  BY DEF Worker, Begin, OpenFails, OpenHopeless, Opened, Loop, EndOfStream, ReadFails, Packet,
         OtherPacket, NoPicture, Picture, GiveUp, Reconnect, Over
<1>2. ~(s > started)
  BY <1>1 DEF RetryInv, Books
<1> QED BY <1>2, StreamBounds DEF RetryInv, Sessions

LEMMA WorkerTypes ==
  ASSUME TypesInv, NEW s \in Sessions, Worker(s)
  PROVE  PlainTypes' /\ FilesOpen' /\ ClipsKnown'
<1>0. s \in 1..started /\ PlainTypes /\ FilesOpen /\ pc \in [Sessions -> Stages]
  BY WorkerIsStarted DEF TypesInv, RetryInv
<1>1. PICK n \in Seq(News) : Step(s, n)
  BY <1>0, StepIs
<1>2. UNCHANGED <<clips, state, recording, screen, started, saved, recPath>>
  BY <1>1, WorkerKeepsGui DEF gui, Step
<1>3. posts' \in Seq(News) /\ Len(posts') <= MaxPosts
  BY <1>0, <1>1, TellAdds DEF Step
<1>4. lastError' \subseteq lastError \cup {s} /\ streaming' \subseteq streaming \cup {s}
  <2>1. CASE Begin(s) \/ Opened(s) \/ OtherPacket(s) \/ NoPicture(s) \/ GiveUp(s) \/ Reconnect(s) \/ Over(s)
    BY <2>1 DEF Begin, Opened, OtherPacket, NoPicture, GiveUp, Reconnect, Over, Forgotten, session
  <2>2. CASE OpenFails(s) \/ OpenHopeless(s) \/ Loop(s) \/ EndOfStream(s) \/ ReadFails(s) \/ Packet(s) \/ Picture(s)
    BY <2>2 DEF OpenFails, OpenHopeless, Failed, Loop, EndOfStream, ReadFails, Packet, Picture
  <2> QED BY <2>1, <2>2 DEF Worker
<1>5. wanted' \subseteq wanted \cup {s}
  BY <1>1 DEF Step, Keeps, Closes, Opens, CannotOpen
<1>6. frames' \in [Sessions -> {"none", "some", "many"}]
  <2>1. frames \in [Sessions -> {"none", "some", "many"}]
    BY <1>0 DEF PlainTypes
  <2>2. frames' = frames \/ \E x \in {"none", "some", "many"} : frames' = [frames EXCEPT ![s] = x]
    <3>1. CASE Begin(s) \/ Opened(s) \/ OtherPacket(s) \/ NoPicture(s) \/ GiveUp(s) \/ Reconnect(s) \/ Over(s)
      BY <3>1 DEF Begin, Opened, OtherPacket, NoPicture, GiveUp, Reconnect, Over, Forgotten
    <3>2. CASE OpenFails(s) \/ OpenHopeless(s) \/ Loop(s) \/ EndOfStream(s) \/ ReadFails(s) \/ Packet(s)
      BY <3>2 DEF OpenFails, OpenHopeless, Loop, EndOfStream, ReadFails, Packet
    <3>3. CASE Picture(s)
      BY <3>3 DEF Picture
    <3> QED BY <3>1, <3>2, <3>3 DEF Worker
  <2> QED BY <2>1, <2>2
<1>7. recorder' \in [Sessions -> [clip : Clips, key : BOOLEAN]]
  BY <1>1 DEF Step
<1>8. PlainTypes'
  BY <1>0, <1>2, <1>3, <1>4, <1>5, <1>6, <1>7 DEF PlainTypes
<1>9. FilesOpen'
  <2>1. ASSUME NEW t \in Sessions, recorder'[t].clip # 0 PROVE pc'[t] \in Busy
    <3>1. CASE t # s
      BY <1>0, <1>1, <2>1, <3>1 DEF Step, FilesOpen
    <3>2. CASE t = s
      BY <1>1, <2>1, <3>2 DEF Step, Keeps, Closes, Opens, CannotOpen
    <3> QED BY <3>1, <3>2
  <2> QED BY <2>1 DEF FilesOpen
<1>10. ClipsKnown'
  <2>0. ClipsKnown /\ clips \in Nat /\ clips' = clips
    BY <1>0, <1>2 DEF TypesInv, PlainTypes, Clips
  <2>1. recPath[s] \in Clips /\ recPath[s] <= clips /\ recorder[s].clip <= clips
        /\ \A t \in Sessions : recPath'[t] <= clips
    BY <1>0, <1>2, <2>0 DEF PlainTypes, ClipsKnown
  <2>2. \A t \in Sessions : recorder'[t].clip <= clips
    <3>1. recorder'[s].clip \in {0, recPath[s], recorder[s].clip}
      BY <1>1 DEF Step, Keeps, Closes, Opens, CannotOpen
    <3>2. recorder'[s].clip <= clips
      BY <2>0, <2>1, <3>1
    <3>3. ASSUME NEW t \in Sessions \ {s} PROVE recorder'[t].clip <= clips
      BY <1>1, <2>0 DEF Step, ClipsKnown
    <3> QED BY <3>2, <3>3
  <2>3. \A l \in 1..Len(n) : Recording(n[l]) => n[l].clip <= clips
    <3>0. \A x, l : l \in 1..Len(<<x>>) => <<x>>[l] = x
      OBVIOUS
    <3>1. CASE Keeps(s, n) \/ Closes(s, n)
      BY <2>0, <2>1, <3>1 DEF Keeps, Closes
    <3>2. CASE Opens(s, n)
      <4>1. n = <<Recorded(s, TRUE, recPath[s])>> /\ Recorded(s, TRUE, recPath[s]).clip = recPath[s]
        BY <2>1, <3>2 DEF Opens, Recorded
      <4>2. Recorded(s, TRUE, recPath[s]).clip <= clips
        BY <2>1, <4>1
      <4>3. \A l \in 1..Len(n) : n[l] = Recorded(s, TRUE, recPath[s])
        BY <3>0, <4>1
      <4> QED BY <4>2, <4>3
    <3>3. CASE CannotOpen(s, n)
      <4>1. n = <<Recorded(s, FALSE, 0)>> /\ Recorded(s, FALSE, 0).clip = 0
        BY <3>3 DEF CannotOpen, Recorded
      <4>2. Recorded(s, FALSE, 0).clip <= clips
        <5>1. 0 <= clips
          BY <2>0
        <5> QED BY <4>1, <5>1, Zenon
      <4>3. \A l \in 1..Len(n) : n[l] = Recorded(s, FALSE, 0)
        BY <3>0, <4>1
      <4> QED BY <4>2, <4>3
    <3> QED BY <1>1, <3>1, <3>2, <3>3 DEF Step
  <2>4. ASSUME NEW k \in 1..Len(posts'), Recording(posts'[k]) PROVE posts'[k].clip <= clips
    <3>1. Tell(s, n)
      BY <1>1 DEF Step
    <3>2. CASE k \in 1..Len(posts)
      <4>1. posts'[k] = posts[k]
        BY <1>0, <3>1, <3>2, TellAdds
      <4> QED BY <2>0, <2>4, <3>2, <4>1 DEF ClipsKnown
    <3>3. CASE \E l \in 1..Len(n) : k = Len(posts) + l /\ posts'[k] = n[l]
      BY <2>3, <2>4, <3>3
    <3> QED BY <1>0, <3>1, <3>2, <3>3, TellAdds
  <2> QED BY <2>0, <2>1, <2>2, <2>4 DEF ClipsKnown
<1> QED BY <1>8, <1>9, <1>10

LEMMA TypesNext == TypesInv /\ [Next]_vars => TypesInv'
<1> SUFFICES ASSUME TypesInv, [Next]_vars PROVE TypesInv'
  OBVIOUS
<1>0. SessionInv' /\ RetryInv' /\ PlainTypes /\ FilesOpen /\ started \in Nat /\ cur \in 0..started
      /\ SessionInv /\ RetryInv /\ ClipsKnown /\ clips \in Nat
  BY SessionNext, RetryNext, StreamBounds DEF TypesInv, SessionInv, PlainTypes, Clips
<1> SUFFICES PlainTypes' /\ FilesOpen' /\ ClipsKnown'
  BY <1>0 DEF TypesInv
<1>1. ASSUME NEW k \in Kinds, Open(k) PROVE PlainTypes' /\ FilesOpen' /\ ClipsKnown'
  <2>1. /\ started' = started + 1 /\ started + 1 \in Sessions /\ state' \in Shown /\ recording' \in BOOLEAN
        /\ UNCHANGED <<screen, clips, posts, lastError, wanted, recPath, streaming, frames, recorder, saved>>
        /\ \A t \in Sessions \ {started + 1} : pc'[t] = pc[t]
    <3>1. recording' \in BOOLEAN
      BY <1>1, <1>0 DEF Open, PlainTypes
    <3> QED BY <1>1, <1>0, <3>1, StreamBounds DEF Open, Shown, Sessions
  <2>2. pc[started + 1] = "off"
    BY <1>0, <2>1 DEF RetryInv, Books
  <2>3. FilesOpen'
    BY <1>0, <2>1, <2>2 DEF FilesOpen, Busy
  <2> QED BY <1>0, <2>1, <2>3 DEF PlainTypes, ClipsKnown
<1>2. CASE Stop \/ Destroy
  <2>1. /\ UNCHANGED <<screen, started, clips, lastError, wanted, recPath, streaming, frames, recorder, saved, pc>>
        /\ state' \in Shown \cup {"Gone"} /\ recording' \in BOOLEAN
    <3>1. recording' = FALSE \/ recording' = recording
      BY <1>2 DEF Stop, Destroy
    <3>2. recording' \in BOOLEAN
      BY <1>0, <3>1 DEF PlainTypes
    <3> QED BY <1>2, <3>2 DEF Stop, Destroy, worker, Shown
  <2>2. posts' \in Seq(News) /\ Len(posts') <= MaxPosts
    <3>1. posts' = posts \/ posts' = <<>>
      BY <1>2 DEF Stop, Destroy
    <3>2. <<>> \in Seq(News) /\ Len(<<>>) <= MaxPosts
      BY StreamBounds
    <3> QED BY <1>0, <3>1, <3>2 DEF PlainTypes
  <2>3. ClipsKnown'
    <3>1. posts' = posts \/ posts' = <<>>
      BY <1>2 DEF Stop, Destroy
    <3>2. Len(<<>>) = 0
      OBVIOUS
    <3> QED BY <1>0, <2>1, <3>1, <3>2 DEF ClipsKnown
  <2> QED BY <1>0, <2>1, <2>2, <2>3 DEF PlainTypes, FilesOpen
<1>3. CASE StartRecording
  <2>1. /\ UNCHANGED <<cur, state, recording, screen, started, posts, lastError, streaming, frames, recorder, saved, pc>>
        /\ cur \in 1..started /\ cur \in Sessions /\ clips' = clips + 1 /\ clips + 1 \in Clips /\ clips \in Nat
        /\ recPath' = [recPath EXCEPT ![cur] = clips + 1] /\ wanted' = wanted \cup {cur}
    <3>1. clips \in Nat /\ clips < MaxClips /\ clips + 1 \in Clips
      BY <1>3, <1>0, StreamBounds DEF StartRecording, PlainTypes, Clips
    <3>2. cur \in 1..started /\ cur \in Sessions
      BY <1>3, <1>0, StreamBounds DEF StartRecording, SessionInv, Sessions, None
    <3> QED BY <1>3, <3>1, <3>2 DEF StartRecording, worker
  <2>2. recPath' \in [Sessions -> Clips]
    BY <1>0, <2>1 DEF PlainTypes
  <2>3. saved' \subseteq 1..clips' /\ wanted' \subseteq 1..started'
    BY <1>0, <2>1 DEF PlainTypes
  <2>4. ClipsKnown'
    <3>1. \A t \in Sessions : recPath[t] <= clips /\ recPath[t] \in Clips /\ recorder[t].clip <= clips
                             /\ recorder[t].clip \in Clips
      BY <1>0 DEF ClipsKnown, PlainTypes
    <3>2. \A t \in Sessions : recPath'[t] <= clips' /\ recorder'[t].clip <= clips'
      BY <1>0, <2>1, <3>1 DEF PlainTypes, Clips
    <3>3. ASSUME NEW k \in 1..Len(posts), Recording(posts[k]) PROVE posts[k].clip <= clips'
      BY <1>0, <2>1, <3>3, PostIs DEF ClipsKnown, Clips
    <3> QED BY <2>1, <3>2, <3>3 DEF ClipsKnown
  <2> QED BY <1>0, <2>1, <2>2, <2>3, <2>4 DEF PlainTypes, FilesOpen
<1>4. CASE StopRecording
  BY <1>0, <1>4 DEF StopRecording, gui, worker, PlainTypes, FilesOpen, ClipsKnown
<1>5. CASE Deliver
  <2>1. /\ UNCHANGED <<cur, started, clips, lastError, wanted, recPath, streaming, frames, recorder, pc>>
        /\ posts # <<>> /\ posts' = Tail(posts)
    BY <1>5 DEF Deliver, session, worker
  <2>2. posts' \in Seq(News) /\ Len(posts') <= MaxPosts /\ Head(posts) = posts[1] /\ 1 \in 1..Len(posts)
    <3>1. posts \in Seq(News) /\ Len(posts) <= MaxPosts
      BY <1>0 DEF PlainTypes
    <3> QED BY <2>1, <3>1, StreamBounds
  <2>3. /\ Head(posts).what = "state" => Head(posts).state \in Shown
        /\ Recording(Head(posts)) => Head(posts).on \in BOOLEAN /\ Head(posts).clip \in Clips
    BY <1>0, <2>2, PostIs
  <2>4. state' \in Shown \cup {"Gone"} /\ recording' \in BOOLEAN
    <3>1. state' = state \/ (Head(posts).what = "state" /\ state' = Head(posts).state)
      BY <1>5 DEF Deliver
    <3>2. recording' = recording \/ (Recording(Head(posts)) /\ recording' = Head(posts).on)
      BY <1>5 DEF Deliver, ApplyRecording, Recording
    <3>3. state' \in Shown \cup {"Gone"}
      BY <1>0, <2>3, <3>1 DEF PlainTypes
    <3>4. recording \in BOOLEAN
      BY <1>0 DEF PlainTypes
    <3>5. recording' \in BOOLEAN
      BY <2>3, <3>2, <3>4
    <3> QED BY <3>3, <3>5
  <2>5. screen' \in 0..started
    BY <1>0, <1>5 DEF Deliver, ApplyFrame, PlainTypes
  <2>6. ClipsKnown'
    <3>1. Len(posts') = Len(posts) - 1 /\ (\A k \in 1..Len(posts') : posts'[k] = posts[k + 1])
          /\ Len(posts) \in Nat
      BY <1>0, <2>1 DEF PlainTypes
    <3>2. ASSUME NEW k \in 1..Len(posts') PROVE Recording(posts'[k]) => posts'[k].clip <= clips
      <4>1. k + 1 \in 1..Len(posts) /\ posts'[k] = posts[k + 1]
        BY <3>1
      <4> QED BY <1>0, <4>1 DEF ClipsKnown
    <3> QED BY <1>0, <2>1, <3>2 DEF ClipsKnown
  <2>7. saved' \subseteq 1..clips
    <3>1. saved' = saved \/ (/\ Recording(Head(posts)) /\ Head(posts).clip # 0
                             /\ saved' = saved \cup {Head(posts).clip})
      BY <1>5 DEF Deliver, ApplyRecording, Recording
    <3>2. Recording(Head(posts)) /\ Head(posts).clip # 0 => Head(posts).clip \in 1..clips
      BY <1>0, <2>2, <2>3 DEF ClipsKnown, Clips
    <3> QED BY <1>0, <3>1, <3>2 DEF PlainTypes
  <2> QED BY <1>0, <2>1, <2>2, <2>4, <2>5, <2>6, <2>7 DEF PlainTypes, FilesOpen
<1>6. CASE ShowHeld
  <2>1. /\ UNCHANGED <<cur, state, recording, started, clips, posts, lastError, wanted, recPath,
                       streaming, frames, recorder, saved, pc>>
        /\ screen' \in {None, cur}
    BY <1>0, <1>6 DEF ShowHeld, SessionInv, session, worker
  <2>2. screen' \in 0..started
    BY <1>0, <2>1 DEF None
  <2> QED BY <1>0, <2>1, <2>2 DEF PlainTypes, FilesOpen, ClipsKnown
<1>7. ASSUME NEW s \in Sessions, Worker(s) PROVE PlainTypes' /\ FilesOpen' /\ ClipsKnown'
  BY <1>7, WorkerTypes
<1>8. CASE UNCHANGED vars
  BY <1>0, <1>8 DEF vars, gui, session, worker, PlainTypes, FilesOpen, ClipsKnown
<1> QED BY <1>1, <1>2, <1>3, <1>4, <1>5, <1>6, <1>7, <1>8 DEF Next, User

(* Every variable keeps its type and the queue its bound, for any number   *)
(* of sessions.                                                            *)
THEOREM TypesHold == Spec => []TypeOK
<1>1. TypesInv => TypeOK
  <2> SUFFICES ASSUME TypesInv PROVE TypeOK
    OBVIOUS
  <2>0. SessionInv /\ RetryInv /\ PlainTypes /\ started \in Nat /\ cur \in 0..started /\ held \in {0, cur}
    BY StreamBounds DEF TypesInv, SessionInv, None
  <2>1. tries \in [Sessions -> 0..Budget] /\ failures \in [Sessions -> Nat]
    BY <2>0 DEF RetryInv, Books
  <2>2. alive \subseteq 1..started /\ abort \subseteq 1..started
    BY <2>0 DEF SessionInv, OneStream, None
  <2>3. UNION {alive, abort, lastError, wanted, streaming} \subseteq 1..started
    BY <2>0, <2>2 DEF PlainTypes
  <2>4. {held, screen} \subseteq 0..started
    BY <2>0 DEF PlainTypes
  <2>5. cur \in 0..started /\ started \in 0..MaxSessions
    BY <2>0 DEF SessionInv
  <2> QED BY <2>0, <2>1, <2>3, <2>4, <2>5 DEF TypeOK, PlainTypes, RetryInv
<1> QED BY <1>1, TypesInit, TypesNext, PTL DEF Spec

-----------------------------------------------------------------------------
(* Recordings.  A session has a claim on the clip it writes or is to write *)
(* next.  Nobody else has it, and it was not announced: a clip is named    *)
(* once, and the claim ends with the file.                                 *)

Announced ==
  saved \cup {posts[k].clip : k \in {l \in 1..Len(posts) : Recording(posts[l]) /\ ~posts[l].on}}

Claims ==
  [s \in Sessions |-> IF recorder[s].clip # 0 THEN recorder[s].clip
                      ELSE IF s \in wanted THEN recPath[s] ELSE 0]

OneWriter ==
  \A s \in Sessions : Claims[s] # 0 =>
    Claims[s] \notin Announced /\ \A t \in Sessions \ {s} : Claims[t] # Claims[s]

(* The user sees that the current session writes a file.                   *)
RecordingSeen ==
  cur # None /\ recorder[cur].clip # 0 =>
    \/ recording /\ \A l \in 1..Len(posts) : ~Recording(posts[l])
    \/ \E k \in 1..Len(posts) :
         /\ Recording(posts[k]) /\ posts[k].on /\ posts[k].from = cur
         /\ \A l \in 1..Len(posts) : Recording(posts[l]) => l <= k

FilesInv == TypesInv /\ OneWriter /\ RecordingSeen

LEMMA FilesInit == Init => FilesInv
<1> SUFFICES ASSUME Init PROVE FilesInv
  OBVIOUS
<1>1. \A s \in Sessions : Claims[s] = 0
  BY DEF Init, Claims, NoFile
<1>2. cur = None
  BY DEF Init
<1> QED BY <1>1, <1>2, TypesInit DEF FilesInv, OneWriter, RecordingSeen

(* Nothing is claimed or announced that was not asked for.                 *)
LEMMA ClaimsBound ==
  ASSUME TypesInv
  PROVE  /\ clips \in Nat
         /\ \A s \in Sessions : Claims[s] \in 0..clips
         /\ Announced \subseteq 0..clips
<1>0. clips \in Nat /\ PlainTypes /\ ClipsKnown
  BY StreamBounds DEF TypesInv, PlainTypes, Clips
<1>1. ASSUME NEW s \in Sessions PROVE Claims[s] \in 0..clips
  <2>1. recorder[s].clip \in 0..clips /\ recPath[s] \in 0..clips
    BY <1>0 DEF PlainTypes, ClipsKnown, Clips
  <2> QED BY <1>0, <2>1 DEF Claims
<1>2. ASSUME NEW k \in 1..Len(posts), Recording(posts[k]) PROVE posts[k].clip \in 0..clips
  BY <1>0, <1>2, PostIs DEF ClipsKnown, Clips
<1>3. saved \subseteq 0..clips
  BY <1>0 DEF PlainTypes
<1> QED BY <1>0, <1>1, <1>2, <1>3 DEF Announced

(* Steps that only give claims up and announce nothing new.                *)
LEMMA ClaimsKept ==
  ASSUME OneWriter,
         \A s \in Sessions : Claims'[s] \in {0, Claims[s]},
         Announced' \subseteq Announced \cup {0}
  PROVE  OneWriter'
BY DEF OneWriter

LEMMA SameClaims ==
  ASSUME UNCHANGED <<recorder, wanted, recPath>>
  PROVE  Claims' = Claims
BY DEF Claims

(* What a worker's news announces.                                         *)
LEMMA TellAnnounces ==
  ASSUME PlainTypes, NEW s \in Sessions, NEW n \in Seq(News), Tell(s, n), saved' = saved,
         NEW X, \A l \in 1..Len(n) : Recording(n[l]) /\ ~n[l].on => n[l].clip \in X
  PROVE  Announced' \subseteq Announced \cup X
<1>1. ASSUME NEW k \in 1..Len(posts'), Recording(posts'[k]), ~posts'[k].on
      PROVE  posts'[k].clip \in Announced \cup X
  <2>1. CASE k \in 1..Len(posts)
    <3>1. posts'[k] = posts[k]
      BY <2>1, TellAdds
    <3>2. k \in {l \in 1..Len(posts) : Recording(posts[l]) /\ ~posts[l].on}
      BY <1>1, <2>1, <3>1
    <3> QED BY <3>1, <3>2 DEF Announced
  <2>2. CASE \E l \in 1..Len(n) : k = Len(posts) + l /\ posts'[k] = n[l]
    BY <1>1, <2>2
  <2> QED BY <2>1, <2>2, TellAdds
<1>2. saved' \subseteq Announced
  BY DEF Announced
<1> QED BY <1>1, <1>2 DEF Announced

LEMMA WorkerClaims ==
  ASSUME TypesInv, OneWriter, NEW s \in Sessions, Worker(s)
  PROVE  OneWriter'
<1>0. PlainTypes /\ FilesOpen /\ pc \in [Sessions -> Stages]
  BY DEF TypesInv, RetryInv
<1>1. PICK n \in Seq(News) : Step(s, n)
  BY <1>0, StepIs
<1>2. /\ Tell(s, n) /\ saved' = saved /\ recPath' = recPath
      /\ \A t \in Sessions \ {s} : recorder'[t] = recorder[t]
  BY <1>1 DEF Step
<1>3. ASSUME \A t \in Sessions \ {s} : t \in wanted' <=> t \in wanted
      PROVE  \A t \in Sessions \ {s} : Claims'[t] = Claims[t]
  BY <1>2, <1>3 DEF Claims
<1>4. CASE Keeps(s, n)
  <2>1. wanted' = wanted /\ recorder'[s].clip = recorder[s].clip
        /\ \A l \in 1..Len(n) : Recording(n[l]) /\ ~n[l].on => n[l].clip \in {}
    BY <1>4 DEF Keeps
  <2>2. Announced' \subseteq Announced
    BY <1>0, <1>2, <2>1, TellAnnounces
  <2>3. Claims'[s] = Claims[s]
    BY <1>2, <2>1 DEF Claims
  <2>4. \A t \in Sessions : Claims'[t] \in {0, Claims[t]}
    BY <1>3, <2>1, <2>3
  <2> QED BY <2>2, <2>4, ClaimsKept
<1>5. CASE Closes(s, n)
  <2>1. recorder'[s].clip = 0 /\ s \notin wanted' /\ wanted' \cup {s} = wanted \cup {s}
        /\ recorder[s].clip # 0
        /\ \A l \in 1..Len(n) : Recording(n[l]) /\ ~n[l].on => n[l].clip \in {0, recorder[s].clip}
    BY <1>5 DEF Closes
  <2>2. Announced' \subseteq Announced \cup {0, recorder[s].clip}
    BY <1>0, <1>2, <2>1, TellAnnounces
  <2>3. Claims'[s] = 0 /\ Claims[s] = recorder[s].clip
    BY <2>1 DEF Claims
  <2>4. \A t \in Sessions \ {s} : Claims'[t] = Claims[t]
    BY <1>3, <2>1
  <2> QED BY <2>1, <2>2, <2>3, <2>4 DEF OneWriter
<1>6. CASE Opens(s, n)
  <2>1. wanted' = wanted /\ s \in wanted /\ recorder[s].clip = 0 /\ recorder'[s].clip = recPath[s]
    BY <1>6 DEF Opens
  <2>2. \A l \in 1..Len(n) : Recording(n[l]) /\ ~n[l].on => n[l].clip \in {}
    <3>1. \A x, l : l \in 1..Len(<<x>>) => <<x>>[l] = x
      OBVIOUS
    <3>2. Recorded(s, TRUE, recPath[s]).on
      BY DEF Recorded
    <3>3. \A l \in 1..Len(n) : n[l] = Recorded(s, TRUE, recPath[s])
      BY <1>6, <3>1 DEF Opens
    <3> QED BY <3>2, <3>3
  <2>3. Announced' \subseteq Announced
    BY <1>0, <1>2, <2>2, TellAnnounces
  <2>4. Claims'[s] = Claims[s]
    BY <1>2, <2>1 DEF Claims
  <2>5. \A t \in Sessions : Claims'[t] \in {0, Claims[t]}
    BY <1>3, <2>1, <2>4
  <2> QED BY <2>3, <2>5, ClaimsKept
<1>7. CASE CannotOpen(s, n)
  <2>1. wanted' = wanted \ {s} /\ recorder'[s].clip = 0
    BY <1>7 DEF CannotOpen
  <2>2. \A l \in 1..Len(n) : Recording(n[l]) /\ ~n[l].on => n[l].clip \in {0}
    <3>1. \A x, l : l \in 1..Len(<<x>>) => <<x>>[l] = x
      OBVIOUS
    <3>2. Recorded(s, FALSE, 0).clip = 0
      BY DEF Recorded
    <3>3. \A l \in 1..Len(n) : n[l] = Recorded(s, FALSE, 0)
      BY <1>7, <3>1 DEF CannotOpen
    <3> QED BY <3>2, <3>3
  <2>3. Announced' \subseteq Announced \cup {0}
    BY <1>0, <1>2, <2>2, TellAnnounces
  <2>4. Claims'[s] = 0
    BY <2>1 DEF Claims
  <2>5. \A t \in Sessions : Claims'[t] \in {0, Claims[t]}
    BY <1>3, <2>1, <2>4
  <2> QED BY <2>3, <2>5, ClaimsKept
<1> QED BY <1>1, <1>4, <1>5, <1>6, <1>7 DEF Step

(* The other steps give claims up, but for StartRecording(), which makes   *)
(* one on a clip nobody has named.                                         *)
LEMMA OneWriterNext == TypesInv /\ OneWriter /\ [Next]_vars => OneWriter'
<1> SUFFICES ASSUME TypesInv, OneWriter, [Next]_vars PROVE OneWriter'
  OBVIOUS
<1>0. PlainTypes /\ SessionInv /\ clips \in Nat /\ Announced \subseteq 0..clips
      /\ \A s \in Sessions : Claims[s] \in 0..clips
  BY ClaimsBound DEF TypesInv
<1>1. ASSUME UNCHANGED <<recorder, wanted, recPath, saved>>, posts' = posts \/ posts' = <<>>
      PROVE  OneWriter'
  <2>1. Claims' = Claims
    BY <1>1, SameClaims
  <2>2. Len(<<>>) = 0
    OBVIOUS
  <2>3. Announced' \subseteq Announced
    BY <1>1, <2>2 DEF Announced
  <2> QED BY <2>1, <2>3, ClaimsKept
<1>2. CASE \E k \in Kinds : Open(k)
  BY <1>1, <1>2 DEF Open
<1>3. CASE Stop \/ Destroy
  BY <1>1, <1>3 DEF Stop, Destroy, worker
<1>4. CASE StartRecording
  <2>1. /\ UNCHANGED <<recorder, posts, saved>> /\ cur \in Sessions
        /\ recPath' = [recPath EXCEPT ![cur] = clips + 1] /\ wanted' = wanted \cup {cur}
        /\ recPath \in [Sessions -> Clips]
    BY <1>0, <1>4, StreamBounds DEF StartRecording, worker, SessionInv, Sessions, None, PlainTypes
  <2>2. Announced' = Announced
    BY <2>1 DEF Announced
  <2>3. \A s \in Sessions \ {cur} : Claims'[s] = Claims[s]
    BY <2>1 DEF Claims
  <2>4. Claims'[cur] = Claims[cur] \/ Claims'[cur] = clips + 1
    BY <2>1 DEF Claims
  <2>5. CASE Claims'[cur] = Claims[cur]
    BY <2>2, <2>3, <2>5 DEF OneWriter
  <2>6. CASE Claims'[cur] = clips + 1
    <3>1. clips + 1 \notin Announced /\ \A s \in Sessions : Claims[s] # clips + 1
      BY <1>0
    <3> QED BY <2>1, <2>2, <2>3, <2>6, <3>1 DEF OneWriter
  <2> QED BY <2>4, <2>5, <2>6
<1>5. CASE StopRecording
  <2>1. UNCHANGED <<recorder, posts, saved, recPath>> /\ wanted' = wanted \ {cur}
    BY <1>5 DEF StopRecording, worker
  <2>2. \A s \in Sessions : Claims'[s] \in {0, Claims[s]}
    BY <2>1 DEF Claims
  <2>3. Announced' = Announced
    BY <2>1 DEF Announced
  <2> QED BY <2>2, <2>3, ClaimsKept
<1>6. CASE Deliver
  <2>1. UNCHANGED <<recorder, wanted, recPath>> /\ posts # <<>> /\ posts' = Tail(posts)
    BY <1>6 DEF Deliver, session, worker
  <2>2. /\ Len(posts') = Len(posts) - 1 /\ Len(posts) \in Nat /\ Head(posts) = posts[1]
        /\ 1 \in 1..Len(posts) /\ \A k \in 1..Len(posts') : posts'[k] = posts[k + 1]
    BY <1>0, <2>1 DEF PlainTypes
  <2>3. saved' \subseteq Announced
    <3>1. saved' = saved \/ (/\ Recording(Head(posts)) /\ ~Head(posts).on
                             /\ saved' = saved \cup {Head(posts).clip})
      BY <1>6 DEF Deliver, ApplyRecording, Recording
    <3> QED BY <2>2, <3>1 DEF Announced
  <2>4. ASSUME NEW k \in 1..Len(posts'), Recording(posts'[k]), ~posts'[k].on
        PROVE  posts'[k].clip \in Announced
    <3>1. k + 1 \in 1..Len(posts) /\ posts'[k] = posts[k + 1]
      BY <2>2
    <3>2. k + 1 \in {l \in 1..Len(posts) : Recording(posts[l]) /\ ~posts[l].on}
      BY <2>4, <3>1
    <3> QED BY <3>1, <3>2 DEF Announced
  <2>5. Announced' \subseteq Announced
    BY <2>3, <2>4 DEF Announced
  <2>6. Claims' = Claims
    BY <2>1, SameClaims
  <2> QED BY <2>5, <2>6, ClaimsKept
<1>7. CASE ShowHeld
  BY <1>1, <1>7 DEF ShowHeld, session, worker
<1>8. ASSUME NEW s \in Sessions, Worker(s) PROVE OneWriter'
  BY <1>8, WorkerClaims
<1>9. CASE UNCHANGED vars
  BY <1>1, <1>9 DEF vars, session, worker
<1> QED BY <1>2, <1>3, <1>4, <1>5, <1>6, <1>7, <1>8, <1>9 DEF Next, User

(* What the delivery of the head does to the rest of the queue.            *)
LEMMA TailIs ==
  ASSUME PlainTypes, Deliver
  PROVE  /\ Len(posts) \in Nat /\ 1 \in 1..Len(posts) /\ Head(posts) = posts[1]
         /\ Len(posts') = Len(posts) - 1
         /\ \A k \in 1..Len(posts') : k + 1 \in 1..Len(posts) /\ posts'[k] = posts[k + 1]
         /\ \A k \in 1..Len(posts) : k # 1 => k - 1 \in 1..Len(posts') /\ posts'[k - 1] = posts[k]
<1>1. posts \in Seq(News) /\ posts # <<>> /\ posts' = Tail(posts)
  BY DEF PlainTypes, Deliver
<1>2. /\ Len(posts) \in Nat /\ 1 \in 1..Len(posts) /\ Head(posts) = posts[1]
      /\ Len(posts') = Len(posts) - 1
      /\ \A k \in 1..Len(posts') : posts'[k] = posts[k + 1]
  BY <1>1
<1>3. \A k \in 1..Len(posts) : k # 1 => k - 1 \in 1..Len(posts') /\ (k - 1) + 1 = k
  BY <1>2
<1>4. \A k \in 1..Len(posts) : k # 1 => k - 1 \in 1..Len(posts') /\ posts'[k - 1] = posts[k]
  BY <1>2, <1>3
<1>5. \A k \in 1..Len(posts') : k + 1 \in 1..Len(posts)
  BY <1>2
<1> QED BY <1>2, <1>4, <1>5

LEMMA WorkerSeen ==
  ASSUME FilesInv, NEW s \in Sessions, Worker(s)
  PROVE  RecordingSeen'
<1>0. PlainTypes /\ FilesOpen /\ pc \in [Sessions -> Stages] /\ SessionInv /\ RecordingSeen
      /\ started \in Nat /\ cur \in 0..started
  BY DEF FilesInv, TypesInv, RetryInv, SessionInv
<1>1. PICK n \in Seq(News) : Step(s, n)
  BY <1>0, StepIs
<1>2. cur' = cur /\ recording' = recording /\ Tell(s, n)
  BY <1>1, WorkerKeepsGui DEF gui, Step
<1> SUFFICES ASSUME cur # None, recorder'[cur].clip # 0
             PROVE  \/ recording' /\ \A l \in 1..Len(posts') : ~Recording(posts'[l])
                    \/ \E k \in 1..Len(posts') :
                         /\ Recording(posts'[k]) /\ posts'[k].on /\ posts'[k].from = cur
                         /\ \A l \in 1..Len(posts') : Recording(posts'[l]) => l <= k
  BY <1>2 DEF RecordingSeen
<1>3. cur \in Sessions /\ alive = {cur}
  BY <1>0, StreamBounds DEF SessionInv, OneStream, Sessions, None
<1>4. CASE s # cur
  <2>1. posts' = posts
    BY <1>0, <1>2, <1>3, <1>4, TellAdds
  <2>2. recorder[cur].clip # 0
    BY <1>1, <1>3, <1>4 DEF Step
  <2> QED BY <1>0, <1>2, <2>1, <2>2 DEF RecordingSeen
<1>5. CASE s = cur
  <2>0. /\ Len(posts') = Len(posts) + Len(n) /\ Len(posts) \in Nat /\ Len(n) \in Nat
        /\ \A k \in 1..Len(posts) : posts'[k] = posts[k]
        /\ \A l \in 1..Len(n) : posts'[Len(posts) + l] = n[l]
        /\ \A k \in 1..Len(posts') : \/ k \in 1..Len(posts)
                                     \/ \E l \in 1..Len(n) : k = Len(posts) + l /\ posts'[k] = n[l]
    BY <1>0, <1>2, <1>3, <1>5, TellAdds
  <2>1. CASE Keeps(s, n)
    <3>1. recorder[cur].clip # 0 /\ \A l \in 1..Len(n) : ~Recording(n[l])
      BY <1>5, <2>1 DEF Keeps
    <3>2. \A k \in 1..Len(posts') : Recording(posts'[k]) => k \in 1..Len(posts) /\ Recording(posts[k])
      BY <2>0, <3>1
    <3>3. CASE recording /\ \A l \in 1..Len(posts) : ~Recording(posts[l])
      BY <1>2, <3>2, <3>3
    <3>4. CASE \E k \in 1..Len(posts) :
                 /\ Recording(posts[k]) /\ posts[k].on /\ posts[k].from = cur
                 /\ \A l \in 1..Len(posts) : Recording(posts[l]) => l <= k
      <4>1. PICK k \in 1..Len(posts) :
                 /\ Recording(posts[k]) /\ posts[k].on /\ posts[k].from = cur
                 /\ \A l \in 1..Len(posts) : Recording(posts[l]) => l <= k
        BY <3>4
      <4>2. k \in 1..Len(posts') /\ posts'[k] = posts[k]
        BY <2>0
      <4> QED BY <3>2, <4>1, <4>2
    <3> QED BY <1>0, <3>1, <3>3, <3>4 DEF RecordingSeen
  <2>2. CASE Opens(s, n)
    <3>1. \A x : Len(<<x>>) = 1 /\ <<x>>[1] = x
      OBVIOUS
    <3>2. Len(n) = 1 /\ n[1] = Recorded(s, TRUE, recPath[s])
      BY <2>2, <3>1 DEF Opens
    <3>3. Recording(n[1]) /\ n[1].on /\ n[1].from = cur
      BY <1>5, <3>2 DEF Recorded, Recording
    <3>4. Len(posts) + 1 \in 1..Len(posts') /\ posts'[Len(posts) + 1] = n[1]
      <4>1. 1 \in 1..Len(n) /\ Len(posts) + 1 \in 1..Len(posts')
        BY <2>0, <3>2
      <4>2. \A l \in 1..Len(n) : posts'[Len(posts) + l] = n[l]
        BY <2>0
      <4> QED BY <4>1, <4>2
    <3>5. \A l \in 1..Len(posts') : l <= Len(posts) + 1
      BY <2>0, <3>2
    <3> QED BY <3>3, <3>4, <3>5
  <2>3. CASE Closes(s, n) \/ CannotOpen(s, n)
    BY <1>5, <2>3 DEF Closes, CannotOpen
  <2> QED BY <1>1, <2>1, <2>2, <2>3 DEF Step
<1> QED BY <1>4, <1>5

LEMMA SeenNext == FilesInv /\ [Next]_vars => RecordingSeen'
<1> SUFFICES ASSUME FilesInv, [Next]_vars PROVE RecordingSeen'
  OBVIOUS
<1>0. PlainTypes /\ FilesOpen /\ RetryInv /\ SessionInv /\ RecordingSeen
      /\ started \in Nat /\ cur \in 0..started
  BY DEF FilesInv, TypesInv, RetryInv, SessionInv
<1>1. ASSUME UNCHANGED <<cur, recording, recorder, posts>> PROVE RecordingSeen'
  BY <1>0, <1>1 DEF RecordingSeen
<1>2. ASSUME NEW k \in Kinds, Open(k) PROVE RecordingSeen'
  <2>1. cur' = started + 1 /\ started + 1 \in Sessions /\ recorder' = recorder
    BY <1>0, <1>2, StreamBounds DEF Open, Sessions
  <2>2. pc[started + 1] = "off"
    BY <1>0, <2>1 DEF RetryInv, Books
  <2>3. recorder[started + 1].clip = 0
    BY <1>0, <2>1, <2>2 DEF FilesOpen, Busy
  <2> QED BY <2>1, <2>3 DEF RecordingSeen
<1>3. CASE Stop \/ Destroy
  <2>1. cur' = None
    BY <1>3 DEF Stop, Destroy
  <2> QED BY <2>1 DEF RecordingSeen
<1>4. CASE StartRecording \/ StopRecording
  BY <1>1, <1>4 DEF StartRecording, StopRecording, gui, worker
<1>5. CASE Deliver
  <2>1. cur' = cur /\ recorder' = recorder
    BY <1>5 DEF Deliver, worker
  <2> SUFFICES ASSUME cur # None, recorder[cur].clip # 0
               PROVE  \/ recording' /\ \A l \in 1..Len(posts') : ~Recording(posts'[l])
                      \/ \E k \in 1..Len(posts') :
                           /\ Recording(posts'[k]) /\ posts'[k].on /\ posts'[k].from = cur
                           /\ \A l \in 1..Len(posts') : Recording(posts'[l]) => l <= k
    BY <2>1 DEF RecordingSeen
  <2>2. /\ Len(posts) \in Nat /\ 1 \in 1..Len(posts) /\ Head(posts) = posts[1]
        /\ Len(posts') = Len(posts) - 1
        /\ \A k \in 1..Len(posts') : k + 1 \in 1..Len(posts) /\ posts'[k] = posts[k + 1]
        /\ \A k \in 1..Len(posts) : k # 1 => k - 1 \in 1..Len(posts') /\ posts'[k - 1] = posts[k]
    BY <1>0, <1>5, TailIs
  <2>3. ~Recording(posts[1]) => recording' = recording
    BY <1>5, <2>2 DEF Deliver, Recording
  <2>4. Recording(posts[1]) => recording' = posts[1].on
    BY <1>5, <2>2 DEF Deliver, Recording, ApplyRecording
  <2>5. CASE recording /\ \A l \in 1..Len(posts) : ~Recording(posts[l])
    BY <2>2, <2>3, <2>5
  <2>6. CASE \E k \in 1..Len(posts) :
               /\ Recording(posts[k]) /\ posts[k].on /\ posts[k].from = cur
               /\ \A l \in 1..Len(posts) : Recording(posts[l]) => l <= k
    <3>1. PICK k \in 1..Len(posts) :
               /\ Recording(posts[k]) /\ posts[k].on /\ posts[k].from = cur
               /\ \A l \in 1..Len(posts) : Recording(posts[l]) => l <= k
      BY <2>6
    <3>2. \A l \in 1..Len(posts') : Recording(posts'[l]) => l + 1 <= k
      BY <2>2, <3>1
    <3>3. CASE k = 1
      <4>1. recording'
        BY <2>4, <3>1, <3>3
      <4>2. \A l \in 1..Len(posts') : ~Recording(posts'[l])
        <5>1. \A l \in 1..Len(posts') : ~(l + 1 <= 1)
          BY <2>2
        <5> QED BY <3>2, <3>3, <5>1
      <4> QED BY <4>1, <4>2
    <3>4. CASE k # 1
      <4>1. k - 1 \in 1..Len(posts') /\ posts'[k - 1] = posts[k]
        BY <2>2, <3>4
      <4>2. \A l \in 1..Len(posts') : Recording(posts'[l]) => l <= k - 1
        BY <2>2, <3>2
      <4> QED BY <3>1, <4>1, <4>2
    <3> QED BY <3>3, <3>4
  <2> QED BY <1>0, <2>5, <2>6 DEF RecordingSeen
<1>6. CASE ShowHeld
  BY <1>1, <1>6 DEF ShowHeld, worker
<1>7. ASSUME NEW s \in Sessions, Worker(s) PROVE RecordingSeen'
  BY <1>7, WorkerSeen
<1>8. CASE UNCHANGED vars
  BY <1>1, <1>8 DEF vars, gui, worker
<1> QED BY <1>2, <1>3, <1>4, <1>5, <1>6, <1>7, <1>8 DEF Next, User

(* A file is finalized before its worker waits, reconnects or ends, no     *)
(* clip is announced while anybody writes it, and the user sees that a     *)
(* recording runs (finalizeRecording(), applyRecordingState()).            *)
THEOREM RecordingsArrive == Spec => []RecordingsAreInOrder
<1>1. FilesInv /\ [Next]_vars => FilesInv'
  BY TypesNext, OneWriterNext, SeenNext DEF FilesInv
<1>2. FilesInv => RecordingsAreInOrder
  <2> SUFFICES ASSUME FilesInv PROVE RecordingsAreInOrder
    OBVIOUS
  <2>1. ASSUME NEW s \in Sessions, recorder[s].clip # 0
        PROVE  pc[s] \notin {"off", "over", "done"} /\ recorder[s].clip \notin saved
    <3>1. Claims[s] = recorder[s].clip
      BY <2>1 DEF Claims
    <3> QED BY <2>1, <3>1 DEF FilesInv, TypesInv, FilesOpen, Busy, OneWriter, Announced
  <2>2. ASSUME cur # None, recorder[cur].clip # 0
        PROVE  LET news == {k \in 1..Len(posts) : posts[k].what = "recording" /\ posts[k].from = cur} IN
                 \/ news = {} /\ recording
                 \/ \E k \in news : posts[k].on /\ \A l \in news : l <= k
    BY <2>2 DEF FilesInv, RecordingSeen, Recording
  <2> QED BY <2>1, <2>2 DEF RecordingsAreInOrder
<1> QED BY <1>1, <1>2, FilesInit, PTL DEF Spec

-----------------------------------------------------------------------------
(* The end of a worker.  Its news is the last of a state, on its way or    *)
(* delivered.                                                              *)

OfState(p) == p.what = "state"

EndSeen ==
  cur # None /\ pc[cur] = "done" =>
    \/ state = "Stopped" /\ \A l \in 1..Len(posts) : ~OfState(posts[l])
    \/ \E k \in 1..Len(posts) :
         /\ posts[k] = State(cur, "Stopped")
         /\ \A l \in 1..Len(posts) : OfState(posts[l]) => l <= k

LEMMA EndSeenNext == TypesInv /\ EndSeen /\ [Next]_vars => EndSeen'
<1> SUFFICES ASSUME TypesInv, EndSeen, [Next]_vars PROVE EndSeen'
  OBVIOUS
<1>0. PlainTypes /\ SessionInv /\ pc \in [Sessions -> Stages] /\ started \in Nat /\ cur \in 0..started
  BY DEF TypesInv, RetryInv, SessionInv
<1>1. ASSUME UNCHANGED <<cur, state, pc, posts>> PROVE EndSeen'
  BY <1>1 DEF EndSeen
<1>2. ASSUME NEW k \in Kinds, Open(k) PROVE EndSeen'
  <2>1. cur' = started + 1 /\ started + 1 \in Sessions /\ pc'[started + 1] = "begin"
    BY <1>0, <1>2, StreamBounds DEF Open, Sessions
  <2> QED BY <2>1 DEF EndSeen
<1>3. CASE Stop \/ Destroy
  <2>1. cur' = None
    BY <1>3 DEF Stop, Destroy
  <2> QED BY <2>1 DEF EndSeen
<1>4. CASE StartRecording \/ StopRecording
  BY <1>1, <1>4 DEF StartRecording, StopRecording, gui, worker
<1>5. CASE Deliver
  <2>1. cur' = cur /\ pc' = pc
    BY <1>5 DEF Deliver, worker
  <2> SUFFICES ASSUME cur # None, pc[cur] = "done"
               PROVE  \/ state' = "Stopped" /\ \A l \in 1..Len(posts') : ~OfState(posts'[l])
                      \/ \E k \in 1..Len(posts') :
                           /\ posts'[k] = State(cur, "Stopped")
                           /\ \A l \in 1..Len(posts') : OfState(posts'[l]) => l <= k
    BY <2>1 DEF EndSeen
  <2>2. /\ Len(posts) \in Nat /\ 1 \in 1..Len(posts) /\ Head(posts) = posts[1]
        /\ Len(posts') = Len(posts) - 1
        /\ \A k \in 1..Len(posts') : k + 1 \in 1..Len(posts) /\ posts'[k] = posts[k + 1]
        /\ \A k \in 1..Len(posts) : k # 1 => k - 1 \in 1..Len(posts') /\ posts'[k - 1] = posts[k]
    BY <1>0, <1>5, TailIs
  <2>3. /\ ~OfState(posts[1]) => state' = state
        /\ OfState(posts[1]) => state' = posts[1].state
    BY <1>5, <2>2 DEF Deliver, OfState
  <2>4. CASE state = "Stopped" /\ \A l \in 1..Len(posts) : ~OfState(posts[l])
    BY <2>2, <2>3, <2>4
  <2>5. ASSUME NEW k \in 1..Len(posts), posts[k] = State(cur, "Stopped"),
               \A l \in 1..Len(posts) : OfState(posts[l]) => l <= k
        PROVE  \/ state' = "Stopped" /\ \A l \in 1..Len(posts') : ~OfState(posts'[l])
               \/ \E j \in 1..Len(posts') :
                    /\ posts'[j] = State(cur, "Stopped")
                    /\ \A l \in 1..Len(posts') : OfState(posts'[l]) => l <= j
    <3>1. \A l \in 1..Len(posts') : OfState(posts'[l]) => l + 1 <= k
      BY <2>2, <2>5
    <3>2. CASE k = 1
      <4>1. OfState(posts[1]) /\ posts[1].state = "Stopped"
        BY <2>5, <3>2 DEF OfState, State
      <4>2. \A l \in 1..Len(posts') : ~(l + 1 <= 1)
        BY <2>2
      <4> QED BY <2>3, <3>1, <3>2, <4>1, <4>2
    <3>3. CASE k # 1
      <4>1. k - 1 \in 1..Len(posts') /\ posts'[k - 1] = posts[k]
        BY <2>2, <3>3
      <4>2. \A l \in 1..Len(posts') : OfState(posts'[l]) => l <= k - 1
        BY <2>2, <3>1
      <4> QED BY <2>5, <4>1, <4>2
    <3> QED BY <3>2, <3>3
  <2> QED BY <2>4, <2>5 DEF EndSeen
<1>6. CASE ShowHeld
  BY <1>1, <1>6 DEF ShowHeld, worker
<1>7. ASSUME NEW s \in Sessions, Worker(s) PROVE EndSeen'
  <2>1. PICK n \in Seq(News) : Step(s, n)
    BY <1>0, <1>7, StepIs DEF TypesInv
  <2>2. cur' = cur /\ state' = state /\ Tell(s, n) /\ \A t \in Sessions \ {s} : pc'[t] = pc[t]
    BY <1>7, <2>1, WorkerKeepsGui DEF gui, Step
  <2> SUFFICES ASSUME cur # None, pc'[cur] = "done"
               PROVE  \/ state = "Stopped" /\ \A l \in 1..Len(posts') : ~OfState(posts'[l])
                      \/ \E k \in 1..Len(posts') :
                           /\ posts'[k] = State(cur, "Stopped")
                           /\ \A l \in 1..Len(posts') : OfState(posts'[l]) => l <= k
    BY <2>2 DEF EndSeen
  <2>3. cur \in Sessions /\ alive = {cur} /\ cur \notin abort
    BY <1>0, StreamBounds DEF SessionInv, OneStream, Sessions, None
  <2>4. CASE s # cur
    <3>1. posts' = posts
      BY <1>0, <2>2, <2>3, <2>4, TellAdds
    <3> QED BY <2>2, <2>3, <2>4, <3>1 DEF EndSeen
  <2>5. CASE s = cur
    <3>1. Over(s)
      BY <1>0, <1>7, <2>3, <2>5
      DEF Goto, Failed, Worker, Begin, OpenFails, OpenHopeless, Opened, Loop, EndOfStream, ReadFails,
          Packet, OtherPacket, NoPicture, Picture, GiveUp, Reconnect
    <3> DEFINE b == State(cur, "Stopped")
    <3>2. Tell(s, <<b>>)
      BY <2>3, <2>5, <3>1 DEF Over
    <3>3. b \in News
      BY <2>3, NewsIs DEF Shown
    <3> HIDE DEF b
    <3>4. <<b>> \in Seq(News) /\ Len(<<b>>) = 1 /\ <<b>>[1] = b
      BY <3>3
    <3> DEFINE m == <<b>>
    <3>5. /\ Len(posts') = Len(posts) + 1 /\ Len(posts) \in Nat
          /\ posts'[Len(posts) + 1] = b
      <4>1. m \in Seq(News) /\ Tell(cur, m) /\ cur \in alive /\ Len(m) = 1 /\ m[1] = b /\ 1 \in 1..Len(m)
        BY <2>3, <2>5, <3>2, <3>4
      <4> HIDE DEF m
      <4>2. /\ Len(posts') = Len(posts) + Len(m) /\ Len(posts) \in Nat
            /\ \A l \in 1..Len(m) : posts'[Len(posts) + l] = m[l]
        BY <1>0, <2>3, <4>1, TellAdds
      <4> QED BY <4>1, <4>2
    <3>6. Len(posts) + 1 \in 1..Len(posts') /\ \A l \in 1..Len(posts') : l <= Len(posts) + 1
      BY <3>5
    <3> QED BY <3>5, <3>6 DEF b
  <2> QED BY <2>4, <2>5
<1>8. CASE UNCHANGED vars
  BY <1>1, <1>8 DEF vars, gui, worker
<1> QED BY <1>2, <1>3, <1>4, <1>5, <1>6, <1>7, <1>8 DEF Next, User

(* A worker that ends by itself is shown as stopped, or that news is on    *)
(* its way; no late call of an earlier session covers it (runWorker()).    *)
THEOREM TheEndIsSeen == Spec => []EndIsShown
<1>1. Init => EndSeen
  BY DEF Init, EndSeen
<1>2. EndSeen => EndIsShown
  BY DEF EndSeen, EndIsShown
<1> QED BY <1>1, <1>2, TypesInit, TypesNext, EndSeenNext, PTL DEF Spec
=============================================================================
