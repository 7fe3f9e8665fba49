-------------------------- MODULE DeviceHostProofs --------------------------
(***************************************************************************)
(* For every number of channels, passwords, user actions and changes of    *)
(* the device: a host is validated by one worker at a time, a host that    *)
(* waiting may cure is always tried again, and the validations between two *)
(* acts of the user cost at most one rejected login.                       *)
(***************************************************************************)
EXTENDS DeviceHostProps, TLAPS

Jobs == {Off} \cup [pc : {"store", "call"}, pw : Words, store : BOOLEAN]

Types ==
  /\ posts \in Seq(Results) /\ val \in Jobs
  /\ cams \subseteq Channels /\ keyring \in Words
  /\ validating \in BOOLEAN /\ retryAt \in BOOLEAN
  /\ listed \in {"never", "yes", "removed"}

(* A retry is scheduled only while no validation is under way, and nothing *)
(* happens to a host before it is added.                                   *)
RetryAlone ==
  /\ retryAt => ~InFlight
  /\ listed = "never" => ~validating /\ ~InFlight /\ ~retryAt

(* After a rejected login nothing is left that would make another one.     *)
GuessSpent ==
  /\ valGuesses \in {0, 1}
  /\ valGuesses = 1 =>
       /\ val.pc = "off" /\ ~retryAt
       /\ \A i \in 1..Len(posts) :
            posts[i].what = "validation" /\ ~posts[i].ok => posts[i].problem # "Unreachable"

IInv == Types /\ OneValidation /\ RetryAlone /\ GuessSpent /\ NoHostForgotten

-----------------------------------------------------------------------------
(* Facts about the values a step makes                                     *)

LEMMA JobIsBusy ==
  ASSUME NEW p \in Words, NEW store \in BOOLEAN
  PROVE  Job(p, store) \in Jobs /\ Job(p, store).pc # "off"
BY DEF Job, Jobs, Off

LEMMA OffIsIdle == Off \in Jobs /\ Off.pc = "off"
BY DEF Off, Jobs

LEMMA BusyFields ==
  ASSUME val \in Jobs, val.pc # "off"
  PROVE  val.pw \in Words /\ val.store \in BOOLEAN /\ val.pc \in {"store", "call"}
BY DEF Jobs, Off

LEMMA FailedIsResult ==
  ASSUME NEW why \in {"Unreachable", "Auth", "Locked"}, NEW p \in Words
  PROVE  /\ Failed(why, p) \in Results /\ Failed(why, p).what = "validation"
         /\ ~Failed(why, p).ok /\ Failed(why, p).problem = why
BY DEF Failed, Results

LEMMA ValidIsResult ==
  ASSUME NEW S \in SUBSET Channels, NEW p \in Words
  PROVE  Valid(p, S) \in Results /\ Valid(p, S).what = "validation" /\ Valid(p, S).ok
BY DEF Valid, Results

(* Queueing a result, and taking the oldest.                               *)
LEMMA Queued ==
  ASSUME posts \in Seq(Results), NEW r \in Results, posts' = Append(posts, r)
  PROVE  /\ posts' \in Seq(Results) /\ Len(posts') = Len(posts) + 1 /\ Len(posts) \in Nat
         /\ \A i \in 1..Len(posts) : posts'[i] = posts[i]
         /\ posts'[Len(posts) + 1] = r
OBVIOUS

LEMMA Taken ==
  ASSUME posts \in Seq(Results), posts # <<>>, posts' = Tail(posts)
  PROVE  /\ posts' \in Seq(Results) /\ Len(posts') = Len(posts) - 1 /\ Len(posts) \in Nat \ {0}
         /\ Head(posts) = posts[1] /\ Head(posts) \in Results
         /\ \A i \in 1..Len(posts') : posts'[i] = posts[i + 1]
OBVIOUS

-----------------------------------------------------------------------------
LEMMA InitHolds == Init => IInv
<1> SUFFICES ASSUME Init PROVE IInv
  OBVIOUS
<1> USE DEF Init
<1>1. posts \in Seq(Results) /\ Len(posts) = 0
  OBVIOUS
<1>2. Empty \in Words /\ Job(Empty, FALSE) \in Jobs /\ Job(Empty, FALSE).pc # "off"
  BY JobIsBusy DEF Words
<1>3. retryAt = FALSE /\ valGuesses = 0 /\ cams \subseteq Channels
  OBVIOUS
<1>4. \A i \in 1..Len(posts) : FALSE
  BY <1>1
<1>5. \/ listed = "never" /\ validating = FALSE /\ val = Off /\ keyring \in Words
      \/ listed = "yes" /\ validating = TRUE /\ val = Job(Empty, FALSE) /\ keyring \in Words
  BY <1>2 DEF Words
<1>6. Types /\ GuessSpent
  <2>1. Types
    BY <1>1, <1>2, <1>3, <1>4, <1>5, OffIsIdle DEF Types
  <2>2. GuessSpent
    BY <1>1, <1>2, <1>3, <1>4, <1>5, OffIsIdle DEF GuessSpent
  <2> QED
    BY <2>1, <2>2
<1>7. InFlight = (listed = "yes")
  BY <1>2, <1>4, <1>5, OffIsIdle DEF InFlight
<1> QED
  BY <1>3, <1>4, <1>5, <1>6, <1>7 DEF IInv, OneValidation, RetryAlone, NoHostForgotten

(* The steps that leave the queue of results alone.                        *)
LEMMA ValidateHolds ==
  ASSUME IInv, NEW p \in Words, NEW store \in BOOLEAN, NEW there \in BOOLEAN,
         ValidateAsync(p, store, there), there => listed # "removed", UNCHANGED posts
  PROVE  /\ val' \in Jobs /\ validating' \in BOOLEAN
         /\ \A i \in 1..Len(posts) : val'.pc # "off" => posts[i].what # "validation"
         /\ there => validating' /\ InFlight'
         /\ ~there => UNCHANGED <<validating, val>>
<1> USE DEF IInv, Types, OneValidation, RetryAlone, InFlight
<1>1. CASE there /\ ~validating
  <2>1. val' = Job(p, store) /\ validating'
    BY <1>1 DEF ValidateAsync
  <2>2. ~InFlight
    BY <1>1
  <2> QED
    BY <2>1, <2>2, <1>1, JobIsBusy
<1>2. CASE ~(there /\ ~validating)
  BY <1>2 DEF ValidateAsync
<1> QED
  BY <1>1, <1>2

LEMMA ActHolds ==
  ASSUME IInv,
         \/ \E p \in Words : AddDevice(p)
         \/ Reconnect
         \/ \E p \in Passwords : UpdateCredentials(p)
  PROVE  IInv'
<1>1. PICK p \in Words, store \in BOOLEAN :
        /\ ValidateAsync(p, store, TRUE)
        /\ listed # "removed" /\ listed' = "yes" /\ retryAt' = FALSE
        /\ UNCHANGED posts /\ UNCHANGED world /\ valGuesses' = 0
  <2>1. ASSUME NEW p \in Words, AddDevice(p)
        PROVE  /\ ValidateAsync(p, TRUE, TRUE)
               /\ listed # "removed" /\ listed' = "yes" /\ retryAt' = FALSE
               /\ UNCHANGED posts /\ UNCHANGED world /\ valGuesses' = 0
    BY <2>1 DEF AddDevice, Act, IInv, RetryAlone, Types
  <2>2. ASSUME NEW p \in Words, NEW store \in BOOLEAN, ConnectAgain(p, store)
        PROVE  /\ ValidateAsync(p, store, TRUE)
               /\ listed # "removed" /\ listed' = "yes" /\ retryAt' = FALSE
               /\ UNCHANGED posts /\ UNCHANGED world /\ valGuesses' = 0
    BY <2>2 DEF ConnectAgain, Act
  <2> QED
    BY <2>1, <2>2 DEF Reconnect, UpdateCredentials, Words
<1>2. /\ val' \in Jobs /\ validating' \in BOOLEAN /\ validating' /\ InFlight'
      /\ \A i \in 1..Len(posts) : val'.pc # "off" => posts[i].what # "validation"
  BY <1>1, ValidateHolds
<1>3. Types' /\ GuessSpent'
  <2>1. Types'
    BY <1>1, <1>2 DEF IInv, Types, world
  <2>2. GuessSpent'
    BY <1>1, <1>2 DEF IInv, GuessSpent, world
  <2> QED
    BY <2>1, <2>2
<1>4. OneValidation'
  BY <1>1, <1>2 DEF IInv, OneValidation, Types
<1>5. RetryAlone' /\ NoHostForgotten'
  BY <1>1, <1>2 DEF RetryAlone, NoHostForgotten
<1> QED
  BY <1>3, <1>4, <1>5 DEF IInv

LEMMA TickHolds ==
  ASSUME IInv, NEW due \in BOOLEAN, PollTick(due)
  PROVE  IInv'
<1> DEFINE there == due /\ listed = "yes"
<1>1. /\ ValidateAsync(Empty, FALSE, there) /\ UNCHANGED <<posts, listed, problem, world, valGuesses>>
      /\ retryAt' = (retryAt /\ ~due) /\ (due => retryAt)
  BY DEF PollTick, entry, past
<1>2. /\ val' \in Jobs /\ validating' \in BOOLEAN
      /\ \A i \in 1..Len(posts) : val'.pc # "off" => posts[i].what # "validation"
      /\ there => validating' /\ InFlight'
      /\ ~there => UNCHANGED <<validating, val>>
  <2>1. Empty \in Words /\ there \in BOOLEAN
    BY DEF Words
  <2> QED
    BY <1>1, <2>1, ValidateHolds DEF IInv, Types
<1>3. CASE there
  <2>1. retryAt /\ ~retryAt' /\ valGuesses = 0
    BY <1>1, <1>3 DEF IInv, GuessSpent
  <2> QED
    BY <1>1, <1>2, <1>3, <2>1
    DEF IInv, Types, OneValidation, RetryAlone, GuessSpent, NoHostForgotten, world
<1>4. CASE ~there
  BY <1>1, <1>2, <1>4 DEF IInv, Types, OneValidation, RetryAlone, GuessSpent, NoHostForgotten, world, InFlight
<1> QED
  BY <1>3, <1>4

-----------------------------------------------------------------------------
(* The worker's two steps.                                                 *)
LEMMA StoreHolds == ASSUME IInv, StoreAndLookUp PROVE IInv'
<1>1. val.pc # "off" /\ val.pw \in Words /\ val.store \in BOOLEAN
  BY BusyFields DEF IInv, Types, StoreAndLookUp
<1>2. /\ UNCHANGED <<listed, problem, validating, retryAt, cams, valGuesses>>
      /\ keyring' \in Words
      /\ \/ /\ val' = Off /\ Post(Failed("Auth", Empty))
         \/ /\ \E found \in Words : val' = [val EXCEPT !.pc = "call", !.pw = found]
            /\ UNCHANGED posts
  BY <1>1 DEF StoreAndLookUp, entry, sched, past, IInv, Types, Words
<1>3. InFlight /\ ~retryAt /\ valGuesses = 0 /\ listed # "never"
  BY <1>1 DEF IInv, RetryAlone, GuessSpent, InFlight
<1>4. CASE val' = Off /\ Post(Failed("Auth", Empty))
  <2>1. /\ Failed("Auth", Empty) \in Results /\ Failed("Auth", Empty).what = "validation"
    BY FailedIsResult DEF Words
  <2>2. /\ posts' \in Seq(Results) /\ Len(posts') = Len(posts) + 1 /\ Len(posts) \in Nat
        /\ \A i \in 1..Len(posts) : posts'[i] = posts[i]
        /\ posts'[Len(posts) + 1].what = "validation"
    BY <1>4, <2>1, Queued DEF Post, IInv, Types
  <2>3. InFlight'
    BY <2>2 DEF InFlight
  <2>4. \A i \in 1..Len(posts) : posts[i].what # "validation"
    BY <1>1 DEF IInv, OneValidation
  <2>5. \A i \in 1..Len(posts') : posts'[i].what = "validation" => i = Len(posts) + 1
    BY <2>2, <2>4
  <2> QED
    BY <1>1, <1>2, <1>3, <1>4, <2>2, <2>3, <2>5, OffIsIdle
    DEF IInv, Types, OneValidation, RetryAlone, GuessSpent, NoHostForgotten
<1>5. CASE (\E found \in Words : val' = [val EXCEPT !.pc = "call", !.pw = found]) /\ UNCHANGED posts
  <2>1. val' \in Jobs /\ val'.pc = "call"
    <3>1. val \in [pc : {"store", "call"}, pw : Words, store : BOOLEAN]
      BY <1>1 DEF IInv, Types, Jobs, Off
    <3>2. PICK found \in Words : val' = [val EXCEPT !.pc = "call", !.pw = found]
      BY <1>5
    <3> QED
      BY <3>1, <3>2 DEF Jobs
  <2>2. InFlight'
    BY <2>1 DEF InFlight
  <2>3. Types' /\ GuessSpent'
    <3>1. Types'
      BY <1>2, <1>5, <2>1 DEF IInv, Types
    <3>2. GuessSpent'
      <4>1. valGuesses' = 0
        BY <1>2, <1>3
      <4> QED
        BY <4>1 DEF GuessSpent
    <3> QED
      BY <3>1, <3>2
  <2>4. OneValidation'
    BY <1>1, <1>2, <1>3, <1>5, <2>1, <2>2 DEF IInv, Types, OneValidation
  <2>5. RetryAlone' /\ NoHostForgotten'
    BY <1>2, <1>3, <2>2 DEF RetryAlone, NoHostForgotten
  <2> QED
    BY <2>3, <2>4, <2>5 DEF IInv
<1> QED
  BY <1>2, <1>4, <1>5

LEMMA CallHolds == ASSUME IInv, Call PROVE IInv'
<1>1. val.pc # "off" /\ val.pw \in Words
  BY BusyFields DEF IInv, Types, Call
<1>2. /\ UNCHANGED <<listed, problem, validating, retryAt, cams, keyring>> /\ val' = Off
  BY DEF Call, entry, sched
<1>3. InFlight /\ ~retryAt /\ valGuesses = 0 /\ listed # "never"
  BY <1>1 DEF IInv, RetryAlone, GuessSpent, InFlight
<1>4. PICK r \in Results :
        /\ Post(r) /\ r.what = "validation"
        /\ \/ UNCHANGED valGuesses
           \/ valGuesses' = 1 /\ ~r.ok /\ r.problem # "Unreachable"
  <2>1. CASE CallUnreachable
    <3>1. Failed("Unreachable", val.pw) \in Results /\ Failed("Unreachable", val.pw).what = "validation"
      BY <1>1, FailedIsResult
    <3> QED
      BY <2>1, <3>1 DEF CallUnreachable
  <2>2. CASE CallRejected
    <3>1. PICK why \in {"Auth", "Locked"} : Post(Failed(why, val.pw))
      BY <2>2 DEF CallRejected
    <3>2. /\ Failed(why, val.pw) \in Results /\ Failed(why, val.pw).what = "validation"
          /\ ~Failed(why, val.pw).ok /\ Failed(why, val.pw).problem # "Unreachable"
      BY <1>1, FailedIsResult
    <3>3. valGuesses' = 1
      BY <1>3, <2>2 DEF CallRejected, Guess, GuessCap
    <3> QED
      BY <3>1, <3>2, <3>3
  <2>3. CASE CallAnswered
    <3>1. \A S \in SUBSET Channels :
            Valid(val.pw, S) \in Results /\ Valid(val.pw, S).what = "validation"
      BY <1>1, ValidIsResult
    <3>2. Failed("Unreachable", val.pw) \in Results /\ Failed("Unreachable", val.pw).what = "validation"
      BY <1>1, FailedIsResult
    <3>3. cams \in SUBSET Channels /\ {} \in SUBSET Channels /\ {0} \in SUBSET Channels
      BY HostAssumption DEF HostAssumption, IInv, Types
    <3> QED
      BY <2>3, <3>1, <3>2, <3>3 DEF CallAnswered
  <2> QED
    BY <2>1, <2>2, <2>3 DEF Call
<1>5. /\ posts' \in Seq(Results) /\ Len(posts') = Len(posts) + 1 /\ Len(posts) \in Nat
      /\ \A i \in 1..Len(posts) : posts'[i] = posts[i]
      /\ posts'[Len(posts) + 1] = r
  BY <1>4, Queued DEF Post, IInv, Types
<1>6. \A i \in 1..Len(posts) : posts[i].what # "validation"
  BY <1>1 DEF IInv, OneValidation
<1>7. \A i \in 1..Len(posts') : posts'[i].what = "validation" => i = Len(posts) + 1
  BY <1>5, <1>6
<1>8. InFlight'
  BY <1>4, <1>5 DEF InFlight
<1>9. GuessSpent'
  <2>1. CASE valGuesses' = 1 /\ ~r.ok /\ r.problem # "Unreachable"
    BY <2>1, <1>2, <1>3, <1>5, <1>7, OffIsIdle DEF GuessSpent
  <2>2. CASE UNCHANGED valGuesses
    BY <2>2, <1>3 DEF GuessSpent
  <2> QED
    BY <1>4, <2>1, <2>2
<1> QED
  BY <1>2, <1>3, <1>5, <1>7, <1>8, <1>9, OffIsIdle, <1>1
  DEF IInv, Types, OneValidation, RetryAlone, NoHostForgotten

(* A poll's result says nothing about validations.                         *)
LEMMA PollHolds == ASSUME IInv, Poll PROVE IInv'
<1>1. PICK r \in Results : Post(r) /\ r.what = "poll"
  <2>1. \A ok, known \in BOOLEAN, S \in SUBSET Channels :
          /\ [what |-> "poll", ok |-> ok, known |-> known, online |-> S] \in Results
          /\ [what |-> "poll", ok |-> ok, known |-> known, online |-> S].what = "poll"
    BY DEF Results
  <2>2. cams \in SUBSET Channels /\ {} \in SUBSET Channels
    BY DEF IInv, Types
  <2> QED
    BY <2>1, <2>2 DEF Poll, PollFailed, PollAnswered, Polled
<1>2. UNCHANGED <<listed, problem, validating, retryAt, cams, keyring, val, valGuesses>>
  BY DEF Poll, entry, sched
<1>3. /\ posts' \in Seq(Results) /\ Len(posts') = Len(posts) + 1 /\ Len(posts) \in Nat
      /\ \A i \in 1..Len(posts) : posts'[i] = posts[i]
      /\ posts'[Len(posts) + 1].what # "validation"
  BY <1>1, Queued DEF Post, IInv, Types
<1>4. \A i \in 1..Len(posts') : posts'[i].what = "validation" => i \in 1..Len(posts) /\ posts'[i] = posts[i]
  BY <1>3
<1>5. InFlight' = InFlight
  BY <1>2, <1>3, <1>4 DEF InFlight
<1> QED
  BY <1>2, <1>3, <1>4, <1>5 DEF IInv, Types, OneValidation, RetryAlone, GuessSpent, NoHostForgotten

-----------------------------------------------------------------------------
(* Results reach the list.                                                 *)
LEMMA DeliverHolds == ASSUME IInv, Deliver PROVE IInv'
<1> DEFINE v == Head(posts)
<1>1. UNCHANGED <<listed, val, keyring, cams, valGuesses>>
  BY DEF Deliver, world
<1>2. /\ posts' \in Seq(Results) /\ Len(posts') = Len(posts) - 1 /\ Len(posts) \in Nat \ {0}
      /\ v = posts[1] /\ v \in Results
      /\ \A i \in 1..Len(posts') : posts'[i] = posts[i + 1]
  BY Taken DEF Deliver, IInv, Types
<1>3. \A i \in 1..Len(posts') : i + 1 \in 1..Len(posts) /\ i + 1 # 1
  BY <1>2
<1>4. \A i, j \in 1..Len(posts') :
        posts'[i].what = "validation" /\ posts'[j].what = "validation" => i = j
  <2> SUFFICES ASSUME NEW i \in 1..Len(posts'), NEW j \in 1..Len(posts'),
                      posts'[i].what = "validation", posts'[j].what = "validation"
               PROVE i = j
    OBVIOUS
  <2>1. i + 1 = j + 1
    BY <1>2, <1>3 DEF IInv, OneValidation
  <2> QED
    BY <2>1, <1>2
<1>5. val'.pc # "off" => \A i \in 1..Len(posts') : posts'[i].what # "validation"
  BY <1>1, <1>2, <1>3 DEF IInv, OneValidation
<1>6. \A i \in 1..Len(posts') :
        posts'[i].what = "validation" /\ ~posts'[i].ok /\ valGuesses = 1 => posts'[i].problem # "Unreachable"
  BY <1>2, <1>3 DEF IInv, GuessSpent
<1>7. CASE v.what = "poll"
  <2>1. UNCHANGED <<validating, problem, retryAt>>
    BY <1>7 DEF Deliver, ApplyPoll
  <2>2. InFlight' = InFlight
    <3>1. \A i \in 2..Len(posts) : i - 1 \in 1..Len(posts') /\ posts'[i - 1] = posts[i]
      BY <1>2
    <3>2. \A i \in 1..Len(posts) : posts[i].what = "validation" => i \in 2..Len(posts)
      BY <1>2, <1>7
    <3> QED
      BY <1>1, <1>2, <1>3, <3>1, <3>2 DEF InFlight
  <2> QED
    BY <1>1, <1>2, <1>4, <1>5, <1>6, <2>1, <2>2
    DEF IInv, Types, OneValidation, RetryAlone, GuessSpent, NoHostForgotten
<1>8. CASE v.what = "validation"
  <2>1. ApplyValidation(v)
    BY <1>8 DEF Deliver
  <2>2. InFlight /\ ~retryAt /\ listed # "never" /\ val.pc = "off"
    BY <1>2, <1>8 DEF InFlight, IInv, RetryAlone, OneValidation
  <2>3. ~InFlight'
    <3>1. \A i \in 1..Len(posts') : posts'[i].what # "validation"
      BY <1>2, <1>3, <1>8 DEF IInv, OneValidation
    <3> QED
      BY <3>1, <1>1, <2>2 DEF InFlight
  <2>4. CASE listed = "yes"
    <3>1. validating' = FALSE /\ (v.ok => ValidationDone(v)) /\ (~v.ok => ValidationFailed(v))
      BY <2>1, <2>4 DEF ApplyValidation
    <3>2. CASE v.ok
      <4>1. problem' = "None" /\ ~retryAt'
        BY <3>1, <3>2 DEF ValidationDone
      <4>2. NoHostForgotten'
        BY <4>1 DEF NoHostForgotten
      <4>3. validating' \in BOOLEAN /\ retryAt' \in BOOLEAN
        BY <2>1, <3>1, <3>2, <2>4 DEF ApplyValidation, ValidationDone
      <4>4. Types' /\ GuessSpent'
        <5>1. Types'
          BY <1>1, <1>2, <1>6, <2>2, <4>1, <4>3 DEF IInv, Types
        <5>2. GuessSpent'
          BY <1>1, <1>2, <1>6, <2>2, <4>1, <4>3 DEF IInv, GuessSpent
        <5> QED
          BY <5>1, <5>2
      <4>5. OneValidation' /\ RetryAlone'
        <5>1. validating' = InFlight' /\ listed' = "yes"
          BY <1>1, <2>3, <2>4, <3>1 DEF InFlight
        <5>2. OneValidation'
          BY <5>1, <1>4, <1>5 DEF OneValidation
        <5>3. RetryAlone'
          BY <5>1, <2>3 DEF RetryAlone
        <5> QED
          BY <5>2, <5>3
      <4> QED
        BY <4>2, <4>4, <4>5 DEF IInv
    <3>3. CASE ~v.ok
      <4>1. problem' = v.problem /\ retryAt' = (v.problem = "Unreachable")
        BY <3>1, <3>3 DEF ValidationFailed
      <4>2. v.problem \in {"Unreachable", "Auth", "Locked"}
        BY <1>2, <1>8, <3>3 DEF Results
      <4>3. NoHostForgotten'
        BY <4>1, <4>2 DEF NoHostForgotten
      <4>4. valGuesses = 1 => ~retryAt'
        <5>1. 1 \in 1..Len(posts) /\ posts[1].what = "validation" /\ ~posts[1].ok
          BY <1>2, <1>8, <3>3
        <5>2. valGuesses = 1 => posts[1].problem # "Unreachable"
          BY <5>1 DEF IInv, GuessSpent
        <5> QED
          BY <4>1, <1>2, <5>2
      <4>5. validating' \in BOOLEAN /\ retryAt' \in BOOLEAN
        BY <2>1, <2>4, <4>1 DEF ApplyValidation
      <4>6. Types' /\ GuessSpent'
        <5>1. Types'
          BY <1>1, <1>2, <1>6, <2>2, <4>4, <4>5 DEF IInv, Types
        <5>2. GuessSpent'
          BY <1>1, <1>2, <1>6, <2>2, <4>4, <4>5 DEF IInv, GuessSpent
        <5> QED
          BY <5>1, <5>2
      <4>7. OneValidation' /\ RetryAlone'
        <5>1. validating' = InFlight' /\ listed' = "yes"
          BY <1>1, <2>3, <2>4, <3>1 DEF InFlight
        <5>2. OneValidation'
          BY <5>1, <1>4, <1>5 DEF OneValidation
        <5>3. RetryAlone'
          BY <5>1, <2>3 DEF RetryAlone
        <5> QED
          BY <5>2, <5>3
      <4> QED
        BY <4>3, <4>6, <4>7 DEF IInv
    <3> QED
      BY <3>2, <3>3, <1>2 DEF Results
  <2>5. CASE listed # "yes"
    <3>1. UNCHANGED <<validating, problem, retryAt>>
      BY <2>1, <2>5 DEF ApplyValidation
    <3> QED
      BY <1>1, <1>2, <1>4, <1>5, <1>6, <2>2, <2>3, <2>5, <3>1
      DEF IInv, Types, OneValidation, RetryAlone, GuessSpent, NoHostForgotten
  <2> QED
    BY <2>4, <2>5
<1> QED
  BY <1>2, <1>7, <1>8 DEF Results

LEMMA StepHolds == IInv /\ [Next]_vars => IInv'
<1> SUFFICES ASSUME IInv, [Next]_vars PROVE IInv'
  OBVIOUS
<1>1. CASE RemoveDevice
  <2>1. /\ UNCHANGED <<validating, retryAt, posts, val, cams>>
        /\ listed' = "removed" /\ keyring' = Empty /\ valGuesses' = 0
    BY <1>1 DEF RemoveDevice, sched, Act
  <2>2. InFlight' = InFlight
    BY <2>1 DEF InFlight
  <2> QED
    BY <2>1, <2>2 DEF IInv, Types, OneValidation, RetryAlone, GuessSpent, NoHostForgotten, Words
<1>2. CASE ClientFor \/ Device \/ UNCHANGED vars
  <2>1. UNCHANGED <<listed, problem, validating, retryAt, posts, val, keyring, valGuesses>>
    BY <1>2 DEF ClientFor, Device, vars, entry, sched, world, past
  <2>2. cams' \subseteq Channels
    BY <1>2 DEF ClientFor, Device, vars, world, IInv, Types
  <2>3. InFlight' = InFlight
    BY <2>1 DEF InFlight
  <2> QED
    BY <2>1, <2>2, <2>3 DEF IInv, Types, OneValidation, RetryAlone, GuessSpent, NoHostForgotten
<1> QED
  BY <1>1, <1>2, ActHolds, TickHolds, StoreHolds, CallHolds, PollHolds, DeliverHolds
  DEF Next, User, Pool, Words

-----------------------------------------------------------------------------
LEMMA IInvHolds == Spec => []IInv
BY InitHolds, StepHolds, PTL DEF Spec

(* A host that waiting may cure always has a validation or a retry ahead.  *)
THEOREM NobodyForgotten == Spec => []NoHostForgotten
<1>1. IInv => NoHostForgotten
  BY DEF IInv
<1> QED
  BY <1>1, IInvHolds, PTL

(* Validations of a host never overlap, and m_validating says the truth.   *)
THEOREM ValidatedOneByOne == Spec => []OneValidation
<1>1. IInv => OneValidation
  BY DEF IInv
<1> QED
  BY <1>1, IInvHolds, PTL

(* However retries, reconnects and polls interleave, the validations that  *)
(* follow an act of the user cost one rejected login at most.              *)
THEOREM AtMostOneGuess == Spec => []OneGuess
<1>1. IInv => OneGuess
  BY DEF IInv, GuessSpent, OneGuess
<1> QED
  BY <1>1, IInvHolds, PTL
=============================================================================
