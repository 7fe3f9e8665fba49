-------------------------- MODULE HttpClientProofs --------------------------
(***************************************************************************)
(* For any number of threads, calls and logins: commands go to the device  *)
(* one at a time, no session is left behind unaccounted, and a late retry  *)
(* throws away no token that the device still honours.                     *)
(***************************************************************************)
EXTENDS HttpClientProps, TLAPS

(* What the locks and the token numbers say at every step.                 *)
Numbered ==
  /\ logins \in Nat
  /\ token \in 0..logins
  /\ mine \in [Callers -> 0..logins]
  /\ sessions \subseteq 1..logins

Threads ==
  /\ pc \in [Callers -> Stages]
  /\ kind \in [Callers -> Kinds]

LockHeld ==
  \A c \in Callers : kind[c] # "slow" /\ pc[c] \notin {"idle", "lock"} => requestLock = c

(* A token that a thread is about to throw away is dead, and stays dead,   *)
(* unless it is the token of a refused snapshot.                           *)
DeadToken ==
  \A c \in Callers : pc[c] = "clear" /\ kind[c] # "snap" => mine[c] \notin sessions

-----------------------------------------------------------------------------

(* Whatever happens, a thread that has passed the request lock holds it:   *)
(* commands and snapshots of one device are on the wire one at a time.     *)
THEOREM OneAtATime == Spec => []OneCommandAtATime
<1> DEFINE Inv == Threads /\ LockHeld
<1>1. Init => Inv
  BY DEF Init, Threads, LockHeld, Stages, Kinds
<1>2. Inv /\ [Next]_vars => Inv'
  <2> SUFFICES ASSUME Inv, [Next]_vars PROVE Inv'
    OBVIOUS
  <2> USE HttpAssumption DEF HttpAssumption, Threads, LockHeld, Goto, Stages, Kinds, None
  <2>1. ASSUME NEW c \in Callers, Begin(c) PROVE Inv'
    BY <2>1 DEF Begin, client
  <2>2. ASSUME NEW c \in Callers, Lock(c) PROVE Inv'
    BY <2>2 DEF Lock
  <2>3. ASSUME NEW c \in Callers, EnsureLogin(c) PROVE Inv'
    BY <2>3 DEF EnsureLogin
  <2>4. ASSUME NEW c \in Callers, SignIn(c) PROVE Inv'
    BY <2>4 DEF SignIn, SignedIn, SignInFailed, SignInReplyLost, Finish
  <2>5. ASSUME NEW c \in Callers, Copy(c) PROVE Inv'
    BY <2>5 DEF Copy, client
  <2>6. ASSUME NEW c \in Callers, Exchange(c) PROVE Inv'
    BY <2>6 DEF Exchange, ExchangeLost, ExchangeGarbled, ExchangeAnswered, ExchangeRefused, Finish
  <2>7. ASSUME NEW c \in Callers, Clear(c) PROVE Inv'
    BY <2>7 DEF Clear, DropMine
  <2>8. CASE Destroy
    BY <2>8 DEF Destroy, call
  <2>9. CASE Drop
    BY <2>9 DEF Drop, call, client
  <2>10. CASE LeaseEnds
    BY <2>10 DEF LeaseEnds, call
  <2>11. CASE UNCHANGED vars
    BY <2>11 DEF vars, call, client
  <2> QED
    BY <2>1, <2>2, <2>3, <2>4, <2>5, <2>6, <2>7, <2>8, <2>9, <2>10, <2>11 DEF Next, Step
<1>3. Inv => OneCommandAtATime
  BY DEF Threads, LockHeld, OneCommandAtATime, Commanding
<1> QED
  BY <1>1, <1>2, <1>3, PTL DEF Spec

-----------------------------------------------------------------------------

TokenInv == Numbered /\ Threads /\ DeadToken /\ SessionsAreAccounted

LEMMA TokenInit == Init => TokenInv
BY DEF Init, TokenInv, Numbered, Threads, DeadToken, SessionsAreAccounted, Stages, Kinds, None

LEMMA TokenStep == TokenInv /\ [Next]_vars => TokenInv'
<1> SUFFICES ASSUME TokenInv, [Next]_vars PROVE TokenInv'
  OBVIOUS
<1> USE DEF TokenInv, Numbered, Threads, DeadToken, SessionsAreAccounted, Goto, Stages, Kinds, None
<1>1. ASSUME NEW c \in Callers, Begin(c) PROVE TokenInv'
  BY <1>1 DEF Begin, client, camera
<1>2. ASSUME NEW c \in Callers, Lock(c) PROVE TokenInv'
  BY <1>2 DEF Lock, camera, past
<1>3. ASSUME NEW c \in Callers, EnsureLogin(c) PROVE TokenInv'
  BY <1>3 DEF EnsureLogin, camera, past
<1>4. ASSUME NEW c \in Callers, SignIn(c) PROVE TokenInv'
  <2>1. CASE SignedIn(c)
    BY <1>4, <2>1 DEF SignIn, SignedIn
  <2>2. CASE SignInFailed(c)
    BY <1>4, <2>2 DEF SignIn, SignInFailed, Finish, camera
  <2>3. CASE SignInReplyLost(c)
    BY <1>4, <2>3 DEF SignIn, SignInReplyLost, Finish
  <2> QED
    BY <1>4, <2>1, <2>2, <2>3 DEF SignIn
<1>5. ASSUME NEW c \in Callers, Copy(c) PROVE TokenInv'
  BY <1>5 DEF Copy, client, camera, past
<1>6. ASSUME NEW c \in Callers, Exchange(c) PROVE TokenInv'
  BY <1>6 DEF Exchange, ExchangeLost, ExchangeGarbled, ExchangeAnswered, ExchangeRefused, Finish, camera, past
<1>7. ASSUME NEW c \in Callers, Clear(c) PROVE TokenInv'
  BY <1>7 DEF Clear, DropMine, camera
<1>8. CASE Destroy
  <2>1. UNCHANGED <<pc, kind, mine, logins>> /\ token' = None /\ sessions' \subseteq sessions
    BY <1>8 DEF Destroy, call
  <2>2. Numbered' /\ Threads' /\ DeadToken'
    BY <2>1
  <2>3. SessionsAreAccounted'
    BY <1>8 DEF Destroy
  <2> QED
    BY <2>2, <2>3
<1>9. CASE Drop
  BY <1>9 DEF Drop, call, client
<1>10. CASE LeaseEnds
  BY <1>10 DEF LeaseEnds, call, camera, past
<1>11. CASE UNCHANGED vars
  BY <1>11 DEF vars, call, client, camera, past
<1> QED
  BY <1>1, <1>2, <1>3, <1>4, <1>5, <1>6, <1>7, <1>8, <1>9, <1>10, <1>11 DEF Next, Step

(* Every session the camera still has is the one of the current token, or  *)
(* was left at the end of a lease, with a login that looked failed or by a *)
(* refused snapshot.                                                       *)
THEOREM NoSessionLeaks == Spec => []SessionsAreAccounted
<1>1. TokenInv => SessionsAreAccounted
  BY DEF TokenInv
<1> QED
  BY <1>1, TokenInit, TokenStep, PTL DEF Spec

(* Threads that find their token refused never throw away a token that     *)
(* another thread has fetched in the meantime.                             *)
THEOREM LiveTokenStays == Spec => OnlyDeadTokensAreDropped
<1> DEFINE Kept == alive' /\ token # None /\ token' = None =>
                     \/ token \notin sessions
                     \/ \E c \in Callers : pc[c] = "clear" /\ kind[c] = "snap" /\ mine[c] = token
<1>1. TokenInv /\ [Next]_vars => [Kept]_vars
  <2> SUFFICES ASSUME TokenInv, Next, alive', token # None, token' = None,
                      ~ \E c \in Callers : pc[c] = "clear" /\ kind[c] = "snap" /\ mine[c] = token
               PROVE token \notin sessions
    BY DEF Kept
  <2>1. ASSUME NEW c \in Callers, SignIn(c) PROVE FALSE
    BY <2>1 DEF SignIn, SignedIn, SignInFailed, SignInReplyLost, TokenInv, Numbered, None
  <2>2. ASSUME NEW c \in Callers, Clear(c) PROVE token \notin sessions
    BY <2>2 DEF Clear, DropMine, TokenInv, DeadToken, Threads
  <2>3. ASSUME NEW c \in Callers, Begin(c) \/ Lock(c) \/ EnsureLogin(c) \/ Copy(c) \/ Exchange(c)
        PROVE FALSE
    BY <2>3 DEF Begin, Lock, EnsureLogin, Copy, Exchange, client
  <2>4. ~Destroy /\ ~Drop /\ ~LeaseEnds
    BY DEF Destroy, Drop, LeaseEnds, client
  <2> QED
    BY <2>1, <2>2, <2>3, <2>4 DEF Next, Step
<1> QED
  BY <1>1, TokenInit, TokenStep, PTL DEF Spec, OnlyDeadTokensAreDropped

-----------------------------------------------------------------------------
(* While the camera has forgotten nothing in a thread's call, every token  *)
(* issued since the thread took its own is honoured; so its second try     *)
(* finds a token that is, and takes it.                                    *)
Untroubled(c) == c \in Callers /\ c \notin disturbed

NewerIsLive ==
  \A c \in Callers :
    Untroubled(c) /\ attempt[c] = 0 /\ pc[c] \in {"exchange", "clear"} =>
      token \in sessions \cup {None, mine[c]}

SecondTry ==
  \A c \in Callers :
    Untroubled(c) /\ attempt[c] = 1 /\ pc[c] # "idle" =>
      /\ kind[c] # "snap" /\ pc[c] \in {"login", "signin", "copy", "exchange"}
      /\ token \in sessions \cup {None}
      /\ pc[c] = "copy" => token # None
      /\ pc[c] = "exchange" => mine[c] \in sessions

Tries == attempt \in [Callers -> {0, 1}] /\ result \in [Callers -> Results]

RetryInv == TokenInv /\ Tries /\ NewerIsLive /\ SecondTry /\ OneRetryIsEnough

LEMMA RetryInit == Init => RetryInv
<1> SUFFICES ASSUME Init PROVE RetryInv
  OBVIOUS
<1>1. Tries /\ NewerIsLive /\ SecondTry /\ OneRetryIsEnough
  BY DEF Init, Tries, Results, NewerIsLive, SecondTry, OneRetryIsEnough
<1> QED BY <1>1, TokenInit DEF RetryInv

LEMMA RetryStep == RetryInv /\ [Next]_vars => RetryInv'
<1> SUFFICES ASSUME RetryInv, [Next]_vars PROVE RetryInv'
  OBVIOUS
<1> DEFINE Goal == (Tries /\ NewerIsLive /\ SecondTry /\ OneRetryIsEnough)'
<1>0. TokenInv'
  BY TokenStep DEF RetryInv
<1> USE DEF RetryInv, Tries, NewerIsLive, SecondTry, OneRetryIsEnough, Untroubled, TokenInv,
            Threads, Numbered, Goto, Stages, Kinds, Results, None
<1>1. ASSUME NEW c \in Callers, Begin(c) PROVE Goal
  BY <1>1 DEF Begin, client, camera
<1>2. ASSUME NEW c \in Callers, Lock(c) PROVE Goal
  BY <1>2 DEF Lock, camera, past
<1>3. ASSUME NEW c \in Callers, EnsureLogin(c) PROVE Goal
  BY <1>3 DEF EnsureLogin, camera, past
<1>4. ASSUME NEW c \in Callers, SignIn(c) PROVE Goal
  <2>1. CASE SignedIn(c)
    BY <1>4, <2>1 DEF SignIn, SignedIn
  <2>2. CASE SignInFailed(c)
    BY <1>4, <2>2 DEF SignIn, SignInFailed, Finish, camera
  <2>3. CASE SignInReplyLost(c)
    BY <1>4, <2>3 DEF SignIn, SignInReplyLost, Finish
  <2> QED
    BY <1>4, <2>1, <2>2, <2>3 DEF SignIn
<1>5. ASSUME NEW c \in Callers, Copy(c) PROVE Goal
  BY <1>5 DEF Copy, client, camera, past
<1>6. ASSUME NEW c \in Callers, Exchange(c) PROVE Goal
  <2>1. CASE ExchangeLost(c) \/ ExchangeGarbled(c) \/ ExchangeAnswered(c)
    BY <1>6, <2>1 DEF Exchange, ExchangeLost, ExchangeGarbled, ExchangeAnswered, Finish, camera, past
  <2>2. CASE ExchangeRefused(c)
    BY <1>6, <2>2 DEF Exchange, ExchangeRefused, Finish, camera, past
  <2> QED BY <1>6, <2>1, <2>2 DEF Exchange
<1>7. ASSUME NEW c \in Callers, Clear(c) PROVE Goal
  <2>1. CASE kind[c] = "snap"
    BY <1>7, <2>1 DEF Clear, DropMine, camera
  <2>2. CASE kind[c] # "snap"
    <3>1. mine[c] \notin sessions /\ UNCHANGED <<sessions, disturbed, kind, mine, result>>
      BY <1>7, <2>2 DEF Clear, camera, DeadToken
    <3> QED BY <1>7, <2>2, <3>1 DEF Clear, DropMine
  <2> QED BY <2>1, <2>2
<1>8. ASSUME Destroy PROVE Goal
  BY <1>8 DEF Destroy, call
<1>9. ASSUME Drop PROVE Goal
  BY <1>9 DEF Drop, call, client
<1>10. ASSUME LeaseEnds PROVE Goal
  BY <1>10 DEF LeaseEnds, call, camera, past
<1>11. ASSUME UNCHANGED vars PROVE Goal
  BY <1>11 DEF vars, call, client, camera, past
<1>12. Goal
  BY <1>1, <1>2, <1>3, <1>4, <1>5, <1>6, <1>7, <1>8, <1>9, <1>10, <1>11 DEF Next, Step
<1> QED
  BY <1>0, <1>12

(* A call is turned away for want of a login only if the camera forgot a   *)
(* session, or refused a snapshot, while it was under way: whichever way   *)
(* the threads share the token, one retry is enough.                       *)
THEOREM RetryIsEnough == Spec => []OneRetryIsEnough
<1>1. RetryInv => OneRetryIsEnough
  BY DEF RetryInv
<1> QED
  BY <1>1, RetryInit, RetryStep, PTL DEF Spec
=============================================================================
