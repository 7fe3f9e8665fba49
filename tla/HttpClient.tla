----------------------------- MODULE HttpClient -----------------------------
(***************************************************************************)
(* One ReolinkHttpClient (protocol/ReolinkHttpClient.cpp): the login token *)
(* and the two mutexes that the worker threads of one device share.        *)
(*                                                                         *)
(* A thread makes one call at a time: call() and fetchSnapshot() go one    *)
(* after the other behind m_requestMutex, callSlow() does not wait for it. *)
(* m_mutex is held while a login is on the network and for an instant      *)
(* whenever the token or the reason of the last failure is touched.        *)
(*                                                                         *)
(* Tokens are numbered in the order the camera issues them.  The camera    *)
(* is modelled from how the client uses it: it knows a set of sessions and *)
(* may forget any of them (reboot, lease, changed credentials).            *)
(***************************************************************************)
EXTENDS Integers, FiniteSets

CONSTANTS
  Callers,      \* worker threads that use this client
  MaxCalls,     \* bound: calls made
  MaxTokens,    \* bound: logins the camera accepts
  MaxDrops      \* bound: times the camera forgets a session

ASSUME HttpAssumption ==
  /\ {MaxCalls, MaxTokens} \subseteq Nat \ {0} /\ MaxDrops \in Nat
  /\ 0 \notin Callers

None   == 0                    \* no token; a free mutex
Tokens == 1..MaxTokens
Kinds  == {"call", "snap", "slow"}

VARIABLES
  \* the client
  alive,        \* not destroyed
  requestLock,  \* m_requestMutex: the caller that holds it, or None
  mutex,        \* m_mutex while its holder waits for a login, or None
  token,        \* m_token
  fresh,        \* m_tokenExpiry is still ahead
  failKind,
  \* the call of each thread
  pc, kind, attempt, mine, result,
  \* the camera
  sessions,
  logins,       \* logins it has accepted
  \* history
  calls, drops,
  abandoned,    \* tokens that ran into their refresh margin, whose login
                \* was accepted although its reply was lost, or that a
                \* refused snapshot threw away
  disturbed     \* threads in whose call the camera forgot a session or
                \* refused a snapshot

client == <<alive, requestLock, mutex, token, fresh, failKind>>
call   == <<pc, kind, attempt, mine, result>>
camera == <<sessions, logins>>
past   == <<calls, drops, abandoned, disturbed>>
vars   == <<client, call, camera, past>>

Init ==
  /\ alive = TRUE /\ requestLock = None /\ mutex = None
  /\ token = None /\ fresh = FALSE /\ failKind = "None"
  /\ pc      = [c \in Callers |-> "idle"]
  /\ kind    = [c \in Callers |-> "call"]
  /\ attempt = [c \in Callers |-> 0]
  /\ mine    = [c \in Callers |-> None]
  /\ result  = [c \in Callers |-> "none"]
  /\ sessions = {} /\ logins = 0
  /\ calls = 0 /\ drops = 0 /\ abandoned = {} /\ disturbed = {}

-----------------------------------------------------------------------------
(* A thread                                                                *)

Goto(c, l) == pc' = [pc EXCEPT ![c] = l]

Begin(c) ==
  /\ alive /\ pc[c] = "idle" /\ calls < MaxCalls
  /\ \E k \in Kinds :
       /\ kind' = [kind EXCEPT ![c] = k]
       /\ Goto(c, IF k = "slow" THEN "login" ELSE "lock")
  /\ attempt' = [attempt EXCEPT ![c] = 0]
  /\ result' = [result EXCEPT ![c] = "none"]
  /\ calls' = calls + 1
  /\ disturbed' = disturbed \ {c}
  /\ UNCHANGED <<client, mine, camera, drops, abandoned>>

Lock(c) ==
  /\ pc[c] = "lock" /\ requestLock = None
  /\ requestLock' = c
  /\ Goto(c, "login")
  /\ UNCHANGED <<alive, mutex, token, fresh, failKind, kind, attempt, mine, result, camera, past>>

(* Mutant: the lock is given back only after a good answer.                *)
FinishKeepsLock(c, r) ==
  /\ Goto(c, "idle")
  /\ result' = [result EXCEPT ![c] = r]
  /\ requestLock' = IF requestLock = c /\ r = "ok" THEN None ELSE requestLock

(* The call returns and gives m_requestMutex back.                         *)
Finish(c, r) ==
  /\ Goto(c, "idle")
  /\ result' = [result EXCEPT ![c] = r]
  /\ requestLock' = IF requestLock = c THEN None ELSE requestLock

(* ensureLogin(): a valid token will do, else loginLocked().               *)
EnsureLogin(c) ==
  /\ pc[c] = "login" /\ mutex = None
  /\ \/ token # None /\ fresh /\ Goto(c, "copy") /\ UNCHANGED mutex
     \/ (token = None \/ ~fresh) /\ mutex' = c /\ Goto(c, "signin")
  /\ UNCHANGED <<alive, requestLock, token, fresh, failKind, kind, attempt, mine, result, camera, past>>

(* loginLocked(), with m_mutex held all along.                             *)
SignedIn(c) ==
  /\ logins < MaxTokens
  /\ logins' = logins + 1
  /\ sessions' = sessions \cup {logins + 1}
  /\ token' = logins + 1 /\ fresh' = TRUE /\ failKind' = "None"
  /\ abandoned' = abandoned \cup ({token} \ {None})
  /\ Goto(c, "copy")
  /\ UNCHANGED <<requestLock, result>>

SignInFailed(c) ==
  /\ \/ failKind' = "Transport" /\ Finish(c, "transport")
     \/ failKind' \in {"Auth", "Locked"} /\ Finish(c, "rejected")
     \/ failKind' = "Protocol" /\ Finish(c, "garbled")
  /\ UNCHANGED <<token, fresh, abandoned, camera>>

SignInReplyLost(c) ==
  /\ logins < MaxTokens
  /\ logins' = logins + 1
  /\ sessions' = sessions \cup {logins + 1}
  /\ abandoned' = abandoned \cup {logins + 1}
  /\ failKind' = "Transport" /\ Finish(c, "transport")
  /\ UNCHANGED <<token, fresh>>

SignIn(c) ==
  /\ pc[c] = "signin"
  /\ SignedIn(c) \/ SignInFailed(c) \/ SignInReplyLost(c)
  /\ mutex' = None
  /\ UNCHANGED <<alive, kind, attempt, mine, calls, drops, disturbed>>

(* The token is read under a lock of its own: it may be gone again.        *)
Copy(c) ==
  /\ pc[c] = "copy" /\ mutex = None
  /\ mine' = [mine EXCEPT ![c] = token]
  /\ Goto(c, "exchange")
  /\ UNCHANGED <<client, kind, attempt, result, camera, past>>

(* The exchange itself.  Only call() and callSlow() note why it failed.    *)
Note(c, k) == failKind' = IF kind[c] = "snap" THEN failKind ELSE k

ExchangeLost(c) == Note(c, "Transport") /\ Finish(c, "transport")

ExchangeGarbled(c) == kind[c] # "snap" /\ Note(c, "Protocol") /\ Finish(c, "garbled")

ExchangeAnswered(c) == mine[c] \in sessions /\ Note(c, "None") /\ Finish(c, "ok")

(* "please login first", or an error object in place of an image: once,    *)
(* sign in again.  A camera may answer a signed-in snapshot that way too.  *)
ExchangeRefused(c) ==
  /\ mine[c] \in sessions => kind[c] = "snap"
  /\ Note(c, "None")
  /\ \/ attempt[c] = 0 /\ Goto(c, "clear") /\ UNCHANGED <<requestLock, result>>
     \/ attempt[c] = 1 /\ Finish(c, "refused")

Exchange(c) ==
  /\ pc[c] = "exchange" /\ mutex = None
  /\ ExchangeLost(c) \/ ExchangeGarbled(c) \/ ExchangeAnswered(c) \/ ExchangeRefused(c)
  /\ UNCHANGED <<alive, mutex, token, fresh, kind, attempt, mine, camera, past>>

(* Mutants: the token is dropped without looking whose it is; the token is *)
(* kept.                                                                   *)
DropAny(c) == token' = None /\ fresh' = FALSE

DropNone(c) == UNCHANGED <<token, fresh>>

(* Compare-and-clear.                                                      *)
DropMine(c) == IF token = mine[c] THEN token' = None /\ fresh' = FALSE
                                  ELSE UNCHANGED <<token, fresh>>

Clear(c) ==
  /\ pc[c] = "clear" /\ mutex = None
  /\ DropMine(c)
  /\ abandoned' = abandoned \cup {t \in {mine[c]} : kind[c] = "snap" /\ t # None}
  /\ attempt' = [attempt EXCEPT ![c] = 1]
  /\ Goto(c, "login")
  /\ disturbed' = IF kind[c] = "snap" THEN Callers ELSE disturbed
  /\ UNCHANGED <<alive, requestLock, mutex, failKind, kind, mine, result, camera, calls, drops>>

Step(c) ==
  Lock(c) \/ EnsureLogin(c) \/ SignIn(c) \/ Copy(c) \/ Exchange(c) \/ Clear(c)

(* The destructor, once no thread holds the client: logout(), best effort. *)
Destroy ==
  /\ alive /\ \A c \in Callers : pc[c] = "idle"
  /\ alive' = FALSE
  /\ token' = None /\ fresh' = FALSE
  /\ \/ sessions' = sessions \ {token} /\ UNCHANGED abandoned
     \/ UNCHANGED sessions /\ abandoned' = abandoned \cup ({token} \ {None})
  /\ UNCHANGED <<requestLock, mutex, failKind, call, logins, calls, drops, disturbed>>

-----------------------------------------------------------------------------
(* The camera forgets a session; the lease of the token reaches the margin *)
(* before its end.                                                         *)
Drop ==
  /\ drops < MaxDrops
  /\ drops' = drops + 1
  /\ \E t \in sessions : sessions' = sessions \ {t}
  /\ disturbed' = Callers
  /\ UNCHANGED <<client, call, logins, calls, abandoned>>

LeaseEnds ==
  /\ fresh
  /\ fresh' = FALSE
  /\ UNCHANGED <<alive, requestLock, mutex, token, failKind, call, camera, past>>

Next == (\E c \in Callers : Begin(c) \/ Step(c)) \/ Destroy \/ Drop \/ LeaseEnds

(* Every network operation has a time limit (curl's), and no mutex is held *)
(* for ever; nobody owes a call.                                           *)
Fairness == \A c \in Callers : WF_vars(Step(c))

Spec     == Init /\ [][Next]_vars
FairSpec == Spec /\ Fairness
=============================================================================
