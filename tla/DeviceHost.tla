----------------------------- MODULE DeviceHost -----------------------------
(***************************************************************************)
(* One camera or NVR in the device list (device/DeviceManager.cpp): its    *)
(* validation in the background, the retry of a failed one, the 10 s poll, *)
(* the online marks of its rows, its password and its removal.  Hosts      *)
(* share nothing but the poll tick, and AUTOINCREMENT never gives a second *)
(* host the same id, so one host stands for each of them.                  *)
(*                                                                         *)
(* The list belongs to the GUI thread.  validateAsync() and the poll run   *)
(* in the thread pool on copies of what they need and post their results.  *)
(* How long the backoff is (15 s doubling to 300 s) is left out: a retry   *)
(* that is scheduled falls due at some later tick.  A client's call is     *)
(* HttpClient's: it signs in when the camera does not know its token.      *)
(***************************************************************************)
EXTENDS Integers, Sequences, FiniteSets

CONSTANTS
  Channels,        \* of the NVR; {0} is a camera
  Passwords,       \* the empty one is 0
  MaxUser,         \* bound: actions of the user
  MaxWorld,        \* bound: times the device changes
  KeyringFails,    \* the keyring may be unavailable
  PasswordChanges, \* somebody may change the device's password
  CamerasVary,     \* an NVR's cameras may be off while the NVR is up
  PartialReplies   \* single commands of a batch may fail

ASSUME HostAssumption ==
  /\ 0 \in Channels /\ Passwords # {} /\ Passwords \subseteq Nat \ {0}
  /\ {MaxUser, MaxWorld} \subseteq Nat
  /\ {KeyringFails, PasswordChanges, CamerasVary, PartialReplies} \subseteq BOOLEAN

Empty    == 0
NoClient == -1
FailCap  == 4       \* bound: only fails = 3 and fails >= 3 matter
GuessCap == 2       \* bound: rejected logins are counted up to here
NoRows   == [c \in {} |-> FALSE]
Off      == [pc |-> "off"]
IsNvr    == Channels # {0}

VARIABLES
  \* the entries of the host, GUI thread
  listed,      \* "never" | "yes" | "removed"
  rows,        \* online, by the channels that have a row
  primed, rowPw, problem,
  client,      \* the password of the rows' client, or NoClient
  validating,  \* in m_validating
  retryAt,     \* in m_nextRetryAt
  fails,       \* m_hostFails
  polling,     \* m_pollInFlight
  posts,       \* results on their way to the GUI thread
  \* the pool
  val, poll,   \* what a worker is doing, or Off
  \* the keyring and the device
  keyring, up, cams, goodPw,
  live,        \* passwords whose client has a session on the device
  \* history
  users, worlds,
  silent,      \* failed polls since the device was last known to answer
  told,        \* the last host-level connectivityChanged
  valGuesses,  \* rejected logins since the user last did something: of
  pollGuesses  \* validations, of polls

entry  == <<listed, rows, primed, rowPw, problem, client>>
sched  == <<validating, retryAt, fails, polling>>
world  == <<keyring, up, cams, goodPw, live, worlds>>
past   == <<users, silent, told, valGuesses, pollGuesses>>
vars   == <<entry, sched, posts, val, poll, world, past>>

HostRow == [c \in {0} |-> FALSE]
Guess(n) == IF n < GuessCap THEN n + 1 ELSE n
Job(p, store) == [pc |-> "store", pw |-> p, store |-> store]

(* A new installation, or one with the host in its database.               *)
Init ==
  /\ \/ listed = "never" /\ rows = NoRows /\ validating = FALSE /\ val = Off
        /\ keyring = Empty
     \/ listed = "yes" /\ rows = HostRow /\ validating = TRUE /\ val = Job(Empty, FALSE)
        /\ keyring \in Passwords
  /\ primed = FALSE /\ rowPw = Empty /\ problem = "Connecting" /\ client = NoClient
  /\ retryAt = FALSE /\ fails = 0 /\ polling = FALSE
  /\ posts = <<>> /\ poll = Off
  /\ up \in BOOLEAN /\ goodPw \in Passwords /\ live = {}
  /\ cams \in IF CamerasVary THEN {{}, Channels} ELSE {Channels}
  /\ users = 0 /\ worlds = 0 /\ silent = 0 /\ told = "none"
  /\ valGuesses = 0 /\ pollGuesses = 0

-----------------------------------------------------------------------------
(* Mutant: a second validation is started beside the first.                *)
ValidateAsyncAgain(p, store, there) ==
  IF there
    THEN validating' = TRUE /\ val' = Job(p, store)
    ELSE UNCHANGED <<validating, val>>

(* validateAsync(): one at a time, and none for a host that is gone.       *)
ValidateAsync(p, store, there) ==
  IF there /\ ~validating
    THEN validating' = TRUE /\ val' = Job(p, store)
    ELSE UNCHANGED <<validating, val>>

(* The user.                                                               *)
Act == users < MaxUser /\ users' = users + 1 /\ valGuesses' = 0 /\ pollGuesses' = 0

AddDevice(p) ==
  /\ listed = "never" /\ Act
  /\ listed' = "yes" /\ rows' = HostRow
  /\ ValidateAsync(p, TRUE, TRUE)
  /\ UNCHANGED <<primed, rowPw, problem, client, retryAt, fails, polling, posts, poll, world,
                 silent, told>>

(* reconnect(), and the part that updateCredentials() shares with it.      *)
ConnectAgain(p, store) ==
  /\ listed = "yes" /\ Act
  /\ retryAt' = FALSE
  /\ problem' = "Connecting"
  /\ ValidateAsync(p, store, TRUE)
  /\ UNCHANGED <<listed, rows, primed, rowPw, client, fails, polling, posts, poll, world,
                 silent, told>>

Reconnect == ConnectAgain(Empty, FALSE)

UpdateCredentials(p) == ConnectAgain(p, TRUE)

RemoveDevice ==
  /\ listed = "yes" /\ Act
  /\ listed' = "removed" /\ rows' = NoRows /\ keyring' = Empty
  /\ client' = NoClient
  /\ UNCHANGED <<primed, rowPw, problem, sched, posts, val, poll, up, cams, goodPw, live, worlds,
                 silent, told>>

(* clientFor(): any page that wants something from a primed row.           *)
ClientFor ==
  /\ listed = "yes" /\ primed /\ client = NoClient
  /\ client' = rowPw
  /\ UNCHANGED <<listed, rows, primed, rowPw, problem, sched, posts, val, poll, world, past>>

User ==
  \/ \E p \in Passwords \cup {Empty} : AddDevice(p)
  \/ \E p \in Passwords : UpdateCredentials(p)
  \/ Reconnect \/ RemoveDevice \/ ClientFor

-----------------------------------------------------------------------------
(* The validation in the pool                                              *)

Failed(problem_, p) == [what |-> "validation", ok |-> FALSE, problem |-> problem_, pw |-> p]
Valid(p, online)    == [what |-> "validation", ok |-> TRUE, channels |-> online, pw |-> p]

Post(r) == posts' = Append(posts, r)

(* The new password goes to the keyring, an empty one is looked up there.  *)
(* A keyring that fails is only logged.                                    *)
StoreAndLookUp ==
  /\ val.pc = "store"
  /\ \E works \in IF KeyringFails THEN BOOLEAN ELSE {TRUE} :
       LET put   == works /\ val.store /\ val.pw # Empty
           found == IF val.pw # Empty THEN val.pw ELSE IF works THEN keyring ELSE Empty
       IN  /\ keyring' = IF put THEN val.pw ELSE keyring
           /\ IF val.store /\ found = Empty
                THEN val' = Off /\ Post(Failed("Auth", Empty))
                ELSE val' = [val EXCEPT !.pc = "call", !.pw = found] /\ UNCHANGED posts
  /\ UNCHANGED <<entry, sched, poll, up, cams, goodPw, live, worlds, past>>

(* A fresh client signs in and asks for everything.                        *)
CallUnreachable == ~up /\ Post(Failed("Unreachable", val.pw)) /\ UNCHANGED <<live, valGuesses>>

CallRejected ==
  /\ up /\ val.pw # goodPw
  /\ valGuesses' = Guess(valGuesses)
  /\ \E why \in {"Auth", "Locked"} : Post(Failed(why, val.pw))
  /\ UNCHANGED live

CallAnswered ==
  /\ up /\ val.pw = goodPw
  /\ live' = live \cup {val.pw}
  /\ \/ Post(Valid(val.pw, IF IsNvr THEN cams ELSE {0}))
     \/ PartialReplies /\ IsNvr /\ Post(Valid(val.pw, {}))
     \/ PartialReplies /\ Post(Failed("Unreachable", val.pw))
  /\ UNCHANGED valGuesses

Call ==
  /\ val.pc = "call"
  /\ CallUnreachable \/ CallRejected \/ CallAnswered
  /\ val' = Off
  /\ UNCHANGED <<entry, sched, poll, keyring, up, cams, goodPw, worlds, users, silent, told,
                 pollGuesses>>

-----------------------------------------------------------------------------
(* The poll tick, every 10 s: a retry that is due, then one poll unless    *)
(* the last one is still under way.                                        *)
StartPoll ==
  IF listed = "yes" /\ client # NoClient /\ ~polling
    THEN polling' = TRUE /\ poll' = [pc |-> "call", pw |-> client, chans |-> DOMAIN rows]
    ELSE UNCHANGED <<polling, poll>>

PollTick(due) ==
  /\ due => retryAt
  /\ retryAt' = (retryAt /\ ~due)
  /\ ValidateAsync(Empty, FALSE, due /\ listed = "yes")
  /\ StartPoll
  /\ UNCHANGED <<entry, fails, posts, world, past>>

(* The batch of one poll; NVRs with several rows are asked for the state   *)
(* of their channels too.                                                  *)
Polled(ok, known, online) ==
  Post([what |-> "poll", ok |-> ok, known |-> known, online |-> online])

PollFailed ==
  /\ \/ ~up /\ UNCHANGED pollGuesses
     \/ up /\ poll.pw # goodPw /\ poll.pw \notin live /\ pollGuesses' = Guess(pollGuesses)
  /\ Polled(FALSE, FALSE, {})
  /\ UNCHANGED live

PollAnswered ==
  /\ up /\ poll.pw \in live \cup {goodPw}
  /\ live' = live \cup {poll.pw}
  /\ \/ Cardinality(poll.chans) > 1 /\ Polled(TRUE, TRUE, cams)
     \/ (Cardinality(poll.chans) = 1 \/ PartialReplies) /\ Polled(TRUE, FALSE, {})
  /\ UNCHANGED pollGuesses

Poll ==
  /\ poll.pc = "call"
  /\ PollFailed \/ PollAnswered
  /\ poll' = Off
  /\ UNCHANGED <<entry, sched, val, keyring, up, cams, goodPw, worlds, users, silent, told,
                 valGuesses>>

-----------------------------------------------------------------------------
(* Results reach the GUI thread                                            *)

AllRows(b) == [c \in DOMAIN rows |-> b]

(* Mutants: every failure is retried; a failure is retried only while the  *)
(* host has no client of its own.                                          *)
ValidationFailedRetry(v) ==
  /\ rows' = AllRows(FALSE)
  /\ problem' = v.problem /\ primed' = TRUE /\ rowPw' = v.pw
  /\ retryAt' = TRUE
  /\ UNCHANGED <<client, silent>>

ValidationFailedOnce(v) ==
  /\ rows' = AllRows(FALSE)
  /\ problem' = v.problem /\ primed' = TRUE /\ rowPw' = v.pw
  /\ retryAt' = (v.problem = "Unreachable" /\ client = NoClient)
  /\ UNCHANGED <<client, silent>>

(* applyValidation(): the rows stay and are marked; only what may be cured *)
(* by waiting is retried.                                                  *)
ValidationFailed(v) ==
  /\ rows' = AllRows(FALSE)
  /\ problem' = v.problem /\ primed' = TRUE /\ rowPw' = v.pw
  /\ retryAt' = (v.problem = "Unreachable")
  /\ UNCHANGED <<client, silent>>

(* The rows are replaced: one per camera that is online, or a placeholder. *)
ValidationDone(v) ==
  /\ rows' = IF v.channels = {} THEN HostRow ELSE [c \in v.channels |-> TRUE]
  /\ problem' = "None" /\ primed' = TRUE /\ rowPw' = v.pw
  /\ client' = v.pw
  /\ retryAt' = FALSE
  /\ silent' = 0

ApplyValidation(v) ==
  /\ IF listed = "yes"
       THEN validating' = FALSE /\ IF v.ok THEN ValidationDone(v) ELSE ValidationFailed(v)
       ELSE UNCHANGED <<validating, rows, problem, primed, rowPw, client, retryAt, silent>>
  /\ UNCHANGED <<fails, polling, told>>

(* Mutant: recovery is told only after exactly three failures.             *)
HostAnsweredAtThree(known, online) ==
  LET back == IF fails = 3 THEN AllRows(TRUE) ELSE rows
  IN  /\ rows' = [c \in DOMAIN rows |-> IF known THEN c \in online ELSE back[c]]
      /\ told' = IF fails = 3 THEN "up" ELSE told
      /\ fails' = 0
      /\ silent' = 0

(* applyConnectivity(): three failed polls in a row are an outage, the     *)
(* next good one ends it; then the channels that were reported.            *)
HostSilent ==
  /\ fails' = IF fails < FailCap THEN fails + 1 ELSE fails
  /\ silent' = IF silent < 3 THEN silent + 1 ELSE silent
  /\ IF fails + 1 = 3 THEN rows' = AllRows(FALSE) /\ told' = "down" ELSE UNCHANGED <<rows, told>>

HostAnswered(known, online) ==
  LET back == IF fails >= 3 THEN AllRows(TRUE) ELSE rows
  IN  /\ rows' = [c \in DOMAIN rows |-> IF known THEN c \in online ELSE back[c]]
      /\ told' = IF fails >= 3 THEN "up" ELSE told
      /\ fails' = 0
      /\ silent' = 0

ApplyPoll(r) ==
  /\ polling' = FALSE
  /\ IF r.ok THEN HostAnswered(r.known, r.online) ELSE HostSilent
  /\ UNCHANGED <<validating, problem, primed, rowPw, client, retryAt>>

Deliver ==
  /\ posts # <<>>
  /\ posts' = Tail(posts)
  /\ IF Head(posts).what = "poll" THEN ApplyPoll(Head(posts)) ELSE ApplyValidation(Head(posts))
  /\ UNCHANGED <<listed, val, poll, world, users, valGuesses, pollGuesses>>

-----------------------------------------------------------------------------
(* The device                                                              *)
Change == worlds < MaxWorld /\ worlds' = worlds + 1

Device ==
  /\ Change
  /\ \/ up' = ~up /\ live' = {} /\ UNCHANGED <<cams, goodPw>>
     \/ /\ CamerasVary
        /\ \E S \in SUBSET Channels : S # cams /\ cams' = S
        /\ UNCHANGED <<up, goodPw, live>>
     \/ PasswordChanges /\ goodPw' \in Passwords \ {goodPw} /\ live' = {} /\ UNCHANGED <<up, cams>>
  /\ UNCHANGED <<entry, sched, posts, val, poll, keyring, past>>

Pool == StoreAndLookUp \/ Call

Next == User \/ Pool \/ Poll \/ Deliver \/ Device \/ \E due \in BOOLEAN : PollTick(due)

(* The timer ticks, a retry falls due, the pool works (every network call  *)
(* has a time limit) and the event loop delivers.                          *)
Fairness ==
  /\ \A due \in BOOLEAN : WF_vars(PollTick(due))
  /\ WF_vars(Pool) /\ WF_vars(Poll) /\ WF_vars(Deliver)

Spec     == Init /\ [][Next]_vars
FairSpec == Spec /\ Fairness
=============================================================================
