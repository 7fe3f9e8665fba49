-------------------------- MODULE DeviceHostProps --------------------------
(***************************************************************************)
(* What the device list promises about a host.                             *)
(***************************************************************************)
EXTENDS DeviceHost

Problems == {"None", "Connecting", "Unreachable", "Auth", "Locked"}
Words    == Passwords \cup {Empty}

Results ==
       [what : {"poll"}, ok : BOOLEAN, known : BOOLEAN, online : SUBSET Channels]
  \cup [what : {"validation"}, ok : {FALSE}, problem : {"Unreachable", "Auth", "Locked"}, pw : Words]
  \cup [what : {"validation"}, ok : {TRUE}, channels : SUBSET Channels, pw : Words]

(* Every variable keeps its type; a listed host has a row.                 *)
TypeOK ==
  /\ listed \in {"never", "yes", "removed"}
  /\ DOMAIN rows \subseteq Channels /\ (listed = "yes") = (DOMAIN rows # {})
  /\ rows \in [DOMAIN rows -> BOOLEAN]
  /\ {primed, validating, retryAt, polling, up} \subseteq BOOLEAN
  /\ {rowPw, keyring} \subseteq Words /\ problem \in Problems
  /\ client \in Words \cup {NoClient} /\ fails \in 0..FailCap /\ silent \in 0..3
  /\ val \in {Off} \cup [pc : {"store", "call"}, pw : Words, store : BOOLEAN]
  /\ poll \in {Off} \cup [pc : {"call"}, pw : Words, chans : SUBSET Channels]
  /\ \A i \in 1..Len(posts) : posts[i] \in Results
  /\ cams \subseteq Channels /\ goodPw \in Passwords /\ live \subseteq Passwords
  /\ told \in {"none", "down", "up"} /\ users \in 0..MaxUser /\ worlds \in 0..MaxWorld
  /\ {valGuesses, pollGuesses} \subseteq 0..GuessCap

(* A validation of the host is under way, or its result is.                *)
InFlight ==
  val.pc # "off" \/ \E i \in 1..Len(posts) : posts[i].what = "validation"

(* A host that could not be reached, or is being connected, has something  *)
(* under way that will try it: it cannot "stay connecting until restart"   *)
(* (pollDetections(), applyValidation(), reconnect()).                     *)
NoHostForgotten ==
  listed = "yes" /\ problem \in {"Connecting", "Unreachable"} => InFlight \/ retryAt

(* "One validation per host at a time": validateAsync() never stacks       *)
(* logins, and m_validating says exactly whether one is under way.         *)
OneValidation ==
  /\ listed = "yes" => validating = InFlight
  /\ \A i, j \in 1..Len(posts) :
       posts[i].what = "validation" /\ posts[j].what = "validation" => i = j
  /\ val.pc # "off" => \A i \in 1..Len(posts) : posts[i].what # "validation"

(* "Auth/Locked never auto-retry": between two acts of the user the list's *)
(* validations waste at most one of the device's login attempts.           *)
OneGuess == valGuesses <= 1

(* "Sign-in failures ... are never auto-retried" (README.md): the same of  *)
(* everything the device list does by itself. The code violates it: the    *)
(* poll signs in again after the password was changed on the device        *)
(* (README.md, known deviations); no run checks it.                        *)
NeverAutoRetried == valGuesses + pollGuesses <= 1

(* Only the user can help: the login is refused, or the rows' client has a *)
(* password of its own that the device does not take.                      *)
NeedsUser ==
  \/ listed # "yes" \/ problem \in {"Auth", "Locked"}
  \/ client \notin {NoClient, goodPw} \cup live

(* From some moment on no single command of a batch fails.                 *)
Whole ==
  /\ val.pc = "call" /\ val'.pc # "call" /\ up /\ val.pw = goodPw =>
       LET v == posts'[Len(posts')] IN v.ok /\ v.channels = IF IsNvr THEN cams ELSE {0}
  /\ poll.pc = "call" /\ poll'.pc # "call" =>
       LET p == posts'[Len(posts')] IN p.ok => p.known = (Cardinality(poll.chans) > 1)

(* An NVR that had no camera on when it was validated shows a placeholder. *)
Placeholder == IsNvr /\ problem = "None" /\ DOMAIN rows = {0}

(* Once the device stays up, an outage that was announced is announced as  *)
(* over (offline rows stay in the poll); and once its cameras are on too,  *)
(* one "appears by itself once it's back", if answers are whole and the    *)
(* user need not act.                                                      *)
ComesBack ==
  /\ <>[]up => (told = "down" ~> told = "up" \/ NeedsUser)
  /\ <>[](up /\ cams = Channels) /\ <>[][Whole]_vars =>
       <>[](NeedsUser \/ Placeholder \/ \E c \in DOMAIN rows : rows[c])

(* "Three consecutive failed poll cycles (~30s) = unreachable": no row is  *)
(* marked online after three failed polls without a sign of life. The code *)
(* violates it: a validation leaves the count of failures as it is         *)
(* (README.md, known deviations); no run checks it.                        *)
OnlineMeansAnswering == silent >= 3 => \A c \in DOMAIN rows : ~rows[c]
=============================================================================
