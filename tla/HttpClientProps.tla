-------------------------- MODULE HttpClientProps --------------------------
(***************************************************************************)
(* What a device's client must get right, whatever its threads do.         *)
(***************************************************************************)
EXTENDS HttpClient

Stages  == {"idle", "lock", "login", "signin", "copy", "exchange", "clear"}
Reasons == {"None", "Transport", "Auth", "Locked", "Protocol"}
Results == {"none", "ok", "transport", "rejected", "garbled", "refused"}

(* Every variable keeps its type.                                          *)
TypeOK ==
  /\ {alive, fresh} \subseteq BOOLEAN
  /\ {requestLock, mutex} \subseteq Callers \cup {None}
  /\ token \in Tokens \cup {None} /\ failKind \in Reasons
  /\ pc \in [Callers -> Stages] /\ kind \in [Callers -> Kinds]
  /\ attempt \in [Callers -> {0, 1}] /\ mine \in [Callers -> Tokens \cup {None}]
  /\ result \in [Callers -> Results]
  /\ sessions \subseteq 1..logins /\ logins \in 0..MaxTokens
  /\ abandoned \subseteq 1..logins /\ disturbed \subseteq Callers
  /\ calls \in 0..MaxCalls /\ drops \in 0..MaxDrops

(* "Deliberately SERIAL: one api.cgi request in flight per device at a     *)
(* time" (ReolinkHttpClient.h), the slow commands and their logins apart.  *)
Commanding(c) == kind[c] # "slow" /\ pc[c] \in {"signin", "exchange"}

OneCommandAtATime ==
  \A c, d \in Callers : Commanding(c) /\ Commanding(d) => c = d

(* "Only drop the token WE used, so a token another thread just refreshed  *)
(* survives": a command throws away no token that the camera still         *)
(* honours; a snapshot that the camera refuses throws away its own.        *)
OnlyDeadTokensAreDropped ==
  [][alive' /\ token # None /\ token' = None =>
       \/ token \notin sessions
       \/ \E c \in Callers : pc[c] = "clear" /\ kind[c] = "snap" /\ mine[c] = token]_vars

(* The device's few sessions are not used up: one that the client no       *)
(* longer knows was left at the end of a lease, by a login that looked     *)
(* like a failure or by a refused snapshot, never by a late retry.         *)
SessionsAreAccounted == sessions \subseteq {token} \cup abandoned

(* "Retries once on please login first" is enough: a call is turned away   *)
(* for want of a login only if the camera forgot a session, or refused a   *)
(* snapshot, meanwhile.                                                    *)
OneRetryIsEnough ==
  \A c \in Callers : pc[c] = "idle" /\ result[c] = "refused" => c \in disturbed

(* Every call returns, and so every thread gets its turn at the device.    *)
CallsEnd == \A c \in Callers : pc[c] # "idle" ~> pc[c] = "idle"
=============================================================================
