---------------------------- MODULE AlertsProofs ----------------------------
(***************************************************************************)
(* For any cameras, any length of the inbox and any answers of the sites:  *)
(* no event is missed by the polls, and list, table, view and thumbnails   *)
(* of the inbox agree.                                                     *)
(***************************************************************************)
EXTENDS AlertsProps, FiniteSetTheorems, WellFoundedInduction, TLAPS

-----------------------------------------------------------------------------
(* Natural numbers                                                         *)
LEMMA Least ==
  ASSUME NEW T \in SUBSET Nat, T # {}
  PROVE  \E x \in T : \A y \in T : x <= y
<1> DEFINE R == OpToRel(<, Nat)
<1>1. \A x, y \in Nat : <<y, x>> \in R <=> y < x
  BY DEF OpToRel
<1>2. IsWellFoundedOn(R, Nat)
  BY NatLessThanWellFounded
<1> HIDE DEF R
<1>3. PICK x \in T : \A y \in T : ~(<<y, x>> \in R)
  BY <1>2, WFMin
<1>4. x \in Nat /\ \A y \in T : y \in Nat /\ ~(y < x)
  BY <1>1, <1>3
<1> QED BY <1>4

(* Induction, for a set that has a name.                                   *)
LEMMA Induction ==
  ASSUME NEW T, 0 \in T, \A n \in Nat : n \in T => n + 1 \in T
  PROVE  Nat \subseteq T
<1> SUFFICES ASSUME Nat \ T # {} PROVE FALSE
  OBVIOUS
<1>1. PICK x \in Nat \ T : \A y \in Nat \ T : x <= y
  BY Least
<1>2. x # 0 /\ x - 1 \in Nat /\ x - 1 \notin Nat \ T
  BY <1>1
<1>3. (x - 1) + 1 = x
  BY <1>1
<1> QED BY <1>1, <1>2, <1>3

-----------------------------------------------------------------------------
(* Sequences in ascending order                                            *)
Ascends(s, S, n) ==
  /\ s \in [1..n -> S]
  /\ \A i, j \in 1..n : i < j => s[i] < s[j]
  /\ \A x \in S : \E i \in 1..n : s[i] = x

(* There is one for every set of numbers that has an upper bound.          *)
LEMMA AscendingExists ==
  \A m \in Nat : \A S \in SUBSET (0..m) :
    IsFiniteSet(S) /\ Cardinality(S) \in Nat /\ \E s : Ascends(s, S, Cardinality(S))
<1> DEFINE D(m) == \A S \in SUBSET (0..m) :
             IsFiniteSet(S) /\ Cardinality(S) \in Nat /\ \E s : Ascends(s, S, Cardinality(S))
           T == {m \in Nat : D(m)}
<1>0. ASSUME NEW m \in Nat, NEW S \in SUBSET (0..m) PROVE IsFiniteSet(S) /\ Cardinality(S) \in Nat
  <2>1. IsFiniteSet(0..m)
    BY FS_Interval
  <2>2. IsFiniteSet(S)
    BY <2>1, FS_Subset
  <2> QED BY <2>2, FS_CardinalityType
<1>1. ASSUME NEW S, Cardinality(S) = 0, S = {} PROVE \E s : Ascends(s, S, Cardinality(S))
  <2> DEFINE s == [i \in 1..0 |-> 0]
  <2>1. Ascends(s, S, 0)
    BY <1>1 DEF Ascends
  <2> QED BY <2>1, <1>1
<1>2. D(0)
  <2> SUFFICES ASSUME NEW S \in SUBSET (0..0), S # {} PROVE \E s : Ascends(s, S, Cardinality(S))
    BY <1>0, <1>1, FS_EmptySet
  <2>1. S = {0}
    <3>1. \A x \in S : x = 0
      OBVIOUS
    <3> QED BY <3>1
  <2>2. Cardinality(S) = 1
    BY <2>1, FS_Singleton
  <2> DEFINE s == [i \in 1..1 |-> 0]
  <2>3. Ascends(s, S, 1)
    BY <2>1 DEF Ascends
  <2> QED BY <2>2, <2>3
<1>3. ASSUME NEW m \in Nat, D(m) PROVE D(m + 1)
  <2> SUFFICES ASSUME NEW S \in SUBSET (0..m + 1) PROVE \E s : Ascends(s, S, Cardinality(S))
    <3>1. m + 1 \in Nat
      OBVIOUS
    <3> QED BY <1>0, <3>1
  <2>1. CASE m + 1 \notin S
    <3>1. S \in SUBSET (0..m)
      BY <2>1
    <3> QED BY <1>3, <3>1
  <2>2. CASE m + 1 \in S
    <3> DEFINE R == S \ {m + 1}
               n == Cardinality(R)
    <3>1. R \in SUBSET (0..m)
      OBVIOUS
    <3>2. IsFiniteSet(R) /\ n \in Nat
      BY <3>1, <1>0
    <3>3. PICK r : Ascends(r, R, n)
      BY <1>3, <3>1
    <3>4. S = R \cup {m + 1} /\ m + 1 \notin R
      BY <2>2
    <3>5. Cardinality(S) = n + 1
      BY <3>2, <3>4, FS_AddElement
    <3> DEFINE s == [i \in 1..n + 1 |-> IF i = n + 1 THEN m + 1 ELSE r[i]]
    <3>6. Ascends(s, S, n + 1)
      <4> HIDE DEF R, n
      <4>1. s \in [1..n + 1 -> S]
        BY <3>2, <3>3, <3>4 DEF Ascends
      <4>2. ASSUME NEW i \in 1..n + 1, NEW j \in 1..n + 1, i < j PROVE s[i] < s[j]
        <5>1. i \in 1..n /\ s[i] = r[i]
          BY <3>2, <4>2
        <5>2. r[i] \in 0..m
          BY <3>1, <3>3, <5>1 DEF Ascends
        <5>3. CASE j = n + 1
          BY <5>1, <5>2, <5>3
        <5>4. CASE j # n + 1
          <6>1. j \in 1..n /\ s[j] = r[j]
            BY <3>2, <5>4
          <6> QED BY <3>3, <4>2, <5>1, <6>1 DEF Ascends
        <5> QED BY <5>3, <5>4
      <4>3. ASSUME NEW x \in S PROVE \E i \in 1..n + 1 : s[i] = x
        <5>1. CASE x = m + 1
          BY <5>1, <3>2
        <5>2. CASE x # m + 1
          <6>1. PICK i \in 1..n : r[i] = x
            BY <3>3, <3>4, <5>2 DEF Ascends
          <6> QED BY <6>1, <3>2
        <5> QED BY <5>1, <5>2
      <4> QED BY <4>1, <4>2, <4>3 DEF Ascends
    <3> QED BY <3>5, <3>6
  <2> QED BY <2>1, <2>2
<1> HIDE DEF D
<1>4. 0 \in T /\ \A m \in Nat : m \in T => m + 1 \in T
  BY <1>2, <1>3
<1>5. Nat \subseteq T
  BY <1>4, Induction
<1> QED BY <1>5 DEF D

(* And only one.                                                           *)
LEMMA AscendingIsOne ==
  ASSUME NEW S \in SUBSET Nat, NEW n \in Nat, NEW m \in Nat, NEW s, NEW t,
         Ascends(s, S, n), Ascends(t, S, m)
  PROVE  n = m /\ s = t
<1> DEFINE P(k) == k \in 1..n => k \in 1..m /\ t[k] = s[k]
           Q(k) == k \in 1..m => k \in 1..n /\ t[k] = s[k]
           B == {k \in Nat : ~(P(k) /\ Q(k))}
<1>0. /\ \A i \in 1..n : s[i] \in S /\ s[i] \in Nat
      /\ \A i \in 1..m : t[i] \in S /\ t[i] \in Nat
      /\ \A i, j \in 1..n : i < j => s[i] < s[j]
      /\ \A i, j \in 1..m : i < j => t[i] < t[j]
  BY DEF Ascends
<1>1. ASSUME B # {} PROVE FALSE
  <2>1. PICK k \in B : \A j \in B : k <= j
    BY <1>1, Least
  <2>2. \A j \in Nat : j < k => P(j) /\ Q(j)
    BY <2>1
  <2>3. k \in Nat /\ ~(P(k) /\ Q(k))
    BY <2>1
  <2> HIDE DEF B
  <2>4. CASE k \in 1..n
    <3>1. PICK j \in 1..m : t[j] = s[k]
      BY <1>0, <2>4 DEF Ascends
    <3>2. k <= j
      <4>1. ASSUME j < k PROVE FALSE
        <5>1. j \in 1..n /\ t[j] = s[j]
          BY <2>2, <3>1, <4>1
        <5>2. s[j] < s[k]
          BY <1>0, <4>1, <5>1, <2>4
        <5> QED BY <3>1, <5>1, <5>2, <2>4, <1>0
      <4> QED BY <4>1, <3>1, <2>3
    <3>3. k \in 1..m
      BY <3>1, <3>2, <2>4
    <3>4. PICK i \in 1..n : s[i] = t[k]
      BY <1>0, <3>3 DEF Ascends
    <3>5. k <= i
      <4>1. ASSUME i < k PROVE FALSE
        <5>1. i \in 1..m /\ t[i] = s[i]
          BY <2>2, <3>4, <4>1
        <5>2. t[i] < t[k]
          BY <1>0, <4>1, <5>1, <3>3
        <5> QED BY <3>4, <5>1, <5>2, <3>3, <1>0
      <4> QED BY <4>1, <3>4, <2>3
    <3>6. s[k] <= s[i] /\ t[k] <= t[j]
      <4>1. k = i \/ k < i
        BY <3>4, <3>5, <2>3
      <4>2. k = j \/ k < j
        BY <3>1, <3>2, <2>3
      <4>3. s[k] <= s[i]
        BY <4>1, <3>4, <2>4, <1>0
      <4>4. t[k] <= t[j]
        BY <4>2, <3>1, <3>3, <1>0
      <4> QED BY <4>3, <4>4
    <3>7. s[k] = t[k]
      BY <3>1, <3>4, <3>6, <2>4, <3>3, <1>0
    <3> QED BY <2>3, <2>4, <3>3, <3>7
  <2>5. CASE k \in 1..m
    <3>1. k \notin 1..n => FALSE
      <4> SUFFICES ASSUME k \notin 1..n PROVE FALSE
        OBVIOUS
      <4>1. PICK i \in 1..n : s[i] = t[k]
        BY <1>0, <2>5 DEF Ascends
      <4>2. i < k
        BY <4>1, <2>5
      <4>3. i \in 1..m /\ t[i] = s[i]
        BY <2>2, <4>1, <4>2
      <4>4. t[i] < t[k]
        BY <4>2, <4>3, <2>5, <1>0
      <4> QED BY <4>1, <4>3, <4>4, <2>5, <1>0
    <3> QED BY <3>1, <2>4
  <2> QED BY <2>3, <2>4, <2>5
<1>2. \A k \in Nat : P(k) /\ Q(k)
  BY <1>1
<1>3. n = m
  <2>1. n # 0 => n \in 1..m
    BY <1>2
  <2>2. m # 0 => m \in 1..n
    BY <1>2
  <2> QED BY <2>1, <2>2
<1>4. s \in [1..n -> S] /\ t \in [1..n -> S]
  BY <1>3 DEF Ascends
<1> QED BY <1>2, <1>3, <1>4

LEMMA InOrderAscends ==
  ASSUME NEW m \in Nat, NEW S \in SUBSET (0..m)
  PROVE  IsFiniteSet(S) /\ Cardinality(S) \in Nat /\ Ascends(InOrder(S), S, Cardinality(S))
<1> DEFINE n == Cardinality(S)
<1>1. IsFiniteSet(S) /\ n \in Nat
  BY AscendingExists
<1>2. PICK s : Ascends(s, S, n)
  BY AscendingExists
<1> DEFINE o == InOrder(S)
<1>3. o \in [1..n -> S] /\ \A i, j \in DOMAIN o : i < j => o[i] < o[j]
  <2>1. s \in [1..n -> S] /\ \A i, j \in DOMAIN s : i < j => s[i] < s[j]
    BY <1>2 DEF Ascends
  <2> QED BY <2>1 DEF InOrder
<1> HIDE DEF o
<1>4. o \in Injection(1..n, S)
  <2>1. \A i, j \in 1..n : o[i] = o[j] => i = j
    <3> SUFFICES ASSUME NEW i \in 1..n, NEW j \in 1..n, i < j PROVE o[i] # o[j]
      BY <1>1
    <3>1. o[i] < o[j] /\ o[i] \in 0..m /\ o[j] \in 0..m
      BY <1>3
    <3> QED BY <3>1
  <2> QED BY <1>3, <2>1 DEF Injection, IsInjective
<1>5. Cardinality(1..n) = n
  BY <1>1, FS_Interval
<1>6. o \in Surjection(1..n, S)
  BY <1>1, <1>4, <1>5, FS_Injection
<1>7. \A x \in S : \E i \in 1..n : o[i] = x
  BY <1>6 DEF Surjection
<1> QED BY <1>1, <1>3, <1>7 DEF Ascends, o

LEMMA AscendingIsSeq ==
  ASSUME NEW S, NEW n \in Nat, NEW s \in [1..n -> S]
  PROVE  s \in Seq(S) /\ Len(s) = n /\ DOMAIN s = 1..n
OBVIOUS

(* The cameras have a last one.                                            *)
LEMMA ChannelsEnd == \E m \in Nat : Channels \subseteq 0..m
<1>0. Channels \subseteq Nat /\ IsFiniteSet(Channels)
  BY InboxAssumption DEF InboxAssumption
<1>1. PICK n \in Nat : ExistsBijection(1..n, Channels)
  BY <1>0, FS_NatBijection
<1>2. PICK f \in [1..n -> Channels] : \A c \in Channels : \E i \in 1..n : f[i] = c
  BY <1>1 DEF ExistsBijection, Bijection, Surjection
<1> DEFINE D(k) == k <= n => \E m \in Nat : \A i \in 1..k : f[i] <= m
           T == {k \in Nat : D(k)}
<1>3. D(0)
  OBVIOUS
<1>4. ASSUME NEW k \in Nat, D(k) PROVE D(k + 1)
  <2> SUFFICES ASSUME k + 1 <= n PROVE \E m \in Nat : \A i \in 1..k + 1 : f[i] <= m
    OBVIOUS
  <2>1. PICK m \in Nat : \A i \in 1..k : f[i] <= m
    BY <1>4
  <2>2. f[k + 1] \in Nat /\ \A i \in 1..k : f[i] \in Nat
    <3>1. \A i \in 1..n : f[i] \in Nat
      BY <1>0
    <3>2. k + 1 \in 1..n /\ \A i \in 1..k : i \in 1..n
      OBVIOUS
    <3> QED BY <3>1, <3>2
  <2>3. \E l \in Nat : m <= l /\ f[k + 1] <= l
    <3>1. CASE m <= f[k + 1]
      BY <2>2, <3>1
    <3>2. CASE ~(m <= f[k + 1])
      BY <2>2, <3>2
    <3> QED BY <3>1, <3>2
  <2>4. PICK l \in Nat : m <= l /\ f[k + 1] <= l
    BY <2>3
  <2>5. ASSUME NEW i \in 1..k + 1 PROVE f[i] <= l
    <3>1. CASE i = k + 1
      BY <3>1, <2>4
    <3>2. CASE i # k + 1
      <4>1. i \in 1..k
        BY <3>2
      <4> QED BY <4>1, <2>1, <2>2, <2>4
    <3> QED BY <3>1, <3>2
  <2> QED BY <2>5
<1> HIDE DEF D
<1>5. 0 \in T /\ \A k \in Nat : k \in T => k + 1 \in T
  BY <1>3, <1>4
<1>6. Nat \subseteq T
  BY <1>5, Induction
<1>7. D(n)
  BY <1>6
<1>8. PICK m \in Nat : \A i \in 1..n : f[i] <= m
  BY <1>7 DEF D
<1>9. \A c \in Channels : c \in 0..m
  BY <1>0, <1>2, <1>8
<1> QED BY <1>9

-----------------------------------------------------------------------------
(* The poll of a Reolink host: a camera that was last seen active has      *)
(* raised an alert.                                                        *)
CamerasSeen ==
  seen \in [Channels -> SUBSET Detections] /\ \A c \in Channels : seen[c] # {} => c \in alerted

LEMMA CamerasAnswer ==
  ASSUME CamerasSeen, NEW states \in [Channels -> SUBSET Detections], NEW told,
         HostAnswers(states, told)
  PROVE  CamerasSeen'
<1> DEFINE rises(c) == Edge(states[c], seen[c])
           R        == {c \in Channels : rises(c) # "none"}
           rising   == InOrder(R)
           alerts   == [k \in DOMAIN rising |-> Alert(rising[k], rises(rising[k]))]
           heard    == {alerts[i].channel : i \in DOMAIN alerts}
<1>1. seen' = states /\ alerted' = {c \in alerted \cup heard : states[c] # {}}
  BY DEF HostAnswers
<1>2. R \subseteq heard
  <2>1. PICK m \in Nat : Channels \subseteq 0..m
    BY ChannelsEnd
  <2>2. Ascends(rising, R, Cardinality(R))
    <3>1. R \in SUBSET (0..m)
      BY <2>1
    <3> HIDE DEF R
    <3> QED BY <3>1, InOrderAscends
  <2>3. \A c \in R : \E k \in DOMAIN rising : rising[k] = c
    BY <2>2 DEF Ascends
  <2>4. \A k \in DOMAIN rising : k \in DOMAIN alerts /\ alerts[k].channel = rising[k]
    BY DEF Alert
  <2> HIDE DEF alerts, rising, R
  <2> QED BY <2>3, <2>4
<1>3. ASSUME NEW c \in Channels, states[c] # {}, seen[c] = {} PROVE c \in R
  <2>1. states[c] \subseteq {"person", "motion"}
    BY DEF Detections
  <2> QED BY <1>3, <2>1 DEF Edge
<1> HIDE DEF R, heard
<1>4. \A c \in Channels : states[c] # {} => c \in alerted \cup heard
  BY <1>2, <1>3 DEF CamerasSeen
<1> QED BY <1>1, <1>4 DEF CamerasSeen

LEMMA CamerasNext == CamerasSeen /\ [Next]_vars => CamerasSeen'
<1> SUFFICES ASSUME CamerasSeen, [Next]_vars PROVE CamerasSeen'
  OBVIOUS
<1>1. UNCHANGED Reolink => CamerasSeen'
  BY DEF CamerasSeen, Reolink
<1>2. ASSUME NEW states \in [Channels -> SUBSET Detections], NEW told, HostAnswers(states, told)
      PROVE  CamerasSeen'
  BY <1>2, CamerasAnswer
<1>3. CASE Restart
  BY <1>3 DEF Restart, CamerasSeen
<1>4. ASSUME NEW n, NEW told, FrigateAnswers(n, told) PROVE UNCHANGED Reolink
  BY <1>4 DEF FrigateAnswers
<1>5. ASSUME NEW told, NoAnswer(told) PROVE UNCHANGED Reolink
  BY <1>5 DEF NoAnswer
<1>6. CASE PollHost \/ PollFrigate
  BY <1>1, <1>6 DEF PollHost, PollFrigate
<1>7. ASSUME NEW c, NEW d, Happens(c, d) PROVE UNCHANGED Reolink
  BY <1>7 DEF Happens, polls, Reolink
<1>8. CASE (InboxNext /\ UNCHANGED <<site, polls, happened>>) \/ UNCHANGED vars
  BY <1>1, <1>8 DEF vars, polls, Reolink
<1> QED BY <1>1, <1>2, <1>3, <1>4, <1>5, <1>6, <1>7, <1>8 DEF Next, Site

-----------------------------------------------------------------------------
(* The poll of a Frigate server.  Events are numbered in the order of      *)
(* their starts; a poll asks for those after the watermark; what was last  *)
(* raised of a camera was raised in this run.                              *)
Times ==
  /\ happened \in Seq([channel : Channels \cup {Ignored}, start : Nat])
  /\ \A i, j \in DOMAIN happened : i < j => happened[i].start < happened[j].start

Front == IF watermark = None THEN 0 ELSE watermark

Marks ==
  /\ watermark \in Nat \cup {None}
  /\ watermark = None => raised = {}
  /\ watermark # None => watermark = 0 \/ \E i \in DOMAIN happened : watermark = happened[i].start
  /\ poll # NoPoll /\ site = "frigate" => poll.known = (watermark # None) /\ poll.after = Front

(* last is where a burst of a camera would go on, for the raised R.        *)
LastOf(last, R) ==
  /\ last \in [Channels -> Int]
  /\ \A c \in Channels : last[c] = -Gap \/ \E j \in R : happened[j].channel = c /\ happened[j].start = last[c]

Raised(R) ==
  /\ R \subseteq DOMAIN happened
  /\ \A i \in R : happened[i].start <= Front
  /\ LastOf(lastRaised, R)

Covered(i, R) == happened[i].channel # Ignored => \E j \in R : SameBurst(i, j)

BurstsSeen ==
  watermark # None =>
    \A i \in DOMAIN happened : Start(i) > base /\ Start(i) <= watermark => Covered(i, raised)

FrigateInv == Times /\ Marks /\ Raised(raised) /\ BurstsSeen

LEMMA StartIs ==
  ASSUME Times, NEW i \in DOMAIN happened
  PROVE  Start(i) = happened[i].start /\ happened[i].start \in Nat
         /\ happened[i].channel \in Channels \cup {Ignored}
<1> DEFINE Records == [channel : Channels \cup {Ignored}, start : Nat]
<1>1. i \in 1..Len(happened) /\ happened[i] \in Records
  <2>1. happened \in Seq(Records)
    BY DEF Times
  <2> HIDE DEF Records
  <2> QED BY <2>1
<1> QED BY <1>1 DEF Start

(* What a loop over the events does, step by step.                         *)
LEMMA BurstsAre ==
  ASSUME NEW order, Len(order) \in Nat
  PROVE  \E made : /\ Bursts(order) = made[Len(order)]
                   /\ made[0] = [last |-> lastRaised, raise |-> <<>>]
                   /\ \A k \in 1..Len(order) : made[k] = Heard(made[k - 1], order[k])
<1> DEFINE z    == [last |-> lastRaised, raise |-> <<>>]
           D(n) == \E m : m = [k \in 0..n |-> IF k = 0 THEN z ELSE Heard(m[k - 1], order[k])]
           T    == {n \in Nat : D(n)}
<1>1. D(0)
  <2> DEFINE u == [k \in 0..0 |-> z]
  <2>1. u = [k \in 0..0 |-> IF k = 0 THEN z ELSE Heard(u[k - 1], order[k])]
    OBVIOUS
  <2> QED BY <2>1
<1>2. ASSUME NEW n \in Nat, D(n) PROVE D(n + 1)
  <2>1. PICK m : m = [k \in 0..n |-> IF k = 0 THEN z ELSE Heard(m[k - 1], order[k])]
    BY <1>2
  <2> DEFINE u == [k \in 0..(n + 1) |-> IF k = n + 1 THEN Heard(m[n], order[n + 1]) ELSE m[k]]
  <2>2. ASSUME NEW k \in 0..(n + 1) PROVE u[k] = IF k = 0 THEN z ELSE Heard(u[k - 1], order[k])
    <3>1. CASE k = n + 1
      BY <3>1
    <3>2. CASE k # n + 1
      <4>1. k \in 0..n /\ u[k] = m[k]
        BY <3>2
      <4>2. m[k] = IF k = 0 THEN z ELSE Heard(m[k - 1], order[k])
        BY <2>1, <4>1
      <4>3. k # 0 => u[k - 1] = m[k - 1]
        BY <4>1
      <4> QED BY <4>1, <4>2, <4>3
    <3> QED BY <3>1, <3>2
  <2>3. u = [k \in 0..(n + 1) |-> IF k = 0 THEN z ELSE Heard(u[k - 1], order[k])]
    BY <2>2
  <2> QED BY <2>3
<1> HIDE DEF D
<1>3. 0 \in T /\ \A n \in Nat : n \in T => n + 1 \in T
  BY <1>1, <1>2
<1>4. Nat \subseteq T
  BY <1>3, Induction
<1>5. D(Len(order))
  BY <1>4
<1> DEFINE made == CHOOSE m : m = [k \in 0..Len(order) |-> IF k = 0 THEN z ELSE Heard(m[k - 1], order[k])]
<1>6. made = [k \in 0..Len(order) |-> IF k = 0 THEN z ELSE Heard(made[k - 1], order[k])]
  BY <1>5 DEF D
<1>7. Bursts(order) = made[Len(order)]
  BY DEF Bursts
<1> HIDE DEF made
<1>8. made[0] = z /\ \A k \in 1..Len(order) : made[k] = Heard(made[k - 1], order[k])
  BY <1>6
<1> QED BY <1>7, <1>8

(* One event of the loop: it is raised, or belongs to a burst that was.    *)
LEMMA OneIsHeard ==
  ASSUME Times, NEW R \in SUBSET DOMAIN happened, NEW last, LastOf(last, R), NEW raise \in Seq(Nat),
         NEW i \in DOMAIN happened, \A j \in R : happened[j].start <= happened[i].start
  PROVE  \E l, r :
           /\ Heard([last |-> last, raise |-> raise], i) = [last |-> l, raise |-> r]
           /\ \/ l = last /\ r = raise /\ Covered(i, R)
              \/ /\ r = Append(raise, i) /\ happened[i].channel # Ignored
                 /\ LastOf(l, R \cup {i}) /\ Covered(i, R \cup {i})
<1> DEFINE m == [last |-> last, raise |-> raise]
           e == happened[i]
           c == e.channel
<1>0. Start(i) = e.start /\ e.start \in Nat /\ c \in Channels \cup {Ignored} /\ Gap \in Nat \ {0}
      /\ Ignored \notin Channels
  BY StartIs, AlertsAssumption, InboxAssumption DEF AlertsAssumption, InboxAssumption, Ignored, AnyCamera
<1>1. CASE c = Ignored
  <2>1. Heard(m, i) = m
    BY <1>1 DEF Heard
  <2> QED BY <2>1, <1>1 DEF Covered
<1>2. CASE c # Ignored /\ ~startsNewBurst(last[c], e.start)
  <2>1. Heard(m, i) = m
    BY <1>2 DEF Heard
  <2>2. last[c] \in Int /\ last[c] # -Gap
    BY <1>0, <1>2 DEF LastOf, startsNewBurst
  <2>3. PICK j \in R : happened[j].channel = c /\ happened[j].start = last[c]
    BY <1>0, <1>2, <2>2 DEF LastOf
  <2>4. SameBurst(i, j)
    <3>1. Start(j) = last[c] /\ Start(j) <= Start(i)
      BY <1>0, <2>3, StartIs
    <3> QED BY <1>0, <1>2, <2>3, <3>1 DEF SameBurst
  <2>5. Covered(i, R)
    BY <2>4 DEF Covered
  <2> QED BY <2>1, <2>5
<1>3. CASE c # Ignored /\ startsNewBurst(last[c], e.start)
  <2> DEFINE l == [last EXCEPT ![c] = e.start]
             r == Append(raise, i)
  <2>1. Heard(m, i) = [last |-> l, raise |-> r]
    BY <1>3 DEF Heard
  <2>2. SameBurst(i, i)
    BY <1>0, StartIs DEF SameBurst, startsNewBurst
  <2>4. LastOf(l, R \cup {i})
    BY <1>0, <1>3 DEF LastOf
  <2>5. Covered(i, R \cup {i})
    BY <2>2 DEF Covered
  <2> QED BY <1>3, <2>1, <2>4, <2>5
<1> QED BY <1>1, <1>2, <1>3

Elements(r) == {r[k] : k \in DOMAIN r}

LEMMA AppendElements ==
  ASSUME NEW S, NEW r \in Seq(S), NEW x \in S
  PROVE  Append(r, x) \in Seq(S) /\ Elements(Append(r, x)) = Elements(r) \cup {x}
<1> DEFINE q == Append(r, x)
<1>1. /\ q \in Seq(S) /\ DOMAIN r = 1..Len(r) /\ DOMAIN q = 1..Len(r) + 1 /\ Len(r) \in Nat
      /\ q[Len(r) + 1] = x /\ \A k \in 1..Len(r) : q[k] = r[k]
  OBVIOUS
<1> HIDE DEF q
<1>2. \A k \in DOMAIN q : q[k] \in Elements(r) \cup {x}
  BY <1>1 DEF Elements
<1>3. x \in Elements(q)
  BY <1>1 DEF Elements
<1>4. \A k \in DOMAIN r : r[k] \in Elements(q)
  BY <1>1 DEF Elements
<1> QED BY <1>1, <1>2, <1>3, <1>4 DEF Elements, q

LEMMA CoveredByMore ==
  ASSUME NEW i, NEW R, NEW S, R \subseteq S, Covered(i, R)
  PROVE  Covered(i, S)
BY DEF Covered

(* The whole loop, over the events N.                                      *)
LEMMA BurstsCover ==
  ASSUME Times, NEW R \in SUBSET DOMAIN happened, LastOf(lastRaised, R),
         NEW N \in SUBSET DOMAIN happened, NEW n \in Nat, NEW order, Ascends(order, N, n),
         \A j \in R, i \in N : happened[j].start <= happened[i].start
  PROVE  \E l, r : /\ Bursts(order) = [last |-> l, raise |-> r]
                   /\ r \in Seq(N) /\ LastOf(l, R \cup Elements(r))
                   /\ \A i \in N : Covered(i, R \cup Elements(r))
                   /\ \A j \in Elements(r) : happened[j].channel # Ignored
<1>0. /\ order \in [1..n -> N] /\ Len(order) = n
      /\ \A i, j \in 1..n : i < j => order[i] < order[j]
      /\ \A x \in N : \E i \in 1..n : order[i] = x
  <2>1. order \in [1..n -> N]
    BY DEF Ascends
  <2> QED BY <2>1, AscendingIsSeq DEF Ascends
<1>1. PICK made : /\ Bursts(order) = made[n]
                  /\ made[0] = [last |-> lastRaised, raise |-> <<>>]
                  /\ \A k \in 1..n : made[k] = Heard(made[k - 1], order[k])
  <2>1. Len(order) \in Nat /\ Len(order) = n
    BY <1>0
  <2>2. \E made : /\ Bursts(order) = made[Len(order)]
                  /\ made[0] = [last |-> lastRaised, raise |-> <<>>]
                  /\ \A k \in 1..Len(order) : made[k] = Heard(made[k - 1], order[k])
    BY <2>1, BurstsAre, Zenon
  <2> QED BY <2>1, <2>2
<1> DEFINE Done(k, l, r) ==
             /\ made[k] = [last |-> l, raise |-> r]
             /\ r \in Seq(N) /\ LastOf(l, R \cup Elements(r))
             /\ \A i \in 1..k : Covered(order[i], R \cup Elements(r))
             /\ \A j \in Elements(r) : happened[j].channel # Ignored /\ \E i \in 1..k : j = order[i]
           D(k) == k <= n => \E l, r : Done(k, l, r)
           T    == {k \in Nat : D(k)}
<1>2. D(0)
  <2>1. <<>> \in Seq(N) /\ Elements(<<>>) = {}
    BY DEF Elements
  <2>2. R \cup Elements(<<>>) = R /\ 1..0 = {}
    BY <2>1
  <2>3. LastOf(lastRaised, R \cup Elements(<<>>))
    BY <2>2
  <2>4. Done(0, lastRaised, <<>>)
    BY <1>1, <2>1, <2>2, <2>3
  <2> QED BY <2>4
<1>3. ASSUME NEW k \in Nat, D(k) PROVE D(k + 1)
  <2> SUFFICES ASSUME k + 1 <= n PROVE \E l, r : Done(k + 1, l, r)
    OBVIOUS
  <2>1. k <= n /\ k + 1 \in 1..n /\ (k + 1) - 1 = k
    OBVIOUS
  <2>2. PICK l, r : Done(k, l, r)
    BY <1>3, <2>1
  <2> DEFINE S == R \cup Elements(r)
             i == order[k + 1]
  <2>3. /\ i \in N /\ i \in DOMAIN happened /\ made[k + 1] = Heard([last |-> l, raise |-> r], i)
        /\ r \in Seq(Nat) /\ r \in Seq(N) /\ LastOf(l, S)
    BY <1>0, <1>1, <2>1, <2>2 DEF Times
  <2>4. \A h \in 1..k : h \in 1..k + 1 /\ h < k + 1 /\ h \in 1..n /\ Covered(order[h], S)
    <3>1. \A h \in 1..k : Covered(order[h], S)
      BY <2>2
    <3>2. \A h \in 1..k : h \in 1..k + 1 /\ h < k + 1 /\ h \in 1..n
      BY <2>1
    <3> HIDE DEF S
    <3> QED BY <3>1, <3>2
  <2>5. \A j \in Elements(r) : happened[j].channel # Ignored /\ \E h \in 1..k : j = order[h]
    BY <2>2
  <2>6. S \in SUBSET DOMAIN happened
    BY <1>0, <2>4, <2>5
  <2>7. ASSUME NEW j \in S PROVE happened[j].start <= happened[i].start
    <3>1. CASE j \in R
      BY <3>1, <2>3
    <3>2. CASE j \notin R
      <4>1. PICK h \in 1..k : j = order[h]
        BY <2>5, <3>2
      <4>2. j < i /\ j \in DOMAIN happened
        BY <1>0, <2>1, <2>4, <2>6, <4>1
      <4>3. happened[j].start < happened[i].start
        BY <4>2, <2>3 DEF Times
      <4> QED BY <4>2, <4>3, <2>3, StartIs
    <3> QED BY <3>1, <3>2
  <2>8. PICK m, q :
             /\ Heard([last |-> l, raise |-> r], i) = [last |-> m, raise |-> q]
             /\ \/ m = l /\ q = r /\ Covered(i, S)
                \/ /\ q = Append(r, i) /\ happened[i].channel # Ignored
                   /\ LastOf(m, S \cup {i}) /\ Covered(i, S \cup {i})
    <3> HIDE DEF S, i
    <3> QED BY <2>3, <2>6, <2>7, OneIsHeard
  <2>9. /\ q \in Seq(N) /\ S \subseteq R \cup Elements(q) /\ LastOf(m, R \cup Elements(q))
        /\ Covered(i, R \cup Elements(q))
        /\ Elements(q) = Elements(r) \/ (Elements(q) = Elements(r) \cup {i} /\ happened[i].channel # Ignored)
    <3>1. Elements(Append(r, i)) = Elements(r) \cup {i} /\ Append(r, i) \in Seq(N)
      BY <2>3, AppendElements
    <3>2. CASE m = l /\ q = r /\ Covered(i, S)
      BY <3>2, <2>3
    <3>3. CASE /\ q = Append(r, i) /\ happened[i].channel # Ignored
               /\ LastOf(m, S \cup {i}) /\ Covered(i, S \cup {i})
      <4>1. R \cup Elements(q) = S \cup {i}
        BY <3>1, <3>3
      <4>2. S \subseteq S \cup {i}
        OBVIOUS
      <4> HIDE DEF S, i
      <4> QED BY <3>1, <3>3, <4>1, <4>2
    <3> QED BY <3>2, <3>3, <2>8
  <2> HIDE DEF Done
  <2>10. ASSUME NEW h \in 1..k + 1 PROVE Covered(order[h], R \cup Elements(q))
    <3>1. CASE h = k + 1
      BY <3>1, <2>9
    <3>2. CASE h # k + 1
      <4>1. h \in 1..k
        BY <3>2
      <4>2. Covered(order[h], S)
        BY <2>4, <4>1
      <4> HIDE DEF S
      <4> QED BY <2>9, <4>2, CoveredByMore
    <3> QED BY <3>1, <3>2
  <2>11. ASSUME NEW j \in Elements(q)
         PROVE  happened[j].channel # Ignored /\ \E h \in 1..k + 1 : j = order[h]
    <3>1. CASE j \in Elements(r)
      BY <3>1, <2>4, <2>5
    <3>2. CASE j \notin Elements(r)
      <4>1. j = i /\ happened[i].channel # Ignored /\ k + 1 \in 1..k + 1
        BY <3>2, <2>9
      <4> QED BY <4>1
    <3> QED BY <3>1, <3>2
  <2>12. made[k + 1] = [last |-> m, raise |-> q]
    BY <2>3, <2>8
  <2>13. Done(k + 1, m, q)
    BY <2>9, <2>10, <2>11, <2>12 DEF Done
  <2> QED BY <2>13
<1> HIDE DEF D
<1>4. 0 \in T /\ \A k \in Nat : k \in T => k + 1 \in T
  BY <1>2, <1>3
<1>5. Nat \subseteq T
  BY <1>4, Induction
<1>6. D(n)
  BY <1>5
<1> HIDE DEF Done
<1>7. PICK l, r : Done(n, l, r)
  BY <1>6 DEF D
<1> USE DEF Done
<1>8. ASSUME NEW x \in N PROVE Covered(x, R \cup Elements(r))
  <2>1. PICK i \in 1..n : order[i] = x
    BY <1>0
  <2>2. Covered(order[i], R \cup Elements(r))
    BY <1>7
  <2> QED BY <2>1, <2>2
<1> QED BY <1>1, <1>7, <1>8

(* Steps that leave what Frigate has, and what is known of it, alone.      *)
LEMMA FrigateKept ==
  ASSUME FrigateInv, UNCHANGED <<happened, watermark, lastRaised, base, raised, site>>,
         poll' # NoPoll /\ site = "frigate" =>
           poll'.known = (watermark # None) /\ poll'.after = Front
  PROVE  FrigateInv'
<1>1. Times' /\ Marks'
  BY DEF FrigateInv, Times, Marks, Front
<1>2. Raised(raised)'
  BY DEF FrigateInv, Raised, LastOf, Front
<1>3. BurstsSeen'
  BY DEF FrigateInv, BurstsSeen, Covered, SameBurst, Start
<1> QED BY <1>1, <1>2, <1>3 DEF FrigateInv

LEMMA LaterStarts ==
  ASSUME Times, NEW n \in 0..Len(happened)
  PROVE  /\ Start(n) \in Nat
         /\ Start(n) = 0 \/ \E i \in DOMAIN happened : Start(n) = happened[i].start
         /\ \A i \in DOMAIN happened : i <= n => happened[i].start <= Start(n)
         /\ \A i \in DOMAIN happened : n < i => Start(n) < happened[i].start \/ n = 0
<1>0. DOMAIN happened = 1..Len(happened) /\ Len(happened) \in Nat
  BY DEF Times
<1>1. CASE n = 0
  BY <1>0, <1>1 DEF Start
<1>2. CASE n # 0
  <2>1. n \in DOMAIN happened
    BY <1>0, <1>2
  <2>2. Start(n) = happened[n].start /\ Start(n) \in Nat
    BY <2>1, StartIs
  <2>3. ASSUME NEW i \in DOMAIN happened, i <= n PROVE happened[i].start <= Start(n)
    <3>1. i = n \/ i < n
      BY <1>0, <2>3
    <3>2. happened[i].start \in Nat
      BY StartIs
    <3>3. i < n => happened[i].start < happened[n].start
      BY <2>1 DEF Times
    <3> QED BY <2>2, <3>1, <3>2, <3>3
  <2>4. ASSUME NEW i \in DOMAIN happened, n < i PROVE Start(n) < happened[i].start
    BY <2>1, <2>2, <2>4 DEF Times
  <2> QED BY <2>1, <2>2, <2>3, <2>4
<1> QED BY <1>1, <1>2

(* The events an answer shows for the first time, and what is raised.      *)
Unheard(n) == {i \in 1..n : happened[i].start > poll.after}

LEMMA NewBursts ==
  ASSUME FrigateInv, NEW n \in 0..Len(happened), site = "frigate", poll # NoPoll
  PROVE  /\ Unheard(n) \in SUBSET DOMAIN happened
         /\ \A i \in Unheard(n) : happened[i].start \in Nat /\ happened[i].start > Front /\ i <= n
         /\ \E l, r :
              /\ Bursts(OldestFirst(n, poll.after)) = [last |-> l, raise |-> r]
              /\ r \in Seq(Unheard(n)) /\ LastOf(l, raised \cup Elements(r))
              /\ \A i \in Unheard(n) : Covered(i, raised \cup Elements(r))
              /\ \A j \in Elements(r) : happened[j].channel # Ignored
<1> DEFINE N     == Unheard(n)
           order == OldestFirst(n, poll.after)
<1>0. Times /\ Raised(raised) /\ poll.after = Front /\ Front \in Nat
  BY DEF FrigateInv, Marks, Front
<1>1. DOMAIN happened = 1..Len(happened) /\ Len(happened) \in Nat
  BY <1>0 DEF Times
<1>2. Cardinality(N) \in Nat /\ Ascends(order, N, Cardinality(N))
  <2>1. N \in SUBSET (0..n) /\ n \in Nat
    BY <1>1 DEF Unheard
  <2>2. OldestFirst(n, poll.after) = InOrder(N)
    BY DEF OldestFirst, Unheard
  <2> HIDE DEF N
  <2> QED BY <2>1, <2>2, InOrderAscends
<1>3. N \in SUBSET DOMAIN happened
  BY <1>1 DEF Unheard
<1>4. \A i \in N : happened[i].start \in Nat /\ happened[i].start > Front /\ i <= n
  <2>1. \A i \in N : i \in DOMAIN happened /\ i <= n /\ happened[i].start > Front
    BY <1>0, <1>1, <1>3 DEF Unheard
  <2> QED BY <1>0, <2>1, StartIs
<1>5. \A j \in raised : happened[j].start \in Nat /\ happened[j].start <= Front
  BY <1>0, StartIs DEF Raised
<1>6. \A j \in raised, i \in N : happened[j].start <= happened[i].start
  BY <1>0, <1>4, <1>5
<1>7. raised \in SUBSET DOMAIN happened /\ LastOf(lastRaised, raised)
  BY <1>0 DEF Raised
<1> HIDE DEF N, order
<1>8. \E l, r : /\ Bursts(order) = [last |-> l, raise |-> r]
                /\ r \in Seq(N) /\ LastOf(l, raised \cup Elements(r))
                /\ \A i \in N : Covered(i, raised \cup Elements(r))
                /\ \A j \in Elements(r) : happened[j].channel # Ignored
  BY <1>0, <1>2, <1>3, <1>6, <1>7, BurstsCover
<1> QED BY <1>3, <1>4, <1>8 DEF N, order

LEMMA FrigateAnswer ==
  ASSUME FrigateInv, NEW n \in 0..Len(happened), NEW told, FrigateAnswers(n, told)
  PROVE  FrigateInv'
<1>0. /\ Times /\ Marks /\ Raised(raised) /\ BurstsSeen
      /\ happened' = happened /\ site' = site /\ poll' = NoPoll
      /\ poll.known = (watermark # None) /\ poll.after = Front /\ Front \in Nat
  BY DEF FrigateAnswers, FrigateInv, Marks, Front
<1>1. DOMAIN happened = 1..Len(happened) /\ Len(happened) \in Nat
  BY <1>0 DEF Times
<1>2. CASE FirstAnswer(n)
  <2>1. watermark = None /\ raised = {} /\ watermark' = base' /\ UNCHANGED <<lastRaised, raised>>
    BY <1>0, <1>2 DEF FirstAnswer, Marks
  <2>2. /\ watermark' \in Nat
        /\ watermark' = 0 \/ \E i \in DOMAIN happened : watermark' = happened[i].start
    <3>1. \A m \in 0..Len(happened) :
            Start(m) \in Nat /\ (Start(m) = 0 \/ \E i \in DOMAIN happened : Start(m) = happened[i].start)
      BY <1>0, LaterStarts
    <3>2. \E m \in 0..Len(happened) : watermark' = Start(m)
      BY <1>1, <1>2 DEF FirstAnswer
    <3> QED BY <3>1, <3>2
  <2>3. Times' /\ Marks'
    BY <1>0, <2>2 DEF Times, Marks, None
  <2>4. Raised(raised)'
    BY <1>0, <2>1 DEF Raised, LastOf
  <2>5. BurstsSeen'
    <3>1. ASSUME NEW i \in DOMAIN happened PROVE ~(Start(i)' > base' /\ Start(i)' <= watermark')
      <4>1. Start(i)' = Start(i) /\ Start(i) \in Nat
        BY <1>0, StartIs DEF Start
      <4> QED BY <2>1, <2>2, <4>1
    <3> QED BY <1>0, <3>1 DEF BurstsSeen
  <2> QED BY <2>3, <2>4, <2>5 DEF FrigateInv
<1>3. CASE ~FirstAnswer(n)
  <2> DEFINE N == Unheard(n)
             b == Bursts(OldestFirst(n, poll.after))
  <2>1. /\ poll.known /\ UNCHANGED base /\ lastRaised' = b.last
        /\ watermark' = IF Start(n) > Front THEN Start(n) ELSE Front
        /\ raised' = raised \cup {b.raise[k] : k \in DOMAIN b.raise}
    BY <1>0, <1>3 DEF FrigateAnswers
  <2>2. /\ site = "frigate" /\ poll # NoPoll
        /\ N \in SUBSET DOMAIN happened
        /\ \A i \in N : happened[i].start \in Nat /\ happened[i].start > Front /\ i <= n
    BY NewBursts DEF FrigateAnswers
  <2>3. \A j \in raised : happened[j].start \in Nat /\ happened[j].start <= Front
    BY <1>0, StartIs DEF Raised
  <2>4. raised \in SUBSET DOMAIN happened
    BY <1>0 DEF Raised
  <2>5. PICK l, r : /\ b = [last |-> l, raise |-> r]
                    /\ r \in Seq(N) /\ LastOf(l, raised \cup Elements(r))
                    /\ \A i \in N : Covered(i, raised \cup Elements(r))
    BY <2>2, NewBursts
  <2> HIDE DEF N
  <2>6. lastRaised' = l /\ raised' = raised \cup Elements(r) /\ Elements(r) \subseteq N
    <3>1. \A k \in DOMAIN r : r[k] \in N
      BY <2>5
    <3> QED BY <2>1, <2>5, <3>1 DEF Elements
  <2> HIDE DEF b
  <2>7. /\ Start(n) \in Nat
        /\ Start(n) = 0 \/ \E i \in DOMAIN happened : Start(n) = happened[i].start
        /\ \A i \in DOMAIN happened : i <= n => happened[i].start <= Start(n)
        /\ \A i \in DOMAIN happened : n < i => Start(n) < happened[i].start \/ n = 0
    BY <1>0, LaterStarts
  <2>8. watermark # None /\ Front = watermark /\ watermark' \in Nat
    BY <1>0, <2>1, <2>7 DEF Front
  <2>9. Times' /\ Marks'
    <3>1. watermark' = 0 \/ \E i \in DOMAIN happened : watermark' = happened[i].start
      BY <1>0, <2>1, <2>7, <2>8 DEF Marks
    <3> QED BY <1>0, <2>8, <3>1 DEF Times, Marks, None
  <2>10. Raised(raised)'
    <3>1. raised' \subseteq DOMAIN happened
      BY <2>2, <2>4, <2>6
    <3>2. ASSUME NEW i \in raised' PROVE happened[i].start <= watermark'
      <4>1. CASE i \in raised
        BY <1>0, <2>1, <2>3, <2>7, <4>1
      <4>2. CASE i \notin raised
        <5>1. i \in N /\ i \in DOMAIN happened /\ i <= n
          BY <2>2, <2>6, <4>2
        <5> QED BY <2>1, <2>2, <2>7, <5>1, <1>0
      <4> QED BY <4>1, <4>2
    <3>3. LastOf(lastRaised, raised)'
      BY <1>0, <2>5, <2>6 DEF LastOf
    <3>4. Front' = watermark'
      BY <2>8 DEF Front, None
    <3> QED BY <1>0, <3>1, <3>2, <3>3, <3>4 DEF Raised
  <2>11. BurstsSeen'
    <3> SUFFICES ASSUME NEW i \in DOMAIN happened, Start(i) > base, Start(i) <= watermark'
                 PROVE  Covered(i, raised')
      BY <1>0, <2>1 DEF BurstsSeen, Start, Covered, SameBurst
    <3>0. Start(i) = happened[i].start /\ Start(i) \in Nat
      BY <1>0, StartIs
    <3>1. CASE Start(i) <= watermark
      <4>1. Covered(i, raised)
        BY <1>0, <2>8, <3>1 DEF BurstsSeen
      <4> QED BY <2>6, <4>1, CoveredByMore
    <3>2. CASE ~(Start(i) <= watermark)
      <4>1. Start(i) > Front /\ Start(i) <= Start(n)
        BY <1>0, <2>1, <2>7, <2>8, <3>0, <3>2
      <4>2. i <= n
        <5>1. n = 0 => Start(n) = 0
          BY DEF Start
        <5> QED BY <1>0, <1>1, <2>7, <3>0, <4>1, <5>1
      <4>3. i \in N
        BY <1>0, <1>1, <3>0, <4>1, <4>2 DEF N, Unheard
      <4> QED BY <2>5, <2>6, <4>3
    <3> QED BY <3>1, <3>2
  <2> QED BY <2>9, <2>10, <2>11 DEF FrigateInv
<1> QED BY <1>2, <1>3

LEMMA OneMoreHappens ==
  ASSUME FrigateInv, NEW c \in Channels \cup {Ignored}, NEW d \in Spacing, Happens(c, d)
  PROVE  FrigateInv'
<1> DEFINE n       == Len(happened)
           e       == [channel |-> c, start |-> Start(n) + d]
           Records == [channel : Channels \cup {Ignored}, start : Nat]
<1>0. /\ Times /\ Marks /\ Raised(raised) /\ BurstsSeen
      /\ happened' = Append(happened, e)
      /\ UNCHANGED <<site, poll, watermark, lastRaised, base, raised>>
  BY DEF FrigateInv, Happens, polls
<1>1. happened \in Seq(Records) /\ n \in Nat
  BY <1>0 DEF Times
<1>2. n \in 0..Len(happened) /\ d \in Nat \ {0}
  BY <1>1, AlertsAssumption DEF AlertsAssumption
<1>3. Start(n) \in Nat /\ \A i \in DOMAIN happened : happened[i].start <= Start(n)
  <2>1. \A i \in DOMAIN happened : i <= n
    BY <1>1
  <2> QED BY <1>0, <1>2, <2>1, LaterStarts
<1>4. e \in Records /\ e.start > Start(n) /\ e.start = Start(n) + d
  BY <1>2, <1>3
<1>5. /\ happened' \in Seq(Records) /\ Len(happened') = n + 1
      /\ DOMAIN happened = 1..n /\ DOMAIN happened' = 1..n + 1
      /\ happened'[n + 1] = e /\ \A i \in 1..n : happened'[i] = happened[i]
  <2> HIDE DEF e, Records
  <2> QED BY <1>0, <1>1, <1>4
<1> HIDE DEF e
<1>6. Times'
  <2>1. ASSUME NEW i \in 1..n + 1, NEW j \in 1..n + 1, i < j
        PROVE  happened'[i].start < happened'[j].start
    <3>1. i \in 1..n /\ happened'[i] = happened[i] /\ happened[i].start \in Nat
      BY <1>0, <1>1, <1>5, <2>1, StartIs
    <3>2. CASE j \in 1..n
      BY <1>0, <1>5, <2>1, <3>1, <3>2 DEF Times
    <3>3. CASE j = n + 1
      BY <1>3, <1>4, <1>5, <3>1, <3>3
    <3> QED BY <1>1, <3>2, <3>3
  <2> QED BY <1>5, <2>1 DEF Times
<1>7. Marks'
  BY <1>0, <1>5, <1>1 DEF Marks, Front
<1>8. Raised(raised)'
  BY <1>0, <1>5, <1>1 DEF Raised, LastOf, Front
<1>9. BurstsSeen'
  <2> SUFFICES ASSUME watermark # None, NEW i \in 1..n + 1, Start(i)' > base, Start(i)' <= watermark
               PROVE  Covered(i, raised)'
    BY <1>0, <1>5 DEF BurstsSeen
  <2>1. watermark \in Nat /\ watermark <= Start(n)
    <3>1. CASE watermark = 0
      BY <1>3, <3>1
    <3>2. CASE watermark # 0
      BY <1>0, <1>3, <3>2, StartIs DEF Marks
    <3> QED BY <3>1, <3>2
  <2>2. Start(i)' = happened'[i].start
    BY <1>1 DEF Start
  <2>3. i # n + 1
    BY <1>3, <1>4, <1>5, <2>1, <2>2
  <2>4. i \in 1..n /\ Start(i)' = Start(i)
    BY <1>1, <1>5, <2>3 DEF Start
  <2>5. Covered(i, raised)
    BY <1>0, <1>5, <2>4 DEF BurstsSeen
  <2>6. \A j \in raised : j \in 1..n /\ Start(j)' = Start(j)
    BY <1>0, <1>5, <1>1 DEF Raised, Start
  <2> QED BY <1>0, <1>5, <2>4, <2>5, <2>6 DEF Covered, SameBurst, startsNewBurst
<1> QED BY <1>6, <1>7, <1>8, <1>9 DEF FrigateInv

LEMMA FreshIsFine ==
  ASSUME Times', poll' = NoPoll, watermark' = None, raised' = {}, lastRaised' = [c \in Channels |-> -Gap]
  PROVE  FrigateInv'
BY AlertsAssumption DEF AlertsAssumption, FrigateInv, Marks, Raised, LastOf, BurstsSeen, Front

LEMMA FrigateInit == Init => FrigateInv
<1> SUFFICES ASSUME Init PROVE FrigateInv
  OBVIOUS
<1>1. happened = <<>> /\ poll = NoPoll /\ watermark = None /\ raised = {}
      /\ lastRaised = [c \in Channels |-> -Gap]
  BY DEF Init, Fresh
<1>2. Times
  BY <1>1 DEF Times
<1> QED
  BY <1>1, <1>2, AlertsAssumption
  DEF AlertsAssumption, FrigateInv, Marks, Raised, LastOf, BurstsSeen, Front

LEMMA FrigateNext == FrigateInv /\ [Next]_vars => FrigateInv'
<1> SUFFICES ASSUME FrigateInv, [Next]_vars PROVE FrigateInv'
  OBVIOUS
<1>1. CASE PollHost
  BY <1>1, FrigateKept DEF PollHost, Frigate
<1>2. CASE PollFrigate
  BY <1>2, FrigateKept DEF PollFrigate, Frigate, Front
<1>3. ASSUME NEW c \in Channels \cup {Ignored}, NEW d \in Spacing, Happens(c, d) PROVE FrigateInv'
  BY <1>3, OneMoreHappens
<1>4. ASSUME NEW told, NoAnswer(told) PROVE FrigateInv'
  BY <1>4, FrigateKept DEF NoAnswer, Frigate
<1>5. ASSUME NEW states, NEW told, HostAnswers(states, told) PROVE FrigateInv'
  BY <1>5, FrigateKept DEF HostAnswers, Frigate
<1>6. ASSUME NEW n \in 0..Len(happened), NEW told, FrigateAnswers(n, told) PROVE FrigateInv'
  BY <1>6, FrigateAnswer
<1>7. CASE Restart
  <2>1. Times'
    BY <1>7 DEF Restart, FrigateInv, Times
  <2> QED BY <1>7, <2>1, FreshIsFine DEF Restart
<1>8. CASE (InboxNext /\ UNCHANGED <<site, polls, happened>>) \/ UNCHANGED vars
  <2>1. UNCHANGED <<site, poll, watermark, lastRaised, base, raised, happened>>
    BY <1>8 DEF vars, polls
  <2> QED BY <2>1, FrigateKept DEF FrigateInv, Marks
<1> QED BY <1>1, <1>2, <1>3, <1>4, <1>5, <1>6, <1>7, <1>8 DEF Next, Site

(* However polls fail, are late or see several events at once, every camera*)
(* seen active has raised an alert, and every Frigate event since the first*)
(* answer was raised or belongs to a burst that was.                       *)
THEOREM NoEventIsMissed == Spec => []NothingIsMissed
<1>1. Init => CamerasSeen /\ FrigateInv
  <2>1. Init => CamerasSeen
    BY DEF Init, Fresh, CamerasSeen
  <2> QED BY <2>1, FrigateInit
<1>2. CamerasSeen /\ FrigateInv => NothingIsMissed
  BY DEF CamerasSeen, FrigateInv, BurstsSeen, Covered, NothingIsMissed
<1> QED BY <1>1, <1>2, CamerasNext, FrigateNext, PTL DEF Spec

-----------------------------------------------------------------------------
(* Lists                                                                   *)
LEMMA InFront ==
  ASSUME NEW S, NEW x \in S, NEW s \in Seq(S)
  PROVE  LET q == <<x>> \o s
         IN  /\ q \in Seq(S) /\ Len(s) \in Nat /\ Len(q) = Len(s) + 1
             /\ DOMAIN s = 1..Len(s) /\ DOMAIN q = 1..Len(s) + 1
             /\ q[1] = x /\ \A i \in 1..Len(s) : q[i + 1] = s[i]
OBVIOUS

LEMMA NewestIs ==
  ASSUME NEW S, NEW s \in Seq(S), NEW k \in Nat
  PROVE  /\ Newest(s, k) \in Seq(S)
         /\ Len(Newest(s, k)) = IF Len(s) < k THEN Len(s) ELSE k
         /\ DOMAIN Newest(s, k) = 1..Len(Newest(s, k))
         /\ \A i \in 1..Len(Newest(s, k)) : i \in 1..Len(s) /\ Newest(s, k)[i] = s[i]
<1> DEFINE n == IF Len(s) < k THEN Len(s) ELSE k
           q == SubSeq(s, 1, n)
<1>1. Len(s) \in Nat /\ n \in 0..Len(s)
  OBVIOUS
<1> HIDE DEF n
<1>2. q \in Seq(S) /\ Len(q) = n /\ DOMAIN q = 1..n /\ \A i \in 1..n : i \in 1..Len(s) /\ q[i] = s[i]
  BY <1>1
<1> QED BY <1>2 DEF Newest, n

LEMMA NewestOfAll ==
  ASSUME NEW S, NEW s \in Seq(S), NEW k \in Nat, Len(s) <= k
  PROVE  Newest(s, k) = s
<1> DEFINE q == Newest(s, k)
<1>1. q \in Seq(S) /\ Len(q) = Len(s) /\ \A i \in 1..Len(q) : q[i] = s[i]
  BY NewestIs
<1> HIDE DEF q
<1>2. q = s
  BY <1>1
<1> QED BY <1>2 DEF q

LEMMA MaxIs ==
  ASSUME NEW S \in SUBSET Nat, NEW n \in Nat, \A x \in S : x <= n, S # {}
  PROVE  Max(S) \in S /\ \A x \in S : x <= Max(S)
<1> DEFINE T == {m \in Nat : \A x \in S : x <= m}
<1>1. PICK m \in T : \A y \in T : m <= y
  <2>1. T # {} /\ T \in SUBSET Nat
    OBVIOUS
  <2> HIDE DEF T
  <2> QED BY <2>1, Least
<1>2. m \in S
  <2> SUFFICES ASSUME m \notin S PROVE FALSE
    OBVIOUS
  <2>1. m \in Nat /\ \A x \in S : x \in Nat /\ x <= m /\ x # m
    BY <1>1
  <2>2. PICK x \in S : TRUE
    OBVIOUS
  <2>3. m - 1 \in T
    BY <2>1, <2>2
  <2>4. m <= m - 1
    BY <1>1, <2>3
  <2> QED BY <2>1, <2>4
<1>3. \E x \in S : \A y \in S : x >= y
  BY <1>1, <1>2
<1>4. Max(S) \in S /\ \A y \in S : Max(S) >= y
  BY <1>3 DEF Max
<1> QED BY <1>4

(* The indices of the events that pass a filter.                           *)
Fitting(events, f) == {i \in DOMAIN events : matches(events[i], f)}

LEMMA MatchingIs ==
  ASSUME NEW S, NEW s \in Seq(S), NEW f
  PROVE  /\ Matching(s, f) \in Seq(Nat) /\ Ascends(Matching(s, f), Fitting(s, f), Len(Matching(s, f)))
         /\ \A v \in Seq(Nat) : Ascends(v, Fitting(s, f), Len(v)) => v = Matching(s, f)
<1> DEFINE F == Fitting(s, f)
           o == InOrder(F)
           n == Cardinality(F)
<1>1. Len(s) \in Nat /\ F \in SUBSET (0..Len(s)) /\ F \in SUBSET Nat
  BY DEF Fitting
<1>2. o = Matching(s, f)
  BY DEF Matching, Fitting
<1> HIDE DEF F
<1>3. n \in Nat /\ Ascends(o, F, n)
  BY <1>1, InOrderAscends
<1>4. o \in [1..n -> F] /\ o \in [1..n -> Nat]
  BY <1>1, <1>3 DEF Ascends
<1> HIDE DEF o, n
<1>5. o \in Seq(Nat) /\ Len(o) = n
  BY <1>3, <1>4, AscendingIsSeq
<1>6. ASSUME NEW v \in Seq(Nat), Ascends(v, F, Len(v)) PROVE v = o
  BY <1>1, <1>3, <1>6, AscendingIsOne
<1> QED BY <1>2, <1>3, <1>5, <1>6 DEF F

-----------------------------------------------------------------------------
(* The inductive invariant of the inbox                                    *)
Pictures == [id : 1..MaxAlerts, serial : 1..MaxAlerts]
Shots    == [id : 1..MaxAlerts, serial : 1..MaxAlerts, pc : {"fetch", "saved"}]
News     == [channel : Channels, type : Types]
Views    == [type : Types \cup {AnyType}, camera : Channels \cup {AnyCamera}]

Boxes ==
  [all : Seq(Event), view : Seq(Nat), db : Seq(Event), last : 0..MaxAlerts,
   files : SUBSET Pictures, shots : SUBSET Shots, serial : 0..MaxAlerts]

(* Both lists are newest first.                                            *)
Order(s) ==
  /\ s.last <= s.serial
  /\ NewestFirst(s.all) /\ \A i \in DOMAIN s.all : s.all[i].serial <= s.serial
  /\ NewestFirst(s.db)  /\ \A k \in DOMAIN s.db : s.db[k].serial <= s.serial

IsStored(e) == e.id # -1
Lists(s, e) == \E j \in DOMAIN s.all : s.all[j] = e

(* A stored event of the list is in the table, no further down; the table  *)
(* has nothing that is newer but not listed; and as long as the list is    *)
(* not full, nothing else at all.                                          *)
Table(s) ==
  /\ Len(s.db) <= Len(s.all)
  /\ \A k \in DOMAIN s.db : IsStored(s.db[k])
  /\ \A i \in DOMAIN s.all : IsStored(s.all[i]) =>
       \E k \in 1..i : k \in DOMAIN s.db /\ s.db[k] = s.all[i]
  /\ \A k \in DOMAIN s.db, i \in DOMAIN s.all :
       IsStored(s.all[i]) /\ s.db[k].serial > s.all[i].serial => Lists(s, s.db[k])
  /\ Len(s.all) < Keep => \A k \in DOMAIN s.db : Lists(s, s.db[k])

View(s, f) == Ascends(s.view, Fitting(s.all, f), Len(s.view))

(* While every event could be stored: ids are given once, a capture under  *)
(* way is of an event without a picture, and a picture on disk is an       *)
(* event's, or of a capture that will look at it.                          *)
Numbers(s) ==
  /\ \A i \in DOMAIN s.all : IsStored(s.all[i]) /\ s.all[i].id <= s.last
  /\ \A i, j \in DOMAIN s.all : s.all[i].id = s.all[j].id => i = j
  /\ \A t \in s.shots : t.id <= s.last
  /\ \A t, u \in s.shots : t.id = u.id => t = u

PictureOf(e) == [id |-> e.id, serial |-> e.serial]

Captures(s) ==
  \A t \in s.shots, i \in DOMAIN s.all : s.all[i].id = t.id =>
    /\ s.all[i].serial = t.serial /\ ~s.all[i].thumb
    /\ t.pc = "saved" => PictureOf(s.all[i]) \in s.files

Owned(s, p, lf) ==
  \/ \E i \in DOMAIN s.all : s.all[i].thumb /\ s.all[i].id = p.id
  \/ \E t \in s.shots : t.pc = "saved" /\ t.id = p.id
  \/ p.id \in lf

Thumbs(s, lf) ==
  /\ Numbers(s) /\ Captures(s)
  /\ \A i \in DOMAIN s.all : s.all[i].thumb => PictureOf(s.all[i]) \in s.files
  /\ \A p \in s.files : Owned(s, p, lf)

(* For a box s seen through filter f; bad says that an insert has failed.  *)
Loose(s, f, bad, lf)  == s \in Boxes /\ Order(s) /\ Table(s) /\ View(s, f) /\ (bad \/ Thumbs(s, lf))
BoxInv(s, f, bad, lf) == Loose(s, f, bad, lf) /\ Len(s.all) <= Keep

LEMMA BoxIs ==
  ASSUME NEW s \in Boxes
  PROVE  /\ s.all \in Seq(Event) /\ DOMAIN s.all = 1..Len(s.all) /\ Len(s.all) \in Nat
         /\ s.db \in Seq(Event) /\ DOMAIN s.db = 1..Len(s.db) /\ Len(s.db) \in Nat
         /\ s.view \in Seq(Nat) /\ DOMAIN s.view = 1..Len(s.view) /\ Len(s.view) \in Nat
         /\ s.last \in 0..MaxAlerts /\ s.serial \in 0..MaxAlerts
         /\ s.files \subseteq Pictures /\ s.shots \subseteq Shots
         /\ \A i \in DOMAIN s.all : s.all[i] \in Event
         /\ \A k \in DOMAIN s.db : s.db[k] \in Event
<1>1. /\ s.all \in Seq(Event) /\ s.db \in Seq(Event) /\ s.view \in Seq(Nat)
      /\ s.last \in 0..MaxAlerts /\ s.serial \in 0..MaxAlerts
      /\ s.files \subseteq Pictures /\ s.shots \subseteq Shots
  BY DEF Boxes
<1>2. \A E : \A q \in Seq(E) : DOMAIN q = 1..Len(q) /\ Len(q) \in Nat /\ \A i \in DOMAIN q : q[i] \in E
  OBVIOUS
<1> QED BY <1>1, <1>2

-----------------------------------------------------------------------------
(* An event is added in front                                              *)
Rec(s, e, stored) ==
  [id |-> IF stored THEN NewId(s) ELSE -1, serial |-> s.serial + 1, type |-> e.type,
   channel |-> e.channel, thumb |-> FALSE]

LEMMA AddedIs ==
  ASSUME NEW s \in Boxes, s.last <= s.serial, s.serial < MaxAlerts, NEW e \in News, NEW stored \in BOOLEAN
  PROVE  LET rec == Rec(s, e, stored)
             P   == Added(s, e, stored)
         IN  /\ rec \in Event /\ rec.id = (IF stored THEN s.last + 1 ELSE -1) /\ rec.serial = s.serial + 1
             /\ rec.thumb = FALSE
             /\ P.all = <<rec>> \o s.all
             /\ P.view = Prepended(s.view, matches(rec, filter))
             /\ P.db = (IF stored THEN <<rec>> \o s.db ELSE s.db)
             /\ P.last = (IF stored THEN s.last + 1 ELSE s.last)
             /\ P.files = s.files
             /\ P.shots \in {s.shots, s.shots \cup {[id |-> rec.id, serial |-> rec.serial, pc |-> "fetch"]}}
             /\ ~stored => P.shots = s.shots
             /\ P.serial = s.serial + 1
             /\ P = [all |-> P.all, view |-> P.view, db |-> P.db, last |-> P.last, files |-> P.files,
                     shots |-> P.shots, serial |-> P.serial]
<1> DEFINE rec == Rec(s, e, stored)
           P   == Added(s, e, stored)
<1>0. s.last \in 0..MaxAlerts /\ s.serial \in 0..MaxAlerts /\ MaxAlerts \in Nat
  BY BoxIs, InboxAssumption DEF InboxAssumption
<1>1. rec.id = (IF stored THEN s.last + 1 ELSE -1) /\ rec.serial = s.serial + 1 /\ rec.thumb = FALSE
      /\ rec.type = e.type /\ rec.channel = e.channel
  BY DEF Rec, NewId
<1>2. rec \in Event
  <2>1. rec.id \in -1..MaxAlerts /\ rec.serial \in 1..MaxAlerts
    BY <1>0, <1>1
  <2>2. rec.type \in Types /\ rec.channel \in Channels
    BY <1>1 DEF News
  <2>3. rec = [id |-> rec.id, serial |-> rec.serial, type |-> rec.type, channel |-> rec.channel,
               thumb |-> FALSE]
    BY DEF Rec
  <2>4. \A i \in -1..MaxAlerts, n \in 1..MaxAlerts, t \in Types, c \in Channels :
          [id |-> i, serial |-> n, type |-> t, channel |-> c, thumb |-> FALSE] \in Event
    BY DEF Event
  <2> HIDE DEF rec
  <2>5. [id |-> rec.id, serial |-> rec.serial, type |-> rec.type, channel |-> rec.channel,
         thumb |-> FALSE] \in Event
    BY <2>1, <2>2, <2>4
  <2> QED BY <2>3, <2>5, Zenon
<1>3. P = [s EXCEPT
        !.all    = <<rec>> \o @,
        !.view   = Prepended(@, matches(rec, filter)),
        !.db     = IF stored THEN <<rec>> \o @ ELSE @,
        !.last   = IF stored THEN rec.id ELSE @,
        !.shots  = IF stored /\ e.type \in Detections
                   THEN @ \cup {[id |-> rec.id, serial |-> rec.serial, pc |-> "fetch"]} ELSE @,
        !.serial = @ + 1]
  BY DEF Added, Rec
<1> HIDE DEF rec, P
<1> QED BY <1>1, <1>2, <1>3 DEF Boxes, P, rec

LEMMA AscendsShifted ==
  ASSUME NEW v \in Seq(Nat), NEW F \in SUBSET Nat, Ascends(v, F, Len(v)), NEW fits \in BOOLEAN,
         \A x \in F : x >= 1
  PROVE  LET w == Prepended(v, fits)
         IN  /\ w \in Seq(Nat)
             /\ Ascends(w, (IF fits THEN {1} ELSE {}) \cup {x + 1 : x \in F}, Len(w))
<1> DEFINE n == Len(v)
           h == [i \in DOMAIN v |-> v[i] + 1]
           G == {x + 1 : x \in F}
<1>1. n \in Nat /\ DOMAIN v = 1..n /\ \A i \in 1..n : v[i] \in F /\ v[i] \in Nat
  BY DEF Ascends
<1>2. h \in [1..n -> Nat] /\ h \in [1..n -> G]
  BY <1>1
<1>3. h \in Seq(Nat) /\ Len(h) = n
  BY <1>1, <1>2, AscendingIsSeq
<1>4. /\ \A i, j \in 1..n : i < j => h[i] < h[j]
      /\ \A y \in G : \E i \in 1..n : h[i] = y
      /\ \A i \in 1..n : h[i] \in Nat /\ h[i] > 1 /\ h[i] \in G
  <2>1. \A i \in 1..n : h[i] = v[i] + 1 /\ v[i] >= 1
    BY <1>1
  <2>2. \A i, j \in 1..n : i < j => v[i] < v[j]
    BY DEF Ascends
  <2>3. \A y \in G : \E i \in 1..n : v[i] + 1 = y
    BY DEF Ascends
  <2>4. \A i \in 1..n : h[i] \in Nat /\ h[i] \in G
    BY <1>2
  <2> HIDE DEF h, n, G
  <2>5. \A i, j \in 1..n : i < j => h[i] < h[j]
    BY <1>1, <2>1, <2>2
  <2>6. \A y \in G : \E i \in 1..n : h[i] = y
    BY <2>1, <2>3
  <2>7. \A i \in 1..n : h[i] > 1
    BY <1>1, <2>1
  <2> QED BY <2>4, <2>5, <2>6, <2>7
<1> HIDE DEF h, G, n
<1>5. CASE ~fits
  <2>1. Prepended(v, fits) = h
    BY <1>5 DEF Prepended, h
  <2>2. Ascends(h, G, n)
    BY <1>2, <1>4 DEF Ascends
  <2> QED BY <1>3, <1>5, <2>1, <2>2 DEF G
<1>6. CASE fits
  <2> DEFINE w == <<1>> \o h
             S == {1} \cup G
  <2>1. Prepended(v, fits) = w
    BY <1>6 DEF Prepended, h
  <2>2. /\ w \in Seq(Nat) /\ Len(w) = n + 1 /\ DOMAIN w = 1..n + 1
        /\ w[1] = 1 /\ \A i \in 1..n : w[i + 1] = h[i]
    BY <1>3, InFront
  <2>3. \A i \in 1..n + 1 : i = 1 \/ (i - 1 \in 1..n /\ (i - 1) + 1 = i)
    BY <1>1
  <2> HIDE DEF w
  <2>4. \A i \in 1..n + 1 : i # 1 => w[i] = h[i - 1] /\ i - 1 \in 1..n
    BY <2>2, <2>3
  <2>5. w \in [1..n + 1 -> S]
    <3>1. \A i \in 1..n + 1 : w[i] \in S
      BY <1>4, <2>2, <2>4
    <3> QED BY <2>2, <3>1
  <2>6. ASSUME NEW i \in 1..n + 1, NEW j \in 1..n + 1, i < j PROVE w[i] < w[j]
    <3>1. j # 1 /\ w[j] = h[j - 1] /\ j - 1 \in 1..n
      BY <1>1, <2>4, <2>6
    <3>2. CASE i = 1
      BY <1>4, <2>2, <3>1, <3>2
    <3>3. CASE i # 1
      <4>1. w[i] = h[i - 1] /\ i - 1 \in 1..n /\ i - 1 < j - 1
        BY <2>4, <2>6, <3>3
      <4> QED BY <1>4, <3>1, <4>1
    <3> QED BY <3>2, <3>3
  <2>7. ASSUME NEW y \in S PROVE \E i \in 1..n + 1 : w[i] = y
    <3>1. CASE y = 1
      <4>1. 1 \in 1..n + 1
        BY <1>1
      <4> QED BY <2>2, <3>1, <4>1
    <3>2. CASE y # 1
      <4>1. PICK i \in 1..n : h[i] = y
        BY <1>4, <3>2
      <4>2. i + 1 \in 1..n + 1
        BY <1>1
      <4>3. w[i + 1] = y
        BY <2>2, <4>1
      <4> QED BY <4>2, <4>3
    <3> QED BY <3>1, <3>2
  <2>8. Ascends(w, S, n + 1)
    BY <2>5, <2>6, <2>7 DEF Ascends
  <2> QED BY <1>6, <2>1, <2>2, <2>8 DEF G
<1> QED BY <1>5, <1>6

(* Where the elements are, once one more is in front.                      *)
LEMMA Places ==
  ASSUME NEW S, NEW x \in S, NEW s \in Seq(S)
  PROVE  LET q == <<x>> \o s
         IN  /\ Len(s) \in Nat /\ Len(q) = Len(s) + 1 /\ 1 \in 1..Len(q) /\ q[1] = x
             /\ \A i \in 1..Len(s) : i + 1 \in 1..Len(q) /\ q[i + 1] = s[i]
             /\ \A i \in 1..Len(q) : i = 1 \/ (i > 1 /\ i - 1 \in 1..Len(s) /\ q[i] = s[i - 1])
<1> DEFINE q == <<x>> \o s
           n == Len(s)
<1>1. n \in Nat /\ Len(q) = n + 1 /\ q[1] = x /\ \A i \in 1..n : q[i + 1] = s[i]
  BY InFront
<1> HIDE DEF q, n
<1>2. 1 \in 1..n + 1 /\ \A i \in 1..n : i + 1 \in 1..n + 1
  BY <1>1
<1>3. \A i \in 1..n + 1 : i = 1 \/ (i > 1 /\ i - 1 \in 1..n /\ (i - 1) + 1 = i)
  BY <1>1
<1>4. \A i \in 1..n + 1 : i = 1 \/ (i > 1 /\ i - 1 \in 1..n /\ q[i] = s[i - 1])
  <2>1. ASSUME NEW i \in 1..n + 1, i # 1 PROVE i > 1 /\ i - 1 \in 1..n /\ q[i] = s[i - 1]
    <3>1. i > 1 /\ i - 1 \in 1..n /\ (i - 1) + 1 = i
      BY <1>3, <2>1
    <3>2. q[(i - 1) + 1] = s[i - 1]
      BY <1>1, <3>1
    <3> QED BY <3>1, <3>2
  <2> QED BY <2>1
<1> QED BY <1>1, <1>2, <1>4 DEF q, n

LEMMA EventIs ==
  ASSUME NEW e \in Event
  PROVE  e.id \in Int /\ e.serial \in Nat /\ e.thumb \in BOOLEAN
         /\ e.id \in -1..MaxAlerts /\ e.serial \in 1..MaxAlerts
<1>1. e.id \in -1..MaxAlerts /\ e.serial \in 1..MaxAlerts /\ e.thumb \in BOOLEAN
  BY DEF Event
<1> QED BY <1>1, InboxAssumption DEF InboxAssumption

LEMMA NewestFirstInFront ==
  ASSUME NEW x \in Event, NEW s \in Seq(Event), NewestFirst(s), NEW m \in Nat, x.serial = m + 1,
         \A i \in DOMAIN s : s[i].serial <= m
  PROVE  NewestFirst(<<x>> \o s) /\ \A i \in DOMAIN (<<x>> \o s) : (<<x>> \o s)[i].serial <= m + 1
<1> DEFINE q == <<x>> \o s
           n == Len(s)
<1>1. /\ n \in Nat /\ Len(q) = n + 1 /\ q[1] = x
      /\ \A i \in 1..n + 1 : i = 1 \/ (i > 1 /\ i - 1 \in 1..n /\ q[i] = s[i - 1])
  BY Places
<1>2. DOMAIN q = 1..n + 1 /\ DOMAIN s = 1..n
  BY InFront
<1>3. \A i \in 1..n : s[i].serial \in Nat /\ s[i].serial <= m
  <2>1. \A i \in 1..n : s[i] \in Event
    OBVIOUS
  <2> QED BY <1>2, <2>1, EventIs
<1> HIDE DEF q, n
<1>4. ASSUME NEW i \in 1..n + 1, NEW j \in 1..n + 1, i < j PROVE q[i].serial > q[j].serial
  <2>1. j - 1 \in 1..n /\ q[j] = s[j - 1]
    BY <1>1, <1>4
  <2>2. CASE i = 1
    BY <1>1, <1>3, <2>1, <2>2
  <2>3. CASE i # 1
    <3>1. i - 1 \in 1..n /\ q[i] = s[i - 1] /\ i - 1 < j - 1
      BY <1>1, <1>4, <2>3
    <3> QED BY <1>2, <2>1, <3>1 DEF NewestFirst
  <2> QED BY <2>2, <2>3
<1>5. ASSUME NEW i \in 1..n + 1 PROVE q[i].serial <= m + 1
  <2>1. CASE i = 1
    BY <1>1, <2>1
  <2>2. CASE i # 1
    <3>1. q[i].serial \in Nat /\ q[i].serial <= m
      BY <1>1, <1>3, <2>2
    <3> QED BY <3>1
  <2> QED BY <2>1, <2>2
<1> QED BY <1>2, <1>4, <1>5 DEF NewestFirst, q

LEMMA AddedView ==
  ASSUME NEW s \in Boxes, NEW f, View(s, f), NEW x \in Event, NEW P, P.all = <<x>> \o s.all,
         P.view = Prepended(s.view, matches(x, f))
  PROVE  P.view \in Seq(Nat) /\ View(P, f)
<1> DEFINE n    == Len(s.all)
           fits == matches(x, f)
           F    == Fitting(s.all, f)
           G    == (IF fits THEN {1} ELSE {}) \cup {i + 1 : i \in F}
<1>1. /\ n \in Nat /\ Len(P.all) = n + 1 /\ P.all[1] = x
      /\ \A i \in 1..n : i + 1 \in 1..n + 1 /\ P.all[i + 1] = s.all[i]
      /\ \A i \in 1..n + 1 : i = 1 \/ (i > 1 /\ i - 1 \in 1..n /\ P.all[i] = s.all[i - 1])
      /\ 1 \in 1..n + 1
  BY Places, BoxIs
<1>2. DOMAIN P.all = 1..n + 1 /\ DOMAIN s.all = 1..n
  BY InFront, BoxIs
<1>3. fits \in BOOLEAN
  BY DEF matches
<1>4. F \in SUBSET Nat /\ \A i \in F : i >= 1
  BY <1>1, <1>2 DEF Fitting
<1>5. G = Fitting(P.all, f)
  <2>1. ASSUME NEW i \in 1..n + 1 PROVE i \in G <=> matches(P.all[i], f)
    <3>1. CASE i = 1
      <4>1. 1 \notin {j + 1 : j \in F}
        BY <1>1, <1>2 DEF Fitting
      <4> QED BY <1>1, <3>1, <4>1
    <3>2. CASE i # 1
      <4>1. i - 1 \in 1..n /\ P.all[i] = s.all[i - 1] /\ (i - 1) + 1 = i
        BY <1>1, <3>2
      <4>2. i \in {j + 1 : j \in F} <=> i - 1 \in F
        <5>1. \A j \in F : j \in Nat /\ (j + 1) - 1 = j
          BY <1>4
        <5> QED BY <4>1, <5>1
      <4> QED BY <1>2, <3>2, <4>1, <4>2 DEF Fitting
    <3> QED BY <3>1, <3>2
  <2>2. G \subseteq 1..n + 1
    BY <1>1, <1>2 DEF Fitting
  <2>3. \A i : i \in Fitting(P.all, f) <=> i \in 1..n + 1 /\ matches(P.all[i], f)
    BY <1>2 DEF Fitting
  <2> HIDE DEF G
  <2> QED BY <2>1, <2>2, <2>3
<1>6. s.view \in Seq(Nat) /\ Ascends(s.view, F, Len(s.view))
  BY BoxIs DEF View
<1> HIDE DEF F, fits
<1>7. P.view \in Seq(Nat) /\ Ascends(P.view, G, Len(P.view))
  BY <1>3, <1>4, <1>6, AscendsShifted DEF fits
<1> QED BY <1>5, <1>7 DEF View

LEMMA AddedTable ==
  ASSUME NEW s \in Boxes, Order(s), Table(s), NEW x \in Event, x.serial = s.serial + 1, NEW P,
         P.all = <<x>> \o s.all, P.db = IF IsStored(x) THEN <<x>> \o s.db ELSE s.db
  PROVE  Table(P)
<1> DEFINE n == Len(s.all)
           d == Len(s.db)
           e == Len(P.db)
<1>1. /\ n \in Nat /\ Len(P.all) = n + 1 /\ P.all[1] = x /\ 1 \in 1..n + 1
      /\ \A i \in 1..n : i + 1 \in 1..n + 1 /\ P.all[i + 1] = s.all[i]
      /\ \A i \in 1..n + 1 : i = 1 \/ (i > 1 /\ i - 1 \in 1..n /\ P.all[i] = s.all[i - 1])
  BY Places, BoxIs
<1>2. DOMAIN P.all = 1..n + 1 /\ DOMAIN s.all = 1..n /\ DOMAIN s.db = 1..d /\ d \in Nat
  BY InFront, BoxIs
<1>3. DOMAIN P.db = 1..e /\ e \in d..d + 1 /\ (IsStored(x) => e = d + 1)
  BY InFront, BoxIs
<1>4. \A k \in 1..e : \/ IsStored(x) /\ P.db[k] = x
                      \/ \E l \in 1..d : P.db[k] = s.db[l]
  <2>1. CASE IsStored(x)
    <3>1. \A k \in 1..Len(P.db) : k = 1 \/ (k - 1 \in 1..d /\ P.db[k] = s.db[k - 1])
      BY <2>1, BoxIs, Places
    <3>2. P.db[1] = x
      BY <2>1, BoxIs, Places
    <3> QED BY <2>1, <3>1, <3>2
  <2>2. CASE ~IsStored(x)
    BY <2>2
  <2> QED BY <2>1, <2>2
<1>5. \A l \in 1..d : \E k \in 1..l + 1 : k \in 1..e /\ P.db[k] = s.db[l]
  <2>1. CASE IsStored(x)
    <3>1. \A l \in 1..d : l + 1 \in 1..Len(P.db) /\ P.db[l + 1] = s.db[l]
      BY <2>1, BoxIs, Places
    <3>2. \A l \in 1..d : l + 1 \in 1..l + 1
      BY <1>2
    <3> QED BY <3>1, <3>2
  <2>2. CASE ~IsStored(x)
    <3>1. \A l \in 1..d : l \in 1..l + 1 /\ l \in 1..e /\ P.db[l] = s.db[l]
      BY <1>2, <2>2
    <3> QED BY <3>1
  <2> QED BY <2>1, <2>2
<1>6. IsStored(x) => 1 \in 1..e /\ P.db[1] = x
  <2> SUFFICES ASSUME IsStored(x) PROVE 1 \in 1..Len(P.db) /\ P.db[1] = x
    OBVIOUS
  <2> QED BY BoxIs, Places
<1> HIDE DEF n, d, e
<1>7. ASSUME NEW l \in 1..d, Lists(s, s.db[l]) PROVE Lists(P, s.db[l])
  <2>1. PICK i \in 1..n : s.all[i] = s.db[l]
    BY <1>2, <1>7 DEF Lists
  <2>2. i + 1 \in DOMAIN P.all /\ P.all[i + 1] = s.db[l]
    BY <1>1, <1>2, <2>1
  <2> QED BY <2>2 DEF Lists
<1>8. Lists(P, x)
  BY <1>1, <1>2 DEF Lists
<1>9. Len(P.db) <= Len(P.all)
  <2>1. d <= n
    BY DEF Table, d, n
  <2> QED BY <1>1, <1>2, <1>3, <2>1 DEF e
<1>10. \A k \in 1..e : IsStored(P.db[k])
  BY <1>2, <1>4 DEF Table
<1>11. ASSUME NEW i \in 1..n + 1, IsStored(P.all[i])
       PROVE  \E k \in 1..i : k \in 1..e /\ P.db[k] = P.all[i]
  <2>1. CASE i = 1
    <3>1. 1 \in 1..i
      BY <2>1
    <3> QED BY <1>1, <1>6, <1>11, <2>1, <3>1
  <2>2. CASE i # 1
    <3>1. i - 1 \in 1..n /\ P.all[i] = s.all[i - 1]
      BY <1>1, <2>2
    <3>2. PICK l \in 1..i - 1 : l \in 1..d /\ s.db[l] = s.all[i - 1]
      BY <1>2, <1>11, <3>1 DEF Table
    <3>3. PICK k \in 1..l + 1 : k \in 1..e /\ P.db[k] = s.db[l]
      BY <1>5, <3>2
    <3>4. k \in 1..i
      BY <3>1, <3>2, <3>3
    <3> QED BY <3>1, <3>2, <3>3, <3>4
  <2> QED BY <2>1, <2>2
<1>12. ASSUME NEW k \in 1..e, NEW i \in 1..n + 1, IsStored(P.all[i]), P.db[k].serial > P.all[i].serial
       PROVE  Lists(P, P.db[k])
  <2>1. CASE P.db[k] = x
    BY <1>8, <2>1
  <2>2. CASE P.db[k] # x
    <3>1. PICK l \in 1..d : P.db[k] = s.db[l]
      BY <1>4, <2>2
    <3>2. s.db[l].serial <= s.serial /\ s.db[l].serial \in Nat /\ s.serial \in Nat
      <4>1. s.db[l] \in Event /\ s.serial \in Nat
        BY <1>2, BoxIs
      <4> QED BY <1>2, <4>1, EventIs DEF Order
    <3>3. i # 1
      <4> SUFFICES ASSUME i = 1 PROVE FALSE
        OBVIOUS
      <4>1. s.db[l].serial > s.serial + 1
        BY <1>1, <1>12, <3>1
      <4> QED BY <3>2, <4>1
    <3>4. i - 1 \in 1..n /\ P.all[i] = s.all[i - 1]
      BY <1>1, <3>3
    <3>5. Lists(s, s.db[l])
      BY <1>2, <1>12, <3>1, <3>4 DEF Table
    <3> QED BY <1>7, <3>1, <3>5
  <2> QED BY <2>1, <2>2
<1>13. ASSUME Len(P.all) < Keep, NEW k \in 1..e PROVE Lists(P, P.db[k])
  <2>1. CASE P.db[k] = x
    BY <1>8, <2>1
  <2>2. CASE P.db[k] # x
    <3>1. PICK l \in 1..d : P.db[k] = s.db[l]
      BY <1>4, <2>2
    <3>2. Len(s.all) < Keep
      BY <1>1, <1>13, InboxAssumption DEF InboxAssumption, n
    <3>3. Lists(s, s.db[l])
      BY <1>2, <3>1, <3>2 DEF Table
    <3> QED BY <1>7, <3>1, <3>3
  <2> QED BY <2>1, <2>2
<1> QED BY <1>2, <1>3, <1>9, <1>10, <1>11, <1>12, <1>13 DEF Table

LEMMA AddedThumbs ==
  ASSUME NEW s \in Boxes, NEW lf, Thumbs(s, lf), NEW x \in Event, x.id = s.last + 1, ~x.thumb, NEW P,
         P.all = <<x>> \o s.all, P.last = s.last + 1, P.files = s.files,
         P.shots \in {s.shots, s.shots \cup {[id |-> x.id, serial |-> x.serial, pc |-> "fetch"]}}
  PROVE  Thumbs(P, lf)
<1> DEFINE n    == Len(s.all)
           shot == [id |-> x.id, serial |-> x.serial, pc |-> "fetch"]
<1>1. /\ n \in Nat /\ Len(P.all) = n + 1 /\ P.all[1] = x /\ 1 \in 1..n + 1
      /\ \A i \in 1..n : i + 1 \in 1..n + 1 /\ P.all[i + 1] = s.all[i]
      /\ \A i \in 1..n + 1 : i = 1 \/ (i > 1 /\ i - 1 \in 1..n /\ P.all[i] = s.all[i - 1])
  BY Places, BoxIs
<1>2. DOMAIN P.all = 1..n + 1 /\ DOMAIN s.all = 1..n
  BY InFront, BoxIs
<1>3. s.last \in Nat /\ \A i \in 1..n : s.all[i].id \in Int /\ s.all[i].id <= s.last
  <2>1. s.last \in Nat /\ \A i \in 1..n : s.all[i] \in Event
    BY <1>2, BoxIs
  <2> QED BY <1>2, <2>1, EventIs DEF Thumbs, Numbers
<1>4. \A t \in s.shots : t.id \in Nat /\ t.id <= s.last
  <2>1. \A t \in s.shots : t \in Shots
    BY BoxIs
  <2> QED BY <2>1, InboxAssumption DEF Thumbs, Numbers, Shots, InboxAssumption
<1>5. \A t \in P.shots : t \in s.shots \/ (t.id = x.id /\ t.serial = x.serial /\ t.pc = "fetch" /\ t = shot)
  OBVIOUS
<1> HIDE DEF n, shot
<1>6. \A i \in 1..n : s.all[i].id # x.id
  BY <1>3
<1>7. Numbers(P)
  <2>1. ASSUME NEW i \in 1..n + 1 PROVE IsStored(P.all[i]) /\ P.all[i].id <= P.last
    <3>1. CASE i = 1
      BY <1>1, <1>3, <3>1 DEF IsStored
    <3>2. CASE i # 1
      <4>1. i - 1 \in 1..n /\ P.all[i] = s.all[i - 1]
        BY <1>1, <3>2
      <4>2. IsStored(s.all[i - 1])
        BY <1>2, <4>1 DEF Thumbs, Numbers
      <4>3. s.all[i - 1].id \in Int /\ s.all[i - 1].id <= s.last + 1
        BY <1>3, <4>1
      <4> QED BY <4>1, <4>2, <4>3
    <3> QED BY <3>1, <3>2
  <2>2. ASSUME NEW i \in 1..n + 1, NEW j \in 1..n + 1, P.all[i].id = P.all[j].id PROVE i = j
    <3>1. CASE i = 1 \/ j = 1
      BY <1>1, <1>6, <2>2, <3>1
    <3>2. CASE i # 1 /\ j # 1
      <4>1. i - 1 \in 1..n /\ j - 1 \in 1..n /\ s.all[i - 1].id = s.all[j - 1].id
        BY <1>1, <2>2, <3>2
      <4>2. i - 1 = j - 1
        BY <1>2, <4>1 DEF Thumbs, Numbers
      <4> QED BY <1>1, <4>2
    <3> QED BY <3>1, <3>2
  <2>3. \A t \in P.shots : t.id <= P.last
    BY <1>3, <1>4, <1>5
  <2>4. ASSUME NEW t \in P.shots, NEW u \in P.shots, t.id = u.id PROVE t = u
    <3>1. CASE t \in s.shots /\ u \in s.shots
      BY <2>4, <3>1 DEF Thumbs, Numbers
    <3>2. CASE ~(t \in s.shots /\ u \in s.shots)
      BY <1>3, <1>4, <1>5, <2>4, <3>2
    <3> QED BY <3>1, <3>2
  <2> QED BY <1>2, <2>1, <2>2, <2>3, <2>4 DEF Numbers
<1>8. Captures(P)
  <2> SUFFICES ASSUME NEW t \in P.shots, NEW i \in 1..n + 1, P.all[i].id = t.id
               PROVE  /\ P.all[i].serial = t.serial /\ ~P.all[i].thumb
                      /\ t.pc = "saved" => PictureOf(P.all[i]) \in P.files
    BY <1>2 DEF Captures
  <2>1. CASE i = 1
    <3>1. t \notin s.shots
      BY <1>1, <1>3, <1>4, <2>1
    <3> QED BY <1>1, <1>5, <2>1, <3>1
  <2>2. CASE i # 1
    <3>1. i - 1 \in 1..n /\ P.all[i] = s.all[i - 1]
      BY <1>1, <2>2
    <3>2. t \in s.shots
      BY <1>5, <1>6, <3>1
    <3>3. s.all[i - 1].id = t.id
      BY <3>1
    <3>4. /\ s.all[i - 1].serial = t.serial /\ ~s.all[i - 1].thumb
          /\ t.pc = "saved" => PictureOf(s.all[i - 1]) \in s.files
      BY <1>2, <3>1, <3>2, <3>3 DEF Thumbs, Captures
    <3> QED BY <3>1, <3>4
  <2> QED BY <2>1, <2>2
<1>9. ASSUME NEW i \in 1..n + 1, P.all[i].thumb PROVE PictureOf(P.all[i]) \in P.files
  <2>1. i # 1
    BY <1>1, <1>9
  <2> QED BY <1>1, <1>2, <1>9, <2>1 DEF Thumbs
<1>10. ASSUME NEW p \in P.files PROVE Owned(P, p, lf)
  <2>1. Owned(s, p, lf)
    BY <1>10 DEF Thumbs
  <2>2. ASSUME NEW i \in 1..n, s.all[i].thumb, s.all[i].id = p.id PROVE Owned(P, p, lf)
    <3>1. i + 1 \in DOMAIN P.all /\ P.all[i + 1] = s.all[i]
      BY <1>1, <1>2
    <3> QED BY <2>2, <3>1 DEF Owned
  <2>3. s.shots \subseteq P.shots
    OBVIOUS
  <2> QED BY <1>2, <2>1, <2>2, <2>3 DEF Owned
<1> QED BY <1>2, <1>7, <1>8, <1>9, <1>10 DEF Thumbs

LEMMA AddedKeeps ==
  ASSUME NEW s, NEW bad \in BOOLEAN, NEW lf, BoxInv(s, filter, bad, lf), s.serial < MaxAlerts,
         NEW e \in News, NEW stored \in BOOLEAN, bad \/ stored
  PROVE  LET P == Added(s, e, stored)
         IN  Loose(P, filter, bad, lf) /\ Len(P.all) <= Keep + 1 /\ P.serial = s.serial + 1
<1> DEFINE P   == Added(s, e, stored)
           rec == Rec(s, e, stored)
<1>0. s \in Boxes /\ Order(s) /\ Table(s) /\ View(s, filter) /\ (bad \/ Thumbs(s, lf)) /\ Len(s.all) <= Keep
      /\ s.last <= s.serial
  BY DEF BoxInv, Loose, Order
<1>1. /\ rec \in Event /\ rec.id = (IF stored THEN s.last + 1 ELSE -1) /\ rec.serial = s.serial + 1
      /\ rec.thumb = FALSE
      /\ P.all = <<rec>> \o s.all
      /\ P.view = Prepended(s.view, matches(rec, filter))
      /\ P.db = (IF stored THEN <<rec>> \o s.db ELSE s.db)
      /\ P.last = (IF stored THEN s.last + 1 ELSE s.last)
      /\ P.files = s.files
      /\ P.shots \in {s.shots, s.shots \cup {[id |-> rec.id, serial |-> rec.serial, pc |-> "fetch"]}}
      /\ ~stored => P.shots = s.shots
      /\ P.serial = s.serial + 1
      /\ P = [all |-> P.all, view |-> P.view, db |-> P.db, last |-> P.last, files |-> P.files,
              shots |-> P.shots, serial |-> P.serial]
  BY <1>0, AddedIs
<1> HIDE DEF P, rec
<1>2. /\ s.all \in Seq(Event) /\ s.db \in Seq(Event) /\ Len(s.all) \in Nat
      /\ s.last \in 0..MaxAlerts /\ s.serial \in 0..MaxAlerts /\ MaxAlerts \in Nat /\ Keep \in Nat
      /\ s.files \subseteq Pictures /\ s.shots \subseteq Shots
  BY <1>0, BoxIs, InboxAssumption DEF InboxAssumption
<1>3. IsStored(rec) <=> stored
  BY <1>1, <1>2 DEF IsStored
<1>4. P.view \in Seq(Nat) /\ View(P, filter)
  BY <1>0, <1>1, AddedView
<1>5. Table(P)
  BY <1>0, <1>1, <1>3, AddedTable
<1>6. P.all \in Seq(Event) /\ P.db \in Seq(Event) /\ Len(P.all) <= Keep + 1
  <2>1. <<rec>> \o s.all \in Seq(Event) /\ Len(<<rec>> \o s.all) = Len(s.all) + 1
    BY <1>1, <1>2, InFront
  <2>2. <<rec>> \o s.db \in Seq(Event)
    BY <1>1, <1>2, InFront
  <2> QED BY <1>0, <1>1, <1>2, <2>1, <2>2
<1>7. Order(P)
  <2>1. P.last <= P.serial
    BY <1>0, <1>1, <1>2
  <2>2. NewestFirst(P.all) /\ \A i \in DOMAIN P.all : P.all[i].serial <= P.serial
    <3>1. s.serial \in Nat /\ NewestFirst(s.all) /\ \A i \in DOMAIN s.all : s.all[i].serial <= s.serial
      BY <1>0, <1>2 DEF Order
    <3>2. NewestFirst(<<rec>> \o s.all)
          /\ \A i \in DOMAIN (<<rec>> \o s.all) : (<<rec>> \o s.all)[i].serial <= s.serial + 1
      BY <1>1, <1>2, <3>1, NewestFirstInFront
    <3> QED BY <1>1, <3>2
  <2>3. NewestFirst(P.db) /\ \A i \in DOMAIN P.db : P.db[i].serial <= P.serial
    <3>1. CASE stored
      <4>1. s.serial \in Nat /\ NewestFirst(s.db) /\ \A i \in DOMAIN s.db : s.db[i].serial <= s.serial
        BY <1>0, <1>2 DEF Order
      <4>2. NewestFirst(<<rec>> \o s.db)
            /\ \A i \in DOMAIN (<<rec>> \o s.db) : (<<rec>> \o s.db)[i].serial <= s.serial + 1
        BY <1>1, <1>2, <4>1, NewestFirstInFront
      <4> QED BY <1>1, <3>1, <4>2
    <3>2. CASE ~stored
      <4>1. \A i \in DOMAIN s.db : s.db[i].serial \in Nat /\ s.db[i].serial <= s.serial
        BY <1>0, BoxIs, EventIs DEF Order
      <4>2. P.db = s.db /\ P.serial = s.serial + 1
        BY <1>1, <3>2
      <4> QED BY <1>0, <1>2, <4>1, <4>2 DEF Order
    <3> QED BY <3>1, <3>2
  <2> QED BY <2>1, <2>2, <2>3 DEF Order
<1>8. P \in Boxes
  <2>0. /\ P.serial = s.serial + 1 /\ P.last \in {s.last, s.last + 1}
        /\ rec.serial = s.serial + 1
        /\ stored => rec.id = s.last + 1
        /\ s.last \in Nat /\ s.serial \in Nat /\ s.last <= s.serial /\ s.serial + 1 \in 1..MaxAlerts
    <3>1. /\ P.serial = s.serial + 1 /\ P.last \in {s.last, s.last + 1}
          /\ rec.serial = s.serial + 1
          /\ stored => rec.id = s.last + 1
      BY <1>1
    <3>2. /\ s.last \in Nat /\ s.serial \in Nat /\ s.last <= s.serial /\ s.serial + 1 \in 1..MaxAlerts
      BY <1>0, <1>2
    <3> QED BY <3>1, <3>2
  <2>1. P.last \in 0..MaxAlerts /\ P.serial \in 0..MaxAlerts
    BY <1>2, <2>0
  <2>2. P.shots \subseteq Shots
    <3>1. CASE stored
      <4>1. rec.id \in 1..MaxAlerts /\ rec.serial \in 1..MaxAlerts
        <5>1. rec.id = s.last + 1 /\ rec.serial = s.serial + 1
          BY <2>0, <3>1
        <5>2. \A a, b \in Nat : a <= b /\ b + 1 \in 1..MaxAlerts => a + 1 \in 1..MaxAlerts
          BY <1>2
        <5>3. s.last + 1 \in 1..MaxAlerts
          BY <2>0, <5>2
        <5> QED BY <2>0, <5>1, <5>3
      <4>2. [id |-> rec.id, serial |-> rec.serial, pc |-> "fetch"] \in Shots
        BY <4>1 DEF Shots
      <4> QED BY <1>1, <1>2, <4>2
    <3>2. CASE ~stored
      BY <1>1, <1>2, <3>2
    <3> QED BY <3>1, <3>2
  <2>3. [all |-> P.all, view |-> P.view, db |-> P.db, last |-> P.last, files |-> P.files,
         shots |-> P.shots, serial |-> P.serial] \in Boxes
    BY <1>1, <1>2, <1>4, <1>6, <2>1, <2>2 DEF Boxes
  <2> QED BY <1>1, <2>3
<1>9. bad \/ Thumbs(P, lf)
  <2>1. CASE ~bad
    BY <2>1, <1>0, <1>1, AddedThumbs
  <2> QED BY <2>1
<1> QED BY <1>1, <1>4, <1>5, <1>6, <1>7, <1>8, <1>9 DEF Loose, P

-----------------------------------------------------------------------------
(* And the last one goes, if it is beyond the cap                          *)
LEMMA PrunedIs ==
  ASSUME NEW v \in Seq(Nat), NEW F \in SUBSET Nat, Ascends(v, F, Len(v))
  PROVE  Pruned(v) \in Seq(Nat) /\ Ascends(Pruned(v), {x \in F : x <= Keep}, Len(Pruned(v)))
<1> DEFINE n == Len(v)
           K == {i \in DOMAIN v : v[i] <= Keep} \cup {0}
           m == Max(K)
           w == Newest(v, m)
           G == {x \in F : x <= Keep}
<1>0. n \in Nat /\ DOMAIN v = 1..n /\ Keep \in Nat /\ \A i \in 1..n : v[i] \in F /\ v[i] \in Nat
  BY InboxAssumption DEF InboxAssumption, Ascends
<1>1. m \in K /\ \A i \in K : i <= m
  <2>1. K \in SUBSET Nat /\ K # {} /\ \A i \in K : i <= n
    BY <1>0
  <2> HIDE DEF K
  <2> QED BY <1>0, <2>1, MaxIs
<1>2. m \in 0..n
  BY <1>0, <1>1
<1> HIDE DEF m
<1>3. /\ w \in Seq(Nat) /\ Len(w) = m /\ DOMAIN w = 1..m
      /\ \A i \in 1..m : i \in 1..n /\ w[i] = v[i]
  <2>1. Len(w) = m
    BY <1>0, <1>2, NewestIs
  <2> QED BY <1>2, <2>1, NewestIs
<1> HIDE DEF w
<1>4. \A i \in 1..m : v[i] <= Keep
  <2> SUFFICES ASSUME NEW i \in 1..m PROVE v[i] <= Keep
    OBVIOUS
  <2>1. m \in 1..n /\ i \in 1..n /\ v[m] <= Keep
    BY <1>0, <1>1, <1>2
  <2>2. i = m \/ v[i] < v[m]
    BY <1>2, <2>1 DEF Ascends
  <2> QED BY <1>0, <2>1, <2>2
<1>5. w \in [1..m -> G]
  <2>1. \A i \in 1..m : w[i] \in G
    BY <1>0, <1>3, <1>4
  <2> QED BY <1>3, <2>1
<1>6. \A i, j \in 1..m : i < j => w[i] < w[j]
  BY <1>3 DEF Ascends
<1>7. ASSUME NEW x \in G PROVE \E i \in 1..m : w[i] = x
  <2>1. PICK i \in 1..n : v[i] = x
    BY DEF Ascends
  <2>2. i \in K
    BY <1>0, <2>1
  <2>3. i \in 1..m
    BY <1>0, <1>1, <1>2, <2>1, <2>2
  <2> QED BY <1>3, <2>1, <2>3
<1>8. w = Pruned(v)
  BY DEF Pruned, w, m
<1> QED BY <1>3, <1>5, <1>6, <1>7, <1>8 DEF Ascends

LEMMA LastOne ==
  ASSUME NEW S, NEW s \in Seq(S), NEW k \in Nat, Len(s) = k + 1
  PROVE  DOMAIN SubSeq(s, k + 1, Len(s)) = 1..1 /\ SubSeq(s, k + 1, Len(s))[1] = s[k + 1]
<1> DEFINE n == k + 1
           q == SubSeq(s, n, n)
<1>1. n \in 1..Len(s)
  OBVIOUS
<1> HIDE DEF n
<1>2. q \in Seq(S) /\ Len(q) = 1 /\ q[1] = s[n]
  BY <1>1
<1> HIDE DEF q
<1>3. DOMAIN q = 1..1
  BY <1>2
<1> QED BY <1>2, <1>3 DEF n, q

LEMMA TrimmedIs ==
  ASSUME NEW P \in Boxes, Len(P.all) = Keep + 1
  PROVE  LET T == Trimmed(P)
             x == P.all[Keep + 1]
         IN  /\ T.all = Newest(P.all, Keep) /\ T.db = Newest(P.db, Keep) /\ T.view = Pruned(P.view)
             /\ T.files = {p \in P.files : ~(x.thumb /\ x.id = p.id)}
             /\ T.last = P.last /\ T.shots = P.shots /\ T.serial = P.serial
             /\ T = [all |-> T.all, view |-> T.view, db |-> T.db, last |-> T.last, files |-> T.files,
                     shots |-> T.shots, serial |-> T.serial]
<1> DEFINE T == Trimmed(P)
           x == P.all[Keep + 1]
           gone == FilesOf(SubSeq(P.all, Keep + 1, Len(P.all)), P.files)
<1>1. Keep \in Nat /\ P.all \in Seq(Event)
  BY BoxIs, InboxAssumption DEF InboxAssumption
<1>2. gone = {p \in P.files : x.thumb /\ x.id = p.id}
  <2> DEFINE q == SubSeq(P.all, Keep + 1, Len(P.all))
  <2>1. DOMAIN q = 1..1 /\ q[1] = x
    BY <1>1, LastOne
  <2> HIDE DEF q
  <2>2. \A p : (\E i \in DOMAIN q : q[i].thumb /\ q[i].id = p.id) <=> x.thumb /\ x.id = p.id
    BY <2>1
  <2>3. gone = {p \in P.files : \E i \in DOMAIN q : q[i].thumb /\ q[i].id = p.id}
    BY DEF FilesOf, q
  <2> QED BY <2>2, <2>3
<1>3. T = [P EXCEPT !.view = Pruned(@), !.files = @ \ gone, !.all = Newest(@, Keep), !.db = Newest(@, Keep)]
  BY <1>1 DEF Trimmed
<1> HIDE DEF T, gone
<1>4. /\ T.all = Newest(P.all, Keep) /\ T.db = Newest(P.db, Keep) /\ T.view = Pruned(P.view)
      /\ T.files = P.files \ gone
      /\ T.last = P.last /\ T.shots = P.shots /\ T.serial = P.serial
      /\ T = [all |-> T.all, view |-> T.view, db |-> T.db, last |-> T.last, files |-> T.files,
              shots |-> T.shots, serial |-> T.serial]
  BY <1>3 DEF Boxes
<1>5. P.files \ gone = {p \in P.files : ~(x.thumb /\ x.id = p.id)}
  BY <1>2
<1> QED BY <1>4, <1>5 DEF T

LEMMA NewestStays ==
  ASSUME NEW s \in Seq(Event), NEW k \in Nat, NewestFirst(s), NEW m, \A i \in DOMAIN s : s[i].serial <= m
  PROVE  NewestFirst(Newest(s, k)) /\ \A i \in DOMAIN Newest(s, k) : Newest(s, k)[i].serial <= m
<1> DEFINE q == Newest(s, k)
<1>1. DOMAIN q = 1..Len(q) /\ \A i \in 1..Len(q) : i \in DOMAIN s /\ q[i] = s[i]
  BY NewestIs
<1> HIDE DEF q
<1>2. NewestFirst(q) /\ \A i \in DOMAIN q : q[i].serial <= m
  BY <1>1 DEF NewestFirst
<1> QED BY <1>2 DEF q

LEMMA TrimmedTable ==
  ASSUME NEW P \in Boxes, Order(P), Table(P), Len(P.all) = Keep + 1, NEW T,
         T.all = Newest(P.all, Keep), T.db = Newest(P.db, Keep)
  PROVE  Table(T) /\ Len(T.all) = Keep
<1> DEFINE d == Len(T.db)
<1>0. Keep \in Nat /\ P.all \in Seq(Event) /\ P.db \in Seq(Event)
      /\ DOMAIN P.all = 1..Keep + 1 /\ DOMAIN P.db = 1..Len(P.db) /\ Len(P.db) \in Nat
  BY BoxIs, InboxAssumption DEF InboxAssumption
<1>1. /\ Len(T.all) = Keep /\ DOMAIN T.all = 1..Keep
      /\ \A i \in 1..Keep : i \in DOMAIN P.all /\ T.all[i] = P.all[i]
  <2>1. Len(T.all) = Keep
    BY <1>0, NewestIs
  <2> QED BY <1>0, <2>1, NewestIs
<1>2. /\ d = (IF Len(P.db) < Keep THEN Len(P.db) ELSE Keep) /\ DOMAIN T.db = 1..d
      /\ \A k \in 1..d : k \in DOMAIN P.db /\ T.db[k] = P.db[k]
  BY <1>0, NewestIs
<1> HIDE DEF d
<1>3. d \in Nat /\ d <= Keep /\ \A k \in 1..Keep : k \in DOMAIN P.db => k \in 1..d
  BY <1>0, <1>2
<1>4. \A k \in 1..d : IsStored(T.db[k])
  BY <1>2 DEF Table
<1>5. ASSUME NEW i \in 1..Keep, IsStored(T.all[i]) PROVE \E k \in 1..i : k \in 1..d /\ T.db[k] = T.all[i]
  <2>1. PICK k \in 1..i : k \in DOMAIN P.db /\ P.db[k] = P.all[i]
    BY <1>1, <1>5 DEF Table
  <2>2. k \in 1..Keep
    BY <1>0, <2>1
  <2> QED BY <1>1, <1>2, <1>3, <2>1, <2>2
<1>6. ASSUME NEW k \in 1..d, NEW i \in 1..Keep, IsStored(T.all[i]), T.db[k].serial > T.all[i].serial
      PROVE  Lists(T, T.db[k])
  <2>1. Lists(P, P.db[k])
    BY <1>1, <1>2, <1>6 DEF Table
  <2>2. PICK j \in DOMAIN P.all : P.all[j] = P.db[k]
    BY <2>1 DEF Lists
  <2>3. P.all[j].serial > P.all[i].serial /\ P.all[j].serial \in Nat /\ P.all[i].serial \in Nat
    <3>1. P.all[j] \in Event /\ P.all[i] \in Event
      BY <1>1, BoxIs
    <3> QED BY <1>1, <1>2, <1>6, <2>2, <3>1, EventIs
  <2>4. j < i
    <3>1. j = i \/ i < j => FALSE
      BY <1>1, <2>2, <2>3 DEF Order, NewestFirst
    <3> QED BY <1>0, <2>2, <3>1
  <2>5. j \in 1..Keep
    BY <1>0, <2>2, <2>4
  <2> QED BY <1>1, <1>2, <2>2, <2>5 DEF Lists
<1>7. Len(T.db) <= Len(T.all) /\ ~(Len(T.all) < Keep)
  BY <1>0, <1>1, <1>3 DEF d
<1> QED BY <1>1, <1>2, <1>4, <1>5, <1>6, <1>7 DEF Table

LEMMA TrimmedThumbs ==
  ASSUME NEW P \in Boxes, NEW lf, Thumbs(P, lf), Len(P.all) = Keep + 1, NEW T,
         T.all = Newest(P.all, Keep), T.last = P.last, T.shots = P.shots,
         T.files = {p \in P.files : ~(P.all[Keep + 1].thumb /\ P.all[Keep + 1].id = p.id)}
  PROVE  Thumbs(T, lf)
<1> DEFINE x == P.all[Keep + 1]
<1>0. Keep \in Nat /\ P.all \in Seq(Event) /\ DOMAIN P.all = 1..Keep + 1 /\ Keep + 1 \in DOMAIN P.all
  BY BoxIs, InboxAssumption DEF InboxAssumption
<1>1. /\ DOMAIN T.all = 1..Keep
      /\ \A i \in 1..Keep : i \in DOMAIN P.all /\ T.all[i] = P.all[i]
  <2>1. Len(T.all) = Keep
    BY <1>0, NewestIs
  <2> QED BY <1>0, <2>1, NewestIs
<1>2. \A i \in DOMAIN P.all : i \in 1..Keep \/ i = Keep + 1
  BY <1>0
<1>3. \A i \in 1..Keep : P.all[i].id # x.id
  <2>1. \A i \in 1..Keep : i # Keep + 1
    BY <1>0
  <2> QED BY <1>0, <1>1, <2>1 DEF Thumbs, Numbers
<1> HIDE DEF x
<1>4. Numbers(T)
  BY <1>1 DEF Thumbs, Numbers
<1>5. ASSUME NEW i \in 1..Keep, PictureOf(P.all[i]) \in P.files PROVE PictureOf(T.all[i]) \in T.files
  BY <1>1, <1>3, <1>5 DEF PictureOf, x
<1>6. Captures(T)
  <2> SUFFICES ASSUME NEW t \in P.shots, NEW i \in 1..Keep, P.all[i].id = t.id
               PROVE  /\ P.all[i].serial = t.serial /\ ~P.all[i].thumb
                      /\ t.pc = "saved" => PictureOf(T.all[i]) \in T.files
    BY <1>1 DEF Captures
  <2>1. /\ P.all[i].serial = t.serial /\ ~P.all[i].thumb
        /\ t.pc = "saved" => PictureOf(P.all[i]) \in P.files
    BY <1>1 DEF Thumbs, Captures
  <2> QED BY <1>5, <2>1
<1>7. ASSUME NEW i \in 1..Keep, T.all[i].thumb PROVE PictureOf(T.all[i]) \in T.files
  BY <1>1, <1>5, <1>7 DEF Thumbs
<1>8. ASSUME NEW p \in T.files PROVE Owned(T, p, lf)
  <2>1. p \in P.files /\ ~(x.thumb /\ x.id = p.id)
    BY <1>8 DEF x
  <2>2. Owned(P, p, lf)
    BY <2>1 DEF Thumbs
  <2>3. CASE \E i \in DOMAIN P.all : P.all[i].thumb /\ P.all[i].id = p.id
    <3>1. PICK i \in DOMAIN P.all : P.all[i].thumb /\ P.all[i].id = p.id
      BY <2>3
    <3>2. i \in 1..Keep
      BY <1>2, <2>1, <3>1 DEF x
    <3> QED BY <1>1, <3>1, <3>2 DEF Owned
  <2> QED BY <2>2, <2>3 DEF Owned
<1> QED BY <1>1, <1>4, <1>6, <1>7, <1>8 DEF Thumbs

LEMMA TrimmedKeeps ==
  ASSUME NEW P, NEW f, NEW bad, NEW lf, Loose(P, f, bad, lf), Len(P.all) <= Keep + 1
  PROVE  BoxInv(Trimmed(P), f, bad, lf) /\ Trimmed(P).serial = P.serial
<1> DEFINE T == Trimmed(P)
<1>0. /\ P \in Boxes /\ Order(P) /\ Table(P) /\ View(P, f) /\ (bad \/ Thumbs(P, lf))
      /\ Keep \in Nat /\ P.all \in Seq(Event) /\ P.db \in Seq(Event) /\ P.view \in Seq(Nat)
      /\ Len(P.all) \in Nat /\ DOMAIN P.all = 1..Len(P.all)
  BY BoxIs, InboxAssumption DEF InboxAssumption, Loose
<1>1. CASE Len(P.all) <= Keep
  <2>1. T = P
    BY <1>1 DEF Trimmed
  <2> QED BY <1>1, <2>1 DEF BoxInv
<1>2. CASE ~(Len(P.all) <= Keep)
  <2>1. Len(P.all) = Keep + 1
    BY <1>0, <1>2
  <2>2. /\ T.all = Newest(P.all, Keep) /\ T.db = Newest(P.db, Keep) /\ T.view = Pruned(P.view)
        /\ T.files = {p \in P.files : ~(P.all[Keep + 1].thumb /\ P.all[Keep + 1].id = p.id)}
        /\ T.last = P.last /\ T.shots = P.shots /\ T.serial = P.serial
        /\ T = [all |-> T.all, view |-> T.view, db |-> T.db, last |-> T.last, files |-> T.files,
                shots |-> T.shots, serial |-> T.serial]
    BY <1>0, <2>1, TrimmedIs
  <2> HIDE DEF T
  <2>3. Table(T) /\ Len(T.all) = Keep
    BY <1>0, <2>1, <2>2, TrimmedTable
  <2>4. bad \/ Thumbs(T, lf)
    BY <1>0, <2>1, <2>2, TrimmedThumbs
  <2>5. Order(T)
    BY <1>0, <2>2, NewestStays DEF Order
  <2>6. Fitting(P.all, f) \in SUBSET Nat
    BY <1>0 DEF Fitting
  <2>7. T.view \in Seq(Nat) /\ Ascends(T.view, {i \in Fitting(P.all, f) : i <= Keep}, Len(T.view))
    BY <1>0, <2>2, <2>6, PrunedIs DEF View
  <2>8. {i \in Fitting(P.all, f) : i <= Keep} = Fitting(T.all, f)
    <3>1. DOMAIN T.all = 1..Keep /\ \A i \in 1..Keep : T.all[i] = P.all[i]
      <4> DEFINE q == Newest(P.all, Keep)
      <4>1. DOMAIN q = 1..Len(q) /\ \A i \in 1..Len(q) : q[i] = P.all[i]
        <5>1. Keep \in Nat /\ P.all \in Seq(Event)
          BY <1>0
        <5> QED BY <5>1, NewestIs
      <4>2. T.all = q /\ Len(q) = Keep
        BY <2>2, <2>3
      <4> HIDE DEF q
      <4> QED BY <4>1, <4>2
    <3>2. DOMAIN P.all = 1..Keep + 1
      BY <1>0, <2>1
    <3> QED BY <1>0, <3>1, <3>2 DEF Fitting
  <2>9. View(T, f)
    BY <2>7, <2>8 DEF View
  <2>10. T.all \in Seq(Event) /\ T.db \in Seq(Event) /\ T.files \subseteq P.files
    <3>1. Newest(P.all, Keep) \in Seq(Event) /\ Newest(P.db, Keep) \in Seq(Event)
      BY <1>0, NewestIs
    <3> QED BY <2>2, <3>1
  <2>11. T \in Boxes
    <3>1. /\ P.last \in 0..MaxAlerts /\ P.serial \in 0..MaxAlerts
          /\ P.files \subseteq Pictures /\ P.shots \subseteq Shots
      BY <1>0, BoxIs
    <3>2. [all |-> T.all, view |-> T.view, db |-> T.db, last |-> T.last, files |-> T.files,
           shots |-> T.shots, serial |-> T.serial] \in Boxes
      BY <2>2, <2>7, <2>10, <3>1 DEF Boxes
    <3> QED BY <2>2, <3>2
  <2> QED BY <1>0, <2>2, <2>3, <2>4, <2>5, <2>9, <2>11 DEF BoxInv, Loose, T
<1> QED BY <1>1, <1>2

LEMMA RecordedKeeps ==
  ASSUME NEW s, NEW bad \in BOOLEAN, NEW lf, BoxInv(s, filter, bad, lf), s.serial < MaxAlerts,
         NEW e \in News, NEW stored \in BOOLEAN, bad \/ stored
  PROVE  BoxInv(Recorded(s, e, stored), filter, bad, lf) /\ Recorded(s, e, stored).serial = s.serial + 1
<1> DEFINE P == Added(s, e, stored)
<1>1. Loose(P, filter, bad, lf) /\ Len(P.all) <= Keep + 1 /\ P.serial = s.serial + 1
  BY AddedKeeps
<1> HIDE DEF P
<1>2. BoxInv(Trimmed(P), filter, bad, lf) /\ Trimmed(P).serial = P.serial
  BY <1>1, TrimmedKeeps
<1> QED BY <1>1, <1>2 DEF Recorded, P

-----------------------------------------------------------------------------
(* One handler raises several events                                       *)
LEMMA RecordsAre ==
  ASSUME NEW events \in Seq(News), Raise(events)
  PROVE  \E lost, made :
           /\ lost \in SUBSET DOMAIN events
           /\ inbox' = made[Len(events)] /\ failed' = (failed \/ lost # {})
           /\ made[0] = inbox
           /\ \A k \in 1..Len(events) : made[k] = Recorded(made[k - 1], events[k], k \notin lost)
<1> DEFINE Made(lost) ==
             CHOOSE m : m = [n \in 0..Len(events) |->
                               IF n = 0 THEN inbox ELSE Recorded(m[n - 1], events[n], n \notin lost)]
<1>1. PICK lost \in SUBSET IF InsertsFail THEN DOMAIN events ELSE {} :
             inbox' = Made(lost)[Len(events)] /\ failed' = (failed \/ lost # {})
  BY DEF Raise
<1>2. lost \in SUBSET DOMAIN events
  OBVIOUS
<1> DEFINE D(n) == \E m : m = [k \in 0..n |-> IF k = 0 THEN inbox ELSE Recorded(m[k - 1], events[k], k \notin lost)]
           T    == {n \in Nat : D(n)}
<1>3. D(0)
  <2> DEFINE u == [k \in 0..0 |-> inbox]
  <2>1. u = [k \in 0..0 |-> IF k = 0 THEN inbox ELSE Recorded(u[k - 1], events[k], k \notin lost)]
    OBVIOUS
  <2> QED BY <2>1
<1>4. ASSUME NEW n \in Nat, D(n) PROVE D(n + 1)
  <2>1. PICK m : m = [k \in 0..n |-> IF k = 0 THEN inbox ELSE Recorded(m[k - 1], events[k], k \notin lost)]
    BY <1>4
  <2> DEFINE u == [k \in 0..(n + 1) |->
                     IF k = n + 1 THEN Recorded(m[n], events[n + 1], n + 1 \notin lost) ELSE m[k]]
  <2>2. ASSUME NEW k \in 0..(n + 1)
        PROVE  u[k] = IF k = 0 THEN inbox ELSE Recorded(u[k - 1], events[k], k \notin lost)
    <3>1. CASE k = n + 1
      BY <3>1
    <3>2. CASE k # n + 1
      <4>1. k \in 0..n /\ u[k] = m[k]
        BY <3>2
      <4>2. m[k] = IF k = 0 THEN inbox ELSE Recorded(m[k - 1], events[k], k \notin lost)
        BY <2>1, <4>1
      <4>3. k # 0 => u[k - 1] = m[k - 1]
        BY <4>1
      <4> QED BY <4>1, <4>2, <4>3
    <3> QED BY <3>1, <3>2
  <2>3. u = [k \in 0..(n + 1) |-> IF k = 0 THEN inbox ELSE Recorded(u[k - 1], events[k], k \notin lost)]
    BY <2>2
  <2> QED BY <2>3
<1> HIDE DEF D
<1>5. 0 \in T /\ \A n \in Nat : n \in T => n + 1 \in T
  BY <1>3, <1>4
<1>6. Nat \subseteq T
  BY <1>5, Induction
<1>7. D(Len(events))
  BY <1>6
<1> DEFINE made == Made(lost)
<1>8. made = [k \in 0..Len(events) |-> IF k = 0 THEN inbox ELSE Recorded(made[k - 1], events[k], k \notin lost)]
  BY <1>7 DEF D
<1>9. inbox' = made[Len(events)]
  BY <1>1
<1> HIDE DEF made
<1>10. made[0] = inbox /\ \A k \in 1..Len(events) : made[k] = Recorded(made[k - 1], events[k], k \notin lost)
  <2>1. Len(events) \in Nat /\ \A k \in 1..Len(events) : k \in 0..Len(events) /\ k # 0
    OBVIOUS
  <2>2. 0 \in 0..Len(events)
    BY <2>1
  <2>3. \A k \in 0..Len(events) : made[k] = IF k = 0 THEN inbox ELSE Recorded(made[k - 1], events[k], k \notin lost)
    BY <1>8, Zenon
  <2>4. \A k \in 1..Len(events) : made[k] = Recorded(made[k - 1], events[k], k \notin lost)
    BY <2>1, <2>3, Zenon
  <2> QED BY <2>2, <2>3, <2>4, Zenon
<1>11. failed' = (failed \/ lost # {})
  BY <1>1
<1> HIDE DEF T, D
<1> WITNESS lost, made
<1> QED BY <1>2, <1>9, <1>10, <1>11

InboxInv == BoxInv(inbox, filter, failed, left) /\ failed \in BOOLEAN /\ filter \in Views /\ left \subseteq 1..MaxAlerts

LEMMA RaiseKeeps ==
  ASSUME InboxInv, NEW events \in Seq(News), Raise(events)
  PROVE  InboxInv'
<1> DEFINE n == Len(events)
           bad == failed'
<1>0. n \in Nat /\ DOMAIN events = 1..n /\ \A k \in 1..n : events[k] \in News
  OBVIOUS
<1>1. PICK lost, made :
           /\ lost \in SUBSET DOMAIN events
           /\ inbox' = made[n] /\ bad = (failed \/ lost # {})
           /\ made[0] = inbox
           /\ \A k \in 1..n : made[k] = Recorded(made[k - 1], events[k], k \notin lost)
  BY RecordsAre
<1>2. UNCHANGED <<filter, left>> /\ inbox.serial + n <= MaxAlerts
  BY DEF Raise
<1>3. inbox.serial \in Nat /\ MaxAlerts \in Nat /\ BoxInv(inbox, filter, bad, left) /\ bad \in BOOLEAN
  <2>1. inbox.serial \in 0..MaxAlerts
    BY BoxIs DEF InboxInv, BoxInv, Loose
  <2>2. BoxInv(inbox, filter, bad, left) /\ bad \in BOOLEAN
    BY <1>1 DEF InboxInv, BoxInv, Loose
  <2> QED BY <2>1, <2>2, InboxAssumption DEF InboxAssumption
<1> HIDE DEF n, bad
<1> DEFINE D(k) == k <= n => BoxInv(made[k], filter, bad, left) /\ made[k].serial = inbox.serial + k
           T    == {k \in Nat : D(k)}
<1>4. D(0)
  BY <1>1, <1>3
<1>5. ASSUME NEW k \in Nat, D(k) PROVE D(k + 1)
  <2> SUFFICES ASSUME k + 1 <= n
               PROVE  BoxInv(made[k + 1], filter, bad, left) /\ made[k + 1].serial = inbox.serial + (k + 1)
    OBVIOUS
  <2>1. BoxInv(made[k], filter, bad, left) /\ made[k].serial = inbox.serial + k /\ k <= n
    BY <1>0, <1>5
  <2>2. made[k].serial < MaxAlerts /\ k + 1 \in 1..n /\ (k + 1) - 1 = k
    BY <1>0, <1>2, <1>3, <2>1
  <2>3. made[k + 1] = Recorded(made[k], events[k + 1], k + 1 \notin lost) /\ events[k + 1] \in News
    BY <1>0, <1>1, <2>2
  <2>4. bad \/ (k + 1 \notin lost)
    BY <1>1
  <2>5. (k + 1 \notin lost) \in BOOLEAN
    OBVIOUS
  <2> DEFINE stored == k + 1 \notin lost
  <2> HIDE DEF stored
  <2>6. stored \in BOOLEAN /\ (bad \/ stored) /\ made[k + 1] = Recorded(made[k], events[k + 1], stored)
    BY <2>3, <2>4, <2>5 DEF stored
  <2>7. BoxInv(made[k + 1], filter, bad, left) /\ made[k + 1].serial = made[k].serial + 1
    BY <1>3, <2>1, <2>2, <2>3, <2>6, RecordedKeeps
  <2> QED BY <1>3, <2>1, <2>7
<1> HIDE DEF D
<1>6. 0 \in T /\ \A k \in Nat : k \in T => k + 1 \in T
  BY <1>4, <1>5
<1>7. Nat \subseteq T
  BY <1>6, Induction
<1>8. D(n)
  BY <1>0, <1>7
<1>9. BoxInv(inbox', filter, bad, left)
  BY <1>0, <1>1, <1>8 DEF D
<1> QED BY <1>2, <1>3, <1>9 DEF InboxInv, BoxInv, Loose, bad

-----------------------------------------------------------------------------
(* As long as every listed event is stored, the table is the list.         *)
LEMMA TableIsList ==
  ASSUME NEW s \in Boxes, Order(s), Table(s), \A i \in DOMAIN s.all : IsStored(s.all[i])
  PROVE  s.db = s.all
<1> DEFINE n    == Len(s.all)
           d    == Len(s.db)
           Off  == {i \in 1..n : ~(i \in 1..d /\ s.db[i] = s.all[i])}
<1>0. /\ n \in Nat /\ d \in Nat /\ s.all \in Seq(Event) /\ s.db \in Seq(Event)
      /\ DOMAIN s.all = 1..n /\ DOMAIN s.db = 1..d /\ d <= n
  BY BoxIs DEF Table
<1>1. \A i \in 1..n : s.all[i].serial \in Nat
  BY <1>0, BoxIs, EventIs
<1> HIDE DEF n, d
<1>2. Off = {}
  <2> SUFFICES ASSUME Off # {} PROVE FALSE
    OBVIOUS
  <2>1. Off \in SUBSET Nat
    BY <1>0
  <2>2. PICK i \in Off : \A j \in Off : i <= j
    <3> HIDE DEF Off
    <3> QED BY <2>1, Least
  <2>3. i \in 1..n
    OBVIOUS
  <2>4. PICK k \in 1..i : k \in 1..d /\ s.db[k] = s.all[i]
    BY <1>0, <2>3 DEF Table
  <2>5. k # i /\ k < i /\ k \in 1..n
    BY <1>0, <2>3, <2>4
  <2>6. k \notin Off
    BY <1>0, <2>1, <2>2, <2>5
  <2>7. s.all[k] = s.all[i]
    BY <2>4, <2>5, <2>6
  <2>8. s.all[k].serial > s.all[i].serial
    BY <1>0, <2>3, <2>5 DEF Order, NewestFirst
  <2> QED BY <1>1, <2>3, <2>7, <2>8
<1>3. \A i \in 1..n : i \in 1..d /\ s.db[i] = s.all[i]
  BY <1>2
<1>4. d = n
  BY <1>0, <1>3
<1> DEFINE q == s.db
           r == s.all
<1>5. q \in Seq(Event) /\ r \in Seq(Event) /\ Len(q) = Len(r) /\ \A i \in 1..Len(r) : q[i] = r[i]
  BY <1>0, <1>3, <1>4 DEF n, d
<1> HIDE DEF q, r
<1>6. q = r
  BY <1>5
<1> QED BY <1>6 DEF q, r

LEMMA ReloadIs ==
  ASSUME NEW s \in Boxes, Len(s.db) <= Keep, NEW f
  PROVE  LET R == reload(s, f)
         IN  /\ R.all = s.db /\ R.view = Matching(s.db, f) /\ R.db = s.db /\ R.last = s.last
             /\ R.files = s.files /\ R.shots = s.shots /\ R.serial = s.serial
             /\ R = [all |-> R.all, view |-> R.view, db |-> R.db, last |-> R.last, files |-> R.files,
                     shots |-> R.shots, serial |-> R.serial]
<1>1. Newest(s.db, Keep) = s.db
  BY BoxIs, InboxAssumption, NewestOfAll DEF InboxAssumption
<1>2. reload(s, f) = [s EXCEPT !.all = s.db, !.view = Matching(s.db, f)]
  BY <1>1 DEF reload
<1> QED BY <1>2 DEF Boxes

LEMMA ReloadKeeps ==
  ASSUME NEW s \in Boxes, Len(s.db) <= Keep, NEW f, s.last <= s.serial,
         NewestFirst(s.db), \A k \in DOMAIN s.db : s.db[k].serial <= s.serial /\ IsStored(s.db[k])
  PROVE  LET R == reload(s, f)
         IN  R \in Boxes /\ Order(R) /\ Table(R) /\ View(R, f) /\ Len(R.all) <= Keep
<1> DEFINE R == reload(s, f)
<1>1. /\ R.all = s.db /\ R.view = Matching(s.db, f) /\ R.db = s.db /\ R.last = s.last
      /\ R.files = s.files /\ R.shots = s.shots /\ R.serial = s.serial
      /\ R = [all |-> R.all, view |-> R.view, db |-> R.db, last |-> R.last, files |-> R.files,
              shots |-> R.shots, serial |-> R.serial]
  BY ReloadIs
<1> HIDE DEF R
<1>2. /\ s.db \in Seq(Event) /\ DOMAIN s.db = 1..Len(s.db) /\ Len(s.db) \in Nat
      /\ s.last \in 0..MaxAlerts /\ s.serial \in 0..MaxAlerts
      /\ s.files \subseteq Pictures /\ s.shots \subseteq Shots
  BY BoxIs
<1>3. Matching(s.db, f) \in Seq(Nat) /\ Ascends(Matching(s.db, f), Fitting(s.db, f), Len(Matching(s.db, f)))
  BY <1>2, MatchingIs
<1>4. R \in Boxes
  <2>1. [all |-> R.all, view |-> R.view, db |-> R.db, last |-> R.last, files |-> R.files,
         shots |-> R.shots, serial |-> R.serial] \in Boxes
    BY <1>1, <1>2, <1>3 DEF Boxes
  <2> QED BY <1>1, <2>1
<1>5. View(R, f)
  BY <1>1, <1>3 DEF View
<1>6. Order(R)
  BY <1>1 DEF Order
<1>7. Table(R)
  <2>1. Len(R.db) <= Len(R.all) /\ DOMAIN R.db = 1..Len(s.db) /\ DOMAIN R.all = 1..Len(s.db)
    BY <1>1, <1>2
  <2>2. \A k \in DOMAIN R.db : IsStored(R.db[k]) /\ Lists(R, R.db[k])
    BY <1>1 DEF Lists
  <2>3. \A i \in 1..Len(s.db) : i \in 1..i
    BY <1>2
  <2>4. \A i \in DOMAIN R.all : \E k \in 1..i : k \in DOMAIN R.db /\ R.db[k] = R.all[i]
    BY <1>1, <2>1, <2>3
  <2> QED BY <2>1, <2>2, <2>4 DEF Table
<1> QED BY <1>1, <1>4, <1>5, <1>6, <1>7 DEF R

(* Thumbs speaks of the list, the files, the captures and the last id.     *)
LEMMA ThumbsAlike ==
  ASSUME NEW s, NEW u, NEW lf, Thumbs(s, lf),
         u.all = s.all, u.files = s.files, u.shots = s.shots, u.last = s.last
  PROVE  Thumbs(u, lf)
BY DEF Thumbs, Numbers, Captures, Owned

LEMMA InboxIs ==
  ASSUME InboxInv
  PROVE  /\ inbox \in Boxes /\ Order(inbox) /\ Table(inbox) /\ View(inbox, filter)
         /\ Len(inbox.all) <= Keep /\ Len(inbox.db) <= Keep /\ inbox.last <= inbox.serial
         /\ NewestFirst(inbox.db)
         /\ \A k \in DOMAIN inbox.db : inbox.db[k].serial <= inbox.serial /\ IsStored(inbox.db[k])
         /\ failed \/ (Thumbs(inbox, left) /\ inbox.db = inbox.all)
         /\ failed \in BOOLEAN /\ filter \in Views /\ left \subseteq 1..MaxAlerts
<1>1. /\ inbox \in Boxes /\ Order(inbox) /\ Table(inbox) /\ View(inbox, filter) /\ Len(inbox.all) <= Keep
      /\ failed \/ Thumbs(inbox, left)
      /\ failed \in BOOLEAN /\ filter \in Views /\ left \subseteq 1..MaxAlerts
  BY DEF InboxInv, BoxInv, Loose
<1>2. Len(inbox.db) <= Keep
  <2>1. Len(inbox.db) <= Len(inbox.all)
    BY <1>1 DEF Table
  <2> QED BY <1>1, <2>1, BoxIs, InboxAssumption DEF InboxAssumption
<1>3. failed \/ inbox.db = inbox.all
  BY <1>1, TableIsList DEF Thumbs, Numbers
<1>4. /\ inbox.last <= inbox.serial /\ NewestFirst(inbox.db)
      /\ \A k \in DOMAIN inbox.db : inbox.db[k].serial <= inbox.serial /\ IsStored(inbox.db[k])
  BY <1>1 DEF Order, Table
<1> QED BY <1>1, <1>2, <1>3, <1>4

LEMMA FilterKeeps ==
  ASSUME InboxInv, NEW f \in Filters, SetFilter(f)
  PROVE  InboxInv'
<1> DEFINE R == reload(inbox, f)
<1>1. inbox' = R /\ filter' = f /\ failed' = failed /\ left' = left /\ f \in Views
  BY InboxAssumption DEF InboxAssumption, SetFilter, Views
<1>2. R \in Boxes /\ Order(R) /\ Table(R) /\ View(R, f) /\ Len(R.all) <= Keep
  BY InboxIs, ReloadKeeps
<1>3. R.all = inbox.db /\ R.last = inbox.last /\ R.files = inbox.files /\ R.shots = inbox.shots
  BY InboxIs, ReloadIs
<1> HIDE DEF R
<1>4. failed \/ Thumbs(R, left)
  BY <1>3, InboxIs, ThumbsAlike
<1> QED BY <1>1, <1>2, <1>4, InboxIs DEF InboxInv, BoxInv, Loose

With(s, files, shots, db) == [s EXCEPT !.files = files, !.shots = shots, !.db = db]

LEMMA BoxWith ==
  ASSUME NEW s \in Boxes, NEW files \in SUBSET Pictures, NEW shots \in SUBSET Shots, NEW db \in Seq(Event)
  PROVE  LET u == With(s, files, shots, db)
         IN  /\ u \in Boxes
             /\ u.all = s.all /\ u.db = db /\ u.last = s.last /\ u.serial = s.serial
             /\ u.files = files /\ u.shots = shots
<1> DEFINE u == With(s, files, shots, db)
<1>0. u = [s EXCEPT !.files = files, !.shots = shots, !.db = db]
  BY DEF With
<1> HIDE DEF u
<1>1. u = [all |-> s.all, view |-> s.view, db |-> db, last |-> s.last, files |-> files,
           shots |-> shots, serial |-> s.serial]
  BY <1>0 DEF Boxes
<1>2. /\ s.all \in Seq(Event) /\ s.view \in Seq(Nat) /\ s.last \in 0..MaxAlerts /\ s.serial \in 0..MaxAlerts
  BY BoxIs
<1>3. u \in Boxes
  BY <1>1, <1>2 DEF Boxes
<1> QED BY <1>1, <1>3 DEF u

LEMMA ClearKeeps ==
  ASSUME InboxInv, Clear
  PROVE  InboxInv'
<1> DEFINE s == [inbox EXCEPT !.files = {}, !.db = <<>>]
           R == reload(s, filter)
<1>1. inbox' = R /\ filter' = filter /\ failed' = failed /\ left' = {}
  BY DEF Clear
<1>2. /\ inbox \in Boxes /\ inbox.last <= inbox.serial
  BY InboxIs
<1>3. s \in Boxes /\ s.db = <<>> /\ s.last = inbox.last /\ s.serial = inbox.serial /\ s.files = {}
      /\ s.shots = inbox.shots
  <2>1. s = With(inbox, {}, inbox.shots, <<>>)
    <3>1. inbox = [inbox EXCEPT !.shots = inbox.shots]
      BY <1>2 DEF Boxes
    <3> QED BY <1>2 DEF With, Boxes
  <2>2. {} \in SUBSET Pictures /\ inbox.shots \in SUBSET Shots /\ <<>> \in Seq(Event)
    BY <1>2, BoxIs
  <2> DEFINE no == {}
             nothing == <<>>
  <2> HIDE DEF s, no, nothing
  <2>3. s = With(inbox, no, inbox.shots, nothing)
    BY <2>1 DEF no, nothing
  <2>4. no \in SUBSET Pictures /\ nothing \in Seq(Event)
    BY <2>2 DEF no, nothing
  <2>5. s \in Boxes /\ s.db = nothing /\ s.last = inbox.last /\ s.serial = inbox.serial /\ s.files = no
        /\ s.shots = inbox.shots
    BY <1>2, <2>2, <2>3, <2>4, BoxWith
  <2> QED BY <2>5 DEF no, nothing
<1> HIDE DEF s
<1>4. Len(s.db) <= Keep /\ NewestFirst(s.db)
      /\ \A k \in DOMAIN s.db : s.db[k].serial <= s.serial /\ IsStored(s.db[k])
  BY <1>3, InboxAssumption DEF InboxAssumption, NewestFirst
<1>5. R \in Boxes /\ Order(R) /\ Table(R) /\ View(R, filter) /\ Len(R.all) <= Keep
  BY <1>2, <1>3, <1>4, ReloadKeeps
<1>6. R.all = <<>> /\ R.last = inbox.last /\ R.files = {} /\ R.shots = inbox.shots
  BY <1>3, <1>4, ReloadIs
<1> HIDE DEF R
<1>7. failed \/ Thumbs(R, {})
  BY <1>6, InboxIs DEF Thumbs, Numbers, Captures, Owned
<1> QED BY <1>1, <1>5, <1>7, InboxIs DEF InboxInv, BoxInv, Loose

-----------------------------------------------------------------------------
(* The program is started again                                            *)
LEMMA RestartKeeps ==
  ASSUME InboxInv, InboxRestarts
  PROVE  InboxInv'
<1> DEFINE Wrote(done)  == {[id |-> s.id, serial |-> s.serial] : s \in done}
           Files(done)  == {p \in inbox.files : \A w \in Wrote(done) : w.id # p.id} \cup Wrote(done)
           listed       == {inbox.db[i].id : i \in {j \in DOMAIN inbox.db : inbox.db[j].thumb}}
           Old(done)    == [inbox EXCEPT !.files = Files(done), !.shots = {}, !.db = Newest(@, Keep)]
<1>1. PICK done \in SUBSET {s \in inbox.shots : s.pc = "fetch"} :
             /\ inbox' = reload(Old(done), NoFilter)
             /\ left' = {p.id : p \in Files(done)} \ listed
  BY DEF InboxRestarts
<1> DEFINE wrote == Wrote(done)
           files == Files(done)
           s     == Old(done)
           R     == reload(s, NoFilter)
<1>2. filter' = NoFilter /\ failed' = failed /\ NoFilter \in Views
  BY DEF InboxRestarts, NoFilter, Views
<1>3. /\ inbox \in Boxes /\ inbox.last <= inbox.serial /\ Newest(inbox.db, Keep) = inbox.db
      /\ inbox.files \subseteq Pictures /\ inbox.shots \subseteq Shots
      /\ DOMAIN inbox.all = 1..Len(inbox.all) /\ \A i \in DOMAIN inbox.all : inbox.all[i] \in Event
  <2>1. inbox \in Boxes /\ inbox.last <= inbox.serial /\ Len(inbox.db) <= Keep
    BY InboxIs
  <2>2. Keep \in Nat /\ inbox.db \in Seq(Event)
    BY <2>1, BoxIs, InboxAssumption DEF InboxAssumption
  <2> QED BY <2>1, <2>2, BoxIs, NewestOfAll
<1>4. \A w \in wrote : \E t \in inbox.shots : t.id = w.id /\ t.serial = w.serial /\ w \in Pictures
  BY <1>3 DEF Shots, Pictures
<1>5. files \subseteq Pictures
  BY <1>3, <1>4
<1> HIDE DEF Wrote
<1>6. /\ s \in Boxes /\ s.db = inbox.db /\ s.last = inbox.last /\ s.serial = inbox.serial
      /\ s.files = files /\ s.shots = {}
  <2> DEFINE new == files
             no  == {}
  <2> HIDE DEF new, no
  <2>1. s = With(inbox, new, no, inbox.db)
    BY <1>3 DEF With, new, no
  <2>2. new \in SUBSET Pictures /\ no \in SUBSET Shots /\ inbox.db \in Seq(Event)
    BY <1>3, <1>5, BoxIs DEF new, no
  <2> HIDE DEF s
  <2>3. /\ s \in Boxes /\ s.db = inbox.db /\ s.last = inbox.last /\ s.serial = inbox.serial
        /\ s.files = new /\ s.shots = no
    BY <1>3, <2>1, <2>2, BoxWith
  <2> QED BY <2>3 DEF new, no
<1> HIDE DEF Old, Files
<1>7. /\ R \in Boxes /\ Order(R) /\ Table(R) /\ View(R, NoFilter) /\ Len(R.all) <= Keep
      /\ R.all = inbox.db /\ R.files = files /\ R.shots = {}
  <2>1. /\ Len(s.db) <= Keep /\ s.last <= s.serial /\ NewestFirst(s.db)
        /\ \A k \in DOMAIN s.db : s.db[k].serial <= s.serial /\ IsStored(s.db[k])
    BY <1>6, InboxIs
  <2> HIDE DEF s, files
  <2> QED BY <1>6, <2>1, ReloadKeeps, ReloadIs
<1>8. left' \subseteq 1..MaxAlerts
  BY <1>1, <1>5 DEF Pictures
<1>9. ASSUME ~failed PROVE Thumbs(R, left')
  <2>1. Thumbs(inbox, left) /\ inbox.db = inbox.all
    BY <1>9, InboxIs
  <2>2. Numbers(R) /\ Captures(R)
    <3>1. R.last = inbox.last
      <4>1. s.last = inbox.last /\ Len(s.db) <= Keep
        BY <1>6, InboxIs
      <4> HIDE DEF s
      <4> QED BY <1>6, <4>1, ReloadIs
    <3> HIDE DEF R
    <3> QED BY <1>7, <2>1, <3>1 DEF Thumbs, Numbers, Captures
  <2>3. ASSUME NEW i \in DOMAIN inbox.all, inbox.all[i].thumb PROVE PictureOf(inbox.all[i]) \in files
    <3>1. PictureOf(inbox.all[i]) \in inbox.files
      BY <2>1, <2>3 DEF Thumbs
    <3>2. \A t \in inbox.shots : t.id # inbox.all[i].id
      BY <2>1, <2>3 DEF Thumbs, Captures
    <3>3. \A w \in wrote : w.id # PictureOf(inbox.all[i]).id
      BY <1>4, <3>2 DEF PictureOf
    <3> QED BY <3>1, <3>3 DEF Files
  <2>4. ASSUME NEW p \in files PROVE (\E i \in DOMAIN inbox.all : inbox.all[i].thumb /\ inbox.all[i].id = p.id)
                                      \/ p.id \in left'
    <3>1. CASE p.id \in listed
      BY <2>1, <3>1
    <3>2. CASE p.id \notin listed
      BY <1>1, <3>2
    <3> QED BY <3>1, <3>2
  <2> HIDE DEF R, files
  <2> QED BY <1>7, <2>1, <2>2, <2>3, <2>4 DEF Thumbs, Owned
<1>10. inbox' = R
  BY <1>1
<1> HIDE DEF R
<1> QED BY <1>2, <1>7, <1>8, <1>9, <1>10, InboxIs DEF InboxInv, BoxInv, Loose

-----------------------------------------------------------------------------
(* Thumbnails                                                              *)

(* A step that changes only files and captures.                            *)
LEMMA OnlyPictures ==
  ASSUME InboxInv, UNCHANGED <<filter, failed, left>>,
         NEW files \in SUBSET Pictures, NEW shots \in SUBSET Shots,
         inbox' = With(inbox, files, shots, inbox.db),
         ASSUME Thumbs(inbox, left) PROVE Thumbs(With(inbox, files, shots, inbox.db), left)
  PROVE  InboxInv'
<1> DEFINE u == With(inbox, files, shots, inbox.db)
<1>1. inbox \in Boxes /\ inbox.db \in Seq(Event)
  BY InboxIs, BoxIs
<1>2. /\ u \in Boxes
      /\ u.all = inbox.all /\ u.db = inbox.db /\ u.last = inbox.last /\ u.serial = inbox.serial
  BY <1>1, BoxWith
<1>3. u.view = inbox.view
  BY <1>1 DEF With, Boxes
<1>4. failed \/ Thumbs(u, left)
  BY InboxIs
<1>5. inbox' = u
  OBVIOUS
<1> HIDE DEF u
<1>6. Order(u) /\ Table(u) /\ View(u, filter) /\ Len(u.all) <= Keep
  BY <1>2, <1>3, InboxIs DEF Order, Table, Lists, View
<1> QED BY <1>2, <1>4, <1>5, <1>6, InboxIs DEF InboxInv, BoxInv, Loose

LEMMA SaveKeeps ==
  ASSUME InboxInv, NEW shot \in inbox.shots, SaveThumbnail(shot)
  PROVE  InboxInv'
<1>0. /\ UNCHANGED <<filter, failed, left>> /\ shot.pc = "fetch"
      /\ inbox \in Boxes /\ inbox.files \subseteq Pictures /\ inbox.shots \subseteq Shots
      /\ inbox.db \in Seq(Event)
  BY InboxIs, BoxIs DEF SaveThumbnail
<1>1. CASE inbox' = [inbox EXCEPT !.shots = @ \ {shot}]
  <2> DEFINE shots == inbox.shots \ {shot}
             u     == With(inbox, inbox.files, shots, inbox.db)
  <2>1. shots \in SUBSET Shots /\ shots \subseteq inbox.shots
        /\ \A t \in inbox.shots : t.pc = "saved" => t \in shots
    BY <1>0
  <2>2. inbox' = u
    <3>1. inbox = [inbox EXCEPT !.files = inbox.files, !.db = inbox.db]
      BY <1>0 DEF Boxes
    <3> QED BY <1>0, <1>1 DEF With, Boxes
  <2> HIDE DEF shots
  <2>3. u.all = inbox.all /\ u.files = inbox.files /\ u.shots = shots /\ u.last = inbox.last
    BY <1>0, <2>1, BoxWith
  <2> HIDE DEF u
  <2>4. ASSUME Thumbs(inbox, left) PROVE Thumbs(u, left)
    <3>1. Numbers(u) /\ Captures(u)
      BY <2>1, <2>3, <2>4 DEF Thumbs, Numbers, Captures
    <3>2. ASSUME NEW p \in u.files PROVE Owned(u, p, left)
      <4>1. Owned(inbox, p, left)
        BY <2>3, <2>4 DEF Thumbs
      <4> QED BY <2>1, <2>3, <4>1 DEF Owned
    <3> QED BY <2>3, <2>4, <3>1, <3>2 DEF Thumbs
  <2> QED BY <1>0, <2>1, <2>2, <2>4, OnlyPictures DEF u
<1>2. CASE inbox' = [inbox EXCEPT
          !.files = {p \in @ : p.id # shot.id} \cup {[id |-> shot.id, serial |-> shot.serial]},
          !.shots = (@ \ {shot}) \cup {[shot EXCEPT !.pc = "saved"]}]
  <2> DEFINE pic   == [id |-> shot.id, serial |-> shot.serial]
             done  == [shot EXCEPT !.pc = "saved"]
             files == {p \in inbox.files : p.id # shot.id} \cup {pic}
             shots == (inbox.shots \ {shot}) \cup {done}
             u     == With(inbox, files, shots, inbox.db)
  <2>1. /\ pic \in Pictures /\ pic.id = shot.id /\ pic.serial = shot.serial
        /\ done \in Shots /\ done.id = shot.id /\ done.serial = shot.serial /\ done.pc = "saved"
    <3>1. shot \in Shots
      BY <1>0
    <3> QED BY <3>1 DEF Shots, Pictures
  <2>2. inbox' = u
    <3>1. inbox = [inbox EXCEPT !.db = inbox.db]
      BY <1>0 DEF Boxes
    <3> QED BY <1>0, <1>2 DEF With, Boxes
  <2> HIDE DEF pic, done
  <2>3. files \in SUBSET Pictures /\ shots \in SUBSET Shots
    BY <1>0, <2>1
  <2>4. /\ \A p : p \in files <=> (p \in inbox.files /\ p.id # shot.id) \/ p = pic
        /\ \A t : t \in shots <=> (t \in inbox.shots /\ t # shot) \/ t = done
    OBVIOUS
  <2> HIDE DEF files, shots
  <2>5. u.all = inbox.all /\ u.files = files /\ u.shots = shots /\ u.last = inbox.last
    BY <1>0, <2>3, BoxWith
  <2> HIDE DEF u
  <2>6. ASSUME Thumbs(inbox, left) PROVE Thumbs(u, left)
    <3>1. Numbers(u)
      <4>1. \A t \in shots : \E s \in inbox.shots : s.id = t.id /\ (t = s \/ (s = shot /\ t = done))
        BY <2>1, <2>4
      <4>2. \A t \in shots : t.id <= u.last
        BY <2>5, <2>6, <4>1 DEF Thumbs, Numbers
      <4>3. ASSUME NEW t \in shots, NEW v \in shots, t.id = v.id PROVE t = v
        BY <2>1, <2>4, <2>6, <4>3 DEF Thumbs, Numbers
      <4> QED BY <2>5, <2>6, <4>2, <4>3 DEF Thumbs, Numbers
    <3>2. ASSUME NEW i \in DOMAIN inbox.all, PictureOf(inbox.all[i]) \in inbox.files,
                 inbox.all[i].id # shot.id
          PROVE  PictureOf(inbox.all[i]) \in files
      BY <2>4, <3>2 DEF PictureOf
    <3>3. Captures(u)
      <4> SUFFICES ASSUME NEW t \in shots, NEW i \in DOMAIN inbox.all, inbox.all[i].id = t.id
                   PROVE  /\ inbox.all[i].serial = t.serial /\ ~inbox.all[i].thumb
                          /\ t.pc = "saved" => PictureOf(inbox.all[i]) \in files
        BY <2>5 DEF Captures
      <4>1. CASE t = done
        <5>1. inbox.all[i].serial = shot.serial /\ ~inbox.all[i].thumb /\ inbox.all[i].id = shot.id
          BY <2>1, <2>6, <4>1 DEF Thumbs, Captures
        <5>2. PictureOf(inbox.all[i]) = pic
          BY <5>1 DEF PictureOf, pic
        <5> QED BY <2>1, <2>4, <4>1, <5>1, <5>2
      <4>2. CASE t # done
        <5>1. t \in inbox.shots /\ t # shot
          BY <2>4, <4>2
        <5>2. t.id # shot.id
          BY <2>6, <5>1 DEF Thumbs, Numbers
        <5>3. /\ inbox.all[i].serial = t.serial /\ ~inbox.all[i].thumb
              /\ t.pc = "saved" => PictureOf(inbox.all[i]) \in inbox.files
          BY <2>6, <5>1 DEF Thumbs, Captures
        <5> QED BY <3>2, <5>2, <5>3
      <4> QED BY <4>1, <4>2
    <3>4. ASSUME NEW i \in DOMAIN inbox.all, inbox.all[i].thumb PROVE PictureOf(inbox.all[i]) \in files
      <4>1. PictureOf(inbox.all[i]) \in inbox.files /\ inbox.all[i].id # shot.id
        BY <2>6, <3>4 DEF Thumbs, Captures
      <4> QED BY <3>2, <4>1
    <3>5. ASSUME NEW p \in files PROVE Owned(u, p, left)
      <4>1. CASE p = pic
        BY <2>1, <2>4, <2>5, <4>1 DEF Owned
      <4>2. CASE p # pic
        <5>1. p \in inbox.files /\ p.id # shot.id
          BY <2>4, <4>2
        <5>2. Owned(inbox, p, left)
          BY <2>6, <5>1 DEF Thumbs
        <5>3. \A t \in inbox.shots : t.pc = "saved" => t \in shots
          BY <1>0, <2>4
        <5> QED BY <2>5, <5>2, <5>3 DEF Owned
      <4> QED BY <4>1, <4>2
    <3> QED BY <2>5, <3>1, <3>3, <3>4, <3>5 DEF Thumbs
  <2> QED BY <1>0, <2>2, <2>3, <2>6, OnlyPictures DEF u
<1> QED BY <1>1, <1>2 DEF SaveThumbnail

(* An event with its picture.                                              *)
Pictured(e, id) == [e EXCEPT !.thumb = @ \/ e.id = id]

LEMMA PicturedIs ==
  ASSUME NEW e \in Event, NEW id
  PROVE  LET u == Pictured(e, id)
         IN  /\ u \in Event
             /\ u.id = e.id /\ u.serial = e.serial /\ u.type = e.type /\ u.channel = e.channel
             /\ u.thumb <=> e.thumb \/ e.id = id
<1> DEFINE u == Pictured(e, id)
           b == e.thumb \/ e.id = id
<1>0. u = [e EXCEPT !.thumb = b]
  BY DEF Pictured
<1>1. b \in BOOLEAN
  OBVIOUS
<1> HIDE DEF u, b
<1>2. u \in Event /\ u.id = e.id /\ u.serial = e.serial /\ u.type = e.type /\ u.channel = e.channel /\ u.thumb = b
  BY <1>0, <1>1 DEF Event
<1> QED BY <1>2 DEF u, b

LEMMA WithThumbnailIs ==
  ASSUME NEW s \in Seq(Event), NEW id
  PROVE  LET q == WithThumbnail(s, id)
         IN  /\ q \in Seq(Event) /\ Len(q) = Len(s) /\ DOMAIN q = DOMAIN s /\ DOMAIN s = 1..Len(s)
             /\ \A i \in DOMAIN s :
                  /\ q[i] = Pictured(s[i], id)
                  /\ q[i].id = s[i].id /\ q[i].serial = s[i].serial
                  /\ q[i].type = s[i].type /\ q[i].channel = s[i].channel
                  /\ q[i].thumb <=> s[i].thumb \/ s[i].id = id
<1> DEFINE q == WithThumbnail(s, id)
           n == Len(s)
<1>0. n \in Nat /\ DOMAIN s = 1..n /\ \A i \in 1..n : s[i] \in Event
  OBVIOUS
<1>1. DOMAIN q = 1..n /\ q = [i \in 1..n |-> q[i]] /\ \A i \in 1..n : q[i] = Pictured(s[i], id)
  BY <1>0 DEF WithThumbnail, Pictured
<1> HIDE DEF q, n
<1>2. \A i \in 1..n :
        /\ q[i] \in Event
        /\ q[i].id = s[i].id /\ q[i].serial = s[i].serial
        /\ q[i].type = s[i].type /\ q[i].channel = s[i].channel
        /\ q[i].thumb <=> s[i].thumb \/ s[i].id = id
  <2> TAKE i \in 1..n
  <2>1. s[i] \in Event /\ q[i] = Pictured(s[i], id)
    BY <1>0, <1>1
  <2> QED BY <2>1, PicturedIs
<1>3. q \in [1..n -> Event]
  BY <1>1, <1>2
<1>4. q \in Seq(Event) /\ Len(q) = n
  BY <1>0, <1>3, AscendingIsSeq
<1> QED BY <1>0, <1>1, <1>2, <1>4 DEF q, n

Ready(s, shot) ==
  [s EXCEPT
     !.shots = @ \ {shot},
     !.db    = WithThumbnail(@, shot.id),
     !.all   = WithThumbnail(@, shot.id),
     !.files = IF \E i \in DOMAIN s.all : s.all[i].id = shot.id THEN @
               ELSE {p \in @ : p.id # shot.id}]

LEMMA ReadyIs ==
  ASSUME NEW s \in Boxes, NEW shot
  PROVE  LET R == Ready(s, shot)
         IN  /\ R \in Boxes
             /\ R.all = WithThumbnail(s.all, shot.id) /\ R.db = WithThumbnail(s.db, shot.id)
             /\ R.view = s.view /\ R.last = s.last /\ R.serial = s.serial
             /\ R.shots = s.shots \ {shot}
             /\ R.files = IF \E i \in DOMAIN s.all : s.all[i].id = shot.id THEN s.files
                          ELSE {p \in s.files : p.id # shot.id}
<1> DEFINE R     == Ready(s, shot)
           all   == WithThumbnail(s.all, shot.id)
           db    == WithThumbnail(s.db, shot.id)
           shots == s.shots \ {shot}
           files == IF \E i \in DOMAIN s.all : s.all[i].id = shot.id THEN s.files
                    ELSE {p \in s.files : p.id # shot.id}
<1>1. all \in Seq(Event) /\ db \in Seq(Event) /\ shots \subseteq Shots /\ files \subseteq Pictures
  BY BoxIs, WithThumbnailIs
<1>2. R = [s EXCEPT !.shots = shots, !.db = db, !.all = all, !.files = files]
  BY DEF Ready
<1> HIDE DEF R, all, db, shots, files
<1>3. R = [all |-> all, view |-> s.view, db |-> db, last |-> s.last, files |-> files,
           shots |-> shots, serial |-> s.serial]
  BY <1>2 DEF Boxes
<1>4. s.view \in Seq(Nat) /\ s.last \in 0..MaxAlerts /\ s.serial \in 0..MaxAlerts
  BY BoxIs
<1>5. R \in Boxes
  BY <1>1, <1>3, <1>4 DEF Boxes
<1> QED BY <1>3, <1>5 DEF R, all, db, shots, files

LEMMA ReadyTable ==
  ASSUME NEW s \in Boxes, NEW R, NEW id, Order(s), Table(s), R.last = s.last, R.serial = s.serial,
         R.all = WithThumbnail(s.all, id), R.db = WithThumbnail(s.db, id)
  PROVE  Order(R) /\ Table(R)
<1>0. /\ DOMAIN R.all = DOMAIN s.all /\ Len(R.all) = Len(s.all)
      /\ DOMAIN R.db = DOMAIN s.db /\ Len(R.db) = Len(s.db)
      /\ \A i \in DOMAIN s.all : R.all[i] = Pictured(s.all[i], id) /\ R.all[i].id = s.all[i].id
                                 /\ R.all[i].serial = s.all[i].serial
      /\ \A k \in DOMAIN s.db : R.db[k] = Pictured(s.db[k], id) /\ R.db[k].id = s.db[k].id
                                /\ R.db[k].serial = s.db[k].serial
  BY BoxIs, WithThumbnailIs
<1>1. Order(R)
  BY <1>0 DEF Order, NewestFirst
<1>2. ASSUME NEW k \in DOMAIN s.db, Lists(s, s.db[k]) PROVE Lists(R, R.db[k])
  BY <1>0, <1>2 DEF Lists
<1>3. ASSUME NEW i \in DOMAIN s.all, IsStored(R.all[i])
      PROVE  \E k \in 1..i : k \in DOMAIN s.db /\ R.db[k] = R.all[i]
  <2>1. PICK k \in 1..i : k \in DOMAIN s.db /\ s.db[k] = s.all[i]
    BY <1>0, <1>3 DEF Table, IsStored
  <2> QED BY <1>0, <2>1
<1>4. \A k \in DOMAIN s.db : IsStored(R.db[k])
  BY <1>0 DEF Table, IsStored
<1>5. ASSUME NEW k \in DOMAIN s.db, NEW i \in DOMAIN s.all, IsStored(R.all[i]),
             R.db[k].serial > R.all[i].serial
      PROVE  Lists(R, R.db[k])
  <2>1. Lists(s, s.db[k])
    BY <1>0, <1>5 DEF Table, IsStored
  <2> QED BY <1>2, <2>1
<1>6. ASSUME Len(R.all) < Keep, NEW k \in DOMAIN s.db PROVE Lists(R, R.db[k])
  <2>1. Lists(s, s.db[k])
    BY <1>0, <1>6 DEF Table
  <2> QED BY <1>2, <2>1
<1>7. Len(R.db) <= Len(R.all)
  BY <1>0 DEF Table
<1> QED BY <1>0, <1>1, <1>3, <1>4, <1>5, <1>6, <1>7 DEF Table

LEMMA ReadyThumbs ==
  ASSUME NEW s \in Boxes, NEW R, NEW lf, NEW shot \in s.shots, shot.pc = "saved", Thumbs(s, lf),
         R.last = s.last, R.all = WithThumbnail(s.all, shot.id), R.shots = s.shots \ {shot},
         R.files = IF \E i \in DOMAIN s.all : s.all[i].id = shot.id THEN s.files
                   ELSE {p \in s.files : p.id # shot.id}
  PROVE  Thumbs(R, lf)
<1>0. /\ DOMAIN R.all = DOMAIN s.all
      /\ \A i \in DOMAIN s.all :
           /\ R.all[i].id = s.all[i].id /\ R.all[i].serial = s.all[i].serial
           /\ R.all[i].thumb <=> s.all[i].thumb \/ s.all[i].id = shot.id
  BY BoxIs, WithThumbnailIs
<1>1. \A i \in DOMAIN s.all : PictureOf(R.all[i]) = PictureOf(s.all[i])
  BY <1>0 DEF PictureOf
<1>2. ASSUME NEW i \in DOMAIN s.all, PictureOf(s.all[i]) \in s.files PROVE PictureOf(s.all[i]) \in R.files
  BY <1>2 DEF PictureOf
<1>3. Numbers(R)
  BY <1>0 DEF Thumbs, Numbers, IsStored
<1>4. Captures(R)
  <2> SUFFICES ASSUME NEW t \in R.shots, NEW i \in DOMAIN R.all, R.all[i].id = t.id
               PROVE  /\ R.all[i].serial = t.serial /\ ~R.all[i].thumb
                      /\ t.pc = "saved" => PictureOf(R.all[i]) \in R.files
    BY DEF Captures
  <2>0. t \in s.shots /\ t # shot /\ i \in DOMAIN s.all /\ s.all[i].id = t.id
        /\ PictureOf(R.all[i]) = PictureOf(s.all[i]) /\ R.all[i].serial = s.all[i].serial
    BY <1>0, <1>1
  <2>1. t.id # shot.id
    BY <2>0 DEF Thumbs, Numbers
  <2>2. /\ s.all[i].serial = t.serial /\ ~s.all[i].thumb
        /\ t.pc = "saved" => PictureOf(s.all[i]) \in s.files
    BY <2>0 DEF Thumbs, Captures
  <2> QED BY <1>0, <1>2, <2>0, <2>1, <2>2
<1>5. ASSUME NEW i \in DOMAIN s.all, R.all[i].thumb PROVE PictureOf(R.all[i]) \in R.files
  <2>1. PictureOf(s.all[i]) \in s.files
    <3>1. CASE s.all[i].thumb
      BY <3>1 DEF Thumbs
    <3>2. CASE ~s.all[i].thumb
      BY <1>0, <1>5, <3>2 DEF Thumbs, Captures
    <3> QED BY <3>1, <3>2
  <2> QED BY <1>1, <1>2, <2>1
<1>6. ASSUME NEW p \in R.files PROVE Owned(R, p, lf)
  <2>1. p \in s.files /\ Owned(s, p, lf)
    BY <1>6 DEF Thumbs
  <2>2. CASE p.id = shot.id
    <3>1. PICK i \in DOMAIN s.all : s.all[i].id = shot.id
      BY <1>6, <2>2
    <3> QED BY <1>0, <2>2, <3>1 DEF Owned
  <2>3. CASE p.id # shot.id
    <3>1. \A t \in s.shots : t.id = p.id => t \in R.shots
      BY <2>3
    <3> QED BY <1>0, <2>1, <3>1 DEF Owned
  <2> QED BY <2>2, <2>3
<1> QED BY <1>0, <1>3, <1>4, <1>5, <1>6 DEF Thumbs

LEMMA ReadyKeeps ==
  ASSUME InboxInv, NEW shot \in inbox.shots, ThumbnailReady(shot)
  PROVE  InboxInv'
<1> DEFINE R == Ready(inbox, shot)
<1>1. UNCHANGED <<filter, failed, left>> /\ shot.pc = "saved" /\ inbox' = R
  BY DEF ThumbnailReady, Ready
<1>2. /\ inbox \in Boxes /\ Order(inbox) /\ Table(inbox) /\ View(inbox, filter) /\ Len(inbox.all) <= Keep
      /\ inbox.all \in Seq(Event)
  BY InboxIs, BoxIs
<1>3. /\ R \in Boxes
      /\ R.all = WithThumbnail(inbox.all, shot.id) /\ R.db = WithThumbnail(inbox.db, shot.id)
      /\ R.view = inbox.view /\ R.last = inbox.last /\ R.serial = inbox.serial
      /\ R.shots = inbox.shots \ {shot}
      /\ R.files = IF \E i \in DOMAIN inbox.all : inbox.all[i].id = shot.id THEN inbox.files
                   ELSE {p \in inbox.files : p.id # shot.id}
  BY <1>2, ReadyIs
<1> HIDE DEF R
<1>4. Order(R) /\ Table(R)
  BY <1>2, <1>3, ReadyTable
<1>5. failed \/ Thumbs(R, left)
  BY <1>1, <1>2, <1>3, InboxIs, ReadyThumbs
<1>6. View(R, filter) /\ Len(R.all) <= Keep
  <2>1. /\ DOMAIN R.all = DOMAIN inbox.all /\ Len(R.all) = Len(inbox.all)
        /\ \A i \in DOMAIN inbox.all : R.all[i].type = inbox.all[i].type
                                       /\ R.all[i].channel = inbox.all[i].channel
    BY <1>2, <1>3, WithThumbnailIs
  <2>2. Fitting(R.all, filter) = Fitting(inbox.all, filter)
    BY <2>1 DEF Fitting, matches
  <2> QED BY <1>2, <1>3, <2>1, <2>2 DEF View
<1> QED BY <1>1, <1>3, <1>4, <1>5, <1>6, InboxIs DEF InboxInv, BoxInv, Loose

-----------------------------------------------------------------------------
(* What the polls raise                                                    *)
LEMMA AlertIs ==
  ASSUME NEW c \in Channels, NEW k \in Types
  PROVE  Alert(c, k) \in News
BY DEF Alert, News

LEMMA HealthIsNews == Health \subseteq Seq(News)
<1> SUFFICES ASSUME NEW told \in Health PROVE told \in Seq(News)
  OBVIOUS
<1>1. CASE told = <<>>
  BY <1>1
<1>2. ASSUME NEW c \in Channels, told = <<Alert(c, "health")>> PROVE told \in Seq(News)
  <2>1. Alert(c, "health") \in News
    BY AlertIs DEF Types
  <2> QED BY <1>2, <2>1
<1> QED BY <1>1, <1>2 DEF Health

LEMMA HostRaises ==
  ASSUME CamerasSeen, InboxInv, NEW states \in [Channels -> SUBSET Detections], NEW told \in Health,
         HostAnswers(states, told)
  PROVE  InboxInv'
<1> DEFINE rises(c) == Edge(states[c], seen[c])
           R        == {c \in Channels : rises(c) # "none"}
           rising   == InOrder(R)
           alerts   == [k \in DOMAIN rising |-> Alert(rising[k], rises(rising[k]))]
           n        == Cardinality(R)
<1>1. Raise(told \o alerts)
  BY DEF HostAnswers
<1>2. n \in Nat /\ Ascends(rising, R, n)
  <2>1. PICK m \in Nat : Channels \subseteq 0..m
    BY ChannelsEnd
  <2>2. R \in SUBSET (0..m)
    BY <2>1
  <2> HIDE DEF R
  <2> QED BY <2>2, InOrderAscends
<1>3. \A c \in R : Alert(c, rises(c)) \in News
  <2> TAKE c \in R
  <2>1. c \in Channels /\ rises(c) \in {"person", "motion"}
    BY DEF Edge
  <2>2. rises(c) \in Types
    BY <2>1 DEF Types, Detections
  <2> HIDE DEF rises
  <2> QED BY <2>1, <2>2, AlertIs
<1>4. alerts \in [1..n -> News]
  <2>1. DOMAIN rising = 1..n /\ \A k \in 1..n : rising[k] \in R
    BY <1>2 DEF Ascends
  <2> HIDE DEF R, rising, rises, n
  <2> QED BY <1>3, <2>1
<1> HIDE DEF alerts, n
<1>5. alerts \in Seq(News)
  BY <1>2, <1>4, AscendingIsSeq
<1>6. told \o alerts \in Seq(News)
  <2>1. told \in Seq(News)
    BY HealthIsNews
  <2> QED BY <1>5, <2>1
<1> QED BY <1>1, <1>6, RaiseKeeps

LEMMA FrigateRaises ==
  ASSUME FrigateInv, InboxInv, NEW n \in 0..Len(happened), NEW told \in Health,
         FrigateAnswers(n, told)
  PROVE  InboxInv'
<1>1. told \in Seq(News)
  BY HealthIsNews
<1>2. CASE FirstAnswer(n) /\ Raise(told)
  BY <1>1, <1>2, RaiseKeeps
<1>3. CASE ~(FirstAnswer(n) /\ Raise(told))
  <2> DEFINE b      == Bursts(OldestFirst(n, poll.after))
             alerts == [k \in DOMAIN b.raise |-> Alert(happened[b.raise[k]].channel, "person")]
  <2>1. Raise(told \o alerts)
    BY <1>3 DEF FrigateAnswers
  <2>2. /\ site = "frigate" /\ poll # NoPoll /\ Unheard(n) \in SUBSET DOMAIN happened
        /\ \E l, r : /\ b = [last |-> l, raise |-> r] /\ r \in Seq(Unheard(n))
                      /\ \A j \in Elements(r) : happened[j].channel # Ignored
    BY NewBursts DEF FrigateAnswers
  <2>3. PICK l, r : /\ b = [last |-> l, raise |-> r] /\ r \in Seq(Unheard(n))
                    /\ \A j \in Elements(r) : happened[j].channel # Ignored
    BY <2>2
  <2>4. Len(r) \in Nat /\ DOMAIN r = 1..Len(r) /\ b.raise = r
    BY <2>3
  <2>5. ASSUME NEW k \in DOMAIN r PROVE Alert(happened[r[k]].channel, "person") \in News
    <3>1. r[k] \in DOMAIN happened /\ happened[r[k]].channel # Ignored
      BY <2>2, <2>3 DEF Elements
    <3>2. happened[r[k]].channel \in Channels
      BY <3>1, StartIs DEF FrigateInv
    <3>3. "person" \in Types
      BY DEF Types, Detections
    <3> QED BY <3>2, <3>3, AlertIs
  <2>6. alerts \in [1..Len(r) -> News]
    <3> HIDE DEF b
    <3> QED BY <2>4, <2>5
  <2> HIDE DEF alerts
  <2>7. alerts \in Seq(News)
    BY <2>4, <2>6, AscendingIsSeq
  <2>8. told \o alerts \in Seq(News)
    BY <1>1, <2>7
  <2> QED BY <2>1, <2>8, RaiseKeeps
<1> QED BY <1>2, <1>3

LEMMA InboxStarts == Init => InboxInv
<1> SUFFICES ASSUME Init PROVE InboxInv
  OBVIOUS
<1>1. inbox = [all |-> <<>>, view |-> <<>>, db |-> <<>>, last |-> 0, files |-> {}, shots |-> {},
               serial |-> 0]
      /\ filter = NoFilter /\ failed = FALSE /\ left = {}
  BY DEF Init, InboxInit
<1>2. MaxAlerts \in Nat /\ Keep \in Nat
  BY InboxAssumption DEF InboxAssumption
<1>3. /\ inbox.all = <<>> /\ inbox.view = <<>> /\ inbox.db = <<>> /\ inbox.last = 0
      /\ inbox.files = {} /\ inbox.shots = {} /\ inbox.serial = 0
  BY <1>1
<1>4. inbox \in Boxes
  <2>1. <<>> \in Seq(Event) /\ <<>> \in Seq(Nat) /\ 0 \in 0..MaxAlerts
    BY <1>2
  <2> QED BY <1>1, <2>1 DEF Boxes
<1>5. Order(inbox) /\ Table(inbox)
  BY <1>3 DEF Order, NewestFirst, Table
<1>6. View(inbox, filter)
  <2>1. Fitting(inbox.all, filter) = {}
    BY <1>3 DEF Fitting
  <2>2. Ascends(<<>>, {}, 0)
    BY DEF Ascends
  <2> QED BY <1>3, <2>1, <2>2 DEF View
<1>7. Thumbs(inbox, left)
  BY <1>3 DEF Thumbs, Numbers, Captures
<1>8. Len(inbox.all) <= Keep
  BY <1>2, <1>3
<1>9. filter \in Views
  BY <1>1 DEF NoFilter, Views
<1> QED BY <1>1, <1>4, <1>5, <1>6, <1>7, <1>8, <1>9 DEF InboxInv, BoxInv, Loose

LEMMA InboxMoves == CamerasSeen /\ FrigateInv /\ InboxInv /\ [Next]_vars => InboxInv'
<1> SUFFICES ASSUME CamerasSeen, FrigateInv, InboxInv, [Next]_vars PROVE InboxInv'
  OBVIOUS
<1>1. UNCHANGED box => InboxInv'
  BY DEF box, InboxInv, BoxInv, Loose
<1>2. CASE PollHost \/ PollFrigate
  BY <1>1, <1>2 DEF PollHost, PollFrigate
<1>3. ASSUME NEW c, NEW d, Happens(c, d) PROVE InboxInv'
  BY <1>1, <1>3 DEF Happens
<1>4. ASSUME NEW told \in Health, NoAnswer(told) PROVE InboxInv'
  <2>1. told \in Seq(News) /\ Raise(told)
    BY <1>4, HealthIsNews DEF NoAnswer
  <2> QED BY <2>1, RaiseKeeps
<1>5. ASSUME NEW states \in [Channels -> SUBSET Detections], NEW told \in Health, HostAnswers(states, told)
      PROVE  InboxInv'
  BY <1>5, HostRaises
<1>6. ASSUME NEW n \in 0..Len(happened), NEW told \in Health, FrigateAnswers(n, told) PROVE InboxInv'
  BY <1>6, FrigateRaises
<1>7. CASE Restart
  BY <1>7, RestartKeeps DEF Restart
<1>8. CASE InboxNext
  <2>1. ASSUME NEW shot \in inbox.shots, SaveThumbnail(shot) \/ ThumbnailReady(shot) PROVE InboxInv'
    BY <2>1, SaveKeeps, ReadyKeeps
  <2>2. ASSUME NEW f \in Filters, SetFilter(f) PROVE InboxInv'
    BY <2>2, FilterKeeps
  <2>3. CASE Clear
    BY <2>3, ClearKeeps
  <2> QED BY <1>8, <2>1, <2>2, <2>3 DEF InboxNext
<1>9. CASE UNCHANGED vars
  BY <1>1, <1>9 DEF vars
<1> QED BY <1>2, <1>3, <1>4, <1>5, <1>6, <1>7, <1>8, <1>9 DEF Next, Site

AlertsInv == CamerasSeen /\ FrigateInv /\ InboxInv

LEMMA AlertsInvHolds == Spec => []AlertsInv
<1>1. Init => AlertsInv
  <2>1. Init => CamerasSeen
    BY DEF Init, Fresh, CamerasSeen
  <2> QED BY <2>1, FrigateInit, InboxStarts DEF AlertsInv
<1>2. AlertsInv /\ [Next]_vars => AlertsInv'
  BY CamerasNext, FrigateNext, InboxMoves DEF AlertsInv
<1> QED BY <1>1, <1>2, PTL DEF Spec

-----------------------------------------------------------------------------
(* The inbox shows what the database has: the view is what passes the      *)
(* filter, list and table are newest first, what is stored of the list is  *)
(* in the table with nothing newer that is not listed, and a list without  *)
(* losses is the table itself.                                             *)
THEOREM ListIsTable == Spec => []InboxIsDatabase
<1>1. AlertsInv => InboxIsDatabase
  <2> SUFFICES ASSUME AlertsInv PROVE InboxIsDatabase
    OBVIOUS
  <2> DEFINE all    == inbox.all
             db     == inbox.db
             stored == {i \in DOMAIN all : all[i].id # -1}
  <2>1. /\ inbox \in Boxes /\ Order(inbox) /\ Table(inbox) /\ View(inbox, filter)
        /\ all \in Seq(Event) /\ inbox.view \in Seq(Nat) /\ DOMAIN db = 1..Len(db) /\ Len(db) \in Nat
        /\ \A k \in DOMAIN db : db[k].serial \in Nat
    BY InboxIs, BoxIs, EventIs DEF AlertsInv
  <2>2. inbox.view = Matching(all, filter)
    BY <2>1, MatchingIs DEF View
  <2>3. NewestFirst(all) /\ NewestFirst(db)
    BY <2>1 DEF Order
  <2>4. ASSUME NEW i \in stored
        PROVE  \E k \in DOMAIN db : db[k] = all[i] /\ \A l \in 1..k : \E j \in stored : db[l] = all[j]
    <3>1. PICK k \in 1..i : k \in DOMAIN db /\ db[k] = all[i]
      BY <2>1 DEF Table, IsStored
    <3>2. ASSUME NEW l \in 1..k PROVE \E j \in stored : db[l] = all[j]
      <4>1. l \in DOMAIN db /\ (l = k \/ l < k)
        BY <2>1, <3>1
      <4>2. CASE l = k
        BY <3>1, <4>2
      <4>3. CASE l < k
        <5>1. db[l].serial > all[i].serial
          BY <2>3, <3>1, <4>1, <4>3 DEF NewestFirst
        <5>2. Lists(inbox, db[l]) /\ IsStored(db[l])
          BY <2>1, <4>1, <5>1 DEF Table, IsStored
        <5> QED BY <5>2 DEF Lists, IsStored
      <4> QED BY <4>1, <4>2, <4>3
    <3> QED BY <3>1, <3>2
  <2>5. stored = DOMAIN all => db = all
    BY <2>1, TableIsList DEF IsStored
  <2> QED BY <2>2, <2>3, <2>4, <2>5 DEF InboxIsDatabase
<1> QED BY <1>1, AlertsInvHolds, PTL

(* As long as every event could be stored, an event shows the picture that *)
(* was taken for it and its file is there, and no file stays behind but    *)
(* those whose capture ended after the program had quit.                   *)
THEOREM PicturesMatch == Spec => []ThumbnailsMatch
<1>1. AlertsInv => ThumbnailsMatch
  BY InboxIs DEF AlertsInv, Thumbs, Owned, PictureOf, ThumbnailsMatch
<1> QED BY <1>1, AlertsInvHolds, PTL

-----------------------------------------------------------------------------
(* Types                                                                   *)
Named == site \in Sites /\ alerted \subseteq Channels

LEMMA NamedNext == CamerasSeen /\ FrigateInv /\ InboxInv /\ Named /\ [Next]_vars => Named'
<1> SUFFICES ASSUME CamerasSeen, FrigateInv, InboxInv, Named, [Next]_vars PROVE Named'
  OBVIOUS
<1>1. UNCHANGED <<site, alerted>> => Named'
  BY DEF Named
<1>2. CASE PollHost \/ PollFrigate \/ UNCHANGED vars \/ (InboxNext /\ UNCHANGED <<site, polls, happened>>)
  BY <1>1, <1>2 DEF PollHost, PollFrigate, Reolink, vars, polls
<1>3. ASSUME NEW c, NEW d, Happens(c, d) PROVE Named'
  BY <1>1, <1>3 DEF Happens, polls
<1>4. ASSUME NEW told, NoAnswer(told) PROVE Named'
  BY <1>1, <1>4 DEF NoAnswer, Reolink
<1>5. ASSUME NEW states \in [Channels -> SUBSET Detections], NEW told, HostAnswers(states, told) PROVE Named'
  <2> DEFINE rises(c) == Edge(states[c], seen[c])
             R        == {c \in Channels : rises(c) # "none"}
             rising   == InOrder(R)
             alerts   == [k \in DOMAIN rising |-> Alert(rising[k], rises(rising[k]))]
             heard    == {alerts[i].channel : i \in DOMAIN alerts}
  <2>1. site' = site /\ alerted' = {c \in alerted \cup heard : states[c] # {}}
    BY <1>5 DEF HostAnswers
  <2>2. heard \subseteq Channels
    <3>1. PICK m \in Nat : Channels \subseteq 0..m
      BY ChannelsEnd
    <3>2. Ascends(rising, R, Cardinality(R))
      <4>1. R \in SUBSET (0..m)
        BY <3>1
      <4> HIDE DEF R
      <4> QED BY <4>1, InOrderAscends
    <3>3. \A k \in DOMAIN rising : rising[k] \in Channels
      BY <3>2 DEF Ascends
    <3>4. \A k \in DOMAIN alerts : k \in DOMAIN rising /\ alerts[k].channel = rising[k]
      BY DEF Alert
    <3> HIDE DEF alerts, rising
    <3> QED BY <3>3, <3>4
  <2> HIDE DEF heard
  <2> QED BY <2>1, <2>2 DEF Named
<1>6. ASSUME NEW n, NEW told, FrigateAnswers(n, told) PROVE Named'
  BY <1>1, <1>6 DEF FrigateAnswers, Reolink
<1>7. CASE Restart
  BY <1>7 DEF Restart, Named
<1> QED BY <1>2, <1>3, <1>4, <1>5, <1>6, <1>7 DEF Next, Site

(* Every variable keeps its type, and list and table their cap.            *)
THEOREM TypesHold == Spec => []TypeOK
<1>1. AlertsInv /\ Named => TypeOK
  <2> SUFFICES ASSUME AlertsInv, Named PROVE TypeOK
    OBVIOUS
  <2>1. /\ inbox \in Boxes /\ View(inbox, filter)
        /\ Len(inbox.all) <= Keep /\ Len(inbox.db) <= Keep
        /\ failed \in BOOLEAN /\ filter \in Views /\ left \subseteq 1..MaxAlerts
    BY InboxIs DEF AlertsInv
  <2>2. /\ inbox.all \in Seq(Event) /\ inbox.db \in Seq(Event) /\ inbox.view \in Seq(Nat)
        /\ {inbox.last, inbox.serial} \subseteq 0..MaxAlerts
        /\ inbox.files \subseteq Pictures /\ inbox.shots \subseteq Shots
        /\ DOMAIN inbox.all = 1..Len(inbox.all) /\ Len(inbox.all) \in Nat
        /\ DOMAIN inbox.view = 1..Len(inbox.view) /\ Len(inbox.view) \in Nat
    BY <2>1, BoxIs
  <2>3. inbox.view \in Seq(1..Keep)
    <3>1. \A i \in 1..Len(inbox.view) : inbox.view[i] \in DOMAIN inbox.all
      BY <2>1 DEF View, Ascends, Fitting
    <3>2. Keep \in Nat /\ DOMAIN inbox.all \subseteq 1..Keep
      BY <2>1, <2>2, InboxAssumption DEF InboxAssumption
    <3> DEFINE v == inbox.view
               n == Len(v)
    <3>3. n \in Nat /\ v = [i \in 1..n |-> v[i]] /\ \A i \in 1..n : v[i] \in 1..Keep
      BY <2>2, <3>1, <3>2
    <3> HIDE DEF v, n
    <3>4. v \in [1..n -> 1..Keep]
      BY <3>3
    <3>5. v \in Seq(1..Keep)
      BY <3>3, <3>4, AscendingIsSeq
    <3> QED BY <3>5 DEF v
  <2>4. /\ seen \in [Channels -> SUBSET Detections] /\ watermark \in Nat \cup {None}
        /\ lastRaised \in [Channels -> Int] /\ raised \subseteq DOMAIN happened
    BY DEF AlertsInv, CamerasSeen, FrigateInv, Marks, Raised, LastOf
  <2> QED BY <2>1, <2>2, <2>3, <2>4 DEF Named, Views, Pictures, Shots, TypeOK
<1>2. Init => Named
  BY DEF Init, Fresh, Named
<1>3. AlertsInv /\ Named /\ [Next]_vars => Named'
  BY NamedNext DEF AlertsInv
<1> QED BY <1>1, <1>2, <1>3, AlertsInvHolds, PTL DEF Spec
=============================================================================
