------------------------ MODULE DownloadQueueProofs ------------------------
(***************************************************************************)
(* Proofs about the download queue, for every set of NVRs and folders,     *)
(* every number of items, retries, parts and pool threads: who is served,  *)
(* the refinement of NvrSlots, and what is on the disk.                    *)
(***************************************************************************)
EXTENDS DownloadQueueProps, FiniteSetTheorems, FunctionTheorems, WellFoundedInduction, TLAPS

(* A non-empty set of natural numbers has a least element.                 *)
LEMMA LeastExists == \A T : T \subseteq Nat /\ T # {} => \E x \in T : \A y \in T : x <= y
<1> SUFFICES ASSUME NEW T, T \subseteq Nat, T # {} PROVE \E x \in T : \A y \in T : x <= y
  OBVIOUS
<1> DEFINE R == OpToRel(<, Nat)
<1>1. \A x, y \in Nat : x < y => <<x, y>> \in R
  BY DEF OpToRel
<1>2. IsWellFoundedOn(R, Nat)
  BY NatLessThanWellFounded
<1> HIDE DEF R
<1>3. PICK x \in T : \A y \in T : ~(<<y, x>> \in R)
  BY <1>2, WFMin
<1>4. ASSUME NEW y \in T PROVE x <= y
  <2>1. ~(y < x)
    BY <1>1, <1>3
  <2> QED BY <2>1
<1> QED BY <1>4

-----------------------------------------------------------------------------
(* The inductive invariant                                                 *)

Result == [id : Ids, st : States, paths : SUBSET Paths]

(* Ids that have not been given out are not in the list, and an item in    *)
(* the list has a name.                                                    *)
ListedItems ==
  \A i \in Ids : /\ i >= nextId => st[i] = "absent"
                 /\ st[i] # "absent" => name[i] \in Names

(* At most one item of an NVR is shown as running.                         *)
OneActive(s, hs) ==
  \A i, j \in Ids : s[i] \in Active /\ s[j] \in Active /\ hs[i] = hs[j] => i = j

(* A worker runs for an item shown as running, in its current attempt.     *)
Current(s, ts) == \A r \in Runs : Live(r) => s[r[1]] \in Active /\ r[2] = ts[r[1]]

(* Results on their way are for running items; nothing follows a final one *)
(* and its worker is gone.                                                 *)
InOrder(ps, s) ==
  \A k \in 1..Len(ps) :
    /\ ps[k].st \in {"downloading"} \cup Final
    /\ s[ps[k].id] \in Active
    /\ ps[k].st \in Final =>
         /\ \A l \in 1..Len(ps) : k < l => ps[l].id # ps[k].id
         /\ \A r \in Runs : Live(r) => r[1] # ps[k].id

QueueInv ==
  /\ ListedItems
  /\ OneActive(st, host) /\ Current(st, try) /\ InOrder(posts, st)
  /\ NoIdleNvr

LEMMA Bounds ==
  /\ MaxItems \in Nat \ {0} /\ MaxTries \in Nat \ {0}
  /\ MaxParts \in Nat \ {0} /\ MaxCopies \in Nat \ {0}
BY DownloadAssumption DEF DownloadAssumption

LEMMA RunParts == \A r \in Runs : r[1] \in Ids /\ r[2] \in Tries /\ r = <<r[1], r[2]>>
BY DEF Runs

LEMMA PostTypes ==
  ASSUME TypeOK
  PROVE  /\ posts \in Seq(Result)
         /\ \A k \in 1..Len(posts) : posts[k] \in Result /\ posts[k].id \in Ids
<1>1. posts \in Seq(Result)
  BY DEF TypeOK, Result
<1>2. \A k \in 1..Len(posts) : posts[k] \in Result
  BY <1>1
<1> QED BY <1>1, <1>2 DEF Result

LEMMA QueueInit == Init => QueueInv
<1> SUFFICES ASSUME Init PROVE QueueInv
  OBVIOUS
<1>1. ListedItems /\ OneActive(st, host) /\ NoIdleNvr
  BY DEF Init, ListedItems, OneActive, NoIdleNvr, Active
<1>2. Current(st, try) /\ InOrder(posts, st)
  BY DEF Init, Current, Live, InOrder
<1> QED BY <1>1, <1>2 DEF QueueInv

LEMMA TypeInit == Init => TypeOK
<1> SUFFICES ASSUME Init PROVE TypeOK
  OBVIOUS
<1>1. NoJob \in [dir : Folders, part : 1..MaxParts, parts : 1..MaxParts,
                 path : Paths \cup {NoPath}, made : SUBSET Paths]
  BY Bounds DEF Init, NoJob
<1>2. try \in [Ids -> Tries] /\ nextId \in 1..(MaxItems + 1)
  BY Bounds DEF Init, Tries
<1>3. DOMAIN disk = {}
  BY DEF Init
<1>4. st \in [Ids -> States] /\ pc \in [Runs -> Phases]
  BY DEF Init, States, Phases
<1>5. posts \in Seq([id : Ids, st : States, paths : SUBSET Paths])
  BY DEF Init
<1>6. job \in [Runs -> [dir : Folders, part : 1..MaxParts, parts : 1..MaxParts,
                       path : Paths \cup {NoPath}, made : SUBSET Paths]]
  BY <1>1 DEF Init
<1>7. /\ host \in [Ids -> Hosts \cup {NoHost}] /\ name \in [Ids -> Names \cup {NoName}]
      /\ saved \in [Ids -> SUBSET Paths] /\ folder \in Folders
      /\ closing \in BOOLEAN /\ raised \subseteq Runs
  BY DEF Init
<1> QED BY <1>2, <1>3, <1>4, <1>5, <1>6, <1>7 DEF TypeOK

-----------------------------------------------------------------------------
(* pump()                                                                  *)

(* Of the items pump() claims, no two are for the same NVR, and none is    *)
(* for an NVR that is busy.                                                *)
LEMMA ClaimedApart ==
  ASSUME NEW s, NEW hs, NEW i \in Claimed(s, hs), NEW j \in Claimed(s, hs), hs[i] = hs[j]
  PROVE  i = j
<1>1. i \in Nat /\ j \in Nat /\ i >= 1 /\ j >= 1
  BY DownloadAssumption DEF DownloadAssumption, Claimed, Ids
<1>2. ~(j < i)
  BY <1>1 DEF Claimed
<1>3. ~(i < j)
  BY <1>1 DEF Claimed
<1> QED BY <1>1, <1>2, <1>3

(* Once pump() has run, an NVR with waiting items is busy.                 *)
LEMMA PumpLeavesNoneIdle ==
  ASSUME NEW s \in [Ids -> States], NEW hs, NEW ts, Pump(s, hs, ts),
         NEW i \in Ids, st'[i] = "queued"
  PROVE  Busy(st', hs, hs[i])
<1> DEFINE Rivals == {o \in Ids : hs[o] = hs[i] /\ s[o] = "queued"}
<1>1. st' = [o \in Ids |-> IF o \in Claimed(s, hs) THEN "preparing" ELSE s[o]]
  BY DEF Pump
<1>2. s[i] = "queued"
  BY <1>1
<1>3. CASE Busy(s, hs, hs[i])
  <2>1. PICK o \in Ids : hs[o] = hs[i] /\ s[o] \in Active
    BY <1>3 DEF Busy
  <2>2. o \notin Claimed(s, hs)
    BY <2>1 DEF Claimed, Active
  <2> QED BY <1>1, <2>1, <2>2 DEF Busy
<1>4. CASE ~Busy(s, hs, hs[i])
  <2>1. Rivals \subseteq Nat /\ Rivals # {}
    BY <1>2, DownloadAssumption DEF DownloadAssumption, Ids
  <2>2. PICK o \in Rivals : \A y \in Rivals : o <= y
    BY <2>1, LeastExists
  <2>3. \A y \in 1..(o - 1) : y \in Ids /\ ~(o <= y)
    BY DownloadAssumption DEF DownloadAssumption, Ids
  <2>4. o \in Claimed(s, hs)
    BY <1>4, <2>2, <2>3 DEF Claimed
  <2>5. st'[o] = "preparing" /\ hs[o] = hs[i] /\ o \in Ids
    BY <1>1, <2>4
  <2> QED BY <2>5 DEF Busy, Active
<1> QED BY <1>3, <1>4

(* What pump() keeps, and which workers it starts.                         *)
LEMMA PumpKeeps ==
  ASSUME NEW s \in [Ids -> States], NEW hs, NEW ts \in [Ids -> Tries],
         pc \in [Runs -> Phases], Pump(s, hs, ts), OneActive(s, hs), Current(s, ts)
  PROVE  /\ st' \in [Ids -> States]
         /\ pc' \in [Runs -> Phases]
         /\ OneActive(st', hs)
         /\ \A r \in Runs : Live(r)' => st'[r[1]] \in Active /\ r[2] = ts[r[1]]
         /\ \A i \in Ids : s[i] \in Active => st'[i] \in Active
         /\ \A i \in Ids : s[i] = "absent" => st'[i] = "absent"
         /\ \A r \in Runs : Live(r)' => Live(r) \/ s[r[1]] = "queued"
<1> DEFINE C == Claimed(s, hs)
<1>1. st' = [i \in Ids |-> IF i \in C THEN "preparing" ELSE s[i]]
  BY DEF Pump
<1>2. pc' = [r \in Runs |-> IF \E i \in C : r = <<i, ts[i]>> THEN "pooled" ELSE pc[r]]
  BY DEF Pump
<1>3. \A i \in C : i \in Ids /\ s[i] = "queued" /\ ~Busy(s, hs, hs[i])
  BY DEF Claimed
<1>4. \A i, j \in C : hs[i] = hs[j] => i = j
  BY ClaimedApart
<1> HIDE DEF C
<1>5. st' \in [Ids -> States]
  BY <1>1 DEF States, Active
<1>6. pc' \in [Runs -> Phases]
  BY <1>2 DEF Phases
<1>7. OneActive(st', hs)
  <2> SUFFICES ASSUME NEW i \in Ids, NEW j \in Ids, st'[i] \in Active, st'[j] \in Active,
                      hs[i] = hs[j]
               PROVE  i = j
    BY DEF OneActive
  <2>1. CASE i \in C /\ j \in C
    BY <2>1, <1>4
  <2>2. CASE i \notin C /\ j \notin C
    BY <2>2, <1>1 DEF OneActive
  <2>3. CASE i \in C /\ j \notin C
    BY <2>3, <1>1, <1>3 DEF Busy
  <2>4. CASE i \notin C /\ j \in C
    BY <2>4, <1>1, <1>3 DEF Busy
  <2> QED BY <2>1, <2>2, <2>3, <2>4
<1>8. ASSUME NEW r \in Runs, Live(r)'
      PROVE  /\ st'[r[1]] \in Active /\ r[2] = ts[r[1]]
             /\ Live(r) \/ s[r[1]] = "queued"
  <2>1. r[1] \in Ids
    BY DEF Runs
  <2>2. CASE \E i \in C : r = <<i, ts[i]>>
    BY <2>1, <2>2, <1>1, <1>3 DEF Active
  <2>3. CASE ~\E i \in C : r = <<i, ts[i]>>
    <3>1. Live(r)
      BY <1>2, <1>8, <2>3 DEF Live
    <3>2. s[r[1]] \in Active /\ r[2] = ts[r[1]]
      BY <3>1 DEF Current
    <3> QED BY <2>1, <3>1, <3>2, <1>1, <1>3 DEF Active
  <2> QED BY <2>2, <2>3
<1>9. \A i \in Ids : s[i] \in Active => st'[i] \in Active
  BY <1>1 DEF Active
<1>10. \A i \in Ids : s[i] = "absent" => st'[i] = "absent"
  BY <1>1, <1>3
<1> QED BY <1>5, <1>6, <1>7, <1>8, <1>9, <1>10

(* A slot that ends with pump().                                           *)
LEMMA PumpInv ==
  ASSUME TypeOK, TypeOK', NEW s \in [Ids -> States], Pump(s, host', try'),
         \A i \in Ids : /\ i >= nextId' => s[i] = "absent"
                        /\ s[i] # "absent" => name'[i] \in Names,
         OneActive(s, host'), Current(s, try'), InOrder(posts', s)
  PROVE  QueueInv'
<1>1. try' \in [Ids -> Tries] /\ pc \in [Runs -> Phases] /\ posts' \in Seq(Result)
  BY DEF TypeOK, Result
<1>2. /\ OneActive(st', host')
      /\ \A r \in Runs : Live(r)' => st'[r[1]] \in Active /\ r[2] = try'[r[1]]
      /\ \A i \in Ids : s[i] \in Active => st'[i] \in Active
      /\ \A i \in Ids : s[i] = "absent" => st'[i] = "absent"
      /\ \A r \in Runs : Live(r)' => Live(r) \/ s[r[1]] = "queued"
  BY <1>1, PumpKeeps
<1>3. ListedItems'
  BY <1>2 DEF ListedItems
<1>4. NoIdleNvr'
  BY PumpLeavesNoneIdle DEF NoIdleNvr, Busy
<1>5. InOrder(posts, st)'
  <2>1. \A k \in 1..Len(posts') : posts'[k].id \in Ids
    <3> SUFFICES ASSUME NEW k \in 1..Len(posts') PROVE posts'[k] \in Result
      BY DEF Result
    <3> QED BY <1>1
  <2>2. \A r \in Runs : Live(r)' => Live(r) \/ s[r[1]] \notin Active
    BY <1>2 DEF Active
  <2> QED BY <1>2, <2>1, <2>2 DEF InOrder
<1> QED BY <1>2, <1>3, <1>4, <1>5 DEF QueueInv, OneActive, Current

-----------------------------------------------------------------------------
(* The slots of the GUI thread                                             *)

LEMMA EnqueueInv ==
  ASSUME TypeOK, TypeOK', QueueInv, NEW h \in Hosts, NEW n \in NamesOf[h], Enqueue(h, n)
  PROVE  QueueInv'
<1> DEFINE s == [st EXCEPT ![nextId] = "queued"]
<1>1. /\ nextId \in Ids /\ nextId' = nextId + 1 /\ try' = try /\ posts' = posts
      /\ host' = [host EXCEPT ![nextId] = h] /\ name' = [name EXCEPT ![nextId] = n]
      /\ Pump(s, host', try')
  BY DEF Enqueue
<1>2. st \in [Ids -> States] /\ host \in [Ids -> Hosts \cup {NoHost}] /\ try \in [Ids -> Tries]
      /\ name \in [Ids -> Names \cup {NoName}]
  BY DEF TypeOK
<1>3. s \in [Ids -> States] /\ n \in Names
  BY <1>2 DEF States, Names
<1>4. st[nextId] = "absent"
  BY <1>1, Bounds DEF QueueInv, ListedItems, Ids
<1>5. \A i \in Ids : s[i] \in Active => st[i] \in Active /\ i # nextId /\ host'[i] = host[i]
  BY <1>1, <1>2 DEF Active
<1>6. \A i \in Ids : st[i] \in Active => s[i] \in Active
  BY <1>2, <1>4 DEF Active
<1>7. OneActive(s, host')
  BY <1>5 DEF QueueInv, OneActive
<1>8. Current(s, try')
  BY <1>1, <1>6, RunParts DEF QueueInv, Current
<1>9. InOrder(posts', s)
  <2>1. \A k \in 1..Len(posts) : posts[k].id \in Ids
    BY PostTypes
  <2> QED BY <1>1, <1>6, <2>1 DEF QueueInv, InOrder
<1>10. \A i \in Ids : /\ i >= nextId' => s[i] = "absent"
                      /\ s[i] # "absent" => name'[i] \in Names
  BY <1>1, <1>2, <1>3, Bounds DEF QueueInv, ListedItems, Ids
<1> HIDE DEF s
<1> QED BY <1>1, <1>3, <1>7, <1>8, <1>9, <1>10, PumpInv

(* A result, or cancel() of a waiting item: nothing of item i is alive or  *)
(* on its way any more, and pump() runs.                                   *)
LEMMA FinalInv ==
  ASSUME TypeOK, TypeOK', QueueInv, NEW i \in Ids, NEW x \in Final, NEW paths,
         st[i] \in {"queued"} \cup Active, Update(i, x, paths),
         UNCHANGED <<host, name, try, nextId>>,
         \A r \in Runs : Live(r) => r[1] # i,
         InOrder(posts', [st EXCEPT ![i] = x])
  PROVE  QueueInv'
<1> DEFINE s == [st EXCEPT ![i] = x]
<1>1. Pump(s, host', try')
  BY DEF Update, Final, Active
<1>2. st \in [Ids -> States]
  BY DEF TypeOK
<1>3. s \in [Ids -> States]
  BY <1>2 DEF States
<1>4. \A o \in Ids : s[o] \in Active => st[o] \in Active
  BY <1>2 DEF Active, Final
<1>5. OneActive(s, host')
  BY <1>4 DEF QueueInv, OneActive
<1>6. Current(s, try')
  BY <1>2, RunParts DEF QueueInv, Current
<1>7. \A o \in Ids : /\ o >= nextId' => s[o] = "absent"
                     /\ s[o] # "absent" => name'[o] \in Names
  BY <1>2 DEF QueueInv, ListedItems, Active
<1>8. InOrder(posts', s)
  OBVIOUS
<1> HIDE DEF s
<1> QED BY <1>1, <1>3, <1>5, <1>6, <1>7, <1>8, PumpInv

LEMMA CancelWaitingInv ==
  ASSUME TypeOK, TypeOK', QueueInv, NEW i \in Ids, CancelWaiting(i)
  PROVE  QueueInv'
<1>1. st[i] = "queued" /\ Update(i, "cancelled", {}) /\ posts' = posts
      /\ UNCHANGED <<host, name, try, nextId>>
  BY DEF CancelWaiting
<1>2. \A r \in Runs : Live(r) => r[1] # i
  BY <1>1 DEF QueueInv, Current, Active
<1>3. InOrder(posts', [st EXCEPT ![i] = "cancelled"])
  BY <1>1 DEF QueueInv, InOrder, Active, TypeOK
<1> QED BY <1>1, <1>2, <1>3, FinalInv DEF Final

LEMMA RetryInv ==
  ASSUME TypeOK, TypeOK', QueueInv, NEW i \in Ids, Retry(i)
  PROVE  QueueInv'
<1> DEFINE s == [st EXCEPT ![i] = "queued"]
<1>1. /\ st[i] \in {"failed", "cancelled"} /\ Pump(s, host', try') /\ posts' = posts
      /\ try' = [try EXCEPT ![i] = @ + 1] /\ UNCHANGED <<host, name, nextId>>
  BY DEF Retry
<1>2. st \in [Ids -> States] /\ try \in [Ids -> Tries]
  BY DEF TypeOK
<1>3. s \in [Ids -> States]
  BY <1>2 DEF States
<1>4. \A o \in Ids : (s[o] \in Active <=> st[o] \in Active) /\ (s[o] \in Active => o # i)
  BY <1>1, <1>2 DEF Active
<1>5. OneActive(s, host')
  BY <1>1, <1>4 DEF QueueInv, OneActive
<1>6. Current(s, try')
  <2> SUFFICES ASSUME NEW r \in Runs, Live(r) PROVE s[r[1]] \in Active /\ r[2] = try'[r[1]]
    BY DEF Current
  <2>1. st[r[1]] \in Active /\ r[2] = try[r[1]] /\ r[1] \in Ids
    BY RunParts DEF QueueInv, Current
  <2> QED BY <1>1, <1>2, <1>4, <2>1
<1>7. InOrder(posts', s)
  <2>1. \A k \in 1..Len(posts) : posts[k].id \in Ids
    BY PostTypes
  <2> QED BY <1>1, <1>4, <2>1 DEF QueueInv, InOrder
<1>8. \A o \in Ids : /\ o >= nextId' => s[o] = "absent"
                     /\ s[o] # "absent" => name'[o] \in Names
  BY <1>1, <1>2 DEF QueueInv, ListedItems
<1> HIDE DEF s
<1> QED BY <1>1, <1>3, <1>5, <1>6, <1>7, <1>8, PumpInv

(* remove() and clearFinished() take only finished items off the list.     *)
LEMMA ForgetInv ==
  ASSUME TypeOK, TypeOK', QueueInv, NEW S \in SUBSET Ids, \A i \in S : st[i] \in Final, Forget(S)
  PROVE  QueueInv'
<1>1. /\ st' = [i \in Ids |-> IF i \in S THEN "absent" ELSE st[i]]
      /\ host' = [i \in Ids |-> IF i \in S THEN NoHost ELSE host[i]]
      /\ name' = [i \in Ids |-> IF i \in S THEN NoName ELSE name[i]]
      /\ UNCHANGED <<try, nextId, posts, pc>>
  BY DEF Forget
<1>2. \A i \in S : st[i] \notin Active /\ st[i] # "queued"
  BY DEF Final, Active
<1>3. \A i \in Ids : st[i] \in Active \/ st[i] = "queued" =>
                     i \notin S /\ st'[i] = st[i] /\ host'[i] = host[i]
  BY <1>1, <1>2
<1>4. \A i \in Ids : st'[i] \in Active \/ st'[i] = "queued" =>
                     i \notin S /\ st'[i] = st[i] /\ host'[i] = host[i]
  BY <1>1 DEF Active
<1>5. ListedItems'
  BY <1>1 DEF QueueInv, ListedItems
<1>6. OneActive(st, host)'
  BY <1>4 DEF QueueInv, OneActive
<1>7. Current(st, try)'
  BY <1>1, <1>3, RunParts DEF QueueInv, Current, Live
<1>8. InOrder(posts, st)'
  <2>1. \A k \in 1..Len(posts) : posts[k].id \in Ids
    BY PostTypes
  <2> QED BY <1>1, <1>3, <2>1 DEF QueueInv, InOrder, Live
<1>9. NoIdleNvr'
  BY <1>3, <1>4 DEF QueueInv, NoIdleNvr, Busy
<1> QED BY <1>5, <1>6, <1>7, <1>8, <1>9 DEF QueueInv

(* The oldest queued result is for a running item.  A final one has left   *)
(* neither a worker nor another result of that item behind.                *)
LEMMA DeliverInv ==
  ASSUME TypeOK, TypeOK', QueueInv, Deliver
  PROVE  QueueInv'
<1> DEFINE p == Head(posts)
           i == p.id
<1>1. /\ posts # <<>> /\ posts' = Tail(posts) /\ Update(i, p.st, p.paths)
      /\ UNCHANGED <<host, name, try, nextId>>
  BY DEF Deliver
<1>2. p = posts[1] /\ 1 \in 1..Len(posts) /\ i \in Ids
  BY <1>1, PostTypes
<1>3. /\ Len(posts') = Len(posts) - 1
      /\ \A k \in 1..Len(posts') : posts'[k] = posts[k + 1] /\ k + 1 \in 1..Len(posts) /\ 1 < k + 1
  BY <1>1, PostTypes
<1>4. st[i] \in Active /\ p.st \in {"downloading"} \cup Final
  BY <1>2 DEF QueueInv, InOrder
<1>5. st \in [Ids -> States] /\ pc \in [Runs -> Phases]
  BY DEF TypeOK
<1>6. \A k \in 1..Len(posts') : posts'[k].id \in Ids
  BY PostTypes, <1>3
<1>7. InOrder(posts', st)
  <2> SUFFICES ASSUME NEW k \in 1..Len(posts')
               PROVE  /\ posts'[k].st \in {"downloading"} \cup Final
                      /\ st[posts'[k].id] \in Active
                      /\ posts'[k].st \in Final =>
                           /\ \A l \in 1..Len(posts') : k < l => posts'[l].id # posts'[k].id
                           /\ \A r \in Runs : Live(r) => r[1] # posts'[k].id
    BY DEF InOrder
  <2>1. k + 1 \in 1..Len(posts) /\ posts'[k] = posts[k + 1]
    BY <1>3
  <2>2. \A l \in 1..Len(posts') : k < l =>
           posts'[l] = posts[l + 1] /\ l + 1 \in 1..Len(posts) /\ k + 1 < l + 1
    BY <1>3
  <2> QED BY <2>1, <2>2 DEF QueueInv, InOrder
<1>8. CASE p.st \in Final
  <2>1. \A k \in 1..Len(posts') : posts'[k].id # i
    BY <1>2, <1>3, <1>8 DEF QueueInv, InOrder
  <2>2. \A r \in Runs : Live(r) => r[1] # i
    BY <1>2, <1>8 DEF QueueInv, InOrder
  <2>3. InOrder(posts', [st EXCEPT ![i] = p.st])
    <3>1. \A k \in 1..Len(posts') : [st EXCEPT ![i] = p.st][posts'[k].id] = st[posts'[k].id]
      BY <1>5, <1>6, <2>1
    <3> QED BY <1>7, <3>1 DEF InOrder
  <2> HIDE DEF i, p
  <2> QED BY <1>1, <1>2, <1>4, <1>8, <2>2, <2>3, FinalInv
<1>9. CASE p.st = "downloading"
  <2>1. st' = [st EXCEPT ![i] = "downloading"] /\ UNCHANGED pc
    BY <1>1, <1>4, <1>9 DEF Update, Active, Final
  <2> HIDE DEF i, p
  <2>2. \A o \in Ids : st'[o] \in Active <=> st[o] \in Active
    BY <1>2, <1>4, <1>5, <2>1 DEF Active
  <2>3. ListedItems'
    BY <1>1, <1>2, <1>4, <1>5, <2>1 DEF QueueInv, ListedItems, Active
  <2>4. OneActive(st, host)'
    BY <1>1, <2>2 DEF QueueInv, OneActive
  <2>5. Current(st, try)'
    BY <1>1, <2>1, <2>2, RunParts DEF QueueInv, Current, Live
  <2>6. InOrder(posts, st)'
    BY <1>6, <1>7, <2>1, <2>2 DEF InOrder, Live
  <2>7. NoIdleNvr'
    BY <1>1, <1>2, <1>5, <2>1, <2>2 DEF QueueInv, NoIdleNvr, Busy
  <2> QED BY <2>3, <2>4, <2>5, <2>6, <2>7 DEF QueueInv
<1> QED BY <1>4, <1>8, <1>9

-----------------------------------------------------------------------------
(* Workers                                                                 *)

(* A step of a worker that reports nothing or progress, or that reports a  *)
(* result and ends.                                                        *)
LEMMA WorkerInv ==
  ASSUME TypeOK, TypeOK', QueueInv, NEW r \in Runs, Live(r),
         UNCHANGED <<st, host, name, try, nextId>>,
         NEW l, pc' = [pc EXCEPT ![r] = l],
         \/ posts' = posts
         \/ posts' = Append(posts, [id |-> r[1], st |-> "downloading", paths |-> {}])
         \/ /\ l = "idle"
            /\ \E x \in Final : \E ps : posts' = Append(posts, [id |-> r[1], st |-> x, paths |-> ps])
  PROVE  QueueInv'
<1>1. \A q \in Runs : Live(q)' => Live(q)
  BY DEF Live, TypeOK
<1>2. ListedItems' /\ OneActive(st, host)' /\ NoIdleNvr'
  BY DEF QueueInv, ListedItems, OneActive, NoIdleNvr, Busy
<1>3. Current(st, try)'
  BY <1>1 DEF QueueInv, Current
<1>4. r[1] \in Ids /\ st[r[1]] \in Active
  BY RunParts DEF QueueInv, Current
<1>5. \A k \in 1..Len(posts) : posts[k].st \in Final => posts[k].id # r[1]
  BY DEF QueueInv, InOrder
<1>6. CASE posts' = posts
  <2>1. InOrder(posts, st)'
    BY <1>1, <1>6 DEF QueueInv, InOrder
  <2> QED BY <1>2, <1>3, <2>1 DEF QueueInv
<1>7. ASSUME NEW x \in {"downloading"} \cup Final, NEW ps, x \in Final => l = "idle",
             posts' = Append(posts, [id |-> r[1], st |-> x, paths |-> ps])
      PROVE  InOrder(posts, st)'
  <2>1. /\ Len(posts') = Len(posts) + 1 /\ Len(posts) \in Nat
        /\ \A k \in 1..Len(posts) : posts'[k] = posts[k]
        /\ posts'[Len(posts')].id = r[1] /\ posts'[Len(posts')].st = x
    BY <1>7, PostTypes
  <2>2. x \in Final => \A q \in Runs : Live(q)' => q[1] # r[1]
    <3> SUFFICES ASSUME x \in Final, NEW q \in Runs, Live(q)', q[1] = r[1] PROVE FALSE
      OBVIOUS
    <3>1. q[2] = r[2]
      BY <1>1 DEF QueueInv, Current
    <3>2. q = r
      BY <3>1, RunParts
    <3> QED BY <1>7, <3>2 DEF Live, TypeOK
  <2> SUFFICES ASSUME NEW k \in 1..Len(posts')
               PROVE  /\ posts'[k].st \in {"downloading"} \cup Final
                      /\ st'[posts'[k].id] \in Active
                      /\ posts'[k].st \in Final =>
                           /\ \A m \in 1..Len(posts') : k < m => posts'[m].id # posts'[k].id
                           /\ \A q \in Runs : Live(q)' => q[1] # posts'[k].id
    BY DEF InOrder
  <2>3. CASE k = Len(posts')
    BY <1>4, <2>1, <2>2, <2>3
  <2>4. CASE k # Len(posts')
    <3>1. k \in 1..Len(posts) /\ posts'[k] = posts[k]
      BY <2>1, <2>4
    <3>2. \A m \in 1..Len(posts') : m \in 1..Len(posts) \/ m = Len(posts')
      BY <2>1
    <3> QED BY <1>1, <1>5, <2>1, <3>1, <3>2 DEF QueueInv, InOrder
  <2> QED BY <2>3, <2>4
<1>8. CASE posts' = Append(posts, [id |-> r[1], st |-> "downloading", paths |-> {}])
  <2> DEFINE x == "downloading"
             ps == {}
  <2>2. x \in {"downloading"} \cup Final /\ x \notin Final
    BY DEF Final
  <2>3. posts' = Append(posts, [id |-> r[1], st |-> x, paths |-> ps])
    BY <1>8
  <2> HIDE DEF x, ps
  <2>1. InOrder(posts, st)'
    BY <1>7, <2>2, <2>3
  <2> QED BY <1>2, <1>3, <2>1 DEF QueueInv
<1>9. CASE /\ l = "idle"
           /\ \E x \in Final : \E ps : posts' = Append(posts, [id |-> r[1], st |-> x, paths |-> ps])
  <2>1. InOrder(posts, st)'
    BY <1>7, <1>9
  <2> QED BY <1>2, <1>3, <2>1 DEF QueueInv
<1> QED BY <1>6, <1>8, <1>9

LEMMA WorkersInv ==
  ASSUME TypeOK, TypeOK', QueueInv, NEW r \in Runs, Worker(r)
  PROVE  QueueInv'
<1> USE DEF gui, Live, Goto, Post
<1>0. pc \in [Runs -> Phases]
  BY DEF TypeOK
<1>1. CASE Begin(r)
  BY <1>1, WorkerInv DEF Begin
<1>2. CASE Prepared(r)
  BY <1>2, WorkerInv DEF Prepared
<1>3. CASE Login(r)
  BY <1>3, WorkerInv DEF Login
<1>4. CASE PickPath(r)
  <2>1. /\ pc[r] = "name" /\ pc' = [pc EXCEPT ![r] = "open"]
        /\ UNCHANGED <<st, host, name, try, nextId>>
        /\ \/ posts' = posts
           \/ posts' = Append(posts, [id |-> r[1], st |-> "downloading", paths |-> {}])
    BY <1>4 DEF PickPath
  <2> QED BY <2>1, WorkerInv
<1>5. CASE Open(r)
  BY <1>5, WorkerInv DEF Open
<1>6. CASE Progress(r)
  <2>1. /\ pc[r] = "transfer" /\ pc' = [pc EXCEPT ![r] = "transfer"]
        /\ UNCHANGED <<st, host, name, try, nextId>>
        /\ \/ posts' = posts
           \/ posts' = Append(posts, [id |-> r[1], st |-> "downloading", paths |-> {}])
    BY <1>0, <1>6 DEF Progress
  <2> QED BY <2>1, WorkerInv
<1>7. CASE PartSaved(r)
  <2>1. pc[r] = "transfer" /\ UNCHANGED <<st, host, name, try, nextId>>
    BY <1>7 DEF PartSaved
  <2>2. CASE pc' = [pc EXCEPT ![r] = "login"] /\ posts' = posts
    BY <2>1, <2>2, WorkerInv
  <2>3. CASE /\ pc' = [pc EXCEPT ![r] = "idle"]
             /\ \/ posts' = posts
                \/ posts' = Append(posts, [id |-> r[1], st |-> "done", paths |-> job[r].made])
    <3>1. "done" \in Final
      BY DEF Final
    <3> QED BY <2>1, <2>3, <3>1, WorkerInv
  <2> QED BY <1>7, <2>2, <2>3 DEF PartSaved
<1>8. CASE PartLost(r)
  BY <1>8, WorkerInv DEF PartLost
<1>9. CASE Fail(r)
  <2>1. /\ pc[r] = "fail" /\ pc' = [pc EXCEPT ![r] = "idle"]
        /\ UNCHANGED <<st, host, name, try, nextId>>
    BY <1>9 DEF Fail
  <2>2. \/ posts' = posts
        \/ \E x \in Final : posts' = Append(posts, [id |-> r[1], st |-> x, paths |-> {}])
    BY <1>9 DEF Fail, Final
  <2> QED BY <2>1, <2>2, WorkerInv
<1> QED BY <1>1, <1>2, <1>3, <1>4, <1>5, <1>6, <1>7, <1>8, <1>9 DEF Worker

-----------------------------------------------------------------------------
LEMMA QueueNext == TypeOK /\ TypeOK' /\ QueueInv /\ [Next]_vars => QueueInv'
<1> SUFFICES ASSUME TypeOK, TypeOK', QueueInv, [Next]_vars PROVE QueueInv'
  OBVIOUS
<1>1. ASSUME NEW h \in Hosts, NEW n \in NamesOf[h], Enqueue(h, n) PROVE QueueInv'
  BY <1>1, EnqueueInv
<1>2. ASSUME NEW i \in Ids, CancelWaiting(i) PROVE QueueInv'
  BY <1>2, CancelWaitingInv
<1>3. ASSUME NEW i \in Ids, Retry(i) PROVE QueueInv'
  BY <1>3, RetryInv
<1>4. ASSUME NEW i \in Ids, Remove(i) PROVE QueueInv'
  BY <1>4, ForgetInv DEF Remove
<1>5. CASE ClearFinished
  BY <1>5, ForgetInv DEF ClearFinished
<1>6. CASE Quit
  BY <1>6 DEF Quit, QueueInv, ListedItems, OneActive, Current, InOrder, NoIdleNvr, Busy, Live
<1>7. CASE Deliver
  BY <1>7, DeliverInv
<1>8. ASSUME NEW r \in Runs, Worker(r) PROVE QueueInv'
  BY <1>8, WorkersInv
<1>9. CASE UNCHANGED <<st, host, name, try, nextId, posts, pc>>
  BY <1>9 DEF QueueInv, ListedItems, OneActive, Current, InOrder, NoIdleNvr, Busy, Live
<1>10. ASSUME NEW i \in Ids, CancelRunning(i) PROVE QueueInv'
  BY <1>9, <1>10 DEF CancelRunning, gui
<1>11. ASSUME NEW f \in Folders, SetFolder(f) PROVE QueueInv'
  BY <1>9, <1>11 DEF SetFolder
<1>12. CASE UNCHANGED vars
  BY <1>9, <1>12 DEF vars, gui
<1> QED
  BY <1>1, <1>2, <1>3, <1>4, <1>5, <1>6, <1>7, <1>8, <1>10, <1>11, <1>12 DEF Next, User

-----------------------------------------------------------------------------
(* Types                                                                   *)

Job == [dir : Folders, part : 1..MaxParts, parts : 1..MaxParts,
        path : Paths \cup {NoPath}, made : SUBSET Paths]

ItemTypes ==
  /\ st \in [Ids -> States] /\ host \in [Ids -> Hosts \cup {NoHost}]
  /\ name \in [Ids -> Names \cup {NoName}] /\ try \in [Ids -> Tries]
  /\ saved \in [Ids -> SUBSET Paths] /\ nextId \in 1..(MaxItems + 1)
  /\ folder \in Folders /\ closing \in BOOLEAN

WorkTypes == pc \in [Runs -> Phases] /\ job \in [Runs -> Job]

DiskTypes ==
  /\ DOMAIN disk \subseteq Paths
  /\ \A p \in DOMAIN disk : disk[p] \in [by : Runs, whole : BOOLEAN]

(* A worker about to open a file has picked its path.                      *)
PathPicked == \A r \in Runs : pc[r] = "open" => job[r].path \in Paths

LEMMA TypeParts ==
  TypeOK <=> ItemTypes /\ raised \subseteq Runs /\ posts \in Seq(Result) /\ WorkTypes /\ DiskTypes
BY DEF TypeOK, ItemTypes, Result, WorkTypes, Job, DiskTypes

LEMMA NoJobType == ASSUME folder \in Folders
                   PROVE  NoJob \in Job /\ [NoJob EXCEPT !.dir = folder] \in Job
<1>1. (CHOOSE f \in Folders : TRUE) \in Folders
  OBVIOUS
<1>2. NoJob \in Job
  BY <1>1, Bounds DEF NoJob, Job
<1>3. \A j \in Job, f \in Folders : [j EXCEPT !.dir = f] \in Job
  BY DEF Job
<1> QED BY <1>2, <1>3

LEMMA PumpTypes ==
  ASSUME TypeOK, NEW s \in [Ids -> States], NEW hs, NEW ts, Pump(s, hs, ts)
  PROVE  st' \in [Ids -> States] /\ WorkTypes'
<1>1. st' \in [Ids -> States]
  BY DEF Pump, States, Active
<1>2. pc' \in [Runs -> Phases]
  BY DEF Pump, Phases, TypeOK
<1>3. job' \in [Runs -> Job]
  BY NoJobType, TypeParts DEF Pump, ItemTypes, WorkTypes
<1> QED BY <1>1, <1>2, <1>3 DEF WorkTypes

(* update() with the paths of a result.                                    *)
LEMMA UpdateTypes ==
  ASSUME TypeOK, NEW i \in Ids, NEW x \in States, NEW paths \in SUBSET Paths, Update(i, x, paths)
  PROVE  st' \in [Ids -> States] /\ saved' \in [Ids -> SUBSET Paths] /\ WorkTypes'
<1>1. ItemTypes /\ WorkTypes
  BY TypeParts
<1>2. [st EXCEPT ![i] = x] \in [Ids -> States]
  BY <1>1 DEF ItemTypes
<1>3. CASE st[i] = "absent"
  BY <1>1, <1>3 DEF Update, ItemTypes, WorkTypes
<1>4. CASE st[i] # "absent" /\ Pump([st EXCEPT ![i] = x], host, try)
  <2>1. st' \in [Ids -> States] /\ WorkTypes'
    BY <1>2, <1>4, PumpTypes
  <2>2. saved' \in [Ids -> SUBSET Paths]
    BY <1>1, <1>4 DEF Update, ItemTypes
  <2> QED BY <2>1, <2>2
<1>5. CASE /\ st[i] # "absent" /\ st' = [st EXCEPT ![i] = x] /\ UNCHANGED <<pc, job>>
  <2>1. saved' \in [Ids -> SUBSET Paths]
    BY <1>1, <1>5 DEF Update, ItemTypes
  <2> QED BY <1>1, <1>2, <1>5, <2>1 DEF WorkTypes
<1> QED BY <1>3, <1>4, <1>5 DEF Update

(* uniquePath() returns a path of the item's folder.                       *)
LEMMA UniquePathType ==
  ASSUME TypeOK, NEW r \in Runs, name[r[1]] \in Names
  PROVE  UniquePath(r) \in Paths
<1> DEFINE at(n) == <<job[r].dir, name[r[1]], IF job[r].parts > 1 THEN job[r].part ELSE 0, n>>
           free == {n \in 1..MaxCopies : at(n) \notin DOMAIN disk}
           first == CHOOSE n \in free : \A m \in free : n <= m
<1>1. job[r] \in Job
  BY TypeParts DEF WorkTypes
<1>2. job[r].dir \in Folders /\ (IF job[r].parts > 1 THEN job[r].part ELSE 0) \in 0..MaxParts
  BY <1>1, Bounds DEF Job
<1>3. \A n \in 1..MaxCopies : at(n) \in Paths
  BY <1>2 DEF Paths
<1>4. CASE free = {}
  BY <1>3, <1>4, Bounds DEF UniquePath
<1>5. CASE free # {}
  <2>1. free \subseteq Nat
    BY Bounds
  <2>2. \E n \in free : \A m \in free : n <= m
    BY <1>5, <2>1, LeastExists
  <2>3. first \in free
    BY <2>2
  <2>4. at(first) \in Paths
    BY <1>3, <2>3
  <2>5. UniquePath(r) = at(first)
    BY <1>5 DEF UniquePath
  <2> QED BY <2>4, <2>5
<1> QED BY <1>4, <1>5

(* Updates of run()'s locals.                                              *)
LEMMA JobUpdates ==
  ASSUME NEW j \in Job
  PROVE  /\ \A k \in 1..MaxParts : [j EXCEPT !.parts = k] \in Job
         /\ \A p \in Paths : [j EXCEPT !.path = p, !.made = @ \cup {p}] \in Job
         /\ \A p : [j EXCEPT !.made = @ \ {p}] \in Job
         /\ j.part < j.parts => [j EXCEPT !.part = @ + 1] \in Job
<1>1. \A k \in 1..MaxParts : [j EXCEPT !.parts = k] \in Job
  BY DEF Job
<1>2. \A p \in Paths : [j EXCEPT !.path = p, !.made = @ \cup {p}] \in Job
  BY DEF Job
<1>3. \A p : [j EXCEPT !.made = @ \ {p}] \in Job
  BY DEF Job
<1>4. ASSUME j.part < j.parts PROVE [j EXCEPT !.part = @ + 1] \in Job
  <2>1. j.part \in 1..MaxParts /\ j.parts \in 1..MaxParts
    BY DEF Job
  <2>2. j.part + 1 \in 1..MaxParts
    BY <1>4, <2>1, Bounds
  <2> QED BY <2>2 DEF Job
<1> QED BY <1>1, <1>2, <1>3, <1>4

LEMMA PostType ==
  ASSUME TypeOK, NEW r \in Runs, NEW x \in States, NEW ps \in SUBSET Paths, Post(r, x, ps)
  PROVE  posts' \in Seq(Result)
<1>1. [id |-> r[1], st |-> x, paths |-> ps] \in Result
  BY RunParts DEF Result
<1> QED BY <1>1, PostTypes DEF Post

LEMMA EraseType ==
  ASSUME TypeOK, NEW S, Erase(S)
  PROVE  DiskTypes'
BY TypeParts DEF Erase, DiskTypes

LEMMA WorkerTypes ==
  ASSUME TypeOK, QueueInv, PathPicked, NEW r \in Runs, Worker(r)
  PROVE  TypeOK'
<1>1. ItemTypes /\ raised \subseteq Runs /\ posts \in Seq(Result) /\ WorkTypes /\ DiskTypes
  BY TypeParts
<1>2. UNCHANGED <<gui, raised>>
  BY DEF Worker, Begin, Prepared, Login, PickPath, Open, Progress, PartSaved, PartLost, Fail
<1>3. ItemTypes' /\ raised' \subseteq Runs
  BY <1>1, <1>2 DEF ItemTypes, gui
<1>4. \A l \in Phases : Goto(r, l) => pc' \in [Runs -> Phases]
  BY <1>1 DEF WorkTypes, Goto
<1>5. job[r] \in Job /\ (job[r].path \in Paths \cup {NoPath}) /\ job[r].made \in SUBSET Paths
  BY <1>1 DEF WorkTypes, Job
<1>6. \A j \in Job : job' = [job EXCEPT ![r] = j] => job' \in [Runs -> Job]
  BY <1>1 DEF WorkTypes
<1>7. UNCHANGED job => job' \in [Runs -> Job]
  BY <1>1 DEF WorkTypes
<1>8. UNCHANGED disk => DiskTypes'
  BY <1>1 DEF DiskTypes
<1>9. UNCHANGED posts => posts' \in Seq(Result)
  BY <1>1
<1>10. {"downloading"} \cup Final \subseteq States
  BY DEF States, Active
<1>11. NoJob \in Job
  BY <1>1, NoJobType DEF ItemTypes
<1> SUFFICES pc' \in [Runs -> Phases] /\ job' \in [Runs -> Job] /\ posts' \in Seq(Result) /\ DiskTypes'
  BY <1>3, TypeParts DEF TypeOK, ItemTypes, Result, WorkTypes, Job, DiskTypes
<1>12. CASE Begin(r)
  BY <1>4, <1>7, <1>8, <1>9, <1>12 DEF Begin, Phases
<1>13. CASE Prepared(r)
  <2>1. pc' \in [Runs -> Phases]
    BY <1>4, <1>13 DEF Prepared, Phases
  <2>2. job' \in [Runs -> Job]
    <3>1. ASSUME NEW k \in 1..MaxParts, job' = [job EXCEPT ![r].parts = k]
          PROVE  job' \in [Runs -> Job]
      BY <3>1, <1>5, <1>6, JobUpdates
    <3> QED BY <3>1, <1>7, <1>13 DEF Prepared
  <2> QED BY <2>1, <2>2, <1>8, <1>9, <1>13 DEF Prepared
<1>14. CASE Login(r)
  BY <1>4, <1>7, <1>8, <1>9, <1>14 DEF Login, Phases
<1>15. CASE PickPath(r)
  <2>1. name[r[1]] \in Names
    BY <1>15, RunParts DEF PickPath, QueueInv, Current, ListedItems, Live, Active
  <2>2. UniquePath(r) \in Paths
    BY <2>1, UniquePathType
  <2>3. job' \in [Runs -> Job]
    <3> DEFINE j == [job[r] EXCEPT !.path = UniquePath(r), !.made = @ \cup {UniquePath(r)}]
    <3>1. j \in Job
      BY <1>5, <2>2, JobUpdates
    <3>2. job' = [job EXCEPT ![r] = j]
      BY <1>15 DEF PickPath
    <3> HIDE DEF j
    <3> QED BY <3>1, <3>2, <1>6
  <2>4. posts' \in Seq(Result)
    BY <1>10, <1>15, PostType DEF PickPath
  <2> QED BY <2>3, <2>4, <1>4, <1>8, <1>15 DEF PickPath, Phases
<1>16. CASE Open(r)
  <2>1. pc' \in [Runs -> Phases]
    BY <1>4, <1>16 DEF Open, Phases
  <2>2. job' \in [Runs -> Job]
    <3>1. [job[r] EXCEPT !.made = @ \ {job[r].path}] \in Job
      BY <1>5, JobUpdates
    <3> QED BY <3>1, <1>6, <1>7, <1>16 DEF Open
  <2>3. DiskTypes'
    <3>1. CASE UNCHANGED disk
      BY <3>1, <1>8
    <3>2. CASE Create(job[r].path, r)
      <4>1. job[r].path \in Paths
        BY <1>16 DEF Open, PathPicked
      <4> QED BY <3>2, <4>1, <1>1 DEF Create, DiskTypes
    <3> QED BY <3>1, <3>2, <1>16 DEF Open
  <2> QED BY <2>1, <2>2, <2>3, <1>9, <1>16 DEF Open
<1>17. CASE Progress(r)
  BY <1>1, <1>7, <1>8, <1>10, <1>17, PostType DEF Progress, WorkTypes
<1>18. CASE PartSaved(r)
  <2>1. pc' \in [Runs -> Phases]
    BY <1>4, <1>18 DEF PartSaved, Phases
  <2>2. job' \in [Runs -> Job]
    BY <1>5, <1>6, <1>11, <1>18, JobUpdates DEF PartSaved
  <2>3. posts' \in Seq(Result)
    BY <1>5, <1>9, <1>10, <1>18, PostType DEF PartSaved, Final
  <2>4. DiskTypes'
    BY <1>1, <1>18 DEF PartSaved, DiskTypes
  <2> QED BY <2>1, <2>2, <2>3, <2>4
<1>19. CASE PartLost(r)
  <2>1. job' \in [Runs -> Job]
    BY <1>5, <1>6, <1>19, JobUpdates DEF PartLost
  <2> QED BY <2>1, <1>4, <1>9, <1>19, EraseType DEF PartLost, Phases
<1>20. CASE Fail(r)
  <2>1. posts' \in Seq(Result)
    BY <1>10, <1>20, PostType DEF Fail, Final
  <2> QED BY <2>1, <1>4, <1>6, <1>11, <1>20, EraseType DEF Fail, Phases
<1> QED
  BY <1>12, <1>13, <1>14, <1>15, <1>16, <1>17, <1>18, <1>19, <1>20 DEF Worker

LEMMA TypeNext == TypeOK /\ QueueInv /\ PathPicked /\ [Next]_vars => TypeOK'
<1> SUFFICES ASSUME TypeOK, QueueInv, PathPicked, [Next]_vars PROVE TypeOK'
  OBVIOUS
<1>0. ItemTypes /\ raised \subseteq Runs /\ posts \in Seq(Result) /\ WorkTypes /\ DiskTypes
  BY TypeParts
<1>1. ASSUME ItemTypes', raised' \subseteq Runs, posts' \in Seq(Result), WorkTypes', DiskTypes'
      PROVE  TypeOK'
  BY <1>1 DEF TypeOK, ItemTypes, Result, WorkTypes, Job, DiskTypes
<1>2. /\ UNCHANGED disk => DiskTypes'
      /\ UNCHANGED <<pc, job>> => WorkTypes'
  BY <1>0 DEF DiskTypes, WorkTypes
<1>3. \A i \in Ids : <<i, try[i]>> \in Runs
  BY <1>0 DEF ItemTypes, Runs
<1>4. \A i \in Ids, x \in States : [st EXCEPT ![i] = x] \in [Ids -> States]
  BY <1>0 DEF ItemTypes
<1>5. "queued" \in States /\ "absent" \in States /\ Final \subseteq States
  BY DEF States
<1>6. ASSUME NEW h \in Hosts, NEW n \in NamesOf[h], Enqueue(h, n) PROVE TypeOK'
  <2>1. st' \in [Ids -> States] /\ WorkTypes'
    BY <1>4, <1>5, <1>6, PumpTypes DEF Enqueue
  <2>2. nextId' \in 1..(MaxItems + 1)
    BY <1>6, Bounds DEF Enqueue, Ids
  <2>3. n \in Names
    BY DEF Names
  <2>4. ItemTypes'
    BY <1>0, <1>6, <2>1, <2>2, <2>3 DEF Enqueue, ItemTypes
  <2> QED BY <1>0, <1>1, <1>2, <1>6, <2>1, <2>4 DEF Enqueue
<1>7. ASSUME NEW i \in Ids, CancelWaiting(i) PROVE TypeOK'
  <2>1. st' \in [Ids -> States] /\ saved' \in [Ids -> SUBSET Paths] /\ WorkTypes'
    BY <1>5, <1>7, UpdateTypes DEF CancelWaiting, Final
  <2>2. ItemTypes'
    BY <1>0, <1>7, <2>1 DEF CancelWaiting, ItemTypes
  <2> QED BY <1>0, <1>1, <1>2, <1>7, <2>1, <2>2 DEF CancelWaiting
<1>8. ASSUME NEW i \in Ids, CancelRunning(i) PROVE TypeOK'
  <2>1. ItemTypes'
    BY <1>0, <1>8 DEF CancelRunning, gui, ItemTypes
  <2> QED BY <1>0, <1>1, <1>2, <1>3, <1>8, <2>1 DEF CancelRunning
<1>9. ASSUME NEW i \in Ids, Retry(i) PROVE TypeOK'
  <2>1. st' \in [Ids -> States] /\ WorkTypes'
    BY <1>4, <1>5, <1>9, PumpTypes DEF Retry
  <2>2. try[i] + 1 \in Tries
    BY <1>0, <1>9, Bounds DEF Retry, ItemTypes, Tries
  <2>3. ItemTypes'
    BY <1>0, <1>9, <2>1, <2>2 DEF Retry, ItemTypes
  <2> QED BY <1>0, <1>1, <1>2, <1>9, <2>1, <2>3 DEF Retry
<1>10. ASSUME NEW S, Forget(S) PROVE TypeOK'
  <2>1. ItemTypes'
    BY <1>0, <1>5, <1>10 DEF Forget, ItemTypes
  <2> QED BY <1>0, <1>1, <1>2, <1>10, <2>1 DEF Forget
<1>11. ASSUME NEW f \in Folders, SetFolder(f) PROVE TypeOK'
  <2>1. ItemTypes'
    BY <1>0, <1>11 DEF SetFolder, ItemTypes
  <2> QED BY <1>0, <1>1, <1>2, <1>11, <2>1 DEF SetFolder
<1>12. CASE Quit
  <2>1. ItemTypes'
    BY <1>0, <1>12 DEF Quit, ItemTypes
  <2>2. raised' \subseteq Runs /\ posts' \in Seq(Result)
    BY <1>0, <1>3, <1>12 DEF Quit
  <2> QED BY <1>1, <1>2, <1>12, <2>1, <2>2 DEF Quit
<1>13. CASE Deliver
  <2>1. Head(posts) \in Result /\ posts' \in Seq(Result)
    BY <1>13, PostTypes DEF Deliver
  <2>2. st' \in [Ids -> States] /\ saved' \in [Ids -> SUBSET Paths] /\ WorkTypes'
    BY <1>13, <2>1, UpdateTypes DEF Deliver, Result
  <2>3. ItemTypes'
    BY <1>0, <1>13, <2>2 DEF Deliver, ItemTypes
  <2> QED BY <1>0, <1>1, <1>2, <1>13, <2>1, <2>2, <2>3 DEF Deliver
<1>14. ASSUME NEW r \in Runs, Worker(r) PROVE TypeOK'
  BY <1>14, WorkerTypes
<1>15. CASE UNCHANGED vars
  <2>1. ItemTypes'
    BY <1>0, <1>15 DEF vars, gui, ItemTypes
  <2> QED BY <1>0, <1>1, <1>2, <1>15, <2>1 DEF vars
<1>16. ASSUME NEW i \in Ids, Remove(i) PROVE TypeOK'
  BY <1>10, <1>16 DEF Remove
<1>17. CASE ClearFinished
  BY <1>10, <1>17 DEF ClearFinished
<1> QED
  BY <1>6, <1>7, <1>8, <1>9, <1>11, <1>12, <1>13, <1>14, <1>15, <1>16, <1>17 DEF Next, User

LEMMA PathNext == TypeOK /\ QueueInv /\ PathPicked /\ [Next]_vars => PathPicked'
<1> SUFFICES ASSUME TypeOK, QueueInv, PathPicked, [Next]_vars PROVE PathPicked'
  OBVIOUS
<1>0. pc \in [Runs -> Phases] /\ job \in [Runs -> Job]
  BY TypeParts DEF WorkTypes
<1>1. ASSUME NEW s, NEW hs, NEW ts, Pump(s, hs, ts) PROVE PathPicked'
  BY <1>1 DEF Pump, PathPicked
<1>2. CASE UNCHANGED <<pc, job>>
  BY <1>2 DEF PathPicked
<1>3. ASSUME NEW i, NEW x, NEW paths, Update(i, x, paths) PROVE PathPicked'
  BY <1>1, <1>2, <1>3 DEF Update
<1>4. ASSUME NEW r \in Runs, PickPath(r) PROVE PathPicked'
  <2>1. name[r[1]] \in Names
    BY <1>4, RunParts DEF PickPath, QueueInv, Current, ListedItems, Live, Active
  <2>2. UniquePath(r) \in Paths
    BY <2>1, UniquePathType
  <2>3. \A q \in Runs : IF q = r THEN job'[q].path = UniquePath(r)
                                  ELSE job'[q] = job[q] /\ pc'[q] = pc[q]
    BY <1>0, <1>4 DEF PickPath, Goto, Job
  <2> QED BY <2>2, <2>3 DEF PathPicked
<1>5. ASSUME NEW r \in Runs, Worker(r), ~PickPath(r) PROVE PathPicked'
  <2>1. \A q \in Runs : q # r => job'[q] = job[q] /\ pc'[q] = pc[q]
    BY <1>0, <1>5 DEF Worker, Begin, Prepared, Login, Open, Progress, PartSaved, PartLost, Fail, Goto
  <2>2. pc'[r] # "open"
    BY <1>0, <1>5 DEF Worker, Begin, Prepared, Login, Open, Progress, PartSaved, PartLost, Fail, Goto
  <2> QED BY <2>1, <2>2 DEF PathPicked
<1> QED
  BY <1>1, <1>2, <1>3, <1>4, <1>5
     DEF Next, User, Enqueue, CancelWaiting, CancelRunning, Retry, Remove, ClearFinished, Forget,
         SetFolder, Quit, Deliver, vars

-----------------------------------------------------------------------------
LEMMA InvInit == Init => TypeOK /\ QueueInv /\ PathPicked
BY TypeInit, QueueInit DEF Init, PathPicked

LEMMA InvNext == TypeOK /\ QueueInv /\ PathPicked /\ [Next]_vars => (TypeOK /\ QueueInv /\ PathPicked)'
BY TypeNext, QueueNext, PathNext

(* Every variable keeps its type.                                          *)
THEOREM TypesHold == Spec => []TypeOK
BY InvInit, InvNext, PTL DEF Spec

(* An NVR never has two workers, however many items, NVRs, retries and     *)
(* cancels there are (nextRunnable, pump, retry and run of the code).      *)
THEOREM NvrServesOne == Spec => []OneWorkerPerNvr
<1>1. QueueInv => OneWorkerPerNvr
  <2> SUFFICES ASSUME QueueInv, NEW r \in Runs, NEW q \in Runs, Live(r), Live(q),
                      host[r[1]] = host[q[1]]
               PROVE  r = q
    BY DEF OneWorkerPerNvr
  <2>1. r[1] = q[1] /\ r[2] = q[2]
    BY RunParts DEF QueueInv, Current, OneActive
  <2> QED BY <2>1, RunParts
<1> QED BY <1>1, InvInit, InvNext, PTL DEF Spec

(* No item waits for an idle NVR: every event that frees one runs pump().  *)
THEOREM NoNvrIdles == Spec => []NoIdleNvr
<1>1. QueueInv => NoIdleNvr
  BY DEF QueueInv
<1> QED BY <1>1, InvInit, InvNext, PTL DEF Spec

-----------------------------------------------------------------------------
(* An item shown as running has its worker or its result (the other half   *)
(* of RunningIsAccounted, never both and nothing for other items, is in    *)
(* QueueInv).                                                              *)
Reported(i, ps) == \E k \in 1..Len(ps) : ps[k].id = i /\ ps[k].st \in Final

Accounted ==
  ~closing => \A i \in Ids : st[i] \in Active => Live(<<i, try[i]>>) \/ Reported(i, posts)

(* pump() gives every item it turns to Preparing its worker.               *)
LEMMA PumpStarts ==
  ASSUME NEW s, NEW hs, NEW ts, pc \in [Runs -> Phases], Pump(s, hs, ts), NEW i \in Ids,
         ts[i] \in Tries
  PROVE  /\ st'[i] \in Active => s[i] \in Active \/ Live(<<i, ts[i]>>)'
         /\ \A r \in Runs : Live(r) => Live(r)'
<1>1. /\ st' = [o \in Ids |-> IF o \in Claimed(s, hs) THEN "preparing" ELSE s[o]]
      /\ pc' = [r \in Runs |-> IF \E o \in Claimed(s, hs) : r = <<o, ts[o]>> THEN "pooled" ELSE pc[r]]
  BY DEF Pump
<1>2. <<i, ts[i]>> \in Runs
  BY DEF Runs
<1>3. i \in Claimed(s, hs) => pc'[<<i, ts[i]>>] = "pooled"
  BY <1>1, <1>2
<1>4. st'[i] \in Active => s[i] \in Active \/ Live(<<i, ts[i]>>)'
  BY <1>1, <1>3 DEF Live
<1>5. \A r \in Runs : Live(r) => Live(r)'
  BY <1>1 DEF Live
<1> QED BY <1>4, <1>5

(* Nothing else is needed when pump() ends a slot.                         *)
LEMMA PumpAccounts ==
  ASSUME TypeOK, TypeOK', Accounted, closing' = closing, NEW s, NEW hs, Pump(s, hs, try'),
         \A i \in Ids : s[i] \in Active =>
           st[i] \in Active /\ try'[i] = try[i] /\ (Reported(i, posts) => Reported(i, posts'))
  PROVE  Accounted'
<1> SUFFICES ASSUME ~closing, NEW i \in Ids, st'[i] \in Active
             PROVE  pc'[<<i, try'[i]>>] # "idle" \/ Reported(i, posts')
  BY DEF Accounted, Live
<1>1. try'[i] \in Tries /\ pc \in [Runs -> Phases]
  BY DEF TypeOK
<1>2. s[i] \in Active \/ pc'[<<i, try'[i]>>] # "idle"
  BY <1>1, PumpStarts DEF Live
<1>3. CASE s[i] \in Active
  <2>1. <<i, try'[i]>> \in Runs
    BY <1>1 DEF Runs
  <2>2. Live(<<i, try[i]>>) \/ Reported(i, posts)
    BY <1>3 DEF Accounted
  <2>3. \A r \in Runs : pc[r] # "idle" => pc'[r] # "idle"
    BY <1>1, PumpStarts DEF Live
  <2> QED BY <1>3, <2>1, <2>2, <2>3 DEF Live
<1> QED BY <1>2, <1>3

LEMMA AccountedNext ==
  TypeOK /\ TypeOK' /\ QueueInv /\ Accounted /\ [Next]_vars => Accounted'
<1> SUFFICES ASSUME TypeOK, TypeOK', QueueInv, Accounted, [Next]_vars PROVE Accounted'
  OBVIOUS
<1>0. st \in [Ids -> States] /\ try \in [Ids -> Tries] /\ pc \in [Runs -> Phases]
  BY DEF TypeOK
<1>1. ASSUME NEW h \in Hosts, NEW n \in NamesOf[h], Enqueue(h, n) PROVE Accounted'
  <2> DEFINE s == [st EXCEPT ![nextId] = "queued"]
  <2>1. Pump(s, host', try') /\ closing' = closing /\ try' = try /\ posts' = posts
    BY <1>1 DEF Enqueue
  <2>2. \A i \in Ids : s[i] \in Active => st[i] \in Active
    BY <1>0 DEF Active
  <2> HIDE DEF s
  <2> QED BY <2>1, <2>2, PumpAccounts
<1>2. ASSUME NEW i \in Ids, CancelWaiting(i) PROVE Accounted'
  <2> DEFINE s == [st EXCEPT ![i] = "cancelled"]
  <2>1. Pump(s, host, try') /\ closing' = closing /\ try' = try /\ posts' = posts
    BY <1>2 DEF CancelWaiting, Update, Final
  <2>2. \A o \in Ids : s[o] \in Active => st[o] \in Active
    BY <1>0 DEF Active
  <2> HIDE DEF s
  <2> QED BY <2>1, <2>2, PumpAccounts
<1>3. ASSUME NEW i \in Ids, Retry(i) PROVE Accounted'
  <2> DEFINE s == [st EXCEPT ![i] = "queued"]
  <2>1. /\ Pump(s, host, try') /\ closing' = closing /\ posts' = posts
        /\ try' = [try EXCEPT ![i] = @ + 1]
    BY <1>3 DEF Retry
  <2>2. \A o \in Ids : s[o] \in Active => st[o] \in Active /\ o # i
    BY <1>0 DEF Active
  <2> HIDE DEF s
  <2> QED BY <1>0, <2>1, <2>2, PumpAccounts
<1>4. ASSUME NEW S, Forget(S) PROVE Accounted'
  <2>1. UNCHANGED <<try, posts, pc, closing>>
    BY <1>4 DEF Forget
  <2>2. \A i \in Ids : st'[i] \in Active => st[i] \in Active
    BY <1>4 DEF Forget, Active
  <2> QED BY <2>1, <2>2 DEF Accounted, Live
<1>5. CASE Quit
  BY <1>5 DEF Quit, Accounted
<1>6. CASE UNCHANGED <<st, try, posts, pc, closing>>
  BY <1>6 DEF Accounted, Live
<1>7. CASE Deliver
  <2> DEFINE p == Head(posts)
  <2>1. /\ posts # <<>> /\ posts' = Tail(posts) /\ Update(p.id, p.st, p.paths)
        /\ UNCHANGED <<host, try, closing>>
    BY <1>7 DEF Deliver
  <2>2. p = posts[1] /\ 1 \in 1..Len(posts) /\ p.id \in Ids
    BY <2>1, PostTypes
  <2>3. st[p.id] \in Active /\ p.st \in {"downloading"} \cup Final
    BY <2>2 DEF QueueInv, InOrder
  <2>4. ASSUME NEW i \in Ids, Reported(i, posts), i # p.id \/ p.st \notin Final
        PROVE  Reported(i, posts')
    <3>1. PICK k \in 1..Len(posts) : posts[k].id = i /\ posts[k].st \in Final
      BY <2>4 DEF Reported
    <3>2. k # 1
      BY <2>2, <2>4, <3>1
    <3>3. k - 1 \in 1..Len(posts') /\ posts'[k - 1] = posts[k]
      BY <2>1, <3>1, <3>2, PostTypes
    <3> QED BY <3>1, <3>3 DEF Reported
  <2>5. CASE p.st \in Final
    <3> DEFINE s == [st EXCEPT ![p.id] = p.st]
    <3>1. Pump(s, host, try')
      BY <2>1, <2>3, <2>5 DEF Update, Active, Final
    <3>2. \A i \in Ids : s[i] \in Active => st[i] \in Active /\ i # p.id
      BY <1>0, <2>2, <2>5 DEF Active, Final
    <3> HIDE DEF s, p
    <3> QED BY <2>1, <2>4, <3>1, <3>2, PumpAccounts
  <2>6. CASE p.st \notin Final
    <3>1. st' = [st EXCEPT ![p.id] = p.st] /\ pc' = pc
      BY <2>1, <2>3, <2>6 DEF Update, Active
    <3>2. \A i \in Ids : st'[i] \in Active => st[i] \in Active
      BY <1>0, <2>2, <2>3, <3>1
    <3> HIDE DEF p
    <3> QED BY <2>1, <2>4, <2>6, <3>1, <3>2 DEF Accounted, Live
  <2> QED BY <2>5, <2>6
<1>8. ASSUME NEW r \in Runs, Worker(r) PROVE Accounted'
  <2> USE DEF Worker, Begin, Prepared, Login, PickPath, Open, Progress, PartSaved, PartLost, Fail,
              Goto
  <2>1. UNCHANGED <<st, try, closing>> /\ \A q \in Runs \ {r} : pc'[q] = pc[q]
    BY <1>0, <1>8 DEF gui
  <2>2. posts' = posts \/ \E x : posts' = Append(posts, x)
    BY <1>8 DEF Post
  <2>3. \A i \in Ids : Reported(i, posts) => Reported(i, posts')
    <3> SUFFICES ASSUME NEW i \in Ids, NEW k \in 1..Len(posts), posts[k].id = i,
                        posts[k].st \in Final
                 PROVE  Reported(i, posts')
      BY DEF Reported
    <3>1. k \in 1..Len(posts') /\ posts'[k] = posts[k]
      BY <2>2, PostTypes
    <3> QED BY <3>1 DEF Reported
  <2>4. pc'[r] = "idle" /\ ~closing => Reported(r[1], posts')
    <3> SUFFICES ASSUME pc'[r] = "idle", ~closing PROVE Reported(r[1], posts')
      OBVIOUS
    <3>1. PICK x \in Final : \E ps : posts' = Append(posts, [id |-> r[1], st |-> x, paths |-> ps])
      BY <1>0, <1>8 DEF Post, Final
    <3>2. Len(posts) + 1 \in 1..Len(posts') /\ posts'[Len(posts) + 1].id = r[1]
          /\ posts'[Len(posts) + 1].st = x
      BY <3>1, PostTypes
    <3> QED BY <3>2 DEF Reported
  <2> SUFFICES ASSUME ~closing, NEW i \in Ids, st[i] \in Active
               PROVE  Live(<<i, try[i]>>)' \/ Reported(i, posts')
    BY <2>1 DEF Accounted, Live
  <2>5. <<i, try[i]>> \in Runs /\ <<i, try[i]>>[1] = i
    BY <1>0 DEF Runs
  <2> QED BY <2>1, <2>3, <2>4, <2>5 DEF Accounted, Live
<1> QED
  BY <1>1, <1>2, <1>3, <1>4, <1>5, <1>6, <1>7, <1>8
     DEF Next, User, CancelRunning, Remove, ClearFinished, SetFolder, vars, gui

LEMMA AccountShows == TypeOK /\ QueueInv /\ Accounted => RunningIsAccounted
<1> SUFFICES ASSUME TypeOK, QueueInv, Accounted, ~closing, NEW i \in Ids
             PROVE  IF st[i] \in Active
                      THEN \/ Live(<<i, try[i]>>) /\ ResultsOf(i) = {}
                           \/ ~Live(<<i, try[i]>>) /\ Cardinality(ResultsOf(i)) = 1
                      ELSE /\ ~Live(<<i, try[i]>>)
                           /\ \A k \in 1..Len(posts) : posts[k].id # i
  BY DEF RunningIsAccounted
<1>1. <<i, try[i]>> \in Runs /\ <<i, try[i]>>[1] = i
  BY DEF TypeOK, Runs
<1>2. CASE st[i] \notin Active
  BY <1>1, <1>2 DEF QueueInv, Current, InOrder
<1>3. CASE st[i] \in Active /\ Live(<<i, try[i]>>)
  BY <1>1, <1>3 DEF QueueInv, InOrder, ResultsOf
<1>4. CASE st[i] \in Active /\ ~Live(<<i, try[i]>>)
  <2>1. PICK k \in ResultsOf(i) : TRUE
    BY <1>4 DEF Accounted, Reported, ResultsOf
  <2>2. ASSUME NEW l \in ResultsOf(i) PROVE l = k
    <3>1. k \in 1..Len(posts) /\ l \in 1..Len(posts) /\ posts[k].id = posts[l].id
      BY DEF ResultsOf
    <3>2. ~(k < l) /\ ~(l < k)
      BY <3>1 DEF QueueInv, InOrder, ResultsOf
    <3> QED BY <3>1, <3>2
  <2>3. ResultsOf(i) = {k}
    BY <2>1, <2>2
  <2>4. Cardinality({k}) = 1
    BY FS_Singleton
  <2> QED BY <1>4, <2>3, <2>4
<1> QED BY <1>2, <1>3, <1>4

(* An item shown as running has its worker or exactly one result waiting   *)
(* to be delivered, and no other item has either (pump, run, update).      *)
THEOREM RunningAccounted == Spec => []RunningIsAccounted
<1>1. Init => Accounted
  BY DEF Init, Accounted, Active
<1>2. TypeOK /\ QueueInv /\ PathPicked /\ Accounted /\ [Next]_vars
        => (TypeOK /\ QueueInv /\ PathPicked /\ Accounted)'
  BY InvNext, AccountedNext
<1> QED BY <1>1, <1>2, InvInit, AccountShows, PTL DEF Spec

-----------------------------------------------------------------------------
(* The queue implements NvrSlots                                           *)

(* What NvrSlots sees, for item states s, hosts hs and workers p.          *)
WaitingIn(s, hs) == {<<i, hs[i]>> : i \in {k \in Ids : s[k] = "queued"}}
ServingIn(p, hs) == {<<r[1], hs[r[1]]>> : r \in {q \in Runs : p[q] # "idle"}}
Requested(S, hs) == {<<i, hs[i]>> : i \in S}

LEMMA SlotsSeen == Waiting = WaitingIn(st, host) /\ Serving = ServingIn(pc, host)
BY DEF Waiting, Serving, WaitingIn, ServingIn, Live

LEMMA SlotsSeenNext == Waiting' = WaitingIn(st', host') /\ Serving' = ServingIn(pc', host')
BY DEF Waiting, Serving, WaitingIn, ServingIn, Live

(* pump() serves what it claims.                                           *)
LEMMA PumpServes ==
  ASSUME NEW s, NEW hs, NEW ts, pc \in [Runs -> Phases],
         \A i \in Ids : ts[i] \in Tries, Pump(s, hs, ts)
  PROVE  /\ WaitingIn(st', hs) = WaitingIn(s, hs) \ Requested(Claimed(s, hs), hs)
         /\ ServingIn(pc', hs) = ServingIn(pc, hs) \cup Requested(Claimed(s, hs), hs)
<1> DEFINE C == Claimed(s, hs)
<1>1. /\ st' = [o \in Ids |-> IF o \in C THEN "preparing" ELSE s[o]]
      /\ pc' = [r \in Runs |-> IF \E o \in C : r = <<o, ts[o]>> THEN "pooled" ELSE pc[r]]
  BY DEF Pump
<1>2. \A i \in C : i \in Ids /\ s[i] = "queued" /\ <<i, ts[i]>> \in Runs
  BY DEF Claimed, Runs
<1> HIDE DEF C
<1>3. \A i \in Ids : st'[i] = "queued" <=> s[i] = "queued" /\ i \notin C
  BY <1>1
<1>4. WaitingIn(st', hs) = WaitingIn(s, hs) \ Requested(C, hs)
  BY <1>2, <1>3 DEF WaitingIn, Requested
<1>5. \A r \in Runs : pc'[r] # "idle" <=> pc[r] # "idle" \/ \E o \in C : r = <<o, ts[o]>>
  BY <1>1
<1>6. ASSUME NEW e \in ServingIn(pc', hs) PROVE e \in ServingIn(pc, hs) \cup Requested(C, hs)
  <2>1. PICK r \in Runs : pc'[r] # "idle" /\ e = <<r[1], hs[r[1]]>>
    BY DEF ServingIn
  <2>2. CASE pc[r] # "idle"
    BY <2>1, <2>2 DEF ServingIn
  <2>3. CASE \E o \in C : r = <<o, ts[o]>>
    BY <2>1, <2>3 DEF Requested
  <2> QED BY <1>5, <2>1, <2>2, <2>3
<1>7. ASSUME NEW e \in ServingIn(pc, hs) \cup Requested(C, hs) PROVE e \in ServingIn(pc', hs)
  <2>1. CASE e \in ServingIn(pc, hs)
    BY <1>5, <2>1 DEF ServingIn
  <2>2. CASE e \in Requested(C, hs)
    <3>1. PICK o \in C : e = <<o, hs[o]>>
      BY <2>2 DEF Requested
    <3>2. <<o, ts[o]>> \in Runs /\ pc'[<<o, ts[o]>>] # "idle"
      BY <1>2, <1>5
    <3>3. PICK r \in Runs : r = <<o, ts[o]>>
      BY <3>2
    <3> QED BY <3>1, <3>2, <3>3 DEF ServingIn
  <2> QED BY <2>1, <2>2
<1> QED BY <1>4, <1>6, <1>7 DEF C

(* An item in the list has its NVR.                                        *)
HostKnown == \A i \in Ids : st[i] # "absent" => host[i] \in Hosts

LEMMA HostKnownNext == TypeOK /\ QueueInv /\ HostKnown /\ [Next]_vars => HostKnown'
<1> SUFFICES ASSUME TypeOK, QueueInv, HostKnown, [Next]_vars PROVE HostKnown'
  OBVIOUS
<1>0. /\ st \in [Ids -> States] /\ host \in [Ids -> Hosts \cup {NoHost}]
      /\ \A k \in 1..Len(posts) : posts[k].id \in Ids
  BY PostTypes DEF TypeOK
<1>1. ASSUME NEW s, NEW hs, NEW ts, Pump(s, hs, ts), NEW i \in Ids, st'[i] # "absent"
      PROVE  s[i] # "absent"
  BY <1>1 DEF Pump, Claimed
<1>2. ASSUME NEW h \in Hosts, NEW n \in NamesOf[h], Enqueue(h, n) PROVE HostKnown'
  <2> DEFINE s == [st EXCEPT ![nextId] = "queued"]
  <2>1. Pump(s, host', try') /\ nextId \in Ids /\ host' = [host EXCEPT ![nextId] = h]
    BY <1>2 DEF Enqueue
  <2>2. \A i \in Ids : s[i] # "absent" => i = nextId \/ st[i] # "absent"
    BY <1>0
  <2> HIDE DEF s
  <2>3. \A i \in Ids : st'[i] # "absent" => i = nextId \/ st[i] # "absent"
    BY <1>1, <2>1, <2>2
  <2> QED BY <1>0, <2>1, <2>3 DEF HostKnown
<1>3. ASSUME NEW k \in Ids, NEW x, NEW t, Pump([st EXCEPT ![k] = x], host, t) \/ st' = [st EXCEPT ![k] = x],
             st[k] # "absent", host' = host
      PROVE  HostKnown'
  <2> DEFINE s == [st EXCEPT ![k] = x]
  <2>1. \A o \in Ids : s[o] # "absent" => st[o] # "absent"
    BY <1>0, <1>3
  <2>2. Pump(s, host, t) \/ st' = s
    BY <1>3
  <2> HIDE DEF s
  <2>3. \A o \in Ids : st'[o] # "absent" => st[o] # "absent"
    BY <1>1, <2>1, <2>2
  <2> QED BY <1>3, <2>3 DEF HostKnown
<1>8. ASSUME NEW k \in Ids, NEW x, NEW ps, Update(k, x, ps), host' = host PROVE HostKnown'
  <2>1. CASE st[k] = "absent"
    BY <1>8, <2>1 DEF Update, HostKnown
  <2>2. CASE st[k] # "absent"
    <3>1. Pump([st EXCEPT ![k] = x], host, try) \/ st' = [st EXCEPT ![k] = x]
      BY <1>8, <2>2 DEF Update
    <3> QED BY <1>3, <1>8, <2>2, <3>1
  <2> QED BY <2>1, <2>2
<1>9. ASSUME NEW i \in Ids, CancelWaiting(i) PROVE HostKnown'
  BY <1>8, <1>9 DEF CancelWaiting
<1>10. ASSUME NEW i \in Ids, Retry(i) PROVE HostKnown'
  <2>1. Pump([st EXCEPT ![i] = "queued"], host, try') /\ st[i] # "absent" /\ host' = host
    BY <1>10 DEF Retry
  <2> QED BY <1>3, <2>1
<1>11. CASE Deliver
  <2>1. Head(posts).id \in Ids
    BY <1>0, <1>11, PostTypes DEF Deliver
  <2> QED BY <1>8, <1>11, <2>1 DEF Deliver
<1>4. ASSUME NEW S, Forget(S) PROVE HostKnown'
  BY <1>4 DEF Forget, HostKnown
<1>5. CASE UNCHANGED <<st, host>>
  BY <1>5 DEF HostKnown
<1>6. ASSUME NEW r \in Runs, Worker(r) PROVE UNCHANGED <<st, host>>
  BY <1>6 DEF Worker, Begin, Prepared, Login, PickPath, Open, Progress, PartSaved, PartLost, Fail, gui
<1> QED
  BY <1>2, <1>4, <1>5, <1>6, <1>9, <1>10, <1>11
     DEF Next, User, CancelRunning, Remove, ClearFinished, SetFolder, Quit, vars, gui

(* An NVR that is not busy is free, and nothing waits for it.              *)
LEMMA IdleIsFree ==
  ASSUME QueueInv, NEW h, ~Busy(st, host, h)
  PROVE  \A e \in Waiting \cup Serving : e[2] # h
<1>1. \A i \in Ids : st[i] = "queued" => host[i] # h
  BY DEF QueueInv, NoIdleNvr
<1>2. \A r \in Runs : Live(r) => host[r[1]] # h
  BY RunParts DEF QueueInv, Current, Busy
<1> QED BY <1>1, <1>2 DEF Waiting, Serving

(* enqueue() and retry(): the item waits, or starts at once.               *)
LEMMA SubmitStep ==
  ASSUME TypeOK, TypeOK', QueueInv, NEW i \in Ids, NEW h \in Hosts, st[i] \notin {"queued"} \cup Active,
         Pump([st EXCEPT ![i] = "queued"], host', try'), host'[i] = h,
         \A o \in Ids \ {i} : host'[o] = host[o]
  PROVE  Slots!Next
<1> DEFINE s == [st EXCEPT ![i] = "queued"]
           e == <<i, h>>
           C == Claimed(s, host')
<1>1. /\ st \in [Ids -> States] /\ pc \in [Runs -> Phases]
      /\ \A o \in Ids : try'[o] \in Tries
  BY DEF TypeOK
<1>2. /\ s[i] = "queued" /\ \A o \in Ids \ {i} : s[o] = st[o]
      /\ \A o \in Ids : s[o] \in Active <=> st[o] \in Active
  BY <1>1 DEF Active
<1>3. /\ Waiting' = WaitingIn(s, host') \ Requested(C, host')
      /\ Serving' = ServingIn(pc, host') \cup Requested(C, host')
  BY <1>1, SlotsSeenNext, PumpServes
<1>4. WaitingIn(s, host') = Waiting \cup {e}
  <2> HIDE DEF s
  <2> QED BY <1>2 DEF WaitingIn, Waiting
<1>5. ServingIn(pc, host') = Serving
  <2>1. \A r \in Runs : Live(r) => host'[r[1]] = host[r[1]]
    BY RunParts DEF QueueInv, Current
  <2> QED BY <2>1 DEF ServingIn, Serving, Live
<1>6. e \notin Waiting \cup Serving
  BY DEF Waiting, Serving, QueueInv, Current
<1>7. ASSUME NEW o \in C PROVE o = i
  <2>1. SUFFICES ASSUME o # i PROVE FALSE
    OBVIOUS
  <2>2. o \in Ids /\ st[o] = "queued" /\ ~Busy(s, host', host'[o]) /\ host'[o] = host[o]
    BY <1>2, <2>1 DEF Claimed
  <2>3. PICK k \in Ids : host[k] = host[o] /\ st[k] \in Active
    BY <2>2 DEF QueueInv, NoIdleNvr, Busy
  <2>4. k # i
    BY <2>3
  <2> HIDE DEF s
  <2> QED BY <1>2, <2>2, <2>3, <2>4 DEF Busy
<1>8. CASE C = {}
  <2>1. Requested(C, host') = {}
    BY <1>8 DEF Requested
  <2> HIDE DEF C, s
  <2>2. Waiting' = Waiting \cup {e} /\ Serving' = Serving
    BY <1>3, <1>4, <1>5, <2>1
  <2> QED BY <1>6, <2>2 DEF Slots!Next, Slots!Submit, Slots!Requests
<1>9. CASE i \in C
  <2>1. Requested(C, host') = {e}
    BY <1>7, <1>9 DEF Requested
  <2>2. ~Busy(st, host, h)
    <3>1. SUFFICES ASSUME NEW k \in Ids, host[k] = h, st[k] \in Active PROVE FALSE
      BY DEF Busy
    <3>2. k # i
      BY <3>1
    <3>3. ~Busy(s, host', h)
      BY <1>9 DEF Claimed
    <3> HIDE DEF s
    <3> QED BY <1>2, <3>1, <3>2, <3>3 DEF Busy
  <2>3. \A q \in Waiting \cup Serving : q[2] # h
    BY <2>2, IdleIsFree
  <2> HIDE DEF C, s
  <2>4. Waiting' = Waiting /\ Serving' = Serving \cup {e}
    BY <1>3, <1>4, <1>5, <1>6, <2>1
  <2>5. Slots!Submit(e)
    BY <1>6, <2>3, <2>4 DEF Slots!Submit, Slots!Free, Slots!Oldest
  <2>6. e \in Slots!Requests
    BY DEF Slots!Requests
  <2> QED BY <2>5, <2>6 DEF Slots!Next
<1> QED BY <1>7, <1>8, <1>9

(* cancel() of a waiting item: the other items of its NVR go on waiting.   *)
LEMMA WithdrawStep ==
  ASSUME TypeOK, QueueInv, HostKnown, NEW i \in Ids, CancelWaiting(i)
  PROVE  Slots!Next
<1> DEFINE s == [st EXCEPT ![i] = "cancelled"]
           e == <<i, host[i]>>
           C == Claimed(s, host)
<1>1. /\ st \in [Ids -> States] /\ pc \in [Runs -> Phases]
      /\ \A o \in Ids : try[o] \in Tries
  BY DEF TypeOK
<1>2. Pump(s, host, try) /\ host' = host /\ st[i] = "queued"
  BY DEF CancelWaiting, Update, Final
<1>3. s[i] = "cancelled" /\ \A o \in Ids \ {i} : s[o] = st[o]
  BY <1>1
<1>4. /\ Waiting' = WaitingIn(s, host) \ Requested(C, host)
      /\ Serving' = ServingIn(pc, host) \cup Requested(C, host)
  BY <1>1, <1>2, SlotsSeenNext, PumpServes
<1>5. ASSUME NEW o \in C PROVE FALSE
  <2>1. o \in Ids /\ o # i /\ st[o] = "queued" /\ ~Busy(s, host, host[o])
    BY <1>3 DEF Claimed
  <2>2. PICK k \in Ids : host[k] = host[o] /\ st[k] \in Active
    BY <2>1 DEF QueueInv, NoIdleNvr, Busy
  <2>3. k # i
    BY <1>2, <2>2 DEF Active
  <2> HIDE DEF s
  <2> QED BY <1>3, <2>1, <2>2, <2>3 DEF Busy
<1>6. Requested(C, host) = {}
  BY <1>5 DEF Requested
<1> HIDE DEF s, C
<1>7. WaitingIn(s, host) = Waiting \ {e}
  BY <1>3 DEF WaitingIn, Waiting
<1>8. Waiting' = Waiting \ {e} /\ Serving' = Serving
  BY <1>4, <1>6, <1>7, SlotsSeen
<1>9. e \in Waiting /\ e \in Slots!Requests
  BY <1>2 DEF Waiting, HostKnown, Slots!Requests
<1> QED BY <1>8, <1>9 DEF Slots!Next, Slots!Withdraw

(* A delivered result leaves the NVR to its oldest waiting item.           *)
LEMMA ServeStep ==
  ASSUME TypeOK, QueueInv, HostKnown, Deliver
  PROVE  Slots!Next \/ UNCHANGED <<Waiting, Serving>>
<1>1. PICK i \in Ids : /\ i = Head(posts).id /\ i = posts[1].id /\ 1 \in 1..Len(posts)
  BY PostTypes DEF Deliver
<1>2. PICK x : x = posts[1].st /\ x = Head(posts).st
  BY <1>1, PostTypes DEF Deliver
<1>3. /\ st \in [Ids -> States] /\ pc \in [Runs -> Phases]
      /\ \A o \in Ids : try[o] \in Tries
  BY DEF TypeOK
<1>4. st[i] \in Active /\ x \in {"downloading"} \cup Final
  BY <1>1, <1>2 DEF QueueInv, InOrder
<1>5. host' = host /\ \E ps : Update(i, x, ps)
  BY <1>1, <1>2 DEF Deliver
<1> DEFINE s == [st EXCEPT ![i] = x]
<1>6. \A o \in Ids \ {i} : s[o] = st[o]
  BY <1>3
<1>7. s[i] = x /\ x # "queued" /\ st[i] # "queued" /\ st[i] # "absent" /\ st[i] \notin Final
  BY <1>3, <1>4 DEF Active, Final
<1>8. CASE x \notin Final
  <2>1. st' = s /\ pc' = pc
    BY <1>5, <1>7, <1>8 DEF Update
  <2> HIDE DEF s
  <2>2. WaitingIn(st', host) = WaitingIn(st, host)
    BY <1>6, <1>7, <2>1 DEF WaitingIn
  <2> QED BY <1>5, <2>1, <2>2, SlotsSeen, SlotsSeenNext
<1>9. CASE x \in Final
  <2> DEFINE C == Claimed(s, host)
  <2>1. Pump(s, host, try)
    BY <1>5, <1>7, <1>9 DEF Update
  <2>2. /\ Waiting' = WaitingIn(s, host) \ Requested(C, host)
        /\ Serving' = ServingIn(pc, host) \cup Requested(C, host)
    BY <1>3, <1>5, <2>1, SlotsSeenNext, PumpServes
  <2>3. ASSUME NEW o \in C PROVE o \in Ids /\ st[o] = "queued" /\ host[o] = host[i]
    <3>1. o \in Ids /\ s[o] = "queued" /\ ~Busy(s, host, host[o])
      BY DEF Claimed
    <3> HIDE DEF s, C
    <3>2. o # i /\ st[o] = "queued"
      BY <1>6, <1>7, <3>1
    <3>3. PICK k \in Ids : host[k] = host[o] /\ st[k] \in Active
      BY <3>1, <3>2 DEF QueueInv, NoIdleNvr, Busy
    <3>4. k = i
      BY <1>6, <3>1, <3>3 DEF Busy
    <3> QED BY <3>1, <3>2, <3>3, <3>4
  <2>4. WaitingIn(s, host) = Waiting /\ ServingIn(pc, host) = Serving
    <3> HIDE DEF s
    <3>1. WaitingIn(s, host) = WaitingIn(st, host)
      BY <1>6, <1>7 DEF WaitingIn
    <3> QED BY <3>1, SlotsSeen
  <2>5. CASE C = {}
    <3>1. Requested(C, host) = {}
      BY <2>5 DEF Requested
    <3> QED BY <2>2, <2>4, <3>1
  <2>6. ASSUME NEW o \in C PROVE Slots!Next
    <3> DEFINE e == <<o, host[o]>>
    <3>1. C = {o}
      BY <2>3, <2>6, ClaimedApart
    <3>2. Requested(C, host) = {e}
      BY <3>1 DEF Requested
    <3>3. o \in Ids /\ st[o] = "queued" /\ host[o] = host[i]
      BY <2>3, <2>6
    <3>4. \A k \in 1..(o - 1) : ~(host[k] = host[o] /\ s[k] = "queued")
      BY <2>6 DEF Claimed
    <3> HIDE DEF s, C
    <3>5. Waiting' = Waiting \ {e} /\ Serving' = Serving \cup {e}
      BY <2>2, <2>4, <3>2
    <3>6. e \in Waiting /\ e \in Slots!Requests
      BY <3>3 DEF Waiting, HostKnown, Slots!Requests
    <3>7. \A q \in Serving : q[2] # host[o]
      <4>1. SUFFICES ASSUME NEW r \in Runs, Live(r), host[r[1]] = host[i] PROVE FALSE
        BY <3>3 DEF Serving
      <4>2. r[1] = i
        BY <1>4, <4>1, RunParts DEF QueueInv, Current, OneActive
      <4> QED BY <1>1, <1>2, <1>9, <4>1, <4>2 DEF QueueInv, InOrder
    <3>8. \A q \in Waiting : q[2] = host[o] => o <= q[1]
      <4>1. SUFFICES ASSUME NEW k \in Ids, st[k] = "queued", host[k] = host[o] PROVE o <= k
        BY DEF Waiting
      <4>2. s[k] = "queued"
        BY <1>6, <1>7, <4>1
      <4>3. k \notin 1..(o - 1)
        BY <3>4, <4>1, <4>2
      <4> QED BY <3>3, <4>1, <4>3, Bounds DEF Ids
    <3>9. Slots!Serve(e)
      BY <3>5, <3>6, <3>7, <3>8 DEF Slots!Serve, Slots!Free, Slots!Oldest
    <3> QED BY <3>6, <3>9 DEF Slots!Next
  <2> QED BY <2>5, <2>6
<1> QED BY <1>8, <1>9

(* run() ends: the NVR is done with the item; its other steps show nothing.*)
LEMMA CompleteStep ==
  ASSUME TypeOK, QueueInv, HostKnown, NEW r \in Runs, Worker(r)
  PROVE  Slots!Next \/ UNCHANGED <<Waiting, Serving>>
<1> DEFINE e == <<r[1], host[r[1]]>>
<1>0. pc \in [Runs -> Phases]
  BY DEF TypeOK
<1>1. /\ UNCHANGED <<st, host>> /\ Live(r) /\ \A q \in Runs \ {r} : pc'[q] = pc[q]
  BY <1>0 DEF Worker, Begin, Prepared, Login, PickPath, Open, Progress, PartSaved, PartLost, Fail,
              Goto, gui, Live
<1>2. Waiting' = Waiting
  BY <1>1, SlotsSeen, SlotsSeenNext
<1>3. CASE pc'[r] # "idle"
  <2>1. \A q \in Runs : pc'[q] # "idle" <=> pc[q] # "idle"
    BY <1>1, <1>3 DEF Live
  <2>2. ServingIn(pc', host) = ServingIn(pc, host)
    BY <2>1 DEF ServingIn
  <2> QED BY <1>1, <1>2, <2>2, SlotsSeen, SlotsSeenNext
<1>4. CASE pc'[r] = "idle"
  <2>1. \A q \in Runs : pc'[q] # "idle" <=> pc[q] # "idle" /\ q # r
    BY <1>1, <1>4 DEF Live
  <2>2. \A q \in Runs : Live(q) /\ q[1] = r[1] => q = r
    <3>1. SUFFICES ASSUME NEW q \in Runs, Live(q), q[1] = r[1] PROVE q = r
      OBVIOUS
    <3>2. q[2] = r[2]
      BY <1>1, <3>1 DEF QueueInv, Current
    <3> QED BY <3>1, <3>2, RunParts
  <2>3. ServingIn(pc', host) = ServingIn(pc, host) \ {e}
    <3>1. \A q \in Runs : pc[q] # "idle" /\ q # r => q[1] # r[1]
      BY <2>2 DEF Live
    <3> QED BY <2>1, <3>1 DEF ServingIn
  <2>4. e \in Serving
    BY <1>1 DEF Serving
  <2>5. st[r[1]] # "absent" /\ r[1] \in Ids
    BY <1>1, RunParts DEF QueueInv, Current, Active
  <2>6. e \in Slots!Requests
    BY <2>5 DEF HostKnown, Slots!Requests
  <2>7. Slots!Complete(e)
    BY <1>1, <1>2, <2>3, <2>4, SlotsSeen, SlotsSeenNext DEF Slots!Complete
  <2> QED BY <2>6, <2>7 DEF Slots!Next
<1> QED BY <1>3, <1>4

(* remove() and clearFinished() touch nothing that waits or is served.     *)
LEMMA ForgetShowsNothing ==
  ASSUME TypeOK, QueueInv, NEW S \in SUBSET Ids, \A i \in S : st[i] \in Final, Forget(S)
  PROVE  UNCHANGED <<Waiting, Serving>>
<1>1. \A i \in S : st[i] # "queued" /\ st[i] \notin Active
  BY DEF Final, Active
<1>2. \A i \in Ids : /\ st'[i] = "queued" <=> st[i] = "queued"
                     /\ i \notin S => host'[i] = host[i]
  BY <1>1 DEF Forget
<1>3. WaitingIn(st', host') = WaitingIn(st, host)
  BY <1>1, <1>2 DEF WaitingIn
<1>4. pc' = pc /\ \A r \in Runs : Live(r) => host'[r[1]] = host[r[1]]
  BY <1>1, <1>2, RunParts DEF Forget, QueueInv, Current
<1>5. ServingIn(pc', host') = ServingIn(pc, host)
  BY <1>4 DEF ServingIn, Live
<1> QED BY <1>3, <1>5, SlotsSeen, SlotsSeenNext

LEMMA SlotsStep ==
  TypeOK /\ TypeOK' /\ QueueInv /\ HostKnown /\ [Next]_vars
    => [Slots!Next]_<<Waiting, Serving>>
<1> SUFFICES ASSUME TypeOK, TypeOK', QueueInv, HostKnown, [Next]_vars
             PROVE  Slots!Next \/ UNCHANGED <<Waiting, Serving>>
  OBVIOUS
<1>0. host \in [Ids -> Hosts \cup {NoHost}]
  BY DEF TypeOK
<1>1. ASSUME NEW h \in Hosts, NEW n \in NamesOf[h], Enqueue(h, n) PROVE Slots!Next
  <2>1. /\ nextId \in Ids /\ Pump([st EXCEPT ![nextId] = "queued"], host', try')
        /\ host' = [host EXCEPT ![nextId] = h]
    BY <1>1 DEF Enqueue
  <2>2. st[nextId] \notin {"queued"} \cup Active
    BY <2>1, Bounds DEF QueueInv, ListedItems, Active, Ids
  <2>3. host'[nextId] = h /\ \A o \in Ids \ {nextId} : host'[o] = host[o]
    BY <1>0, <2>1
  <2> QED BY <2>1, <2>2, <2>3, SubmitStep
<1>2. ASSUME NEW i \in Ids, Retry(i) PROVE Slots!Next
  <2>1. /\ st[i] \in {"failed", "cancelled"} /\ Pump([st EXCEPT ![i] = "queued"], host', try')
        /\ host' = host
    BY <1>2 DEF Retry
  <2>2. st[i] \notin {"queued"} \cup Active /\ host[i] \in Hosts
    BY <2>1 DEF Active, HostKnown
  <2>3. PICK h \in Hosts : host'[i] = h
    BY <2>1, <2>2
  <2> QED BY <2>1, <2>2, <2>3, SubmitStep
<1>3. ASSUME NEW i \in Ids, CancelWaiting(i) PROVE Slots!Next
  BY <1>3, WithdrawStep
<1>4. CASE Deliver
  BY <1>4, ServeStep
<1>5. ASSUME NEW r \in Runs, Worker(r) PROVE Slots!Next \/ UNCHANGED <<Waiting, Serving>>
  BY <1>5, CompleteStep
<1>6. ASSUME NEW i \in Ids, Remove(i) PROVE UNCHANGED <<Waiting, Serving>>
  BY <1>6, ForgetShowsNothing DEF Remove
<1>7. CASE ClearFinished
  BY <1>7, ForgetShowsNothing DEF ClearFinished
<1>8. CASE UNCHANGED <<st, host, pc>>
  BY <1>8, SlotsSeen, SlotsSeenNext
<1> QED
  BY <1>1, <1>2, <1>3, <1>4, <1>5, <1>6, <1>7, <1>8
     DEF Next, User, CancelRunning, SetFolder, Quit, vars, gui

(* The queue implements NvrSlots: one request at a time for each NVR, and  *)
(* the oldest waiting one next, whatever enqueue(), cancel(), retry(),     *)
(* update() and the workers do in whatever order.                          *)
THEOREM ImplementsSlots == Spec => ServesInOrder
<1>1. Init => Slots!Init /\ HostKnown
  <2> SUFFICES ASSUME Init PROVE Slots!Init /\ HostKnown
    OBVIOUS
  <2> QED BY DEF Init, Slots!Init, Waiting, Serving, Live, HostKnown
<1>2. TypeOK /\ QueueInv /\ PathPicked /\ HostKnown /\ [Next]_vars
        => (TypeOK /\ QueueInv /\ PathPicked /\ HostKnown)'
  BY InvNext, HostKnownNext
<1>3. TypeOK /\ TypeOK' /\ QueueInv /\ HostKnown /\ [Next]_vars
        => [Slots!Next]_<<Waiting, Serving>>
  BY SlotsStep
<1> QED BY <1>1, <1>2, <1>3, InvInit, PTL DEF Spec, ServesInOrder, Slots!Spec

-----------------------------------------------------------------------------
(* The files: what is on disk agrees with the list, if no two NVRs share a *)
(* name and no name runs out of numbers.  The last theorem, on what can be *)
(* overwritten, needs neither.                                             *)

(* No two NVRs have clips of the same name: the name starts with the site. *)
NamesApart == \A g, h \in Hosts : g # h => NamesOf[g] \cap NamesOf[h] = {}

(* uniquePath() has a number for each item.                                *)
EnoughNames == MaxItems <= MaxCopies

-----------------------------------------------------------------------------
(* The inductive invariant                                                 *)

(* An item in the list has a name of its NVR.                              *)
NameKnown == \A i \in Ids : st[i] # "absent" => host[i] \in Hosts /\ name[i] \in NamesOf[host[i]]

Slot(j)       == IF j.parts > 1 THEN j.part ELSE 0
Earlier(l, j) == IF l \in {"open", "transfer"} THEN j.made \ {j.path} ELSE j.made

(* The files of an attempt r of an item named n that is at l with locals   *)
(* j, on disk d: a picked path does not exist until r creates it, the      *)
(* earlier parts are there, whole, and each has its own part number.       *)
OwnFiles(r, l, j, n, d) ==
  /\ l \in {"pooled", "prepare"} => j.made = {}
  /\ l \in {"open", "transfer"} => j.path \in j.made /\ j.path[3] = Slot(j)
  /\ l = "open" => j.path \notin DOMAIN d
  /\ l = "transfer" => j.path \in DOMAIN d /\ d[j.path].by = r
  /\ \A p \in j.made : p[2] = n
  /\ \A p \in Earlier(l, j) : /\ p \in DOMAIN d /\ d[p].by = r /\ d[p].whole
                              /\ l = "fail" \/ (j.parts > 1 /\ p[3] < j.part)

Locals == \A r \in Runs : Live(r) => OwnFiles(r, pc[r], job[r], name[r[1]], disk)

Arriving(i, ps) == \E k \in 1..Len(ps) : ps[k].id = i /\ ps[k].st = "done"

(* An attempt that has ended and left files was the last one of its item,  *)
(* and it was saved: the list says so, or will, or nobody looks any more.  *)
Ended(r) ==
  /\ r[2] = try[r[1]]
  /\ \/ st[r[1]] \in {"done", "absent"}
     \/ st[r[1]] \in Active /\ (closing \/ Arriving(r[1], posts))

Owners ==
  \A p \in DOMAIN disk :
    /\ disk[p].by[1] < nextId
    /\ Live(disk[p].by) => p \in job[disk[p].by].made
    /\ ~Live(disk[p].by) => disk[p].whole /\ Ended(disk[p].by)

Full(S, r, d) == S # {} /\ \A p \in S : p \in DOMAIN d /\ d[p] = [by |-> r, whole |-> TRUE]

Arrivals ==
  \A k \in 1..Len(posts) :
    posts[k].st = "done" => Full(posts[k].paths, <<posts[k].id, try[posts[k].id]>>, disk)

(* No attempt has two files that differ only in folder or copy number.     *)
OneCopy(d) ==
  \A p, q \in DOMAIN d : p[1] = q[1] /\ p[3] = q[3] /\ d[p].by = d[q].by => p = q

(* With NamesApart no name is shared, so this is SavedFilesExist.          *)
AllSaved ==
  \A i \in Ids : st[i] = "done" =>
    /\ saved[i] # {}
    /\ \A p \in saved[i] : p \in DOMAIN disk /\ disk[p] = [by |-> <<i, try[i]>>, whole |-> TRUE]

FilesInv == NameKnown /\ Locals /\ Owners /\ Arrivals /\ AllSaved /\ OneCopy(disk)

-----------------------------------------------------------------------------
LEMMA DiskIs ==
  ASSUME TypeOK
  PROVE  \A p \in DOMAIN disk : /\ p \in Paths /\ disk[p].by \in Runs /\ disk[p].whole \in BOOLEAN
                                /\ disk[p].by[1] \in Ids
                                /\ disk[p] = [by |-> disk[p].by, whole |-> disk[p].whole]
<1>1. \A p \in DOMAIN disk : p \in Paths /\ disk[p] \in [by : Runs, whole : BOOLEAN]
  BY DEF TypeOK
<1> QED BY <1>1, RunParts

LEMMA PathParts ==
  ASSUME NEW p \in Paths, NEW q \in Paths, p[1] = q[1], p[2] = q[2], p[3] = q[3], p[4] = q[4]
  PROVE  p = q
BY DEF Paths

(* The attempts of two items never work on files of the same name.         *)
LEMMA NamesDiffer ==
  ASSUME QueueInv, NameKnown, NamesApart, NEW r \in Runs, NEW q \in Runs,
         Live(r), Live(q), r # q
  PROVE  name[r[1]] # name[q[1]]
<1>1. /\ r[1] \in Ids /\ st[r[1]] \in Active /\ r[2] = try[r[1]]
      /\ q[1] \in Ids /\ st[q[1]] \in Active /\ q[2] = try[q[1]]
  BY RunParts DEF QueueInv, Current
<1>2. r[1] # q[1]
  BY <1>1, RunParts
<1>3. host[r[1]] # host[q[1]]
  BY <1>1, <1>2 DEF QueueInv, OneActive
<1>4. /\ host[r[1]] \in Hosts /\ name[r[1]] \in NamesOf[host[r[1]]]
      /\ host[q[1]] \in Hosts /\ name[q[1]] \in NamesOf[host[q[1]]]
  BY <1>1 DEF NameKnown, Active
<1> QED BY <1>3, <1>4 DEF NamesApart

(* uniquePath() finds a free path: each taken number has an item of its    *)
(* own, and the item itself has none for this part yet.                    *)
LEMMA FreePath ==
  ASSUME TypeOK, QueueInv, FilesInv, EnoughNames, NEW r \in Runs, pc[r] = "name"
  PROVE  /\ UniquePath(r) \notin DOMAIN disk
         /\ UniquePath(r)[2] = name[r[1]] /\ UniquePath(r)[3] = Slot(job[r])
<1> DEFINE at(n) == <<job[r].dir, name[r[1]], IF job[r].parts > 1 THEN job[r].part ELSE 0, n>>
           free == {n \in 1..MaxCopies : at(n) \notin DOMAIN disk}
           first == CHOOSE n \in free : \A m \in free : n <= m
           f == [n \in 1..MaxCopies |-> disk[at(n)].by[1]]
<1>1. /\ Live(r) /\ r[1] \in Ids /\ OwnFiles(r, "name", job[r], name[r[1]], disk)
      /\ r[2] = try[r[1]]
  BY RunParts DEF Live, FilesInv, Locals, QueueInv, Current
<1>2. job[r].parts \in 1..MaxParts /\ job[r].part \in 1..MaxParts
  BY DEF TypeOK
<1>3. ASSUME NEW n \in 1..MaxCopies, at(n) \in DOMAIN disk PROVE disk[at(n)].by # r
  <2>1. SUFFICES ASSUME disk[at(n)].by = r PROVE FALSE
    OBVIOUS
  <2>2. at(n) \in job[r].made
    BY <1>1, <1>3, <2>1 DEF FilesInv, Owners
  <2>3. job[r].parts > 1 /\ at(n)[3] < job[r].part
    BY <1>1, <2>2 DEF OwnFiles, Earlier
  <2> QED BY <1>2, <2>3, Bounds
<1>4. ASSUME NEW p \in DOMAIN disk PROVE disk[p].by[2] = try[disk[p].by[1]]
  BY DiskIs DEF FilesInv, Owners, Ended, QueueInv, Current
<1>5. free # {}
  <2>1. SUFFICES ASSUME \A n \in 1..MaxCopies : at(n) \in DOMAIN disk PROVE FALSE
    OBVIOUS
  <2> HIDE DEF at
  <2>2. ASSUME NEW n \in 1..MaxCopies PROVE f[n] \in Ids \ {r[1]}
    <3>1. disk[at(n)].by \in Runs /\ disk[at(n)].by[1] \in Ids
      BY <2>1, DiskIs
    <3>2. disk[at(n)].by # r
      BY <1>3, <2>1
    <3>3. disk[at(n)].by[1] # r[1]
      BY <1>1, <1>4, <2>1, <3>1, <3>2, RunParts
    <3> QED BY <3>1, <3>3
  <2>3. f \in [1..MaxCopies -> Ids \ {r[1]}]
    BY <2>2
  <2>4. /\ IsFiniteSet(1..MaxCopies) /\ Cardinality(1..MaxCopies) = MaxCopies
        /\ IsFiniteSet(Ids) /\ Cardinality(Ids) = MaxItems
    <3>1. MaxCopies \in Int /\ MaxItems \in Int /\ 1 \in Int /\ ~(1 > MaxCopies) /\ ~(1 > MaxItems)
      BY Bounds
    <3>2. MaxCopies - 1 + 1 = MaxCopies /\ MaxItems - 1 + 1 = MaxItems
      BY Bounds
    <3> QED BY <3>1, <3>2, FS_Interval DEF Ids
  <2>5. IsFiniteSet(Ids \ {r[1]}) /\ Cardinality(Ids \ {r[1]}) = MaxItems - 1
    BY <1>1, <2>4, FS_RemoveElement
  <2>6. Cardinality(Ids \ {r[1]}) < Cardinality(1..MaxCopies)
    BY <2>4, <2>5, Bounds DEF EnoughNames
  <2> HIDE DEF f
  <2>7. PICK x, y \in 1..MaxCopies : x # y /\ f[x] = f[y]
    <3> DEFINE S == 1..MaxCopies
               T == Ids \ {r[1]}
    <3>1. /\ IsFiniteSet(S) /\ IsFiniteSet(T) /\ Cardinality(T) < Cardinality(S) /\ f \in [S -> T]
      BY <2>3, <2>4, <2>5, <2>6
    <3> HIDE DEF S, T
    <3>2. \E x, y \in S : x # y /\ f[x] = f[y]
      BY <3>1, FS_PigeonHole
    <3> QED BY <3>2 DEF S
  <2>8. disk[at(x)].by[1] = disk[at(y)].by[1]
    BY <2>7 DEF f
  <2>9. disk[at(x)].by = disk[at(y)].by
    BY <1>4, <2>1, <2>8, DiskIs, RunParts
  <2>10. at(x)[1] = at(y)[1] /\ at(x)[3] = at(y)[3] /\ at(x)[4] = x /\ at(y)[4] = y
    BY DEF at
  <2>11. at(x) = at(y)
    BY <2>1, <2>9, <2>10 DEF FilesInv, OneCopy
  <2> QED BY <2>7, <2>10, <2>11
<1>6. free \subseteq Nat
  BY Bounds
<1>7. first \in free
  <2>1. \E n \in free : \A m \in free : n <= m
    BY <1>5, <1>6, LeastExists
  <2> QED BY <2>1
<1>8. UniquePath(r) = at(first)
  BY <1>5 DEF UniquePath
<1>9. at(first)[2] = name[r[1]] /\ at(first)[3] = Slot(job[r])
  BY DEF Slot
<1> QED BY <1>7, <1>8, <1>9

-----------------------------------------------------------------------------
(* The slots of the GUI thread                                             *)

(* What a slot may do to the items: it starts attempts only of items that  *)
(* own no file, ends running items only with the result that arrived, and  *)
(* leaves the files alone.                                                 *)
LEMMA SlotKeepsFiles ==
  ASSUME TypeOK, TypeOK', QueueInv, FilesInv, NameKnown', disk' = disk,
         nextId <= nextId', closing => closing',
         \A r \in Runs : \/ pc'[r] = pc[r] /\ job'[r] = job[r]
                         \/ /\ pc[r] = "idle" /\ pc'[r] = "pooled" /\ job'[r].made = {}
                            /\ st[r[1]] \notin {"done"} \cup Active
                            /\ st[r[1]] = "absent" => r[1] = nextId,
         \A i \in Ids : st[i] \in Active =>
           /\ name'[i] = name[i] /\ try'[i] = try[i]
           /\ \/ st'[i] \in Active /\ (closing' \/ (Arriving(i, posts) => Arriving(i, posts')))
              \/ ~closing /\ (Arriving(i, posts) => st'[i] = "done"),
         \A i \in Ids : st[i] = "done" =>
           /\ try'[i] = try[i]
           /\ st'[i] = "absent" \/ (st'[i] = "done" /\ saved'[i] = saved[i]),
         \A i \in Ids \ {nextId} : st[i] = "absent" => st'[i] = "absent" /\ try'[i] = try[i],
         \A i \in Ids : st'[i] = "done" =>
           \/ st[i] = "done"
           \/ \E k \in 1..Len(posts) :
                posts[k].st = "done" /\ posts[k].id = i /\ saved'[i] = posts[k].paths,
         \A k \in 1..Len(posts') : \E l \in 1..Len(posts) : posts'[k] = posts[l]
  PROVE  FilesInv'
<1>0. /\ \A k \in 1..Len(posts) : posts[k].id \in Ids /\ st[posts[k].id] \in Active
      /\ nextId \in Int /\ nextId' \in Int /\ \A i \in Ids : i \in Int
  BY PostTypes, Bounds DEF QueueInv, InOrder, TypeOK, Ids
<1>1. Locals'
  <2> SUFFICES ASSUME NEW r \in Runs, Live(r)'
               PROVE  OwnFiles(r, pc'[r], job'[r], name'[r[1]], disk')
    BY DEF Locals
  <2>1. CASE pc'[r] = pc[r] /\ job'[r] = job[r]
    <3>1. Live(r) /\ name'[r[1]] = name[r[1]]
      BY <2>1, RunParts DEF Live, QueueInv, Current
    <3> QED BY <2>1, <3>1 DEF FilesInv, Locals
  <2>2. CASE pc'[r] = "pooled" /\ job'[r].made = {}
    BY <2>2 DEF OwnFiles, Earlier
  <2> QED BY <2>1, <2>2
<1>2. Owners'
  <2> SUFFICES ASSUME NEW p \in DOMAIN disk
               PROVE  /\ disk[p].by[1] < nextId'
                      /\ Live(disk[p].by)' => p \in job'[disk[p].by].made
                      /\ ~Live(disk[p].by)' => disk[p].whole /\ Ended(disk[p].by)'
    BY DEF Owners
  <2>1. PICK r \in Runs : r = disk[p].by
    BY DiskIs
  <2>2. r[1] \in Ids /\ r[1] < nextId /\ r[1] # nextId
    BY <1>0, <2>1, RunParts DEF FilesInv, Owners
  <2>3. CASE Live(r)
    <3>1. p \in job[r].made /\ pc'[r] = pc[r] /\ job'[r] = job[r]
      BY <2>1, <2>3 DEF FilesInv, Owners, Live
    <3> QED BY <1>0, <2>1, <2>2, <2>3, <3>1 DEF Live
  <2>4. CASE ~Live(r)
    <3>1. disk[p].whole /\ Ended(r)
      BY <2>1, <2>4 DEF FilesInv, Owners
    <3>2. pc'[r] = pc[r]
      BY <2>2, <3>1 DEF Ended, Active
    <3>3. Ended(r)'
      <4>1. CASE st[r[1]] = "done"
        BY <2>2, <3>1, <4>1 DEF Ended
      <4>2. CASE st[r[1]] = "absent"
        BY <2>2, <3>1, <4>2 DEF Ended
      <4>3. CASE st[r[1]] \in Active
        <5>1. r[2] = try'[r[1]] /\ (closing \/ Arriving(r[1], posts))
          BY <2>2, <3>1, <4>3 DEF Ended, Active
        <5>2. \/ st'[r[1]] \in Active /\ (closing' \/ Arriving(r[1], posts'))
              \/ st'[r[1]] = "done"
          BY <2>2, <4>3, <5>1
        <5> QED BY <5>1, <5>2 DEF Ended
      <4> QED BY <3>1, <4>1, <4>2, <4>3 DEF Ended
    <3> QED BY <1>0, <2>1, <2>2, <2>4, <3>1, <3>2, <3>3 DEF Live
  <2> QED BY <2>3, <2>4
<1>3. Arrivals'
  <2> SUFFICES ASSUME NEW k \in 1..Len(posts'), posts'[k].st = "done"
               PROVE  Full(posts'[k].paths, <<posts'[k].id, try'[posts'[k].id]>>, disk)
    BY DEF Arrivals
  <2>1. PICK l \in 1..Len(posts) : posts'[k] = posts[l]
    OBVIOUS
  <2>2. try'[posts[l].id] = try[posts[l].id]
    BY <1>0
  <2> QED BY <2>1, <2>2 DEF FilesInv, Arrivals
<1>4. AllSaved'
  <2> SUFFICES ASSUME NEW i \in Ids, st'[i] = "done"
               PROVE  Full(saved'[i], <<i, try'[i]>>, disk)
    BY ZenonT(40) DEF AllSaved, Full
  <2>1. CASE st[i] = "done"
    BY <2>1 DEF FilesInv, AllSaved, Full
  <2>2. CASE \E k \in 1..Len(posts) :
               posts[k].st = "done" /\ posts[k].id = i /\ saved'[i] = posts[k].paths
    <3>1. PICK k \in 1..Len(posts) :
               posts[k].st = "done" /\ posts[k].id = i /\ saved'[i] = posts[k].paths
      BY <2>2
    <3>2. try'[i] = try[i]
      BY <1>0, <3>1
    <3> QED BY <3>1, <3>2 DEF FilesInv, Arrivals
  <2> QED BY <2>1, <2>2
<1>5. OneCopy(disk)'
  BY DEF FilesInv
<1> QED BY <1>1, <1>2, <1>3, <1>4, <1>5 DEF FilesInv

(* The same for a slot that ends with pump().                              *)
LEMMA PumpKeepsFiles ==
  ASSUME TypeOK, TypeOK', QueueInv, FilesInv, disk' = disk, closing' = closing,
         nextId <= nextId', NEW s, Pump(s, host', try'),
         \A i \in Ids : s[i] = "queued" => /\ st[i] \notin {"done"} \cup Active
                                           /\ st[i] = "absent" => i = nextId,
         \A i \in Ids : st[i] \in Active =>
           /\ name'[i] = name[i] /\ try'[i] = try[i]
           /\ \/ s[i] \in Active /\ (Arriving(i, posts) => Arriving(i, posts'))
              \/ ~closing /\ (Arriving(i, posts) => s[i] = "done"),
         \A i \in Ids : st[i] = "done" => s[i] = "done" /\ try'[i] = try[i] /\ saved'[i] = saved[i],
         \A i \in Ids \ {nextId} : st[i] = "absent" => s[i] = "absent" /\ try'[i] = try[i],
         \A i \in Ids : s[i] = "done" =>
           \/ st[i] = "done"
           \/ \E k \in 1..Len(posts) :
                posts[k].st = "done" /\ posts[k].id = i /\ saved'[i] = posts[k].paths,
         \A k \in 1..Len(posts') : \E l \in 1..Len(posts) : posts'[k] = posts[l],
         \A i \in Ids : s[i] # "absent" => host'[i] \in Hosts /\ name'[i] \in NamesOf[host'[i]]
  PROVE  FilesInv'
<1>1. \A i \in Ids : st'[i] = s[i] \/ (s[i] = "queued" /\ st'[i] = "preparing")
  BY DEF Pump, Claimed
<1>2. NameKnown'
  BY <1>1 DEF NameKnown
<1>3. ASSUME NEW r \in Runs
      PROVE  \/ pc'[r] = pc[r] /\ job'[r] = job[r]
             \/ /\ pc[r] = "idle" /\ pc'[r] = "pooled" /\ job'[r].made = {}
                /\ st[r[1]] \notin {"done"} \cup Active
                /\ st[r[1]] = "absent" => r[1] = nextId
  <2> DEFINE started == {<<i, try'[i]>> : i \in Claimed(s, host')}
  <2>1. CASE r \notin started
    BY <2>1 DEF Pump
  <2>2. CASE r \in started
    <3>1. r[1] \in Ids /\ s[r[1]] = "queued"
      BY <2>2 DEF Claimed
    <3>2. pc'[r] = "pooled" /\ job'[r] = [NoJob EXCEPT !.dir = folder]
      BY <2>2 DEF Pump
    <3>3. job'[r].made = {}
      BY <3>2 DEF NoJob
    <3>4. pc[r] = "idle"
      BY <3>1 DEF QueueInv, Current, Live
    <3> QED BY <3>1, <3>2, <3>3, <3>4
  <2> QED BY <2>1, <2>2
<1>4. \A i \in Ids : s[i] \in Active => st'[i] \in Active
  BY <1>1 DEF Active
<1>5. \A i \in Ids : st'[i] = "done" <=> s[i] = "done"
  BY <1>1
<1>6. \A i \in Ids : s[i] = "absent" => st'[i] = "absent"
  BY <1>1
<1>7. ASSUME NEW i \in Ids, st[i] \in Active
      PROVE  /\ name'[i] = name[i] /\ try'[i] = try[i]
             /\ \/ st'[i] \in Active /\ (closing' \/ (Arriving(i, posts) => Arriving(i, posts')))
                \/ ~closing /\ (Arriving(i, posts) => st'[i] = "done")
  BY <1>4, <1>5, <1>7
<1> QED BY <1>2, <1>3, <1>5, <1>6, <1>7, SlotKeepsFiles

LEMMA EnqueueFiles ==
  ASSUME TypeOK, TypeOK', QueueInv, FilesInv, NEW h \in Hosts, NEW n \in NamesOf[h], Enqueue(h, n)
  PROVE  FilesInv'
<1> DEFINE s == [st EXCEPT ![nextId] = "queued"]
<1>1. /\ nextId \in Ids /\ nextId' = nextId + 1 /\ Pump(s, host', try')
      /\ host' = [host EXCEPT ![nextId] = h] /\ name' = [name EXCEPT ![nextId] = n]
      /\ UNCHANGED <<try, saved, closing, posts, disk>>
  BY DEF Enqueue
<1>2. /\ st \in [Ids -> States] /\ host \in [Ids -> Hosts \cup {NoHost}]
      /\ name \in [Ids -> Names \cup {NoName}] /\ nextId <= nextId' /\ st[nextId] = "absent"
  BY <1>1, Bounds DEF TypeOK, QueueInv, ListedItems, Ids
<1>3. s[nextId] = "queued" /\ \A i \in Ids \ {nextId} : s[i] = st[i]
  BY <1>1, <1>2
<1>4. \A i \in Ids : st[i] \in Active \/ st[i] = "done" => i # nextId /\ s[i] = st[i] /\ name'[i] = name[i]
  BY <1>1, <1>2, <1>3 DEF Active
<1>5. \A i \in Ids : s[i] # "absent" => host'[i] \in Hosts /\ name'[i] \in NamesOf[host'[i]]
  BY <1>1, <1>2, <1>3 DEF FilesInv, NameKnown
<1>6. \A i \in Ids : s[i] = "queued" => /\ st[i] \notin {"done"} \cup Active
                                        /\ st[i] = "absent" => i = nextId
  BY <1>3, <1>2 DEF Active
<1> HIDE DEF s
<1>7. \A o \in Ids : st[o] \in Active =>
          /\ name'[o] = name[o] /\ try'[o] = try[o]
          /\ \/ s[o] \in Active /\ (Arriving(o, posts) => Arriving(o, posts'))
             \/ ~closing /\ (Arriving(o, posts) => s[o] = "done")
  BY <1>1, <1>4
<1>8. /\ \A o \in Ids : s[o] = "done" =>
           \/ st[o] = "done"
           \/ \E k \in 1..Len(posts) :
                posts[k].st = "done" /\ posts[k].id = o /\ saved'[o] = posts[k].paths
      /\ \A k \in 1..Len(posts') : \E l \in 1..Len(posts) : posts'[k] = posts[l]
  BY <1>1, <1>3
<1>9. /\ \A o \in Ids : st[o] = "done" => s[o] = "done" /\ try'[o] = try[o] /\ saved'[o] = saved[o]
      /\ \A o \in Ids \ {nextId} : st[o] = "absent" => s[o] = "absent" /\ try'[o] = try[o]
  BY <1>1, <1>3, <1>4
<1>10. disk' = disk /\ closing' = closing /\ nextId <= nextId' /\ Pump(s, host', try')
  BY <1>1, <1>2
<1> QED BY <1>5, <1>6, <1>7, <1>8, <1>9, <1>10, PumpKeepsFiles

LEMMA CancelFiles ==
  ASSUME TypeOK, TypeOK', QueueInv, FilesInv, NEW i \in Ids, CancelWaiting(i)
  PROVE  FilesInv'
<1> DEFINE s == [st EXCEPT ![i] = "cancelled"]
<1>1. /\ Pump(s, host', try') /\ st[i] = "queued" /\ UNCHANGED <<host, name, try, nextId, closing, posts, disk>>
      /\ saved' = [saved EXCEPT ![i] = @]
  BY DEF CancelWaiting, Update, Final
<1>2. st \in [Ids -> States] /\ saved \in [Ids -> SUBSET Paths] /\ nextId <= nextId'
  BY <1>1, Bounds DEF TypeOK
<1>3. s[i] = "cancelled" /\ \A o \in Ids \ {i} : s[o] = st[o]
  BY <1>2
<1>4. saved' = saved
  BY <1>1, <1>2
<1>5. \A o \in Ids : st[o] \in Active \/ st[o] = "done" \/ st[o] = "absent" => s[o] = st[o]
  BY <1>1, <1>3 DEF Active
<1>6. \A o \in Ids : s[o] = "queued" => st[o] = "queued" /\ st[o] \notin {"done"} \cup Active
  BY <1>3 DEF Active
<1>7. \A o \in Ids : s[o] = "done" => st[o] = "done"
  BY <1>3
<1>8. \A o \in Ids : s[o] # "absent" => host'[o] \in Hosts /\ name'[o] \in NamesOf[host'[o]]
  BY <1>1, <1>3 DEF FilesInv, NameKnown
<1> HIDE DEF s
<1>9. \A o \in Ids : st[o] \in Active =>
          /\ name'[o] = name[o] /\ try'[o] = try[o]
          /\ \/ s[o] \in Active /\ (Arriving(o, posts) => Arriving(o, posts'))
             \/ ~closing /\ (Arriving(o, posts) => s[o] = "done")
  BY <1>1, <1>5
<1>10. /\ \A o \in Ids : s[o] = "done" =>
           \/ st[o] = "done"
           \/ \E k \in 1..Len(posts) :
                posts[k].st = "done" /\ posts[k].id = o /\ saved'[o] = posts[k].paths
      /\ \A k \in 1..Len(posts') : \E l \in 1..Len(posts) : posts'[k] = posts[l]
  BY <1>1, <1>7
<1> QED BY <1>1, <1>2, <1>4, <1>5, <1>6, <1>8, <1>9, <1>10, PumpKeepsFiles

LEMMA RetryFiles ==
  ASSUME TypeOK, TypeOK', QueueInv, FilesInv, NEW i \in Ids, Retry(i)
  PROVE  FilesInv'
<1> DEFINE s == [st EXCEPT ![i] = "queued"]
<1>1. /\ Pump(s, host', try') /\ st[i] \in {"failed", "cancelled"}
      /\ try' = [try EXCEPT ![i] = @ + 1] /\ saved' = [saved EXCEPT ![i] = {}]
      /\ UNCHANGED <<host, name, nextId, closing, posts, disk>>
  BY DEF Retry
<1>2. /\ st \in [Ids -> States] /\ saved \in [Ids -> SUBSET Paths] /\ try \in [Ids -> Tries]
      /\ nextId <= nextId'
  BY <1>1, Bounds DEF TypeOK
<1>3. /\ s[i] = "queued" /\ st[i] \notin {"done", "absent"} \cup Active
      /\ \A o \in Ids \ {i} : s[o] = st[o] /\ try'[o] = try[o] /\ saved'[o] = saved[o]
  BY <1>1, <1>2 DEF Active
<1>4. \A o \in Ids : st[o] \in {"done", "absent"} \cup Active => o # i
  BY <1>3
<1>5. \A o \in Ids : s[o] = "queued" => st[o] \notin {"done", "absent"} \cup Active
  BY <1>3 DEF Active
<1>6. \A o \in Ids : s[o] = "done" => st[o] = "done"
  BY <1>3
<1>7. \A o \in Ids : s[o] # "absent" => host'[o] \in Hosts /\ name'[o] \in NamesOf[host'[o]]
  BY <1>1, <1>3 DEF FilesInv, NameKnown
<1> HIDE DEF s
<1>8. \A o \in Ids : st[o] \in Active =>
          /\ name'[o] = name[o] /\ try'[o] = try[o]
          /\ \/ s[o] \in Active /\ (Arriving(o, posts) => Arriving(o, posts'))
             \/ ~closing /\ (Arriving(o, posts) => s[o] = "done")
  BY <1>1, <1>3, <1>4
<1>9. /\ \A o \in Ids : s[o] = "done" =>
           \/ st[o] = "done"
           \/ \E k \in 1..Len(posts) :
                posts[k].st = "done" /\ posts[k].id = o /\ saved'[o] = posts[k].paths
      /\ \A k \in 1..Len(posts') : \E l \in 1..Len(posts) : posts'[k] = posts[l]
  BY <1>1, <1>6
<1>10. /\ \A o \in Ids : st[o] = "done" => s[o] = "done" /\ try'[o] = try[o] /\ saved'[o] = saved[o]
      /\ \A o \in Ids \ {nextId} : st[o] = "absent" => s[o] = "absent" /\ try'[o] = try[o]
  BY <1>1, <1>3, <1>4
<1>11. \A o \in Ids : s[o] = "queued" => /\ st[o] \notin {"done"} \cup Active
                                         /\ st[o] = "absent" => o = nextId
  BY <1>5
<1>12. disk' = disk /\ closing' = closing /\ nextId <= nextId' /\ Pump(s, host', try')
  BY <1>1, <1>2
<1> QED BY <1>7, <1>8, <1>9, <1>10, <1>11, <1>12, PumpKeepsFiles

LEMMA ForgetFiles ==
  ASSUME TypeOK, TypeOK', QueueInv, FilesInv, NEW S \in SUBSET Ids, \A i \in S : st[i] \in Final, Forget(S)
  PROVE  FilesInv'
<1>1. UNCHANGED <<try, nextId, closing, posts, pc, job, disk>> /\ nextId <= nextId'
  BY Bounds DEF Forget, TypeOK
<1>2. \A i \in S : st[i] \notin {"absent"} \cup Active
  BY DEF Final, Active
<1>3. /\ \A i \in Ids \ S : st'[i] = st[i] /\ host'[i] = host[i] /\ name'[i] = name[i] /\ saved'[i] = saved[i]
      /\ \A i \in S : st'[i] = "absent"
  BY DEF Forget
<1>4. NameKnown'
  BY <1>3 DEF FilesInv, NameKnown
<1> QED BY <1>1, <1>2, <1>3, <1>4, SlotKeepsFiles

LEMMA QuitFiles ==
  ASSUME TypeOK, TypeOK', QueueInv, FilesInv, Quit
  PROVE  FilesInv'
<1>1. UNCHANGED <<st, host, name, try, saved, nextId, pc, job, disk>> /\ closing' /\ posts' = <<>>
  BY DEF Quit
<1>2. NameKnown' /\ nextId <= nextId'
  BY <1>1, Bounds DEF FilesInv, NameKnown, TypeOK
<1>3. 1..Len(posts') = {}
  BY <1>1
<1> QED BY <1>1, <1>2, <1>3, SlotKeepsFiles

(* A delivered result ends the item; a delivered progress changes nothing  *)
(* that the files depend on.                                               *)
LEMMA DeliverFiles ==
  ASSUME TypeOK, TypeOK', QueueInv, FilesInv, Deliver
  PROVE  FilesInv'
<1>1. PICK i \in Ids : i = posts[1].id /\ i = Head(posts).id /\ 1 \in 1..Len(posts)
  BY PostTypes DEF Deliver
<1>2. PICK x : x = posts[1].st /\ x = Head(posts).st
  BY <1>1, PostTypes DEF Deliver
<1>3. PICK ps : ps = posts[1].paths /\ ps = Head(posts).paths
  BY <1>1, PostTypes DEF Deliver
<1>4. /\ Update(i, x, ps) /\ ~closing /\ posts' = Tail(posts)
      /\ UNCHANGED <<host, name, try, nextId, closing, disk>>
  BY <1>1, <1>2, <1>3 DEF Deliver
<1>5. /\ st[i] \in Active /\ x \in {"downloading"} \cup Final
      /\ x \in Final => \A l \in 1..Len(posts) : 1 < l => posts[l].id # i
  BY <1>1, <1>2 DEF QueueInv, InOrder
<1>6. /\ st \in [Ids -> States] /\ saved \in [Ids -> SUBSET Paths] /\ nextId <= nextId'
  BY <1>4, Bounds DEF TypeOK
<1>7. /\ Len(posts') = Len(posts) - 1 /\ Len(posts) \in Nat
      /\ \A k \in 1..Len(posts') : posts'[k] = posts[k + 1] /\ k + 1 \in 1..Len(posts)
  BY <1>1, <1>4, PostTypes
<1>8. \A k \in 1..Len(posts') : \E l \in 1..Len(posts) : posts'[k] = posts[l]
  BY <1>7
<1>9. ASSUME NEW o \in Ids, Arriving(o, posts), o # i \/ x # "done" PROVE Arriving(o, posts')
  <2>1. PICK k \in 1..Len(posts) : posts[k].id = o /\ posts[k].st = "done"
    BY <1>9 DEF Arriving
  <2>2. k # 1
    BY <1>1, <1>2, <1>9, <2>1
  <2>3. k - 1 \in 1..Len(posts') /\ (k - 1) + 1 = k
    BY <1>7, <2>1, <2>2
  <2>4. posts'[k - 1] = posts[k]
    BY <1>7, <2>3
  <2> QED BY <2>1, <2>3, <2>4 DEF Arriving
<1>10. ASSUME x \in Final, x # "done" PROVE ~Arriving(i, posts)
  <2>1. SUFFICES ASSUME NEW k \in 1..Len(posts), posts[k].id = i, posts[k].st = "done" PROVE FALSE
    BY DEF Arriving
  <2>2. k = 1
    BY <1>5, <1>10, <1>7, <2>1
  <2> QED BY <1>2, <1>10, <2>1, <2>2
<1> DEFINE s == [st EXCEPT ![i] = x]
<1>11. s[i] = x /\ \A o \in Ids \ {i} : s[o] = st[o]
  BY <1>6
<1>12. \A o \in Ids \ {i} : saved'[o] = saved[o]
  BY <1>4, <1>5, <1>6 DEF Update, Active
<1>13. st[i] \notin {"absent", "queued", "done"} /\ st[i] \notin Final
  BY <1>5 DEF Active, Final
<1>14. CASE x \in Final
  <2>1. Pump(s, host', try')
    BY <1>4, <1>13, <1>14 DEF Update
  <2>2. x = "done" => /\ posts[1].st = "done" /\ posts[1].id = i /\ saved'[i] = posts[1].paths
    <3>1. SUFFICES ASSUME x = "done" PROVE saved'[i] = ps
      BY <1>1, <1>2, <1>3
    <3>2. ps # {}
      BY <1>1, <1>2, <1>3, <3>1 DEF FilesInv, Arrivals, Full
    <3> QED BY <1>4, <1>6, <1>13, <3>2 DEF Update
  <2>3. x # "queued" /\ x # "absent" /\ x \notin Active
    BY <1>14 DEF Final, Active
  <2> HIDE DEF s
  <2>4. \A o \in Ids : s[o] = "queued" => /\ st[o] \notin {"done"} \cup Active
                                          /\ st[o] = "absent" => o = nextId
    BY <1>11, <2>3 DEF Active
  <2>5. \A o \in Ids : st[o] \in Active =>
          /\ name'[o] = name[o] /\ try'[o] = try[o]
          /\ \/ s[o] \in Active /\ (Arriving(o, posts) => Arriving(o, posts'))
             \/ ~closing /\ (Arriving(o, posts) => s[o] = "done")
    BY <1>4, <1>9, <1>10, <1>11, <1>14
  <2>6. /\ \A o \in Ids : st[o] = "done" => s[o] = "done" /\ try'[o] = try[o] /\ saved'[o] = saved[o]
        /\ \A o \in Ids \ {nextId} : st[o] = "absent" => s[o] = "absent" /\ try'[o] = try[o]
    BY <1>4, <1>11, <1>12, <1>13
  <2>7. \A o \in Ids : s[o] = "done" =>
           \/ st[o] = "done"
           \/ \E k \in 1..Len(posts) :
                posts[k].st = "done" /\ posts[k].id = o /\ saved'[o] = posts[k].paths
    BY <1>1, <1>11, <2>2
  <2>8. \A o \in Ids : s[o] # "absent" => host'[o] \in Hosts /\ name'[o] \in NamesOf[host'[o]]
    BY <1>4, <1>11, <1>13 DEF FilesInv, NameKnown
  <2>9. disk' = disk /\ closing' = closing /\ nextId <= nextId'
    BY <1>4, <1>6
  <2> QED BY <1>8, <2>1, <2>4, <2>5, <2>6, <2>7, <2>8, <2>9, PumpKeepsFiles
<1>15. CASE x \notin Final
  <2>1. st' = s /\ UNCHANGED <<pc, job>> /\ x = "downloading"
    BY <1>4, <1>5, <1>13, <1>15 DEF Update
  <2>2. x \in Active /\ x # "done" /\ x # "absent"
    BY <2>1 DEF Active
  <2> HIDE DEF s
  <2>3. NameKnown'
    BY <1>4, <1>11, <1>13, <2>1 DEF FilesInv, NameKnown
  <2>4. \A o \in Ids : st[o] \in Active =>
           /\ name'[o] = name[o] /\ try'[o] = try[o]
           /\ \/ st'[o] \in Active /\ (closing' \/ (Arriving(o, posts) => Arriving(o, posts')))
              \/ ~closing /\ (Arriving(o, posts) => st'[o] = "done")
    BY <1>4, <1>9, <1>11, <2>1, <2>2
  <2>5. \A o \in Ids : st[o] = "done" =>
           /\ try'[o] = try[o]
           /\ st'[o] = "absent" \/ (st'[o] = "done" /\ saved'[o] = saved[o])
    BY <1>4, <1>11, <1>12, <1>13, <2>1
  <2>6. \A o \in Ids \ {nextId} : st[o] = "absent" => st'[o] = "absent" /\ try'[o] = try[o]
    BY <1>4, <1>11, <1>13, <2>1
  <2>7. \A o \in Ids : st'[o] = "done" => st[o] = "done"
    BY <1>11, <2>1, <2>2
  <2> QED BY <1>4, <1>6, <1>8, <2>1, <2>3, <2>4, <2>5, <2>6, <2>7, SlotKeepsFiles
<1> QED BY <1>14, <1>15

-----------------------------------------------------------------------------
(* Workers                                                                 *)

(* A step of attempt r that goes to l with locals j, and touches only      *)
(* files of its own and of its name.                                       *)
LEMMA WorkerKeepsFiles ==
  ASSUME TypeOK, TypeOK', QueueInv, FilesInv, NamesApart, NEW r \in Runs, Live(r),
         UNCHANGED gui, NEW l, NEW j, pc' = [pc EXCEPT ![r] = l], job' = [job EXCEPT ![r] = j],
         \A p \in DOMAIN disk : disk[p].by # r => p \in DOMAIN disk' /\ disk'[p] = disk[p],
         \A p \in DOMAIN disk' : disk'[p].by # r => p \in DOMAIN disk /\ disk'[p] = disk[p],
         \A p \in DOMAIN disk' : p \in DOMAIN disk \/ p[2] = name[r[1]],
         OneCopy(disk'),
         l # "idle" => OwnFiles(r, l, j, name[r[1]], disk'),
         \A p \in DOMAIN disk' : disk'[p].by = r =>
           IF l # "idle" THEN p \in j.made
                         ELSE disk'[p].whole /\ (closing \/ Arriving(r[1], posts')),
         NEW y, posts' = posts \/ posts' = Append(posts, y),
         y.id = r[1], y.st = "done" => Full(y.paths, r, disk')
  PROVE  FilesInv'
<1>0. /\ UNCHANGED <<st, host, name, try, saved, nextId, closing>>
      /\ pc'[r] = l /\ job'[r] = j /\ \A q \in Runs \ {r} : pc'[q] = pc[q] /\ job'[q] = job[q]
      /\ r[1] \in Ids /\ st[r[1]] \in Active /\ r[2] = try[r[1]] /\ r[1] < nextId
  <2>1. r[1] \in Ids /\ st[r[1]] \in Active /\ r[2] = try[r[1]]
    BY RunParts DEF QueueInv, Current
  <2>2. r[1] < nextId
    BY <2>1, Bounds DEF QueueInv, ListedItems, Active, TypeOK, Ids
  <2> QED BY <2>1, <2>2 DEF TypeOK, gui
<1>1. /\ Len(posts) \in Nat /\ 1..Len(posts) \subseteq 1..Len(posts')
      /\ \A k \in 1..Len(posts) : posts'[k] = posts[k] /\ posts[k].id \in Ids
      /\ \A k \in 1..Len(posts') : \/ k \in 1..Len(posts)
                                   \/ posts'[k].st = "done" =>
                                        posts'[k].id = r[1] /\ Full(posts'[k].paths, r, disk')
  <2>1. CASE posts' = posts
    BY <2>1, PostTypes
  <2>2. CASE posts' = Append(posts, y)
    <3>1. /\ Len(posts') = Len(posts) + 1 /\ Len(posts) \in Nat
          /\ \A k \in 1..Len(posts) : posts'[k] = posts[k] /\ posts[k].id \in Ids
          /\ posts'[Len(posts) + 1] = y
      BY <2>2, PostTypes
    <3>2. \A k \in 1..Len(posts') : k \in 1..Len(posts) \/ k = Len(posts) + 1
      BY <3>1
    <3>3. 1..Len(posts) \subseteq 1..Len(posts')
      BY <3>1
    <3> QED BY <2>2, <3>1, <3>2, <3>3
  <2> QED BY <2>1, <2>2
<1>2. \A i : Arriving(i, posts) => Arriving(i, posts')
  BY <1>1 DEF Arriving
<1>3. NameKnown'
  BY <1>0 DEF FilesInv, NameKnown
<1>4. Locals'
  <2> SUFFICES ASSUME NEW q \in Runs, Live(q)'
               PROVE  OwnFiles(q, pc'[q], job'[q], name[q[1]], disk')
    BY <1>0 DEF Locals
  <2>1. CASE q = r
    BY <1>0, <2>1 DEF Live
  <2>2. CASE q # r
    <3>1. Live(q) /\ pc'[q] = pc[q] /\ job'[q] = job[q]
      BY <1>0, <2>2 DEF Live
    <3>2. OwnFiles(q, pc[q], job[q], name[q[1]], disk)
      BY <3>1 DEF FilesInv, Locals
    <3>3. name[q[1]] # name[r[1]]
      BY <2>2, <3>1, NamesDiffer DEF FilesInv
    <3>4. ASSUME NEW p, p \in DOMAIN disk, disk[p].by = q
          PROVE  p \in DOMAIN disk' /\ disk'[p] = disk[p]
      BY <2>2, <3>4
    <3>5. ASSUME pc[q] = "open" PROVE job[q].path \notin DOMAIN disk'
      BY <3>2, <3>3, <3>5 DEF OwnFiles
    <3> QED BY <3>1, <3>2, <3>4, <3>5 DEF OwnFiles
  <2> QED BY <2>1, <2>2
<1>5. Owners'
  <2> SUFFICES ASSUME NEW p \in DOMAIN disk', NEW q \in Runs, q = disk'[p].by
               PROVE  /\ q[1] < nextId'
                      /\ pc'[q] # "idle" => p \in job'[q].made
                      /\ pc'[q] = "idle" => disk'[p].whole /\ Ended(q)'
    <3>1. \A p \in DOMAIN disk' : disk'[p].by \in Runs
      BY DEF TypeOK
    <3> QED BY <3>1 DEF Owners, Live
  <2>1. CASE q # r
    <3>1. p \in DOMAIN disk /\ disk'[p] = disk[p] /\ pc'[q] = pc[q] /\ job'[q] = job[q]
      BY <1>0, <2>1
    <3>2. /\ q[1] < nextId
          /\ pc[q] # "idle" => p \in job[q].made
          /\ pc[q] = "idle" => disk[p].whole /\ Ended(q)
      BY <3>1 DEF FilesInv, Owners, Live
    <3>3. Ended(q) => Ended(q)'
      BY <1>0, <1>2 DEF Ended
    <3> QED BY <1>0, <3>1, <3>2, <3>3
  <2>2. CASE q = r
    <3>1. l = "idle" => disk'[p].whole /\ (closing \/ Arriving(r[1], posts'))
      BY <2>2
    <3>2. l # "idle" => p \in j.made
      BY <2>2
    <3> QED BY <1>0, <2>2, <3>1, <3>2 DEF Ended
  <2> QED BY <2>1, <2>2
<1>6. ASSUME NEW S, NEW q, q # r, Full(S, q, disk) PROVE Full(S, q, disk')
  <2>1. S # {} /\ \A p \in S : p \in DOMAIN disk /\ disk[p] = [by |-> q, whole |-> TRUE]
    BY <1>6 DEF Full
  <2>2. \A p \in S : disk[p].by = q
    BY <2>1
  <2>3. \A p \in S : p \in DOMAIN disk' /\ disk'[p] = disk[p]
    BY <1>6, <2>1, <2>2
  <2> QED BY <2>1, <2>3 DEF Full
<1>7. Arrivals'
  <2> SUFFICES ASSUME NEW k \in 1..Len(posts'), posts'[k].st = "done"
               PROVE  Full(posts'[k].paths, <<posts'[k].id, try[posts'[k].id]>>, disk')
    BY <1>0 DEF Arrivals
  <2>1. CASE k \in 1..Len(posts)
    <3>1. posts'[k] = posts[k] /\ posts[k].id # r[1]
      BY <1>1, <2>1 DEF QueueInv, InOrder, Final
    <3>2. <<posts[k].id, try[posts[k].id]>> # r
      BY <3>1
    <3> QED BY <1>6, <2>1, <3>1, <3>2 DEF FilesInv, Arrivals
  <2>2. CASE k \notin 1..Len(posts)
    BY <1>0, <1>1, <2>2, RunParts, SMTT(30)
  <2> QED BY <2>1, <2>2
<1>8. AllSaved'
  <2> SUFFICES ASSUME NEW i \in Ids, st[i] = "done"
               PROVE  Full(saved[i], <<i, try[i]>>, disk')
    BY <1>0 DEF AllSaved, Full
  <2>1. Full(saved[i], <<i, try[i]>>, disk)
    BY DEF FilesInv, AllSaved, Full
  <2>2. <<i, try[i]>> # r
    BY <1>0 DEF Active
  <2> QED BY <1>6, <2>1, <2>2
<1> QED BY <1>3, <1>4, <1>5, <1>7, <1>8 DEF FilesInv

(* A step that leaves the disk alone and does not end the attempt.         *)
LEMMA QuietStep ==
  ASSUME TypeOK, TypeOK', QueueInv, FilesInv, NamesApart, NEW r \in Runs, Live(r),
         UNCHANGED <<gui, disk>>, NEW l, NEW j,
         pc' = [pc EXCEPT ![r] = l], job' = [job EXCEPT ![r] = j], l # "idle",
         OwnFiles(r, l, j, name[r[1]], disk),
         \A p \in job[r].made \cap DOMAIN disk : p \in j.made,
         \/ posts' = posts
         \/ posts' = Append(posts, [id |-> r[1], st |-> "downloading", paths |-> {}])
  PROVE  FilesInv'
<1>1. \A p \in DOMAIN disk : disk[p].by = r => p \in job[r].made
  BY DEF FilesInv, Owners
<1> DEFINE y == [id |-> r[1], st |-> "downloading", paths |-> {}]
<1>2. (posts' = posts \/ posts' = Append(posts, y)) /\ y.id = r[1] /\ y.st # "done"
  OBVIOUS
<1>3. UNCHANGED gui /\ disk' = disk /\ OneCopy(disk)
  BY DEF FilesInv
<1> HIDE DEF y
<1>4. \A p \in DOMAIN disk' : disk'[p].by = r =>
        IF l # "idle" THEN p \in j.made ELSE disk'[p].whole /\ (closing \/ Arriving(r[1], posts'))
  BY <1>1, <1>3
<1> QED BY <1>1, <1>2, <1>3, <1>4, WorkerKeepsFiles

LEMMA WorkersFiles ==
  ASSUME TypeOK, TypeOK', QueueInv, FilesInv, NamesApart, EnoughNames, NEW r \in Runs, Worker(r)
  PROVE  FilesInv'
<1> DEFINE n == name[r[1]]
           j == job[r]
           u == j.path
<1>1. /\ UNCHANGED <<gui, raised>> /\ Live(r)
  BY DEF Worker, Begin, Prepared, Login, PickPath, Open, Progress, PartSaved, PartLost, Fail, Live
<1>2. OwnFiles(r, pc[r], j, n, disk)
  BY <1>1 DEF FilesInv, Locals
<1>3. \A p \in DOMAIN disk : disk[p].by = r => p \in j.made
  BY <1>1 DEF FilesInv, Owners
<1>4. /\ j.part \in 1..MaxParts /\ j.parts \in 1..MaxParts /\ j.made \subseteq Paths
      /\ pc \in [Runs -> Phases] /\ job \in [Runs -> Job] /\ j \in Job
  BY TypeParts DEF TypeOK, WorkTypes
<1>5. job = [job EXCEPT ![r] = j] /\ \A k : pc[r] = k => pc = [pc EXCEPT ![r] = k]
  BY <1>4
<1>6. \A p \in Paths : p[3] \in 0..MaxParts
  BY DEF Paths
<1>7. OneCopy(disk)
  BY DEF FilesInv
<1>8. CASE Begin(r)
  <2>1. PICK l \in {"prepare", "fail"} : pc' = [pc EXCEPT ![r] = l] /\ job' = job /\ UNCHANGED <<gui, disk, posts>>
    BY <1>8 DEF Begin, Goto
  <2>2. OwnFiles(r, l, j, n, disk)
    BY <1>2, <1>8 DEF Begin, OwnFiles, Earlier
  <2> HIDE DEF j, n
  <2>3. job' = [job EXCEPT ![r] = j] /\ \A p \in job[r].made : p \in j.made
    BY <1>5, <2>1 DEF j
  <2> QED BY <1>1, <2>1, <2>2, <2>3, QuietStep DEF n
<1>9. CASE Prepared(r)
  <2>1. pc[r] = "prepare" /\ j.made = {} /\ UNCHANGED <<gui, disk, posts>>
    BY <1>2, <1>9 DEF Prepared, OwnFiles
  <2>2. CASE Goto(r, "fail") /\ UNCHANGED job
    <3>1. OwnFiles(r, "fail", j, n, disk)
      BY <2>1 DEF OwnFiles, Earlier
    <3>2. pc' = [pc EXCEPT ![r] = "fail"] /\ job' = [job EXCEPT ![r] = j]
      BY <1>5, <2>2 DEF Goto
    <3> QED BY <1>1, <2>1, <3>1, <3>2, QuietStep
  <2>3. ASSUME NEW k \in 1..MaxParts, job' = [job EXCEPT ![r].parts = k], Goto(r, "login")
        PROVE  FilesInv'
    <3> DEFINE i == [j EXCEPT !.parts = k]
    <3>1. i.made = {}
      BY <1>4, <2>1 DEF Job
    <3> HIDE DEF i
    <3>2. OwnFiles(r, "login", i, n, disk)
      BY <3>1 DEF OwnFiles, Earlier
    <3>3. pc' = [pc EXCEPT ![r] = "login"] /\ job' = [job EXCEPT ![r] = i]
      BY <2>3 DEF Goto, i
    <3> QED BY <1>1, <2>1, <3>2, <3>3, QuietStep
  <2> QED BY <1>9, <2>2, <2>3 DEF Prepared
<1>10. CASE Login(r)
  <2>1. PICK l \in {"name", "fail"} : pc' = [pc EXCEPT ![r] = l] /\ job' = job /\ UNCHANGED <<gui, disk, posts>>
    BY <1>10 DEF Login, Goto
  <2>2. OwnFiles(r, l, j, n, disk)
    BY <1>2, <1>10 DEF Login, OwnFiles, Earlier
  <2> HIDE DEF j, n
  <2>3. job' = [job EXCEPT ![r] = j] /\ \A p \in job[r].made : p \in j.made
    BY <1>5, <2>1 DEF j
  <2> QED BY <1>1, <2>1, <2>2, <2>3, QuietStep DEF n
<1>11. CASE PickPath(r)
  <2> DEFINE v == UniquePath(r)
             i == [j EXCEPT !.path = v, !.made = @ \cup {v}]
  <2>1. v \notin DOMAIN disk /\ v[2] = n /\ v[3] = Slot(j) /\ pc[r] = "name"
    BY <1>11, FreePath DEF PickPath
  <2>2. /\ pc' = [pc EXCEPT ![r] = "open"] /\ job' = [job EXCEPT ![r] = i] /\ UNCHANGED <<gui, disk>>
        /\ \/ posts' = posts
           \/ posts' = Append(posts, [id |-> r[1], st |-> "downloading", paths |-> {}])
    BY <1>11 DEF PickPath, Goto, Post
  <2> HIDE DEF v
  <2>3. i.path = v /\ i.made = j.made \cup {v} /\ i.part = j.part /\ i.parts = j.parts
    BY <1>4 DEF Job
  <2> HIDE DEF i
  <2>4. Slot(i) = Slot(j)
    BY <2>3 DEF Slot
  <2>5. OwnFiles(r, "open", i, n, disk)
    BY <1>2, <2>1, <2>3, <2>4 DEF OwnFiles, Earlier
  <2>6. \A p \in job[r].made \cap DOMAIN disk : p \in i.made
    BY <2>3
  <2> QED BY <1>1, <2>2, <2>5, <2>6, QuietStep
<1>12. CASE Open(r)
  <2>1. pc[r] = "open" /\ u \in j.made /\ u \notin DOMAIN disk /\ u[2] = n /\ UNCHANGED <<gui, posts>>
    BY <1>2, <1>12 DEF Open, OwnFiles
  <2>2. CASE Create(u, r) /\ Goto(r, "transfer") /\ UNCHANGED job
    <3>1. /\ DOMAIN disk' = DOMAIN disk \cup {u} /\ disk'[u] = [by |-> r, whole |-> FALSE]
          /\ \A p \in DOMAIN disk : disk'[p] = disk[p]
      BY <2>1, <2>2 DEF Create
    <3>2. \A p \in Earlier("open", j) : p \in DOMAIN disk /\ disk[p].by = r /\ j.parts > 1 /\ p[3] < j.part
      BY <1>2, <2>1 DEF OwnFiles
    <3>3. OwnFiles(r, "transfer", j, n, disk')
      <4>1. Earlier("transfer", j) = Earlier("open", j)
        BY DEF Earlier
      <4>2. \A p \in Earlier("open", j) : p \in DOMAIN disk /\ disk[p].by = r /\ disk[p].whole
        BY <1>2, <2>1 DEF OwnFiles
      <4>3. /\ u[3] = Slot(j) /\ \A p \in j.made : p[2] = n
        BY <1>2, <2>1 DEF OwnFiles
      <4> HIDE DEF u, j, n
      <4>4. u = j.path
        BY DEF u
      <4> QED BY <2>1, <3>1, <3>2, <4>1, <4>2, <4>3, <4>4 DEF OwnFiles
    <3>4. OneCopy(disk')
      <4>1. ASSUME NEW p \in DOMAIN disk, disk[p].by = r PROVE p[3] # u[3]
        <5>1. j.parts > 1 /\ p[3] < j.part /\ p \in j.made
          BY <1>3, <2>1, <3>2, <4>1 DEF Earlier
        <5>2. u[3] = j.part
          BY <1>2, <2>1, <5>1 DEF OwnFiles, Slot
        <5>3. p[3] \in 0..MaxParts
          BY <1>4, <1>6, <5>1
        <5> QED BY <1>4, <5>1, <5>2, <5>3, Bounds
      <4> SUFFICES ASSUME NEW p \in DOMAIN disk', NEW q \in DOMAIN disk',
                          p[1] = q[1], p[3] = q[3], disk'[p].by = disk'[q].by
                   PROVE  p = q
        BY DEF OneCopy
      <4>2. disk'[u].by = r
        BY <3>1
      <4> HIDE DEF u
      <4>3. CASE p \in DOMAIN disk /\ q \in DOMAIN disk
        BY <1>7, <3>1, <4>3 DEF OneCopy
      <4>4. CASE p = u \/ q = u
        BY <3>1, <4>1, <4>2, <4>4
      <4> QED BY <3>1, <4>3, <4>4
    <3>5. disk'[u].by = r
      BY <3>1
    <3>6. pc' = [pc EXCEPT ![r] = "transfer"] /\ job' = [job EXCEPT ![r] = j]
      BY <1>5, <2>2 DEF Goto
    <3>7. \A p \in DOMAIN disk' : disk'[p].by = r => p \in j.made
      BY <1>3, <2>1, <3>1
    <3> HIDE DEF u, j
    <3>8. /\ \A p \in DOMAIN disk : disk[p].by # r => p \in DOMAIN disk' /\ disk'[p] = disk[p]
          /\ \A p \in DOMAIN disk' : disk'[p].by # r => p \in DOMAIN disk /\ disk'[p] = disk[p]
          /\ \A p \in DOMAIN disk' : p \in DOMAIN disk \/ p[2] = n
      BY <2>1, <3>1, <3>5
    <3> DEFINE y == [id |-> r[1], st |-> "downloading", paths |-> {}]
    <3>9. posts' = posts /\ y.id = r[1] /\ y.st # "done"
      BY <2>1
    <3> HIDE DEF y
    <3>10. \A p \in DOMAIN disk' : disk'[p].by = r =>
             IF "transfer" # "idle" THEN p \in j.made
                                    ELSE disk'[p].whole /\ (closing \/ Arriving(r[1], posts'))
      BY <3>7
    <3> QED BY <1>1, <3>3, <3>4, <3>6, <3>8, <3>9, <3>10, WorkerKeepsFiles
  <2>3. CASE /\ job' = [job EXCEPT ![r].made = @ \ {u}] /\ Goto(r, "fail") /\ UNCHANGED disk
    <3> DEFINE i == [j EXCEPT !.made = @ \ {u}]
    <3>1. i.made = j.made \ {u}
      BY <1>4 DEF Job
    <3>2. pc' = [pc EXCEPT ![r] = "fail"] /\ job' = [job EXCEPT ![r] = i]
      BY <2>3 DEF Goto
    <3> HIDE DEF i
    <3>3. Earlier("fail", i) = Earlier("open", j)
      BY <3>1 DEF Earlier
    <3>4. OwnFiles(r, "fail", i, n, disk)
      BY <1>2, <2>1, <3>1, <3>3 DEF OwnFiles
    <3>5. \A p \in job[r].made \cap DOMAIN disk : p \in i.made
      BY <2>1, <3>1
    <3>6. UNCHANGED <<gui, disk>>
      BY <2>1, <2>3
    <3> QED BY <1>1, <2>1, <3>2, <3>4, <3>5, <3>6, QuietStep
  <2> QED BY <1>12, <2>2, <2>3 DEF Open
<1>13. CASE Progress(r)
  <2>1. /\ pc[r] = "transfer" /\ UNCHANGED <<gui, disk, pc, job>>
        /\ \/ posts' = posts
           \/ posts' = Append(posts, [id |-> r[1], st |-> "downloading", paths |-> {}])
    BY <1>13 DEF Progress, Post
  <2>2. pc' = [pc EXCEPT ![r] = "transfer"] /\ job' = [job EXCEPT ![r] = j]
    BY <1>5, <2>1
  <2>3. OwnFiles(r, "transfer", j, n, disk)
    BY <1>2, <2>1
  <2> QED BY <1>1, <2>1, <2>2, <2>3, QuietStep
<1>17. ASSUME NEW S, NEW l, NEW i, Erase(S), \A p \in S \cap DOMAIN disk : disk[p].by = r,
              pc' = [pc EXCEPT ![r] = l], job' = [job EXCEPT ![r] = i],
              l # "idle" => OwnFiles(r, l, i, n, disk'),
              \A p \in DOMAIN disk \ S : disk[p].by = r => l # "idle" /\ p \in i.made,
              NEW y, posts' = posts \/ posts' = Append(posts, y), y.id = r[1], y.st # "done"
       PROVE  FilesInv'
  <2>1. DOMAIN disk' = DOMAIN disk \ S /\ \A p \in DOMAIN disk' : disk'[p] = disk[p]
    BY <1>17 DEF Erase
  <2>2. OneCopy(disk')
    BY <1>7, <2>1 DEF OneCopy
  <2>3. /\ \A p \in DOMAIN disk : disk[p].by # r => p \in DOMAIN disk' /\ disk'[p] = disk[p]
        /\ \A p \in DOMAIN disk' : disk'[p].by # r => p \in DOMAIN disk /\ disk'[p] = disk[p]
        /\ \A p \in DOMAIN disk' : p \in DOMAIN disk \/ p[2] = n
        /\ \A p \in DOMAIN disk' : disk'[p].by = r => l # "idle" /\ p \in i.made
    BY <1>17, <2>1
  <2>4. \A p \in DOMAIN disk' : disk'[p].by = r =>
          IF l # "idle" THEN p \in i.made ELSE disk'[p].whole /\ (closing \/ Arriving(r[1], posts'))
    BY <2>3
  <2> QED BY <1>1, <1>17, <2>2, <2>3, <2>4, WorkerKeepsFiles
<1>18. CASE PartSaved(r)
  <2>1. /\ pc[r] = "transfer" /\ u \in j.made /\ u[3] = Slot(j)
        /\ u \in DOMAIN disk /\ disk[u].by = r
    BY <1>2, <1>18 DEF PartSaved, OwnFiles
  <2>2. /\ DOMAIN disk' = DOMAIN disk
        /\ \A p \in DOMAIN disk : disk'[p].by = disk[p].by /\ (p # u => disk'[p] = disk[p])
        /\ disk'[u].whole
    <3>1. disk' = [p \in DOMAIN disk |-> IF p = u /\ disk[p].by = r
                                           THEN [disk[p] EXCEPT !.whole = TRUE] ELSE disk[p]]
      BY <1>18 DEF PartSaved
    <3>2. \A p \in DOMAIN disk : disk[p] = [by |-> disk[p].by, whole |-> disk[p].whole]
      BY DiskIs
    <3> HIDE DEF u
    <3> QED BY <2>1, <3>1, <3>2
  <2>3. \A p \in j.made : /\ p \in DOMAIN disk' /\ disk'[p].by = r /\ disk'[p].whole
                          /\ p # u => j.parts > 1 /\ p[3] < j.part
    <3>1. \A p \in j.made \ {u} : /\ p \in DOMAIN disk /\ disk[p].by = r /\ disk[p].whole
                                  /\ j.parts > 1 /\ p[3] < j.part
      BY <1>2, <2>1 DEF OwnFiles, Earlier
    <3> HIDE DEF u, j
    <3> QED BY <2>1, <2>2, <3>1
  <2>4. OneCopy(disk')
    BY <1>7, <2>2 DEF OneCopy
  <2>5. /\ \A p \in DOMAIN disk : disk[p].by # r => p \in DOMAIN disk' /\ disk'[p] = disk[p]
        /\ \A p \in DOMAIN disk' : disk'[p].by # r => p \in DOMAIN disk /\ disk'[p] = disk[p]
        /\ \A p \in DOMAIN disk' : p \in DOMAIN disk \/ p[2] = n
        /\ \A p \in DOMAIN disk' : disk'[p].by = r => p \in j.made
    <3> HIDE DEF u, j
    <3> QED BY <1>3, <2>1, <2>2
  <2> DEFINE y == [id |-> r[1], st |-> "done", paths |-> j.made]
  <2>6. y.id = r[1] /\ (y.st = "done" => Full(y.paths, r, disk'))
    <3>1. \A p \in j.made : disk'[p] = [by |-> r, whole |-> TRUE]
      <4>1. \A p \in DOMAIN disk' : disk'[p] \in [by : Runs, whole : BOOLEAN]
        BY DEF TypeOK
      <4> QED BY <2>3, <4>1
    <3>2. Full(j.made, r, disk')
      BY <2>1, <2>3, <3>1 DEF Full
    <3> QED BY <3>2
  <2>7. CASE j.part < j.parts /\ job' = [job EXCEPT ![r].part = @ + 1] /\ Goto(r, "login") /\ posts' = posts
    <3> DEFINE i == [j EXCEPT !.part = @ + 1]
    <3>1. i.made = j.made /\ i.part = j.part + 1 /\ i.parts = j.parts
      BY <1>4 DEF Job
    <3>2. pc' = [pc EXCEPT ![r] = "login"] /\ job' = [job EXCEPT ![r] = i]
      BY <2>7 DEF Goto
    <3>3. j.parts > 1 /\ u[3] = j.part
      BY <1>4, <2>1, <2>7, Bounds DEF Slot
    <3>4. \A p \in j.made : p[3] \in 0..MaxParts /\ p[2] = n
      BY <1>2, <1>4, <1>6 DEF OwnFiles
    <3> HIDE DEF i, u
    <3>5. \A p \in i.made : /\ p \in DOMAIN disk' /\ disk'[p].by = r /\ disk'[p].whole
                            /\ i.parts > 1 /\ p[3] < i.part /\ p[2] = n
      BY <1>4, <2>3, <3>1, <3>3, <3>4, Bounds
    <3>6. OwnFiles(r, "login", i, n, disk')
      BY <3>5 DEF OwnFiles, Earlier
    <3>7. \A p \in DOMAIN disk' : disk'[p].by = r =>
            IF "login" # "idle" THEN p \in i.made
                                ELSE disk'[p].whole /\ (closing \/ Arriving(r[1], posts'))
      BY <2>5, <3>1
    <3> HIDE DEF y
    <3> QED BY <1>1, <2>4, <2>5, <2>6, <2>7, <3>2, <3>6, <3>7, WorkerKeepsFiles
  <2>8. CASE Post(r, "done", j.made) /\ Goto(r, "idle") /\ job' = [job EXCEPT ![r] = NoJob]
    <3>1. pc' = [pc EXCEPT ![r] = "idle"]
      BY <2>8 DEF Goto
    <3>2. posts' = posts \/ posts' = Append(posts, y)
      BY <2>8 DEF Post
    <3>3. closing \/ Arriving(r[1], posts')
      <4>1. SUFFICES ASSUME posts' = Append(posts, y) PROVE Arriving(r[1], posts')
        BY <2>8 DEF Post
      <4>2. Len(posts) + 1 \in 1..Len(posts') /\ posts'[Len(posts) + 1] = y
        BY <4>1, PostTypes
      <4>3. y.st = "done"
        OBVIOUS
      <4> HIDE DEF y
      <4> QED BY <2>6, <4>2, <4>3 DEF Arriving
    <3>4. \A p \in DOMAIN disk' : disk'[p].by = r =>
            IF "idle" # "idle" THEN p \in NoJob.made
                               ELSE disk'[p].whole /\ (closing \/ Arriving(r[1], posts'))
      BY <2>3, <2>5, <3>3
    <3> HIDE DEF y
    <3> QED BY <1>1, <2>4, <2>5, <2>6, <2>8, <3>1, <3>2, <3>4, WorkerKeepsFiles
  <2> QED BY <1>18, <2>7, <2>8 DEF PartSaved
<1>19. CASE PartLost(r)
  <2>1. /\ pc[r] = "transfer" /\ u \in j.made /\ u \in DOMAIN disk /\ disk[u].by = r
    BY <1>2, <1>19 DEF PartLost, OwnFiles
  <2> DEFINE i == [j EXCEPT !.made = @ \ {u}]
             y == [id |-> r[1], st |-> "failed", paths |-> {}]
  <2>2. i.made = j.made \ {u}
    BY <1>4 DEF Job
  <2>3. /\ pc' = [pc EXCEPT ![r] = "fail"] /\ job' = [job EXCEPT ![r] = i]
        /\ Erase({u}) /\ posts' = posts
    BY <1>19 DEF PartLost, Goto
  <2>4. DOMAIN disk' = DOMAIN disk \ {u} /\ \A p \in DOMAIN disk' : disk'[p] = disk[p]
    BY <2>3 DEF Erase
  <2> HIDE DEF i
  <2>5. OwnFiles(r, "fail", i, n, disk')
    <3>1. \A p \in j.made \ {u} : p \in DOMAIN disk /\ disk[p].by = r /\ disk[p].whole
      BY <1>2, <2>1 DEF OwnFiles, Earlier
    <3>2. \A p \in j.made : p[2] = n
      BY <1>2 DEF OwnFiles
    <3> HIDE DEF u, j
    <3> QED BY <2>2, <2>4, <3>1, <3>2 DEF OwnFiles, Earlier
  <2>6. \A p \in DOMAIN disk \ {u} : disk[p].by = r => "fail" # "idle" /\ p \in i.made
    BY <1>3, <2>2
  <2>7. y.id = r[1] /\ y.st # "done"
    OBVIOUS
  <2> HIDE DEF y, u
  <2> QED BY <1>17, <2>1, <2>3, <2>5, <2>6, <2>7
<1>20. CASE Fail(r)
  <2> DEFINE y == [id |-> r[1], st |-> IF r \in raised THEN "cancelled" ELSE "failed", paths |-> {}]
  <2>1. /\ pc[r] = "fail" /\ pc' = [pc EXCEPT ![r] = "idle"] /\ job' = [job EXCEPT ![r] = NoJob]
        /\ Erase(j.made) /\ (posts' = posts \/ posts' = Append(posts, y))
    BY <1>20 DEF Fail, Goto, Post
  <2>2. y.id = r[1] /\ y.st # "done"
    OBVIOUS
  <2>3. \A p \in j.made \cap DOMAIN disk : disk[p].by = r
    BY <1>2, <2>1 DEF OwnFiles, Earlier
  <2>4. \A p \in DOMAIN disk \ j.made : disk[p].by = r => "idle" # "idle" /\ p \in NoJob.made
    BY <1>3
  <2> HIDE DEF y, j
  <2> QED BY <1>17, <2>1, <2>2, <2>3, <2>4
<1> QED
  BY <1>8, <1>9, <1>10, <1>11, <1>12, <1>13, <1>18, <1>19, <1>20 DEF Worker

-----------------------------------------------------------------------------
LEMMA FilesInit == Init => FilesInv
<1> SUFFICES ASSUME Init PROVE FilesInv
  OBVIOUS
<1>1. DOMAIN disk = {} /\ posts = <<>> /\ \A i \in Ids : st[i] = "absent"
  BY DEF Init
<1>2. Owners /\ OneCopy(disk)
  BY <1>1 DEF Owners, OneCopy
<1>3. NameKnown /\ AllSaved
  BY <1>1 DEF NameKnown, AllSaved
<1>4. Locals /\ Arrivals
  BY DEF Init, Locals, Live, Arrivals
<1> QED BY <1>2, <1>3, <1>4 DEF FilesInv

LEMMA FilesNext ==
  ASSUME NamesApart, EnoughNames
  PROVE  TypeOK /\ TypeOK' /\ QueueInv /\ FilesInv /\ [Next]_vars => FilesInv'
<1> SUFFICES ASSUME TypeOK, TypeOK', QueueInv, FilesInv, [Next]_vars PROVE FilesInv'
  OBVIOUS
<1>1. ASSUME NEW h \in Hosts, NEW n \in NamesOf[h], Enqueue(h, n) PROVE FilesInv'
  BY <1>1, EnqueueFiles
<1>2. ASSUME NEW i \in Ids, CancelWaiting(i) PROVE FilesInv'
  BY <1>2, CancelFiles
<1>3. ASSUME NEW i \in Ids, Retry(i) PROVE FilesInv'
  BY <1>3, RetryFiles
<1>4. ASSUME NEW i \in Ids, Remove(i) PROVE FilesInv'
  BY <1>4, ForgetFiles DEF Remove
<1>5. CASE ClearFinished
  BY <1>5, ForgetFiles DEF ClearFinished
<1>6. CASE Quit
  BY <1>6, QuitFiles
<1>7. CASE Deliver
  BY <1>7, DeliverFiles
<1>8. ASSUME NEW r \in Runs, Worker(r) PROVE FilesInv'
  BY <1>8, WorkersFiles
<1>9. CASE UNCHANGED <<st, host, name, try, saved, nextId, closing, posts, pc, job, disk>>
  BY <1>9 DEF FilesInv, NameKnown, Locals, Live, Owners, Ended, Arrivals, AllSaved
<1>10. ASSUME NEW i \in Ids, CancelRunning(i) PROVE FilesInv'
  BY <1>9, <1>10 DEF CancelRunning, gui
<1>11. ASSUME NEW f \in Folders, SetFolder(f) PROVE FilesInv'
  BY <1>9, <1>11 DEF SetFolder
<1>12. CASE UNCHANGED vars
  BY <1>9, <1>12 DEF vars, gui
<1> QED
  BY <1>1, <1>2, <1>3, <1>4, <1>5, <1>6, <1>7, <1>8, <1>10, <1>11, <1>12 DEF Next, User

LEMMA FilesHold ==
  ASSUME NamesApart, EnoughNames
  PROVE  Spec => [](TypeOK /\ QueueInv /\ FilesInv)
<1>1. TypeOK /\ QueueInv /\ PathPicked /\ FilesInv /\ [Next]_vars
        => (TypeOK /\ QueueInv /\ PathPicked /\ FilesInv)'
  BY InvNext, FilesNext
<1> QED BY <1>1, InvInit, FilesInit, PTL DEF Spec

(* An item shown as saved has all its files, whole and its own: what run() *)
(* saved is neither removed nor opened by any other attempt.               *)
THEOREM SavedFilesStay ==
  ASSUME NamesApart, EnoughNames
  PROVE  Spec => []SavedFilesExist
<1>1. FilesInv => SavedFilesExist
  BY DEF FilesInv, AllSaved, SavedFilesExist
<1> QED BY <1>1, FilesHold, PTL

LEMMA OwnersShow == TypeOK /\ QueueInv /\ FilesInv => NothingLeftBehind
<1> SUFFICES ASSUME TypeOK, QueueInv, FilesInv PROVE NothingLeftBehind
  OBVIOUS
<1>1. ASSUME NEW p \in DOMAIN disk
      PROVE  /\ st[disk[p].by[1]] \notin {"queued", "failed", "cancelled"}
             /\ disk[p].by = <<disk[p].by[1], try[disk[p].by[1]]>>
  <2>1. PICK r \in Runs : r = disk[p].by
    BY DiskIs
  <2>2. r = <<r[1], r[2]>>
    BY RunParts
  <2>3. CASE Live(r)
    BY <2>1, <2>2, <2>3 DEF QueueInv, Current, Active
  <2>4. CASE ~Live(r)
    <3>1. Ended(r)
      BY <2>1, <2>4 DEF FilesInv, Owners
    <3> QED BY <2>1, <2>2, <3>1 DEF Ended, Active
  <2> QED BY <2>3, <2>4
<1>2. (\A r \in Runs : ~Live(r)) => \A p \in DOMAIN disk : disk[p].whole
  BY DiskIs DEF FilesInv, Owners
<1> QED BY <1>1, <1>2 DEF NothingLeftBehind

(* A waiting, failed or cancelled item owns no file, nor does an earlier   *)
(* attempt, and no file is half written once the destructor has waited:    *)
(* run() removes what it had saved before it reports.                      *)
THEOREM NothingIsLeft ==
  ASSUME NamesApart, EnoughNames
  PROVE  Spec => []NothingLeftBehind
BY FilesHold, OwnersShow, PTL

-----------------------------------------------------------------------------
(* What is overwritten, with no hypothesis on the names or their number.   *)

LEMMA NameKnownNext == TypeOK /\ QueueInv /\ NameKnown /\ [Next]_vars => NameKnown'
<1> SUFFICES ASSUME TypeOK, QueueInv, NameKnown, [Next]_vars PROVE NameKnown'
  OBVIOUS
<1>0. /\ st \in [Ids -> States] /\ host \in [Ids -> Hosts \cup {NoHost}]
      /\ name \in [Ids -> Names \cup {NoName}]
  BY DEF TypeOK
<1>1. ASSUME NEW s, NEW hs, NEW ts, Pump(s, hs, ts), NEW i \in Ids, st'[i] # "absent"
      PROVE  s[i] # "absent"
  BY <1>1 DEF Pump, Claimed
<1>2. ASSUME NEW h \in Hosts, NEW n \in NamesOf[h], Enqueue(h, n) PROVE NameKnown'
  <2> DEFINE s == [st EXCEPT ![nextId] = "queued"]
  <2>1. /\ Pump(s, host', try') /\ nextId \in Ids
        /\ host' = [host EXCEPT ![nextId] = h] /\ name' = [name EXCEPT ![nextId] = n]
    BY <1>2 DEF Enqueue
  <2>2. \A i \in Ids : s[i] # "absent" => i = nextId \/ st[i] # "absent"
    BY <1>0
  <2> HIDE DEF s
  <2>3. \A i \in Ids : st'[i] # "absent" => i = nextId \/ st[i] # "absent"
    BY <1>1, <2>1, <2>2
  <2> QED BY <1>0, <2>1, <2>3 DEF NameKnown
<1>3. ASSUME NEW k \in Ids, NEW x, NEW t, st[k] # "absent", UNCHANGED <<host, name>>,
             Pump([st EXCEPT ![k] = x], host, t) \/ st' = [st EXCEPT ![k] = x]
      PROVE  NameKnown'
  <2> DEFINE s == [st EXCEPT ![k] = x]
  <2>1. \A o \in Ids : s[o] # "absent" => st[o] # "absent"
    BY <1>0, <1>3
  <2>2. Pump(s, host, t) \/ st' = s
    BY <1>3
  <2> HIDE DEF s
  <2>3. \A o \in Ids : st'[o] # "absent" => st[o] # "absent"
    BY <1>1, <2>1, <2>2
  <2> QED BY <1>3, <2>3 DEF NameKnown
<1>4. ASSUME NEW k \in Ids, NEW x, NEW ps, Update(k, x, ps), UNCHANGED <<host, name>>
      PROVE  NameKnown'
  <2>1. CASE st[k] = "absent"
    BY <1>4, <2>1 DEF Update, NameKnown
  <2>2. CASE st[k] # "absent"
    <3>1. Pump([st EXCEPT ![k] = x], host, try) \/ st' = [st EXCEPT ![k] = x]
      BY <1>4, <2>2 DEF Update
    <3> QED BY <1>3, <1>4, <2>2, <3>1
  <2> QED BY <2>1, <2>2
<1>5. ASSUME NEW i \in Ids, CancelWaiting(i) PROVE NameKnown'
  BY <1>4, <1>5 DEF CancelWaiting
<1>6. ASSUME NEW i \in Ids, Retry(i) PROVE NameKnown'
  <2>1. /\ Pump([st EXCEPT ![i] = "queued"], host, try') /\ st[i] # "absent"
        /\ UNCHANGED <<host, name>>
    BY <1>6 DEF Retry
  <2> QED BY <1>3, <2>1
<1>7. CASE Deliver
  <2>1. Head(posts).id \in Ids
    BY <1>7, PostTypes DEF Deliver
  <2> QED BY <1>4, <1>7, <2>1 DEF Deliver
<1>8. ASSUME NEW S, Forget(S) PROVE NameKnown'
  BY <1>8 DEF Forget, NameKnown
<1>9. CASE UNCHANGED <<st, host, name>>
  BY <1>9 DEF NameKnown
<1>10. ASSUME NEW r \in Runs, Worker(r) PROVE UNCHANGED <<st, host, name>>
  BY <1>10 DEF Worker, Begin, Prepared, Login, PickPath, Open, Progress, PartSaved, PartLost, Fail, gui
<1> QED
  BY <1>2, <1>5, <1>6, <1>7, <1>8, <1>9, <1>10
     DEF Next, User, CancelRunning, Remove, ClearFinished, SetFolder, Quit, vars, gui

(* Two attempts at work have one file name only if two NVRs share it.      *)
LEMMA OnlySharedNamesMeet ==
  ASSUME QueueInv, NameKnown, NEW r \in Runs, NEW q \in Runs, Live(r), Live(q), r # q,
         name[r[1]] = name[q[1]]
  PROVE  Shared(name[q[1]])
<1>1. /\ r[1] \in Ids /\ st[r[1]] \in Active /\ r[2] = try[r[1]]
      /\ q[1] \in Ids /\ st[q[1]] \in Active /\ q[2] = try[q[1]]
  BY RunParts DEF QueueInv, Current
<1>2. r[1] # q[1]
  BY <1>1, RunParts
<1>3. host[r[1]] # host[q[1]]
  BY <1>1, <1>2 DEF QueueInv, OneActive
<1>4. /\ host[r[1]] \in Hosts /\ name[r[1]] \in NamesOf[host[r[1]]]
      /\ host[q[1]] \in Hosts /\ name[q[1]] \in NamesOf[host[q[1]]]
  BY <1>1 DEF NameKnown, Active
<1> QED BY <1>3, <1>4 DEF Shared

(* The files of an attempt have its item's name; and the path it is about  *)
(* to open is free, unless the name is shared or had no free number left.  *)
SafePath(r) == Shared(name[r[1]]) \/ job[r].path \notin DOMAIN disk \/ AllTaken(job[r].path)

OwnPaths(r) ==
  /\ \A p \in job[r].made : p[2] = name[r[1]]
  /\ pc[r] \in {"open", "transfer"} => job[r].path \in job[r].made
  /\ pc[r] = "open" => SafePath(r)

PathsInv == \A r \in Runs : Live(r) => OwnPaths(r)

(* uniquePath() gives the plain name only when every number is taken.      *)
LEMMA UniquePathIsFree ==
  ASSUME NEW r \in Runs
  PROVE  /\ UniquePath(r)[2] = name[r[1]]
         /\ UniquePath(r) \notin DOMAIN disk \/ AllTaken(UniquePath(r))
<1> DEFINE at(n) == <<job[r].dir, name[r[1]], IF job[r].parts > 1 THEN job[r].part ELSE 0, n>>
           free == {n \in 1..MaxCopies : at(n) \notin DOMAIN disk}
           first == CHOOSE n \in free : \A m \in free : n <= m
<1>1. CASE free = {}
  <2>1. UniquePath(r) = at(1)
    BY <1>1 DEF UniquePath
  <2>2. \A n \in 1..MaxCopies : at(n) \in DOMAIN disk
    BY <1>1
  <2>3. /\ at(1)[2] = name[r[1]]
        /\ \A n : <<at(1)[1], at(1)[2], at(1)[3], n>> = at(n)
    OBVIOUS
  <2> HIDE DEF at
  <2>4. AllTaken(at(1))
    BY <2>2, <2>3 DEF AllTaken
  <2> QED BY <2>1, <2>3, <2>4
<1>2. CASE free # {}
  <2>1. free \subseteq Nat
    BY Bounds
  <2>2. \E n \in free : \A m \in free : n <= m
    BY <1>2, <2>1, LeastExists
  <2>3. first \in free
    BY <2>2
  <2>4. UniquePath(r) = at(first)
    BY <1>2 DEF UniquePath
  <2>5. at(first)[2] = name[r[1]] /\ at(first) \notin DOMAIN disk
    BY <2>3
  <2> QED BY <2>4, <2>5
<1> QED BY <1>1, <1>2

(* A slot leaves the workers alone, or starts some that have no file yet.  *)
LEMMA SlotKeepsPaths ==
  ASSUME PathsInv, disk' = disk,
         \A r \in Runs : Live(r) => name'[r[1]] = name[r[1]],
         \A r \in Runs : \/ pc'[r] = pc[r] /\ job'[r] = job[r]
                         \/ pc'[r] = "pooled" /\ job'[r].made = {}
  PROVE  PathsInv'
<1> SUFFICES ASSUME NEW r \in Runs, Live(r)' PROVE OwnPaths(r)'
  BY DEF PathsInv
<1>1. CASE pc'[r] = pc[r] /\ job'[r] = job[r]
  <2>1. Live(r) /\ name'[r[1]] = name[r[1]]
    BY <1>1 DEF Live
  <2>2. OwnPaths(r)
    BY <2>1 DEF PathsInv
  <2>3. AllTaken(job[r].path) => AllTaken(job[r].path)'
    BY <1>1 DEF AllTaken
  <2> QED BY <1>1, <2>1, <2>2, <2>3 DEF OwnPaths, SafePath
<1>2. CASE pc'[r] = "pooled" /\ job'[r].made = {}
  BY <1>2 DEF OwnPaths
<1> QED BY <1>1, <1>2

(* A worker touches only files of its item's name.                         *)
LEMMA WorkerKeepsPaths ==
  ASSUME QueueInv, NameKnown, PathsInv, NEW r \in Runs, Live(r), UNCHANGED name,
         \A q \in Runs \ {r} : pc'[q] = pc[q] /\ job'[q] = job[q],
         \A p : p[2] # name[r[1]] => (p \in DOMAIN disk' <=> p \in DOMAIN disk),
         Live(r)' => OwnPaths(r)'
  PROVE  PathsInv'
<1> SUFFICES ASSUME NEW q \in Runs \ {r}, Live(q)' PROVE OwnPaths(q)'
  BY DEF PathsInv
<1>1. Live(q) /\ pc'[q] = pc[q] /\ job'[q] = job[q] /\ name'[q[1]] = name[q[1]]
  BY DEF Live
<1>2. OwnPaths(q)
  BY <1>1 DEF PathsInv
<1>3. ASSUME pc[q] = "open", ~Shared(name[q[1]]) PROVE SafePath(q)'
  <2> DEFINE p == job[q].path
  <2>1. p[2] = name[q[1]] /\ p[2] # name[r[1]]
    BY <1>1, <1>2, <1>3, OnlySharedNamesMeet DEF OwnPaths
  <2>2. p \notin DOMAIN disk \/ AllTaken(p)
    BY <1>2, <1>3 DEF OwnPaths, SafePath
  <2> HIDE DEF p
  <2>3. p \notin DOMAIN disk => p \notin DOMAIN disk'
    BY <2>1
  <2>4. \A n : <<p[1], p[2], p[3], n>>[2] # name[r[1]]
    BY <2>1
  <2>5. AllTaken(p) => \A n \in 1..MaxCopies : <<p[1], p[2], p[3], n>> \in DOMAIN disk'
    BY <2>4 DEF AllTaken
  <2> QED BY <1>1, <2>2, <2>3, <2>5 DEF SafePath, AllTaken, p
<1>4. Shared(name[q[1]]) => SafePath(q)'
  BY <1>1 DEF SafePath
<1> QED BY <1>1, <1>2, <1>3, <1>4 DEF OwnPaths

LEMMA WorkersPaths ==
  ASSUME TypeOK, QueueInv, NameKnown, PathsInv, NEW r \in Runs, Worker(r)
  PROVE  PathsInv'
<1>0. /\ pc \in [Runs -> Phases] /\ job \in [Runs -> Job]
  BY TypeParts DEF WorkTypes
<1>1. /\ Live(r) /\ OwnPaths(r) /\ name' = name
      /\ \A q \in Runs \ {r} : pc'[q] = pc[q] /\ job'[q] = job[q]
  BY <1>0 DEF Worker, Begin, Prepared, Login, PickPath, Open, Progress, PartSaved, PartLost, Fail,
              Goto, gui, Live, PathsInv
<1>2. \A p : p[2] # name[r[1]] => (p \in DOMAIN disk' <=> p \in DOMAIN disk)
  <2>1. CASE UNCHANGED disk
    BY <2>1
  <2>2. CASE Open(r) \/ PartLost(r)
    BY <1>1, <2>2 DEF Open, PartLost, Create, Erase, OwnPaths
  <2>3. CASE PartSaved(r)
    BY <2>3 DEF PartSaved
  <2>4. CASE Fail(r)
    BY <1>1, <2>4 DEF Fail, Erase, OwnPaths
  <2> QED BY <2>1, <2>2, <2>3, <2>4 DEF Worker, Begin, Prepared, Login, PickPath, Progress
<1>3. ASSUME Live(r)' PROVE OwnPaths(r)'
  <2>1. CASE PickPath(r)
    <3>1. /\ pc'[r] = "open" /\ disk' = disk
          /\ job'[r].path = UniquePath(r) /\ job'[r].made = job[r].made \cup {UniquePath(r)}
      BY <1>0, <2>1 DEF PickPath, Goto, Job
    <3>2. UniquePath(r) \notin DOMAIN disk \/ AllTaken(UniquePath(r))
      BY UniquePathIsFree
    <3>3. SafePath(r)'
      BY <3>1, <3>2 DEF SafePath, AllTaken
    <3> QED BY <1>1, <3>1, <3>3, UniquePathIsFree DEF OwnPaths
  <2>2. CASE ~PickPath(r)
    <3>1. pc'[r] # "open"
      BY <1>0, <2>2 DEF Worker, Begin, Prepared, Login, Open, Progress, PartSaved, PartLost, Fail, Goto
    <3>2. job'[r].made \subseteq job[r].made
      <4>1. PartLost(r) \/ Open(r) => job'[r].made \subseteq job[r].made
        BY <1>0 DEF PartLost, Open, Job
      <4>2. Prepared(r) => job'[r].made = job[r].made
        BY <1>0 DEF Prepared, Job
      <4>3. PartSaved(r) => job'[r].made = job[r].made
        <5>1. PartSaved(r) => job' = [job EXCEPT ![r].part = @ + 1]
          BY <1>0, <1>3 DEF PartSaved, Goto, Live
        <5> QED BY <1>0, <5>1 DEF Job
      <4>4. ~Fail(r)
        BY <1>0, <1>3 DEF Fail, Goto, Live
      <4>5. Begin(r) \/ Login(r) \/ Progress(r) => job'[r].made = job[r].made
        BY DEF Begin, Login, Progress
      <4> QED BY <2>2, <4>1, <4>2, <4>3, <4>4, <4>5 DEF Worker
    <3>3. pc'[r] = "transfer" => job'[r] = job[r] /\ pc[r] \in {"open", "transfer"}
      BY <1>0, <2>2 DEF Worker, Begin, Prepared, Login, Open, Progress, PartSaved, PartLost, Fail, Goto
    <3> QED BY <1>1, <3>1, <3>2, <3>3 DEF OwnPaths
  <2> QED BY <2>1, <2>2
<1> QED BY <1>1, <1>2, <1>3, WorkerKeepsPaths

LEMMA PathsNext ==
  TypeOK /\ QueueInv /\ NameKnown /\ PathsInv /\ [Next]_vars => PathsInv'
<1> SUFFICES ASSUME TypeOK, QueueInv, NameKnown, PathsInv, [Next]_vars PROVE PathsInv'
  OBVIOUS
<1>0. name \in [Ids -> Names \cup {NoName}] /\ \A r \in Runs : Live(r) => r[1] \in Ids /\ st[r[1]] \in Active
  BY RunParts DEF TypeOK, QueueInv, Current
<1>1. ASSUME NEW s, NEW hs, NEW ts, Pump(s, hs, ts), NEW r \in Runs
      PROVE  \/ pc'[r] = pc[r] /\ job'[r] = job[r]
             \/ pc'[r] = "pooled" /\ job'[r].made = {}
  <2>1. [NoJob EXCEPT !.dir = folder].made = {}
    BY DEF NoJob
  <2> QED BY <1>1, <2>1 DEF Pump
<1>2. ASSUME NEW i, NEW x, NEW paths, Update(i, x, paths), UNCHANGED <<name, disk>> PROVE PathsInv'
  <2>1. CASE UNCHANGED <<pc, job>>
    BY <1>2, <2>1, SlotKeepsPaths
  <2>2. CASE Pump([st EXCEPT ![i] = x], host, try)
    BY <1>1, <1>2, <2>2, SlotKeepsPaths
  <2> QED BY <1>2, <2>1, <2>2 DEF Update
<1>3. ASSUME NEW h \in Hosts, NEW n \in NamesOf[h], Enqueue(h, n) PROVE PathsInv'
  <2>1. /\ nextId \in Ids /\ name' = [name EXCEPT ![nextId] = n] /\ disk' = disk
        /\ Pump([st EXCEPT ![nextId] = "queued"], host', try')
    BY <1>3 DEF Enqueue
  <2>2. st[nextId] = "absent"
    BY <2>1, Bounds DEF QueueInv, ListedItems, Ids
  <2>3. \A r \in Runs : Live(r) => name'[r[1]] = name[r[1]]
    BY <1>0, <2>1, <2>2 DEF Active
  <2> QED BY <1>1, <2>1, <2>3, SlotKeepsPaths
<1>4. ASSUME NEW i \in Ids, Retry(i) PROVE PathsInv'
  <2>1. /\ Pump([st EXCEPT ![i] = "queued"], host, try') /\ UNCHANGED <<name, disk>>
    BY <1>4 DEF Retry
  <2> QED BY <1>1, <2>1, SlotKeepsPaths
<1>5. ASSUME NEW S \in SUBSET Ids, \A i \in S : st[i] \in Final, Forget(S) PROVE PathsInv'
  <2>1. \A r \in Runs : Live(r) => name'[r[1]] = name[r[1]]
    BY <1>0, <1>5 DEF Forget, Active, Final
  <2>2. UNCHANGED <<pc, job, disk>>
    BY <1>5 DEF Forget
  <2> QED BY <2>1, <2>2, SlotKeepsPaths
<1>6. CASE UNCHANGED <<name, pc, job, disk>>
  BY <1>6, SlotKeepsPaths
<1>7. ASSUME NEW i \in Ids, Remove(i) PROVE PathsInv'
  BY <1>5, <1>7 DEF Remove
<1>8. CASE ClearFinished
  BY <1>5, <1>8 DEF ClearFinished
<1>9. CASE Deliver
  BY <1>2, <1>9 DEF Deliver
<1>10. ASSUME NEW i \in Ids, CancelWaiting(i) PROVE PathsInv'
  BY <1>2, <1>10 DEF CancelWaiting
<1>11. ASSUME NEW r \in Runs, Worker(r) PROVE PathsInv'
  BY <1>11, WorkersPaths
<1> QED
  BY <1>3, <1>4, <1>6, <1>7, <1>8, <1>9, <1>10, <1>11
     DEF Next, User, CancelRunning, SetFolder, Quit, vars, gui

(* A file changes its creator only when another attempt opens its path.    *)
LEMMA CreateClashes ==
  ASSUME TypeOK, PathsInv, [Next]_vars, NEW p \in DOMAIN disk \cap DOMAIN disk',
         disk'[p].by # disk[p].by
  PROVE  Shared(p[2]) \/ AllTaken(p)
<1>1. ~UNCHANGED disk
  OBVIOUS
<1>2. User \/ Deliver \/ UNCHANGED vars => UNCHANGED disk
  BY DEF User, Enqueue, CancelWaiting, CancelRunning, Retry, Remove, ClearFinished, Forget, SetFolder,
         Quit, Deliver, vars
<1>3. PICK r \in Runs : Worker(r)
  BY <1>1, <1>2 DEF Next
<1>4. ~\E S : Erase(S)
  BY DEF Erase
<1>5. ~PartSaved(r)
  <2>1. disk[p] = [by |-> disk[p].by, whole |-> disk[p].whole]
    BY DiskIs
  <2> QED BY <2>1 DEF PartSaved
<1>6. Open(r)
  BY <1>1, <1>3, <1>4, <1>5 DEF Worker, Begin, Prepared, Login, PickPath, Progress, PartLost, Fail
<1>7. p = job[r].path /\ pc[r] = "open"
  BY <1>6 DEF Open, Create
<1>8. OwnPaths(r)
  BY <1>7 DEF PathsInv, Live
<1> QED BY <1>7, <1>8 DEF OwnPaths, SafePath

(* uniquePath() looks and downloadToFile() opens later, yet an attempt can *)
(* open a file of another only if two NVRs give their items that name, or  *)
(* if every number of the name is taken: for all names and numbers.        *)
THEOREM OnlySharedNamesOverwrite == Spec => OnlySharedNamesClash
<1>1. Init => NameKnown /\ PathsInv
  BY DEF Init, NameKnown, PathsInv, Live
<1>2. TypeOK /\ QueueInv /\ PathPicked /\ NameKnown /\ PathsInv /\ [Next]_vars
        => (TypeOK /\ QueueInv /\ PathPicked /\ NameKnown /\ PathsInv)'
  BY InvNext, NameKnownNext, PathsNext
<1>3. TypeOK /\ PathsInv /\ [Next]_vars
        => [\A p \in DOMAIN disk \cap DOMAIN disk' :
              disk'[p].by # disk[p].by => Shared(p[2]) \/ AllTaken(p)]_vars
  BY CreateClashes
<1> QED BY <1>1, <1>2, <1>3, InvInit, PTL DEF Spec, OnlySharedNamesClash
=============================================================================
