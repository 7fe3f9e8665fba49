------------------------- MODULE DownloadQueueProps -------------------------
(***************************************************************************)
(* What must be true of the download queue.                                *)
(***************************************************************************)
EXTENDS DownloadQueue

Phases == {"idle", "pooled", "prepare", "login", "name", "open", "transfer", "fail"}

(* Types of the variables of the download queue.                           *)
TypeOK ==
  /\ st \in [Ids -> States]
  /\ host \in [Ids -> Hosts \cup {NoHost}]
  /\ name \in [Ids -> Names \cup {NoName}]
  /\ try \in [Ids -> Tries]
  /\ saved \in [Ids -> SUBSET Paths]
  /\ nextId \in 1..(MaxItems + 1)
  /\ folder \in Folders
  /\ closing \in BOOLEAN
  /\ raised \subseteq Runs
  /\ posts \in Seq([id : Ids, st : States, paths : SUBSET Paths])
  /\ pc \in [Runs -> Phases]
  /\ job \in [Runs -> [dir : Folders, part : 1..MaxParts, parts : 1..MaxParts,
                       path : Paths \cup {NoPath}, made : SUBSET Paths]]
  /\ DOMAIN disk \subseteq Paths
  /\ \A p \in DOMAIN disk : disk[p] \in [by : Runs, whole : BOOLEAN]

Live(r) == pc[r] # "idle"

-----------------------------------------------------------------------------
(* The NVRs                                                                *)

(* No two workers are ever busy with the same NVR, not even the worker of  *)
(* a cancelled item and the one of its retry, whatever the user clicks and *)
(* however late the results are delivered ("An NVR serves one download at  *)
(* a time", DownloadPlan.h).                                               *)
OneWorkerPerNvr ==
  \A r, q \in Runs : Live(r) /\ Live(q) /\ host[r[1]] = host[q[1]] => r = q

(* No queued item waits while its NVR is idle: whichever event made the    *)
(* NVR free, pump() ran after it.                                          *)
NoIdleNvr ==
  \A i \in Ids : st[i] = "queued" => Busy(st, host, host[i])

(* An item shown as running has either its worker, or a result of that     *)
(* worker still to be delivered, never both and never neither: it cannot   *)
(* stay "Preparing" for ever and a second result cannot reach it.          *)
ResultsOf(i) == {k \in 1..Len(posts) : posts[k].id = i /\ posts[k].st \in Final}

RunningIsAccounted ==
  ~closing => \A i \in Ids :
    IF st[i] \in Active
      THEN \/ Live(<<i, try[i]>>) /\ ResultsOf(i) = {}
           \/ ~Live(<<i, try[i]>>) /\ Cardinality(ResultsOf(i)) = 1
      ELSE /\ ~Live(<<i, try[i]>>)
           /\ \A k \in 1..Len(posts) : posts[k].id # i

(* The queue implements the promise of NvrSlots: one request at a time for *)
(* each NVR, oldest first.                                                 *)
Waiting == {<<i, host[i]>> : i \in {k \in Ids : st[k] = "queued"}}
Serving == {<<r[1], host[r[1]]>> : r \in {q \in Runs : Live(q)}}

Slots == INSTANCE NvrSlots WITH waiting <- Waiting, serving <- Serving
ServesInOrder == Slots!Spec

-----------------------------------------------------------------------------
(* The files                                                               *)

(* A name that items of two NVRs can get: it starts with the site, which   *)
(* is the NVR's name as the user has chosen it.                            *)
Shared(n) == \E g, h \in Hosts : g # h /\ n \in NamesOf[g] \cap NamesOf[h]

(* An item shown as saved has all its files, whole and its own, whatever   *)
(* other attempts, its own earlier one among them, create and remove in    *)
(* the same folder - unless its name is shared.                            *)
SavedFilesExist ==
  \A i \in Ids : st[i] = "done" /\ ~Shared(name[i]) =>
    /\ saved[i] # {}
    /\ \A p \in saved[i] : p \in DOMAIN disk /\ disk[p] = [by |-> <<i, try[i]>>, whole |-> TRUE]

(* A failed, cancelled or waiting item owns no file: whatever an attempt   *)
(* had saved was removed before its result was shown ("whatever it had     *)
(* saved so far is removed", DownloadQueue.h), also for an earlier attempt *)
(* and for the first parts of a range in several files; and when the       *)
(* program is left, the destructor waits until no file is half written.    *)
NothingLeftBehind ==
  /\ \A p \in DOMAIN disk :
       LET i == disk[p].by[1] IN
       /\ st[i] \notin {"queued", "failed", "cancelled"}
       /\ st[i] # "absent" => disk[p].by = <<i, try[i]>>
  /\ closing /\ (\A r \in Runs : ~Live(r)) => \A p \in DOMAIN disk : disk[p].whole

(* What the code keeps of "An existing file is never overwritten"          *)
(* (CHANGELOG.md:116): uniquePath() looks and downloadToFile() opens later,*)
(* so an attempt can open a file of another only if two NVRs share that    *)
(* name, or if every number of it is taken.                                *)
AllTaken(p) == \A n \in 1..MaxCopies : <<p[1], p[2], p[3], n>> \in DOMAIN disk

OnlySharedNamesClash ==
  [][\A p \in DOMAIN disk \cap DOMAIN disk' :
       disk'[p].by # disk[p].by => Shared(p[2]) \/ AllTaken(p)]_vars

-----------------------------------------------------------------------------
(* Progress                                                                *)

(* Every item that waits or runs gets a result, however many items and     *)
(* NVRs compete for the threads of the pool; and the destructor's wait for *)
(* the pool ends.                                                          *)
EverythingEnds ==
  /\ \A i \in Ids : st[i] \in {"queued"} \cup Active ~> st[i] \in Final \/ closing
  /\ closing ~> \A r \in Runs : ~Live(r)
=============================================================================
