--------------------------- MODULE DownloadQueue ---------------------------
(***************************************************************************)
(* The download queue (device/DownloadQueue.cpp, device/DownloadPlan.h):   *)
(* a list of items kept by the GUI thread, one worker per started item in  *)
(* a thread pool, and the save folder they share.                          *)
(*                                                                         *)
(* The GUI thread handles one event at a time, so a slot of the queue      *)
(* (enqueue, cancel, retry, ...) is one action.  A worker runs run() and   *)
(* reaches the GUI thread only through queued calls of update(), which are *)
(* delivered in the order they were posted.  A worker's steps are split at *)
(* every network call, at every access to the shared folder and at every   *)
(* read of the cancel flag.                                                *)
(*                                                                         *)
(* Items are kept by id.  Ids only grow, items are appended and erased,    *)
(* never moved, so the order of the list is the order of the ids.          *)
(***************************************************************************)
EXTENDS Integers, Sequences, FiniteSets

CONSTANTS
  Hosts,        \* the NVRs
  NamesOf,      \* host -> the file names (site_camera_start) its items can get
  Folders,      \* the save folders the user can choose
  NoHost, NoName, NoPath,  \* an item that is not in the list
  MaxItems,     \* bound: items ever enqueued
  MaxTries,     \* bound: runs of one item (the first one and its retries)
  MaxParts,     \* bound: recording files one range is split into
  MaxCopies,    \* highest number uniquePath() tries (999 in the code)
  MaxPosts,     \* bound: progress is not posted to a longer queue than this
  PoolSize      \* threads of the pool (4 in the code)

Ids   == 1..MaxItems
Tries == 1..MaxTries
Runs  == Ids \X Tries           \* one attempt at one item
Names == UNION {NamesOf[h] : h \in Hosts}

(* dir/name_partP_N.mp4; P is 0 for a range in one file, N is 1 for the    *)
(* plain name.                                                             *)
Paths == Folders \X Names \X (0..MaxParts) \X (1..MaxCopies)

ASSUME DownloadAssumption ==
  /\ NamesOf \in [Hosts -> SUBSET Names]
  /\ NoHost \notin Hosts /\ NoName \notin Names /\ NoPath \notin Paths
  /\ {MaxItems, MaxTries, MaxParts, MaxCopies, PoolSize} \subseteq Nat \ {0}
  /\ MaxPosts \in Nat

Final  == {"done", "failed", "cancelled"}
Active == {"preparing", "downloading"}           \* dlActive()
States == {"absent", "queued"} \cup Active \cup Final

VARIABLES
  \* GUI thread
  st,       \* id -> DlState, "absent" when the id is not in the list
  host,     \* id -> its NVR
  name,     \* id -> the file name of its site, camera and start
  try,      \* id -> which attempt (and so which cancel flag) is its current one
  saved,    \* id -> Item::paths
  nextId,
  folder,
  closing,  \* the destructor has begun: no GUI event is handled any more
  \* between the threads
  raised,   \* the attempts whose cancel flag is set
  posts,    \* queued calls of update()
  \* workers, and the file system
  pc,       \* attempt -> where run() is, "idle" before and after it
  job,      \* attempt -> the locals of run()
  disk      \* existing path -> which attempt created it, and whether it is whole

gui  == <<st, host, name, try, saved, nextId, folder, closing>>
vars == <<gui, raised, posts, pc, job, disk>>

NoJob == [dir |-> CHOOSE f \in Folders : TRUE, part |-> 1, parts |-> 1,
          path |-> NoPath, made |-> {}]

Init ==
  /\ st     = [i \in Ids |-> "absent"]
  /\ host   = [i \in Ids |-> NoHost]
  /\ name   = [i \in Ids |-> NoName]
  /\ try    = [i \in Ids |-> 1]
  /\ saved  = [i \in Ids |-> {}]
  /\ nextId = 1
  /\ folder \in Folders
  /\ closing = FALSE
  /\ raised = {}
  /\ posts  = <<>>
  /\ pc     = [r \in Runs |-> "idle"]
  /\ job    = [r \in Runs |-> NoJob]
  /\ disk   = [p \in {} |-> {}]

-----------------------------------------------------------------------------
(* nextRunnable() and pump()                                               *)

(* Mutant: an item that is only preparing does not keep its NVR busy.      *)
BusyWhenLoading(s, hs, h) == \E o \in Ids : hs[o] = h /\ s[o] = "downloading"

(* A host that already has a claimed item is busy.                         *)
Busy(s, hs, h) == \E o \in Ids : hs[o] = h /\ s[o] \in Active

(* Mutant: the newest waiting item goes first.                             *)
ClaimedNewest(s, hs) ==
  {i \in Ids : /\ s[i] = "queued"
               /\ ~Busy(s, hs, hs[i])
               /\ ~\E o \in (i + 1)..MaxItems : hs[o] = hs[i] /\ s[o] = "queued"}

(* Items pump() claims: its loop takes the oldest queued item of an idle   *)
(* host until there is none, so one item for each idle host.               *)
Claimed(s, hs) ==
  {i \in Ids : /\ s[i] = "queued"
               /\ ~Busy(s, hs, hs[i])
               /\ ~\E o \in 1..(i - 1) : hs[o] = hs[i] /\ s[o] = "queued"}

(* pump() applied to item states s, hosts hs and attempts ts: the claimed  *)
(* items turn to Preparing, and a worker is queued in the pool with a copy *)
(* of the item and of the folder.                                          *)
Pump(s, hs, ts) ==
  LET started == {<<i, ts[i]>> : i \in Claimed(s, hs)} IN
  /\ st'  = [i \in Ids |-> IF i \in Claimed(s, hs) THEN "preparing" ELSE s[i]]
  /\ pc'  = [r \in Runs |-> IF r \in started THEN "pooled" ELSE pc[r]]
  /\ job' = [r \in Runs |-> IF r \in started THEN [NoJob EXCEPT !.dir = folder] ELSE job[r]]

(* Mutant: a result frees the NVR and nobody pumps.                        *)
UpdateWithoutPump(i, s, paths) ==
  IF st[i] = "absent"
    THEN UNCHANGED <<st, saved, pc, job>>
    ELSE /\ saved' = [saved EXCEPT ![i] = IF paths = {} THEN @ ELSE paths]
         /\ st' = [st EXCEPT ![i] = s]
         /\ UNCHANGED <<pc, job>>

(* update(): no pump unless the item has just become final.                *)
Update(i, s, paths) ==
  IF st[i] = "absent"
    THEN UNCHANGED <<st, saved, pc, job>>
    ELSE /\ saved' = [saved EXCEPT ![i] = IF paths = {} THEN @ ELSE paths]
         /\ IF s \in Final /\ st[i] \notin Final
              THEN Pump([st EXCEPT ![i] = s], host, try)
              ELSE st' = [st EXCEPT ![i] = s] /\ UNCHANGED <<pc, job>>

-----------------------------------------------------------------------------
(* Slots of the GUI thread                                                 *)

(* enqueue() of a usable range of a usable camera.                         *)
Enqueue(h, n) ==
  /\ ~closing /\ nextId \in Ids
  /\ nextId' = nextId + 1
  /\ host' = [host EXCEPT ![nextId] = h]
  /\ name' = [name EXCEPT ![nextId] = n]
  /\ Pump([st EXCEPT ![nextId] = "queued"], host', try)
  /\ UNCHANGED <<try, saved, folder, closing, raised, posts, disk>>

(* cancel(): a waiting item is dropped at once; a running one only gets    *)
(* its flag set, the worker reports back.                                  *)
CancelWaiting(i) ==
  /\ ~closing /\ st[i] = "queued"
  /\ Update(i, "cancelled", {})
  /\ UNCHANGED <<host, name, try, nextId, folder, closing, raised, posts, disk>>

(* Mutant: a running item is shown as cancelled before its worker ends.    *)
CancelAtOnce(i) ==
  /\ ~closing /\ st[i] \in Active
  /\ raised' = raised \cup {<<i, try[i]>>}
  /\ Update(i, "cancelled", {})
  /\ UNCHANGED <<host, name, try, nextId, folder, closing, posts, disk>>

CancelRunning(i) ==
  /\ ~closing /\ st[i] \in Active
  /\ raised' = raised \cup {<<i, try[i]>>}
  /\ UNCHANGED <<gui, posts, pc, job, disk>>

(* retry(): a fresh cancel flag, no paths, back in the queue at its place. *)
Retry(i) ==
  /\ ~closing /\ st[i] \in {"failed", "cancelled"} /\ try[i] < MaxTries
  /\ try' = [try EXCEPT ![i] = @ + 1]
  /\ saved' = [saved EXCEPT ![i] = {}]
  /\ Pump([st EXCEPT ![i] = "queued"], host, try')
  /\ raised' = raised \ {<<i, try[i]>>}
  /\ UNCHANGED <<host, name, nextId, folder, closing, posts, disk>>

(* remove() of one finished item, and clearFinished() of all of them: the   *)
(* cancel flag goes with its item.                                         *)
Forget(S) ==
  /\ st' = [i \in Ids |-> IF i \in S THEN "absent" ELSE st[i]]
  /\ host' = [i \in Ids |-> IF i \in S THEN NoHost ELSE host[i]]
  /\ name' = [i \in Ids |-> IF i \in S THEN NoName ELSE name[i]]
  /\ saved' = [i \in Ids |-> IF i \in S THEN {} ELSE saved[i]]
  /\ raised' = {r \in raised : r[1] \notin S}
  /\ UNCHANGED <<try, nextId, folder, closing, posts, pc, job, disk>>

Remove(i) == ~closing /\ st[i] \in Final /\ Forget({i})

ClearFinished == ~closing /\ Forget({i \in Ids : st[i] \in Final})

SetFolder(f) ==
  /\ ~closing /\ f # folder
  /\ folder' = f
  /\ UNCHANGED <<st, host, name, try, saved, nextId, closing, raised, posts, pc, job, disk>>

(* The GUI thread runs the oldest queued call of update().                 *)
Deliver ==
  /\ ~closing /\ posts # <<>>
  /\ Update(Head(posts).id, Head(posts).st, Head(posts).paths)
  /\ posts' = Tail(posts)
  /\ UNCHANGED <<host, name, try, nextId, folder, closing, raised, disk>>

(* The destructor: every flag is set, then the GUI thread waits for the    *)
(* pool.  Calls still queued for the object are never delivered.           *)
Quit ==
  /\ ~closing
  /\ closing' = TRUE
  /\ raised' = raised \cup {<<i, try[i]>> : i \in {k \in Ids : st[k] # "absent"}}
  /\ posts' = <<>>
  /\ UNCHANGED <<st, host, name, try, saved, nextId, folder, pc, job, disk>>

-----------------------------------------------------------------------------
(* run() on a pool thread: attempt r = <<id, try>>                         *)

Post(r, s, paths) ==
  posts' = IF closing THEN posts
           ELSE Append(posts, [id |-> r[1], st |-> s, paths |-> paths])

Goto(r, l) == pc' = [pc EXCEPT ![r] = l]
Running    == {r \in Runs : pc[r] \notin {"idle", "pooled"}}

Create(p, r) ==
  disk' = [q \in DOMAIN disk \cup {p} |->
             IF q = p THEN [by |-> r, whole |-> FALSE] ELSE disk[q]]
Erase(S) == disk' = [q \in DOMAIN disk \ S |-> disk[q]]

(* A pool thread takes the task; mkpath() may fail.                        *)
Begin(r) ==
  /\ pc[r] = "pooled" /\ Cardinality(Running) < PoolSize
  /\ Goto(r, "prepare") \/ Goto(r, "fail")
  /\ UNCHANGED <<gui, raised, posts, job, disk>>

(* callSlow() returns: cancelled, an error, no recording, no space, or the *)
(* list of files the NVR cut.                                              *)
Prepared(r) ==
  /\ pc[r] = "prepare"
  /\ \/ Goto(r, "fail") /\ UNCHANGED job
     \/ /\ r \notin raised
        /\ \E k \in 1..MaxParts : job' = [job EXCEPT ![r].parts = k]
        /\ Goto(r, "login")
  /\ UNCHANGED <<gui, raised, posts, disk>>

(* ensureLogin() before each part.                                         *)
Login(r) ==
  /\ pc[r] = "login"
  /\ Goto(r, "name") \/ Goto(r, "fail")
  /\ UNCHANGED <<gui, raised, posts, job, disk>>

(* Mutant: the plain name, whatever exists.                                *)
PlainPath(r) ==
  <<job[r].dir, name[r[1]], IF job[r].parts > 1 THEN job[r].part ELSE 0, 1>>

(* uniquePath(): the first of name, name_2, ... that does not exist, and   *)
(* the plain name when all of them do.                                     *)
UniquePath(r) ==
  LET at(n) == <<job[r].dir, name[r[1]],
                 IF job[r].parts > 1 THEN job[r].part ELSE 0, n>>
      free == {n \in 1..MaxCopies : at(n) \notin DOMAIN disk}
  IN  IF free = {} THEN at(1) ELSE at(CHOOSE n \in free : \A m \in free : n <= m)

PickPath(r) ==
  /\ pc[r] = "name"
  /\ job' = [job EXCEPT ![r].path = UniquePath(r), ![r].made = @ \cup {UniquePath(r)}]
  /\ Post(r, "downloading", {})
  /\ Goto(r, "open")
  /\ UNCHANGED <<gui, raised, disk>>

(* downloadToFile() opens the path with "wb", whatever is there now.       *)
Open(r) ==
  /\ pc[r] = "open"
  /\ \/ Create(job[r].path, r) /\ Goto(r, "transfer") /\ UNCHANGED job
     \/ /\ job' = [job EXCEPT ![r].made = @ \ {job[r].path}]
        /\ Goto(r, "fail")
        /\ UNCHANGED disk
  /\ UNCHANGED <<gui, raised, posts>>

Progress(r) ==
  /\ pc[r] = "transfer" /\ Len(posts) < MaxPosts /\ ~closing
  /\ Post(r, "downloading", {})
  /\ UNCHANGED <<gui, raised, pc, job, disk>>

(* The transfer ends well: the next part, or the last post.  The cancel    *)
(* flag is not looked at again, and the file is whole unless somebody else *)
(* has opened or removed it.                                               *)
PartSaved(r) ==
  /\ pc[r] = "transfer"
  /\ disk' = [q \in DOMAIN disk |->
                IF q = job[r].path /\ disk[q].by = r THEN [disk[q] EXCEPT !.whole = TRUE] ELSE disk[q]]
  /\ IF job[r].part < job[r].parts
       THEN /\ job' = [job EXCEPT ![r].part = @ + 1]
            /\ Goto(r, "login")
            /\ UNCHANGED posts
       ELSE /\ Post(r, "done", job[r].made)
            /\ Goto(r, "idle")
            /\ job' = [job EXCEPT ![r] = NoJob]
  /\ UNCHANGED <<gui, raised>>

(* Cancelled, stalled, refused: downloadToFile() removes its partial file. *)
PartLost(r) ==
  /\ pc[r] = "transfer"
  /\ Erase({job[r].path})
  /\ job' = [job EXCEPT ![r].made = @ \ {job[r].path}]
  /\ Goto(r, "fail")
  /\ UNCHANGED <<gui, raised, posts>>

(* Mutants: the parts already saved stay; the worker waits for an event    *)
(* loop that has ended.                                                    *)
FailKeepsParts(r) ==
  /\ pc[r] = "fail"
  /\ Post(r, IF r \in raised THEN "cancelled" ELSE "failed", {})
  /\ Goto(r, "idle")
  /\ job' = [job EXCEPT ![r] = NoJob]
  /\ UNCHANGED <<gui, raised, disk>>

FailWaits(r) ==
  /\ pc[r] = "fail" /\ ~closing
  /\ Erase(job[r].made)
  /\ Post(r, IF r \in raised THEN "cancelled" ELSE "failed", {})
  /\ Goto(r, "idle")
  /\ job' = [job EXCEPT ![r] = NoJob]
  /\ UNCHANGED <<gui, raised>>

(* The fail lambda: the parts already saved go, then the flag decides what *)
(* is reported.                                                            *)
Fail(r) ==
  /\ pc[r] = "fail"
  /\ Erase(job[r].made)
  /\ Post(r, IF r \in raised THEN "cancelled" ELSE "failed", {})
  /\ Goto(r, "idle")
  /\ job' = [job EXCEPT ![r] = NoJob]
  /\ UNCHANGED <<gui, raised>>

Worker(r) ==
  \/ Begin(r) \/ Prepared(r) \/ Login(r) \/ PickPath(r) \/ Open(r)
  \/ Progress(r) \/ PartSaved(r) \/ PartLost(r) \/ Fail(r)

User ==
  \/ \E h \in Hosts : \E n \in NamesOf[h] : Enqueue(h, n)
  \/ \E i \in Ids : CancelWaiting(i) \/ CancelRunning(i) \/ Retry(i) \/ Remove(i)
  \/ ClearFinished
  \/ \E f \in Folders : SetFolder(f)
  \/ Quit

Next == User \/ Deliver \/ \E r \in Runs : Worker(r)

(* The event loop keeps running queued calls; every network call of a      *)
(* worker has a timeout or a stall limit, so a worker always moves on, and *)
(* a transfer that only reports progress is not a step that counts.        *)
(* The user owes nothing.                                                  *)
Fairness ==
  /\ WF_vars(Deliver)
  /\ \A r \in Runs : WF_vars(Worker(r) /\ pc' # pc)

Spec     == Init /\ [][Next]_vars
FairSpec == Spec /\ Fairness
=============================================================================
