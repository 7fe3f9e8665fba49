---------------------------- MODULE LaunchProofs ----------------------------
(***************************************************************************)
(* For any number of launches, crashes, quits and updates: one client at a *)
(* time, and a whole program on disk after every file operation.           *)
(***************************************************************************)
EXTENDS LaunchProps, FiniteSetTheorems, TLAPS

(* What each process and each file can be.                                 *)
Types ==
  /\ pc \in [Processes -> Stages]
  /\ update \in [Processes -> Steps]
  /\ version \in [Processes -> Whole]
  /\ file \in [Files -> Whole \cup {"part", "none"}]

(* A launch is alone from the lock to its socket: it holds the lock.       *)
Acquiring(p) == pc[p] \in {"connect", "remove", "listen"}
IsClient(p)  == pc[p] \in {"start", "run"}

HoldsLock == \A p \in Processes : Acquiring(p) => lock = p

(* A client is the one that the socket file leads to.                      *)
Serves == \A p \in Processes : IsClient(p) => path = p /\ p \in server

(* Who has found nobody at the socket is right, and remains so.            *)
NobodyThere ==
  \A p \in Processes : pc[p] \in {"remove", "listen"} =>
    /\ \A q \in Processes : ~IsClient(q)
    /\ pc[p] = "listen" => path = None

SocketInv == HoldsLock /\ Serves /\ NobodyThere

-----------------------------------------------------------------------------
(* Every variable that the rest depends on keeps its type.                 *)
LEMMA TypesInit == Init => Types
BY DEF Init, Types, Stages, Steps, Whole, Files

LEMMA TypesNext == Types /\ [Next]_vars => Types'
<1> SUFFICES ASSUME Types, [Next]_vars PROVE Types'
  OBVIOUS
<1> USE DEF Types, Goes, Updates, Stages, Steps
<1>1. ASSUME NEW p \in Processes, Launch(p) PROVE Types'
  BY <1>1 DEF Launch
<1>2. ASSUME NEW p \in Processes, Acquire(p) PROVE Types'
  BY <1>2 DEF Acquire, TakeLock, GiveUpLock, HandOver, NoAnswer, RemoveSocket, Listen, socket
<1>3. ASSUME NEW p \in Processes, Client(p) PROVE Types'
  BY <1>3 DEF Client, Start, ReadCommands, Close, Unlink, socket
<1>4. ASSUME NEW p \in Processes, Quit(p) \/ Crash(p) PROVE Types'
  BY <1>4 DEF Quit, Crash, socket
<1>5. ASSUME NEW p \in Processes, Check(p) \/ Apply(p) \/ DownloadFails(p) \/ Downloaded(p)
      PROVE Types'
  BY <1>5 DEF Check, Apply, DownloadFails, Downloaded, updaterVars, quiet, Whole
<1>6. ASSUME NEW p \in Processes, Handler(p) PROVE Types'
  <2>1. CASE Relaunch(p)
    BY <2>1 DEF Relaunch
  <2>2. CASE ~Relaunch(p)
    <3>1. UNCHANGED <<pc, version>> /\ update' \in [Processes -> Steps]
      BY <1>6, <2>2 DEF Handler, DropBackup, SetAside, SwapIn, SwapFails, RollBack, Discard,
                        DropOld, Swap, updaterVars, quiet
    <3>2. file' \in [Files -> Whole \cup {"part", "none"}]
      BY <1>6, <2>2 DEF Handler, DropBackup, SetAside, SwapIn, SwapFails, RollBack, Discard,
                        DropOld, Swap, Without, RenameIfCan, Renamed, Files
    <3> QED BY <3>1, <3>2
  <2> QED BY <2>1, <2>2
<1>7. CASE UNCHANGED vars
  BY <1>7 DEF vars
<1> QED BY <1>1, <1>2, <1>3, <1>4, <1>5, <1>6, <1>7 DEF Next, Updater

(* Without an excuse, the lock and the socket keep a second client out: a  *)
(* launch that looks at the socket holds the lock, and a client is what    *)
(* the socket file leads to.                                               *)
LEMMA SocketNext == Types /\ (excused \/ SocketInv) /\ [Next]_vars => (excused \/ SocketInv)'
<1> SUFFICES ASSUME Types, excused \/ SocketInv, [Next]_vars, ~excused' PROVE SocketInv'
  OBVIOUS
<1> USE LaunchAssumption DEF LaunchAssumption, Types, SocketInv, HoldsLock, Serves, NobodyThere,
                             Acquiring, IsClient, Goes
<1>0. SocketInv
  BY DEF Next, vars, Launch, Acquire, TakeLock, GiveUpLock, HandOver, NoAnswer, RemoveSocket,
         Listen, Client, Start, ReadCommands, Close, Unlink, Updater, Check, Apply, DownloadFails,
         Downloaded, Handler, DropBackup, SetAside, SwapIn, SwapFails, RollBack, Discard, DropOld,
         Swap, Relaunch, Quit, Crash, updaterVars
<1>1. ASSUME NEW p \in Processes, Launch(p) PROVE SocketInv'
  BY <1>0, <1>1 DEF Launch, socket
<1>2. ASSUME NEW p \in Processes, Acquire(p) PROVE SocketInv'
  <2>1. CASE TakeLock(p)
    BY <1>0, <2>1 DEF TakeLock, LockFree, Alive
  <2>2. CASE GiveUpLock(p)
    BY <2>2 DEF GiveUpLock
  <2>3. CASE HandOver(p)
    BY <1>0, <2>3 DEF HandOver, Unlock
  <2>4. CASE NoAnswer(p)
    BY <1>0, <2>4 DEF NoAnswer, Answers, socket
  <2>5. CASE RemoveSocket(p)
    BY <1>0, <2>5 DEF RemoveSocket
  <2>6. CASE Listen(p)
    BY <1>0, <2>6 DEF Listen, Unlock
  <2> QED BY <1>2, <2>1, <2>2, <2>3, <2>4, <2>5, <2>6 DEF Acquire
<1>3. ASSUME NEW p \in Processes, Client(p) PROVE SocketInv'
  <2>1. CASE Start(p)
    BY <1>0, <2>1 DEF Start, socket
  <2>2. CASE ReadCommands(p)
    BY <1>0, <2>2 DEF ReadCommands
  <2>3. CASE Close(p)
    BY <1>0, <2>3 DEF Close
  <2>4. CASE Unlink(p)
    BY <1>0, <2>4 DEF Unlink
  <2> QED BY <1>3, <2>1, <2>2, <2>3, <2>4 DEF Client
<1>4. ASSUME NEW p \in Processes, Updater(p) PROVE SocketInv'
  <2>1. CASE Relaunch(p)
    BY <1>0, <2>1 DEF Relaunch, socket
  <2>2. CASE ~Relaunch(p)
    <3>1. UNCHANGED <<pc, lock, path, server>>
      BY <1>4, <2>2 DEF Updater, Check, Apply, DownloadFails, Downloaded, Handler, DropBackup,
                        SetAside, SwapIn, SwapFails, RollBack, Discard, DropOld, Swap,
                        updaterVars, quiet, socket
    <3> QED BY <1>0, <3>1
  <2> QED BY <2>1, <2>2
<1>5. ASSUME NEW p \in Processes, Quit(p) \/ Crash(p) PROVE SocketInv'
  BY <1>0, <1>5 DEF Quit, Idle, Crash, socket
<1>6. CASE UNCHANGED vars
  BY <1>0, <1>6 DEF vars
<1> QED BY <1>1, <1>2, <1>3, <1>4, <1>5, <1>6 DEF Next

(* Clients that all have the socket file are one client.                   *)
LEMMA AllAlike ==
  ASSUME NEW S, \A p, q \in S : p = q
  PROVE  Cardinality(S) <= 1
<1>1. CASE S = {}
  <2>1. Cardinality(S) = 0
    BY <1>1, FS_EmptySet
  <2> QED BY <2>1
<1>2. CASE S # {}
  <2>1. PICK p \in S : TRUE
    BY <1>2
  <2>2. S = {p}
    BY <2>1
  <2>3. Cardinality(S) = 1
    BY <2>2, FS_Singleton
  <2> QED BY <2>3
<1> QED BY <1>1, <1>2

(* "a double-click on the launcher can have both processes fail to connect *)
(* and then both claim the socket": not as long as nobody gives up the     *)
(* lock and no quitting client unlinks another's socket                    *)
(* (SingleInstance::acquire()).                                            *)
THEOREM ClientsAreOne == Spec => []OneClient
<1>1. Init => Types /\ (excused \/ SocketInv)
  <2>1. Init => SocketInv
    BY DEF Init, SocketInv, HoldsLock, Serves, NobodyThere, Acquiring, IsClient
  <2> QED BY <2>1, TypesInit
<1>2. (excused \/ SocketInv) => OneClient
  <2> SUFFICES ASSUME SocketInv PROVE Cardinality(Clients) <= 1
    BY DEF OneClient
  <2>1. \A p, q \in Clients : p = q
    BY DEF Clients, SocketInv, Serves, IsClient
  <2> QED BY <2>1, AllAlike
<1> QED BY <1>1, <1>2, TypesNext, SocketNext, PTL DEF Spec

-----------------------------------------------------------------------------
(* The files, by the step that the updater of the client has reached.      *)
Swapping == {"downloading", "dropbak", "setaside", "dropold", "discard", "relaunch"}

FilesAt(u, f) ==
  /\ u \in Swapping => f["app"] \in Whole
  /\ u \in {"dropbak", "setaside", "swapin"} => f["new"] = "fresh"
  /\ u = "setaside" => f["bak"] = "none"
  /\ u \in {"swapin", "rollback"} => f["app"] = "none"

UpdateInv ==
  /\ {file["app"], file["bak"]} \subseteq Whole \cup {"none"}
  /\ file["app"] = "none" => file["bak"] \in Whole
  /\ \A p \in Processes : /\ pc[p] # "run" => update[p] = "none"
                          /\ FilesAt(update[p], file)

(* An update is one process's: what the others have is no step of one.     *)
LEMMA OneUpdates ==
  ASSUME Types, SocketInv, UpdateInv, NEW p \in Processes, pc[p] = "run",
         NEW q \in Processes, q # p
  PROVE  update[q] = "none"
BY DEF SocketInv, Serves, IsClient, UpdateInv

(* An action that leaves the files alone, and starts no step of an update. *)
LEMMA FilesKept ==
  ASSUME UpdateInv, file' = file,
         \A p \in Processes : /\ update'[p] \in {update[p], "none", "offer"}
                              /\ pc'[p] # "run" => update'[p] = "none"
  PROVE  UpdateInv'
BY DEF UpdateInv, FilesAt, Swapping

(* A step of the client's updater to u.                                    *)
LEMMA StepOfUpdate ==
  ASSUME Types, SocketInv, UpdateInv, NEW p \in Processes, pc[p] = "run", NEW u \in Steps,
         update' = [update EXCEPT ![p] = u], pc' = pc,
         file' \in [Files -> Whole \cup {"part", "none"}],
         {file'["app"], file'["bak"]} \subseteq Whole \cup {"none"},
         file'["app"] = "none" => file'["bak"] \in Whole,
         FilesAt(u, file')
  PROVE  UpdateInv'
<1>1. \A q \in Processes : update'[q] = IF q = p THEN u ELSE update[q]
  BY DEF Types
<1>2. \A q \in Processes : q # p => update'[q] = "none" /\ FilesAt("none", file')
  BY <1>1, OneUpdates DEF FilesAt, Swapping
<1>3. \A q \in Processes : FilesAt(update'[q], file')
  BY <1>1, <1>2 DEF FilesAt
<1> QED BY <1>1, <1>2, <1>3 DEF UpdateInv

LEMMA UpdateNext ==
  Types /\ (excused \/ (SocketInv /\ UpdateInv)) /\ [Next]_vars => (excused \/ UpdateInv)'
<1> SUFFICES ASSUME Types, excused \/ (SocketInv /\ UpdateInv), [Next]_vars, ~excused'
             PROVE  UpdateInv'
  OBVIOUS
<1>0. SocketInv /\ UpdateInv
  BY DEF Next, vars, Launch, Acquire, TakeLock, GiveUpLock, HandOver, NoAnswer, RemoveSocket,
         Listen, Client, Start, ReadCommands, Close, Unlink, Updater, Check, Apply, DownloadFails,
         Downloaded, Handler, DropBackup, SetAside, SwapIn, SwapFails, RollBack, Discard, DropOld,
         Swap, Relaunch, Quit, Crash, updaterVars
<1>1. ASSUME NEW p \in Processes, Launch(p) \/ Acquire(p) \/ Client(p) PROVE UpdateInv'
  <2>1. file' = file /\ update' = update
    BY <1>1 DEF Launch, Acquire, TakeLock, GiveUpLock, HandOver, NoAnswer, RemoveSocket, Listen,
                Client, Start, ReadCommands, Close, Unlink
  <2>2. \A q \in Processes : pc'[q] # "run" => pc[q] # "run"
    BY <1>1 DEF Types, Goes, Launch, Acquire, TakeLock, GiveUpLock, HandOver, NoAnswer,
                RemoveSocket, Listen, Client, Start, ReadCommands, Close, Unlink
  <2> QED BY <1>0, <2>1, <2>2, FilesKept DEF UpdateInv
<1>2. ASSUME NEW p \in Processes, Quit(p) \/ Crash(p) \/ Relaunch(p) PROVE UpdateInv'
  <2>1. file' = file /\ update' = [update EXCEPT ![p] = "none"]
    BY <1>2 DEF Quit, Crash, Relaunch, Updates
  <2>2. \A q \in Processes : q # p /\ pc'[q] # "run" => pc[q] # "run"
    BY <1>2 DEF Types, Goes, Quit, Crash, Relaunch
  <2> QED BY <1>0, <2>1, <2>2, FilesKept DEF Types, UpdateInv
<1>3. ASSUME NEW p \in Processes, Check(p) PROVE UpdateInv'
  BY <1>0, <1>3, FilesKept DEF Check, Idle, Updates, Types, UpdateInv
<1>4. ASSUME NEW p \in Processes, Apply(p) \/ DownloadFails(p) \/ Downloaded(p) PROVE UpdateInv'
  <2>1. file["app"] \in Whole
    BY <1>0, <1>4 DEF Apply, DownloadFails, Downloaded, UpdateInv, FilesAt, Swapping, Whole
  <2> QED
    BY <1>0, <1>4, <2>1, StepOfUpdate
    DEF Apply, DownloadFails, Downloaded, Idle, Updates, Types, UpdateInv, FilesAt, Swapping,
        Files, Steps, Whole
<1>5. ASSUME NEW p \in Processes, Handler(p), ~Relaunch(p) PROVE UpdateInv'
  <2> USE DEF Swap, Updates, updaterVars, Types, UpdateInv, FilesAt, Swapping, Files, Steps, Whole,
              Without, RenameIfCan, Renamed, Renamable
  <2>1. CASE DropBackup(p)
    BY <1>0, <2>1, StepOfUpdate DEF DropBackup
  <2>2. CASE SetAside(p)
    BY <1>0, <2>2, StepOfUpdate DEF SetAside
  <2>3. CASE SwapIn(p)
    <3>1. file'["app"] = "fresh" /\ file'["bak"] = file["bak"]
      BY <1>0, <2>3 DEF SwapIn
    <3>2. file' \in [Files -> Whole \cup {"part", "none"}]
      BY <2>3 DEF SwapIn
    <3>3. pc[p] = "run" /\ pc' = pc /\ update' = [update EXCEPT ![p] = "dropold"]
      BY <2>3 DEF SwapIn
    <3>4. FilesAt("dropold", file')
      BY <3>1
    <3> HIDE DEF FilesAt
    <3> QED BY <1>0, <3>1, <3>2, <3>3, <3>4, StepOfUpdate
  <2>4. CASE SwapFails(p)
    BY <1>0, <2>4, StepOfUpdate DEF SwapFails
  <2>5. CASE RollBack(p)
    BY <1>0, <2>5, StepOfUpdate, ZenonT(40) DEF RollBack
  <2>6. CASE Discard(p)
    BY <1>0, <2>6, StepOfUpdate DEF Discard
  <2>7. CASE DropOld(p)
    BY <1>0, <2>7, StepOfUpdate DEF DropOld
  <2> QED BY <1>5, <2>1, <2>2, <2>3, <2>4, <2>5, <2>6, <2>7 DEF Handler
<1>6. CASE UNCHANGED vars
  BY <1>0, <1>6, FilesKept DEF vars, UpdateInv
<1> QED BY <1>1, <1>2, <1>3, <1>4, <1>5, <1>6 DEF Next, Updater, Handler

(* "Atomic swap with a backup we can roll back to" (Updater::applyUpdate): *)
(* wherever a crash falls and whichever rename fails, a whole program is   *)
(* on disk, and the program's own name holds a whole one or, with the      *)
(* backup beside it, none.                                                 *)
THEOREM ProgramIsThere == Spec => []ProgramSurvives
<1>1. Init => Types /\ (excused \/ SocketInv) /\ (excused \/ UpdateInv)
  <2>1. Init => SocketInv /\ UpdateInv
    BY DEF Init, SocketInv, HoldsLock, Serves, NobodyThere, Acquiring, IsClient, UpdateInv,
           FilesAt, Swapping, Files, Whole
  <2> QED BY <2>1, TypesInit
<1>2. (excused \/ UpdateInv) => ProgramSurvives
  BY DEF ProgramSurvives, UpdateInv, Files, Whole
<1>3. Types /\ (excused \/ SocketInv) /\ (excused \/ UpdateInv) /\ [Next]_vars
        => (Types /\ (excused \/ SocketInv) /\ (excused \/ UpdateInv))'
  BY TypesNext, SocketNext, UpdateNext
<1> QED BY <1>1, <1>2, <1>3, PTL DEF Spec
=============================================================================
