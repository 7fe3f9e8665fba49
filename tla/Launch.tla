------------------------------- MODULE Launch -------------------------------
(***************************************************************************)
(* Starting, quitting and updating the program (core/SingleInstance.cpp,   *)
(* core/Updater.cpp, main.cpp): processes of one user that share a lock    *)
(* file, a socket and the AppImage.  A launch takes the lock, tries to     *)
(* reach a running client, hands itself over to it or takes its place; the *)
(* client may replace its own AppImage and start the new one.              *)
(*                                                                         *)
(* Each file operation is a step, and a process may crash between any two. *)
(* A process ends by itself, by its quit watchdog (_exit, 3 s) or by a     *)
(* crash: the last two look alike.  Versions are "old" and "fresh"; the    *)
(* disk takes every byte of a download.                                    *)
(***************************************************************************)
EXTENDS Naturals, FiniteSets

CONSTANTS
  Processes, \* bound: the launches of one session
  None

ASSUME LaunchAssumption == None \notin Processes

Files == {"app", "bak", "new"}
Whole == {"old", "fresh"}

VARIABLES
  pc,       \* where a process is
  lock,     \* the process that holds the lock file
  path,     \* the process that bound the socket file
  server,   \* processes whose server accepts connections
  handed,   \* the client a launch asked for its window
  mail,     \* launches a client has yet to read
  raised,   \* launches the window was raised for
  version,  \* the program a process runs
  update,   \* the updater of a process
  file,     \* what lies under the AppImage's name, .bak and .new
  excused   \* history: a launch gave up the lock or lost its socket file to
            \* another, or a client updated that has no AppImage any more

socket == <<lock, path, server, handed, mail, raised>>
vars   == <<pc, lock, path, server, handed, mail, raised, version, update, file, excused>>

Init ==
  /\ pc = [p \in Processes |-> "unborn"]
  /\ lock = None /\ path = None /\ server = {}
  /\ handed = [p \in Processes |-> None] /\ mail = [p \in Processes |-> {}] /\ raised = {}
  /\ version = [p \in Processes |-> "old"] /\ update = [p \in Processes |-> "none"]
  /\ file = [f \in Files |-> IF f = "app" THEN "old" ELSE "none"]
  /\ excused = FALSE

Alive(p) == pc[p] \notin {"unborn", "gone"}
Goes(p, stage)   == pc' = [pc EXCEPT ![p] = stage]
Updates(p, step) == update' = [update EXCEPT ![p] = step]

-----------------------------------------------------------------------------
(* A launch: SingleInstance::acquire                                       *)
Launch(p) ==
  /\ pc[p] = "unborn" /\ file["app"] \in Whole
  /\ Goes(p, "lock")
  /\ version' = [version EXCEPT ![p] = file["app"]]
  /\ UNCHANGED <<socket, update, file, excused>>

(* A lock file whose process is gone is stale.                             *)
LockFree == lock \notin {p \in Processes : Alive(p)}

TakeLock(p) ==
  /\ pc[p] = "lock" /\ LockFree
  /\ lock' = p /\ Goes(p, "connect")
  /\ UNCHANGED <<path, server, handed, mail, raised, version, update, file, excused>>

(* "on timeout, fall through and try the socket anyway"                    *)
GiveUpLock(p) ==
  /\ pc[p] = "lock" /\ ~LockFree
  /\ Goes(p, "connect") /\ excused' = TRUE
  /\ UNCHANGED <<socket, version, update, file>>

Unlock(p) == lock' = IF lock = p THEN None ELSE lock

Answers == path # None /\ path \in server

(* A client that is quitting still accepts; a launch with --start-hidden   *)
(* asks for nothing.                                                       *)
HandOver(p) ==
  /\ pc[p] = "connect" /\ Answers
  /\ \/ handed' = [handed EXCEPT ![p] = path] /\ mail' = [mail EXCEPT ![path] = @ \cup {p}]
     \/ UNCHANGED <<handed, mail>>
  /\ Goes(p, "gone") /\ Unlock(p)
  /\ UNCHANGED <<path, server, raised, version, update, file, excused>>

NoAnswer(p) ==
  /\ pc[p] = "connect" /\ ~Answers
  /\ Goes(p, "remove")
  /\ UNCHANGED <<socket, version, update, file, excused>>

(* Mutant: the lock is given back before the socket is there.              *)
UnlockEarly(p) ==
  /\ pc[p] = "remove"
  /\ path' = None /\ Goes(p, "listen") /\ Unlock(p)
  /\ UNCHANGED <<server, handed, mail, raised, version, update, file, excused>>

RemoveSocket(p) ==
  /\ pc[p] = "remove"
  /\ path' = None /\ Goes(p, "listen")
  /\ UNCHANGED <<lock, server, handed, mail, raised, version, update, file, excused>>

(* A name that is taken fails: "Better to run un-guarded than to refuse".  *)
Listen(p) ==
  /\ pc[p] = "listen"
  /\ IF path = None THEN path' = p /\ server' = server \cup {p} ELSE UNCHANGED <<path, server>>
  /\ Goes(p, "start") /\ Unlock(p)
  /\ UNCHANGED <<handed, mail, raised, version, update, file, excused>>

-----------------------------------------------------------------------------
(* A client: main()                                                        *)

(* The database opens, or main() returns.                                  *)
Start(p) ==
  /\ pc[p] = "start"
  /\ Goes(p, "run") \/ Goes(p, "closing")
  /\ UNCHANGED <<socket, version, update, file, excused>>

(* The event loop is free unless the updater's last handler is under way.  *)
Idle(p) == pc[p] = "run" /\ update[p] \in {"none", "offer", "downloading"}

(* Mutant: of several waiting clients only one is served.                  *)
ReadOne(p) ==
  /\ Idle(p) /\ mail[p] # {}
  /\ \E q \in mail[p] : raised' = raised \cup {q}
  /\ mail' = [mail EXCEPT ![p] = {}]
  /\ UNCHANGED <<pc, lock, path, server, handed, version, update, file, excused>>

(* newConnection and readCommands: the window is raised.                   *)
ReadCommands(p) ==
  /\ Idle(p) /\ mail[p] # {}
  /\ raised' = raised \cup mail[p] /\ mail' = [mail EXCEPT ![p] = {}]
  /\ UNCHANGED <<pc, lock, path, server, handed, version, update, file, excused>>

Quit(p) ==
  /\ Idle(p)
  /\ Goes(p, "closing") /\ Updates(p, "none")
  /\ UNCHANGED <<socket, version, file, excused>>

(* The server goes last in main(): it is closed, and its path unlinked -   *)
(* whoever's socket lies there by then.                                    *)
Close(p) ==
  /\ pc[p] = "closing"
  /\ server' = server \ {p}
  /\ Goes(p, IF p \in server THEN "unlink" ELSE "gone")
  /\ mail' = [mail EXCEPT ![p] = {}]
  /\ UNCHANGED <<lock, path, handed, raised, version, update, file, excused>>

Unlink(p) ==
  /\ pc[p] = "unlink"
  /\ path' = None /\ excused' = (excused \/ path \notin {p, None})
  /\ Goes(p, "gone")
  /\ UNCHANGED <<lock, server, handed, mail, raised, version, update, file>>

Crash(p) ==
  /\ Alive(p)
  /\ Goes(p, "gone") /\ server' = server \ {p}
  /\ mail' = [mail EXCEPT ![p] = {}] /\ Updates(p, "none")
  /\ UNCHANGED <<lock, path, handed, raised, version, file, excused>>

-----------------------------------------------------------------------------
(* The updater                                                             *)
quiet       == <<socket, version>>
updaterVars == <<quiet, excused>>

Check(p) ==
  /\ Idle(p) /\ update[p] = "none" /\ version[p] = "old"
  /\ Updates(p, "offer")
  /\ UNCHANGED <<updaterVars, pc, file>>

Apply(p) ==
  /\ Idle(p) /\ update[p] = "offer"
  /\ file' = [file EXCEPT !["new"] = "part"] /\ Updates(p, "downloading")
  /\ excused' = (excused \/ file["app"] = "none")
  /\ UNCHANGED <<quiet, pc>>

DownloadFails(p) ==
  /\ Idle(p) /\ update[p] = "downloading"
  /\ file' = [file EXCEPT !["new"] = "none"] /\ Updates(p, "offer")
  /\ UNCHANGED <<updaterVars, pc>>

Downloaded(p) ==
  /\ Idle(p) /\ update[p] = "downloading"
  /\ file' = [file EXCEPT !["new"] = "fresh"] /\ Updates(p, "dropbak")
  /\ UNCHANGED <<updaterVars, pc>>

(* QFile::rename never replaces a file.                                    *)
Renamable(from, to) == file[from] # "none" /\ file[to] = "none"
Renamed(from, to)   == [file EXCEPT ![to] = file[from], ![from] = "none"]
RenameIfCan(from, to) == IF Renamable(from, to) THEN Renamed(from, to) ELSE file
Without(f) == [file EXCEPT ![f] = "none"]

(* One step of the handler of the finished download.                       *)
Swap(p, from, to, effect) ==
  /\ pc[p] = "run" /\ update[p] = from
  /\ Updates(p, to) /\ file' = effect
  /\ UNCHANGED <<updaterVars, pc>>

DropBackup(p) == Swap(p, "dropbak", "setaside", Without("bak"))
SetAside(p)   == Swap(p, "setaside", "swapin", RenameIfCan("app", "bak"))
SwapIn(p)     == Renamable("new", "app") /\ Swap(p, "swapin", "dropold", Renamed("new", "app"))
SwapFails(p)  == Swap(p, "swapin", "rollback", file)

(* Mutant: the backup is not put back.                                     *)
NoRollBack(p) == Swap(p, "rollback", "discard", Without("bak"))

RollBack(p)   == Swap(p, "rollback", "discard", RenameIfCan("bak", "app"))
Discard(p)    == Swap(p, "discard", "offer", Without("new"))
DropOld(p)    == Swap(p, "dropold", "relaunch", Without("bak"))

(* "Relaunch the freshly-written AppImage and bow out.": with the same     *)
(* arguments; startDetached() may fail.                                    *)
Relaunch(p) ==
  /\ pc[p] = "run" /\ update[p] = "relaunch"
  /\ \/ \E c \in Processes :
          /\ pc[c] = "unborn" /\ file["app"] \in Whole
          /\ pc' = [pc EXCEPT ![p] = "closing", ![c] = "lock"]
          /\ version' = [version EXCEPT ![c] = file["app"]]
     \/ Goes(p, "closing") /\ UNCHANGED version
  /\ Updates(p, "none")
  /\ UNCHANGED <<socket, file, excused>>

-----------------------------------------------------------------------------
Acquire(p) == TakeLock(p) \/ GiveUpLock(p) \/ HandOver(p) \/ NoAnswer(p) \/ RemoveSocket(p)
              \/ Listen(p)
Client(p)  == Start(p) \/ ReadCommands(p) \/ Close(p) \/ Unlink(p)
Handler(p) == DropBackup(p) \/ SetAside(p) \/ SwapIn(p) \/ SwapFails(p) \/ RollBack(p)
              \/ Discard(p) \/ DropOld(p) \/ Relaunch(p)
Updater(p) == Check(p) \/ Apply(p) \/ DownloadFails(p) \/ Downloaded(p) \/ Handler(p)

Next == \E p \in Processes :
          \/ Launch(p) \/ Acquire(p) \/ Client(p) \/ Updater(p) \/ Quit(p) \/ Crash(p)

(* A launch runs to its end, its waits being bounded, the event loop of a  *)
(* client serves its socket between any two handlers, however often an     *)
(* update is tried again, and the updater's last handler runs to its end.  *)
Fairness == \A p \in Processes : /\ WF_vars(Acquire(p) \/ Start(p) \/ Handler(p))
                                 /\ SF_vars(ReadCommands(p))

Spec     == Init /\ [][Next]_vars
FairSpec == Spec /\ Fairness
=============================================================================
