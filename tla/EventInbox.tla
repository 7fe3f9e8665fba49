----------------------------- MODULE EventInbox -----------------------------
(***************************************************************************)
(* The event inbox (device/EventManager.cpp) and its rows in the database  *)
(* (core/Database.cpp): the newest Keep events in memory and on disk, the  *)
(* filtered view of them, and the thumbnails that workers fetch for them.  *)
(*                                                                         *)
(* The inbox belongs to the GUI thread.  captureEventThumbnail() runs in   *)
(* the pool: it fetches a picture, writes the event's file and posts that  *)
(* it is there; a capture that cannot begin is one that finds no picture.  *)
(* An insert may fail; the database's other statements succeed.  The clock *)
(* is not set back, so that events are ordered as they were added.  A      *)
(* program that quits does so between two events of its loop.  The count   *)
(* of unread events is left out.                                           *)
(***************************************************************************)
EXTENDS Integers, Sequences, FiniteSetsExt

CONSTANTS
  Channels,     \* cameras
  Keep,         \* kMaxEvents
  MaxAlerts,    \* bound: events raised
  InsertsFail,  \* addEvent() may fail
  Filters       \* that the user sets

Detections == {"person", "motion"}
Types      == Detections \cup {"health"}   \* "offline" or "online"
AnyType    == "any"            \* no filter
AnyCamera  == 0

ASSUME InboxAssumption ==
  /\ Channels \subseteq Nat \ {AnyCamera} /\ IsFiniteSet(Channels)
  /\ Keep \in Nat \ {0} /\ MaxAlerts \in Nat /\ InsertsFail \in BOOLEAN
  /\ Filters \subseteq [type : Types \cup {AnyType}, camera : Channels \cup {AnyCamera}]

VARIABLES
  inbox,   \* all: m_all, newest first; view: m_view; db: the table, newest first;
           \* last: the last id given; files: the thumbnails on disk;
           \* shots: captures under way; serial: events raised so far
  filter,  \* m_filter, m_cameraFilter
  \* history
  failed,  \* an insert has failed
  left     \* ids of thumbnails an earlier run has left behind

box == <<inbox, filter, failed, left>>

NoFilter == [type |-> AnyType, camera |-> AnyCamera]

InboxInit ==
  /\ inbox = [all |-> <<>>, view |-> <<>>, db |-> <<>>, last |-> 0, files |-> {}, shots |-> {},
              serial |-> 0]
  /\ filter = NoFilter
  /\ failed = FALSE /\ left = {}

-----------------------------------------------------------------------------
(* The list and the view                                                   *)
matches(e, f) == f.type \in {AnyType, e.type} /\ f.camera \in {AnyCamera, e.channel}

Newest(s, k) == SubSeq(s, 1, IF Len(s) < k THEN Len(s) ELSE k)

InOrder(S) == CHOOSE s \in [1..Cardinality(S) -> S] : \A i, j \in DOMAIN s : i < j => s[i] < s[j]

Matching(s, f) == InOrder({i \in DOMAIN s : matches(s[i], f)})

reload(s, f) ==
  LET recent == Newest(s.db, Keep)
  IN  [s EXCEPT !.all = recent, !.view = Matching(recent, f)]

FilesOf(events, files) == {p \in files : \E i \in DOMAIN events : events[i].thumb /\ events[i].id = p.id}

(* From the end, while it is beyond the cap.                               *)
Pruned(view) == Newest(view, Max({i \in DOMAIN view : view[i] <= Keep} \cup {0}))

(* The retention cap.                                                      *)
Trimmed(s) ==
  IF Len(s.all) <= Keep THEN s
  ELSE [s EXCEPT !.view  = Pruned(@),
                 !.files = @ \ FilesOf(SubSeq(s.all, Keep + 1, Len(s.all)), s.files),
                 !.all   = Newest(@, Keep),
                 !.db    = Newest(@, Keep)]

(* Mutant: without AUTOINCREMENT an id is given again.                     *)
IdAgain(s) == IF s.db = <<>> THEN 1 ELSE s.db[1].id + 1

NewId(s) == s.last + 1

(* Mutant: the view keeps its indices.                                     *)
AddedInFront(view, fits) == IF fits THEN <<1>> \o view ELSE view

(* The new event is the first of the list.                                 *)
Prepended(view, fits) ==
  LET shifted == [i \in DOMAIN view |-> view[i] + 1]
  IN  IF fits THEN <<1>> \o shifted ELSE shifted

Added(s, e, stored) ==
  LET rec  == [id |-> IF stored THEN NewId(s) ELSE -1, serial |-> s.serial + 1, type |-> e.type,
               channel |-> e.channel, thumb |-> FALSE]
      shot == [id |-> rec.id, serial |-> rec.serial, pc |-> "fetch"]
  IN  [s EXCEPT
        !.all    = <<rec>> \o @,
        !.view   = Prepended(@, matches(rec, filter)),
        !.db     = IF stored THEN <<rec>> \o @ ELSE @,
        !.last   = IF stored THEN rec.id ELSE @,
        !.shots  = IF stored /\ e.type \in Detections THEN @ \cup {shot} ELSE @,
        !.serial = @ + 1]

(* onDetection(), onConnectivity().                                        *)
Recorded(s, e, stored) == Trimmed(Added(s, e, stored))

(* One handler may raise several events, one after the other.              *)
Raise(events) ==
  /\ inbox.serial + Len(events) <= MaxAlerts
  /\ \E lost \in SUBSET IF InsertsFail THEN DOMAIN events ELSE {} :
       LET made[n \in 0..Len(events)] ==
             IF n = 0 THEN inbox ELSE Recorded(made[n - 1], events[n], n \notin lost)
       IN  inbox' = made[Len(events)] /\ failed' = (failed \/ lost # {})
  /\ UNCHANGED <<filter, left>>

-----------------------------------------------------------------------------
(* Thumbnails                                                              *)

(* saveEventThumbnail(); the picture may not come, or not be written.      *)
SaveThumbnail(shot) ==
  /\ shot.pc = "fetch"
  /\ \/ inbox' = [inbox EXCEPT !.shots = @ \ {shot}]
     \/ inbox' = [inbox EXCEPT
          !.files = {p \in @ : p.id # shot.id} \cup {[id |-> shot.id, serial |-> shot.serial]},
          !.shots = (@ \ {shot}) \cup {[shot EXCEPT !.pc = "saved"]}]
  /\ UNCHANGED <<filter, failed, left>>

WithThumbnail(events, id) ==
  [i \in DOMAIN events |-> [events[i] EXCEPT !.thumb = @ \/ events[i].id = id]]

(* onThumbnailReady(): a file nobody lists is dropped.                     *)
ThumbnailReady(shot) ==
  /\ shot.pc = "saved"
  /\ inbox' = [inbox EXCEPT
       !.shots = @ \ {shot},
       !.db    = WithThumbnail(@, shot.id),
       !.all   = WithThumbnail(@, shot.id),
       !.files = IF \E i \in DOMAIN inbox.all : inbox.all[i].id = shot.id THEN @
                 ELSE {p \in @ : p.id # shot.id}]
  /\ UNCHANGED <<filter, failed, left>>

-----------------------------------------------------------------------------
(* The user                                                                *)
SetFilter(f) ==
  /\ f # filter
  /\ filter' = f /\ inbox' = reload(inbox, f)
  /\ UNCHANGED <<failed, left>>

Clear ==
  /\ inbox' = reload([inbox EXCEPT !.files = {}, !.db = <<>>], filter)
  /\ left' = {}
  /\ UNCHANGED <<filter, failed>>

(* The program quits and is started again: what the pool still does is     *)
(* waited for, but nobody hears of it.                                     *)
InboxRestarts ==
  /\ \E done \in SUBSET {s \in inbox.shots : s.pc = "fetch"} :
       LET wrote  == {[id |-> s.id, serial |-> s.serial] : s \in done}
           files  == {p \in inbox.files : \A w \in wrote : w.id # p.id} \cup wrote
           listed == {inbox.db[i].id : i \in {j \in DOMAIN inbox.db : inbox.db[j].thumb}}
       IN  /\ inbox' = reload([inbox EXCEPT !.files = files, !.shots = {},
                                            !.db = Newest(@, Keep)], NoFilter)
           /\ left' = {p.id : p \in files} \ listed
  /\ filter' = NoFilter /\ UNCHANGED failed

InboxNext ==
  \/ \E shot \in inbox.shots : SaveThumbnail(shot) \/ ThumbnailReady(shot)
  \/ \E f \in Filters : SetFilter(f)
  \/ Clear
=============================================================================
