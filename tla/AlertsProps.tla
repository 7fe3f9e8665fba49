----------------------------- MODULE AlertsProps -----------------------------
(***************************************************************************)
(* What the inbox and the polls that feed it must get right.               *)
(***************************************************************************)
EXTENDS Alerts

Event == [id : -1..MaxAlerts, serial : 1..MaxAlerts, type : Types, channel : Channels,
          thumb : BOOLEAN]

(* Every variable keeps its type, and the table its cap.                   *)
TypeOK ==
  /\ inbox.all \in Seq(Event) /\ Len(inbox.all) <= Keep
  /\ inbox.db \in Seq(Event) /\ Len(inbox.db) <= Keep
  /\ inbox.view \in Seq(1..Keep) /\ {inbox.last, inbox.serial} \subseteq 0..MaxAlerts
  /\ inbox.files \subseteq [id : 1..MaxAlerts, serial : 1..MaxAlerts]
  /\ inbox.shots \subseteq [id : 1..MaxAlerts, serial : 1..MaxAlerts, pc : {"fetch", "saved"}]
  /\ filter \in [type : Types \cup {AnyType}, camera : Channels \cup {AnyCamera}]
  /\ failed \in BOOLEAN /\ left \subseteq 1..MaxAlerts
  /\ site \in Sites /\ seen \in [Channels -> SUBSET Detections]
  /\ watermark \in Nat \cup {None} /\ lastRaised \in [Channels -> Int]
  /\ raised \subseteq DOMAIN happened /\ alerted \subseteq Channels

-----------------------------------------------------------------------------
(* The inbox                                                               *)
NewestFirst(events) == \A i, j \in DOMAIN events : i < j => events[i].serial > events[j].serial

(* "The inbox keeps only the newest N events, discarding older ones from   *)
(* both the model and the database": the list, with its thumbnails, is     *)
(* what a reload would show, and the view is what of it passes the filter, *)
(* whatever is added, trimmed, cleared and filtered; an event that could   *)
(* not be stored only hides the oldest ones.                               *)
InboxIsDatabase ==
  LET all    == inbox.all
      db     == inbox.db
      stored == {i \in DOMAIN all : all[i].id # -1}
  IN  /\ inbox.view = Matching(all, filter)
      /\ NewestFirst(all) /\ NewestFirst(db)
      /\ \A i \in stored : \E k \in DOMAIN db :
           db[k] = all[i] /\ \A l \in 1..k : \E j \in stored : db[l] = all[j]
      /\ stored = DOMAIN all => db = all

(* An event shows the picture that was taken for it, and the file is       *)
(* there; no file stays behind that is not an event's, or will be looked   *)
(* at by the capture that wrote it ("don't keep an orphaned file"), beside *)
(* those whose capture ended after the program had quit - as long as       *)
(* every event could be stored.                                            *)
ThumbnailsMatch ==
  ~failed =>
    /\ \A i \in DOMAIN inbox.all : LET e == inbox.all[i] IN
         e.thumb => [id |-> e.id, serial |-> e.serial] \in inbox.files
    /\ \A p \in inbox.files :
         \/ \E i \in DOMAIN inbox.all : inbox.all[i].thumb /\ inbox.all[i].id = p.id
         \/ \E s \in inbox.shots : s.pc = "saved" /\ s.id = p.id
         \/ p.id \in left

-----------------------------------------------------------------------------
(* The polls                                                               *)
SameBurst(i, j) ==
  /\ happened[i].channel = happened[j].channel
  /\ Start(j) <= Start(i) /\ ~startsNewBurst(Start(j), Start(i))

(* Nothing the site has reported is passed over: a camera that was last    *)
(* seen active has raised an alert since it was idle, and every Frigate    *)
(* event since the first answer either was raised or belongs to a burst    *)
(* that was ("raise one detection per camera and type per burst"), however *)
(* polls fail, are late, or see several events at once.                    *)
NothingIsMissed ==
  /\ \A c \in Channels : seen[c] # {} => c \in alerted
  /\ watermark # None =>
       \A i \in DOMAIN happened :
         happened[i].channel # Ignored /\ Start(i) > base /\ Start(i) <= watermark =>
           \E j \in raised : SameBurst(i, j)
=============================================================================
