# A verification of reolink-native-linux in TLA+

The program is a Qt client for Reolink cameras and NVRs. Its GUI thread owns
every object a page can see; network calls, decoding and file transfers run on
pool threads or on detached threads that report back with queued calls. Nothing
is ever joined on the GUI thread except in the destructor of the download queue.
So the same three questions come back in every part: what does a late result do
to an object that has moved on, who else is using the device meanwhile, and does
something that was started always end?

This directory holds one specification per component, translated from the C++
sources, TLC configurations that check small instances of them, and proofs for
TLAPS. `PROJECT.json` maps every definition to the lines it stands for.

## 1. Inventory

For each component: its state, its operations, whom it talks to, what is hard,
what makes it correct.

**Download queue** (`device/DownloadQueue`, `DownloadPlan.h`). State: the item
list, one cancel flag per attempt, a four-thread pool, the save folder.
Operations: enqueue, cancel, retry, remove, clear, choose a folder; a worker
prepares, logs in, picks a name, transfers one or several files; its results are
queued calls of `update()`; `pump()` starts what may start. The destructor sets
all flags and waits for the pool. Hard: results arrive after the item was
cancelled, retried or removed; two workers share a folder; the only wake-up of a
waiting item is `pump()`. Correct: one download per NVR at a time, oldest first,
no NVR idle while an item waits, files on disk and list agree, quitting ends.

**Push-to-talk** (`media/TalkSession`, `protocol/BaichuanTalk`,
`BaichuanControl::transact`). State: the object, the microphone, one `Shared`
block with a bounded block queue per session, one connection per worker.
Operations: start, stop, microphone data, the worker's handshake (TalkAbility,
TalkConfig, TalkReset and again TalkConfig when the speaker is taken), sending,
closing. Hard: workers are detached, replies get lost, late results carry no
session. Correct: no hot microphone, speech in order and not after stop, no
swallowed failure, workers end.

**HTTP client and login token** (`protocol/ReolinkHttpClient`). State: token and
lease, two mutexes, the reason of the last failure; the camera's few sessions.
Operations: `call`, `callSlow`, `fetchSnapshot`, `downloadToFile`, logout when
destroyed. Hard: the token is read under another lock than the login; a slow
command learns late that its token is dead. Correct: one command at a time, no
session leaked, no fresh token thrown away, no call hangs.

**Device list** (`device/DeviceManager`, `core/CredentialStore`). State: rows, the
client of a host, `m_validating`, `m_nextRetryAt`, `m_hostFails`,
`m_pollInFlight`, the keyring. Operations: add, reconnect, new credentials,
remove; a 10 s timer polls or retries; validation and poll run in the pool.
Hard: every host must always have something ahead that will try it; logins are
limited by the device. Correct: no host is forgotten, validations do not stack,
wrong passwords are not tried again and again, recovery is seen.

**Stream player** (`media/StreamPlayer`). State: the object, its `Session`, a
detached worker per session with its retry budget and recorder, a smoothing
buffer. Operations: set a source and start, stop, destroy, start and stop a
recording; the worker opens, reads, decodes, reconnects. Hard: old workers run
beside the new one; results are queued; a stream may fail in the middle of a
recording. Correct: one session is meant to have the camera, no old picture appears, live
streams come back, other retries are limited, files are closed.

**Baichuan media client** (`protocol/BaichuanClient`, `media/BcMediaParser`). State:
a ring of frames under a mutex, a seek request, the abort flag; the pump thread's
own target and "picture started". Operations: `start`, `seek`, `stop`, blocking
`read`; the pump logs in, asks, parses, pushes, waits while the ring is full. Hard:
both sides sleep on one condition; after a seek the connection still carries the
old position. Correct: nothing old reaches the decoder, sound waits for the
picture, a seek reaches the camera, stop ends both sides.

**Baichuan control** (`protocol/BaichuanControl`): one connection per request for
settings, schedules, PTZ. Its `open()`, `transact()` and `sendBinary()` are part of
the talk model; the settings, one request with one answer each, are *not modelled*.

**Detection and Frigate polling** (in `DeviceManager`, `FrigateApi`). State: the last
alarm state of each camera, the watermark, the time of the last alert. Operations:
a poll starts, its answer (whole, partial or none) arrives. Hard: a poll sees
several events at once or none, and edges are taken against what was seen last.
Correct: every rise and every burst raises an alert.

**Event inbox** (`EventManager`, the `events` table of `Database`). State: the list,
the rows of the table, the filtered view (indices into the list), thumbnail files.
Operations: raise, a thumbnail arrives, filter, clear, restart. Hard: thumbnails
arrive after a clear or a trim; every insertion moves every index. Correct: list,
table, view and files agree.

**Desktop notifications** (`Notifier`): one D-Bus call per event. *Not modelled.*

**Activity grid** (`ActivityPolicy`, `ActivityGrid`). State: tiles with hold, kind and
pin, a queue of cameras, the start times of each NVR. Operations: a detection, the
1 s timer, pin, layout, on and off. Hard: holds, minimum times, priorities and the
start rate meet in one tick. Correct: held cameras stay, AI goes before motion,
pins are respected, the queue drains.

**Playout and jitter buffers** (`VideoPlayoutQueue.h`, `AudioJitterBuffer.h`): pure
data structures with tests of their own. *Not modelled*; the stream player's
`held` is only the fact that some frame waits.

**Single instance, updater, start-up** (`SingleInstance`, `Updater`, `main.cpp`). State:
the lock file, the socket's name and its server, the program's file with its backup
and its download. Operations: lock, hand over, remove, listen; quit; check,
download, swap, start the new program. Hard: processes race and crash between any
two file operations. Correct: one client, a whole program, an answered launch.

**Discovery, settings pages, quick replies**: requests with one answer each.
*Not modelled.*

**Live pane** (`ui/qml/components/LivePane.qml`): picks the source of its player
and falls back when the player shows an error. *Not modelled.*

**Left out for good**: the wire formats, crypto and codecs (byte level, covered
by unit tests), the rest of `Database` (synchronous SQL), audio output, layout.

How they interact: pages call the device list, the queue, players and talk
sessions directly on the GUI thread. The device list gives its HTTP clients to
pool tasks and, as `DownloadSource`, to the queue. Players get URLs, or the
blocking read of a Baichuan client. The polls of the device list raise events in
the inbox and detections in the grid. The device shares its logins and its one
download slot among all of them: that is why the client's and the queue's
promises are about the device and not about an object.

## 2. Modules and how they correspond to the code

Each component has the module itself (variables, `Init`, one action per slot or
step), `...Props` with what must be true, `...MC` for TLC where the constants need
definitions (`MediaClient` and `Launch` do without), and `...Proofs` for TLAPS: all
but `ActivityGrid` have one (that of the inbox is `AlertsProofs`).

| Module | Models | GUI thread | Other threads |
|---|---|---|---|
| `NvrSlots` | the queue's promise, abstractly | `Submit`, `Withdraw` | `Serve`, `Complete` |
| `DownloadQueue` | queue, workers, folder | `Enqueue`, `CancelWaiting`/`CancelRunning`, `Retry`, `Remove`, `ClearFinished`, `SetFolder`, `Deliver`, `Quit` | `Worker(r)`: one action per network call, access to the folder or read of the flag |
| `TalkSession` | object, workers, camera's speaker | `Start`, `StartWithoutMic`, `Stop`, `Destroy`, `MicData`, `Deliver` | `Worker(s)`; `TakeSpeaker`, `DropLink` of the world |
| `HttpClient` | token, locks, camera's sessions | (none: all callers are pool threads) | `Begin`, `Lock`, `EnsureLogin`, `SignIn`, `Copy`, `Exchange`, `Clear` |
| `DeviceHost` | one host of the list | `AddDevice`, `Reconnect`, `UpdateCredentials`, `RemoveDevice`, `PollTick`, `Deliver` | `Pool` (validation), `Poll` |
| `StreamPlayer` | one player, its sessions and workers | `Open`, `Stop`, `Destroy`, `StartRecording`, `StopRecording`, `Deliver`, `ShowHeld` | `Worker(s)`: attempts, packets, pictures, reconnects |
| `MediaClient` | ring, pump, reader | `Start`, `Seek`, `StopStore`, `StopWake` | `Pump`; `ReadCall`, `ReadTurn`; `Answer`, `Send` of the camera |
| `ActivityGrid` | tiles and queue | `Ingest`, `Second` (the timer), `SetBaseline`, `SetPinned`, `SwitchOn`, `SwitchOff` | (none) |
| `EventInbox` | list, table, view, files | `Raise`, `ThumbnailReady`, `SetFilter`, `Clear`, `InboxRestarts` | `SaveThumbnail` |
| `Alerts` | polls; extends and composes `EventInbox` | `PollHost`, `HostAnswers`, `PollFrigate`, `FrigateAnswers`, `NoAnswer` | `Happens` of the server |
| `Launch` | launches, socket, program files | `Acquire(p)`, `Start`, `ReadCommands`, `Quit`, `Check`, `Apply`, `Handler(p)` one file operation at a time | `Crash` between any two |

Conventions. A slot of the GUI thread is one action, with everything it calls
(`Update` includes `pump()`; `Stop` includes the reset of recording and
buffer). Queued calls are a sequence `posts` that is delivered in order; a
post's `from` is history when the real call carries no session. A worker's
program counter `pc` splits its function where another thread can see or do
something in between: at network calls, locks, atomics and shared files.
Timeouts are choices: whatever has a limit may end at any time, with failure.
Ids only grow and rows, names and payloads are abstract values. A definition
marked as a mutant is a plausible bug next to the definition it is a bug of; no
behaviour of the system uses it.

The abstract specification `NvrSlots` says only: requests wait, an NVR that is
free is given its oldest request, a request completes or is withdrawn while it
waits. `DownloadQueueProps` maps the queue to it (waiting = queued items,
serving = live workers).

## 3. Runs

Passing runs:

| Run | Question | Bounds | Why enough |
|---|---|---|---|
| `download_slots` | One worker per NVR, no idle NVR, no stuck item, refinement of `NvrSlots`, every item ends, quitting ends | 2 NVRs, 3 items, one attempt each, pool of 1 | two items of one NVR and one of another compete for a pool that is too small |
| `download_files` | Does the disk agree with the list, also after quitting? What can be overwritten? | 2 NVRs that share one of two names, 2 items, 2 attempts, 2 parts, 2 folders, 2 numbers for each name, pool of 2 | a retry beside a cancelled attempt, a failure after the first part, two workers in one folder that pick the shared name, or different ones, at once |
| `talk_overlap` | Who has the microphone, what is heard, who ends? | 2 sessions, 3 blocks, queue of 2, lost replies, lost links, a camera that changes its mind | an old worker beside a new one is the interesting case; a third adds no new pair; the third block finds the queue full and the oldest is dropped |
| `http_shared` | Tokens, sessions, locks | 2 threads, 3 calls, 3 logins, 1 session forgotten | a thread that learns late needs one other that logs in again meanwhile |
| `host_nvr` | Forgotten hosts, stacked validations, wasted logins, recovery | 2 channels, 2 passwords, 2 acts of the user, 2 changes of the device, partial answers; the keyring works | every pair of acts meets every stage of validation and poll; an outage needs a change down and one up; the theorems cover a keyring that fails |
| `stream_overlap` | Sessions, pictures, budget, files closed, running recordings and the end shown | 2 streams that are retried, 2 recordings, 2 queued calls, budget 2 | an old worker beside a new stream; two recordings of one session, or one in each: an old file beside a new one. A live stream does the same without a budget |
| `stream_live` | Do live streams come back, do workers end? | 2 streams, live and one-shot, no recording, 2 queued calls | an old worker beside a new stream; recordings do not take part |
| `media_seek` | Old pictures, early sound, lost seeks, hanging stops | moments 1, 4, 5 of which 1 and 5 are sought, tolerance 2, 2 seeks, a ring that is overfull with one frame, 1 frame on the wire, 2 frames between requests | a seek in between two others' frames; playback goes on by itself, from 1 to 4, which is near 5; one frame in the ring blocks the pump with the next one in its hand when seek or stop arrives |
| `launch_session` | One client, a whole program, answered launches | 3 processes, one of them followed | a client that quits or updates, one that races in, one that crashed |
| `activity_tiles` | Who keeps, gets and waits for a tile? | 3 cameras of 2 NVRs, 2 tiles, hold of 2 s, minimum of 1 s, 1 start per second, 1 pin | more cameras than tiles, holds longer than the minimum, an NVR with its budget used up |
| `alerts_inbox` | List, table, view, files; missed alerts | 2 cameras, an inbox of 2, 3 alerts, 3 Frigate events, 2 filters, failing inserts, restarts | the third alert pushes the first out, whose thumbnail may still be on its way |

`EverythingEnds`, `WorkersEnd`, `WorkersProceed`, `ComesBack`, `NothingLeftBehind`,
`RecordingsAreInOrder`, `ThumbnailsMatch` and `InboxIsDatabase` are conjunctions; the
comments above them say what each part is about. `TypeOK` is stated in every Props
module as documentation and as the base of the proofs.

Violation: it states what a document of the repository says, and TLC shows a
behaviour of the code that breaks it. `PROJECT.json` quotes the lines.

* `stream_reconnect`: `PictureIsShown`. `streaming` outlives an attempt, so after
  a reconnect the state stays Error or Connecting and the pane hides the video.

### Fairness

`Spec` has none; liveness uses `FairSpec`. Always: the event loop delivers queued
calls, and each worker takes steps. That is justified because every blocking call
has a limit or is woken: curl's timeouts, the stall limit of transfers, the 12 s
of `transact()`, FFmpeg's interrupt callback, the stop hook of a native source.
A transfer that only reports progress is not counted as a step. For the device
list also the poll timer ticks. Never: the user, the device, the network. What a
worker finds when a call returns is its own affair, so no property assumes that
anything ever succeeds, except `ComesBack`, which says so in its premises (the device
stays up, its answers are whole).

The media client's pump takes steps (every wait of it is short), and the reader
reads or leaves for good: `runSession()` returns on errors without `stop()`, so no
reader is assumed that reads until it is stopped, and `SeekIsSent` says nothing when
it has left. The camera is not assumed to send anything. A launch goes on through `Acquire`, `main` and the updater's handler
(weakly fair: local calls with limits); reading the socket's commands is strongly
fair, since a client reads them in its event loop, between two swaps of its program. The activity
grid's timer ticks; `QueueDrains` asks that nothing more is detected or rearranged.
`Alerts` has no liveness: its promise is that nothing is missed by the time the
poll has seen it.

`CHECK_DEADLOCK FALSE` is set where the system may stop: the object may be
destroyed, the program left, or the bounded supply of calls used up. The device
list, the grid and the inbox with its polls never stop, so their runs check for
deadlock.

## 4. What is proved

By TLAPS, for every value of the constants that meets the named assumption of the
module (positive bounds, `None` and friends outside of the sets they are not in).
The provers take no part of the state for granted: each proof gives an
inductive invariant and one step per action.

* **`DownloadQueueProofs`**: `TypesHold`, `NvrServesOne`, `NoNvrIdles`. That an NVR
  serves one worker is not inductive: the queue decides by what the *list* shows,
  so the invariant `QueueInv` says that a live worker belongs to the current
  attempt of an item shown as running (`Current`), that at most one such item
  exists per NVR (`OneActive`), and that queued results are for running items
  with nothing behind a final one and no worker left (`InOrder`). `PumpLeavesNoneIdle`
  gives the third theorem: whoever frees an NVR ends with `pump()`.
  `RunningAccounted` needs the converse (`Accounted`: who is shown as running has
  a worker or a final result queued). `ImplementsSlots` is the refinement of
  `NvrSlots`: waiting is what the list shows as queued, serving is the set of live
  workers; initial states map to initial states, and every action to one of
  `NvrSlots` or a stutter. The hard case is `pump()`, which starts an item by its
  *number* where the abstract queue takes the oldest request.
  In its second half the files: `SavedFilesStay` and `NothingIsLeft`. The invariant
  `FilesInv` says who wrote each file: a worker's names and parts are its attempt's
  (`NameKnown`, `Locals`, `OwnFiles`), the files of one attempt are in the folder it
  looked at, and no two attempts share one (`Owners`, `Ended`); a result on its way
  carries what is on the disk (`Arrivals`); what the list shows as saved is whole
  (`AllSaved`, which is `SavedFilesExist` where no name is shared) and saved once (`OneCopy`). `FreePath` shows by the pigeonhole
  principle that `uniquePath()` finds a free name. Two hypotheses, both named:
  `NamesApart` (clips of different NVRs have different names, see section 5; one
  NVR has one worker, which is why the others need nothing) and `EnoughNames` (no
  more items than numbered names; the code tries 999).
  `OnlySharedNamesOverwrite` needs neither. It is about the window between
  `uniquePath()` and the opening of the file: what is overwritten is of a name that
  two NVRs share, or of one without a free number. `PathsInv` says of a worker in
  this window that its path is still free unless one of the two holds. Each step of
  another worker keeps that, for it touches only files of its own item's name
  (`WorkerKeepsPaths`), and two workers with one name are of two NVRs that share it
  (`OnlySharedNamesMeet`).
* **`TalkSessionProofs`**: `TypesHold`, `MicHasOneOwner`, `SpeechIsInOrder`,
  `SilentAfterStop`, `FailuresArrive`. `OnlyTheCurrentSession` with types is
  inductive; every action either leaves object and flags alone or cuts the current
  session loose (`CutLooseCuts`). For order, `InLine` puts what a session has heard,
  the block in the worker's hand and its queue in one line of growing numbers, all
  of them captured (`Bounded`). For failures, `ReportInv` says that a worker that is
  gone has left its report in the queue or the object has seen one.
* **`HttpClientProofs`**: `OneAtATime` from `LockHeld` (a call past the lock holds
  it); `NoSessionLeaks` and `LiveTokenStays` from `DeadToken` (a token a thread is
  about to drop is dead and stays dead, unless a snapshot was refused) and the
  numbering of tokens; `RetryIsEnough` from `RetryInv`: a second try holds a token
  newer than the one that failed (`NewerIsLive`, `SecondTry`), so if that is refused
  too the camera has dropped it meanwhile.
* **`DeviceHostProofs`**: `NobodyForgotten`, `ValidatedOneByOne`, `AtMostOneGuess` from
  one invariant: `m_validating` is set exactly while a validation or its result
  is on its way, a retry is only scheduled when none is, and a rejected login
  leaves neither.
* **`StreamPlayerProofs`**: `TypesHold`; `OneSession` and `NoOldPicture` from `SessionInv`
  (a held frame is always of the current session, because whatever replaces the
  session empties the buffer); `RetriesEnd` from `Books` (failures and what is left
  of the budget add up to it). `RecordingsArrive` needs who writes which file: a
  clip that a session writes or is to write is nobody else's and was not announced
  (`OneWriter`), and while the current session writes, that it does is the last
  news of recording (`RecordingSeen`). `TheEndIsSeen`: the news of the end is the
  last of a state (`EndSeen`). Each step of a worker is shown to do one of four
  things to its recorder: keep it, close it, open it, or fail to open it.
* **`MediaClientProofs`**: `TypesHold`, `NothingOldGetsThrough`, `SoundWaits` from
  `MediaInv`: what is in the ring is of the latest request the pump knows, or waits
  to be cleared under the lock (`Progress`), and what the camera
  still sends is of the requests made of it, in order (`Connection`, `Delivery`).
  A frame carries the request it answers and its own time; the pump sees only the
  time. So old frames are kept out as long as none of those in flight since the
  seek is near its target (`Strayed`, the exception of `NothingOld`): playback that
  has come near gets through: that is `OldIsDropped`, see section 5.
* **`LaunchProofs`**: `ClientsAreOne` from `SocketInv` (who serves holds the lock; who
  has found nobody there has the lock or an excuse: `HoldsLock`, `Serves`,
  `NobodyThere`); `ProgramIsThere` from `UpdateInv`, which says for each point between
  two file operations what is under the three names (`FilesAt`). The actions are
  those of the model, so a crash may come at every one of these points.
* **`AlertsProofs`**: `NoEventIsMissed` from `FrigateInv`: Frigate's events are in the
  order of their starts (`Times`), the watermark is the start of one of them and a
  poll under way asks for what is after it (`Marks`), what is remembered of a camera
  is an event that was raised, none of them after the watermark (`Raised`).
  `BurstsCover` shows for the loop over an answer, by induction on its length, that
  each event is raised or is in a burst of one that was. `ListIsTable`,
  `PicturesMatch` and `TypesHold` from `InboxInv`. A stored event is in the table
  no further down than in the list, and the table has nothing newer that is not
  listed (`Table`): what failed to be stored only hides the oldest rows.
  The view ascends through the indices that pass the filter (`View`), and
  there is only one such sequence (`AscendingIsOne`), so that shifting and cutting it
  gives what a reload would. While nothing failed, ids are given once (`Numbers`),
  a capture under way is of an event that has no picture (`Captures`), and each file
  has an owner (`Owned`). A loop that raises several events is again an induction,
  over `AddedKeeps` and `TrimmedKeeps`: between the two the list is one too long.

Where a theorem states no property of a run it is `TypesHold` or `OneAtATime`: types are
the base of the other proofs, and that commands go one at a time follows from the
mutex alone.

Only model-checked:

* All liveness: `EverythingEnds`, `WorkersEnd`, `CallsEnd`, `WorkersProceed`, `ComesBack`,
  `SeekIsSent`, `StopEnds`, `LaunchIsAnswered`, `QueueDrains`.
* `ActivityGrid` (`HeldCamerasStay`, `TilesAreGivenRight`). One step of it is a chain of loops over tiles and queue that choose by
  several keys at once; stated with TLC for every reachable state of the run.

Induction on the length of a list does not use the library's theorems with an
operator parameter, which the provers cannot instantiate: that every set of naturals
that has 0 and is closed under successor is all of them follows from `WFMin` and
`NatLessThanWellFounded` (`Induction` in `AlertsProofs`). For this the inbox and
its polls state lists by the indices they keep (`InOrder`), not by `SelectSeq`.

## 5. Known deviations

Beside the violation above, these behaviours of the code contradict what a
comment or a document says, or what a user expects. The models contain them; the
properties are stated so that they hold of the code as it is. The first six
have a formula of their own in the Props modules that states the promise: listed
as INVARIANT or PROPERTY in the component's configuration it makes TLC show the
behaviour.

* `MicOnlyAfterAccept` (`TalkSessionProps`): `BaichuanTalk::open()` ignores the result
  of the first TalkConfig (`BaichuanTalk.cpp:165`) and looks at `status`, which still
  holds the answer to TalkAbility if no reply came.
* `NeverAutoRetried` (`DeviceHostProps`): the 10 s poll goes on signing in with a
  password that the device no longer accepts (`DeviceManager.cpp:219`), where
  `README.md:61` of the repository says "never auto-retried".
* `OnlineMeansAnswering` (`DeviceHostProps`): a successful validation leaves
  `m_hostFails` alone; past three (`DeviceManager.cpp:132`) the next outage is never
  noticed.

* `OldIsDropped` (`MediaClientProps`): the filter after a seek lets an I-frame pass
  that is within 120 s of the target (`BaichuanClient.cpp:351`), also one of the old
  position when playback is that near to the target. From then on all of the old
  frames pass, where the comment drops them "until an I-frame lands at the requested
  time". An I-frame without a time is always let through.
* `TapsSurviveReconnects` (`StreamPlayerProps`): `docs/DESIGN.md:298` says that
  recording taps survive reconnects; the code closes the file and forgets that it
  was to record (`StreamPlayer.cpp:799`), as its own comment says. One that was asked
  for but not begun does survive.
* `UpdateTakesOver` (`LaunchProps`): the updater starts the new program while the old
  one's socket still answers (`Updater.cpp:168`): the new one hands its launch over
  and ends, and the old one quits. `LaunchIsAnswered` excuses it (`Leaving`).

Downloads.

* A download cancelled after its last transfer has returned ends as saved
  (`run()` no longer looks at the flag; `DownloadQueue.h:55` says removed).
* Two NVRs of one name with cameras of one name, asked for the same minute: both
  workers may find the name free, and the second truncates the first one's file,
  where `CHANGELOG.md:116` says "An existing file is never overwritten".
  `OnlySharedNamesClash` is what is left of the promise. What is on the disk after
  such a clash is nobody's: `SavedFilesExist` excepts items of a shared name, and
  two theorems assume that there are none (`NamesApart`).
* After 999 copies of a name `uniquePath()` gives up and returns the plain name,
  which exists (the second exception of `OnlySharedNamesClash`; `EnoughNames`
  excludes it).

Talk.

* A late `postReady()`/`postFailed()` of a stopped talk session is applied to the
  next one (`TalkSession.cpp:154` says no-op). No microphone stays open through
  this: that is `OnlyTheCurrentSession`.
* After a send error `BaichuanTalk::close()` sends no TalkReset.

Login and device list.

* A refused snapshot drops a live token without a logout; `abandoned` counts it.
* `m_failKind` belongs to the client, not to the call: who shares the client may
  read the reason of another's failure.
* A password entered while a validation is under way is dropped. A password that
  cannot be stored is ignored: the next validation signs in with an empty one.
* A camera that was off when its NVR was validated never gets a row; an NVR
  validated while all cameras are off shows a placeholder that never comes online
  by itself. `ComesBack` excepts it (`Placeholder`).
* A poll with a stale password announces an outage that only the user can end.

Player and media client.

* States, recording news and sound of a stopped stream carry no session and may
  be applied to the next one; an `Error` without a retry is at once replaced by
  `Stopped`.
* An attempt at a live stream that finds no video, an unsupported codec or a
  decoder that does not open ends the session for good (`StreamPlayer.cpp:571-574`,
  `593-595`, `626-631`), where `StreamPlayer.cpp:863` says "Live sources reconnect
  indefinitely". `WorkersProceed` allows this end, at the opening, and no other.
* The media client never notices a lost connection: it goes on waiting until it is
  stopped (`docs/DESIGN.md` plans a watchdog).
* A player's worker that ends with an error does not stop its client. The ring
  fills, the pump sleeps, and `seek()` goes on returning true for seeks that are
  never sent (`DeviceManager.cpp:1494-1500`), where `BaichuanClient.h:56-57` says
  "false if the session has already ended". `SeekIsSent` excuses it.

Launch and update.

* A crash between the two renames leaves no program under its own name
  (`Updater.cpp:154` says "Atomic swap"); what `ProgramSurvives` promises is that
  the backup is there. A client started from a file that is gone, updating again,
  may lose that too (`excused`, as below).
* A quitting client's server unlinks the socket, by then possibly its successor's;
  a launch that waited 3 s for the lock goes on without it. `OneClient` and
  `ProgramSurvives` are stated for the behaviours without these (`excused`).
* What is written of a download is not checked: on a full disk a part of a
  program, if it is large enough, is swapped in. The model's writes succeed.

Activity grid.

* A tile that is given or marked again in place keeps its replay start and trigger
  (`ActivityGrid.cpp:127-132`). The properties do not look at them.
* Setting a layout may put a camera on two tiles; its hold covers one of them.
  `HeldCamerasStay` is about cameras that are on one tile.
* A reset forgets the starts of the last second, so more streams may start in it.

Inbox and polls.

* When the clock is set back, list (in order of arrival) and table (in order of time)
  differ. The model's clock does not go back.
* A row that could not be inserted has no place in the table, so a reload after a
  trim may show an older row whose thumbnail file is gone; `ThumbnailsMatch` is
  stated for `~failed`.
* A crash inside `clear()` leaves rows without files; a capture that ends after
  quitting leaves a file without a row (`left`).
* Frigate events that are listed out of the order of their start, or with the same
  start as the watermark, and those beyond 50 in one cycle are lost; so are the
  first ones when this clock is ahead of the server's.
* An NVR's answer without some camera's state resets that camera's edge: the same
  event may raise a second alert.
* The push switch is cached by row (`DeviceManager.cpp:1876`), and rows move; one
  read late overrides one just set.

## 6. What is not modelled

Lengths of time (only their order), formats and texts, sound, pacing, speed and
rotation of the player, batches of commands inside one HTTP call, several hosts at
once (they share only the timer), the unread count, push switches, notifications
and timeline marks of the inbox, crashes of the machine outside of the updater and
the launch (no other component keeps a journal; the database is one SQL statement
at a time). Of the components:

* *Settings, schedules and quick replies*, *device discovery*, *the other calls of
  Baichuan control*: one request, one worker, one posted answer; nothing is
  carried from one to the next.
* *Playout and jitter buffers*, *wire formats*: sequential functions of bytes and
  times, with unit tests of their own.
* *Desktop notifications*, *audio output*, *user interface*: calls to the
  desktop and layout.

## 7. Plan

1. Done: `DownloadQueue` with `NvrSlots`, `TalkSession`, `HttpClient`, `DeviceHost`,
   `StreamPlayer`, with the theorems above; `MediaClient`, `Launch`, `ActivityGrid`,
   `EventInbox` with `Alerts`.
2. Done: proofs of `MediaClient` and `Launch`, the files and the refinement of
   `DownloadQueue`, types, order and failures of `TalkSession`, recordings and the end
   of a stream, the polls and the inbox.
3. Next: `HeldCamerasStay` of `ActivityGrid`, by the same induction, once its loops
   are stated one tile at a time.
4. `LivePane`'s choice of source composed with what `StreamPlayer` posts; the two
   buffers against a reference definition over bounded inputs.
