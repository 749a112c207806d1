# TLA+ specifications of the editor's core protocols

These modules specify parts of this repository whose correctness depends on the
order of events: the protocol that keeps a remote connection alive across broken
sockets, the clocks that notice a dead one, the IPC channels on top of it, the key-value
storage every part of the workbench writes to, the model of a text file that is edited,
saved, reverted and reloaded at the same time, the backups that bring unsaved work
through a shutdown or a crash, and the synchronisation of settings between machines. TLC
checks them on small instances; TLAPS proves the most important results about all seven
for every value of the constants.

`PROJECT.json` lists, for every definition, the lines it stands for; for every
property, the run that checks it and a mutant of the code that breaks it; and the
places where this code is hard to test.

## 1. The system

### Components

The program is an editor that runs in several processes: a main process, one renderer
per window, shared and utility processes, extension hosts and, for remote work, a
server with extension hosts of its own. Inside a process everything runs in one
thread; concurrency comes from `await`, timers, events and messages.

| Component | State | Operations | Hard part |
|---|---|---|---|
| `PersistentProtocol` (`base/parts/ipc/common/ipc.net.ts`) | message and ack counters, queue of unacknowledged messages, writer buffer, pause flag | send, receive, acknowledge, request a replay, begin and end a reconnection | sockets that break anywhere, both ends reconnecting, duplicates |
| its clocks (same file) | time stamps, ack timer, timeout timer, keep alive interval | `_recvAckCheck`, `_sendAckCheck`, keep alive, timeout | timers against late answers |
| `PersistentConnection` (`platform/remote/common/remoteAgentConnection.ts`) | reconnection loop, permanent failure | retry, give up | a failure of an attempt while its answer is under way |
| server side connections (`server/node/*.ts`) | connections by token, grace timers, extension host process | accept a reconnection, hand a socket to another process | the hand-off crosses processes and may be reordered |
| framing, `BufferedEmitter` (`ipc.net.ts`) | partial frames; events held back | read, write, flush | chunks cut anywhere; events before listeners |
| IPC channels (`base/parts/ipc/common/ipc.ts`) | pending promises, handlers, requests that wait for `Initialize` or for their channel, active requests | call, listen, cancel, register, time out, dispose | replies after cancellation, channels not there yet, either end disposed |
| RPC protocol of the extension host | pending requests | call, cancel | not modelled |
| `Storage` (`base/parts/storage/common/storage.ts`) and its database | cache, pending inserts and deletes, delayer, waiters | init, set, delete, flush, close, external change | updates that fail, changes during an update, close during a flush |
| async primitives (`base/common/async.ts`) | running and queued tasks | queue, run, cancel, dispose | a task that starts while another one ends |
| `TextFileEditorModel` and its manager | versions, dirty, conflict and error flags, save sequentializer, last file stat, pending resolves | edit, undo, save, revert, reload | all of them during each other's `await`, other programs writing the file |
| working copy backups (`workbench/services/workingCopy`) | content versions, pending operations, queues of file operations, model of known backups, unrestored backups | back up, discard, restore, shut down with hot exit, auto save or a dialog | edits, saves and shutdown during a file operation, crashes, torn files |
| user data sync (`platform/userDataSync/common`) | file, stored ref and base, preview, status, versions in the store | sync, merge, apply, retry, accept, reset | two machines and the user at once, lost answers, crashes between writes |
| undo/redo service, lifecycle of windows | see `PROJECT.json` | | not modelled, or only where the backups meet it |
| editor core, workbench UI, extensions, CLI, build | | | not modelled |

### How they interact

The renderer and the server talk through IPC channels over a `PersistentProtocol`,
which sits on a socket. When the socket closes or `_recvAckCheck` times out,
`PersistentConnection` dials a new one and passes it to the protocol object
(`beginAcceptReconnection`, a handshake, `endAcceptReconnection`); the server finds
the connection by its token and passes the socket to its own protocol object or, for
an extension host, to another process. `Storage` is called by everything and calls
its database through a `ThrottledDelayer`; other windows change the same database and
are heard of by events. `TextFileEditorModel` writes and reads through `FileService`
and is told of file changes by the manager, which queues reloads. The backup tracker
listens to every working copy, calls the backup service, and is the last to be asked
before a window closes. A synchroniser reads and writes a local file, its own state and
the remote store, one after the other.

### What makes each part correct

* Protocol: every message is delivered once, in order, whatever the sockets do;
  nothing that is undelivered is forgotten; everything is acknowledged in the end.
* Clocks: a dead connection is noticed in time; a working one is never given up.
* Storage: no change is stranded or overwritten by an older one; what a closed storage
  held is in its database; nobody waits for ever.
* Text file: one save at a time; a queued save runs; a model that is not dirty holds
  what is in the file; no save overwrites, and no reload discards, a text nobody has
  seen.
* Channels: a call runs at most once and returns what its own run gave; every call is
  settled; nothing is left behind of a call or a listener that is gone.
* Backups: what the service says is backed up is in the file; a window that closes
  without a veto loses nothing; a backup is never discarded before it was found, and
  does not outlive a save.
* Sync: the base of a three-way merge is one the file was really made from; nothing is
  replaced by what was not made from it; the machines converge.

## 2. Modules

| Module | What it is |
|---|---|
| `ReliableChannel` | abstract: two ends, what was sent and what was delivered |
| `PersistentProtocol` | the two protocol objects, their sockets, the client's reconnection loop and the server's hand-over |
| `PersistentProtocol_proofs` | its inductive invariant, and that it implements `ReliableChannel` |
| `PersistentProtocolGaps_proofs` | that without loss nobody sees a gap and a hand-off is silent |
| `AckTimeout`, `AckTimeout_proofs` | the clocks of one direction of a connection, in discrete time |
| `Storage`, `Storage_proofs` | a `Storage` with its delayer, over a database that may fail |
| `TextFileEditorModel`, `TextFileEditorModel_proofs` | one open text file |
| `RemoteCalls` | abstract: what the caller of a remote call knows, and what has become of the call |
| `Channels`, `Channels_proofs` | `ChannelClient` and `ChannelServer` over an ordered protocol; implements `RemoteCalls` |
| `WorkingCopyBackup`, `WorkingCopyBackup_proofs` | backup tracker, backup service and shutdown of one window, over several sessions |
| `UserDataSync`, `UserDataSync_proofs` | machines that synchronise `tasks.json` through a store |

The modules are checked as they are; a `.cfg` only gives values to the constants.

### PersistentProtocol

One variable per field of the class, as a function of the two ends: the counters
`outgoingMsgId`, `outgoingAckId`, `incomingMsgId`, `incomingAckId`, the queue
`outgoingUnackMsg`, the buffer `writer` and `isPaused` of `ProtocolWriter`.
`wire[k][e]` holds the frames end `e` has in flight on socket `k`.
`sent` and `delivered` are history: the arguments of `send()` and the payloads given
to `onMessage`.

`Send`, `WriteNow`, `Receive` (one case per message type), `SendAckCheck`,
`SendKeepAlive` and `ReplayWindowElapses` are the methods and timers of the class.
`OnSocketClose`, `OnSocketTimeout`, `BeginAcceptReconnection`,
`SendConnectionTypeRequest` and `AttemptFails` are the client's loop. The server's side
of the handshake is its last round trip: `HandshakeReads` (what a short-lived protocol
object reads is gone), `AcceptManagement`, and, for an extension host,
`SendSocketToExtensionHost` followed by `AcceptExtHost` in the other process.
A frame's id and ack are kept modulo `IdSpace`, which stands for the 32 bits of the
header.

The environment is given by constants: `Lossy` (a socket may drop a frame and stay up,
the case the replay request is written for), `DataBeforeClose` (whether a socket hands
over everything it received before it fires close; a Node socket does, a browser
WebSocket need not) and `ConnectionTypes`.

### AckTimeout

Time is counted in ticks. A time stamp is the time passed since, up to the longest time
the code compares it with; a timer is the ticks until it fires. `Tick` waits for timers
that are due and for frames in flight on a live socket, so timers are punctual and
delivery takes less than a tick. Message ids are relative to `outgoingAckId`
(`UnackQueueExact` of `PersistentProtocol` is what justifies it), so no counter grows.
The load estimator, which can put a timeout off, is left to chance.

### Storage

`cache`, `pendingInserts`, `pendingDeletes` and `whenFlushedCallbacks` are the fields;
`deferred`, `activePromise` and `queuedPromise` are the `Delayer` and `Throttler` under
the `flushDelayer`; `request` is the update under way at the database. `pendingClose`
says what `doClose()` is waiting for, including a promise that will never settle. A
timer and the microtasks it starts are one step; an update begins and ends in two, and
may fail; the database may be changed by another process, whose event arrives later.
Of `SQLiteStorageDatabase` the model has the outcome of an update and of `close()`,
which after an error writes the whole cache anew.

### TextFileEditorModel

A text is a number: an edit makes a new one, named by its version; foreign texts are
negative. `undoStack` and `position` are the text model as undo and redo see it; each
entry has an alternative version id. `running` and `queued` are the
`TaskSequentializer`, `saves` the calls of `doSave` under way, with how far they are:
put off after an undo (`delayed`), in the save participants, before the check of
`writeFile`, before the write, before the stat that follows it. `doSave` is entered
from `save()` and from the end of another save, so `DoSave` and `DoneRunning` are
operators on the part of the state they touch.

Reads are the manager's: `OnDidFilesChange` queues a reload, `Reload` starts it,
`Revert` and `ForceResolveFromFile` are a hard revert. A reload stats the file first and
may find it unmodified; a forced read takes stat and content in parallel, in either
order. `MaxMishaps` bounds what goes wrong: another program's write, a failed stat,
write (which may spoil the file) or read.

History variables: `known`, the texts that were shown or could not have been noticed;
`unrecorded`, the file holds something the saved version does not describe; `missed`,
the last revert did not replace the text.

### Channels

Over the channel that `PersistentProtocol` implements (`toServer`, `toClient` are its two
directions, in order and without loss) a client makes calls and listens to one event.
`call` is the promise of a call, `uninitialized` the requests whose `doRequest` waits for
`Initialize`, `handlers` and `activeRequests` are the maps of the two classes. The server
has one channel: before `RegisterChannel` requests are collected with a timer each;
`FlushPendingRequests` runs in a turn of its own, so requests that come in before it
overtake those that waited. Microtasks belong to the action that causes them; that is why
a cancelled call sends `PromiseCancel` twice (once from `cancel()`, once from `finally`).
The map `Caller` hides where a request waits; with it `Channels` is shown to implement
`RemoteCalls`.

### WorkingCopyBackup

A text is a number and every edit makes a new one. `mapWorkingCopyToContentVersion`,
`pendingBackupOperations` (how far the operation of a working copy is: its timer, its
snapshot, the queue), `suspended`, `unrestoredBackups` are the tracker's fields; `model`
and `ioOperationQueues` the service's; `disk` is what the files hold. The head of a queue
is under way; cancelling it lets it finish, a queued operation that is cancelled does
nothing. `phase` says what `onFinalBeforeShutdown` awaits. The settings and the reason of
the shutdown only decide which working copies hot exit covers (`hot`: none, scratchpads,
all) and whether auto save runs (`auto`); both are chosen freely, and so is the user's
answer. `Exit` and `Crash` start a new session: an operation that was under way leaves
the old file, the new one, or a truncated one, and the model finds every file with
version 0. Saving is one step here; its parts are in `TextFileEditorModel`.

History: `disturbed` names the working copies whose last event was cancelled by a
shutdown, ignored while suspended or failed; `editedLate` those edited after the shutdown
began; `closed` those closed in this session; `stale` those that were opened again while
the model of the service still had a version of the backup they had before. Such a version
means nothing to the new working copy, whose content versions begin at 0 (section 6). A
copy is `stale` until an operation of the tracker replaces the version, the copy is closed,
or the session ends. A shutdown does not end it: an operation that a shutdown cancelled may
still be running, and what it leaves in the model is as old.

### UserDataSync

The store is a sequence of versions, a ref its index; it refuses a write whose `If-Match`
is not the latest ref, and it may forget old versions, as the store of the tests does.
`pc` is the step of a machine's synchroniser between two awaits: fetch (manifest, base,
remote), preview (read the file and merge), apply to the file, apply to the store, save the
ref, save the base. The stored ref goes through `Storage`, which is flushed later, so a
crash may bring back the one before it (`olderState`). Errors go where the code sends
them: a changed file to a new preview, a changed store to a new fetch, others (a failed
request, backup or file operation) to the caller; after `accept()` all of them go to the
caller of `apply()`. A machine that remembers a sync whose base it can no longer read
(`BaseIsLost`) accepts the remote text without a merge (`acceptRemote` of `doSync`).

History: `knows` holds, for every file, version and preview, the texts it was made from;
`interrupted` says that a sync was cut short. A preview, whatever the merge decides, was
made from the file *and* from what is in the store: it is the judgement of a merge that has
seen both. (An earlier history, in which a preview that only takes the remote text forgot
the file's own, satisfied the two-machine run but not `OnlyForward` for three machines and
five edits; the proof found that.)

## 3. Runs

Every run finishes within about three minutes with two workers.

| Run | Bounds | What it shows |
|---|---|---|
| `safety` | 2 messages per end, 3 sockets, both kinds of connection, no loss | `ImplementsReliableChannel`, `UndeliveredIsKept`; no gap ever (`NoGapWithoutLoss`); nothing is written into a hand-off (`HandOffIsSilent`) |
| `lossy` | an extension host connection, 2 messages per end, 2 sockets, a keep alive in flight, frames dropped | the inductive invariant with replay requests at work; the refinement follows from it by proof |
| `liveness` | 1 message per end, 3 sockets, fair | `EventuallyDelivered`, `EventuallyAcknowledged` |
| `watchdog` | times 2, 3, 4, up to 3 unacknowledged messages, dispose allowed | `WatchdogInTime`, `AcknowledgedByKeepAlive`, `NoSpuriousTimeout` |
| `storage` | 2 keys, 2 values, 3 changes, 1 failure, 1 external change, every hint, fair | `PendingIsScheduled`, `CacheIsWritten`, `ClosedIsSaved`, `WaitersAreReleased` |
| `storage_always_closed` | 1 key, 2 changes, 1 failure, fair | violation, see section 6 |
| `text_file` | 2 versions, 1 write of ours, 1 mishap, fair | the inductive invariant, `OneSaveAtATime`, `CleanIsSaved`, `NoUnseenOverwrite`, `ReloadKeepsEdits`, `QueuedSaveRuns` |
| `text_file_clean` | 2 versions, 1 write, no mishap | violation |
| `channels` | 1 call, an event listened to 3 times and fired once, 2 registrations, both ends may be disposed, fair | the inductive invariant, `ImplementsRemoteCalls`, `EveryCallSettles`, `HandlerIsAwaited`, `CancelIsTold`, `SubscriptionMatches` |
| `hot_exit` | 2 working copies, one a scratchpad, 2 edits, 1 fault (a failed file operation or a crash), 1 close, 1 shutdown, fair | the inductive invariant, `ExitKeepsEdits`, `BackupIsCurrent`, `CleanHasNoBackup`, `UnrestoredBackupsKept`, `ModifiedIsBackedUp` |
| `sync` | 2 machines, 3 texts, 1 fault, 1 forgotten version, fair | the inductive invariant, `BaseIsAncestor`, `ConflictIsReal`, `ReplacedIsBackedUp`, `OnlyForward`, `Converges` |
| `sync_stuck` | the same machines, no fairness | violation |

Why the bounds are enough. In the protocol a gap needs two messages, an out-of-order
hand-off needs two reconnections (three sockets), and a duplicate needs one message
and one reconnection. The refinement is proved for all payloads, so a single payload is
enough for the runs; `IdSpace` is the smallest number that is larger than the number
of messages. In `AckTimeout` the times keep the order of the code's constants
(`AcknowledgeTime < KeepAliveSendTime < TimeoutTime`), and three messages have a first,
a middle and a last one. The connection to the server process (no hand-off) is covered
by the theorems, which hold for both values of `ExtHost`. In `Storage` three changes
are one pending, one in the update under way and one after it; a key with an insert and
a delete needs two. In `TextFileEditorModel` two versions give an edit that overtakes a
save and an undo of it; `MaxWrites` only bounds the calls of `save()`, so a save
that is queued or was started before the bound is reached still writes. The text file
run was also tried once with three versions (5.8 million states) and with two mishaps
(2 million states, one version), without a violation. In `Channels` calls do not meet each
other except in the order of messages, so one call and one event show every crossing of
request, answer, cancellation, registration and disposal; the event needs three listens to
be removed, added and removed around a registration. Two calls (one listen, one
registration, 3.5 million states) were tried once, without a violation. In
`WorkingCopyBackup` one working copy is edited during its own backup with two edits, and
two are needed for a shutdown that fails for one of them; an exit and a crash give
three sessions, and one close is enough to open a working copy again. A failure and a crash
in one behaviour (2.7 million states) and a second shutdown (3.8 million states, safety
only) were tried once, without a violation. The run has a window with a folder; the proofs
cover both values of `EmptyWindow`. In `UserDataSync` three texts are the first one and an
edit on each
machine, which is a conflict, or a conflict's resolution overtaken by another edit; one
fault can hit any step. The inductive invariants were checked in the same runs before they
were proved, so a proof that failed could be told from an invariant that does not hold.

Deadlock is not checked where the system may stop: when the bounds on sends, sockets,
changes or edits are used up there is nothing left to do. `AckTimeout` never stops, and
there it is checked.

### Fairness

* Protocol: every timer that is armed fires (`WriteNow`, `SendAckCheck`,
  `ReplayWindowElapses`, `OnSocketTimeout`), the event loop hands over what a socket
  received and its close event, the loop of `PersistentConnection` goes on
  (`BeginAcceptReconnection`, `SendConnectionTypeRequest`, `AttemptFails`), and the
  server answers. Nothing is assumed of breaks, losses, keep alives or the owner. The
  properties end when `OutOfSockets`: the model allows no further attempt, the code
  would make one.
* Storage: the delay elapses, the database settles each call one way or the other.
* Channels: messages arrive, timers and the flush run, and a call that has begun comes to
  an end (a channel that never answers is the caller's risk).
* Backups: the timer of `scheduleBackup` fires, a snapshot is taken, file operations end
  one way or the other. Nothing is assumed of the user or of shutdowns.
* Sync: auto sync starts a sync when the synchroniser is idle, and each of its steps comes
  to an end. Nothing is assumed of the user, of conflicts or of faults.
* Text file: a save goes on: its delay elapses, its participants return (they run under
  a progress with cancellation), and the file system answers.

Each is weak fairness of what the JavaScript event loop, its timers or the operating
system do on their own.

## 4. Proofs

Everything below is proved by TLAPS for all values of the constants that satisfy the
named assumptions; there are no other assumptions.

* **`PersistentProtocol`** (`NoDataAssumption`, `BoundsAssumption`, `FlagsAssumption`,
  `ConnectionTypesAssumption`). `UndeliveredIsKept` and the refinement are not
  inductive: an ack that was never sent for a received message would make the queue
  drop what is undelivered, so the invariant has to speak of every frame that is
  queued, buffered or in flight. `IInv` says that the counters of the two ends agree
  (`CountersAgree`), that what was delivered is a prefix of what was sent, that the
  queue is exact, and that every frame of an end is a `GoodFrame`: its ack is not above
  what that end received, and a Regular message carries what `send()` was given under
  its id. `GoodFrame` only grows, so frames stay good wherever they are, which is also
  why lossy and reordered sockets cost nothing in the proof. From it follow
  `UnackQueueExactness`, `NothingIsLost` and `Refinement`: a step of `Send` is the
  abstract send, the receipt of the next message is the abstract delivery (its payload
  is the right one because its frame is good), everything else stutters.
  `BoundsAssumption` contains `MaxSends < IdSpace`: ids do not wrap.
  `IInv` says nothing of the order of frames, because a lossy socket keeps none. Over
  sockets that are up or broken (`~Lossy`), `LosslessInv` adds it (`LosslessInvariance`).
  What an end has on the wire and in the writer of its socket, its `Pipeline`, has no
  gap after what the peer has received, and ends with its last message unless it is
  reconnecting (`PipelinesAreGapFree`); so a replay is never asked for (`NobodyAsks`,
  hence `GapsNeedLoss`). The step that could break this is the server's change of
  socket, which forgets what the client wrote to the new one before. It wrote nothing:
  on an open socket that is not the server's the client is reconnecting or paused
  (`ClientIsSilent`), because the answer that ends its reconnection comes behind a
  Pause as long as the socket is on its way to the extension host (`AnswersArePaused`),
  and sockets are taken in order (`SocketsInOrder`). `HandOffsAreSilent` is a part of
  this. `LosslessInv` is in no configuration; added to `PPSafety.cfg`, TLC finds it
  true there.
* **`AckTimeout`** (`TimesAssumption`, `MaxUnackedAssumption`, `FlagsAssumption`).
  `Watchdog`, `AckDelay` and `WorkingConnectionStays` from an invariant that relates
  each wait to the keep alive interval: a message has waited for its ack no longer than
  since the last keep alive, and on a working connection the last read is no older than
  the peer's last keep alive. Since the latter is less than `TimeoutTime`, the timeout
  cannot fire there.
* **`Storage`** (`NoValueAssumption`, `HintsAssumption`, `BoundsAssumption`).
  `NoChangeIsStranded`, `CacheReachesDatabase` and `CloseSaves` are themselves parts of
  the invariant. What they need besides: no change of our own is on its way to a key
  with an unreported external change, whose last value is in the database
  (`EventsAreNews`); nothing is pending before `init()` is done (`NothingBeforeInit`,
  `NewIsEmpty`); and the flush `doClose()` waits for has taken everything with it
  (`ClosingIsLast`), without which a close could end before the last update.
* **`TextFileEditorModel`** (`BoundsAssumption`). The order of saves and resolves,
  `TasksOK`, is inductive by itself and gives `SavesAreSequential`: the sequentializer's id
  is the one of the last `run()` of the save under way, and a save is only queued behind a
  save of an *older version* which is past its participants or cancelled. That is what
  makes the nested tasks of `doSave` safe: the queued save starts when the inner task ends,
  under a new id, so that the end of the outer task, whose id is older, does not stop it.
  On top of it `IInv` says what is known of the file. `CleanModelsAreSaved` needs that
  alternative version ids are never used twice (`VersionsAreDistinct`), so that the state
  undo or redo comes to is *the* saved one, and that its text is in the file
  (`SavedVersionIsKnown`). `WritesReplaceKnownTexts` needs that a stat which is still
  that of the file means that the file is known, wherever that stat is kept: in
  `lastResolvedMtime` (`StatIsKnown`), in a save (`WritesAreKnown`), in a read
  (`ReadsAreKnown`). `ReloadsKeepEdits` needs that a read whose version is still current
  began for a text that was saved.
* **`Channels`** (`BoundsAssumption`, `CallsAssumption`). `IInv` follows a call from one place
  to the next: nobody has heard of a call that was not sent (`UnsentHasNoTrace`), one that
  waits for `Initialize` waits once (`UninitializedWaits`), its request is in one place or the
  call was begun (`RequestedOnce`), an answer on its way is what the call gave
  (`AnswersAreTrue`). From these follows `ChannelsImplementRemoteCalls`: a call runs at
  most once and its caller is told what that run gave. `HandlersAreAwaited` is part of it.
  `CancellationsAreTold` needs that a cancellation stays behind its request on the wire
  (`CancelFollows`). `SubscriptionsMatch` needs the number of subscriptions, requests and
  pending requests of the event to stay within the listens (`SubscriptionsCounted`) and the
  messages about it to take turns, starting from what the server holds and ending with what
  the client wants (`EventsTakeTurns`, `HeardAsSent`).
* **`WorkingCopyBackup`** (`KindsAssumption`, `BoundsAssumption`). `IInv` is one conjunct per
  working copy: the operation somebody waits for, and may cancel, is the last of its
  queue (`QueueOK`); what the tracker is about to do is for a modified copy (`PendingOK`);
  what the model does not know has no text (`DiskOK`); the backup of a copy that was not
  opened yet is untouched (`UnopenedOK`); a copy that is not modified loses its backup
  (`CleanOK`). `UnrestoredBackupsAreKept` and `CleanCopiesHaveNoBackup` need no more.
  `BackupsAreCurrent` and `ExitIsSafe` need that a content version names one text within
  the life of a working copy (`VersionsOK`) and how far a shutdown has come with each
  modified copy (`ShutdownOK`). A version that the model kept from before the copy was
  closed names another text, so `VersionsOK` speaks of `OwnVersion`, which leaves it out,
  and the two theorems leave out the copies in `stale`; for those they are false (section
  6). Nothing is assumed about closing and opening again.
* **`UserDataSync`** (`BoundsAssumption`), for any number of machines. Every version was made
  from all versions before it (`VersionsBuildOn`), what a machine has fetched is a version
  (`DataIsFetched`), what it has synchronised its file was made from (`SynchronisedIsKnown`),
  what it is about to decide with is no older than what it took or wrote (`RemoteIsNewer`),
  and what its preview will do loses no text (`PreviewIsTrue`). From these follow
  `BasesAreAncestors`, `ReplacedTextsAreBackedUp` and `OnlyForwardSync`. The last one has
  three exceptions for a file: the user has seen the text and decided, the base is lost
  (`AcceptedIsLost` is the lemma that remote texts are accepted unasked in no other case),
  and `DeleteRace`, a text written after the preview of a sync that deletes the file.
  `ConflictsAreReal` needs the opposite kind of fact, what a machine does *not* know, and
  therefore who else has a text: `ConflictInv` on top of `IInv` (`ConflictInvariance`).
  Texts pass between machines through the store only, so a text that a user makes is
  `OnlyHere` until it is written. A machine whose last sync was complete has its base saved
  (`BaseIsSaved`), its file is that base or `OnlyHere` (`FileIsBaseOrNew`), and no text of
  a later version is known there (`LaterIsUnseen`). So what it writes, or shows as the
  local side of a conflict, nobody else has (`WrittenIsNew`), and the text of a version is
  in none before it (`VersionsAreNew`). At the end of a sync all this has to be
  established for a machine that *was* cut short, too, which is why some parts do not
  ask for `~interrupted`: what was published after the manifest was read, nobody could
  know. `ConflictInv` is in no configuration; added to `UserDataSync.cfg`, TLC finds it
  true there.

Only model-checked: everything about liveness (`EventuallyDelivered`,
`EventuallyAcknowledged`, `WaitersAreReleased`, `QueuedSaveRuns`, `AlwaysClosed`,
`EveryCallSettles`, `ModifiedIsBackedUp`, `Converges`), which is out of the prover's
reach. Every invariant and every action property of a passing run is proved, up to the
hypotheses named above.

## 5. What is not modelled, and what a model leaves out

`PROJECT.json` has the list of components with reasons. In the modules:

* `PersistentProtocol`: bytes (a frame is whole), the sockets themselves,
  `BufferedEmitter`, `sendDisconnect` and the end of a connection, back-off times, the
  grace period, the start of an extension host process, and more than one connection.
* `AckTimeout`: replay requests and delivery that takes longer than a tick.
* `Storage`: SQL, the backup file and the fallbacks when a database cannot be opened,
  and the services around it.
* `TextFileEditorModel`: the first resolve, backups and the restoring of dirty models,
  soft revert, deleted (orphaned) and readonly files, encodings, dispose, saves with
  `ignoreErrorHandler`, two reverts at once (two waiters for one pending resolve may both go
  on, `textFileEditorModelManager.ts:464`), a foreign change that keeps the length of
  the file (which the comment in `validateWriteFile` accepts), and reads that see half
  of a write.

* `Channels`: serialization, loggers, tokens that are cancelled before the call, several
  channels, `IPCServer` with several connections and its routing, delayed and proxied
  channels.
* `WorkingCopyBackup`: the parts of a save, the browser's tracker (which cannot wait for a
  backup and vetoes), extension development windows (which ignore errors), the delays,
  meta data (so `has()` compares versions only, and a version is never written again with
  other meta data), backups in memory, and files written in part past their preamble.
  `confirmBeforeShutdown` compares how many working copies were modified before and after
  its saves; `ConfirmSave` asks whether each of its own was saved, and no other save ends
  in that phase, so a count that comes out right because of another copy is left out.
* `UserDataSync`: the other resources and their merges, profiles, manual sync and
  `preview()`, `replace()`, forced applies, `stop()` in the middle of a sync, errors of
  session and account, an empty `tasks.json`, and a change of the file between the check
  of its etag and the write. An operation on `tasks.json` that fails leaves the file as it
  was (`ApplyLocalFails`); one that fails half way is left out, and so are failures to save
  the ref or the base, except by a crash. The base is lost only when a crash comes between
  the two and the store has forgotten the version, not because its file was damaged.

Of what is left, the framing of `PersistentProtocol`, the start of an extension host
process, the server's tables of connections, the undo/redo service and the RPC protocol
could be modelled the same way. The editor core, the user interface, the extensions and
the build are sequential code, data structures or input and output, where a model would
repeat the code; they are most of the repository's lines.

## 6. Where code and words disagree

Each is a run that TLC ends with a violation.

* `storage_always_closed`: `Throttler.queue` forwards only the success of a queued task.
  When the last flush of `close()` is queued behind a running update and fails, its
  promise never settles and the database is not closed.
* `text_file_clean`: edit, save, and undo while the write is under way. The undo reaches
  the version saved before, so the model is clean; the write then ends with a version
  that is not the current one, which changes neither the dirty flag nor the saved
  version but takes over the new time of the file. The model shows the old text, is not
  dirty, the file holds the new one, and a reload finds the file "not modified".

* `sync_stuck`: `accept()` sets the status to syncing and `apply()` changes it only when it
  succeeds. If the file or the store has changed meanwhile, or a request fails, the
  status stays, and every later sync is skipped "as it is running already" until the
  window is reloaded or sync turned off. An error after a local change during conflicts
  likewise leaves the status at conflicts without a preview to resolve.

Seen while modelling, without a run of their own:

* Acknowledgements: messages less than two seconds apart keep putting the acknowledgement
  off, so the first waits until the next keep alive; the comment at `ipc.net.ts:286`
  promises two seconds. `AcknowledgedByKeepAlive` is what does hold.
* A message buffered by a paused writer counts as written, so the watchdog can fire for a
  message that never left, which the test at `ipc.net.test.ts:287` says should not happen.
* `Storage.flush()` and `whenFlushed()` return at once when nothing is pending, although an
  update is under way; `platform/storage/common/storage.ts:217` says otherwise.
* Channels: a pending request whose timer has fired stays pending, so the call runs after
  its caller was told that the channel is unknown. A cancellation or an `EventDispose`
  that arrives while the request is pending is lost: the call runs uncancelled, the
  subscription stays; listening again before the registration subscribes twice under one
  id, and every event is heard twice (`missed` in the model). A server that is disposed
  answers nothing any more; calls of a client that is not disposed then wait for ever.
* Backups: a shutdown cancels scheduled backups, and when it is vetoed nothing schedules
  them again before the next edit, although the tracker's comment says "we always schedule
  a backup". If the discard of a backup failed or was cancelled, its version stays in the
  model of the service. When the file is then closed and opened again, `onDidUnregister`
  has dropped the content version (`workingCopyBackupTracker.ts:125`), versions begin at 0,
  and an edit that reaches the old one is taken for backed up: `backup()` returns early,
  the shutdown skips the copy, and an exit without a veto loses the edit.
  `BackupIsCurrent`, `ExitKeepsEdits` and `ModifiedIsBackedUp` are false for such copies;
  they name them as `stale` and hold for all others. `discardBackups()` deletes
  the folder past the queues. A discard that was queued for a saved copy is cancelled by
  the shutdown, and the next session may restore it.
* Sync: `deleteLocalFile` has no precondition, so an edit made since the preview is deleted
  without a backup (`DeleteRace`). When the base can no longer be read although there was
  one (the process ended between storing the ref and the base, and the store no longer has
  that version), `doSync` accepts the remote text of another machine
  (`abstractSynchronizer.ts:362-377`): local edits made since then are replaced without a
  question or a conflict; only a backup is left. With an empty store the same happens
  after a crash in the first sync: ref 0 is remembered, no version of that name exists, and
  a `tasks.json` written meanwhile is deleted. After a lost answer or a crash, an edit can lead to a
  conflict with the machine's own data (`interrupted`), and a machine that crashed before
  it saved its base can bring a deleted file back. `TasksInitializer.isEmpty` returns
  whether the file exists, the opposite of its name.

* With `Lossy` sockets delivery is not guaranteed: the server has no listener for
  `onSocketTimeout`, so a lost last message of the server is noticed only when another
  one follows.
* With `DataBeforeClose = FALSE` the answer to a reconnection can arrive after the close
  event of its socket was ignored by the running loop; the loop then ends on a dead
  socket and only a timeout of the client's own messages starts another.
* A protocol that was disposed and is still used for `send()` runs into the timeout,
  since it no longer reads (`NoSpuriousTimeout` names the case).
* A revert that finds a save running has cleared the dirty flag and returns without
  reading. A revert whose read fails restores the flags as they were before, and so
  forgets that the text was edited during the read.
* `cancelRunning()` is described as cancelling save participants; a save that arrives
  during the participants returns before it gets there, so only the delay after an undo
  can be cancelled.

## 7. Plan

Done: all modules of section 2 with the runs of section 3 and the theorems of section 4.

Further modules worth writing: the server's table of connections with its grace timers and
the start of an extension host; framing over bytes cut anywhere; `BufferedEmitter`.
