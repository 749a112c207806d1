------------------------- MODULE WorkingCopyBackup -------------------------
(***************************************************************************)
(* Hot exit.  WorkingCopyBackupTracker listens to the working copies of a  *)
(* window and keeps a backup file of each one that is modified, through    *)
(* WorkingCopyBackupService, which does its file operations one at a time  *)
(* per file and remembers in a model which content version a file holds.   *)
(* When the window is asked to close, the native tracker suspends itself,  *)
(* backs up, saves or asks, and may veto.  The window may crash at any     *)
(* time; the next one restores the backups it finds.                       *)
(*                                                                         *)
(* A text is a number: every edit makes a new one.  Saving and reverting a *)
(* working copy are single steps here; TextFileEditorModel has their parts.*)
(* A file operation begins when it reaches the head of its queue and ends  *)
(* in the step that removes it.                                            *)
(***************************************************************************)
EXTENDS Integers, Sequences, FiniteSets

CONSTANTS
    WorkingCopies,
    Scratchpads,    \* the working copies that are backed up without asking
    EmptyWindow,    \* is no folder or workspace open
    MaxEdits,       \* bound: edits, of all working copies
    MaxFaults,      \* bound: file operations that fail, and crashes
    MaxCloses,      \* bound: times a working copy is closed
    MaxShutdowns    \* bound: times the window is asked to close

ASSUME KindsAssumption ==
    Scratchpads \subseteq WorkingCopies /\ EmptyWindow \in BOOLEAN
ASSUME BoundsAssumption ==
    /\ MaxEdits \in Nat /\ MaxFaults \in Nat
    /\ MaxCloses \in Nat /\ MaxShutdowns \in Nat

VARIABLES
    \* working copies, and the files they belong to
    registered,                     \* the ones that are open
    content, dirty, file,
    \* the tracker
    mapWorkingCopyToContentVersion,
    pendingBackupOperations,        \* how far the operation of each one is
    snapshot,                       \* what workingCopy.backup() will return
    suspended, isReady, unrestoredBackups,
    \* the service
    model,                          \* content version of each known backup
    ioOperationQueues,
    disk,                           \* the backup files
    \* onFinalBeforeShutdown
    phase,                          \* what it awaits
    modifiedWorkingCopies,          \* the ones it is handling
    hotExit,                        \* which ones shouldBackupBeforeShutdown() returns
    backups, backupError,
    \* bounds and history
    edits, faults, closes, shutdowns,
    closed,                         \* closed in this session
    stale,                          \* opened again while the model still knew the backup
                                    \* that closing it should have discarded
    editedLate,                     \* edited since the shutdown began
    disturbed                       \* the ones whose last operation failed, was cancelled
                                    \* by a shutdown or ignored while suspended

copyVars == <<registered, content, dirty, file>>
trackerVars == <<mapWorkingCopyToContentVersion, pendingBackupOperations, snapshot,
                 suspended, isReady, unrestoredBackups>>
serviceVars == <<model, ioOperationQueues, disk>>
shutdownVars == <<phase, modifiedWorkingCopies, hotExit, backups, backupError>>
historyVars == <<edits, faults, closes, shutdowns, closed, stale, editedLate,
                 disturbed>>
vars == <<registered, content, dirty, file, mapWorkingCopyToContentVersion,
          pendingBackupOperations, snapshot, suspended, isReady, unrestoredBackups,
          model, ioOperationQueues, disk, phase, modifiedWorkingCopies, hotExit,
          backups, backupError, edits, faults, closes, shutdowns, closed,
          stale, editedLate, disturbed>>

NoEntry == -1       \* the model does not know the backup
NoBackup == -1      \* there is no file
Corrupt == -2       \* the file lacks its preamble: it was truncated, not written

Texts == 0..MaxEdits
Versions == 0..(2 * MaxEdits)

\* who waits for a file operation: the tracker, the shutdown for a backup or for
\* a discard, or one who cancelled it after it began
Write(text, version, by) == [op |-> "write", text |-> text, version |-> version, by |-> by]
Delete(by) == [op |-> "delete", text |-> NoBackup, version |-> NoEntry, by |-> by]
IoOperation ==
    [op : {"write", "delete"}, text : Texts \cup {NoBackup},
     version : Versions \cup {NoEntry},
     by : {"tracker", "shutdown", "discards", "cancelled"}]

Modified == {w \in registered : dirty[w]}

Has(w, version) == model[w] = version

\* The operation of one who waits is cancelled.  There is at most one, the last
\* in the queue.  If it has begun it is carried out; one that is still queued
\* returns at its turn without doing anything.
Cancelled(queue, who) ==
    LET n == Len(queue)
    IN  IF n = 0 \/ queue[n].by /= who THEN queue
        ELSE IF n = 1 THEN <<[queue[1] EXCEPT !.by = "cancelled"]>>
        ELSE SubSeq(queue, 1, n - 1)

Init ==
    /\ registered = WorkingCopies
    /\ content = [w \in WorkingCopies |-> 0]
    /\ dirty = [w \in WorkingCopies |-> FALSE]
    /\ file = [w \in WorkingCopies |-> 0]
    /\ mapWorkingCopyToContentVersion = [w \in WorkingCopies |-> 0]
    /\ pendingBackupOperations = [w \in WorkingCopies |-> "none"]
    /\ snapshot = [w \in WorkingCopies |-> 0]
    /\ suspended = FALSE
    /\ isReady = FALSE
    /\ unrestoredBackups = {}
    /\ model = [w \in WorkingCopies |-> NoEntry]
    /\ ioOperationQueues = [w \in WorkingCopies |-> <<>>]
    /\ disk = [w \in WorkingCopies |-> NoBackup]
    /\ phase = "none"
    /\ modifiedWorkingCopies = {}
    /\ hotExit = "none"
    /\ backups = {}
    /\ backupError = FALSE
    /\ edits = 0 /\ faults = 0 /\ closes = 0 /\ shutdowns = 0
    /\ closed = {} /\ stale = {} /\ editedLate = {} /\ disturbed = {}

-----------------------------------------------------------------------------
\* The tracker

\* scheduleBackup: cancels the operation that is pending and starts a timer
ScheduleBackup(w) ==
    /\ pendingBackupOperations' = [pendingBackupOperations EXCEPT ![w] = "scheduled"]
    /\ snapshot' = [snapshot EXCEPT ![w] = 0]
    /\ ioOperationQueues' = [ioOperationQueues EXCEPT ![w] = Cancelled(@, "tracker")]
    /\ disturbed' = disturbed \ {w}

\* Mutant of DiscardBackup: nothing is deleted if the model knows no backup.
DiscardKnownBackup(w) ==
    /\ pendingBackupOperations' =
          [pendingBackupOperations EXCEPT ![w] = IF model[w] = NoEntry THEN "none" ELSE "queued"]
    /\ snapshot' = [snapshot EXCEPT ![w] = 0]
    /\ ioOperationQueues' = [ioOperationQueues EXCEPT
          ![w] = Cancelled(@, "tracker") \o IF model[w] = NoEntry THEN <<>> ELSE <<Delete("tracker")>>]
    /\ disturbed' = disturbed \ {w}

\* discardBackup: cancels the operation that is pending and queues a delete
DiscardBackup(w) ==
    /\ pendingBackupOperations' = [pendingBackupOperations EXCEPT ![w] = "queued"]
    /\ snapshot' = [snapshot EXCEPT ![w] = 0]
    /\ ioOperationQueues' =
          [ioOperationQueues EXCEPT ![w] = Append(Cancelled(@, "tracker"), Delete("tracker"))]
    /\ disturbed' = disturbed \ {w}

\* an event while the tracker is suspended
Ignored(w) ==
    /\ UNCHANGED <<pendingBackupOperations, snapshot, ioOperationQueues>>
    /\ disturbed' = disturbed \cup {w}

\* cancelBackupOperations
CancelBackupOperations ==
    /\ pendingBackupOperations' = [w \in WorkingCopies |-> "none"]
    /\ snapshot' = [w \in WorkingCopies |-> 0]

\* An edit: the working copy turns dirty, onDidChangeContent counts a version
\* and schedules a backup, unless the tracker is suspended.
Edit(w) ==
    /\ w \in registered /\ edits < MaxEdits /\ phase /= "closing"
    /\ edits' = edits + 1
    /\ content' = [content EXCEPT ![w] = edits + 1]
    /\ dirty' = [dirty EXCEPT ![w] = TRUE]
    /\ mapWorkingCopyToContentVersion' = [mapWorkingCopyToContentVersion EXCEPT ![w] = @ + 1]
    /\ IF suspended THEN Ignored(w) ELSE ScheduleBackup(w)
    /\ editedLate' = IF phase = "none" THEN editedLate ELSE editedLate \cup {w}
    /\ UNCHANGED <<registered, file, suspended, isReady, unrestoredBackups, model, disk,
                   shutdownVars, faults, closes, shutdowns, closed, stale>>

\* The working copy is not dirty any more: onDidChangeDirty
OnDidChangeDirty(w) == IF suspended THEN Ignored(w) ELSE DiscardBackup(w)

Save(w) ==
    /\ w \in Modified /\ phase \in {"none", "ok"}
    /\ file' = [file EXCEPT ![w] = content[w]]
    /\ dirty' = [dirty EXCEPT ![w] = FALSE]
    /\ OnDidChangeDirty(w)
    /\ UNCHANGED <<registered, content, mapWorkingCopyToContentVersion, suspended, isReady,
                   unrestoredBackups, model, disk, shutdownVars, edits, faults, closes, shutdowns,
                   closed, stale, editedLate>>

\* Reverting, or undoing back to what was saved, changes the content
Revert(w) ==
    /\ w \in Modified /\ phase \in {"none", "ok"}
    /\ content' = [content EXCEPT ![w] = file[w]]
    /\ dirty' = [dirty EXCEPT ![w] = FALSE]
    /\ mapWorkingCopyToContentVersion' = [mapWorkingCopyToContentVersion EXCEPT ![w] = @ + 1]
    /\ OnDidChangeDirty(w)
    /\ UNCHANGED <<registered, file, suspended, isReady, unrestoredBackups, model, disk,
                   shutdownVars, edits, faults, closes, shutdowns, closed, stale,
                   editedLate>>

\* onDidUnregister: the content version is forgotten, the backup discarded
Close(w) ==
    /\ w \in registered /\ ~dirty[w] /\ phase = "none" /\ closes < MaxCloses
    /\ closes' = closes + 1
    /\ registered' = registered \ {w}
    /\ mapWorkingCopyToContentVersion' = [mapWorkingCopyToContentVersion EXCEPT ![w] = 0]
    /\ DiscardBackup(w)
    /\ closed' = closed \cup {w}
    /\ stale' = stale \ {w}
    /\ UNCHANGED <<content, dirty, file, suspended, isReady, unrestoredBackups, model, disk,
                   shutdownVars, edits, faults, shutdowns, editedLate>>

\* The timer of scheduleBackup: workingCopy.backup() takes a snapshot
BackupTimer(w) ==
    /\ pendingBackupOperations[w] = "scheduled"
    /\ pendingBackupOperations' = [pendingBackupOperations EXCEPT ![w] = "snapshot"]
    /\ snapshot' = [snapshot EXCEPT ![w] = content[w]]
    /\ UNCHANGED <<copyVars, mapWorkingCopyToContentVersion, suspended, isReady,
                   unrestoredBackups, serviceVars, shutdownVars, historyVars>>

\* Mutant of ReturnsEarly: a file operation that is under way is enough.
ReturnsIfBusy(w, version) == Has(w, version) \/ ioOperationQueues[w] /= <<>>

\* WorkingCopyBackupServiceImpl.backup, before it queues
ReturnsEarly(w, version) == Has(w, version)

\* The snapshot is there: WorkingCopyBackupService.backup() with the content
\* version of now
StoreBackup(w) ==
    /\ pendingBackupOperations[w] = "snapshot"
    /\ LET version == mapWorkingCopyToContentVersion[w]
       IN  IF ReturnsEarly(w, version)
           THEN /\ pendingBackupOperations' = [pendingBackupOperations EXCEPT ![w] = "none"]
                /\ UNCHANGED ioOperationQueues
           ELSE /\ pendingBackupOperations' = [pendingBackupOperations EXCEPT ![w] = "queued"]
                /\ ioOperationQueues' = [ioOperationQueues EXCEPT
                      ![w] = Append(@, Write(snapshot[w], version, "tracker"))]
    /\ snapshot' = [snapshot EXCEPT ![w] = 0]
    /\ UNCHANGED <<copyVars, mapWorkingCopyToContentVersion, suspended, isReady,
                   unrestoredBackups, model, disk, shutdownVars, historyVars>>

-----------------------------------------------------------------------------
\* WorkingCopyBackupServiceImpl, its queues of file operations

\* A write whose version is already there returns at once
IsDone(w, t) == t.op = "write" /\ Has(w, t.version)

\* Mutant of BackupVersion: the content version of now.
CurrentVersion(w, t) ==
    IF t.op = "delete" THEN NoEntry ELSE mapWorkingCopyToContentVersion[w]

\* What the model remembers when an operation has succeeded
BackupVersion(w, t) == t.version

\* doClearPendingBackupOperation, when the operation was not cancelled
ClearPending(w, t) ==
    pendingBackupOperations' =
        IF t.by = "tracker" THEN [pendingBackupOperations EXCEPT ![w] = "none"]
        ELSE pendingBackupOperations

\* The operation the tracker waits for replaces a stale version.  One that was
\* cancelled does, too, but a backup or a shutdown since then may have relied on it.
IoOperationEnds(w) ==
    /\ ioOperationQueues[w] /= <<>>
    /\ LET t == Head(ioOperationQueues[w])
       IN  /\ IF IsDone(w, t)
              THEN UNCHANGED <<disk, model>>
              ELSE /\ disk' = [disk EXCEPT ![w] = t.text]
                   /\ model' = [model EXCEPT ![w] = BackupVersion(w, t)]
           /\ ClearPending(w, t)
           /\ backups' = IF t.by = "shutdown" THEN backups \cup {w} ELSE backups
           /\ stale' = IF t.by = "tracker" /\ ~IsDone(w, t) /\ phase = "none"
                       THEN stale \ {w} ELSE stale
    /\ ioOperationQueues' = [ioOperationQueues EXCEPT ![w] = Tail(@)]
    /\ UNCHANGED <<copyVars, mapWorkingCopyToContentVersion, snapshot, suspended, isReady,
                   unrestoredBackups, phase, modifiedWorkingCopies, hotExit, backupError,
                   edits, faults, closes, shutdowns, closed, editedLate, disturbed>>

\* It fails; a write may have truncated the file.  The error is logged.
IoOperationFails(w) ==
    /\ ioOperationQueues[w] /= <<>> /\ faults < MaxFaults
    /\ LET t == Head(ioOperationQueues[w])
       IN  /\ ~IsDone(w, t)
           /\ \E left \in {disk[w], Corrupt} :
                 /\ t.op = "delete" => left = disk[w]
                 /\ disk' = [disk EXCEPT ![w] = left]
           /\ ClearPending(w, t)
           /\ backupError' = (backupError \/ t.by = "shutdown")
    /\ ioOperationQueues' = [ioOperationQueues EXCEPT ![w] = Tail(@)]
    /\ faults' = faults + 1
    /\ disturbed' = disturbed \cup {w}
    /\ UNCHANGED <<copyVars, mapWorkingCopyToContentVersion, snapshot, suspended, isReady,
                   unrestoredBackups, model, phase, modifiedWorkingCopies, hotExit, backups,
                   edits, closes, shutdowns, closed, stale, editedLate>>

\* resolveBackupsToRestore: getBackups() waits for the queues and leaves out
\* files without a preamble
ResolveBackupsToRestore ==
    /\ ~isReady /\ phase /= "closing"
    /\ \A w \in WorkingCopies : ioOperationQueues[w] = <<>>
    /\ isReady' = TRUE
    /\ unrestoredBackups' = {w \in WorkingCopies : model[w] /= NoEntry /\ disk[w] /= Corrupt}
    /\ UNCHANGED <<copyVars, mapWorkingCopyToContentVersion, pendingBackupOperations, snapshot,
                   suspended, serviceVars, shutdownVars, historyVars>>

\* Mutant of IsValidBackup: the preamble is not looked for.
IsKnownBackup(w) == model[w] /= NoEntry

\* WorkingCopyBackupServiceImpl.resolve
IsValidBackup(w) == model[w] /= NoEntry /\ disk[w] \in Texts

\* A working copy is resolved and registered.  It reads its backup, after the
\* operations queued for that file, and is dirty if there is one.  Its content
\* versions begin with 0, whatever version the model remembers.
Resolve(w) ==
    /\ w \notin registered
    /\ ioOperationQueues[w] = <<>>
    /\ registered' = registered \cup {w}
    /\ LET restored == IsValidBackup(w)
       IN  /\ content' = [content EXCEPT ![w] = IF restored THEN disk[w] ELSE file[w]]
           /\ dirty' = [dirty EXCEPT ![w] = restored]
           /\ IF restored THEN ScheduleBackup(w)
              ELSE UNCHANGED <<pendingBackupOperations, snapshot, ioOperationQueues, disturbed>>
    /\ stale' = IF model[w] > 0 THEN stale \cup {w} ELSE stale
    /\ UNCHANGED <<file, closed>>

\* The user opens it
Open(w) ==
    /\ phase = "none"
    /\ Resolve(w)
    /\ UNCHANGED <<mapWorkingCopyToContentVersion, suspended, isReady, unrestoredBackups, model,
                   disk, shutdownVars, edits, faults, closes, shutdowns, editedLate>>

\* restoreBackups, once there is a handler: a backup that has no editor yet is
\* opened, and it counts as restored
RestoreBackup(w) ==
    /\ phase = "none" /\ isReady /\ w \in unrestoredBackups
    /\ \/ Resolve(w)
       \/ /\ w \in registered
          /\ UNCHANGED <<copyVars, pendingBackupOperations, snapshot, ioOperationQueues, closed,
                         stale, disturbed>>
    /\ unrestoredBackups' = unrestoredBackups \ {w}
    /\ UNCHANGED <<mapWorkingCopyToContentVersion, suspended, isReady, model, disk,
                   shutdownVars, edits, faults, closes, shutdowns, editedLate>>

-----------------------------------------------------------------------------
\* NativeWorkingCopyBackupTracker.onFinalBeforeShutdown.  The variables of the
\* queues and of suspended are set by the action that ends a phase.

\* finally: resume()
Return(veto) ==
    /\ phase' = IF veto THEN "none" ELSE "ok"
    /\ suspended' = FALSE
    /\ modifiedWorkingCopies' = {} /\ backups' = {} /\ backupError' = FALSE /\ hotExit' = "none"

\* Mutant of MayDiscard: backups are discarded before they were found.
MayAlwaysDiscard == TRUE

\* discardBackupsBeforeShutdown
MayDiscard == isReady

\* noVeto(), discardBackupsBeforeShutdown() of some working copies
NoVeto(ws, queues) ==
    IF MayDiscard
    THEN /\ phase' = "discards"
         /\ ioOperationQueues' = [w \in WorkingCopies |->
               IF w \in ws THEN Append(queues[w], Delete("discards")) ELSE queues[w]]
         /\ suspended' = TRUE
         /\ UNCHANGED <<modifiedWorkingCopies, hotExit, backups, backupError>>
    ELSE /\ ioOperationQueues' = queues
         /\ Return(FALSE)

\* shouldBackupBeforeShutdown, by the settings and the reason
ShouldBackup(hot, ws) ==
    CASE hot = "all" -> ws [] hot = "scratchpads" -> ws \cap Scratchpads [] OTHER -> {}

\* handleModifiedBeforeShutdown, backupBeforeShutdown: contentVersion and the
\* snapshot are taken for all of them at once, nothing else is queued while the
\* tracker is suspended
HandleModified(ws, hot, queues) ==
    LET toBackup == ShouldBackup(hot, ws)
        there == {w \in toBackup : Has(w, mapWorkingCopyToContentVersion[w])}
    IN  /\ modifiedWorkingCopies' = ws
        /\ hotExit' = hot
        /\ phase' = IF toBackup = {} THEN "confirm" ELSE "backups"
        /\ backups' = there
        /\ backupError' = FALSE
        /\ suspended' = TRUE
        /\ ioOperationQueues' = [w \in WorkingCopies |->
              IF w \in toBackup \ there
              THEN Append(queues[w],
                          Write(content'[w], mapWorkingCopyToContentVersion[w], "shutdown"))
              ELSE queues[w]]

\* What discardBackups({ except }) does without modified working copies: it
\* deletes the folder of all backups, past the queues, if none is to be kept
DiscardBackups(queues) ==
    LET known == {w \in WorkingCopies : model[w] /= NoEntry}
        except == IF EmptyWindow THEN {} ELSE unrestoredBackups
    IN  IF MayDiscard /\ except = {}
        THEN /\ phase' = "wipe"
             /\ suspended' = TRUE
             /\ ioOperationQueues' = queues
             /\ UNCHANGED <<modifiedWorkingCopies, hotExit, backups, backupError>>
        ELSE NoVeto(known \ except, queues)

\* cancelBackupOperations(), suspendBackupOperations(), and then by the
\* working copies that are modified: hot says what hot exit does for the reason,
\* auto whether auto save is on
OnFinalBeforeShutdown(hot, auto) ==
    /\ phase = "none" /\ shutdowns < MaxShutdowns
    /\ shutdowns' = shutdowns + 1
    /\ CancelBackupOperations
    /\ LET queues == [w \in WorkingCopies |-> Cancelled(ioOperationQueues[w], "tracker")]
       IN  \/ /\ Modified = {}
              /\ DiscardBackups(queues)
              /\ UNCHANGED copyVars
           \/ /\ Modified /= {} /\ ~auto
              /\ UNCHANGED copyVars
              /\ HandleModified(Modified, hot, queues)
           \/ /\ Modified /= {} /\ auto
              /\ phase' = "saving" /\ suspended' = TRUE
              /\ modifiedWorkingCopies' = Modified /\ hotExit' = hot
              /\ ioOperationQueues' = queues
              /\ UNCHANGED <<copyVars, backups, backupError>>
    /\ disturbed' = disturbed \cup
          {w \in WorkingCopies : pendingBackupOperations[w] /= "none"}
    /\ editedLate' = {}
    /\ UNCHANGED <<mapWorkingCopyToContentVersion, isReady, unrestoredBackups, model, disk,
                   edits, faults, closes, closed, stale>>

\* doSaveAllBeforeShutdown with auto save: some of them are saved, the rest is
\* handled as without auto save.  The tracker ignores the events.
SaveAll(ws) ==
    /\ file' = [w \in WorkingCopies |-> IF w \in ws THEN content[w] ELSE file[w]]
    /\ dirty' = [w \in WorkingCopies |-> dirty[w] /\ w \notin ws]
    /\ disturbed' = disturbed \cup ws
    /\ UNCHANGED <<registered, content>>

AutoSaved(ws) ==
    /\ phase = "saving" /\ ws \subseteq modifiedWorkingCopies
    /\ SaveAll(ws)
    /\ IF Modified \subseteq ws
       THEN NoVeto(modifiedWorkingCopies, ioOperationQueues)
       ELSE HandleModified(Modified \ ws, hotExit, ioOperationQueues)
    /\ UNCHANGED <<mapWorkingCopyToContentVersion, pendingBackupOperations, snapshot, isReady,
                   unrestoredBackups, model, disk, edits, faults, closes, shutdowns, closed,
                   stale, editedLate>>

ShutdownOperationsDone ==
    \A w \in WorkingCopies : \A i \in 1..Len(ioOperationQueues[w]) :
        ioOperationQueues[w][i].by /= "shutdown"

\* the user is asked about the ones without a backup
ConfirmBeforeShutdown ==
    /\ phase' = "confirm"
    /\ modifiedWorkingCopies' = modifiedWorkingCopies \ backups
    /\ backupError' = FALSE
    /\ UNCHANGED <<suspended, hotExit, backups>>

\* Mutant of IsVeto: an error is only shown.
IsNoVeto == FALSE

\* handleModifiedBeforeShutdown: veto if not all of them were backed up
IsVeto == backups /= modifiedWorkingCopies

\* backupBeforeShutdown is done: no veto if there is a backup of each one, a
\* veto if one failed
BackupsDone ==
    /\ phase = "backups" /\ ShutdownOperationsDone
    /\ IF backups = modifiedWorkingCopies \/ backupError
       THEN Return(IsVeto)
       ELSE ConfirmBeforeShutdown
    /\ UNCHANGED <<copyVars, mapWorkingCopyToContentVersion, pendingBackupOperations, snapshot,
                   isReady, unrestoredBackups, serviceVars, historyVars>>

\* The user stops waiting for the backups
CancelBackupBeforeShutdown ==
    /\ phase = "backups" /\ ~ShutdownOperationsDone
    /\ ioOperationQueues' = [w \in WorkingCopies |-> Cancelled(ioOperationQueues[w], "shutdown")]
    /\ ConfirmBeforeShutdown
    /\ UNCHANGED <<copyVars, mapWorkingCopyToContentVersion, pendingBackupOperations, snapshot,
                   isReady, unrestoredBackups, model, disk, historyVars>>

\* confirmBeforeShutdown: Save.  A save that fails or is cancelled is a veto.
ConfirmSave(ws) ==
    /\ phase = "confirm" /\ ws \subseteq modifiedWorkingCopies
    /\ SaveAll(ws)
    /\ IF ws = modifiedWorkingCopies
       THEN NoVeto(ws, ioOperationQueues)
       ELSE Return(TRUE) /\ UNCHANGED ioOperationQueues
    /\ UNCHANGED <<mapWorkingCopyToContentVersion, pendingBackupOperations, snapshot, isReady,
                   unrestoredBackups, model, disk, edits, faults, closes, shutdowns, closed,
                   stale, editedLate>>

\* Don't Save: a soft revert keeps the text and clears the dirty flag
ConfirmDontSave ==
    /\ phase = "confirm"
    /\ dirty' = [w \in WorkingCopies |-> dirty[w] /\ w \notin modifiedWorkingCopies]
    /\ disturbed' = disturbed \cup modifiedWorkingCopies
    /\ NoVeto(modifiedWorkingCopies, ioOperationQueues)
    /\ UNCHANGED <<registered, content, file, mapWorkingCopyToContentVersion,
                   pendingBackupOperations, snapshot, isReady, unrestoredBackups, model, disk,
                   edits, faults, closes, shutdowns, closed, stale, editedLate>>

ConfirmCancel ==
    /\ phase = "confirm"
    /\ Return(TRUE)
    /\ UNCHANGED <<copyVars, mapWorkingCopyToContentVersion, pendingBackupOperations, snapshot,
                   isReady, unrestoredBackups, serviceVars, historyVars>>

\* The discards are done, or the user stops waiting for them: no veto
DiscardsDone ==
    /\ phase = "discards"
    /\ Return(FALSE)
    /\ UNCHANGED <<copyVars, mapWorkingCopyToContentVersion, pendingBackupOperations, snapshot,
                   isReady, unrestoredBackups, serviceVars, historyVars>>

\* The folder of all backups is deleted, or that fails and is logged
WipeEnds(succeeds) ==
    /\ phase = "wipe"
    /\ IF succeeds
       THEN /\ disk' = [w \in WorkingCopies |-> NoBackup]
            /\ model' = [w \in WorkingCopies |-> NoEntry]
            /\ UNCHANGED faults
       ELSE /\ faults < MaxFaults
            /\ faults' = faults + 1
            /\ UNCHANGED <<disk, model>>
    /\ Return(FALSE)
    /\ UNCHANGED <<copyVars, mapWorkingCopyToContentVersion, pendingBackupOperations, snapshot,
                   isReady, unrestoredBackups, ioOperationQueues, edits, closes, shutdowns,
                   closed, stale, editedLate, disturbed>>

\* Another window vetoes: this one stays
ShutdownVetoed ==
    /\ phase = "ok"
    /\ phase' = "none"
    /\ UNCHANGED <<copyVars, trackerVars, serviceVars, modifiedWorkingCopies, hotExit, backups,
                   backupError, historyVars>>

\* onWillShutdown
OnWillShutdown ==
    /\ phase = "ok"
    /\ phase' = "closing"
    /\ suspended' = TRUE
    /\ CancelBackupOperations
    /\ ioOperationQueues' = [w \in WorkingCopies |-> Cancelled(ioOperationQueues[w], "tracker")]
    /\ disturbed' = disturbed \cup
          {w \in WorkingCopies : pendingBackupOperations[w] /= "none"}
    /\ UNCHANGED <<copyVars, mapWorkingCopyToContentVersion, isReady, unrestoredBackups, model,
                   disk, modifiedWorkingCopies, hotExit, backups, backupError, edits, faults,
                   closes, shutdowns, closed, stale, editedLate>>

\* What a file can be when the process ends in the middle of an operation
Torn(w) ==
    IF ioOperationQueues[w] = <<>> THEN {disk[w]}
    ELSE LET t == Head(ioOperationQueues[w])
         IN  IF IsDone(w, t) THEN {disk[w]}
             ELSE IF t.op = "write" THEN {disk[w], Corrupt, t.text} ELSE {disk[w], NoBackup}

\* The process ends and the window is opened again: WorkingCopyBackupsModel
\* finds the files and gives each version 0
NewSession ==
    /\ disk' \in {d \in [WorkingCopies -> Texts \cup {NoBackup, Corrupt}] :
                     \A w \in WorkingCopies : d[w] \in Torn(w)}
    /\ model' = [w \in WorkingCopies |-> IF disk'[w] = NoBackup THEN NoEntry ELSE 0]
    /\ registered' = {}
    /\ content' = file
    /\ dirty' = [w \in WorkingCopies |-> FALSE]
    /\ mapWorkingCopyToContentVersion' = [w \in WorkingCopies |-> 0]
    /\ CancelBackupOperations
    /\ suspended' = FALSE /\ isReady' = FALSE /\ unrestoredBackups' = {}
    /\ ioOperationQueues' = [w \in WorkingCopies |-> <<>>]
    /\ phase' = "none" /\ modifiedWorkingCopies' = {} /\ hotExit' = "none"
    /\ backups' = {} /\ backupError' = FALSE
    /\ closed' = {} /\ stale' = {} /\ editedLate' = {} /\ disturbed' = {}
    /\ UNCHANGED <<file, edits, closes, shutdowns>>

Exit ==
    /\ phase = "closing"
    /\ NewSession
    /\ UNCHANGED faults

Crash ==
    /\ faults < MaxFaults
    /\ faults' = faults + 1
    /\ NewSession

-----------------------------------------------------------------------------
Next ==
    \/ \E w \in WorkingCopies :
          \/ Edit(w) \/ Save(w) \/ Revert(w) \/ Close(w)
          \/ Open(w) \/ RestoreBackup(w)
          \/ BackupTimer(w) \/ StoreBackup(w)
          \/ IoOperationEnds(w) \/ IoOperationFails(w)
    \/ ResolveBackupsToRestore
    \/ \E hot \in {"none", "scratchpads", "all"}, auto \in BOOLEAN :
          OnFinalBeforeShutdown(hot, auto)
    \/ \E ws \in SUBSET WorkingCopies : AutoSaved(ws) \/ ConfirmSave(ws)
    \/ BackupsDone \/ CancelBackupBeforeShutdown
    \/ ConfirmDontSave \/ ConfirmCancel \/ DiscardsDone
    \/ \E succeeds \in BOOLEAN : WipeEnds(succeeds)
    \/ ShutdownVetoed \/ OnWillShutdown \/ Exit \/ Crash

Spec == Init /\ [][Next]_vars

\* timers fire, a snapshot is taken, file operations end one way or the other
Fairness ==
    \A w \in WorkingCopies :
        /\ WF_vars(BackupTimer(w))
        /\ WF_vars(StoreBackup(w))
        /\ WF_vars(IoOperationEnds(w) \/ IoOperationFails(w))

FairSpec == Spec /\ Fairness

-----------------------------------------------------------------------------
TypeOK ==
    /\ registered \subseteq WorkingCopies
    /\ content \in [WorkingCopies -> Texts]
    /\ dirty \in [WorkingCopies -> BOOLEAN]
    /\ file \in [WorkingCopies -> Texts]
    /\ mapWorkingCopyToContentVersion \in [WorkingCopies -> Versions]
    /\ pendingBackupOperations \in
          [WorkingCopies -> {"none", "scheduled", "snapshot", "queued"}]
    /\ snapshot \in [WorkingCopies -> Texts]
    /\ suspended \in BOOLEAN /\ isReady \in BOOLEAN
    /\ unrestoredBackups \subseteq WorkingCopies
    /\ model \in [WorkingCopies -> Versions \cup {NoEntry}]
    /\ ioOperationQueues \in [WorkingCopies -> Seq(IoOperation)]
    /\ disk \in [WorkingCopies -> Texts \cup {NoBackup, Corrupt}]
    /\ phase \in {"none", "saving", "backups", "confirm", "discards", "wipe", "ok", "closing"}
    /\ modifiedWorkingCopies \subseteq WorkingCopies
    /\ hotExit \in {"none", "scratchpads", "all"}
    /\ backups \subseteq WorkingCopies
    /\ backupError \in BOOLEAN
    /\ edits \in 0..MaxEdits /\ faults \in 0..MaxFaults /\ closes \in 0..MaxCloses
    /\ shutdowns \in 0..MaxShutdowns
    /\ closed \subseteq WorkingCopies /\ stale \subseteq WorkingCopies
    /\ editedLate \subseteq WorkingCopies
    /\ disturbed \subseteq WorkingCopies

\* A file operation that the tracker or the shutdown waits for, and may cancel,
\* is the last of its queue; the tracker's is the one it has pending.
QueueOK(queue, pending, ph) ==
    /\ \A i \in 1..Len(queue) :
          /\ queue[i].by \in {"tracker", "shutdown"} => i = Len(queue)
          /\ queue[i].by = "tracker" <=> (i = Len(queue) /\ pending = "queued")
          /\ queue[i].by = "shutdown" => queue[i].op = "write" /\ ph = "backups"
          /\ queue[i].op = "write" => queue[i].text \in Texts /\ queue[i].version \in Versions
          /\ queue[i].op = "delete" => queue[i].text = NoBackup /\ queue[i].version = NoEntry
    /\ pending = "queued" => queue /= <<>>

OnlyDeletes(queue) == \A i \in 1..Len(queue) : queue[i].op = "delete"

\* What the tracker is about to do is for a modified working copy
PendingOK(w) ==
    /\ pendingBackupOperations[w] \in {"scheduled", "snapshot"} => w \in Modified
    /\ pendingBackupOperations[w] = "snapshot" => snapshot[w] = content[w]
    /\ suspended => pendingBackupOperations[w] = "none"

\* A file that the model does not know has no text; nothing is written before the
\* first edit; versions count edits and reverts.
DiskOK(w) ==
    /\ model[w] = NoEntry => disk[w] \notin Texts
    /\ edits = 0 => disk[w] \notin Texts /\ ~dirty[w] /\ OnlyDeletes(ioOperationQueues[w])
    /\ mapWorkingCopyToContentVersion[w] + (IF dirty[w] THEN 1 ELSE 0) <= 2 * edits
    /\ w \notin registered => ~dirty[w] /\ mapWorkingCopyToContentVersion[w] = 0

\* A working copy that was not opened in this session: its backup is untouched,
\* and known as soon as all backups were found.
UnopenedOK(w) ==
    w \notin registered \cup closed =>
        /\ model[w] \in {NoEntry, 0} /\ pendingBackupOperations[w] = "none"
        /\ OnlyDeletes(ioOperationQueues[w])
        /\ (disk[w] \in Texts /\ ~EmptyWindow) =>
              /\ ioOperationQueues[w] = <<>> /\ phase /= "wipe"
              /\ isReady => w \in unrestoredBackups

\* The versions in the model and in the queue are not from the future
NotFuture(queue, entry, version) ==
    entry <= version /\ \A i \in 1..Len(queue) : queue[i].version <= version

\* The current version is the current text, and nothing queued behind it undoes it
CurrentIs(queue, entry, version, backup, text) ==
    /\ entry = version =>
          backup = text /\ \A i \in 1..Len(queue) : queue[i].version = version
    /\ \A i \in 1..Len(queue) : queue[i].version = version =>
          queue[i].text = text /\ \A j \in i..Len(queue) : queue[j].version = version

\* The version in the model, if it is one of the text that is open now
OwnVersion(w) == IF w \in stale THEN NoEntry ELSE model[w]

VersionsOK(w) ==
    /\ w \in registered =>
          NotFuture(ioOperationQueues[w], OwnVersion(w), mapWorkingCopyToContentVersion[w])
    /\ w \in Modified =>
          CurrentIs(ioOperationQueues[w], OwnVersion(w), mapWorkingCopyToContentVersion[w],
                    disk[w], content[w])

\* There is no backup when all queued operations are done
WillBeGone(queue, backup) ==
    \/ queue /= <<>> /\ queue[Len(queue)].op = "delete"
    \/ backup \notin Texts /\ OnlyDeletes(queue)

\* A working copy that is not modified loses its backup
CleanOK(w) ==
    w \in registered \ (Modified \cup disturbed) => WillBeGone(ioOperationQueues[w], disk[w])

\* the operations that the shutdown waits for will write this version
ShutdownWrites(queue, version) ==
    \A i \in 1..Len(queue) : queue[i].by = "shutdown" => queue[i].version = version

\* How far the shutdown has come with a modified working copy that was not
\* edited since it began and has no stale version
ShutdownOK(w) ==
    LET there == Has(w, mapWorkingCopyToContentVersion[w])
    IN  w \in Modified \ (editedLate \cup stale) =>
          /\ phase \in {"saving", "backups"} => w \in modifiedWorkingCopies
          /\ phase = "backups" =>
                /\ w \in backups => there
                /\ ShutdownWrites(ioOperationQueues[w], mapWorkingCopyToContentVersion[w])
          /\ phase = "confirm" => w \in modifiedWorkingCopies \/ there
          /\ phase \in {"discards", "ok", "closing"} => there
          /\ phase /= "wipe"

CopyOK(w) ==
    /\ QueueOK(ioOperationQueues[w], pendingBackupOperations[w], phase)
    /\ PendingOK(w) /\ DiskOK(w) /\ UnopenedOK(w) /\ CleanOK(w)
    /\ VersionsOK(w) /\ ShutdownOK(w)

\* The inductive invariant
IInv ==
    /\ TypeOK
    /\ suspended <=> phase \notin {"none", "ok"}
    /\ modifiedWorkingCopies \subseteq registered \cup closed
    /\ \A w \in WorkingCopies : CopyOK(w)

\* Once hasBackupSync() says that there is a backup of the current content
\* version of a modified working copy, the file holds that content, and no
\* operation that is queued will overwrite or delete it.  The shutdown relies
\* on this when it skips the working copy.  It is not true of a working copy that
\* was closed and opened again when the delete of its backup had failed or had
\* been cancelled: its content versions begin anew and can meet the version of
\* the old backup, until a file operation replaces that.
BackupIsCurrent ==
    \A w \in Modified \ stale : Has(w, mapWorkingCopyToContentVersion[w]) =>
        /\ disk[w] = content[w]
        /\ \A i \in 1..Len(ioOperationQueues[w]) : IsDone(w, ioOperationQueues[w][i])

\* A backup does not outlive its reason: when nothing is pending for a working
\* copy that was saved or reverted there is no file the next session would
\* restore.
CleanHasNoBackup ==
    \A w \in registered \ (Modified \cup disturbed) :
        /\ pendingBackupOperations[w] = "none"
        /\ ioOperationQueues[w] = <<>>
        => disk[w] \notin Texts

\* When the window closes without a veto, no unsaved text is lost: what was not
\* saved and not given up by the user is in a backup.  Two kinds of edits are
\* not covered: the ones made after the shutdown began, and those of a working
\* copy with the version of an old backup (see BackupIsCurrent), which the
\* shutdown may skip.
ExitKeepsEdits ==
    [][Exit => \A w \in Modified \ (editedLate \cup stale) : disk'[w] = content[w]]_vars

\* A backup that was not restored in this session is still there when the
\* session ends, however it ends: nothing is discarded before all backups were
\* found, and what was found and not restored is left alone.  A window without a
\* folder or workspace is excepted: there the tracker keeps none of them.
UnrestoredBackupsKept ==
    [][\A w \in WorkingCopies :
          (w \notin registered \cup closed /\ disk[w] \in Texts /\ ~EmptyWindow)
          => disk'[w] = disk[w]]_vars

\* A modified working copy is backed up in the end, with the text it then has,
\* unless it is saved or reverted, its file operation fails, a shutdown got in
\* the way, or it has the version of an old backup (see BackupIsCurrent).
ModifiedIsBackedUp ==
    \A w \in WorkingCopies :
        w \in Modified ~> \/ disk[w] = content[w]
                          \/ w \notin Modified
                          \/ w \in disturbed \cup stale

=============================================================================
