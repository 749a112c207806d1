------------------------ MODULE TextFileEditorModel ------------------------
(***************************************************************************)
(* One text file open in an editor: TextFileEditorModel with its           *)
(* saveSequentializer, the reloads TextFileEditorModelManager asks for     *)
(* when the file changes on disk, and the FileService calls they wait for. *)
(*                                                                         *)
(* Everything runs in one thread, and every await lets other handlers run: *)
(* the user edits, undoes, saves and reverts while a save or a read is in  *)
(* progress, and other programs write the file at any time.                *)
(*                                                                         *)
(* A text is a number.  An edit makes a new one, named by the version it   *)
(* creates; the texts other programs write (and what is left of the file   *)
(* when a write fails half way) are negative.  No two texts have the same  *)
(* length, so that a changed mtime always comes with a changed size.       *)
(***************************************************************************)
EXTENDS Integers, Sequences, FiniteSets

CONSTANTS
    MaxVersion,    \* bound: no edit, undo or redo once versionId is there
    MaxWrites,     \* bound: no save is asked for after this many writes of ours
    MaxMishaps     \* bound: writes by other programs and failed file operations

ASSUME BoundsAssumption ==
    {MaxVersion, MaxWrites, MaxMishaps} \subseteq Nat

VARIABLES
    \* the text model: the states undo and redo can reach, and the current one
    undoStack, position,
    \* TextFileEditorModel
    versionId, bufferSavedVersionId, dirty, inConflictMode, inErrorMode,
    lastResolvedMtime,   \* of lastResolvedFileStat; its etag says the same
    \* its TaskSequentializer: the id of the running task, the queued options
    running, queued,
    saves,               \* the calls of doSave in progress
    revert,              \* the revert() in progress and what its undo() restores
    \* TextFileEditorModelManager
    reloads,             \* tasks in modelResolveQueue, the running one included
    resolving,           \* the pending resolve, if any
    \* the file
    disk, fileEvent,     \* is a change event on its way?
    mishaps,
    \* history
    unrecorded,          \* the file was written and that version is not the saved
                         \* one, or it was written between the halves of a read
    missed,              \* the last revert left the text as it was
    known                \* the texts of this model that were in the file, and the
                         \* foreign texts that were shown or could not be noticed

textVars == <<undoStack, position, versionId>>
flagVars == <<bufferSavedVersionId, dirty, inConflictMode, inErrorMode>>
saveVars == <<running, queued, saves>>
resolveVars == <<revert, reloads, resolving>>
fileVars == <<disk, fileEvent, mishaps>>
history == <<unrecorded, missed, known>>
vars == <<textVars, flagVars, lastResolvedMtime, saveVars, resolveVars, fileVars,
          history>>

NoTask == -1
NoRevert == [stage |-> "none"]
NoResolve == [by |-> "none"]

\* The calls of save() in the workbench: by the auto save timer; by the save
\* command, which forces; by "overwrite" on a conflict, which ignores the mtime;
\* by "save without formatting", which forces and skips the save participants.
SaveOptions == {"auto", "explicit", "overwrite", "withoutFormatting"}

IsForced(options) == options \in {"explicit", "withoutFormatting"}

Text == undoStack[position].text
AlternativeVersionId == undoStack[position].alt

Init ==
    /\ undoStack = <<[alt |-> 0, text |-> 0]>>
    /\ position = 1
    /\ versionId = 0
    /\ bufferSavedVersionId = 0
    /\ dirty = FALSE
    /\ inConflictMode = FALSE
    /\ inErrorMode = FALSE
    /\ lastResolvedMtime = 0
    /\ running = NoTask
    /\ queued = "none"
    /\ saves = {}
    /\ revert = NoRevert
    /\ reloads = 0
    /\ resolving = NoResolve
    /\ disk = [text |-> 0, mtime |-> 0]
    /\ fileEvent = FALSE
    /\ mishaps = 0
    /\ unrecorded = FALSE
    /\ missed = FALSE
    /\ known = {0}

-----------------------------------------------------------------------------
(* Dirty or not                                                            *)

\* setDirty(false): the flags go and the current version is the saved one.
ClearDirty(alt) ==
    /\ dirty' = FALSE
    /\ inConflictMode' = FALSE
    /\ inErrorMode' = FALSE
    /\ bufferSavedVersionId' = alt

\* onModelContentChanged(): a version reached by undo or redo may be the saved one.
OnModelContentChanged(alt) ==
    /\ versionId' = versionId + 1
    /\ IF alt = bufferSavedVersionId
       THEN ClearDirty(alt)
       ELSE /\ dirty' = TRUE
            /\ UNCHANGED <<bufferSavedVersionId, inConflictMode, inErrorMode>>
    /\ UNCHANGED <<lastResolvedMtime, saveVars, resolveVars, fileVars, history>>

\* The user or a save participant changes the text.
Edit ==
    /\ versionId < MaxVersion
    /\ undoStack' = Append(SubSeq(undoStack, 1, position),
                           [alt |-> versionId + 1, text |-> versionId + 1])
    /\ position' = position + 1
    /\ OnModelContentChanged(versionId + 1)

\* Undo and redo go back to an alternative version id of the text model.
UndoOrRedo ==
    /\ versionId < MaxVersion
    /\ \E p \in {position - 1, position + 1} \cap DOMAIN undoStack :
          /\ position' = p
          /\ OnModelContentChanged(undoStack[p].alt)
    /\ UNCHANGED undoStack

-----------------------------------------------------------------------------
(* Saving.  doSave() runs from several places; it is an operator on the     *)
(* part of the state it reads and writes, whose values are the possible     *)
(* results.                                                                 *)

Now == [running |-> running, queued |-> queued, saves |-> saves, dirty |-> dirty,
        inErrorMode |-> inErrorMode, mtime |-> lastResolvedMtime]

\* ignoreSaveFromSaveParticipants
InParticipants(z) == \E s \in z.saves : s.phase = "participants"

\* What write() is called with, once the save participants are done
Writing(s, mtime) ==
    [s EXCEPT !.phase = "validating", !.version = versionId, !.text = Text,
              !.mtime = mtime]

\* The task given to saveSequentializer.run up to its first await.  An auto save
\* less than 500ms after an undo or redo is put off; time is left out, so an auto
\* save may or may not find one.
NewSave(options, mtime) ==
    LET s == [phase |-> "participants", taskId |-> versionId, version |-> 0,
              text |-> 0, mtime |-> 0, options |-> options, cancelled |-> FALSE]
    IN  IF options = "withoutFormatting" THEN {Writing(s, mtime)}
        ELSE {s} \cup IF options = "auto" THEN {[s EXCEPT !.phase = "delayed"]} ELSE {}

\* Mutant of CancelRunning: the save that was put off goes on.
CancelNothing(all) == all

\* cancelRunning(): only a save that has not come to write() can be cancelled.
CancelRunning(all) ==
    {IF s.phase = "delayed" THEN [s EXCEPT !.cancelled = TRUE] ELSE s : s \in all}

DoSave(z, options) ==
    IF \/ InParticipants(z)
       \/ z.running = versionId
       \/ ~IsForced(options) /\ ~z.dirty
    THEN {z}
    ELSE IF z.running /= NoTask
    THEN {[z EXCEPT !.saves = CancelRunning(z.saves), !.queued = options]}
    ELSE {[z EXCEPT !.running = versionId, !.saves = z.saves \cup {s},
                    !.inErrorMode = z.inErrorMode /\ s.phase /= "validating"] :
             s \in NewSave(options, z.mtime)}

\* Mutants of DoneRunning: the id is not compared; the queued task is forgotten.
DoneRunningAny(z, taskId) ==
    LET free == [z EXCEPT !.running = NoTask, !.queued = "none"]
    IN  IF z.queued = "none" THEN {free} ELSE DoSave(free, z.queued)
DoneRunningForgets(z, taskId) ==
    {IF z.running = taskId THEN [z EXCEPT !.running = NoTask] ELSE z}

\* doneRunning() of the TaskSequentializer, which runs the queued task
DoneRunning(z, taskId) ==
    LET free == [z EXCEPT !.running = NoTask, !.queued = "none"]
    IN  IF z.running /= taskId THEN {z}
        ELSE IF z.queued = "none" THEN {free} ELSE DoSave(free, z.queued)

\* The state after doSave() has the result z.
Becomes(z) ==
    /\ running' = z.running
    /\ queued' = z.queued
    /\ saves' = z.saves
    /\ inErrorMode' = z.inErrorMode

\* save(): an auto save leaves a model in conflict or error alone.
Save(options) ==
    /\ disk.mtime - mishaps < MaxWrites
    /\ ~(options = "auto" /\ (inConflictMode \/ inErrorMode))
    /\ \E z \in DoSave(Now, options) : Becomes(z)
    /\ UNCHANGED <<textVars, bufferSavedVersionId, dirty, inConflictMode,
                   lastResolvedMtime, resolveVars, fileVars, history>>

\* A save that was put off goes on, unless it was cancelled.
DelayEnds(s) ==
    /\ s.phase = "delayed"
    /\ \E z \in IF s.cancelled
                THEN DoneRunning([Now EXCEPT !.saves = @ \ {s}], s.taskId)
                ELSE {[Now EXCEPT !.saves =
                          (@ \ {s}) \cup {[s EXCEPT !.phase = "participants"]}]} :
          Becomes(z)
    /\ UNCHANGED <<textVars, bufferSavedVersionId, dirty, inConflictMode,
                   lastResolvedMtime, resolveVars, fileVars, history>>

\* The save participants are done: the second run() of this doSave begins, with
\* the version there is now, and write() is called.
ParticipantsDone(s) ==
    /\ s.phase = "participants"
    /\ saves' = (saves \ {s}) \cup {Writing(s, lastResolvedMtime)}
    /\ running' = versionId
    /\ inErrorMode' = FALSE
    /\ UNCHANGED <<textVars, bufferSavedVersionId, dirty, inConflictMode, queued,
                   lastResolvedMtime, resolveVars, fileVars, history>>

\* Both tasks of a save end, the inner one first; a queued save begins.
SaveEnds(s, isDirty, isError, mtime) ==
    LET z == [running |-> running, queued |-> queued, saves |-> saves \ {s},
              dirty |-> isDirty, inErrorMode |-> isError, mtime |-> mtime]
    IN  \E inner \in DoneRunning(z, s.version) :
           \E outer \in DoneRunning(inner, s.taskId) : Becomes(outer)

\* handleSaveError()
HandleSaveError(s, isConflict) ==
    /\ dirty' = TRUE
    /\ inConflictMode' = (inConflictMode \/ isConflict)
    /\ SaveEnds(s, TRUE, TRUE, lastResolvedMtime)
    /\ UNCHANGED <<textVars, bufferSavedVersionId, lastResolvedMtime, resolveVars,
                   unrecorded, missed>>

\* updateLastResolvedFileStat()
UpdateLastResolvedFileStat(mtime) ==
    IF lastResolvedMtime <= mtime THEN mtime ELSE lastResolvedMtime

\* Mutant of IsCurrent: the version is not looked at.
IsCurrentAlways(s) == TRUE

\* Did the model stay as it was while the file was written?
IsCurrent(s) == s.version = versionId

\* handleSaveSuccess()
HandleSaveSuccess(s, mtime) ==
    LET last == UpdateLastResolvedFileStat(mtime)
    IN  /\ lastResolvedMtime' = last
        /\ IF IsCurrent(s)
           THEN /\ dirty' = FALSE
                /\ inConflictMode' = FALSE
                /\ bufferSavedVersionId' = AlternativeVersionId
                /\ SaveEnds(s, FALSE, FALSE, last)
                /\ missed' = FALSE
           ELSE /\ SaveEnds(s, dirty, inErrorMode, last)
                /\ UNCHANGED <<dirty, inConflictMode, bufferSavedVersionId, missed>>
        /\ unrecorded' = ~IsCurrent(s)
        /\ UNCHANGED <<textVars, resolveVars, known>>

-----------------------------------------------------------------------------
(* FileService.writeFile: a check, the write, and a stat of the result     *)

\* Mutant of ModifiedSince: the check is left out.
ModifiedSinceNever(s) == FALSE

ModifiedSince(s) == s.options /= "overwrite" /\ s.mtime < disk.mtime

ValidateWriteFile(s) ==
    /\ s.phase = "validating"
    /\ IF ModifiedSince(s)
       THEN HandleSaveError(s, TRUE)
       ELSE /\ saves' = (saves \ {s}) \cup {[s EXCEPT !.phase = "writing"]}
            /\ UNCHANGED <<textVars, flagVars, lastResolvedMtime, running, queued,
                           resolveVars, unrecorded, missed>>
    /\ UNCHANGED <<fileVars, known>>

DoWrite(s) ==
    /\ s.phase = "writing"
    /\ disk' = [text |-> s.text, mtime |-> disk.mtime + 1]
    /\ fileEvent' = TRUE
    /\ unrecorded' = TRUE
    /\ known' = known \cup {s.text}
    /\ saves' = (saves \ {s}) \cup {[s EXCEPT !.phase = "resolving"]}
    /\ UNCHANGED <<textVars, flagVars, lastResolvedMtime, running, queued,
                   resolveVars, mishaps, missed>>

WriteReturns(s) ==
    /\ s.phase = "resolving"
    /\ HandleSaveSuccess(s, disk.mtime)
    /\ UNCHANGED fileVars

ForeignText == -(mishaps + 1)

\* A foreign text gets into the file.  Nobody can notice it between the halves of
\* an operation: after the check of a write and before its stat, or after the
\* content of a forced read and before its stat.
ForeignWrite ==
    /\ disk' = [text |-> ForeignText, mtime |-> disk.mtime + 1]
    /\ fileEvent' = TRUE
    /\ known' = IF \/ \E s \in saves' : s.phase \in {"writing", "resolving"}
                   \/ resolving /= NoResolve /\ resolving.stage = "content"
                THEN known \cup {ForeignText} ELSE known

\* One of the three calls fails; a write that fails may have spoilt the file.
WriteFails(s) ==
    /\ s.phase \in {"validating", "writing", "resolving"}
    /\ mishaps < MaxMishaps
    /\ mishaps' = mishaps + 1
    /\ HandleSaveError(s, FALSE)
    /\ \/ s.phase = "writing" /\ ForeignWrite
       \/ UNCHANGED <<disk, fileEvent, known>>

\* The stat of the check fails: "file might not exist", and the write goes on
\* without the check.
StatFails(s) ==
    /\ s.phase = "validating"
    /\ mishaps < MaxMishaps
    /\ mishaps' = mishaps + 1
    /\ saves' = (saves \ {s}) \cup {[s EXCEPT !.phase = "writing"]}
    /\ known' = known \cup {disk.text}
    /\ UNCHANGED <<textVars, flagVars, lastResolvedMtime, running, queued,
                   resolveVars, disk, fileEvent, unrecorded, missed>>

\* Another program writes the file.
ExternalWrite ==
    /\ mishaps < MaxMishaps
    /\ mishaps' = mishaps + 1
    /\ UNCHANGED saveVars
    /\ ForeignWrite
    /\ UNCHANGED <<textVars, flagVars, lastResolvedMtime, resolveVars,
                   unrecorded, missed>>

-----------------------------------------------------------------------------
(* Resolving: a reload after a change of the file, or a revert             *)

\* onDidFilesChange() of the manager: never reload dirty models, and keep at
\* most one reload waiting.
OnDidFilesChange ==
    /\ fileEvent
    /\ fileEvent' = FALSE
    /\ reloads' = IF ~dirty /\ reloads <= 1 THEN reloads + 1 ELSE reloads
    /\ UNCHANGED <<textVars, flagVars, lastResolvedMtime, saveVars, revert,
                   resolving, disk, mishaps, history>>

\* resolve() reads the file only for a model that is neither dirty nor being saved.
MayResolve == ~dirty /\ running = NoTask

\* resolveFromFile() up to the read; etag is ETAG_DISABLED for a revert.
StartRead(by) ==
    resolving' = [by |-> by, version |-> versionId, etag |-> lastResolvedMtime,
                  stage |-> "start", mtime |-> 0, text |-> 0]

\* A reload has its turn, after the pending resolve, and a revert waiting for it.
Reload ==
    /\ reloads > 0
    /\ resolving = NoResolve
    /\ revert.stage /= "waiting"
    /\ IF MayResolve
       THEN StartRead("reload") /\ UNCHANGED reloads
       ELSE reloads' = reloads - 1 /\ UNCHANGED resolving
    /\ UNCHANGED <<textVars, flagVars, lastResolvedMtime, saveVars, revert,
                   fileVars, history>>

\* revert(): the flags go first, then the file is read, which has to wait for a
\* pending resolve.
Revert ==
    /\ revert = NoRevert
    /\ revert' = [stage |-> "waiting", dirty |-> dirty, conflict |-> inConflictMode,
                  error |-> inErrorMode, saved |-> bufferSavedVersionId]
    /\ ClearDirty(AlternativeVersionId)
    /\ UNCHANGED <<textVars, lastResolvedMtime, saveVars, reloads, resolving,
                   fileVars, history>>

\* The forced resolve of a revert begins, or finds the model dirty or being saved
\* and returns: then the revert is over.
ForceResolveFromFile ==
    /\ revert.stage = "waiting"
    /\ resolving = NoResolve
    /\ IF MayResolve
       THEN /\ StartRead("revert")
            /\ revert' = [revert EXCEPT !.stage = "reading"]
            /\ UNCHANGED missed
       ELSE /\ revert' = NoRevert
            /\ missed' = TRUE
            /\ UNCHANGED resolving
    /\ UNCHANGED <<textVars, flagVars, lastResolvedMtime, saveVars, reloads,
                   fileVars, unrecorded, known>>

\* The pending resolve is over, and with it the reload or revert that asked for it.
ResolveOver ==
    /\ resolving' = NoResolve
    /\ reloads' = IF resolving.by = "reload" THEN reloads - 1 ELSE reloads
    /\ UNCHANGED <<saveVars, fileVars>>

\* resolveFromContent(): the text is replaced, in a way that can be undone, unless
\* it is the same.
ResolveFromContent(mtime, text) ==
    /\ lastResolvedMtime' = UpdateLastResolvedFileStat(mtime)
    /\ IF text = Text
       THEN /\ ClearDirty(AlternativeVersionId)
            /\ UNCHANGED <<undoStack, position, versionId>>
       ELSE /\ undoStack' = Append(SubSeq(undoStack, 1, position),
                                   [alt |-> versionId + 1, text |-> text])
            /\ position' = position + 1
            /\ versionId' = versionId + 1
            /\ ClearDirty(versionId + 1)
    /\ unrecorded' = (resolving.stage = "content" /\ resolving.mtime /= disk.mtime)
    /\ missed' = FALSE
    /\ known' = known \cup {text}

\* Mutant of ChangedMeanwhile: the version is not looked at.
ChangedMeanwhileNever == FALSE

\* The version remembered before the read guards what was typed during it.
ChangedMeanwhile == resolving.version /= versionId

\* The read has both its stat and its content.
ResolveFromFile(mtime, text) ==
    /\ IF ChangedMeanwhile
       THEN /\ missed' = (missed \/ resolving.by = "revert")
            /\ UNCHANGED <<undoStack, position, versionId, flagVars,
                           lastResolvedMtime, unrecorded, known>>
       ELSE ResolveFromContent(mtime, text)
    /\ revert' = IF resolving.by = "revert" THEN NoRevert ELSE revert
    /\ ResolveOver

\* The stat of a read.  For a reload it comes first and may say that the file is
\* not modified; a revert reads the content at the same time.
ReadStat ==
    /\ resolving /= NoResolve
    /\ \/ /\ resolving.stage = "start"
          /\ resolving.by = "reload"
          /\ resolving.etag = disk.mtime
          /\ lastResolvedMtime' = UpdateLastResolvedFileStat(disk.mtime)
          /\ ResolveOver
          /\ UNCHANGED <<undoStack, position, versionId, flagVars, revert, history>>
       \/ /\ resolving.stage = "start"
          /\ resolving.by = "revert" \/ resolving.etag /= disk.mtime
          /\ resolving' = [resolving EXCEPT !.stage = "stat", !.mtime = disk.mtime]
          /\ UNCHANGED <<textVars, flagVars, lastResolvedMtime, saveVars, revert,
                         reloads, fileVars, history>>
       \/ /\ resolving.stage = "content"
          /\ ResolveFromFile(disk.mtime, resolving.text)

ReadContent ==
    /\ resolving /= NoResolve
    /\ \/ /\ resolving.stage = "start"
          /\ resolving.by = "revert"
          /\ resolving' = [resolving EXCEPT !.stage = "content", !.text = disk.text,
                                             !.mtime = disk.mtime]
          /\ UNCHANGED <<textVars, flagVars, lastResolvedMtime, saveVars, revert,
                         reloads, fileVars, history>>
       \/ /\ resolving.stage = "stat"
          /\ ResolveFromFile(resolving.mtime, disk.text)

\* The read fails: a revert calls undo(), which puts the old flags back.
ReadFails ==
    /\ resolving /= NoResolve
    /\ mishaps < MaxMishaps
    /\ mishaps' = mishaps + 1
    /\ resolving' = NoResolve
    /\ IF resolving.by = "revert"
       THEN /\ dirty' = revert.dirty
            /\ inConflictMode' = revert.conflict
            /\ inErrorMode' = revert.error
            /\ bufferSavedVersionId' = revert.saved
            /\ revert' = NoRevert
            /\ missed' = TRUE
            /\ UNCHANGED reloads
       ELSE /\ reloads' = reloads - 1
            /\ UNCHANGED <<flagVars, revert, missed>>
    /\ UNCHANGED <<textVars, lastResolvedMtime, saveVars, disk, fileEvent,
                   unrecorded, known>>

-----------------------------------------------------------------------------
SaveStep(s) ==
    \/ DelayEnds(s)
    \/ ParticipantsDone(s)
    \/ ValidateWriteFile(s)
    \/ DoWrite(s)
    \/ WriteReturns(s)

ResolveStep ==
    \/ OnDidFilesChange
    \/ Reload
    \/ ForceResolveFromFile
    \/ ReadStat
    \/ ReadContent

Next ==
    \/ Edit
    \/ UndoOrRedo
    \/ \E options \in SaveOptions : Save(options)
    \/ Revert
    \/ \E s \in saves : SaveStep(s) \/ StatFails(s) \/ WriteFails(s)
    \/ ResolveStep
    \/ ReadFails
    \/ ExternalWrite

Spec == Init /\ [][Next]_vars

\* Timers fire, save participants come to an end, file operations and events
\* are not lost.
FairSpec ==
    /\ Spec
    /\ WF_vars(\E s \in saves : SaveStep(s))

-----------------------------------------------------------------------------
(* Properties                                                              *)

SaveTask ==
    [phase : {"delayed", "participants", "validating", "writing", "resolving"},
     taskId : Nat, version : Nat, text : Int, mtime : Nat, options : SaveOptions,
     cancelled : BOOLEAN]

ResolveTask ==
    [by : {"reload", "revert"}, version : Nat, etag : Nat,
     stage : {"start", "stat", "content"}, mtime : Nat, text : Int]

RevertTask ==
    [stage : {"waiting", "reading"}, dirty : BOOLEAN, conflict : BOOLEAN,
     error : BOOLEAN, saved : Nat]

\* Type correctness of everything but the history.  The queue of reloads is never
\* longer than "1 running resolve and 1 queued resolve".
TypeOK ==
    /\ undoStack \in Seq([alt : Nat, text : Int])
    /\ position \in DOMAIN undoStack
    /\ versionId \in Nat
    /\ bufferSavedVersionId \in Nat
    /\ lastResolvedMtime \in Nat
    /\ dirty \in BOOLEAN
    /\ inConflictMode \in BOOLEAN
    /\ inErrorMode \in BOOLEAN
    /\ running \in Nat \cup {NoTask}
    /\ queued \in SaveOptions \cup {"none"}
    /\ saves \subseteq SaveTask
    /\ revert \in RevertTask \cup {NoRevert}
    /\ reloads \in 0..2
    /\ resolving \in ResolveTask \cup {NoResolve}
    /\ disk \in [text : Int, mtime : Nat]
    /\ fileEvent \in BOOLEAN
    /\ mishaps \in Nat

\* "Never ever must 2 saves execute at the same time": the sequentializer is busy
\* exactly while a doSave() is under way, and there is at most one.
OneSaveAtATime ==
    /\ \A s, t \in saves : s = t
    /\ (running = NoTask) = (saves = {})

\* The id of the running task is the one given to the last run() of the save, the
\* outer one before write() and the inner one after it.
RunningIsInForce ==
    \A s \in saves :
       /\ running = IF s.phase \in {"delayed", "participants"} THEN s.taskId
                                                              ELSE s.version
       /\ s.taskId <= running
       /\ running <= versionId

\* A save is only queued behind a save of an older version, which is past its save
\* participants or cancelled.  So when it starts, its id is a new one, and the
\* end of the outer task of the save before it does not stop it.
QueuedIsNewer ==
    queued /= "none" =>
       \E s \in saves : /\ running < versionId
                        /\ s.phase /= "participants"
                        /\ s.phase = "delayed" => s.cancelled

\* The pending resolve is the one of the revert or of the reload that has its turn:
\* nobody else can end it, and undo() has the flags to restore.
ResolveIsAskedFor ==
    /\ resolving.by = "revert" <=> revert.stage = "reading"
    /\ resolving.by = "reload" => reloads > 0

\* The order of saves and resolves
TasksOK ==
    /\ TypeOK
    /\ OneSaveAtATime
    /\ RunningIsInForce
    /\ QueuedIsNewer
    /\ ResolveIsAskedFor

\* Undo and redo do not mistake one version for another.
VersionsAreDistinct ==
    /\ \A p \in DOMAIN undoStack : undoStack[p].alt <= versionId
    /\ \A p, r \in DOMAIN undoStack : undoStack[p].alt = undoStack[r].alt => p = r
    /\ bufferSavedVersionId <= versionId
    /\ revert /= NoRevert => revert.saved <= versionId

\* The saved version is current in a model that is not dirty, its text was in the
\* file, and still is unless another program wrote the file or a write was not
\* recorded.
SavedVersionIsKnown ==
    /\ ~dirty /\ ~missed => AlternativeVersionId = bufferSavedVersionId
    /\ revert = NoRevert /\ ~missed =>
          \A p \in DOMAIN undoStack :
             undoStack[p].alt = bufferSavedVersionId =>
                /\ undoStack[p].text \in known
                /\ ~unrecorded /\ disk.text >= 0 => undoStack[p].text = disk.text

\* A save that is being written has the text of its version, and what it finds in
\* the file is known if the file was not modified since.
WritesAreKnown ==
    \A s \in saves : s.phase \in {"validating", "writing", "resolving"} =>
       /\ s.version = versionId => s.text = Text
       /\ s.mtime <= disk.mtime
       /\ s.phase = "validating" /\ s.mtime = disk.mtime => disk.text \in known
       /\ s.phase = "writing" => disk.text \in known \/ s.options = "overwrite"
       /\ s.phase = "resolving" =>
             {s.text, disk.text} \subseteq known /\ (disk.text = s.text \/ disk.text < 0)

\* What a read has got so far is not newer than the file, and a reload that will
\* replace the text replaces one that was saved.
ReadsAreKnown ==
    resolving /= NoResolve =>
       /\ resolving.version <= versionId
       /\ resolving.etag <= disk.mtime
       /\ resolving.etag = disk.mtime => disk.text \in known
       /\ resolving.stage /= "start" => resolving.mtime <= disk.mtime
       /\ resolving.stage = "content" =>
             /\ disk.text \in known \cup {resolving.text}
             /\ resolving.mtime = disk.mtime => resolving.text = disk.text
       /\ resolving.by = "reload" /\ resolving.version = versionId =>
             Text \in known \/ missed

\* A file that was not modified since the last resolve or save is known.
StatIsKnown ==
    /\ lastResolvedMtime <= disk.mtime
    /\ lastResolvedMtime = disk.mtime => disk.text \in known

\* The inductive invariant of the proofs
IInv ==
    /\ TasksOK
    /\ VersionsAreDistinct
    /\ SavedVersionIsKnown
    /\ WritesAreKnown
    /\ ReadsAreKnown
    /\ StatIsKnown

\* A model that is not dirty and has nothing in progress holds the text of the
\* file, unless another program wrote the file, the last save was overtaken by
\* an edit, or the last revert did not come to replace the text.
CleanIsSaved ==
    (/\ ~dirty
     /\ saves = {}
     /\ revert = NoRevert
     /\ disk.text >= 0
     /\ ~unrecorded
     /\ ~missed) => Text = disk.text

\* updateSavedVersionId() remembers "when the version of the model matches with the
\* saved version on disk".  Nobody else touches the file and nothing is under way:
\* a model that is not dirty holds the text of the file.
CleanMeansSaved ==
    (/\ ~dirty
     /\ saves = {}
     /\ revert = NoRevert
     /\ ~fileEvent
     /\ reloads = 0
     /\ mishaps = 0
     /\ ~missed) => Text = disk.text

\* Dirty write prevention: a save without "overwrite" only replaces a foreign text
\* that was shown, or that appeared between the halves of a file operation or
\* before a check that could not stat the file.
NoUnseenOverwrite ==
    [][\A s \in saves :
          DoWrite(s) => disk.text \in known \/ s.options = "overwrite"]_vars

\* A reload never discards what was typed and never saved.  (The exception, a
\* revert whose read failed, may have cleared the dirty flag of such a text.)
ReloadKeepsEdits ==
    [][ReadStat \/ ReadContent =>
          \/ Text' = Text
          \/ Text \in known
          \/ resolving.by = "revert"
          \/ missed]_vars

\* A save that was put off because another one was running is taken up.
QueuedSaveRuns == (queued /= "none") ~> (queued = "none")

=============================================================================
