--------------------- MODULE TextFileEditorModel_proofs ---------------------
(***************************************************************************)
(* The inductive invariant of TextFileEditorModel, for all bounds: however *)
(* edits, saves, reverts, reloads and failures mix, there is never more    *)
(* than one save, a queued save is never started twice or dropped, a model *)
(* that is not dirty was saved, a save replaces only a text that was       *)
(* noticed, and a reload replaces only a text that was saved.              *)
(*                                                                         *)
(* TasksOK, the order of saves and resolves, is inductive by itself and    *)
(* comes first; what was written and read is proved on top of it.          *)
(*                                                                         *)
(* doSave() and doneRunning() are operators on the part of the state they  *)
(* change, so the lemmas about them are about such parts (Saving).         *)
(***************************************************************************)
EXTENDS TextFileEditorModel, TLAPS

\* What doSave() reads and writes, the range of Now
SavingState ==
    [running : Nat \cup {NoTask}, queued : SaveOptions \cup {"none"},
     saves : SUBSET SaveTask, dirty : BOOLEAN, inErrorMode : BOOLEAN, mtime : Nat]

\* The invariants about saves as predicates of such a part
Saving(z) ==
    /\ z \in SavingState
    /\ \A s, t \in z.saves : s = t
    /\ (z.running = NoTask) = (z.saves = {})
    /\ \A s \in z.saves :
          /\ z.running = IF s.phase \in {"delayed", "participants"} THEN s.taskId
                                                                   ELSE s.version
          /\ s.taskId <= z.running
          /\ z.running <= versionId
    /\ z.queued /= "none" =>
          \E s \in z.saves : /\ z.running < versionId
                             /\ s.phase /= "participants"
                             /\ s.phase = "delayed" => s.cancelled

-----------------------------------------------------------------------------
(* The text                                                                *)

\* A part of a stack and one more state is a stack again, and its last state
\* is the new one.
LEMMA PushType ==
    ASSUME NEW S, NEW q \in Seq(S), NEW p \in DOMAIN q, NEW e \in S
    PROVE  /\ Append(SubSeq(q, 1, p), e) \in Seq(S)
           /\ p + 1 \in DOMAIN Append(SubSeq(q, 1, p), e)
<1>1. /\ p \in Nat
      /\ SubSeq(q, 1, p) \in Seq(S)
      /\ Len(SubSeq(q, 1, p)) = p
  OBVIOUS
<1>2. QED
  BY <1>1

\* An element of a sequence
LEMMA ElementOf ==
    ASSUME NEW S, NEW q \in Seq(S), NEW i \in DOMAIN q
    PROVE  q[i] \in S
  OBVIOUS

\* Text and AlternativeVersionId are what the stack has at the position.
LEMMA CurrentType ==
    ASSUME TypeOK
    PROVE  Text \in Int /\ AlternativeVersionId \in Nat
<1>1. undoStack[position] \in [alt : Nat, text : Int]
  BY ElementOf DEF TypeOK
<1>2. QED
  BY <1>1 DEF Text, AlternativeVersionId

-----------------------------------------------------------------------------
(* doSave and doneRunning                                                  *)

\* A new save has the current version as its id.
LEMMA NewSaveType ==
    ASSUME TypeOK, NEW options \in SaveOptions, NEW mtime \in Nat,
           NEW s \in NewSave(options, mtime)
    PROVE  /\ s \in SaveTask
           /\ s.taskId = versionId
           /\ s.phase \in {"delayed", "participants"} \/ s.version = versionId
<1>1. versionId \in Nat /\ Text \in Int
  BY CurrentType DEF TypeOK
<1> DEFINE new == [phase |-> "participants", taskId |-> versionId, version |-> 0,
                   text |-> 0, mtime |-> 0, options |-> options, cancelled |-> FALSE]
<1>2. new \in SaveTask /\ new.taskId = versionId /\ new.phase = "participants"
  BY <1>1 DEF SaveTask
<1>3. s \in {new, [new EXCEPT !.phase = "delayed"], Writing(new, mtime)}
  BY DEF NewSave
<1> HIDE DEF new
<1>4. CASE s = new
  BY <1>2, <1>4
<1>5. CASE s = [new EXCEPT !.phase = "delayed"]
  BY <1>2, <1>5 DEF SaveTask
<1>6. CASE s = Writing(new, mtime)
  BY <1>1, <1>2, <1>6 DEF Writing, SaveTask
<1>7. QED
  BY <1>3, <1>4, <1>5, <1>6

\* doSave() keeps the invariants, and a save it starts has a new id.
LEMMA DoSaveSaving ==
    ASSUME TypeOK, NEW z, Saving(z), NEW options \in SaveOptions,
           NEW y \in DoSave(z, options)
    PROVE  /\ Saving(y)
           /\ z.running = NoTask => y.running \in {NoTask, versionId}
<1>0. versionId \in Nat /\ z \in SavingState
  BY DEF TypeOK, Saving
<1>1. CASE y = z
  BY <1>1, <1>0
<1>2. CASE /\ ~InParticipants(z)
           /\ z.running \notin {versionId, NoTask}
           /\ y = [z EXCEPT !.saves = CancelRunning(z.saves), !.queued = options]
  <2>1. PICK s \in z.saves : z.saves = {s}
    BY <1>2 DEF Saving
  <2>2. s \in SaveTask /\ s.phase /= "participants"
    BY <1>2, <1>0 DEF InParticipants, SavingState
  <2> DEFINE t == IF s.phase = "delayed" THEN [s EXCEPT !.cancelled = TRUE] ELSE s
  <2>3. CancelRunning(z.saves) = {t}
    BY <2>1 DEF CancelRunning
  <2>4. /\ t \in SaveTask
        /\ t.phase = s.phase
        /\ t.taskId = s.taskId
        /\ t.version = s.version
        /\ t.phase = "delayed" => t.cancelled
    BY <2>2 DEF SaveTask
  <2>5. /\ y.running = z.running
        /\ y.queued = options
        /\ y.saves = {t}
        /\ y \in SavingState
    BY <1>0, <1>2, <2>3, <2>4 DEF SavingState
  <2> HIDE DEF t
  <2>6. z.running < versionId
    <3>1. z.running \in Nat /\ z.running /= versionId
      BY <1>0, <1>2 DEF SavingState
    <3>2. z.running <= versionId
      BY <2>1 DEF Saving
    <3>3. QED
      BY <1>0, <3>1, <3>2
  <2>7. /\ z.running = IF s.phase \in {"delayed", "participants"} THEN s.taskId
                                                                 ELSE s.version
        /\ s.taskId <= z.running
        /\ z.running <= versionId
    BY <2>1 DEF Saving
  <2>8. /\ y.running = IF t.phase \in {"delayed", "participants"} THEN t.taskId
                                                                 ELSE t.version
        /\ t.taskId <= y.running
        /\ y.running <= versionId
        /\ y.running < versionId
        /\ t.phase /= "participants"
    BY <2>2, <2>4, <2>5, <2>6, <2>7
  <2>9. y.running /= NoTask /\ y.saves /= {}
    BY <1>2, <2>5
  <2>10. Saving(y)
    BY <2>4, <2>5, <2>8, <2>9 DEF Saving
  <2>11. QED
    BY <1>2, <2>10
<1>3. CASE /\ z.running = NoTask
           /\ \E s \in NewSave(options, z.mtime) :
                 y = [z EXCEPT !.running = versionId, !.saves = z.saves \cup {s},
                               !.inErrorMode = z.inErrorMode /\ s.phase /= "validating"]
  <2>1. PICK s \in NewSave(options, z.mtime) :
                 y = [z EXCEPT !.running = versionId, !.saves = z.saves \cup {s},
                               !.inErrorMode = z.inErrorMode /\ s.phase /= "validating"]
    BY <1>3
  <2>2. z.saves = {} /\ z.queued = "none"
    BY <1>3 DEF Saving
  <2>3. /\ s \in SaveTask
        /\ s.taskId = versionId
        /\ s.phase \in {"delayed", "participants"} \/ s.version = versionId
    BY <1>0, NewSaveType DEF SavingState
  <2>4. /\ y.running = versionId
        /\ y.saves = {s}
        /\ y.queued = "none"
        /\ y \in SavingState
    BY <1>0, <2>1, <2>2, <2>3 DEF SavingState
  <2>5. QED
    BY <1>0, <2>3, <2>4 DEF Saving, NoTask
<1>4. QED
  BY <1>1, <1>2, <1>3 DEF DoSave

\* When the last task of a save ends, the queued save starts, if there is one.
LEMMA DoneSaving ==
    ASSUME TypeOK, NEW z \in SavingState, z.saves = {}, z.running /= NoTask,
           NEW y \in DoneRunning(z, z.running)
    PROVE  /\ Saving(y)
           /\ y.running \in {NoTask, versionId}
           /\ z.queued = "none" => y.running = NoTask
<1> DEFINE free == [z EXCEPT !.running = NoTask, !.queued = "none"]
<1>1. /\ Saving(free)
      /\ free.running = NoTask
  BY DEF Saving, SavingState
<1>2. y \in IF z.queued = "none" THEN {free} ELSE DoSave(free, z.queued)
  BY DEF DoneRunning
<1>3. z.queued \in SaveOptions \cup {"none"}
  BY DEF SavingState
<1> HIDE DEF free
<1>4. QED
  BY <1>1, <1>2, <1>3, DoSaveSaving

-----------------------------------------------------------------------------
(* The parts of the invariant, by what they are about                      *)

SavesOK ==
    /\ running \in Nat \cup {NoTask}
    /\ queued \in SaveOptions \cup {"none"}
    /\ saves \subseteq SaveTask
    /\ inErrorMode \in BOOLEAN
    /\ OneSaveAtATime
    /\ RunningIsInForce
    /\ QueuedIsNewer

TextOK ==
    /\ undoStack \in Seq([alt : Nat, text : Int])
    /\ position \in DOMAIN undoStack
    /\ versionId \in Nat

FlagsOK ==
    /\ bufferSavedVersionId \in Nat
    /\ lastResolvedMtime \in Nat
    /\ dirty \in BOOLEAN
    /\ inConflictMode \in BOOLEAN

FileOK ==
    /\ disk \in [text : Int, mtime : Nat]
    /\ fileEvent \in BOOLEAN
    /\ mishaps \in Nat

ResolveOK ==
    /\ revert \in RevertTask \cup {NoRevert}
    /\ reloads \in 0..2
    /\ resolving \in ResolveTask \cup {NoResolve}
    /\ ResolveIsAskedFor

\* Nothing is missing from the parts.
LEMMA Parts == TasksOK <=> SavesOK /\ TextOK /\ FlagsOK /\ FileOK /\ ResolveOK
  BY DEF TasksOK, TypeOK, SavesOK, TextOK, FlagsOK, FileOK, ResolveOK

\* The same of the next state
LEMMA PartsNext ==
    ASSUME SavesOK', TextOK', FlagsOK', FileOK', ResolveOK'
    PROVE  TasksOK'
  BY DEF TasksOK, TypeOK, SavesOK, TextOK, FlagsOK, FileOK, ResolveOK

\* The invariants about saves hold of Now.
LEMMA NowSaving ==
    ASSUME TasksOK
    PROVE  Saving(Now)
<1>1. Now \in SavingState
  BY DEF TasksOK, TypeOK, Now, SavingState
<1>2. QED
  BY <1>1 DEF TasksOK, OneSaveAtATime, RunningIsInForce, QueuedIsNewer, Now, Saving

\* A part with the invariants about saves is a good next state.
LEMMA BecomesSaving ==
    ASSUME NEW z, Saving(z), Becomes(z), versionId' = versionId
    PROVE  SavesOK'
<1>1. /\ running' \in Nat \cup {NoTask}
      /\ queued' \in SaveOptions \cup {"none"}
      /\ saves' \subseteq SaveTask
      /\ inErrorMode' \in BOOLEAN
  BY DEF Saving, SavingState, Becomes
<1>2. OneSaveAtATime'
  BY DEF Saving, Becomes, OneSaveAtATime
<1>3. RunningIsInForce'
  BY DEF Saving, Becomes, RunningIsInForce
<1>4. QueuedIsNewer'
  BY DEF Saving, Becomes, QueuedIsNewer
<1>5. QED
  BY <1>1, <1>2, <1>3, <1>4 DEF SavesOK

\* A new version of the text does not disturb the save under way.
LEMMA SavesFrame ==
    ASSUME SavesOK, versionId \in Nat, versionId' \in {versionId, versionId + 1},
           UNCHANGED saveVars, inErrorMode' \in BOOLEAN
    PROVE  SavesOK'
<1>1. /\ running' \in Nat \cup {NoTask}
      /\ queued' \in SaveOptions \cup {"none"}
      /\ saves' \subseteq SaveTask
      /\ OneSaveAtATime'
  BY DEF SavesOK, saveVars, OneSaveAtATime
<1>2. \A s \in saves : running \in Nat
  BY DEF SavesOK, OneSaveAtATime
<1>3. RunningIsInForce'
  BY <1>2 DEF SavesOK, saveVars, RunningIsInForce
<1>4. QueuedIsNewer'
  BY <1>2 DEF SavesOK, saveVars, QueuedIsNewer
<1>5. QED
  BY <1>1, <1>3, <1>4 DEF SavesOK

\* The save under way is the only one.
LEMMA TheSave ==
    ASSUME SavesOK, versionId \in Nat, NEW s \in saves
    PROVE  /\ s \in SaveTask
           /\ saves \ {s} = {}
           /\ running \in Nat
           /\ running = IF s.phase \in {"delayed", "participants"} THEN s.taskId
                                                                  ELSE s.version
           /\ s.taskId <= running
           /\ running <= versionId
           /\ queued /= "none" => /\ running < versionId
                                  /\ s.phase /= "participants"
                                  /\ s.phase = "delayed" => s.cancelled
<1>1. s \in SaveTask /\ saves = {s} /\ running \in Nat
  BY DEF SavesOK, OneSaveAtATime
<1>2. QED
  BY <1>1 DEF SavesOK, RunningIsInForce, QueuedIsNewer

\* A save goes on as t, which keeps the id in force.
LEMMA SaveGoesOn ==
    ASSUME SavesOK, versionId \in Nat, NEW s \in saves, NEW t \in SaveTask,
           saves' = (saves \ {s}) \cup {t},
           t.phase = "participants" => queued = "none",
           t.phase /= "delayed",
           running' \in Nat,
           running' = IF t.phase \in {"delayed", "participants"} THEN t.taskId
                                                                ELSE t.version,
           t.taskId <= running',
           running' <= versionId,
           queued /= "none" => running' < versionId,
           queued' = queued, versionId' = versionId, inErrorMode' \in BOOLEAN
    PROVE  SavesOK'
<1>1. saves' = {t}
  BY TheSave
<1>2. OneSaveAtATime'
  BY <1>1 DEF OneSaveAtATime, NoTask
<1>3. RunningIsInForce'
  BY <1>1 DEF RunningIsInForce
<1>4. QueuedIsNewer'
  BY <1>1 DEF QueuedIsNewer
<1>5. QED
  BY <1>1, <1>2, <1>3, <1>4 DEF SavesOK

\* Both tasks of a save end: the inner one starts what is queued, and the outer
\* one, whose id is older, leaves it alone.
LEMMA SaveEndsSaving ==
    ASSUME TasksOK, NEW s \in saves, s.phase \notin {"delayed", "participants"},
           NEW isDirty \in BOOLEAN, NEW isError \in BOOLEAN, NEW mtime \in Nat,
           SaveEnds(s, isDirty, isError, mtime), versionId' = versionId
    PROVE  SavesOK'
<1>0. TypeOK /\ SavesOK /\ versionId \in Nat
  BY Parts DEF TasksOK, TypeOK
<1> DEFINE z == [running |-> running, queued |-> queued, saves |-> saves \ {s},
                 dirty |-> isDirty, inErrorMode |-> isError, mtime |-> mtime]
<1>1. /\ s \in SaveTask
      /\ saves \ {s} = {}
      /\ running \in Nat
      /\ running = s.version
      /\ s.taskId <= running
      /\ running <= versionId
      /\ queued /= "none" => running < versionId
  BY <1>0, TheSave
<1>2. /\ z \in SavingState
      /\ z.saves = {}
      /\ z.running = s.version
      /\ z.running /= NoTask
      /\ z.queued = queued
  BY <1>0, <1>1 DEF SavingState, SavesOK, NoTask
<1>3. PICK inner \in DoneRunning(z, s.version) :
         \E outer \in DoneRunning(inner, s.taskId) : Becomes(outer)
  BY DEF SaveEnds
<1> HIDE DEF z
<1>4. /\ Saving(inner)
      /\ inner.running \in {NoTask, versionId}
      /\ queued = "none" => inner.running = NoTask
  BY <1>0, <1>2, <1>3, DoneSaving
<1>5. s.taskId \in Nat
  BY <1>1 DEF SaveTask
<1>6. inner.running /= s.taskId
  BY <1>0, <1>1, <1>4, <1>5 DEF NoTask
<1>7. DoneRunning(inner, s.taskId) = {inner}
  BY <1>6 DEF DoneRunning
<1>8. QED
  BY <1>0, <1>3, <1>4, <1>7, BecomesSaving

\* updateLastResolvedFileStat() keeps a time.
LEMMA StatType ==
    ASSUME lastResolvedMtime \in Nat, NEW mtime \in Nat
    PROVE  UpdateLastResolvedFileStat(mtime) \in Nat
  BY DEF UpdateLastResolvedFileStat

\* handleSaveError() keeps the invariant about saves, and the flags.
LEMMA SaveErrorSaving ==
    ASSUME TasksOK, NEW s \in saves, s.phase \notin {"delayed", "participants"},
           NEW isConflict \in BOOLEAN, HandleSaveError(s, isConflict)
    PROVE  SavesOK' /\ TextOK' /\ FlagsOK' /\ ResolveOK'
<1>1. FlagsOK' /\ TextOK'
  BY Parts DEF HandleSaveError, FlagsOK, TextOK, textVars
<1>2. ResolveOK'
  BY Parts DEF HandleSaveError, ResolveOK, ResolveIsAskedFor, resolveVars
<1>3. SaveEnds(s, TRUE, TRUE, lastResolvedMtime) /\ versionId' = versionId
  BY DEF HandleSaveError, textVars
<1>4. SavesOK'
  BY <1>3, SaveEndsSaving DEF TasksOK, TypeOK
<1>5. QED
  BY <1>1, <1>2, <1>4

\* handleSaveSuccess() keeps them too.
LEMMA SaveSuccessSaving ==
    ASSUME TasksOK, NEW s \in saves, s.phase \notin {"delayed", "participants"},
           NEW mtime \in Nat, HandleSaveSuccess(s, mtime)
    PROVE  SavesOK' /\ TextOK' /\ FlagsOK' /\ ResolveOK'
<1>0. TypeOK
  BY DEF TasksOK
<1>1. /\ AlternativeVersionId \in Nat
      /\ UpdateLastResolvedFileStat(mtime) \in Nat
  BY <1>0, CurrentType, StatType DEF TypeOK
<1>2. TextOK' /\ versionId' = versionId
  BY Parts DEF HandleSaveSuccess, TextOK, textVars
<1>3. FlagsOK'
  BY <1>1, Parts DEF HandleSaveSuccess, FlagsOK
<1>4. ResolveOK'
  BY Parts DEF HandleSaveSuccess, ResolveOK, ResolveIsAskedFor, resolveVars
<1>5. \E d, e \in BOOLEAN : SaveEnds(s, d, e, UpdateLastResolvedFileStat(mtime))
  BY <1>0 DEF HandleSaveSuccess, TypeOK
<1>6. SavesOK'
  BY <1>1, <1>2, <1>5, SaveEndsSaving
<1>7. QED
  BY <1>2, <1>3, <1>4, <1>6

-----------------------------------------------------------------------------
(* Steps of the text and of the saves                                      *)

\* The invariant holds initially.
LEMMA InitTasksOK == Init => TasksOK
<1> SUFFICES ASSUME Init PROVE TasksOK
  OBVIOUS
<1>1. undoStack \in Seq([alt : Nat, text : Int]) /\ position \in DOMAIN undoStack
  BY DEF Init
<1>2. SavesOK
  BY DEF Init, SavesOK, OneSaveAtATime, RunningIsInForce, QueuedIsNewer
<1>3. TextOK
  BY <1>1 DEF Init, TextOK
<1>4. FlagsOK
  BY DEF Init, FlagsOK
<1>5. FileOK
  <2>1. disk \in [text : Int, mtime : Nat] /\ mishaps \in Nat
    BY DEF Init
  <2>2. fileEvent \in BOOLEAN
    BY Zenon DEF Init
  <2>3. QED
    BY <2>1, <2>2 DEF FileOK
<1>6. ResolveOK
  BY DEF Init, ResolveOK, ResolveIsAskedFor, NoResolve, NoRevert
<1>7. QED
  BY <1>2, <1>3, <1>4, <1>5, <1>6, Parts

\* onModelContentChanged() with a new or an old version of the text
LEMMA ContentChanged ==
    ASSUME TasksOK, NEW alt \in Nat, OnModelContentChanged(alt),
           undoStack' \in Seq([alt : Nat, text : Int]),
           position' \in DOMAIN undoStack'
    PROVE  TasksOK'
<1>0. versionId \in Nat /\ versionId' = versionId + 1
  BY Parts DEF OnModelContentChanged, TextOK
<1>1. TextOK'
  BY <1>0 DEF TextOK
<1>2. FlagsOK' /\ inErrorMode' \in BOOLEAN
  BY Parts DEF OnModelContentChanged, ClearDirty, FlagsOK, SavesOK
<1>3. SavesOK'
  BY <1>0, <1>2, Parts, SavesFrame DEF OnModelContentChanged
<1>4. FileOK'
  BY Parts DEF OnModelContentChanged, FileOK, fileVars
<1>5. ResolveOK'
  BY Parts DEF OnModelContentChanged, ResolveOK, ResolveIsAskedFor, resolveVars
<1>6. QED
  BY <1>1, <1>2, <1>3, <1>4, <1>5, PartsNext

\* An edit keeps the invariant.
LEMMA EditTasksOK == ASSUME TasksOK, Edit PROVE TasksOK'
<1>1. TextOK
  BY Parts
<1>2. [alt |-> versionId + 1, text |-> versionId + 1] \in [alt : Nat, text : Int]
  BY <1>1 DEF TextOK
<1>3. undoStack' \in Seq([alt : Nat, text : Int]) /\ position' \in DOMAIN undoStack'
  BY <1>1, <1>2, PushType DEF Edit, TextOK
<1>4. versionId + 1 \in Nat /\ OnModelContentChanged(versionId + 1)
  BY <1>1 DEF Edit, TextOK
<1>5. QED
  BY <1>3, <1>4, ContentChanged

\* So does undo or redo.
LEMMA UndoOrRedoTasksOK == ASSUME TasksOK, UndoOrRedo PROVE TasksOK'
<1>1. TextOK
  BY Parts
<1>2. PICK p \in DOMAIN undoStack :
         position' = p /\ OnModelContentChanged(undoStack[p].alt)
  BY DEF UndoOrRedo
<1>3. undoStack[p] \in [alt : Nat, text : Int]
  BY <1>1, ElementOf DEF TextOK
<1>4. undoStack[p].alt \in Nat
  BY <1>3
<1>5. undoStack' \in Seq([alt : Nat, text : Int]) /\ position' \in DOMAIN undoStack'
  BY <1>1, <1>2 DEF UndoOrRedo, TextOK
<1>6. QED
  BY <1>2, <1>4, <1>5, ContentChanged

\* A call of save() keeps the invariant.
LEMMA SaveTasksOK ==
    ASSUME TasksOK, NEW options \in SaveOptions, Save(options)
    PROVE  TasksOK'
<1>1. PICK z \in DoSave(Now, options) : Becomes(z)
  BY DEF Save
<1>2. Saving(z)
  BY <1>1, NowSaving, DoSaveSaving DEF TasksOK
<1>3. SavesOK'
  BY <1>1, <1>2, BecomesSaving DEF Save, textVars
<1>4. TextOK' /\ FlagsOK'
  BY Parts DEF Save, TextOK, FlagsOK, textVars
<1>5. FileOK' /\ ResolveOK'
  BY Parts DEF Save, FileOK, ResolveOK, ResolveIsAskedFor, fileVars, resolveVars
<1>6. QED
  BY <1>3, <1>4, <1>5, PartsNext

\* The delay after an undo ends: the save goes on, or it was cancelled and the
\* queued one starts.
LEMMA DelayEndsTasksOK ==
    ASSUME TasksOK, NEW s \in saves, DelayEnds(s)
    PROVE  TasksOK'
<1>0. SavesOK /\ TypeOK /\ versionId \in Nat /\ versionId' = versionId
  BY Parts DEF TasksOK, TypeOK, DelayEnds, textVars
<1>1. /\ s \in SaveTask
      /\ saves \ {s} = {}
      /\ running \in Nat
      /\ running = s.taskId
      /\ running <= versionId
      /\ queued /= "none" => s.cancelled
  BY <1>0, TheSave DEF DelayEnds
<1>2. SavesOK'
  <2>1. CASE s.cancelled
    <3> DEFINE z == [Now EXCEPT !.saves = @ \ {s}]
    <3>1. PICK y \in DoneRunning(z, s.taskId) : Becomes(y)
      BY <2>1 DEF DelayEnds
    <3>2. Now \in SavingState /\ Now.saves = saves /\ Now.running = running
      BY NowSaving DEF Saving, Now
    <3>3. z \in SavingState /\ z.saves = {} /\ z.running = s.taskId
      BY <1>1, <3>2 DEF SavingState
    <3> HIDE DEF z
    <3>4. Saving(y)
      BY <1>0, <1>1, <3>1, <3>3, DoneSaving DEF NoTask
    <3>5. QED
      BY <1>0, <3>1, <3>4, BecomesSaving
  <2>2. CASE ~s.cancelled
    <3> DEFINE t == [s EXCEPT !.phase = "participants"]
    <3>1. /\ saves' = (saves \ {s}) \cup {t}
          /\ running' = running
          /\ queued' = queued
          /\ inErrorMode' = inErrorMode
      BY <2>2 DEF DelayEnds, Becomes, Now
    <3>2. /\ t \in SaveTask
          /\ t.phase = "participants"
          /\ t.taskId = running
      BY <1>1 DEF SaveTask
    <3> HIDE DEF t
    <3>3. inErrorMode' \in BOOLEAN /\ queued = "none"
      BY <1>0, <1>1, <2>2, <3>1 DEF SavesOK
    <3>4. QED
      BY <1>0, <1>1, <3>1, <3>2, <3>3, SaveGoesOn
  <2>3. QED
    BY <2>1, <2>2
<1>3. TextOK' /\ FlagsOK'
  BY Parts DEF DelayEnds, TextOK, FlagsOK, textVars
<1>4. FileOK' /\ ResolveOK'
  BY Parts DEF DelayEnds, FileOK, ResolveOK, ResolveIsAskedFor, fileVars, resolveVars
<1>5. QED
  BY <1>2, <1>3, <1>4, PartsNext

\* The write begins under the id of the version it writes.
LEMMA ParticipantsDoneTasksOK ==
    ASSUME TasksOK, NEW s \in saves, ParticipantsDone(s)
    PROVE  TasksOK'
<1>0. SavesOK /\ TypeOK /\ versionId \in Nat /\ versionId' = versionId
  BY Parts DEF TasksOK, TypeOK, ParticipantsDone, textVars
<1>1. /\ s \in SaveTask
      /\ s.taskId <= versionId
      /\ queued = "none"
  BY <1>0, TheSave DEF ParticipantsDone
<1> DEFINE t == Writing(s, lastResolvedMtime)
<1>2. /\ t \in SaveTask
      /\ t.phase = "validating"
      /\ t.taskId = s.taskId
      /\ t.version = versionId
  BY <1>0, <1>1, CurrentType DEF Writing, SaveTask, TypeOK
<1>3. saves' = (saves \ {s}) \cup {t}
  BY DEF ParticipantsDone
<1> HIDE DEF t
<1>4. SavesOK'
  <2>1. /\ running' = versionId
        /\ queued' = queued
        /\ inErrorMode' \in BOOLEAN
    BY DEF ParticipantsDone
  <2>2. QED
    BY <1>0, <1>1, <1>2, <1>3, <2>1, SaveGoesOn
<1>5. TextOK' /\ FlagsOK'
  BY Parts DEF ParticipantsDone, TextOK, FlagsOK, textVars
<1>6. FileOK' /\ ResolveOK'
  BY Parts
  DEF ParticipantsDone, FileOK, ResolveOK, ResolveIsAskedFor, fileVars, resolveVars
<1>7. QED
  BY <1>4, <1>5, <1>6, PartsNext

\* A write goes from one call to the next: the invariant about saves does not
\* tell the three apart.
LEMMA WriteGoesOn ==
    ASSUME SavesOK, versionId \in Nat, NEW s \in saves,
           s.phase \in {"validating", "writing"}, NEW p \in {"writing", "resolving"},
           saves' = (saves \ {s}) \cup {[s EXCEPT !.phase = p]},
           UNCHANGED <<running, queued, versionId, inErrorMode>>
    PROVE  SavesOK'
<1>1. /\ s \in SaveTask
      /\ running \in Nat
      /\ running = s.version
      /\ s.taskId <= running
      /\ running <= versionId
      /\ queued /= "none" => running < versionId
  BY TheSave
<1> DEFINE t == [s EXCEPT !.phase = p]
<1>2. /\ t \in SaveTask
      /\ t.phase = p
      /\ t.taskId = s.taskId
      /\ t.version = s.version
  BY <1>1 DEF SaveTask
<1>3. saves' = (saves \ {s}) \cup {t}
  OBVIOUS
<1> HIDE DEF t
<1>4. inErrorMode' \in BOOLEAN
  BY DEF SavesOK
<1>5. QED
  BY <1>1, <1>2, <1>3, <1>4, SaveGoesOn

\* The steps of writeFile() keep the invariant.
LEMMA ValidateWriteFileTasksOK ==
    ASSUME TasksOK, NEW s \in saves, ValidateWriteFile(s)
    PROVE  TasksOK'
<1>1. FileOK'
  BY Parts DEF ValidateWriteFile, FileOK, fileVars
<1>2. CASE HandleSaveError(s, TRUE)
  <2>1. SavesOK' /\ TextOK' /\ FlagsOK' /\ ResolveOK'
    BY <1>2, SaveErrorSaving DEF ValidateWriteFile
  <2>2. QED
    BY <1>1, <2>1, PartsNext
<1>3. CASE ~ModifiedSince(s)
  <2>1. SavesOK'
    BY <1>3, Parts, WriteGoesOn DEF ValidateWriteFile, TextOK, textVars, flagVars
  <2>2. TextOK' /\ FlagsOK'
    BY <1>3, Parts DEF ValidateWriteFile, TextOK, FlagsOK, textVars, flagVars
  <2>3. ResolveOK'
    BY <1>3, Parts DEF ValidateWriteFile, ResolveOK, ResolveIsAskedFor, resolveVars
  <2>4. QED
    BY <1>1, <2>1, <2>2, <2>3, PartsNext
<1>4. QED
  BY <1>2, <1>3 DEF ValidateWriteFile

\* The write itself
LEMMA DoWriteTasksOK ==
    ASSUME TasksOK, NEW s \in saves, DoWrite(s)
    PROVE  TasksOK'
<1>0. /\ SavesOK
      /\ versionId \in Nat
      /\ s \in SaveTask
      /\ disk \in [text : Int, mtime : Nat]
  BY Parts DEF SavesOK, TextOK, FileOK
<1>1. FileOK'
  <2>1. disk' \in [text : Int, mtime : Nat]
    BY <1>0 DEF DoWrite, SaveTask
  <2>2. fileEvent' \in BOOLEAN /\ mishaps' = mishaps
    BY DEF DoWrite
  <2>3. QED
    BY <2>1, <2>2, Parts DEF FileOK
<1>2. SavesOK'
  BY <1>0, WriteGoesOn DEF DoWrite, textVars, flagVars
<1>3. TextOK' /\ FlagsOK'
  BY Parts DEF DoWrite, TextOK, FlagsOK, textVars, flagVars
<1>4. ResolveOK'
  BY Parts DEF DoWrite, ResolveOK, ResolveIsAskedFor, resolveVars
<1>5. QED
  BY <1>1, <1>2, <1>3, <1>4, PartsNext

\* The end of a write
LEMMA WriteReturnsTasksOK ==
    ASSUME TasksOK, NEW s \in saves, WriteReturns(s)
    PROVE  TasksOK'
<1>1. FileOK'
  BY Parts DEF WriteReturns, FileOK, fileVars
<1>2. disk.mtime \in Nat
  BY Parts DEF FileOK
<1>3. SavesOK' /\ TextOK' /\ FlagsOK' /\ ResolveOK'
  BY <1>2, SaveSuccessSaving DEF WriteReturns
<1>4. QED
  BY <1>1, <1>3, PartsNext

\* A check that is left out because the stat fails
LEMMA StatFailsTasksOK ==
    ASSUME TasksOK, NEW s \in saves, StatFails(s)
    PROVE  TasksOK'
<1>1. FileOK'
  BY Parts DEF StatFails, FileOK
<1>2. SavesOK'
  BY Parts, WriteGoesOn DEF StatFails, TextOK, textVars, flagVars
<1>3. TextOK' /\ FlagsOK'
  BY Parts DEF StatFails, TextOK, FlagsOK, textVars, flagVars
<1>4. ResolveOK'
  BY Parts DEF StatFails, ResolveOK, ResolveIsAskedFor, resolveVars
<1>5. QED
  BY <1>1, <1>2, <1>3, <1>4, PartsNext

\* A foreign text is a text.
LEMMA ForeignWriteFile ==
    ASSUME FileOK, ForeignWrite, mishaps' = mishaps + 1
    PROVE  FileOK'
<1>1. disk' \in [text : Int, mtime : Nat] /\ mishaps' \in Nat
  BY DEF FileOK, ForeignWrite, ForeignText
<1>2. fileEvent' \in BOOLEAN
  BY DEF ForeignWrite
<1>3. QED
  BY <1>1, <1>2 DEF FileOK

\* A save that fails, the file spoilt or not
LEMMA WriteFailsTasksOK ==
    ASSUME TasksOK, NEW s \in saves, WriteFails(s)
    PROVE  TasksOK'
<1>1. FileOK'
  <2>1. CASE ForeignWrite
    BY <2>1, Parts, ForeignWriteFile DEF WriteFails
  <2>2. CASE UNCHANGED <<disk, fileEvent>>
    BY <2>2, Parts DEF WriteFails, FileOK
  <2>3. QED
    BY <2>1, <2>2 DEF WriteFails
<1>2. SavesOK' /\ TextOK' /\ FlagsOK' /\ ResolveOK'
  BY SaveErrorSaving DEF WriteFails
<1>3. QED
  BY <1>1, <1>2, PartsNext

\* A write by another program
LEMMA ExternalWriteTasksOK ==
    ASSUME TasksOK, ExternalWrite
    PROVE  TasksOK'
<1>1. FileOK'
  BY Parts, ForeignWriteFile DEF ExternalWrite
<1>2. SavesOK'
  BY Parts, SavesFrame DEF ExternalWrite, TextOK, SavesOK, textVars, flagVars
<1>3. TextOK' /\ FlagsOK'
  BY Parts DEF ExternalWrite, TextOK, FlagsOK, textVars, flagVars
<1>4. ResolveOK'
  BY Parts DEF ExternalWrite, ResolveOK, ResolveIsAskedFor, resolveVars
<1>5. QED
  BY <1>1, <1>2, <1>3, <1>4, PartsNext

-----------------------------------------------------------------------------
(* Steps of the manager and of a resolve                                   *)

\* The text, the saves and the file as they were
LEMMA OthersFrame ==
    ASSUME TasksOK, UNCHANGED <<undoStack, position, versionId, saveVars, disk, mishaps>>
    PROVE  /\ TextOK'
           /\ inErrorMode' \in BOOLEAN => SavesOK'
           /\ fileEvent' \in BOOLEAN => FileOK'
<1>1. TextOK'
  BY Parts DEF TextOK
<1>2. inErrorMode' \in BOOLEAN => SavesOK'
  BY Parts, SavesFrame DEF TextOK
<1>3. fileEvent' \in BOOLEAN => FileOK'
  BY Parts DEF FileOK
<1>4. QED
  BY <1>1, <1>2, <1>3

\* A change event asks for at most two reloads.
LEMMA OnDidFilesChangeTasksOK ==
    ASSUME TasksOK, OnDidFilesChange
    PROVE  TasksOK'
<1>1. /\ fileEvent' \in BOOLEAN
      /\ inErrorMode' \in BOOLEAN
      /\ UNCHANGED <<undoStack, position, versionId, saveVars, disk, mishaps>>
  BY Parts DEF OnDidFilesChange, SavesOK, textVars, flagVars
<1>2. TextOK' /\ SavesOK' /\ FileOK'
  BY <1>1, OthersFrame
<1>3. FlagsOK'
  BY Parts DEF OnDidFilesChange, FlagsOK, flagVars
<1>4. ResolveOK'
  BY Parts DEF OnDidFilesChange, ResolveOK, ResolveIsAskedFor
<1>5. QED
  BY <1>2, <1>3, <1>4, PartsNext

\* A read that begins has the types of a read.
LEMMA StartReadType ==
    ASSUME TasksOK, NEW by \in {"reload", "revert"}, StartRead(by)
    PROVE  resolving' \in ResolveTask /\ resolving'.by = by
  BY DEF TasksOK, TypeOK, StartRead, ResolveTask

\* A reload has its turn.
LEMMA ReloadTasksOK ==
    ASSUME TasksOK, Reload
    PROVE  TasksOK'
<1>1. /\ fileEvent' \in BOOLEAN
      /\ inErrorMode' \in BOOLEAN
      /\ UNCHANGED <<undoStack, position, versionId, saveVars, disk, mishaps>>
  BY Parts DEF Reload, SavesOK, FileOK, textVars, flagVars, fileVars
<1>2. TextOK' /\ SavesOK' /\ FileOK'
  BY <1>1, OthersFrame
<1>3. FlagsOK'
  BY Parts DEF Reload, FlagsOK, flagVars
<1>4. ResolveOK /\ revert' = revert /\ resolving.by = "none" /\ reloads > 0
  BY Parts DEF Reload, NoResolve
<1>5. CASE MayResolve
  <2>1. /\ resolving' \in ResolveTask
        /\ resolving'.by = "reload"
        /\ reloads' = reloads
    BY <1>5, StartReadType DEF Reload
  <2>2. ResolveOK'
    BY <1>4, <2>1 DEF ResolveOK, ResolveIsAskedFor
  <2>3. QED
    BY <1>2, <1>3, <2>2, PartsNext
<1>6. CASE ~MayResolve
  <2>1. resolving' = resolving /\ reloads' = reloads - 1
    BY <1>6 DEF Reload
  <2>2. ResolveOK'
    BY <1>4, <2>1 DEF ResolveOK, ResolveIsAskedFor
  <2>3. QED
    BY <1>2, <1>3, <2>2, PartsNext
<1>7. QED
  BY <1>5, <1>6

\* revert() clears the flags and remembers them.
LEMMA RevertTasksOK ==
    ASSUME TasksOK, Revert
    PROVE  TasksOK'
<1>0. AlternativeVersionId \in Nat
  BY CurrentType DEF TasksOK
<1>1. /\ fileEvent' \in BOOLEAN
      /\ inErrorMode' \in BOOLEAN
      /\ UNCHANGED <<undoStack, position, versionId, saveVars, disk, mishaps>>
  BY Parts DEF Revert, ClearDirty, FileOK, textVars, fileVars
<1>2. TextOK' /\ SavesOK' /\ FileOK'
  BY <1>1, OthersFrame
<1>3. FlagsOK'
  BY <1>0, <1>1, Parts DEF Revert, ClearDirty, FlagsOK
<1>4. revert' \in RevertTask /\ revert'.stage = "waiting"
  BY DEF Revert, RevertTask, TasksOK, TypeOK
<1>5. ResolveOK'
  BY <1>4, Parts DEF Revert, ResolveOK, ResolveIsAskedFor, NoRevert
<1>6. QED
  BY <1>2, <1>3, <1>5, PartsNext

\* The forced resolve of a revert begins or returns.
LEMMA ForceResolveFromFileTasksOK ==
    ASSUME TasksOK, ForceResolveFromFile
    PROVE  TasksOK'
<1>1. /\ fileEvent' \in BOOLEAN
      /\ inErrorMode' \in BOOLEAN
      /\ UNCHANGED <<undoStack, position, versionId, saveVars, disk, mishaps>>
  BY Parts DEF ForceResolveFromFile, SavesOK, FileOK, textVars, flagVars, fileVars
<1>2. TextOK' /\ SavesOK' /\ FileOK'
  BY <1>1, OthersFrame
<1>3. FlagsOK'
  BY Parts DEF ForceResolveFromFile, FlagsOK, flagVars
<1>4. /\ ResolveOK
      /\ revert \in RevertTask
      /\ resolving.by = "none"
      /\ reloads' = reloads
  BY Parts DEF ForceResolveFromFile, NoResolve, NoRevert, ResolveOK
<1>5. CASE MayResolve
  <2>1. resolving' \in ResolveTask /\ resolving'.by = "revert"
    BY <1>5, StartReadType DEF ForceResolveFromFile
  <2>2. revert' \in RevertTask /\ revert'.stage = "reading"
    BY <1>4, <1>5 DEF ForceResolveFromFile, RevertTask
  <2>3. ResolveOK'
    BY <1>4, <2>1, <2>2 DEF ResolveOK, ResolveIsAskedFor
  <2>4. QED
    BY <1>2, <1>3, <2>3, PartsNext
<1>6. CASE ~MayResolve
  <2>1. resolving' = resolving /\ revert' = NoRevert
    BY <1>6 DEF ForceResolveFromFile
  <2>2. ResolveOK'
    BY <1>4, <2>1 DEF ResolveOK, ResolveIsAskedFor, NoRevert
  <2>3. QED
    BY <1>2, <1>3, <2>2, PartsNext
<1>7. QED
  BY <1>5, <1>6

\* resolveFromContent() with a text
LEMMA ContentType ==
    ASSUME TasksOK, NEW mtime \in Nat, NEW text \in Int, ResolveFromContent(mtime, text)
    PROVE  /\ TextOK'
           /\ FlagsOK'
           /\ versionId' \in {versionId, versionId + 1}
           /\ inErrorMode' \in BOOLEAN
<1>1. /\ TextOK
      /\ AlternativeVersionId \in Nat
      /\ UpdateLastResolvedFileStat(mtime) \in Nat
  BY Parts, CurrentType, StatType DEF TasksOK, TypeOK
<1>2. CASE text = Text
  <2>1. TextOK' /\ versionId' = versionId
    BY <1>1, <1>2 DEF ResolveFromContent, TextOK
  <2>2. FlagsOK' /\ inErrorMode' \in BOOLEAN
    BY <1>1, <1>2 DEF ResolveFromContent, ClearDirty, FlagsOK
  <2>3. QED
    BY <2>1, <2>2
<1>3. CASE text /= Text
  <2>1. [alt |-> versionId + 1, text |-> text] \in [alt : Nat, text : Int]
    BY <1>1 DEF TextOK
  <2>2. /\ undoStack' \in Seq([alt : Nat, text : Int])
        /\ position' \in DOMAIN undoStack'
    <3> DEFINE top == [alt |-> versionId + 1, text |-> text]
    <3>1. /\ undoStack' = Append(SubSeq(undoStack, 1, position), top)
          /\ position' = position + 1
      BY <1>3 DEF ResolveFromContent
    <3> HIDE DEF top
    <3>2. QED
      BY <1>1, <2>1, <3>1, PushType DEF TextOK, top
  <2>3. versionId' = versionId + 1 /\ versionId + 1 \in Nat
    BY <1>1, <1>3 DEF ResolveFromContent, TextOK
  <2>4. TextOK'
    BY <2>2, <2>3 DEF TextOK
  <2>5. FlagsOK' /\ inErrorMode' \in BOOLEAN
    BY <1>1, <1>3, <2>3 DEF ResolveFromContent, ClearDirty, FlagsOK
  <2>6. QED
    BY <2>3, <2>4, <2>5
<1>4. QED
  BY <1>2, <1>3

\* A resolve that is over leaves what asked for it in order.
LEMMA ResolveOverOK ==
    ASSUME ResolveOK, resolving /= NoResolve, ResolveOver,
           revert' = IF resolving.by = "revert" THEN NoRevert ELSE revert
    PROVE  ResolveOK'
<1>1. /\ resolving' = NoResolve
      /\ resolving'.by = "none"
      /\ resolving.by \in {"reload", "revert"}
      /\ reloads' = IF resolving.by = "reload" THEN reloads - 1 ELSE reloads
  BY DEF ResolveOver, NoResolve, ResolveOK, ResolveTask
<1>2. reloads' \in 0..2
  BY <1>1 DEF ResolveOK, ResolveIsAskedFor
<1>3. revert'.stage /= "reading" /\ revert' \in RevertTask \cup {NoRevert}
  BY <1>1 DEF ResolveOK, ResolveIsAskedFor, NoRevert
<1>4. QED
  BY <1>1, <1>2, <1>3 DEF ResolveOK, ResolveIsAskedFor

\* The end of a read that has all it needs
LEMMA ResolveFromFileTasksOK ==
    ASSUME TasksOK, resolving /= NoResolve, NEW mtime \in Nat, NEW text \in Int,
           ResolveFromFile(mtime, text)
    PROVE  TasksOK'
<1>1. ResolveOK'
  BY Parts, ResolveOverOK DEF ResolveFromFile
<1>2. FileOK' /\ UNCHANGED saveVars
  BY Parts DEF ResolveFromFile, ResolveOver, FileOK, fileVars
<1>3. /\ TextOK'
      /\ FlagsOK'
      /\ versionId' \in {versionId, versionId + 1}
      /\ inErrorMode' \in BOOLEAN
  <2>1. CASE ChangedMeanwhile
    BY <2>1, Parts DEF ResolveFromFile, TextOK, FlagsOK, SavesOK, flagVars
  <2>2. CASE ~ChangedMeanwhile
    BY <2>2, ContentType DEF ResolveFromFile
  <2>3. QED
    BY <2>1, <2>2
<1>4. SavesOK'
  BY <1>2, <1>3, Parts, SavesFrame DEF TextOK
<1>5. QED
  BY <1>1, <1>2, <1>3, <1>4, PartsNext

\* A half of a read is done: the other one is still to come.
LEMMA HalfRead ==
    ASSUME TasksOK, resolving' \in ResolveTask, resolving'.by = resolving.by,
           UNCHANGED <<textVars, flagVars, lastResolvedMtime, saveVars, revert,
                       reloads, fileVars>>
    PROVE  TasksOK'
<1>1. TextOK' /\ SavesOK' /\ FileOK'
  BY Parts, OthersFrame DEF textVars, flagVars, fileVars, SavesOK, FileOK
<1>2. FlagsOK'
  BY Parts DEF FlagsOK, flagVars
<1>3. ResolveOK'
  BY Parts DEF ResolveOK, ResolveIsAskedFor
<1>4. QED
  BY <1>1, <1>2, <1>3, PartsNext

\* The stat of a read
LEMMA ReadStatTasksOK ==
    ASSUME TasksOK, ReadStat
    PROVE  TasksOK'
<1>0. /\ resolving /= NoResolve
      /\ resolving \in ResolveTask
      /\ disk.mtime \in Nat
      /\ resolving.text \in Int
  BY DEF ReadStat, TasksOK, TypeOK, ResolveTask
<1>1. CASE /\ resolving.by = "reload"
           /\ lastResolvedMtime' = UpdateLastResolvedFileStat(disk.mtime)
           /\ ResolveOver
           /\ UNCHANGED <<undoStack, position, versionId, flagVars, revert, history>>
  <2>1. ResolveOK'
    BY <1>0, <1>1, Parts, ResolveOverOK
  <2>2. FlagsOK' /\ inErrorMode' \in BOOLEAN
    BY <1>0, <1>1, Parts, StatType DEF FlagsOK, flagVars, SavesOK
  <2>3. fileEvent' \in BOOLEAN /\ UNCHANGED <<saveVars, disk, mishaps>>
    BY <1>1, Parts DEF ResolveOver, FileOK, fileVars
  <2>4. TextOK' /\ SavesOK' /\ FileOK'
    BY <1>1, <2>2, <2>3, OthersFrame
  <2>5. QED
    BY <2>1, <2>2, <2>4, PartsNext
<1>2. CASE /\ resolving' = [resolving EXCEPT !.stage = "stat", !.mtime = disk.mtime]
           /\ UNCHANGED <<textVars, flagVars, lastResolvedMtime, saveVars, revert,
                          reloads, fileVars>>
  <2>1. resolving' \in ResolveTask /\ resolving'.by = resolving.by
    BY <1>0, <1>2 DEF ResolveTask
  <2>2. QED
    BY <1>2, <2>1, HalfRead
<1>3. CASE ResolveFromFile(disk.mtime, resolving.text)
  BY <1>0, <1>3, ResolveFromFileTasksOK
<1>4. QED
  BY <1>1, <1>2, <1>3 DEF ReadStat

\* The content of a read
LEMMA ReadContentTasksOK ==
    ASSUME TasksOK, ReadContent
    PROVE  TasksOK'
<1>0. /\ resolving /= NoResolve
      /\ resolving \in ResolveTask
      /\ disk.mtime \in Nat
      /\ disk.text \in Int
      /\ resolving.mtime \in Nat
  BY DEF ReadContent, TasksOK, TypeOK, ResolveTask
<1>1. CASE /\ resolving' = [resolving EXCEPT !.stage = "content", !.text = disk.text,
                                             !.mtime = disk.mtime]
           /\ UNCHANGED <<textVars, flagVars, lastResolvedMtime, saveVars, revert,
                          reloads, fileVars>>
  <2>1. resolving' \in ResolveTask /\ resolving'.by = resolving.by
    BY <1>0, <1>1 DEF ResolveTask
  <2>2. QED
    BY <1>1, <2>1, HalfRead
<1>2. CASE ResolveFromFile(resolving.mtime, disk.text)
  BY <1>0, <1>2, ResolveFromFileTasksOK
<1>3. QED
  BY <1>1, <1>2 DEF ReadContent

\* A read that fails
LEMMA ReadFailsTasksOK ==
    ASSUME TasksOK, ReadFails
    PROVE  TasksOK'
<1>0. resolving \in ResolveTask /\ mishaps' \in Nat
  BY DEF ReadFails, TasksOK, TypeOK
<1>1. /\ UNCHANGED <<undoStack, position, versionId, lastResolvedMtime, saveVars, disk,
                     fileEvent>>
      /\ resolving' = NoResolve
      /\ resolving'.by = "none"
  BY DEF ReadFails, textVars, NoResolve
<1>2. TextOK' /\ FileOK'
  BY <1>0, <1>1, Parts DEF TextOK, FileOK
<1>3. CASE resolving.by = "revert"
  <2>1. revert \in RevertTask
    BY <1>3, Parts DEF ResolveOK, ResolveIsAskedFor, NoRevert
  <2>2. FlagsOK' /\ inErrorMode' \in BOOLEAN
    BY <1>1, <1>3, <2>1, Parts DEF ReadFails, FlagsOK, RevertTask
  <2>3. ResolveOK'
    BY <1>1, <1>3, Parts DEF ReadFails, ResolveOK, ResolveIsAskedFor, NoRevert
  <2>4. SavesOK'
    BY <1>1, <2>2, Parts, SavesFrame DEF TextOK
  <2>5. QED
    BY <1>2, <2>2, <2>3, <2>4, PartsNext
<1>4. CASE resolving.by /= "revert"
  <2>1. resolving.by = "reload"
    BY <1>0, <1>4 DEF ResolveTask
  <2>2. FlagsOK' /\ inErrorMode' \in BOOLEAN
    BY <1>1, <1>4, Parts DEF ReadFails, FlagsOK, SavesOK, flagVars
  <2>3. ResolveOK'
    BY <1>1, <1>4, <2>1, Parts DEF ReadFails, ResolveOK, ResolveIsAskedFor
  <2>4. SavesOK'
    BY <1>1, <2>2, Parts, SavesFrame DEF TextOK
  <2>5. QED
    BY <1>2, <2>2, <2>3, <2>4, PartsNext
<1>5. QED
  BY <1>3, <1>4

-----------------------------------------------------------------------------
\* Steps that change nothing
LEMMA StutterTasksOK ==
    ASSUME TasksOK, UNCHANGED vars
    PROVE  TasksOK'
<1>1. TextOK' /\ SavesOK' /\ FileOK' /\ FlagsOK'
  BY Parts, OthersFrame
  DEF vars, textVars, flagVars, fileVars, FlagsOK, SavesOK, FileOK
<1>2. ResolveOK'
  BY Parts DEF vars, resolveVars, ResolveOK, ResolveIsAskedFor
<1>3. QED
  BY <1>1, <1>2, PartsNext

\* Every step keeps the order of saves and resolves.
LEMMA NextTasksOK ==
    ASSUME TasksOK, [Next]_vars
    PROVE  TasksOK'
<1>1. CASE Edit
  BY <1>1, EditTasksOK
<1>2. CASE UndoOrRedo
  BY <1>2, UndoOrRedoTasksOK
<1>3. ASSUME NEW options \in SaveOptions, Save(options)
      PROVE  TasksOK'
  BY <1>3, SaveTasksOK
<1>4. CASE Revert
  BY <1>4, RevertTasksOK
<1>5. ASSUME NEW s \in saves, SaveStep(s)
      PROVE  TasksOK'
  BY <1>5, DelayEndsTasksOK, ParticipantsDoneTasksOK, ValidateWriteFileTasksOK,
     DoWriteTasksOK, WriteReturnsTasksOK DEF SaveStep
<1>6. ASSUME NEW s \in saves, StatFails(s) \/ WriteFails(s)
      PROVE  TasksOK'
  BY <1>6, StatFailsTasksOK, WriteFailsTasksOK
<1>7. CASE ResolveStep
  BY <1>7, OnDidFilesChangeTasksOK, ReloadTasksOK, ForceResolveFromFileTasksOK,
     ReadStatTasksOK, ReadContentTasksOK DEF ResolveStep
<1>8. CASE ReadFails
  BY <1>8, ReadFailsTasksOK
<1>9. CASE ExternalWrite
  BY <1>9, ExternalWriteTasksOK
<1>10. CASE UNCHANGED vars
  BY <1>10, StutterTasksOK
<1>11. QED
  BY <1>1, <1>2, <1>3, <1>4, <1>5, <1>6, <1>7, <1>8, <1>9, <1>10 DEF Next

-----------------------------------------------------------------------------
(* What was written and read.  First, the parts that a step does not touch *)

\* A save that is about to be written: the check is the next thing it does.
ToBeWritten(t, mtime) ==
    /\ t.phase = "validating"
    /\ t.version = versionId
    /\ t.text = Text
    /\ t.mtime = mtime

\* The saves in progress are old ones, have not come to write(), or have just
\* been given to it.
OnlyNewSaves(new, old, mtime) ==
    \A t \in new : \/ t \in old
                   \/ t.phase \in {"delayed", "participants"}
                   \/ ToBeWritten(t, mtime)

\* The states of the text are as they were.
LEMMA VersionsFrame ==
    ASSUME VersionsAreDistinct,
           UNCHANGED <<undoStack, versionId, bufferSavedVersionId>>,
           revert' = revert \/ revert' = NoRevert
    PROVE  VersionsAreDistinct'
  BY DEF VersionsAreDistinct

\* The saved version is as it was, and what is known of it may grow.
LEMMA SavedFrame ==
    ASSUME SavedVersionIsKnown, known \subseteq known',
           UNCHANGED <<undoStack, position, bufferSavedVersionId>>,
           dirty' = dirty \/ dirty' = TRUE,
           (revert' = revert /\ missed' = missed) \/ missed' = TRUE,
           \/ disk' = disk /\ unrecorded' = unrecorded
           \/ unrecorded' = TRUE
           \/ ~(disk'.text >= 0)
    PROVE  SavedVersionIsKnown'
<1>1. AlternativeVersionId' = AlternativeVersionId
  BY DEF AlternativeVersionId
<1>2. ~dirty' /\ ~missed' => AlternativeVersionId' = bufferSavedVersionId'
  BY <1>1 DEF SavedVersionIsKnown
<1>3. ASSUME revert' = NoRevert, ~missed', NEW p \in DOMAIN undoStack',
             undoStack'[p].alt = bufferSavedVersionId'
      PROVE  /\ undoStack'[p].text \in known'
             /\ ~unrecorded' /\ disk'.text >= 0 => undoStack'[p].text = disk'.text
  BY <1>3 DEF SavedVersionIsKnown
<1> QED
  BY <1>2, <1>3 DEF SavedVersionIsKnown

\* The file is as it was, and saves that begin have the current version.
LEMMA WritesFrame ==
    ASSUME WritesAreKnown, known \subseteq known',
           UNCHANGED <<undoStack, position, versionId, disk>>,
           NEW mtime, mtime <= disk.mtime, mtime = disk.mtime => disk.text \in known',
           OnlyNewSaves(saves', saves, mtime)
    PROVE  WritesAreKnown'
<1>1. Text' = Text
  BY DEF Text
<1>2. ASSUME NEW t \in saves', t.phase \in {"validating", "writing", "resolving"}
      PROVE  /\ t.version = versionId' => t.text = Text'
             /\ t.mtime <= disk'.mtime
             /\ t.phase = "validating" /\ t.mtime = disk'.mtime => disk'.text \in known'
             /\ t.phase = "writing" => disk'.text \in known' \/ t.options = "overwrite"
             /\ t.phase = "resolving" => /\ {t.text, disk'.text} \subseteq known'
                                         /\ disk'.text = t.text \/ disk'.text < 0
  <2>1. CASE t \in saves
    BY <1>1, <1>2, <2>1 DEF WritesAreKnown
  <2>2. CASE ToBeWritten(t, mtime)
    BY <1>1, <2>2 DEF ToBeWritten
  <2> QED
    BY <1>2, <2>1, <2>2 DEF OnlyNewSaves
<1> QED
  BY <1>2 DEF WritesAreKnown

\* The read under way is as it was.
LEMMA ReadsFrame ==
    ASSUME ReadsAreKnown, known \subseteq known',
           UNCHANGED <<undoStack, position, versionId, disk, resolving>>,
           missed => missed' \/ Text \in known'
    PROVE  ReadsAreKnown'
<1>1. Text' = Text
  BY DEF Text
<1> QED
  BY <1>1 DEF ReadsAreKnown

\* The last resolved stat is as it was.
LEMMA StatFrame ==
    ASSUME StatIsKnown, known \subseteq known', UNCHANGED <<lastResolvedMtime, disk>>
    PROVE  StatIsKnown'
  BY DEF StatIsKnown

-----------------------------------------------------------------------------
(* The saves doSave() and doneRunning() leave                              *)

\* A new save has not come to write(), or was just given to it.
LEMMA NewSaveIs ==
    ASSUME NEW options, NEW mtime, NEW s \in NewSave(options, mtime)
    PROVE  s.phase \in {"delayed", "participants"} \/ ToBeWritten(s, mtime)
<1> DEFINE new == [phase |-> "participants", taskId |-> versionId, version |-> 0,
                   text |-> 0, mtime |-> 0, options |-> options, cancelled |-> FALSE]
<1>1. s \in {new, [new EXCEPT !.phase = "delayed"], Writing(new, mtime)}
  BY DEF NewSave
<1>2. CASE s = new
  BY <1>2
<1>3. CASE s = [new EXCEPT !.phase = "delayed"]
  BY <1>3
<1>4. CASE s = Writing(new, mtime)
  BY <1>4 DEF Writing, ToBeWritten
<1> QED
  BY <1>1, <1>2, <1>3, <1>4

\* doSave() starts or cancels a save, and writes nothing itself.
LEMMA DoSaveSaves ==
    ASSUME NEW z \in SavingState, NEW options, NEW y \in DoSave(z, options)
    PROVE  OnlyNewSaves(y.saves, z.saves, z.mtime) /\ y.mtime = z.mtime
<1>1. CASE y = z
  BY <1>1 DEF OnlyNewSaves
<1>2. CASE y = [z EXCEPT !.saves = CancelRunning(z.saves), !.queued = options]
  <2>1. y.saves = CancelRunning(z.saves) /\ y.mtime = z.mtime
    BY <1>2 DEF SavingState
  <2>2. ASSUME NEW t \in CancelRunning(z.saves)
        PROVE  t \in z.saves \/ t.phase = "delayed"
    <3>1. PICK s \in z.saves :
             t = IF s.phase = "delayed" THEN [s EXCEPT !.cancelled = TRUE] ELSE s
      BY DEF CancelRunning
    <3>2. s \in SaveTask
      BY DEF SavingState
    <3> QED
      BY <3>1, <3>2 DEF SaveTask
  <2> QED
    BY <2>1, <2>2 DEF OnlyNewSaves
<1>3. CASE \E s \in NewSave(options, z.mtime) :
              y = [z EXCEPT !.running = versionId, !.saves = z.saves \cup {s},
                            !.inErrorMode = z.inErrorMode /\ s.phase /= "validating"]
  <2>1. PICK s \in NewSave(options, z.mtime) :
              y = [z EXCEPT !.running = versionId, !.saves = z.saves \cup {s},
                            !.inErrorMode = z.inErrorMode /\ s.phase /= "validating"]
    BY <1>3
  <2>2. y.saves = z.saves \cup {s} /\ y.mtime = z.mtime
    BY <2>1 DEF SavingState
  <2> QED
    BY <2>2, NewSaveIs DEF OnlyNewSaves
<1> QED
  BY <1>1, <1>2, <1>3 DEF DoSave

\* So does doneRunning(), which may run the queued save.
LEMMA DoneSaves ==
    ASSUME NEW z \in SavingState, NEW taskId, NEW y \in DoneRunning(z, taskId)
    PROVE  OnlyNewSaves(y.saves, z.saves, z.mtime) /\ y.mtime = z.mtime
<1> DEFINE free == [z EXCEPT !.running = NoTask, !.queued = "none"]
<1>1. free \in SavingState /\ free.saves = z.saves /\ free.mtime = z.mtime
  BY DEF SavingState
<1>2. y = z \/ y = free \/ y \in DoSave(free, z.queued)
  BY DEF DoneRunning
<1> HIDE DEF free
<1>3. CASE y = z \/ y = free
  BY <1>1, <1>3 DEF OnlyNewSaves
<1>4. CASE y \in DoSave(free, z.queued)
  BY <1>1, <1>4, DoSaveSaves
<1> QED
  BY <1>2, <1>3, <1>4

\* A save that ends leaves the one that was queued.
LEMMA SaveEndsSaves ==
    ASSUME TasksOK, NEW s \in saves, s.phase \notin {"delayed", "participants"},
           NEW isDirty \in BOOLEAN, NEW isError \in BOOLEAN, NEW mtime \in Nat,
           SaveEnds(s, isDirty, isError, mtime)
    PROVE  OnlyNewSaves(saves', {}, mtime)
<1>0. TypeOK /\ SavesOK /\ versionId \in Nat
  BY Parts DEF TasksOK, TypeOK
<1> DEFINE z == [running |-> running, queued |-> queued, saves |-> saves \ {s},
                 dirty |-> isDirty, inErrorMode |-> isError, mtime |-> mtime]
<1>1. /\ s \in SaveTask
      /\ saves \ {s} = {}
      /\ running \in Nat
      /\ running = s.version
  BY <1>0, TheSave
<1>2. /\ z \in SavingState
      /\ z.saves = {}
      /\ z.running = s.version
      /\ z.running /= NoTask
      /\ z.mtime = mtime
  BY <1>0, <1>1 DEF SavingState, SavesOK, NoTask
<1>3. PICK inner \in DoneRunning(z, s.version) :
         \E outer \in DoneRunning(inner, s.taskId) : Becomes(outer)
  BY DEF SaveEnds
<1> HIDE DEF z
<1>4. PICK outer \in DoneRunning(inner, s.taskId) : Becomes(outer)
  BY <1>3
<1>5. inner \in SavingState
  BY <1>0, <1>2, <1>3, DoneSaving DEF Saving
<1>6. OnlyNewSaves(inner.saves, {}, mtime) /\ inner.mtime = mtime
  BY <1>2, <1>3, DoneSaves
<1>7. OnlyNewSaves(outer.saves, inner.saves, mtime)
  BY <1>4, <1>5, <1>6, DoneSaves
<1>8. saves' = outer.saves
  BY <1>4 DEF Becomes
<1> QED
  BY <1>6, <1>7, <1>8 DEF OnlyNewSaves

-----------------------------------------------------------------------------
(* Every step keeps what is known of the file                              *)

KnownOK ==
    /\ VersionsAreDistinct
    /\ SavedVersionIsKnown
    /\ WritesAreKnown
    /\ ReadsAreKnown
    /\ StatIsKnown

\* The two parts of the invariant
LEMMA IInvParts == (IInv <=> TasksOK /\ KnownOK) /\ (IInv' <=> TasksOK' /\ KnownOK')
  BY DEF IInv, KnownOK

\* What is known of the file holds initially.
LEMMA InitKnown == Init => KnownOK
<1> SUFFICES ASSUME Init PROVE KnownOK
  OBVIOUS
<1>1. /\ DOMAIN undoStack = {1}
      /\ undoStack[1].alt = 0
      /\ undoStack[1].text = 0
      /\ Text = 0
      /\ AlternativeVersionId = 0
  BY DEF Init, Text, AlternativeVersionId
<1>2. VersionsAreDistinct
  BY <1>1 DEF Init, VersionsAreDistinct
<1>3. SavedVersionIsKnown
  BY <1>1 DEF Init, SavedVersionIsKnown
<1>4. WritesAreKnown /\ ReadsAreKnown /\ StatIsKnown
  BY DEF Init, WritesAreKnown, ReadsAreKnown, StatIsKnown
<1> QED
  BY <1>2, <1>3, <1>4 DEF KnownOK

\* The bottom of a stack
LEMMA BottomOf ==
    ASSUME NEW S, NEW q \in Seq(S), NEW n \in DOMAIN q
    PROVE  /\ SubSeq(q, 1, n) \in Seq(S)
           /\ Len(SubSeq(q, 1, n)) = n
           /\ \A p \in 1..n : SubSeq(q, 1, n)[p] = q[p]
  OBVIOUS

\* The states of the text below a new one on top
LEMMA PushIs ==
    ASSUME TextOK, NEW e, undoStack' = Append(SubSeq(undoStack, 1, position), e),
           position' = position + 1
    PROVE  /\ position \in Nat
           /\ DOMAIN undoStack' = 1..(position + 1)
           /\ undoStack'[position + 1] = e
           /\ \A p \in 1..position : p \in DOMAIN undoStack /\ undoStack'[p] = undoStack[p]
<1> DEFINE sub == SubSeq(undoStack, 1, position)
<1>1. /\ position \in Nat
      /\ Len(undoStack) \in Nat
      /\ DOMAIN undoStack = 1..Len(undoStack)
      /\ position <= Len(undoStack)
  BY DEF TextOK
<1>2. /\ sub \in Seq([alt : Nat, text : Int])
      /\ Len(sub) = position
      /\ \A p \in 1..position : sub[p] = undoStack[p]
  BY <1>1, BottomOf DEF TextOK
<1> HIDE DEF sub
<1>3. /\ Len(Append(sub, e)) = position + 1
      /\ DOMAIN Append(sub, e) = 1..(position + 1)
      /\ Append(sub, e)[position + 1] = e
      /\ \A p \in 1..position : Append(sub, e)[p] = sub[p]
  BY <1>1, <1>2
<1>4. undoStack' = Append(sub, e)
  BY DEF sub
<1> QED
  BY <1>1, <1>2, <1>3, <1>4

\* A new version on top is different from the others.
LEMMA PushDistinct ==
    ASSUME TextOK, VersionsAreDistinct, NEW e, e.alt = versionId + 1,
           undoStack' = Append(SubSeq(undoStack, 1, position), e),
           position' = position + 1, versionId' = versionId + 1
    PROVE  /\ \A p \in DOMAIN undoStack' : undoStack'[p].alt <= versionId'
           /\ \A p, r \in DOMAIN undoStack' :
                 undoStack'[p].alt = undoStack'[r].alt => p = r
<1>1. /\ position \in Nat
      /\ versionId \in Nat
      /\ DOMAIN undoStack' = 1..(position + 1)
      /\ undoStack'[position + 1] = e
      /\ \A p \in 1..position : p \in DOMAIN undoStack /\ undoStack'[p] = undoStack[p]
  BY PushIs DEF TextOK
<1>2. \A p \in 1..(position + 1) : p \in 1..position \/ p = position + 1
  BY <1>1
<1>3. \A p \in 1..position : undoStack[p].alt \in Nat /\ undoStack[p].alt <= versionId
  <2>1. \A p \in DOMAIN undoStack : undoStack[p] \in [alt : Nat, text : Int]
    BY ElementOf DEF TextOK
  <2> QED
    BY <1>1, <2>1 DEF VersionsAreDistinct
<1>4. \A p \in DOMAIN undoStack' : undoStack'[p].alt <= versionId'
  BY <1>1, <1>2, <1>3
<1>5. ASSUME NEW p \in DOMAIN undoStack', NEW r \in DOMAIN undoStack',
             undoStack'[p].alt = undoStack'[r].alt
      PROVE  p = r
  <2>1. CASE p \in 1..position /\ r \in 1..position
    BY <1>1, <1>5, <2>1 DEF VersionsAreDistinct
  <2>2. CASE p = position + 1 /\ r = position + 1
    BY <2>2
  <2>3. CASE p \in 1..position /\ r = position + 1
    <3>1. undoStack'[p].alt <= versionId /\ undoStack'[p].alt \in Nat
      BY <1>1, <1>3, <2>3
    <3>2. undoStack'[r].alt = versionId + 1
      BY <1>1, <2>3
    <3> QED
      BY <1>1, <1>5, <3>1, <3>2
  <2>4. CASE p = position + 1 /\ r \in 1..position
    <3>1. undoStack'[r].alt <= versionId /\ undoStack'[r].alt \in Nat
      BY <1>1, <1>3, <2>4
    <3>2. undoStack'[p].alt = versionId + 1
      BY <1>1, <2>4
    <3> QED
      BY <1>1, <1>5, <3>1, <3>2
  <2> QED
    BY <1>1, <1>2, <2>1, <2>2, <2>3, <2>4
<1> QED
  BY <1>4, <1>5

\* A new version of the text is another one than the version a save or a read
\* has, so that these cannot take it for theirs.
LEMMA TextMoves ==
    ASSUME TasksOK, KnownOK, versionId' = versionId + 1,
           UNCHANGED <<lastResolvedMtime, saves, resolving, disk, known>>
    PROVE  WritesAreKnown' /\ ReadsAreKnown' /\ StatIsKnown'
<1>0. SavesOK /\ versionId \in Nat
  BY Parts DEF TextOK
<1>1. ASSUME NEW s \in saves, s.phase \in {"validating", "writing", "resolving"}
      PROVE  s.version /= versionId'
  <2>1. running = s.version /\ running \in Nat /\ running <= versionId
    BY <1>0, <1>1, TheSave
  <2> QED
    BY <1>0, <2>1
<1>2. WritesAreKnown'
  BY <1>1 DEF KnownOK, WritesAreKnown
<1>3. resolving /= NoResolve => resolving.version \in Nat /\ resolving.version <= versionId
  BY Parts DEF KnownOK, ReadsAreKnown, ResolveOK, ResolveTask
<1>4. resolving /= NoResolve => resolving.version <= versionId' /\ resolving.version /= versionId'
  BY <1>0, <1>3
<1>5. ReadsAreKnown'
  BY <1>4 DEF KnownOK, ReadsAreKnown
<1>6. StatIsKnown'
  BY StatFrame DEF KnownOK
<1> QED
  BY <1>2, <1>5, <1>6

\* An edit makes a version that is not the saved one.
LEMMA EditKnown ==
    ASSUME TasksOK, KnownOK, Edit
    PROVE  KnownOK'
<1> DEFINE top == [alt |-> versionId + 1, text |-> versionId + 1]
<1>0. /\ TextOK
      /\ versionId \in Nat
      /\ bufferSavedVersionId \in Nat
      /\ bufferSavedVersionId <= versionId
      /\ versionId + 1 /= bufferSavedVersionId
  <2>1. TextOK /\ versionId \in Nat /\ bufferSavedVersionId \in Nat
    BY Parts DEF TextOK, FlagsOK
  <2>2. bufferSavedVersionId <= versionId
    BY DEF KnownOK, VersionsAreDistinct
  <2> QED
    BY <2>1, <2>2
<1>1. /\ undoStack' = Append(SubSeq(undoStack, 1, position), top)
      /\ position' = position + 1
      /\ versionId' = versionId + 1
      /\ dirty' = TRUE
      /\ UNCHANGED <<bufferSavedVersionId, lastResolvedMtime, saves, revert, resolving,
                     disk, unrecorded, missed, known>>
  BY <1>0 DEF Edit, OnModelContentChanged, saveVars, resolveVars, fileVars, history
<1>2. top.alt = versionId + 1
  OBVIOUS
<1> HIDE DEF top
<1>3. WritesAreKnown' /\ ReadsAreKnown' /\ StatIsKnown'
  BY <1>1, TextMoves
<1>4. VersionsAreDistinct'
  <2>1. revert /= NoRevert => revert.saved \in Nat /\ revert.saved <= versionId
    BY Parts DEF ResolveOK, RevertTask, KnownOK, VersionsAreDistinct
  <2>2. revert' /= NoRevert => revert'.saved <= versionId'
    BY <1>0, <1>1, <2>1
  <2>3. bufferSavedVersionId' <= versionId'
    BY <1>0, <1>1
  <2>4. /\ \A p \in DOMAIN undoStack' : undoStack'[p].alt <= versionId'
        /\ \A p, r \in DOMAIN undoStack' :
              undoStack'[p].alt = undoStack'[r].alt => p = r
    BY <1>0, <1>1, <1>2, PushDistinct DEF KnownOK
  <2> QED
    BY <2>2, <2>3, <2>4 DEF VersionsAreDistinct
<1>5. SavedVersionIsKnown'
  <2>1. /\ position \in Nat
        /\ DOMAIN undoStack' = 1..(position + 1)
        /\ undoStack'[position + 1] = top
        /\ \A p \in 1..position : p \in DOMAIN undoStack /\ undoStack'[p] = undoStack[p]
    BY <1>0, <1>1, PushIs
  <2>2. ASSUME NEW p \in DOMAIN undoStack',
               undoStack'[p].alt = bufferSavedVersionId'
        PROVE  p \in DOMAIN undoStack /\ undoStack'[p] = undoStack[p]
    <3>1. p /= position + 1
      BY <1>0, <1>1, <1>2, <2>1, <2>2
    <3>2. p \in 1..position
      BY <2>1, <3>1
    <3> QED
      BY <2>1, <3>2
  <2> QED
    BY <1>1, <2>2 DEF KnownOK, SavedVersionIsKnown
<1> QED
  BY <1>3, <1>4, <1>5 DEF KnownOK

\* Undo and redo clear the dirty flag only at the saved version.
LEMMA UndoOrRedoKnown ==
    ASSUME TasksOK, KnownOK, UndoOrRedo
    PROVE  KnownOK'
<1>0. TextOK /\ versionId \in Nat /\ bufferSavedVersionId \in Nat
  BY Parts DEF TextOK, FlagsOK
<1>1. PICK p \in DOMAIN undoStack :
         position' = p /\ OnModelContentChanged(undoStack[p].alt)
  BY DEF UndoOrRedo
<1>2. /\ undoStack' = undoStack
      /\ versionId' = versionId + 1
      /\ bufferSavedVersionId' = bufferSavedVersionId
      /\ ~dirty' => undoStack[p].alt = bufferSavedVersionId
      /\ UNCHANGED <<lastResolvedMtime, saves, revert, resolving, disk, unrecorded,
                     missed, known>>
  BY <1>1
  DEF UndoOrRedo, OnModelContentChanged, ClearDirty, saveVars, resolveVars, fileVars,
      history
<1>3. WritesAreKnown' /\ ReadsAreKnown' /\ StatIsKnown'
  BY <1>2, TextMoves
<1>4. VersionsAreDistinct'
  <2>1. revert /= NoRevert => revert.saved \in Nat /\ revert.saved <= versionId
    BY Parts DEF ResolveOK, RevertTask, KnownOK, VersionsAreDistinct
  <2>2. revert' /= NoRevert => revert'.saved <= versionId'
    BY <1>0, <1>2, <2>1
  <2>3. bufferSavedVersionId' <= versionId'
    BY <1>0, <1>2 DEF KnownOK, VersionsAreDistinct
  <2>4. \A r \in DOMAIN undoStack : undoStack[r] \in [alt : Nat, text : Int]
    BY <1>0, ElementOf DEF TextOK
  <2>5. \A r \in DOMAIN undoStack : undoStack[r].alt \in Nat /\ undoStack[r].alt <= versionId
    BY <2>4 DEF KnownOK, VersionsAreDistinct
  <2>6. \A r \in DOMAIN undoStack' : undoStack'[r].alt <= versionId'
    BY <1>0, <1>2, <2>5
  <2> QED
    BY <1>2, <2>2, <2>3, <2>6 DEF KnownOK, VersionsAreDistinct
<1>5. SavedVersionIsKnown'
  <2>1. AlternativeVersionId' = undoStack[p].alt
    BY <1>1, <1>2 DEF AlternativeVersionId
  <2> QED
    BY <1>2, <2>1 DEF KnownOK, SavedVersionIsKnown
<1> QED
  BY <1>3, <1>4, <1>5 DEF KnownOK

-----------------------------------------------------------------------------
(* Saves                                                                   *)

\* The time of the last resolve is one a save may be checked with.
LEMMA LastResolvedIsKnown ==
    ASSUME KnownOK
    PROVE  /\ lastResolvedMtime <= disk.mtime
           /\ lastResolvedMtime = disk.mtime => disk.text \in known
  BY DEF KnownOK, StatIsKnown

\* Steps that only concern the saves
LEMMA OnlySavesKnown ==
    ASSUME KnownOK, OnlyNewSaves(saves', saves, lastResolvedMtime),
           UNCHANGED <<undoStack, position, versionId, bufferSavedVersionId,
                       lastResolvedMtime, revert, resolving, disk, unrecorded, missed,
                       known>>,
           dirty' = dirty \/ dirty' = TRUE
    PROVE  KnownOK'
<1>1. VersionsAreDistinct' /\ SavedVersionIsKnown'
  BY VersionsFrame, SavedFrame DEF KnownOK
<1>2. WritesAreKnown'
  BY WritesFrame, LastResolvedIsKnown DEF KnownOK
<1>3. ReadsAreKnown' /\ StatIsKnown'
  BY ReadsFrame, StatFrame DEF KnownOK
<1> QED
  BY <1>1, <1>2, <1>3 DEF KnownOK

\* A call of save()
LEMMA SaveKnown ==
    ASSUME TasksOK, KnownOK, NEW options \in SaveOptions, Save(options)
    PROVE  KnownOK'
<1>1. PICK z \in DoSave(Now, options) : Becomes(z)
  BY DEF Save
<1>2. Now \in SavingState /\ Now.saves = saves /\ Now.mtime = lastResolvedMtime
  BY NowSaving DEF Saving, Now
<1>3. OnlyNewSaves(saves', saves, lastResolvedMtime)
  BY <1>1, <1>2, DoSaveSaves DEF Becomes
<1> QED
  BY <1>3, OnlySavesKnown DEF Save, textVars, resolveVars, fileVars, history

\* The delay of an auto save ends, or a cancelled one makes room for the queued one.
LEMMA DelayEndsKnown ==
    ASSUME TasksOK, KnownOK, NEW s \in saves, DelayEnds(s)
    PROVE  KnownOK'
<1>2. Now \in SavingState /\ Now.saves = saves /\ Now.mtime = lastResolvedMtime
  BY NowSaving DEF Saving, Now
<1>3. OnlyNewSaves(saves', saves, lastResolvedMtime)
  <2>1. CASE s.cancelled
    <3> DEFINE z == [Now EXCEPT !.saves = @ \ {s}]
    <3>1. PICK y \in DoneRunning(z, s.taskId) : Becomes(y)
      BY <2>1 DEF DelayEnds
    <3>2. z \in SavingState /\ z.saves = saves \ {s} /\ z.mtime = lastResolvedMtime
      BY <1>2 DEF SavingState
    <3> HIDE DEF z
    <3>3. OnlyNewSaves(y.saves, saves \ {s}, lastResolvedMtime)
      BY <3>1, <3>2, DoneSaves
    <3> QED
      BY <3>1, <3>3 DEF OnlyNewSaves, Becomes
  <2>2. CASE ~s.cancelled
    <3> DEFINE t == [s EXCEPT !.phase = "participants"]
    <3>1. saves' = (saves \ {s}) \cup {t}
      BY <2>2, <1>2 DEF DelayEnds, Becomes, Now
    <3>2. t.phase = "participants"
      BY Parts DEF SavesOK, SaveTask
    <3> QED
      BY <3>1, <3>2 DEF OnlyNewSaves
  <2> QED
    BY <2>1, <2>2
<1> QED
  BY <1>3, OnlySavesKnown DEF DelayEnds, textVars, resolveVars, fileVars, history

\* The save participants are done: the save has the current version and stat.
LEMMA ParticipantsDoneKnown ==
    ASSUME TasksOK, KnownOK, NEW s \in saves, ParticipantsDone(s)
    PROVE  KnownOK'
<1> DEFINE t == Writing(s, lastResolvedMtime)
<1>1. ToBeWritten(t, lastResolvedMtime)
  BY Parts DEF SavesOK, SaveTask, Writing, ToBeWritten
<1>2. saves' = (saves \ {s}) \cup {t}
  BY DEF ParticipantsDone
<1>3. OnlyNewSaves(saves', saves, lastResolvedMtime)
  BY <1>1, <1>2 DEF OnlyNewSaves
<1> QED
  BY <1>3, OnlySavesKnown DEF ParticipantsDone, textVars, resolveVars, fileVars, history

\* The check of a write passes only if the file is known, or need not be.
LEMMA ValidateWriteFileKnown ==
    ASSUME TasksOK, KnownOK, NEW s \in saves, ValidateWriteFile(s)
    PROVE  KnownOK'
<1>0. /\ s \in SaveTask
      /\ s.phase = "validating"
      /\ s.mtime \in Nat
      /\ disk.mtime \in Nat
      /\ lastResolvedMtime \in Nat
      /\ SavesOK
      /\ versionId \in Nat
  BY Parts DEF ValidateWriteFile, SavesOK, FileOK, SaveTask, FlagsOK, TextOK
<1>1. CASE HandleSaveError(s, TRUE)
  <2>1. OnlyNewSaves(saves', {}, lastResolvedMtime)
    BY <1>0, <1>1, SaveEndsSaves DEF HandleSaveError
  <2>2. OnlyNewSaves(saves', saves, lastResolvedMtime)
    BY <2>1 DEF OnlyNewSaves
  <2> QED
    BY <1>1, <2>2, OnlySavesKnown
    DEF ValidateWriteFile, HandleSaveError, textVars, resolveVars, fileVars
<1>2. CASE ~ModifiedSince(s)
  <2> DEFINE t == [s EXCEPT !.phase = "writing"]
  <2>1. /\ UNCHANGED <<undoStack, position, versionId, bufferSavedVersionId, dirty,
                       lastResolvedMtime, revert, resolving, disk, unrecorded, missed,
                       known>>
        /\ saves' = (saves \ {s}) \cup {t}
    BY <1>2
    DEF ValidateWriteFile, textVars, flagVars, resolveVars, fileVars
  <2>2. saves' = {t}
    BY <1>0, <2>1, TheSave
  <2>3. /\ t.phase = "writing"
        /\ t.version = s.version
        /\ t.text = s.text
        /\ t.mtime = s.mtime
        /\ t.options = s.options
    BY <1>0 DEF SaveTask
  <2> HIDE DEF t
  <2>4. disk.text \in known \/ s.options = "overwrite"
    <3>1. s.mtime <= disk.mtime /\ (s.mtime = disk.mtime => disk.text \in known)
      BY <1>0 DEF KnownOK, WritesAreKnown
    <3>2. s.options = "overwrite" \/ ~(s.mtime < disk.mtime)
      BY <1>2 DEF ModifiedSince
    <3> QED
      BY <1>0, <3>1, <3>2
  <2>5. Text' = Text
    BY <2>1 DEF Text
  <2>6. WritesAreKnown'
    BY <1>0, <2>1, <2>2, <2>3, <2>4, <2>5 DEF KnownOK, WritesAreKnown
  <2>7. VersionsAreDistinct' /\ SavedVersionIsKnown'
    BY <2>1, VersionsFrame, SavedFrame DEF KnownOK
  <2>8. ReadsAreKnown' /\ StatIsKnown'
    BY <2>1, ReadsFrame, StatFrame DEF KnownOK
  <2> QED
    BY <2>6, <2>7, <2>8 DEF KnownOK
<1> QED
  BY <1>1, <1>2 DEF ValidateWriteFile

\* The check is left out: nobody could notice the text that is in the file.
LEMMA StatFailsKnown ==
    ASSUME TasksOK, KnownOK, NEW s \in saves, StatFails(s)
    PROVE  KnownOK'
<1>0. s \in SaveTask /\ SavesOK /\ versionId \in Nat
  BY Parts DEF SavesOK, TextOK
<1> DEFINE t == [s EXCEPT !.phase = "writing"]
<1>1. /\ UNCHANGED <<undoStack, position, versionId, bufferSavedVersionId, dirty,
                     lastResolvedMtime, revert, resolving, disk, unrecorded, missed>>
      /\ known' = known \cup {disk.text}
      /\ saves' = (saves \ {s}) \cup {t}
  BY DEF StatFails, textVars, flagVars, resolveVars
<1>2. saves' = {t}
  BY <1>0, <1>1, TheSave
<1>3. /\ t.phase = "writing"
      /\ t.version = s.version
      /\ t.text = s.text
      /\ t.mtime = s.mtime
  BY <1>0 DEF SaveTask
<1> HIDE DEF t
<1>4. Text' = Text
  BY <1>1 DEF Text
<1>5. s.phase = "validating"
  BY DEF StatFails
<1>6. WritesAreKnown'
  BY <1>1, <1>2, <1>3, <1>4, <1>5 DEF KnownOK, WritesAreKnown
<1>7. VersionsAreDistinct' /\ SavedVersionIsKnown'
  BY <1>1, VersionsFrame, SavedFrame DEF KnownOK
<1>8. ReadsAreKnown' /\ StatIsKnown'
  BY <1>1, ReadsFrame, StatFrame DEF KnownOK
<1> QED
  BY <1>6, <1>7, <1>8 DEF KnownOK

\* The file is written: no time that was seen before is its time now.
LEMMA FileMoves ==
    ASSUME TasksOK, KnownOK, disk'.mtime = disk.mtime + 1, known \subseteq known',
           UNCHANGED <<undoStack, position, versionId, lastResolvedMtime, resolving,
                       missed>>,
           resolving /= NoResolve /\ resolving.stage = "content" => disk'.text \in known'
    PROVE  ReadsAreKnown' /\ StatIsKnown'
<1>1. disk.mtime \in Nat /\ lastResolvedMtime \in Nat
  BY Parts DEF FileOK, FlagsOK
<1>2. StatIsKnown'
  <2>1. lastResolvedMtime <= disk.mtime
    BY DEF KnownOK, StatIsKnown
  <2> QED
    BY <1>1, <2>1 DEF StatIsKnown
<1>3. Text' = Text
  BY DEF Text
<1>4. resolving \in ResolveTask \cup {NoResolve}
  BY Parts DEF ResolveOK
<1>5. resolving /= NoResolve => /\ resolving.etag <= disk'.mtime
                                /\ resolving.etag /= disk'.mtime
  <2>1. resolving /= NoResolve => resolving.etag \in Nat /\ resolving.etag <= disk.mtime
    BY <1>4 DEF ResolveTask, KnownOK, ReadsAreKnown
  <2> QED
    BY <1>1, <2>1
<1>6. resolving /= NoResolve /\ resolving.stage /= "start" =>
         /\ resolving.mtime <= disk'.mtime
         /\ resolving.mtime /= disk'.mtime
  <2>1. resolving /= NoResolve /\ resolving.stage /= "start" =>
           resolving.mtime \in Nat /\ resolving.mtime <= disk.mtime
    BY <1>4 DEF ResolveTask, KnownOK, ReadsAreKnown
  <2> QED
    BY <1>1, <2>1
<1>7. ReadsAreKnown'
  BY <1>3, <1>5, <1>6 DEF KnownOK, ReadsAreKnown
<1> QED
  BY <1>2, <1>7

\* The write: the file holds the text of the save.
LEMMA DoWriteKnown ==
    ASSUME TasksOK, KnownOK, NEW s \in saves, DoWrite(s)
    PROVE  KnownOK'
<1>0. s \in SaveTask /\ SavesOK /\ versionId \in Nat /\ disk.mtime \in Nat /\ s.mtime \in Nat
  BY Parts DEF SavesOK, TextOK, FileOK, SaveTask
<1> DEFINE t == [s EXCEPT !.phase = "resolving"]
<1>1. /\ UNCHANGED <<undoStack, position, versionId, bufferSavedVersionId, dirty,
                     lastResolvedMtime, revert, resolving, missed>>
      /\ known' = known \cup {s.text}
      /\ unrecorded' = TRUE
      /\ disk'.text = s.text
      /\ disk'.mtime = disk.mtime + 1
      /\ saves' = (saves \ {s}) \cup {t}
  BY DEF DoWrite, textVars, flagVars, resolveVars
<1>2. saves' = {t}
  BY <1>0, <1>1, TheSave
<1>3. /\ t.phase = "resolving"
      /\ t.version = s.version
      /\ t.text = s.text
      /\ t.mtime = s.mtime
  BY <1>0 DEF SaveTask
<1> HIDE DEF t
<1>4. Text' = Text
  BY <1>1 DEF Text
<1>5. s.phase = "writing"
  BY DEF DoWrite
<1>6. WritesAreKnown'
  <2>1. s.mtime <= disk.mtime /\ (s.version = versionId => s.text = Text)
    BY <1>5 DEF KnownOK, WritesAreKnown
  <2>2. s.mtime <= disk'.mtime
    BY <1>0, <1>1, <2>1
  <2> QED
    BY <1>1, <1>2, <1>3, <1>4, <2>1, <2>2 DEF WritesAreKnown
<1>7. VersionsAreDistinct' /\ SavedVersionIsKnown'
  BY <1>1, VersionsFrame, SavedFrame DEF KnownOK
<1>8. ReadsAreKnown' /\ StatIsKnown'
  BY <1>1, FileMoves
<1> QED
  BY <1>6, <1>7, <1>8 DEF KnownOK

\* What a foreign write leaves
LEMMA ForeignFacts ==
    ASSUME TasksOK, ForeignWrite
    PROVE  /\ disk'.mtime = disk.mtime + 1
           /\ disk'.text < 0
           /\ ~(disk'.text >= 0)
           /\ known \subseteq known'
           /\ resolving /= NoResolve /\ resolving.stage = "content" => disk'.text \in known'
           /\ (\E s \in saves' : s.phase \in {"writing", "resolving"}) => disk'.text \in known'
<1>1. mishaps \in Nat
  BY Parts DEF FileOK
<1>2. ForeignText \in Int /\ ForeignText < 0 /\ ~(ForeignText >= 0)
  BY <1>1 DEF ForeignText
<1>3. disk'.text = ForeignText /\ disk'.mtime = disk.mtime + 1
  BY DEF ForeignWrite
<1> QED
  BY <1>2, <1>3 DEF ForeignWrite

\* A write of another program
LEMMA ExternalWriteKnown ==
    ASSUME TasksOK, KnownOK, ExternalWrite
    PROVE  KnownOK'
<1>1. UNCHANGED <<undoStack, position, versionId, bufferSavedVersionId, dirty, saves,
                  lastResolvedMtime, revert, resolving, unrecorded, missed>>
  BY DEF ExternalWrite, textVars, flagVars, resolveVars, saveVars
<1>2. ForeignWrite
  BY DEF ExternalWrite
<1>3. WritesAreKnown'
  <2>1. Text' = Text
    BY <1>1 DEF Text
  <2>2. disk.mtime \in Nat /\ \A s \in saves : s.mtime \in Nat
    BY Parts DEF FileOK, SavesOK, SaveTask
  <2>3. ASSUME NEW s \in saves, s.phase \in {"validating", "writing", "resolving"}
        PROVE  s.mtime <= disk'.mtime /\ s.mtime /= disk'.mtime
    <3>1. s.mtime <= disk.mtime
      BY <2>3 DEF KnownOK, WritesAreKnown
    <3> QED
      BY <1>2, <2>2, <3>1, ForeignFacts
  <2> QED
    BY <1>1, <1>2, <2>1, <2>3, ForeignFacts DEF KnownOK, WritesAreKnown
<1>4. VersionsAreDistinct' /\ SavedVersionIsKnown'
  BY <1>1, <1>2, ForeignFacts, VersionsFrame, SavedFrame DEF KnownOK
<1>5. ReadsAreKnown' /\ StatIsKnown'
  BY <1>1, <1>2, ForeignFacts, FileMoves
<1> QED
  BY <1>3, <1>4, <1>5 DEF KnownOK

\* A file operation of a save fails, the file spoilt or not.
LEMMA WriteFailsKnown ==
    ASSUME TasksOK, KnownOK, NEW s \in saves, WriteFails(s)
    PROVE  KnownOK'
<1>0. disk.mtime \in Nat /\ lastResolvedMtime \in Nat
  BY Parts DEF FileOK, FlagsOK
<1>1. /\ UNCHANGED <<undoStack, position, versionId, bufferSavedVersionId,
                     lastResolvedMtime, revert, resolving, unrecorded, missed>>
      /\ dirty' = TRUE
  BY DEF WriteFails, HandleSaveError, textVars, resolveVars
<1>2. OnlyNewSaves(saves', {}, lastResolvedMtime)
  BY <1>0, SaveEndsSaves DEF WriteFails, HandleSaveError
<1>3. CASE UNCHANGED <<disk, fileEvent, known>>
  <2>1. OnlyNewSaves(saves', saves, lastResolvedMtime)
    BY <1>2 DEF OnlyNewSaves
  <2> QED
    BY <1>1, <1>3, <2>1, OnlySavesKnown
<1>4. CASE ForeignWrite
  <2>1. WritesAreKnown'
    <3>1. Text' = Text
      BY <1>1 DEF Text
    <3>2. lastResolvedMtime <= disk'.mtime /\ lastResolvedMtime /= disk'.mtime
      BY <1>0, <1>4, ForeignFacts, LastResolvedIsKnown
    <3>3. \A t \in saves' : t.phase \in {"validating", "writing", "resolving"} =>
             ToBeWritten(t, lastResolvedMtime)
      BY <1>2 DEF OnlyNewSaves
    <3> QED
      BY <1>1, <3>1, <3>2, <3>3 DEF WritesAreKnown, ToBeWritten
  <2>2. VersionsAreDistinct' /\ SavedVersionIsKnown'
    BY <1>1, <1>4, ForeignFacts, VersionsFrame, SavedFrame DEF KnownOK
  <2>3. ReadsAreKnown' /\ StatIsKnown'
    BY <1>1, <1>4, ForeignFacts, FileMoves
  <2> QED
    BY <2>1, <2>2, <2>3 DEF KnownOK
<1> QED
  BY <1>3, <1>4 DEF WriteFails

\* A save that is recorded has the text of the current version.
LEMMA WriteReturnsKnown ==
    ASSUME TasksOK, KnownOK, NEW s \in saves, WriteReturns(s)
    PROVE  KnownOK'
<1>0. /\ s \in SaveTask
      /\ s.phase = "resolving"
      /\ SavesOK /\ TextOK
      /\ disk.mtime \in Nat
      /\ lastResolvedMtime \in Nat
      /\ dirty \in BOOLEAN /\ inErrorMode \in BOOLEAN
  BY Parts DEF WriteReturns, SavesOK, TextOK, FileOK, FlagsOK
<1>1. /\ {s.text, disk.text} \subseteq known
      /\ disk.text = s.text \/ disk.text < 0
      /\ s.version = versionId => s.text = Text
  BY <1>0 DEF KnownOK, WritesAreKnown
<1>2. UpdateLastResolvedFileStat(disk.mtime) = disk.mtime
  BY <1>0, LastResolvedIsKnown DEF UpdateLastResolvedFileStat
<1>3. /\ UNCHANGED <<undoStack, position, versionId, revert, resolving, disk, known>>
      /\ lastResolvedMtime' = disk.mtime
      /\ unrecorded' = ~IsCurrent(s)
  BY <1>2 DEF WriteReturns, HandleSaveSuccess, textVars, resolveVars, fileVars
<1>4. OnlyNewSaves(saves', saves, disk.mtime)
  <2>1. \E d, e \in BOOLEAN : SaveEnds(s, d, e, disk.mtime)
    BY <1>0, <1>2 DEF WriteReturns, HandleSaveSuccess
  <2>2. OnlyNewSaves(saves', {}, disk.mtime)
    BY <1>0, <2>1, SaveEndsSaves
  <2> QED
    BY <2>2 DEF OnlyNewSaves
<1>5. WritesAreKnown'
  BY <1>0, <1>1, <1>3, <1>4, WritesFrame DEF KnownOK
<1>6. StatIsKnown'
  BY <1>0, <1>1, <1>3 DEF StatIsKnown
<1>7. CASE IsCurrent(s)
  <2>1. /\ dirty' = FALSE
        /\ bufferSavedVersionId' = AlternativeVersionId
        /\ missed' = FALSE
        /\ s.text = Text
    BY <1>1, <1>7 DEF WriteReturns, HandleSaveSuccess, IsCurrent
  <2>2. ReadsAreKnown'
    BY <1>1, <1>3, <2>1, ReadsFrame DEF KnownOK
  <2>3. VersionsAreDistinct'
    <3>1. AlternativeVersionId <= versionId
      BY <1>0 DEF AlternativeVersionId, KnownOK, VersionsAreDistinct, TextOK
    <3> QED
      BY <1>3, <2>1, <3>1 DEF KnownOK, VersionsAreDistinct
  <2>4. SavedVersionIsKnown'
    <3>1. AlternativeVersionId' = AlternativeVersionId
      BY <1>3 DEF AlternativeVersionId
    <3>2. ASSUME NEW p \in DOMAIN undoStack', undoStack'[p].alt = bufferSavedVersionId'
          PROVE  undoStack'[p].text = Text
      <4>1. p = position
        BY <1>0, <1>3, <2>1, <3>2 DEF AlternativeVersionId, KnownOK, VersionsAreDistinct, TextOK
      <4> QED
        BY <1>3, <4>1 DEF Text
    <3>3. disk.text \in Int
      BY Parts DEF FileOK
    <3>4. disk.text >= 0 => s.text = disk.text
      BY <1>1, <3>3
    <3> QED
      BY <1>1, <1>3, <2>1, <3>1, <3>2, <3>4 DEF SavedVersionIsKnown
  <2> QED
    BY <1>5, <1>6, <2>2, <2>3, <2>4 DEF KnownOK
<1>8. CASE ~IsCurrent(s)
  <2>1. UNCHANGED <<dirty, bufferSavedVersionId, missed>> /\ unrecorded' = TRUE
    BY <1>3, <1>8 DEF WriteReturns, HandleSaveSuccess
  <2>2. VersionsAreDistinct' /\ SavedVersionIsKnown'
    BY <1>3, <2>1, VersionsFrame, SavedFrame DEF KnownOK
  <2>3. ReadsAreKnown'
    BY <1>3, <2>1, ReadsFrame DEF KnownOK
  <2> QED
    BY <1>5, <1>6, <2>2, <2>3 DEF KnownOK
<1> QED
  BY <1>7, <1>8

-----------------------------------------------------------------------------
(* Reloads and reverts                                                     *)

\* Steps that only concern what the manager and a revert wait for
LEMMA OnlyResolveKnown ==
    ASSUME KnownOK, ReadsAreKnown',
           UNCHANGED <<undoStack, position, versionId, bufferSavedVersionId, dirty, saves,
                       lastResolvedMtime, disk, unrecorded, known>>,
           revert' = revert \/ revert' = NoRevert,
           (revert' = revert /\ missed' = missed) \/ missed' = TRUE
    PROVE  KnownOK'
<1>1. VersionsAreDistinct' /\ SavedVersionIsKnown'
  BY VersionsFrame, SavedFrame DEF KnownOK
<1>2. OnlyNewSaves(saves', saves, lastResolvedMtime)
  BY DEF OnlyNewSaves
<1>3. WritesAreKnown' /\ StatIsKnown'
  BY <1>2, LastResolvedIsKnown, WritesFrame, StatFrame DEF KnownOK
<1> QED
  BY <1>1, <1>3 DEF KnownOK

\* A change event only asks for a reload.
LEMMA OnDidFilesChangeKnown ==
    ASSUME KnownOK, OnDidFilesChange
    PROVE  KnownOK'
<1>1. UNCHANGED <<undoStack, position, versionId, bufferSavedVersionId, dirty, saves,
                  lastResolvedMtime, revert, resolving, disk, unrecorded, missed, known>>
  BY DEF OnDidFilesChange, textVars, flagVars, saveVars, history
<1>2. ReadsAreKnown'
  BY <1>1, ReadsFrame DEF KnownOK
<1> QED
  BY <1>1, <1>2, OnlyResolveKnown

\* A read that begins has the current version and the time of the last resolve.
LEMMA StartReadKnown ==
    ASSUME TasksOK, KnownOK, NEW by \in {"reload", "revert"}, StartRead(by),
           UNCHANGED <<undoStack, position, versionId, disk, known>>,
           by = "reload" => Text \in known \/ missed'
    PROVE  ReadsAreKnown'
<1>1. Text' = Text
  BY DEF Text
<1>2. /\ resolving'.version = versionId
      /\ resolving'.etag = lastResolvedMtime
      /\ resolving'.stage = "start"
      /\ resolving'.by = by
  BY DEF StartRead
<1>3. versionId \in Nat
  BY Parts DEF TextOK
<1> QED
  BY <1>1, <1>2, <1>3, LastResolvedIsKnown DEF ReadsAreKnown

\* A reload begins for a model that is not dirty.
LEMMA ReloadKnown ==
    ASSUME TasksOK, KnownOK, Reload
    PROVE  KnownOK'
<1>0. UNCHANGED <<undoStack, position, versionId, bufferSavedVersionId, dirty, saves,
                  lastResolvedMtime, revert, disk, unrecorded, missed, known>>
  BY DEF Reload, textVars, flagVars, saveVars, fileVars, history
<1>1. ReadsAreKnown'
  <2>1. CASE MayResolve
    <3>1. revert = NoRevert
      BY Parts DEF Reload, NoResolve, ResolveOK, ResolveIsAskedFor, RevertTask
    <3>2. Text \in known \/ missed
      <4>1. ~missed => AlternativeVersionId = bufferSavedVersionId
        BY <2>1 DEF MayResolve, KnownOK, SavedVersionIsKnown
      <4>2. position \in DOMAIN undoStack
        BY Parts DEF TextOK
      <4> QED
        BY <3>1, <4>1, <4>2 DEF KnownOK, SavedVersionIsKnown, Text, AlternativeVersionId
    <3>3. StartRead("reload")
      BY <2>1 DEF Reload
    <3> QED
      BY <1>0, <3>2, <3>3, StartReadKnown
  <2>2. CASE ~MayResolve
    BY <1>0, <2>2, ReadsFrame DEF Reload, KnownOK
  <2> QED
    BY <2>1, <2>2
<1> QED
  BY <1>0, <1>1, OnlyResolveKnown

\* revert() declares the current version the saved one until its read is done.
LEMMA RevertKnown ==
    ASSUME TasksOK, KnownOK, Revert
    PROVE  KnownOK'
<1>0. /\ UNCHANGED <<undoStack, position, versionId, saves, lastResolvedMtime, resolving,
                     disk, unrecorded, missed, known>>
      /\ bufferSavedVersionId' = AlternativeVersionId
      /\ revert'.saved = bufferSavedVersionId
      /\ revert'.stage = "waiting"
  BY DEF Revert, ClearDirty, textVars, saveVars, fileVars, history
<1>1. VersionsAreDistinct'
  <2>1. AlternativeVersionId <= versionId
    BY Parts DEF AlternativeVersionId, KnownOK, VersionsAreDistinct, TextOK
  <2> QED
    BY <1>0, <2>1 DEF KnownOK, VersionsAreDistinct
<1>2. SavedVersionIsKnown'
  <2>1. revert' /= NoRevert
    BY <1>0 DEF NoRevert
  <2>2. AlternativeVersionId' = AlternativeVersionId
    BY <1>0 DEF AlternativeVersionId
  <2> QED
    BY <1>0, <2>1, <2>2 DEF SavedVersionIsKnown
<1>3. OnlyNewSaves(saves', saves, lastResolvedMtime)
  BY <1>0 DEF OnlyNewSaves
<1>4. WritesAreKnown' /\ StatIsKnown' /\ ReadsAreKnown'
  BY <1>0, <1>3, LastResolvedIsKnown, WritesFrame, StatFrame, ReadsFrame DEF KnownOK
<1> QED
  BY <1>1, <1>2, <1>4 DEF KnownOK

\* The forced resolve of a revert begins, or the revert has missed.
LEMMA ForceResolveFromFileKnown ==
    ASSUME TasksOK, KnownOK, ForceResolveFromFile
    PROVE  KnownOK'
<1>0. UNCHANGED <<undoStack, position, versionId, bufferSavedVersionId, dirty, saves,
                  lastResolvedMtime, disk, unrecorded, known>>
  BY DEF ForceResolveFromFile, textVars, flagVars, saveVars, fileVars
<1>1. CASE MayResolve
  <2>1. /\ StartRead("revert")
        /\ missed' = missed
        /\ revert' = [revert EXCEPT !.stage = "reading"]
    BY <1>1 DEF ForceResolveFromFile
  <2>2. ReadsAreKnown'
    BY <1>0, <2>1, StartReadKnown
  <2>3. revert \in RevertTask
    BY Parts DEF ForceResolveFromFile, NoRevert, ResolveOK
  <2>4. /\ revert'.saved = revert.saved
        /\ revert'.stage = "reading"
        /\ revert /= NoRevert
        /\ revert' /= NoRevert
    BY <2>1, <2>3 DEF RevertTask, NoRevert
  <2>5. VersionsAreDistinct'
    BY <1>0, <2>4 DEF KnownOK, VersionsAreDistinct
  <2>6. SavedVersionIsKnown'
    <3>1. AlternativeVersionId' = AlternativeVersionId
      BY <1>0 DEF AlternativeVersionId
    <3> QED
      BY <1>0, <2>1, <2>4, <3>1 DEF KnownOK, SavedVersionIsKnown
  <2>7. OnlyNewSaves(saves', saves, lastResolvedMtime)
    BY <1>0 DEF OnlyNewSaves
  <2>8. WritesAreKnown' /\ StatIsKnown'
    BY <1>0, <2>7, LastResolvedIsKnown, WritesFrame, StatFrame DEF KnownOK
  <2> QED
    BY <2>2, <2>5, <2>6, <2>8 DEF KnownOK
<1>2. CASE ~MayResolve
  <2>1. revert' = NoRevert /\ missed' = TRUE /\ resolving' = resolving
    BY <1>2 DEF ForceResolveFromFile
  <2>2. ReadsAreKnown'
    BY <1>0, <2>1, ReadsFrame DEF KnownOK
  <2> QED
    BY <1>0, <2>1, <2>2, OnlyResolveKnown
<1> QED
  BY <1>1, <1>2

\* resolveFromContent() with a text that was in the file, and is if nobody wrote it
\* between the halves of the read
LEMMA ResolveFromContentKnown ==
    ASSUME TasksOK, KnownOK, resolving /= NoResolve, NEW mtime \in Nat, NEW text \in Int,
           ResolveFromContent(mtime, text),
           mtime <= disk.mtime,
           mtime = disk.mtime => disk.text \in known \cup {text},
           (resolving.stage = "content" /\ resolving.mtime /= disk.mtime) \/ text = disk.text,
           UNCHANGED <<saves, disk>>,
           resolving' = NoResolve, revert' \in {revert, NoRevert}
    PROVE  KnownOK'
<1>0. /\ TextOK
      /\ versionId \in Nat
      /\ lastResolvedMtime \in Nat
      /\ disk.mtime \in Nat
  BY Parts DEF TextOK, FlagsOK, FileOK
<1>1. /\ known' = known \cup {text}
      /\ unrecorded' = (resolving.stage = "content" /\ resolving.mtime /= disk.mtime)
      /\ lastResolvedMtime' = UpdateLastResolvedFileStat(mtime)
      /\ dirty' = FALSE
      /\ missed' = FALSE
  BY DEF ResolveFromContent, ClearDirty
<1>2. ReadsAreKnown'
  BY DEF ReadsAreKnown
<1>3. StatIsKnown'
  <2>1. lastResolvedMtime' \in {lastResolvedMtime, mtime}
    BY <1>1 DEF UpdateLastResolvedFileStat
  <2> QED
    BY <1>1, <2>1, LastResolvedIsKnown DEF StatIsKnown
<1>4. revert' /= NoRevert => revert' = revert /\ revert.saved \in Nat /\ revert.saved <= versionId
  BY Parts DEF ResolveOK, RevertTask, KnownOK, VersionsAreDistinct
<1>5. CASE text = Text
  <2>1. /\ UNCHANGED <<undoStack, position, versionId>>
        /\ bufferSavedVersionId' = AlternativeVersionId
    BY <1>5 DEF ResolveFromContent, ClearDirty
  <2>2. OnlyNewSaves(saves', saves, lastResolvedMtime)
    BY DEF OnlyNewSaves
  <2>3. WritesAreKnown'
    BY <1>1, <2>1, <2>2, LastResolvedIsKnown, WritesFrame DEF KnownOK
  <2>4. VersionsAreDistinct'
    <3>1. AlternativeVersionId <= versionId
      BY <1>0 DEF AlternativeVersionId, KnownOK, VersionsAreDistinct, TextOK
    <3> QED
      BY <1>4, <2>1, <3>1 DEF KnownOK, VersionsAreDistinct
  <2>5. SavedVersionIsKnown'
    <3>1. AlternativeVersionId' = AlternativeVersionId
      BY <2>1 DEF AlternativeVersionId
    <3>2. ASSUME NEW p \in DOMAIN undoStack', undoStack'[p].alt = bufferSavedVersionId'
          PROVE  undoStack'[p].text = text
      <4>1. p = position
        BY <1>0, <2>1, <3>2 DEF AlternativeVersionId, KnownOK, VersionsAreDistinct, TextOK
      <4> QED
        BY <1>5, <2>1, <4>1 DEF Text
    <3> QED
      BY <1>1, <2>1, <3>1, <3>2 DEF SavedVersionIsKnown
  <2> QED
    BY <1>2, <1>3, <2>3, <2>4, <2>5 DEF KnownOK
<1>6. CASE text /= Text
  <2> DEFINE top == [alt |-> versionId + 1, text |-> text]
  <2>1. /\ undoStack' = Append(SubSeq(undoStack, 1, position), top)
        /\ position' = position + 1
        /\ versionId' = versionId + 1
        /\ bufferSavedVersionId' = versionId + 1
    BY <1>6 DEF ResolveFromContent, ClearDirty
  <2>2. top.alt = versionId + 1 /\ top.text = text
    OBVIOUS
  <2> HIDE DEF top
  <2>3. WritesAreKnown'
    <3>1. ASSUME NEW s \in saves, s.phase \in {"validating", "writing", "resolving"}
          PROVE  s.version /= versionId'
      <4>1. running = s.version /\ running \in Nat /\ running <= versionId
        BY <1>0, <3>1, Parts, TheSave
      <4> QED
        BY <1>0, <2>1, <4>1
    <3> QED
      BY <1>1, <3>1 DEF KnownOK, WritesAreKnown
  <2>4. /\ position \in Nat
        /\ DOMAIN undoStack' = 1..(position + 1)
        /\ undoStack'[position + 1] = top
    BY <1>0, <2>1, PushIs
  <2>5. /\ \A p \in DOMAIN undoStack' : undoStack'[p].alt <= versionId'
        /\ \A p, r \in DOMAIN undoStack' :
              undoStack'[p].alt = undoStack'[r].alt => p = r
    BY <1>0, <2>1, <2>2, PushDistinct DEF KnownOK
  <2>6. VersionsAreDistinct'
    <3>1. bufferSavedVersionId' <= versionId'
      BY <1>0, <2>1
    <3>2. revert' /= NoRevert => revert'.saved <= versionId'
      BY <1>0, <1>4, <2>1
    <3> QED
      BY <2>5, <3>1, <3>2 DEF VersionsAreDistinct
  <2>7. SavedVersionIsKnown'
    <3>1. AlternativeVersionId' = bufferSavedVersionId'
      BY <2>1, <2>2, <2>4 DEF AlternativeVersionId
    <3>2. position + 1 \in DOMAIN undoStack'
      BY <2>4
    <3>3. ASSUME NEW p \in DOMAIN undoStack', undoStack'[p].alt = bufferSavedVersionId'
          PROVE  undoStack'[p].text = text
      <4>1. p = position + 1
        BY <2>1, <2>2, <2>4, <2>5, <3>2, <3>3
      <4> QED
        BY <2>2, <2>4, <4>1
    <3> QED
      BY <1>1, <3>1, <3>3 DEF SavedVersionIsKnown
  <2> QED
    BY <1>2, <1>3, <2>3, <2>6, <2>7 DEF KnownOK
<1> QED
  BY <1>5, <1>6

\* The end of a read
LEMMA ResolveFromFileKnown ==
    ASSUME TasksOK, KnownOK, resolving /= NoResolve, NEW mtime \in Nat, NEW text \in Int,
           ResolveFromFile(mtime, text),
           mtime <= disk.mtime,
           mtime = disk.mtime => disk.text \in known \cup {text},
           (resolving.stage = "content" /\ resolving.mtime /= disk.mtime) \/ text = disk.text
    PROVE  KnownOK'
<1>1. /\ resolving' = NoResolve
      /\ UNCHANGED <<saves, disk>>
      /\ revert' = IF resolving.by = "revert" THEN NoRevert ELSE revert
  BY DEF ResolveFromFile, ResolveOver, saveVars, fileVars
<1>2. CASE ChangedMeanwhile
  <2>1. /\ UNCHANGED <<undoStack, position, versionId, bufferSavedVersionId, dirty,
                       lastResolvedMtime, unrecorded, known>>
        /\ missed' = (missed \/ resolving.by = "revert")
    BY <1>2 DEF ResolveFromFile, flagVars
  <2>2. ReadsAreKnown'
    BY <1>1 DEF ReadsAreKnown
  <2>3. VersionsAreDistinct'
    BY <1>1, <2>1, VersionsFrame DEF KnownOK
  <2>4. SavedVersionIsKnown'
    <3>1. AlternativeVersionId' = AlternativeVersionId
      BY <2>1 DEF AlternativeVersionId
    <3> QED
      BY <1>1, <2>1, <3>1 DEF KnownOK, SavedVersionIsKnown
  <2>5. OnlyNewSaves(saves', saves, lastResolvedMtime)
    BY <1>1 DEF OnlyNewSaves
  <2>6. WritesAreKnown' /\ StatIsKnown'
    BY <1>1, <2>1, <2>5, LastResolvedIsKnown, WritesFrame, StatFrame DEF KnownOK
  <2> QED
    BY <2>2, <2>3, <2>4, <2>6 DEF KnownOK
<1>3. CASE ~ChangedMeanwhile
  BY <1>1, <1>3, ResolveFromContentKnown DEF ResolveFromFile
<1> QED
  BY <1>2, <1>3

\* The types and times of a read
LEMMA ReadFacts ==
    ASSUME TasksOK, KnownOK, resolving /= NoResolve
    PROVE  /\ resolving \in ResolveTask
           /\ resolving.text \in Int
           /\ resolving.mtime \in Nat
           /\ resolving.etag \in Nat
           /\ disk.mtime \in Nat
           /\ disk.text \in Int
           /\ resolving.version <= versionId
           /\ resolving.etag <= disk.mtime
           /\ resolving.etag = disk.mtime => disk.text \in known
           /\ resolving.stage /= "start" => resolving.mtime <= disk.mtime
           /\ resolving.stage = "content" =>
                 /\ disk.text \in known \cup {resolving.text}
                 /\ resolving.mtime = disk.mtime => resolving.text = disk.text
           /\ resolving.by = "reload" /\ resolving.version = versionId =>
                 Text \in known \/ missed
<1>1. resolving \in ResolveTask /\ disk.mtime \in Nat /\ disk.text \in Int
  BY Parts DEF ResolveOK, FileOK
<1>2. resolving.text \in Int /\ resolving.mtime \in Nat /\ resolving.etag \in Nat
  BY <1>1 DEF ResolveTask
<1> QED
  BY <1>1, <1>2 DEF KnownOK, ReadsAreKnown

\* One of the halves of a read is done.
LEMMA HalfReadKnown ==
    ASSUME TasksOK, KnownOK, resolving /= NoResolve,
           resolving'.version = resolving.version, resolving'.etag = resolving.etag,
           resolving'.by = resolving.by, resolving'.mtime = disk.mtime,
           resolving'.stage = "content" => resolving'.text = disk.text,
           UNCHANGED <<textVars, flagVars, lastResolvedMtime, saveVars, revert,
                       reloads, fileVars, history>>
    PROVE  KnownOK'
<1>1. UNCHANGED <<undoStack, position, versionId, bufferSavedVersionId, dirty, saves,
                  lastResolvedMtime, disk, unrecorded, missed, known>>
  BY DEF textVars, flagVars, saveVars, fileVars, history
<1>2. Text' = Text
  BY <1>1 DEF Text
<1>3. disk.mtime <= disk.mtime
  BY Parts DEF FileOK
<1>4. ReadsAreKnown'
  BY <1>1, <1>2, <1>3, ReadFacts DEF ReadsAreKnown
<1> QED
  BY <1>1, <1>4, OnlyResolveKnown

\* The stat of a read
LEMMA ReadStatKnown ==
    ASSUME TasksOK, KnownOK, ReadStat
    PROVE  KnownOK'
<1>0. resolving /= NoResolve
  BY DEF ReadStat
<1>1. CASE /\ resolving.etag = disk.mtime
           /\ resolving.by = "reload"
           /\ lastResolvedMtime' = UpdateLastResolvedFileStat(disk.mtime)
           /\ ResolveOver
           /\ UNCHANGED <<undoStack, position, versionId, flagVars, revert, history>>
  <2>1. /\ UNCHANGED <<undoStack, position, versionId, bufferSavedVersionId, dirty, saves,
                       revert, disk, unrecorded, missed, known>>
        /\ resolving' = NoResolve
    BY <1>1 DEF ResolveOver, flagVars, saveVars, fileVars, history
  <2>2. lastResolvedMtime' = disk.mtime
    <3>1. lastResolvedMtime <= disk.mtime
      BY LastResolvedIsKnown
    <3> QED
      BY <1>1, <3>1 DEF UpdateLastResolvedFileStat
  <2>3. StatIsKnown'
    BY <1>0, <1>1, <2>1, <2>2, ReadFacts DEF StatIsKnown
  <2>4. VersionsAreDistinct' /\ SavedVersionIsKnown'
    BY <2>1, VersionsFrame, SavedFrame DEF KnownOK
  <2>5. OnlyNewSaves(saves', saves, lastResolvedMtime)
    BY <2>1 DEF OnlyNewSaves
  <2>6. WritesAreKnown'
    BY <2>1, <2>5, LastResolvedIsKnown, WritesFrame DEF KnownOK
  <2>7. ReadsAreKnown'
    BY <2>1 DEF ReadsAreKnown
  <2> QED
    BY <2>3, <2>4, <2>6, <2>7 DEF KnownOK
<1>2. CASE /\ resolving' = [resolving EXCEPT !.stage = "stat", !.mtime = disk.mtime]
           /\ UNCHANGED <<textVars, flagVars, lastResolvedMtime, saveVars, revert,
                          reloads, fileVars, history>>
  <2>1. /\ resolving'.version = resolving.version
        /\ resolving'.etag = resolving.etag
        /\ resolving'.by = resolving.by
        /\ resolving'.mtime = disk.mtime
        /\ resolving'.stage = "stat"
    BY <1>0, <1>2, ReadFacts DEF ResolveTask
  <2> QED
    BY <1>0, <1>2, <2>1, HalfReadKnown
<1>3. CASE resolving.stage = "content" /\ ResolveFromFile(disk.mtime, resolving.text)
  <2>1. disk.mtime <= disk.mtime
    BY <1>0, ReadFacts
  <2> QED
    BY <1>0, <1>3, <2>1, ReadFacts, ResolveFromFileKnown
<1> QED
  BY <1>1, <1>2, <1>3 DEF ReadStat

\* The content of a read
LEMMA ReadContentKnown ==
    ASSUME TasksOK, KnownOK, ReadContent
    PROVE  KnownOK'
<1>0. resolving /= NoResolve
  BY DEF ReadContent
<1>1. CASE /\ resolving' = [resolving EXCEPT !.stage = "content", !.text = disk.text,
                                             !.mtime = disk.mtime]
           /\ UNCHANGED <<textVars, flagVars, lastResolvedMtime, saveVars, revert,
                          reloads, fileVars, history>>
  <2>1. /\ resolving'.version = resolving.version
        /\ resolving'.etag = resolving.etag
        /\ resolving'.by = resolving.by
        /\ resolving'.mtime = disk.mtime
        /\ resolving'.text = disk.text
    BY <1>0, <1>1, ReadFacts DEF ResolveTask
  <2> QED
    BY <1>0, <1>1, <2>1, HalfReadKnown
<1>2. CASE resolving.stage = "stat" /\ ResolveFromFile(resolving.mtime, disk.text)
  BY <1>0, <1>2, ReadFacts, ResolveFromFileKnown
<1> QED
  BY <1>1, <1>2 DEF ReadContent

\* undo() of a revert brings the old flags back: the text may not be the saved one.
LEMMA ReadFailsKnown ==
    ASSUME TasksOK, KnownOK, ReadFails
    PROVE  KnownOK'
<1>0. /\ UNCHANGED <<undoStack, position, versionId, saves, lastResolvedMtime, disk,
                     unrecorded, known>>
      /\ resolving' = NoResolve
  BY DEF ReadFails, textVars, saveVars
<1>1. ReadsAreKnown'
  BY <1>0 DEF ReadsAreKnown
<1>2. CASE resolving.by = "revert"
  <2>1. /\ bufferSavedVersionId' = revert.saved
        /\ revert' = NoRevert
        /\ missed' = TRUE
    BY <1>2 DEF ReadFails
  <2>2. revert /= NoRevert
    BY <1>2, Parts DEF ResolveOK, ResolveIsAskedFor, NoRevert
  <2>3. VersionsAreDistinct'
    BY <1>0, <2>1, <2>2 DEF KnownOK, VersionsAreDistinct
  <2>4. SavedVersionIsKnown'
    BY <2>1 DEF SavedVersionIsKnown
  <2>5. OnlyNewSaves(saves', saves, lastResolvedMtime)
    BY <1>0 DEF OnlyNewSaves
  <2>6. WritesAreKnown' /\ StatIsKnown'
    BY <1>0, <2>5, LastResolvedIsKnown, WritesFrame, StatFrame DEF KnownOK
  <2> QED
    BY <1>1, <2>3, <2>4, <2>6 DEF KnownOK
<1>3. CASE resolving.by /= "revert"
  BY <1>0, <1>1, <1>3, OnlyResolveKnown DEF ReadFails, flagVars
<1> QED
  BY <1>2, <1>3

\* Steps that change nothing
LEMMA StutterKnown ==
    ASSUME KnownOK, UNCHANGED vars
    PROVE  KnownOK'
<1>1. UNCHANGED <<undoStack, position, versionId, bufferSavedVersionId, dirty, saves,
                  lastResolvedMtime, revert, resolving, disk, unrecorded, missed, known>>
  BY DEF vars, textVars, flagVars, saveVars, resolveVars, fileVars, history
<1>2. ReadsAreKnown'
  BY <1>1, ReadsFrame DEF KnownOK
<1> QED
  BY <1>1, <1>2, OnlyResolveKnown

\* Every step keeps what is known of the file.
LEMMA NextKnown ==
    ASSUME TasksOK, KnownOK, [Next]_vars
    PROVE  KnownOK'
<1>1. CASE Edit \/ UndoOrRedo \/ Revert \/ ReadFails \/ ExternalWrite
  BY <1>1, EditKnown, UndoOrRedoKnown, RevertKnown, ReadFailsKnown, ExternalWriteKnown
<1>2. ASSUME NEW options \in SaveOptions, Save(options)
      PROVE  KnownOK'
  BY <1>2, SaveKnown
<1>3. ASSUME NEW s \in saves, SaveStep(s)
      PROVE  KnownOK'
  BY <1>3, DelayEndsKnown, ParticipantsDoneKnown, ValidateWriteFileKnown,
     DoWriteKnown, WriteReturnsKnown DEF SaveStep
<1>4. ASSUME NEW s \in saves, StatFails(s) \/ WriteFails(s)
      PROVE  KnownOK'
  BY <1>4, StatFailsKnown, WriteFailsKnown
<1>5. CASE ResolveStep
  BY <1>5, OnDidFilesChangeKnown, ReloadKnown, ForceResolveFromFileKnown,
     ReadStatKnown, ReadContentKnown DEF ResolveStep
<1>6. CASE UNCHANGED vars
  BY <1>6, StutterKnown
<1> QED
  BY <1>1, <1>2, <1>3, <1>4, <1>5, <1>6 DEF Next

-----------------------------------------------------------------------------
(* The theorems                                                            *)

\* IInv holds throughout: one save at a time under the id of its version, a queued
\* save that is still to be done, and what the saved version, the times of saves
\* and reads, and the last resolved stat say about the text in the file.
THEOREM Invariance == Spec => []IInv
<1>1. Init => IInv
  BY InitTasksOK, InitKnown, IInvParts
<1>2. IInv /\ [Next]_vars => IInv'
  BY NextTasksOK, NextKnown, IInvParts
<1> QED
  BY <1>1, <1>2, PTL DEF Spec

\* "Never ever must 2 saves execute at the same time": doSave() and the two nested
\* tasks it gives to the sequentializer never let a second save start.
THEOREM SavesAreSequential == Spec => []OneSaveAtATime
<1>1. IInv => OneSaveAtATime
  BY DEF IInv, TasksOK
<1> QED
  BY <1>1, Invariance, PTL

\* A model that setDirty(false), undo, redo or a resolve left without the dirty
\* flag holds the text of the file, with the three exceptions of CleanIsSaved.
THEOREM CleanModelsAreSaved == Spec => []CleanIsSaved
<1>1. IInv => CleanIsSaved
  <2> SUFFICES ASSUME IInv, ~dirty, revert = NoRevert, disk.text >= 0, ~unrecorded, ~missed
               PROVE  Text = disk.text
    BY DEF CleanIsSaved
  <2>1. position \in DOMAIN undoStack
    BY DEF IInv, TasksOK, TypeOK
  <2>2. AlternativeVersionId = bufferSavedVersionId
    BY DEF IInv, SavedVersionIsKnown
  <2> QED
    BY <2>1, <2>2 DEF IInv, SavedVersionIsKnown, Text, AlternativeVersionId
<1> QED
  BY <1>1, Invariance, PTL

\* validateWriteFile() compares the mtime a save was started with: what doWrite()
\* replaces was noticed, or the user chose to overwrite it.
THEOREM WritesReplaceKnownTexts == Spec => NoUnseenOverwrite
<1>1. IInv /\ [Next]_vars =>
         [\A s \in saves :
             DoWrite(s) => disk.text \in known \/ s.options = "overwrite"]_vars
  BY DEF IInv, WritesAreKnown, DoWrite
<1> QED
  BY <1>1, Invariance, PTL DEF Spec, NoUnseenOverwrite

\* resolveFromFile() compares the version it started with: what a reload replaces
\* was in the file, unless a revert that missed had cleared the dirty flag.
THEOREM ReloadsKeepEdits == Spec => ReloadKeepsEdits
<1>1. ASSUME IInv, ReadStat \/ ReadContent
      PROVE  Text' = Text \/ Text \in known \/ resolving.by = "revert" \/ missed
  <2>0. resolving /= NoResolve /\ TasksOK /\ KnownOK
    BY <1>1, IInvParts DEF ReadStat, ReadContent
  <2>1. CASE UNCHANGED <<undoStack, position>>
    BY <2>1 DEF Text
  <2>2. ASSUME NEW mtime, NEW text, ResolveFromFile(mtime, text), ~ChangedMeanwhile
        PROVE  Text \in known \/ resolving.by = "revert" \/ missed
    <3>1. resolving.version = versionId /\ resolving.by \in {"reload", "revert"}
      BY <2>0, <2>2, ReadFacts DEF ChangedMeanwhile, ResolveTask
    <3> QED
      BY <2>0, <3>1, ReadFacts
  <2>3. ASSUME NEW mtime, NEW text, ResolveFromFile(mtime, text), ChangedMeanwhile
        PROVE  UNCHANGED <<undoStack, position>>
    BY <2>3 DEF ResolveFromFile
  <2>4. \/ UNCHANGED <<undoStack, position>>
        \/ \E mtime, text : ResolveFromFile(mtime, text)
    BY <1>1 DEF ReadStat, ReadContent, textVars
  <2> QED
    BY <2>1, <2>2, <2>3, <2>4
<1>2. IInv /\ [Next]_vars =>
         [ReadStat \/ ReadContent =>
             \/ Text' = Text
             \/ Text \in known
             \/ resolving.by = "revert"
             \/ missed]_vars
  BY <1>1
<1> QED
  BY <1>2, Invariance, PTL DEF Spec, ReloadKeepsEdits

=============================================================================
