---------------------------- MODULE UserDataSync ----------------------------
(***************************************************************************)
(* Settings sync of one resource, tasks.json, between machines and a store. *)
(* The store keeps numbered versions (refs) and refuses a write that names  *)
(* another ref than the latest one.  A machine merges its file with the     *)
(* latest version, using the version it synchronised last as the base, and  *)
(* then updates file, store and base one after the other.  The user may     *)
(* edit the file, and other machines the store, between any two steps.      *)
(*                                                                         *)
(* A text is a number; every edit makes a new one, and so does a deletion.  *)
(* absent has the numbers that stand for no file.  Texts are not empty      *)
(* strings.  History: knows has the texts that a file, a version or a        *)
(* preview was made from, by an edit, a merge or a decision of the user.    *)
(***************************************************************************)
EXTENDS Integers, Sequences, FiniteSets

CONSTANTS
    Machines,
    First,          \* the machine that has a tasks.json when sync is turned on
    MaxEdits,       \* bound: texts, the first one, edits, deletions and merges by hand
    MaxFaults,      \* bound: failed requests, crashes and resets of the local state
    MaxPruned       \* bound: versions the store forgets

ASSUME BoundsAssumption ==
    /\ First \in Machines
    /\ MaxEdits \in Nat \ {0} /\ MaxFaults \in Nat /\ MaxPruned \in Nat

VARIABLES
    \* the store
    versions,               \* sequence of texts with the machine that wrote them and its
                            \* history
    pruned,                 \* the versions up to here are gone
    \* a machine
    file,                   \* its tasks.json
    lastSyncUserDataState,  \* the ref it synchronised last, in its storage
    olderState,             \* what the storage may still have after a crash
    lastSyncResource,       \* the data it synchronised last, in a file
    backups,                \* UserDataSyncLocalStoreService
    status,
    pc,                     \* what its synchroniser does next
    applying,               \* called by apply(), not by sync()
    latestRef,              \* of the manifest the sync began with
    remoteUserData, lastSyncUserData,
    syncPreview,
    \* bounds and history
    edits, faults,
    absent, knows,
    interrupted             \* a sync was cut short since the last complete one

storeVars == <<versions, pruned>>
stateVars == <<lastSyncUserDataState, olderState, lastSyncResource>>
syncVars == <<status, pc, applying, latestRef, remoteUserData, lastSyncUserData, syncPreview>>
boundVars == <<edits, faults>>
historyVars == <<absent, knows, interrupted>>
vars == <<versions, pruned, file, lastSyncUserDataState, olderState, lastSyncResource,
          backups, status, pc, applying, latestRef, remoteUserData, lastSyncUserData,
          syncPreview, edits, faults, absent, knows, interrupted>>

Texts == 0..MaxEdits
Exists(t) == t \notin absent
Same(t, u) == t = u \/ (~Exists(t) /\ ~Exists(u))

\* IRemoteUserData.  Ref 0 is the ref of a store without data (syncData null).
NoMachine == "none"
UserData == [ref : Int, text : Texts, machineId : Machines \cup {NoMachine}]
Null == [ref |-> -1, text |-> 0, machineId |-> NoMachine]
NoResource == [ref |-> 0, text |-> 0, machineId |-> NoMachine]
HasSyncData(data) == data.ref > 0

At(ref) == [ref |-> ref, text |-> versions[ref].text, machineId |-> versions[ref].machineId]
Knows(ref) == IF ref > 0 THEN versions[ref].knows ELSE {}
Latest == IF versions = <<>> THEN NoResource ELSE At(Len(versions))

\* A preview: the file as it was read, and what to do
NoPreview == [fileContent |-> 0, content |-> 0, localChange |-> FALSE, remoteChange |-> FALSE,
              hasConflicts |-> FALSE, acceptRemote |-> FALSE, knows |-> {}]
Preview == [fileContent : Texts, content : Texts, localChange : BOOLEAN,
            remoteChange : BOOLEAN, hasConflicts : BOOLEAN, acceptRemote : BOOLEAN,
            knows : SUBSET Texts]

Init ==
    /\ versions = <<>> /\ pruned = 0
    /\ file = [m \in Machines |-> IF m = First THEN 1 ELSE 0]
    /\ lastSyncUserDataState = [m \in Machines |-> -1]
    /\ olderState = [m \in Machines |-> -1]
    /\ lastSyncResource = [m \in Machines |-> Null]
    /\ backups = [m \in Machines |-> {}]
    /\ status = [m \in Machines |-> "idle"]
    /\ pc = [m \in Machines |-> "idle"]
    /\ applying = [m \in Machines |-> FALSE]
    /\ latestRef = [m \in Machines |-> 0]
    /\ remoteUserData = [m \in Machines |-> Null]
    /\ lastSyncUserData = [m \in Machines |-> Null]
    /\ syncPreview = [m \in Machines |-> NoPreview]
    /\ edits = 1 /\ faults = 0
    /\ absent = {0}
    /\ knows = [m \in Machines |-> {}]
    /\ interrupted = [m \in Machines |-> FALSE]

-----------------------------------------------------------------------------
\* The user

\* the file has a new text, made from the old one
NewText(m) ==
    /\ edits < MaxEdits
    /\ edits' = edits + 1
    /\ file' = [file EXCEPT ![m] = edits + 1]
    /\ knows' = [knows EXCEPT ![m] = @ \cup {file[m]}]
    /\ UNCHANGED <<storeVars, stateVars, backups, syncVars, faults, interrupted>>

Edit(m) == NewText(m) /\ UNCHANGED absent

Delete(m) ==
    /\ Exists(file[m])
    /\ NewText(m)
    /\ absent' = absent \cup {edits + 1}

-----------------------------------------------------------------------------
\* The synchroniser

\* The synchroniser has come to an end: with the preview kept, or reset
Ends(m, newStatus, keep) ==
    /\ status' = [status EXCEPT ![m] = newStatus]
    /\ pc' = [pc EXCEPT ![m] = "idle"]
    /\ applying' = [applying EXCEPT ![m] = FALSE]
    /\ latestRef' = [latestRef EXCEPT ![m] = 0]
    /\ IF keep THEN UNCHANGED <<remoteUserData, lastSyncUserData, syncPreview>>
       ELSE /\ remoteUserData' = [remoteUserData EXCEPT ![m] = Null]
            /\ lastSyncUserData' = [lastSyncUserData EXCEPT ![m] = Null]
            /\ syncPreview' = [syncPreview EXCEPT ![m] = NoPreview]

GoesOn(m, step) ==
    /\ pc' = [pc EXCEPT ![m] = step]
    /\ UNCHANGED <<status, applying, latestRef>>

\* An error that nobody handles.  apply() leaves preview and status as they
\* are; doSync resets the preview, and then sync() is idle again, but
\* doTriggerLocalChange leaves the status at conflicts.
Throws(m) ==
    IF applying[m] THEN Ends(m, "syncing", TRUE)
    ELSE Ends(m, IF status[m] = "conflicts" THEN "conflicts" ELSE "idle", FALSE)

\* there are conflicts, and the preview to resolve them
InConflicts(m) == pc[m] = "idle" /\ status[m] = "conflicts" /\ remoteUserData[m] /= Null

\* createSyncTask reads the manifest; _sync is skipped unless idle
StartSync(m) ==
    /\ pc[m] = "idle" /\ status[m] = "idle"
    /\ status' = [status EXCEPT ![m] = "syncing"]
    /\ pc' = [pc EXCEPT ![m] = "fetch"]
    /\ latestRef' = [latestRef EXCEPT ![m] = Len(versions)]
    /\ UNCHANGED <<storeVars, file, stateVars, backups, applying, remoteUserData,
                   lastSyncUserData, syncPreview, boundVars, historyVars>>

\* Mutant of GetLastSyncUserData: the ref of the file is not compared.
GetStoredUserData(m) == IF lastSyncUserDataState[m] = -1 THEN Null ELSE lastSyncResource[m]

\* getLastSyncUserData: the data of the stored ref, from the file or the store
GetLastSyncUserData(m) ==
    LET ref == lastSyncUserDataState[m]
    IN  IF ref = -1 THEN Null
        ELSE IF lastSyncResource[m].ref = ref THEN lastSyncResource[m]
        ELSE IF ref \in (pruned + 1)..Len(versions) THEN At(ref)
        ELSE Null

\* and what it leaves in the file: migrateLastSyncUserData deletes a file
\* without a state, data that had to be fetched is written
LastSyncResource(m) ==
    IF lastSyncUserDataState[m] = -1 THEN Null
    ELSE IF GetLastSyncUserData(m) = Null THEN lastSyncResource[m]
    ELSE GetLastSyncUserData(m)

\* Mutant of GetLatestRemoteUserData: what was synchronised last is good enough.
GetCachedRemoteUserData(m, last) == IF last = Null THEN Latest ELSE last

\* getLatestRemoteUserData
GetLatestRemoteUserData(m, last) ==
    IF last /= Null /\ last.ref = latestRef[m] THEN last ELSE Latest

Fetch(m) ==
    /\ pc[m] = "fetch"
    /\ LET last == GetLastSyncUserData(m)
       IN  /\ lastSyncUserData' = [lastSyncUserData EXCEPT ![m] = last]
           /\ remoteUserData' =
                 [remoteUserData EXCEPT ![m] = GetLatestRemoteUserData(m, last)]
    /\ lastSyncResource' = [lastSyncResource EXCEPT ![m] = LastSyncResource(m)]
    /\ GoesOn(m, "preview")
    /\ UNCHANGED <<storeVars, file, lastSyncUserDataState, olderState, backups, syncPreview,
                   boundVars, historyVars>>

\* performSync after PreconditionFailed
Refetch(m) ==
    /\ pc[m] = "refetch"
    /\ lastSyncUserData' = [lastSyncUserData EXCEPT ![m] = GetLastSyncUserData(m)]
    /\ remoteUserData' = [remoteUserData EXCEPT ![m] = Latest]
    /\ lastSyncResource' = [lastSyncResource EXCEPT ![m] = LastSyncResource(m)]
    /\ GoesOn(m, "preview")
    /\ UNCHANGED <<storeVars, file, lastSyncUserDataState, olderState, backups, syncPreview,
                   boundVars, historyVars>>

\* A request of Fetch or Refetch fails
FetchFails(m) ==
    /\ pc[m] \in {"fetch", "refetch"} /\ faults < MaxFaults
    /\ faults' = faults + 1
    /\ Throws(m)
    /\ UNCHANGED <<storeVars, file, stateVars, backups, edits, historyVars>>

\* merge of tasksSync, with what to do: nothing, update the store, the file
Merge(local, remote, base) ==
    LET result(content, localChange, remoteChange, hasConflicts) ==
            [fileContent |-> local, content |-> content, localChange |-> localChange,
             remoteChange |-> remoteChange, hasConflicts |-> hasConflicts,
             acceptRemote |-> FALSE, knows |-> {}]
    IN  CASE Same(local, remote) -> result(0, FALSE, FALSE, FALSE)
          [] ~Same(local, remote) /\ Same(base, remote) -> result(local, FALSE, TRUE, FALSE)
          [] ~Same(local, remote) /\ Same(base, local) -> result(remote, TRUE, FALSE, FALSE)
          [] OTHER -> result(local, TRUE, TRUE, TRUE)

\* the steps of applyResult that have something to do
FirstStep(preview) ==
    IF preview.localChange THEN "applyLocal"
    ELSE IF preview.remoteChange THEN "applyRemote" ELSE "saveState"

\* doSync: generateSyncPreview reads the file; a version of this machine is its
\* own base; without a base, if there was one, the remote version is accepted
GeneratePreview(m) ==
    LET remote == remoteUserData[m]
        fromCurrentMachine == remote.machineId = m
        last == IF lastSyncUserData[m] = Null /\ fromCurrentMachine THEN remote
                ELSE lastSyncUserData[m]
        acceptRemote == /\ ~fromCurrentMachine /\ lastSyncUserData[m] = Null
                        /\ lastSyncUserDataState[m] /= -1
        merged == IF HasSyncData(remote) THEN Merge(file[m], remote.text, last.text)
                  ELSE [NoPreview EXCEPT !.fileContent = file[m], !.content = file[m],
                                         !.remoteChange = Exists(file[m])]
        preview == IF acceptRemote
                   THEN [fileContent |-> file[m], content |-> remote.text, localChange |-> TRUE,
                         remoteChange |-> FALSE, hasConflicts |-> FALSE, acceptRemote |-> TRUE, knows |-> {}]
                   ELSE merged
    IN  /\ pc[m] = "preview"
        /\ syncPreview' = [syncPreview EXCEPT ![m] =
              [preview EXCEPT !.knows = knows[m] \cup Knows(remote.ref)]]
        /\ IF preview.hasConflicts
           THEN /\ status' = [status EXCEPT ![m] = "conflicts"]
                /\ pc' = [pc EXCEPT ![m] = "idle"]
                /\ latestRef' = [latestRef EXCEPT ![m] = 0]
                /\ UNCHANGED applying
           ELSE GoesOn(m, FirstStep(preview))
        /\ UNCHANGED <<storeVars, file, stateVars, backups, remoteUserData, lastSyncUserData,
                       boundVars, historyVars>>

\* Mutant of LocalPrecondition: the file is not compared.
NoLocalPrecondition(m) == TRUE

\* updateLocalFileContent: writeFile with the old etag refuses a file that has
\* changed, createFile one that exists; deleteLocalFile has no condition
LocalPrecondition(m) ==
    LET preview == syncPreview[m]
    IN  \/ ~Exists(preview.content)
        \/ ~Exists(file[m])
        \/ file[m] = preview.fileContent

\* Mutant of AfterLocalPreconditionFailed: the rest is done all the same.
AfterLocalPreconditionIgnored(m) == GoesOn(m, "saveState") /\ UNCHANGED syncPreview

\* LocalPreconditionFailed: performSync tries again, apply() throws
AfterLocalPreconditionFailed(m) ==
    IF applying[m] THEN Ends(m, "syncing", TRUE)
    ELSE GoesOn(m, "preview") /\ syncPreview' = [syncPreview EXCEPT ![m] = NoPreview]

\* applyResult, the local change: the file is backed up and updated
ApplyLocal(m) ==
    LET preview == syncPreview[m]
        backup == IF Exists(preview.fileContent) THEN {preview.fileContent} ELSE {}
    IN  /\ pc[m] = "applyLocal"
        /\ backups' = [backups EXCEPT ![m] = @ \cup backup]
        /\ \/ /\ LocalPrecondition(m)
              /\ file' = [file EXCEPT ![m] = preview.content]
              /\ knows' = [knows EXCEPT ![m] = preview.knows]
              /\ GoesOn(m, IF preview.remoteChange THEN "applyRemote" ELSE "saveState")
              /\ UNCHANGED <<remoteUserData, lastSyncUserData, syncPreview>>
           \/ /\ ~LocalPrecondition(m)
              /\ AfterLocalPreconditionFailed(m)
              /\ UNCHANGED <<file, knows, remoteUserData, lastSyncUserData>>
        /\ UNCHANGED <<storeVars, stateVars, boundVars, absent, interrupted>>

\* Another error of backupLocal or of the file system: the file is as it was
ApplyLocalFails(m) ==
    /\ pc[m] = "applyLocal" /\ faults < MaxFaults
    /\ faults' = faults + 1
    /\ \/ UNCHANGED backups
       \/ /\ Exists(syncPreview[m].fileContent)
          /\ backups' = [backups EXCEPT ![m] = @ \cup {syncPreview[m].fileContent}]
    /\ Throws(m)
    /\ UNCHANGED <<storeVars, file, stateVars, edits, historyVars>>

\* Mutant of IfMatch: the store takes every write.
IfMatchIgnored(m) == TRUE

\* the precondition of writeResource at the store
IfMatch(m) == remoteUserData[m].ref = Len(versions)

\* the versions after writeResource
Written(m) ==
    Append(versions, [text |-> syncPreview[m].content, machineId |-> m,
                      knows |-> syncPreview[m].knows, interrupted |-> interrupted[m]])

Write(m) ==
    /\ versions' = Written(m)
    /\ knows' = [knows EXCEPT ![m] = @ \cup syncPreview[m].knows]

\* applyResult, the remote change: updateRemoteUserData.  Conflict and
\* PreconditionFailed make performSync begin again, and apply() throw.
ApplyRemote(m) ==
    /\ pc[m] = "applyRemote"
    /\ \/ /\ IfMatch(m)
          /\ Write(m)
          /\ remoteUserData' = [remoteUserData EXCEPT ![m] =
                [ref |-> Len(versions) + 1, text |-> syncPreview[m].content, machineId |-> m]]
          /\ GoesOn(m, "saveState")
          /\ UNCHANGED <<lastSyncUserData, syncPreview, interrupted>>
       \/ /\ ~IfMatch(m)
          /\ IF applying[m]
             THEN Ends(m, "syncing", TRUE) /\ interrupted' = [interrupted EXCEPT ![m] = TRUE]
             ELSE /\ GoesOn(m, "refetch")
                  /\ syncPreview' = [syncPreview EXCEPT ![m] = NoPreview]
                  /\ UNCHANGED <<remoteUserData, lastSyncUserData, interrupted>>
          /\ UNCHANGED <<versions, knows>>
    /\ UNCHANGED <<pruned, file, stateVars, backups, boundVars, absent>>

\* The write fails, or it succeeds and the answer is lost
ApplyRemoteFails(m) ==
    /\ pc[m] = "applyRemote" /\ faults < MaxFaults
    /\ faults' = faults + 1
    /\ \/ UNCHANGED <<versions, knows>>
       \/ IfMatch(m) /\ Write(m)
    /\ interrupted' = [interrupted EXCEPT ![m] = TRUE]
    /\ Throws(m)
    /\ UNCHANGED <<pruned, file, stateVars, backups, edits, absent>>

\* Mutant of IsNews: only the first synchronisation is remembered.
IsFirst(m) == lastSyncUserData[m] = Null

\* applyResult: is there something to remember
IsNews(m) == lastSyncUserData[m] = Null \/ lastSyncUserData[m].ref /= remoteUserData[m].ref

\* updateLastSyncUserData: the storage first, which is flushed later, ...
SaveState(m) ==
    /\ pc[m] = "saveState"
    /\ IF IsNews(m)
       THEN /\ lastSyncUserDataState' =
                  [lastSyncUserDataState EXCEPT ![m] = remoteUserData[m].ref]
            /\ olderState' = [olderState EXCEPT ![m] = lastSyncUserDataState[m]]
            /\ GoesOn(m, "saveResource")
            /\ UNCHANGED <<remoteUserData, lastSyncUserData, syncPreview, interrupted>>
       ELSE /\ Ends(m, "idle", FALSE)
            /\ interrupted' = [interrupted EXCEPT ![m] = FALSE]
            /\ UNCHANGED <<lastSyncUserDataState, olderState>>
    /\ UNCHANGED <<storeVars, file, lastSyncResource, backups, boundVars, absent, knows>>

\* ... then the file
SaveResource(m) ==
    /\ pc[m] = "saveResource"
    /\ lastSyncResource' = [lastSyncResource EXCEPT ![m] = remoteUserData[m]]
    /\ Ends(m, "idle", FALSE)
    /\ interrupted' = [interrupted EXCEPT ![m] = FALSE]
    /\ UNCHANGED <<storeVars, file, lastSyncUserDataState, olderState, backups, boundVars,
                   absent, knows>>

-----------------------------------------------------------------------------
\* Conflicts

\* doTriggerLocalChange: the file has changed while there are conflicts
LocalChangeInConflicts(m) ==
    /\ InConflicts(m)
    /\ file[m] /= syncPreview[m].fileContent
    /\ GoesOn(m, "preview")
    /\ syncPreview' = [syncPreview EXCEPT ![m] = NoPreview]
    /\ UNCHANGED <<storeVars, file, stateVars, backups, remoteUserData, lastSyncUserData,
                   boundVars, historyVars>>

\* accept() and apply(): the user takes one side, or a text merged by hand
Accept(m, choice) ==
    LET preview == syncPreview[m]
        local == preview.fileContent
        remote == remoteUserData[m].text
        accepted == CASE choice = "local" -> local [] choice = "remote" -> remote
                      [] OTHER -> edits + 1
    IN  /\ InConflicts(m)
        /\ choice = "preview" => edits < MaxEdits
        /\ edits' = IF choice = "preview" THEN edits + 1 ELSE edits
        /\ syncPreview' = [syncPreview EXCEPT ![m] =
              [preview EXCEPT !.content = accepted,
                              !.localChange = choice /= "local",
                              !.remoteChange = choice /= "remote",
                              !.hasConflicts = FALSE,
                              !.knows = @ \cup {local, remote}]]
        /\ status' = [status EXCEPT ![m] = "syncing"]
        /\ pc' = [pc EXCEPT ![m] = FirstStep(syncPreview'[m])]
        /\ applying' = [applying EXCEPT ![m] = TRUE]
        /\ UNCHANGED <<storeVars, file, stateVars, backups, latestRef, remoteUserData,
                       lastSyncUserData, faults, historyVars>>

-----------------------------------------------------------------------------
\* The environment

\* The process ends and starts again.  The storage may not have been flushed.
Crash(m) ==
    /\ faults < MaxFaults
    /\ faults' = faults + 1
    /\ \E state \in {lastSyncUserDataState[m], olderState[m]} :
          /\ lastSyncUserDataState' = [lastSyncUserDataState EXCEPT ![m] = state]
          /\ olderState' = [olderState EXCEPT ![m] = state]
          /\ interrupted' = [interrupted EXCEPT ![m] =
                @ \/ pc[m] /= "idle" \/ state /= lastSyncUserDataState[m]]
    /\ Ends(m, "idle", FALSE)
    /\ UNCHANGED <<storeVars, file, lastSyncResource, backups, edits, absent, knows>>

\* Sync is turned off and on again: stop() and resetLocal()
ResetLocal(m) ==
    /\ faults < MaxFaults /\ pc[m] = "idle"
    /\ faults' = faults + 1
    /\ lastSyncUserDataState' = [lastSyncUserDataState EXCEPT ![m] = -1]
    /\ olderState' = [olderState EXCEPT ![m] = -1]
    /\ lastSyncResource' = [lastSyncResource EXCEPT ![m] = Null]
    /\ Ends(m, "idle", FALSE)
    /\ interrupted' = [interrupted EXCEPT ![m] = TRUE]
    /\ UNCHANGED <<storeVars, file, backups, edits, absent, knows>>

\* The store forgets its oldest version
Prune ==
    /\ pruned < MaxPruned /\ pruned + 1 < Len(versions)
    /\ pruned' = pruned + 1
    /\ UNCHANGED <<versions, file, stateVars, backups, syncVars, boundVars, historyVars>>

-----------------------------------------------------------------------------
Step(m) ==
    \/ StartSync(m) \/ Fetch(m) \/ Refetch(m) \/ GeneratePreview(m)
    \/ ApplyLocal(m) \/ ApplyRemote(m) \/ SaveState(m) \/ SaveResource(m)

Next ==
    \/ \E m \in Machines :
          \/ Edit(m) \/ Delete(m)
          \/ StartSync(m) \/ Fetch(m) \/ Refetch(m) \/ FetchFails(m) \/ GeneratePreview(m)
          \/ ApplyLocal(m) \/ ApplyLocalFails(m) \/ ApplyRemote(m) \/ ApplyRemoteFails(m)
          \/ SaveState(m) \/ SaveResource(m)
          \/ LocalChangeInConflicts(m)
          \/ \E choice \in {"local", "remote", "preview"} : Accept(m, choice)
          \/ Crash(m) \/ ResetLocal(m)
    \/ Prune

Spec == Init /\ [][Next]_vars

\* auto sync starts a sync at intervals, and requests are answered
Fairness == \A m \in Machines : WF_vars(Step(m))

FairSpec == Spec /\ Fairness

-----------------------------------------------------------------------------
Version == [text : Texts, machineId : Machines, knows : SUBSET Texts, interrupted : BOOLEAN]

TypeOK ==
    /\ versions \in Seq(Version)
    /\ pruned \in 0..MaxPruned
    /\ file \in [Machines -> Texts]
    /\ lastSyncUserDataState \in [Machines -> -1..Len(versions)]
    /\ olderState \in [Machines -> -1..Len(versions)]
    /\ lastSyncResource \in [Machines -> UserData]
    /\ backups \in [Machines -> SUBSET Texts]
    /\ status \in [Machines -> {"idle", "syncing", "conflicts"}]
    /\ pc \in [Machines -> {"idle", "fetch", "refetch", "preview", "applyLocal",
                            "applyRemote", "saveState", "saveResource"}]
    /\ applying \in [Machines -> BOOLEAN]
    /\ latestRef \in [Machines -> 0..Len(versions)]
    /\ remoteUserData \in [Machines -> UserData]
    /\ lastSyncUserData \in [Machines -> UserData]
    /\ syncPreview \in [Machines -> Preview]
    /\ edits \in 0..MaxEdits /\ faults \in 0..MaxFaults
    /\ absent \subseteq Texts
    /\ knows \in [Machines -> SUBSET Texts]
    /\ interrupted \in [Machines -> BOOLEAN]

\* what the file of a machine was made from
Known(m) == knows[m] \cup {file[m]}

\* the text of a version is among these, if it stands for a file
IsKnown(ref, texts) ==
    ref > 0 /\ Exists(versions[ref].text) => versions[ref].text \in texts

\* A version was made from all versions before it
VersionsBuildOn ==
    \A i, j \in DOMAIN versions : i < j =>
        /\ versions[i].knows \subseteq versions[j].knows
        /\ IsKnown(i, versions[j].knows \cup {versions[j].text})

\* the versions that a machine took or wrote
Synchronised(m) ==
    {lastSyncUserDataState[m], olderState[m]}
    \cup {i \in DOMAIN versions : versions[i].machineId = m}

\* The file of a machine was made from them
SynchronisedIsKnown(m) == \A ref \in Synchronised(m) : IsKnown(ref, Known(m))

\* Data that a machine has fetched is that of a version
IsFetched(data) ==
    \/ data \in {Null, NoResource}
    \/ data.ref \in DOMAIN versions /\ data = At(data.ref)

DataIsFetched(m) ==
    /\ IsFetched(remoteUserData[m])
    /\ IsFetched(lastSyncUserData[m])
    /\ IsFetched(lastSyncResource[m])

\* what to do with remoteUserData is being decided or done
IsDeciding(m) == pc[m] \in {"preview", "applyLocal", "applyRemote"} \/ InConflicts(m)

\* remoteUserData is no older than what the machine took or wrote, and
\* lastSyncUserData is what its storage says
RemoteIsNewer(m) ==
    /\ pc[m] = "fetch" => \A ref \in Synchronised(m) : ref <= latestRef[m]
    /\ IsDeciding(m) =>
          /\ \A ref \in Synchronised(m) : ref <= remoteUserData[m].ref
          /\ lastSyncUserData[m] = Null \/ lastSyncUserData[m].ref = lastSyncUserDataState[m]
    /\ IsDeciding(m) \/ pc[m] \in {"saveState", "saveResource"} => remoteUserData[m] /= Null

\* What a preview will do to file and store loses no text
PreviewIsTrue(m) ==
    LET preview == syncPreview[m]
        remote == remoteUserData[m]
    IN  /\ pc[m] \in {"applyLocal", "applyRemote"} \/ InConflicts(m) =>
              Knows(remote.ref) \subseteq preview.knows
        /\ InConflicts(m) => preview.fileContent \in Known(m)
        /\ pc[m] \in {"applyLocal", "applyRemote"} =>
              IsKnown(remote.ref, preview.knows \cup {preview.content})
        /\ pc[m] = "applyRemote" => preview.content \in Known(m)
        /\ pc[m] = "applyLocal" =>
              /\ preview.remoteChange => applying[m]
              /\ ~preview.remoteChange => preview.content = remote.text
              /\ (~applying[m] /\ ~preview.acceptRemote /\ Exists(preview.fileContent)) =>
                    preview.fileContent \in Knows(remote.ref) \cup {remote.text}
        /\ pc[m] \in {"saveState", "saveResource"} => IsKnown(remote.ref, Known(m))

\* The inductive invariant: no version, stored base or preview has forgotten a
\* text that it claims to be made from.
IInv ==
    /\ TypeOK /\ 0 \in absent /\ pruned <= Len(versions)
    /\ VersionsBuildOn
    /\ \A m \in Machines :
          DataIsFetched(m) /\ SynchronisedIsKnown(m) /\ RemoteIsNewer(m) /\ PreviewIsTrue(m)

\* The base of the next merge is true: the file of a machine was made from the
\* version it says it synchronised last.  A three-way merge with another base
\* would silently take one side.
BaseIsAncestor ==
    \A m \in Machines :
        LET base == GetLastSyncUserData(m)
        IN  (pc[m] = "idle" /\ HasSyncData(base) /\ Exists(base.text))
            => base.text \in knows[m] \cup {file[m]}

\* A conflict is shown only for texts neither of which was made from the other,
\* unless a sync of this machine was cut short, or of the one that wrote the
\* remote text.
ConflictIsReal ==
    \A m \in Machines : (/\ InConflicts(m) /\ ~interrupted[m]
                         /\ ~versions[remoteUserData[m].ref].interrupted) =>
        /\ syncPreview[m].fileContent \notin Knows(remoteUserData[m].ref)
        /\ remoteUserData[m].text \notin knows[m]

\* what deleteLocalFile may destroy: a text written since the preview
DeleteRace(m) == ~Exists(file'[m]) /\ file[m] /= syncPreview[m].fileContent

\* A local text that the synchroniser replaces has been backed up, whatever the
\* user does meanwhile (a file that is being deleted is not compared).
ReplacedIsBackedUp ==
    [][\A m \in Machines : (edits' = edits /\ file'[m] /= file[m] /\ Exists(file[m]))
          => (file[m] \in backups'[m] \/ DeleteRace(m))]_vars

\* there was a base, and it can no longer be read
BaseIsLost(m) == lastSyncUserData[m] = Null /\ lastSyncUserDataState[m] /= -1

\* Neither a file nor the latest version of the store is replaced by a text that
\* was not made from it.  For a file there are three exceptions: the user has
\* seen the text and decided so; the base is lost, where doSync accepts the
\* remote text without asking; or the text was written after the preview of a
\* sync that deletes the file.
OnlyForward ==
    [][edits' = edits =>
        /\ \A m \in Machines : (file'[m] /= file[m] /\ Exists(file[m])) =>
              \/ file[m] \in Knows(remoteUserData[m].ref)
              \/ applying[m] /\ file[m] = syncPreview[m].fileContent
              \/ BaseIsLost(m)
              \/ DeleteRace(m)
        /\ (versions' /= versions /\ Exists(Latest.text)) =>
              \E m \in Machines :
                  /\ Written(m) = versions'
                  /\ Latest.text \in syncPreview[m].knows \cup {syncPreview[m].content}]_vars

\* What makes BaseIsLost the only reason to accept the remote text unasked
AcceptedIsLost ==
    \A m \in Machines :
        pc[m] = "applyLocal" /\ ~applying[m] /\ syncPreview[m].acceptRemote => BaseIsLost(m)

\* status is syncing and no synchroniser runs
IsStuck(m) == status[m] = "syncing" /\ pc[m] = "idle"

\* In the end all files are what the store has, unless a conflict waits for the
\* user or an apply() has failed.
Converges ==
    <>[](\/ \A m \in Machines : Same(file[m], Latest.text)
         \/ \E m \in Machines : status[m] = "conflicts" \/ IsStuck(m))

\* A sync that is skipped "as it is running already" is running.
SyncingMeansRunning == \A m \in Machines : ~IsStuck(m)

-----------------------------------------------------------------------------
(* The inductive invariant behind ConflictIsReal                            *)

\* the texts the store has seen, and the one that stands for no data
Published ==
    {0} \cup UNION {versions[i].knows \cup {versions[i].text} : i \in DOMAIN versions}

\* the texts a machine has, or had
Held(m) ==
    Known(m) \cup syncPreview[m].knows \cup {syncPreview[m].fileContent, syncPreview[m].content}

OnlyHere(m, t) == t \notin Published /\ \A n \in Machines \ {m} : t \notin Held(n)

TextOf(ref) == IF ref > 0 THEN versions[ref].text ELSE 0

\* remoteUserData has become the base, which is not remembered yet
IsSaving(m) == pc[m] \in {"saveState", "saveResource"}

\* what was decided is being done
IsApplying(m) == pc[m] \in {"applyLocal", "applyRemote"} \/ InConflicts(m)

\* the base of the file is the one the storage says
HasBase(m) ==
    ~interrupted[m] /\ ~IsSaving(m) /\ ~(pc[m] = "applyRemote" /\ applying[m])

\* No text has a number that an edit will give out
NumbersAreUsed ==
    /\ \A t \in Published : t <= edits
    /\ \A m \in Machines : \A t \in Held(m) : t <= edits

\* A version has a text of its own, unless a sync was cut short before
VersionsAreNew ==
    \A i, j \in DOMAIN versions : ~versions[j].interrupted =>
        /\ versions[j].text /= 0
        /\ i < j => versions[j].text \notin versions[i].knows \cup {versions[i].text}

\* These texts are no text of a version after this one
Unseen(ref, texts) ==
    \A i \in DOMAIN versions :
        i > ref /\ ~versions[i].interrupted => versions[i].text \notin texts

\* A machine knows no version after the one it has fetched, or has synchronised
LaterIsUnseen(m) ==
    /\ pc[m] = "fetch" => Unseen(latestRef[m], Known(m))
    /\ IsDeciding(m) \/ IsSaving(m) => Unseen(remoteUserData[m].ref, Known(m))
    /\ IsApplying(m) =>
          Unseen(remoteUserData[m].ref,
                 syncPreview[m].knows \cup {syncPreview[m].fileContent, syncPreview[m].content})
    /\ HasBase(m) => Unseen(lastSyncUserDataState[m], Known(m))

\* a text of machine m that was made after its preview
IsLater(m, t) ==
    OnlyHere(m, t) /\ t \notin syncPreview[m].knows \cup {syncPreview[m].content}

\* The file is that of the base, or nobody else has it
FileIsBaseOrNew(m) ==
    LET t == file[m]
        preview == syncPreview[m]
    IN  /\ HasBase(m) => OnlyHere(m, t) \/ Same(t, TextOf(lastSyncUserDataState[m]))
        /\ IsSaving(m) => OnlyHere(m, t) \/ Same(t, TextOf(remoteUserData[m].ref))
        /\ InConflicts(m) => t = preview.fileContent \/ IsLater(m, t)
        /\ pc[m] = "applyRemote" => t = preview.content \/ IsLater(m, t)

\* What is about to be written nobody else has, and neither has anybody the
\* local side of a conflict, whose remote side is later than the base
WrittenIsNew(m) ==
    ~interrupted[m] =>
        /\ pc[m] = "applyRemote" \/ (pc[m] = "applyLocal" /\ syncPreview[m].remoteChange)
              => OnlyHere(m, syncPreview[m].content)
        /\ InConflicts(m) => /\ OnlyHere(m, syncPreview[m].fileContent)
                             /\ remoteUserData[m].ref > lastSyncUserDataState[m]
                             /\ remoteUserData[m].ref > 0

\* The base is in the file, and no version of the machine is later
BaseIsSaved(m) ==
    /\ IsSaving(m) =>
          \A i \in DOMAIN versions : versions[i].machineId = m => i <= remoteUserData[m].ref
    /\ ~interrupted[m] /\ ~IsSaving(m) =>
          /\ \A i \in DOMAIN versions :
                versions[i].machineId = m => i <= lastSyncUserDataState[m]
          /\ lastSyncUserDataState[m] \in {-1, lastSyncResource[m].ref}
    /\ IsDeciding(m) \/ pc[m] = "saveState" =>
          IF lastSyncUserData[m] = Null THEN interrupted[m] \/ lastSyncUserDataState[m] = -1
          ELSE /\ lastSyncResource[m] = lastSyncUserData[m]
               /\ lastSyncUserData[m].ref = lastSyncUserDataState[m]
    /\ pc[m] = "saveResource" => lastSyncUserDataState[m] = remoteUserData[m].ref

\* Whatever has not been cut short starts from a base that is there, and what
\* was edited since then nobody else has.
ConflictInv ==
    /\ NumbersAreUsed
    /\ VersionsAreNew
    /\ \A m \in Machines :
          LaterIsUnseen(m) /\ FileIsBaseOrNew(m) /\ WrittenIsNew(m) /\ BaseIsSaved(m)

=============================================================================
