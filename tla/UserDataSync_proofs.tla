------------------------ MODULE UserDataSync_proofs ------------------------
(***************************************************************************)
(* Proofs about UserDataSync, for any machines and any number of edits,    *)
(* faults and forgotten versions: the base of a merge is true, nothing is  *)
(* replaced by what was not made from it, what the synchroniser replaces   *)
(* on disk has been backed up, and a conflict is shown for texts neither   *)
(* of which was made from the other.                                       *)
(***************************************************************************)
EXTENDS UserDataSync, TLAPS

-----------------------------------------------------------------------------
\* The parts of the invariant, and what a step leaves alone

\* the part of the invariant that is about one machine
MachineOK(m) ==
    DataIsFetched(m) /\ SynchronisedIsKnown(m) /\ RemoteIsNewer(m) /\ PreviewIsTrue(m)

\* a step keeps the versions and no text comes into being again
Kept ==
    /\ versions \in Seq(Version)
    /\ Len(versions) \in Nat /\ Len(versions') \in Nat /\ Len(versions) <= Len(versions')
    /\ DOMAIN versions = 1..Len(versions) /\ DOMAIN versions' = 1..Len(versions')
    /\ \A i \in 1..Len(versions) : versions'[i] = versions[i]
    /\ absent \subseteq absent'

\* a step does nothing to machine n
Untouched(n) ==
    /\ file'[n] = file[n] /\ knows'[n] = knows[n]
    /\ lastSyncUserDataState'[n] = lastSyncUserDataState[n]
    /\ olderState'[n] = olderState[n]
    /\ lastSyncResource'[n] = lastSyncResource[n]
    /\ status'[n] = status[n] /\ pc'[n] = pc[n] /\ applying'[n] = applying[n]
    /\ latestRef'[n] = latestRef[n]
    /\ remoteUserData'[n] = remoteUserData[n]
    /\ lastSyncUserData'[n] = lastSyncUserData[n]
    /\ syncPreview'[n] = syncPreview[n]

\* A step that leaves the store alone keeps the versions.
LEMMA StoreKept ==
    ASSUME TypeOK, versions' = versions, absent \subseteq absent'
    PROVE  Kept
<1>1. versions \in Seq(Version)
  BY DEF TypeOK
<1>2. Len(versions) \in Nat /\ DOMAIN versions = 1..Len(versions)
  BY <1>1
<1> QED BY <1>1, <1>2 DEF Kept

\* A step that appends a version keeps the ones before it.
LEMMA AppendKeeps ==
    ASSUME TypeOK, NEW v, versions' = Append(versions, v), absent' = absent,
           v \in Version
    PROVE  /\ Kept /\ Len(versions') = Len(versions) + 1
           /\ versions'[Len(versions) + 1] = v
           /\ versions' \in Seq(Version)
<1>1. versions \in Seq(Version)
  BY DEF TypeOK
<1>2. Len(versions) \in Nat /\ DOMAIN versions = 1..Len(versions)
  BY <1>1
<1>3. /\ versions' \in Seq(Version) /\ Len(versions') = Len(versions) + 1
      /\ versions'[Len(versions) + 1] = v
      /\ \A i \in 1..Len(versions) : versions'[i] = versions[i]
  BY <1>1, <1>2
<1>4. DOMAIN versions' = 1..Len(versions')
  BY <1>3
<1> QED BY <1>1, <1>2, <1>3, <1>4 DEF Kept

\* A text that is known stays known.
LEMMA IsKnownKept ==
    ASSUME Kept, NEW ref \in Int, ref <= Len(versions), NEW texts, NEW more,
           texts \subseteq more, IsKnown(ref, texts)
    PROVE  IsKnown(ref, more)' /\ IsKnown(ref, more)
<1>1. CASE ref > 0
  <2>1. ref \in 1..Len(versions)
    BY <1>1 DEF Kept
  <2> QED BY <2>1 DEF Kept, IsKnown, Exists
<1>2. CASE ~(ref > 0)
  BY <1>2 DEF IsKnown
<1> QED BY <1>1, <1>2

\* Data that was fetched has a ref of the store, and the text of that version.
LEMMA FetchedRef ==
    ASSUME TypeOK, NEW data \in UserData, IsFetched(data)
    PROVE  /\ data.ref \in -1..Len(versions) /\ data.ref \in Int
           /\ data = Null <=> data.ref = -1
           /\ data.ref > 0 => /\ data.ref \in DOMAIN versions
                              /\ data.text = versions[data.ref].text
                              /\ data.machineId = versions[data.ref].machineId
           /\ data.ref <= 0 => data.text = 0
<1>1. Len(versions) \in Nat /\ DOMAIN versions = 1..Len(versions)
  BY DEF TypeOK
<1>2. CASE data = Null
  BY <1>1, <1>2 DEF Null
<1>3. CASE data = NoResource
  BY <1>1, <1>3 DEF NoResource, Null
<1>4. CASE data.ref \in DOMAIN versions /\ data = At(data.ref)
  <2>1. data.ref \in 1..Len(versions)
    BY <1>1, <1>4
  <2>2. data.text = versions[data.ref].text /\ data.machineId = versions[data.ref].machineId
    BY <1>4 DEF At
  <2> QED BY <1>1, <1>4, <2>1, <2>2 DEF Null
<1> QED BY <1>2, <1>3, <1>4 DEF IsFetched

\* It stays the data of that version.
LEMMA FetchedKept ==
    ASSUME Kept, NEW data, IsFetched(data)
    PROVE  IsFetched(data)'
<1>1. CASE data \in {Null, NoResource}
  BY <1>1 DEF IsFetched, Null, NoResource
<1>2. CASE data.ref \in DOMAIN versions /\ data = At(data.ref)
  <2>1. data.ref \in 1..Len(versions)
    BY <1>2 DEF Kept
  <2>2. data.ref \in DOMAIN versions' /\ versions'[data.ref] = versions[data.ref]
    BY <2>1 DEF Kept
  <2> QED BY <1>2, <2>2 DEF IsFetched, At
<1> QED BY <1>1, <1>2 DEF IsFetched

\* What a version was made from stays what it was.
LEMMA KnowsKept ==
    ASSUME Kept, NEW ref \in Int, ref <= Len(versions)
    PROVE  Knows(ref)' = Knows(ref)
<1>1. ref > 0 => ref \in 1..Len(versions)
  BY DEF Kept
<1> QED BY <1>1 DEF Knows, Kept

\* The versions that a machine took or wrote are versions of the store.
LEMMA SynchronisedRefs ==
    ASSUME TypeOK, NEW m \in Machines, NEW ref \in Synchronised(m)
    PROVE  ref \in Int /\ ref <= Len(versions)
<1>1. Len(versions) \in Nat /\ DOMAIN versions = 1..Len(versions)
  BY DEF TypeOK
<1>2. lastSyncUserDataState[m] \in -1..Len(versions) /\ olderState[m] \in -1..Len(versions)
  BY DEF TypeOK
<1> QED BY <1>1, <1>2 DEF Synchronised

\* A step of another machine keeps the facts about this one.
LEMMA UntouchedKeeps ==
    ASSUME TypeOK, Kept, NEW n \in Machines, MachineOK(n), Untouched(n),
           \A i \in 1..Len(versions') : i > Len(versions) => versions'[i].machineId /= n
    PROVE  MachineOK(n)'
<1>1. remoteUserData[n] \in UserData
  BY DEF TypeOK
<1>2. DataIsFetched(n)'
  BY FetchedKept DEF MachineOK, DataIsFetched, Untouched
<1>3. Synchronised(n)' = Synchronised(n)
  <2>1. {i \in DOMAIN versions : versions[i].machineId = n}'
            = {i \in DOMAIN versions : versions[i].machineId = n}
    BY DEF Kept
  <2> QED BY <2>1 DEF Synchronised, Untouched
<1>4. Known(n)' = Known(n)
  BY DEF Known, Untouched
<1>5. SynchronisedIsKnown(n)'
  <2> SUFFICES ASSUME NEW ref \in Synchronised(n)
               PROVE  IsKnown(ref, Known(n))'
    BY <1>3 DEF SynchronisedIsKnown
  <2>1. IsKnown(ref, Known(n))
    BY DEF MachineOK, SynchronisedIsKnown
  <2> DEFINE texts == Known(n)
  <2>2. texts' = texts
    BY <1>4
  <2>3. ref \in Int /\ ref <= Len(versions)
    BY SynchronisedRefs
  <2> HIDE DEF texts
  <2>4. IsKnown(ref, texts)
    BY <2>1 DEF texts
  <2>5. ref > 0 => versions'[ref] = versions[ref]
    BY <2>3 DEF Kept
  <2>6. IsKnown(ref, texts)'
    BY <2>2, <2>4, <2>5 DEF IsKnown, Exists, Kept
  <2> QED BY <2>6 DEF texts
<1>6. InConflicts(n)' <=> InConflicts(n)
  BY DEF InConflicts, Untouched, Null
<1>7. IsDeciding(n)' <=> IsDeciding(n)
  BY <1>6 DEF IsDeciding, Untouched
<1>8. RemoteIsNewer(n)'
  <2>1. RemoteIsNewer(n)
    BY DEF MachineOK
  <2>2. Null' = Null
    BY DEF Null
  <2> HIDE DEF Null
  <2> QED BY <1>3, <1>7, <2>1, <2>2 DEF RemoteIsNewer, Untouched
<1>9. PreviewIsTrue(n)'
  <2>1. PreviewIsTrue(n)
    BY DEF MachineOK
  <2> DEFINE ref == remoteUserData[n].ref
  <2>2. ref \in Int /\ ref <= Len(versions) /\ ref' = ref
    <3>1. IsFetched(remoteUserData[n])
      BY DEF MachineOK, DataIsFetched
    <3>2. ref \in -1..Len(versions)
      BY <1>1, <3>1, FetchedRef
    <3> QED BY <3>2 DEF Untouched, Kept
  <2>3. Knows(ref)' = Knows(ref)
    <3>1. ref > 0 => ref \in 1..Len(versions)
      BY <2>2 DEF Kept
    <3> QED BY <2>2, <3>1 DEF Knows, Kept
  <2>5. IsKnown(ref, syncPreview[n].knows \cup {syncPreview[n].content})
            => IsKnown(ref, syncPreview[n].knows \cup {syncPreview[n].content})'
    <3> DEFINE texts == syncPreview[n].knows \cup {syncPreview[n].content}
    <3>1. texts' = texts
      BY DEF Untouched
    <3> HIDE DEF texts, ref
    <3>2. IsKnown(ref, texts) => IsKnown(ref, texts)'
      BY <2>2, <3>1 DEF IsKnown, Exists, Kept
    <3> QED BY <3>2 DEF texts, ref
  <2>6. IsKnown(ref, Known(n)) => IsKnown(ref, Known(n))'
    <3> DEFINE texts == Known(n)
    <3>1. texts' = texts
      BY <1>4
    <3> HIDE DEF texts, ref
    <3>2. IsKnown(ref, texts) => IsKnown(ref, texts)'
      BY <2>2, <3>1 DEF IsKnown, Exists, Kept
    <3> QED BY <3>2 DEF texts, ref
  <2>7. Exists(syncPreview[n].fileContent)' => Exists(syncPreview[n].fileContent)
    BY DEF Exists, Kept, Untouched
  <2> DEFINE A == pc[n] \in {"applyLocal", "applyRemote"} \/ InConflicts(n)
             B == pc[n] \in {"applyLocal", "applyRemote"}
             preview == syncPreview[n]
             remote == remoteUserData[n]
  <2>8. (A => Knows(ref) \subseteq preview.knows)'
    BY <1>6, <2>1, <2>3 DEF PreviewIsTrue, Untouched
  <2>9. (InConflicts(n) => preview.fileContent \in Known(n))'
    BY <1>4, <1>6, <2>1 DEF PreviewIsTrue, Untouched
  <2>10. (B => IsKnown(ref, preview.knows \cup {preview.content}))'
    BY <2>1, <2>5 DEF PreviewIsTrue, Untouched
  <2>11. (pc[n] = "applyRemote" => preview.content \in Known(n))'
    BY <1>4, <2>1 DEF PreviewIsTrue, Untouched
  <2>12. (pc[n] = "applyLocal" =>
            /\ preview.remoteChange => applying[n]
            /\ ~preview.remoteChange => preview.content = remote.text
            /\ (~applying[n] /\ ~preview.acceptRemote /\ Exists(preview.fileContent)) =>
                  preview.fileContent \in Knows(remote.ref) \cup {remote.text})'
    BY <2>1, <2>3, <2>7 DEF PreviewIsTrue, Untouched
  <2>13. (pc[n] \in {"saveState", "saveResource"} => IsKnown(ref, Known(n)))'
    BY <2>1, <2>6 DEF PreviewIsTrue, Untouched
  <2> QED BY <2>8, <2>9, <2>10, <2>11, <2>12, <2>13 DEF PreviewIsTrue
<1> QED BY <1>2, <1>5, <1>8, <1>9 DEF MachineOK
-----------------------------------------------------------------------------
\* Types

\* Init sets every variable to a value of its type.
LEMMA TypeInit == Init => TypeOK
<1>1. NoPreview \in Preview
  BY BoundsAssumption DEF NoPreview, Preview, Texts
<1>2. Null \in UserData
  BY BoundsAssumption DEF Null, UserData, Texts
<1> HIDE DEF NoPreview, Preview, Null, UserData
<1> QED BY <1>1, <1>2, BoundsAssumption DEF Init, TypeOK, Texts

\* A user's edit keeps the types.
LEMMA TypeNewText ==
    ASSUME TypeOK, NEW m \in Machines, NewText(m), absent' = absent \/ absent' = absent \cup {edits + 1}
    PROVE  TypeOK'
<1>1. edits + 1 \in Texts
  BY BoundsAssumption DEF NewText, TypeOK, Texts
<1>2. /\ file' \in [Machines -> Texts] /\ knows' \in [Machines -> SUBSET Texts]
      /\ absent' \subseteq Texts /\ edits' \in 0..MaxEdits
  BY <1>1, BoundsAssumption, ZenonT(30) DEF NewText, TypeOK, Texts
<1> QED BY <1>2 DEF NewText, TypeOK, storeVars, stateVars, syncVars

\* A synchroniser that ends keeps the types.
LEMMA TypeEnds ==
    ASSUME TypeOK, NEW m \in Machines, NEW s \in {"idle", "syncing", "conflicts"},
           NEW keep \in BOOLEAN, Ends(m, s, keep)
    PROVE  /\ status' \in [Machines -> {"idle", "syncing", "conflicts"}]
           /\ pc' \in [Machines -> {"idle", "fetch", "refetch", "preview", "applyLocal",
                                    "applyRemote", "saveState", "saveResource"}]
           /\ applying' \in [Machines -> BOOLEAN]
           /\ latestRef' \in [Machines -> 0..Len(versions)]
           /\ remoteUserData' \in [Machines -> UserData]
           /\ lastSyncUserData' \in [Machines -> UserData]
           /\ syncPreview' \in [Machines -> Preview]
<1>1. NoPreview \in Preview
  BY BoundsAssumption DEF NoPreview, Preview, Texts
<1>2. Null \in UserData
  BY BoundsAssumption DEF Null, UserData, Texts
<1>3. Len(versions) \in Nat
  BY DEF TypeOK
<1> HIDE DEF NoPreview, Preview, Null, UserData
<1>4. /\ remoteUserData \in [Machines -> UserData]
      /\ lastSyncUserData \in [Machines -> UserData]
      /\ syncPreview \in [Machines -> Preview]
  BY DEF TypeOK
<1>5. /\ remoteUserData' \in [Machines -> UserData]
      /\ lastSyncUserData' \in [Machines -> UserData]
      /\ syncPreview' \in [Machines -> Preview]
  <2>1. CASE keep
    BY <1>4, <2>1 DEF Ends
  <2>2. CASE ~keep
    BY <1>1, <1>2, <1>4, <2>2 DEF Ends
  <2> QED BY <2>1, <2>2
<1>6. /\ status' \in [Machines -> {"idle", "syncing", "conflicts"}]
      /\ pc' \in [Machines -> {"idle", "fetch", "refetch", "preview", "applyLocal",
                               "applyRemote", "saveState", "saveResource"}]
      /\ applying' \in [Machines -> BOOLEAN]
      /\ latestRef' \in [Machines -> 0..Len(versions)]
  BY <1>3 DEF Ends, TypeOK
<1> QED BY <1>5, <1>6

\* So does one that fails.
LEMMA ThrowsEnds ==
    ASSUME TypeOK, NEW m \in Machines, Throws(m)
    PROVE  \E s \in {"idle", "syncing", "conflicts"}, keep \in BOOLEAN :
              Ends(m, s, keep) /\ (keep => s = "syncing")
<1>1. CASE applying[m]
  BY <1>1 DEF Throws
<1>2. CASE ~applying[m] /\ status[m] = "conflicts"
  <2>1. Ends(m, "conflicts", FALSE)
    BY <1>2 DEF Throws
  <2> QED BY <2>1
<1>3. CASE ~applying[m] /\ status[m] /= "conflicts"
  <2>1. Ends(m, "idle", FALSE)
    BY <1>3 DEF Throws
  <2> QED BY <2>1
<1> QED BY <1>1, <1>2, <1>3

\* What getLastSyncUserData returns, and leaves in the file, is data of the store.
LEMMA LastSyncIsFetched ==
    ASSUME TypeOK, NEW m \in Machines, IsFetched(lastSyncResource[m])
    PROVE  /\ GetLastSyncUserData(m) \in UserData /\ IsFetched(GetLastSyncUserData(m))
           /\ LastSyncResource(m) \in UserData /\ IsFetched(LastSyncResource(m))
           /\ GetLastSyncUserData(m) = Null
              \/ GetLastSyncUserData(m).ref = lastSyncUserDataState[m]
<1>1. Null \in UserData /\ IsFetched(Null)
  BY BoundsAssumption DEF Null, UserData, Texts, IsFetched
<1>2. lastSyncResource[m] \in UserData
  BY DEF TypeOK
<1>3. ASSUME NEW ref \in (pruned + 1)..Len(versions)
      PROVE  At(ref) \in UserData /\ IsFetched(At(ref)) /\ At(ref).ref = ref
  <2>1. Len(versions) \in Nat /\ DOMAIN versions = 1..Len(versions) /\ pruned \in Nat
    BY DEF TypeOK
  <2>2. ref \in DOMAIN versions /\ ref \in Int
    BY <2>1
  <2>3. versions[ref] \in Version
    BY <2>2 DEF TypeOK
  <2>4. At(ref) \in UserData
    BY <2>2, <2>3 DEF At, UserData, Version
  <2>5. At(ref).ref = ref
    BY DEF At
  <2> QED BY <2>2, <2>4, <2>5 DEF IsFetched
<1> HIDE DEF Null, UserData
<1>4. /\ GetLastSyncUserData(m) \in UserData /\ IsFetched(GetLastSyncUserData(m))
      /\ GetLastSyncUserData(m) = Null
         \/ GetLastSyncUserData(m).ref = lastSyncUserDataState[m]
  BY <1>1, <1>2, <1>3 DEF GetLastSyncUserData
<1>5. LastSyncResource(m) \in UserData /\ IsFetched(LastSyncResource(m))
  BY <1>1, <1>2, <1>4 DEF LastSyncResource
<1> QED BY <1>4, <1>5

\* What getLatestRemoteUserData takes from the store is the newest version.
LEMMA LatestIsFetched ==
    ASSUME TypeOK
    PROVE  /\ Latest \in UserData /\ IsFetched(Latest) /\ Latest.ref = Len(versions)
           /\ Latest /= Null
<1>1. Len(versions) \in Nat /\ DOMAIN versions = 1..Len(versions)
  BY DEF TypeOK
<1>2. CASE versions = <<>>
  BY <1>2, BoundsAssumption DEF Latest, NoResource, Null, UserData, Texts, IsFetched
<1>3. CASE versions /= <<>>
  <2>1. Len(versions) \in DOMAIN versions
    BY <1>1, <1>3 DEF TypeOK
  <2>2. versions[Len(versions)] \in Version
    BY <2>1 DEF TypeOK
  <2>3. At(Len(versions)) \in UserData /\ At(Len(versions)).ref = Len(versions)
    BY <1>1, <2>2 DEF At, UserData, Version
  <2>4. Latest = At(Len(versions))
    BY <1>3 DEF Latest
  <2>5. Latest /= Null
    BY <1>1, <2>3, <2>4 DEF Null
  <2> QED BY <2>1, <2>3, <2>4, <2>5 DEF IsFetched
<1> QED BY <1>2, <1>3
\* merge gives a preview.
LEMMA MergeType ==
    ASSUME NEW local \in Texts, NEW remote \in Texts, NEW base
    PROVE  Merge(local, remote, base) \in Preview
<1>1. 0 \in Texts
  BY BoundsAssumption DEF Texts
<1> QED BY <1>1 DEF Merge, Preview

\* The preview that generateSyncPreview makes, as in GeneratePreview
Remote(m) == remoteUserData[m]
FromCurrentMachine(m) == Remote(m).machineId = m
Base(m) ==
    IF lastSyncUserData[m] = Null /\ FromCurrentMachine(m) THEN Remote(m) ELSE lastSyncUserData[m]
AcceptsRemote(m) ==
    ~FromCurrentMachine(m) /\ lastSyncUserData[m] = Null /\ lastSyncUserDataState[m] /= -1
MergeResult(m) ==
    IF AcceptsRemote(m)
    THEN [fileContent |-> file[m], content |-> Remote(m).text, localChange |-> TRUE,
          remoteChange |-> FALSE, hasConflicts |-> FALSE, acceptRemote |-> TRUE, knows |-> {}]
    ELSE IF HasSyncData(Remote(m)) THEN Merge(file[m], Remote(m).text, Base(m).text)
    ELSE [NoPreview EXCEPT !.fileContent = file[m], !.content = file[m],
                           !.remoteChange = Exists(file[m])]
NewPreview(m) == [MergeResult(m) EXCEPT !.knows = knows[m] \cup Knows(Remote(m).ref)]

\* What GeneratePreview does, in these words.
LEMMA GeneratePreviewIs ==
    ASSUME NEW m \in Machines, GeneratePreview(m)
    PROVE  /\ pc[m] = "preview"
           /\ syncPreview' = [syncPreview EXCEPT ![m] = NewPreview(m)]
           /\ IF MergeResult(m).hasConflicts
              THEN /\ status' = [status EXCEPT ![m] = "conflicts"]
                   /\ pc' = [pc EXCEPT ![m] = "idle"]
                   /\ latestRef' = [latestRef EXCEPT ![m] = 0]
                   /\ UNCHANGED applying
              ELSE GoesOn(m, FirstStep(MergeResult(m)))
           /\ UNCHANGED <<storeVars, file, stateVars, backups, remoteUserData, lastSyncUserData,
                          boundVars, historyVars>>
BY DEF GeneratePreview, NewPreview, MergeResult, AcceptsRemote, Base, FromCurrentMachine, Remote

\* What a preview may be made from is a set of texts.
LEMMA KnowsType ==
    ASSUME IInv, NEW m \in Machines
    PROVE  Knows(remoteUserData[m].ref) \subseteq Texts
<1>1. remoteUserData[m] \in UserData /\ IsFetched(remoteUserData[m])
  BY DEF IInv, TypeOK, DataIsFetched
<1>2. remoteUserData[m].ref > 0 => remoteUserData[m].ref \in DOMAIN versions
  BY <1>1, FetchedRef DEF IInv
<1>3. \A i \in DOMAIN versions : versions[i] \in Version
  BY DEF IInv, TypeOK
<1> QED BY <1>2, <1>3 DEF Knows, Version

\* The result of generateSyncPreview is a preview.
LEMMA NewPreviewType ==
    ASSUME IInv, NEW m \in Machines
    PROVE  /\ MergeResult(m) \in Preview /\ NewPreview(m) \in Preview
           /\ NewPreview(m).knows = knows[m] \cup Knows(Remote(m).ref)
           /\ NewPreview(m).fileContent = MergeResult(m).fileContent
           /\ NewPreview(m).content = MergeResult(m).content
           /\ NewPreview(m).localChange = MergeResult(m).localChange
           /\ NewPreview(m).remoteChange = MergeResult(m).remoteChange
           /\ NewPreview(m).hasConflicts = MergeResult(m).hasConflicts
           /\ NewPreview(m).acceptRemote = MergeResult(m).acceptRemote
<1>1. remoteUserData[m] \in UserData /\ file[m] \in Texts /\ knows[m] \subseteq Texts
  BY DEF IInv, TypeOK
<1>2. remoteUserData[m].text \in Texts
  BY <1>1 DEF UserData
<1>3. NoPreview \in Preview
  BY BoundsAssumption DEF NoPreview, Preview, Texts
<1>4. MergeResult(m) \in Preview
  <2>1. CASE AcceptsRemote(m)
    BY <1>1, <1>2, <2>1 DEF MergeResult, Preview, Remote
  <2>2. CASE ~AcceptsRemote(m) /\ HasSyncData(Remote(m))
    BY <1>1, <1>2, <2>2, MergeType DEF MergeResult, Remote
  <2>3. CASE ~AcceptsRemote(m) /\ ~HasSyncData(Remote(m))
    <3>1. MergeResult(m) = [NoPreview EXCEPT !.fileContent = file[m], !.content = file[m],
                                             !.remoteChange = Exists(file[m])]
      BY <2>3 DEF MergeResult
    <3>2. Exists(file[m]) \in BOOLEAN
      BY DEF Exists
    <3> QED BY <1>1, <1>3, <3>1, <3>2 DEF Preview
  <2> QED BY <2>1, <2>2, <2>3
<1>5. knows[m] \cup Knows(Remote(m).ref) \in SUBSET Texts
  BY <1>1, KnowsType DEF Remote
<1> QED BY <1>4, <1>5 DEF NewPreview, Preview
\* Every step of a machine keeps the types.
LEMMA TypeStep ==
    ASSUME IInv, NEW m \in Machines,
           \/ StartSync(m) \/ Fetch(m) \/ Refetch(m) \/ FetchFails(m) \/ GeneratePreview(m)
           \/ SaveState(m) \/ SaveResource(m) \/ LocalChangeInConflicts(m)
           \/ Crash(m) \/ ResetLocal(m)
    PROVE  TypeOK'
<1>1. TypeOK /\ IsFetched(lastSyncResource[m])
  BY DEF IInv, DataIsFetched
<1>2. /\ remoteUserData[m] \in UserData
      /\ remoteUserData[m].ref \in -1..Len(versions)
  BY FetchedRef DEF IInv, TypeOK, DataIsFetched
<1>3. Len(versions) \in Nat
  BY <1>1 DEF TypeOK
<1>4. Null \in UserData /\ NoPreview \in Preview
  BY BoundsAssumption DEF Null, UserData, NoPreview, Preview, Texts
<1>5. CASE StartSync(m)
  BY <1>1, <1>3, <1>5 DEF StartSync, TypeOK, storeVars, stateVars, boundVars, historyVars
<1>6. ASSUME NEW new \in UserData, NEW last \in UserData, NEW resource \in UserData,
             remoteUserData' = [remoteUserData EXCEPT ![m] = new],
             lastSyncUserData' = [lastSyncUserData EXCEPT ![m] = last],
             lastSyncResource' = [lastSyncResource EXCEPT ![m] = resource],
             GoesOn(m, "preview"),
             UNCHANGED <<storeVars, file, lastSyncUserDataState, olderState, backups, syncPreview,
                         boundVars, historyVars>>
      PROVE  TypeOK'
  BY <1>1, <1>6 DEF GoesOn, TypeOK, storeVars, boundVars, historyVars
<1>7. /\ GetLastSyncUserData(m) \in UserData /\ LastSyncResource(m) \in UserData
      /\ Latest \in UserData /\ GetLatestRemoteUserData(m, GetLastSyncUserData(m)) \in UserData
  BY <1>1, LastSyncIsFetched, LatestIsFetched DEF GetLatestRemoteUserData
<1>8. CASE Fetch(m)
  BY <1>6, <1>7, <1>8 DEF Fetch
<1>9. CASE Refetch(m)
  BY <1>6, <1>7, <1>9 DEF Refetch
<1>10. CASE FetchFails(m)
  <2>1. PICK s \in {"idle", "syncing", "conflicts"}, keep \in BOOLEAN : Ends(m, s, keep)
    BY <1>1, <1>10, ThrowsEnds DEF FetchFails
  <2>2. faults' \in 0..MaxFaults
    BY <1>1, <1>10, BoundsAssumption DEF FetchFails, TypeOK
  <2>3. UNCHANGED <<storeVars, file, stateVars, backups, edits, historyVars>>
    BY <1>10 DEF FetchFails
  <2> QED BY <1>1, <2>1, <2>2, <2>3, TypeEnds DEF TypeOK, storeVars, stateVars, historyVars
<1>11. CASE GeneratePreview(m)
  <2>1. syncPreview' \in [Machines -> Preview]
    <3>1. NewPreview(m) \in Preview /\ syncPreview \in [Machines -> Preview]
      BY <1>1, NewPreviewType DEF TypeOK
    <3> QED BY <1>11, <3>1, GeneratePreviewIs
  <2>2. FirstStep(MergeResult(m)) \in {"applyLocal", "applyRemote", "saveState"}
    BY DEF FirstStep
  <2>3. /\ status' \in [Machines -> {"idle", "syncing", "conflicts"}]
        /\ pc' \in [Machines -> {"idle", "fetch", "refetch", "preview", "applyLocal",
                                 "applyRemote", "saveState", "saveResource"}]
        /\ applying' \in [Machines -> BOOLEAN]
        /\ latestRef' \in [Machines -> 0..Len(versions)]
    <3>1. CASE MergeResult(m).hasConflicts
      <4>1. /\ status' = [status EXCEPT ![m] = "conflicts"]
            /\ pc' = [pc EXCEPT ![m] = "idle"]
            /\ latestRef' = [latestRef EXCEPT ![m] = 0]
            /\ applying' = applying
        BY <1>11, <3>1, GeneratePreviewIs
      <4> QED BY <1>1, <1>3, <4>1 DEF TypeOK
    <3>2. CASE ~MergeResult(m).hasConflicts
      <4>1. GoesOn(m, FirstStep(MergeResult(m)))
        BY <1>11, <3>2, GeneratePreviewIs
      <4> QED BY <1>1, <2>2, <4>1 DEF GoesOn, TypeOK
    <3> QED BY <3>1, <3>2
  <2>4. UNCHANGED <<storeVars, file, stateVars, backups, remoteUserData, lastSyncUserData,
                    boundVars, historyVars>>
    BY <1>11, GeneratePreviewIs
  <2> QED BY <1>1, <2>1, <2>3, <2>4
          DEF TypeOK, storeVars, stateVars, boundVars, historyVars
<1>12. CASE SaveState(m)
  <2>1. CASE IsNews(m)
    <3>1. /\ lastSyncUserDataState' \in [Machines -> -1..Len(versions)]
          /\ olderState' \in [Machines -> -1..Len(versions)]
      BY <1>1, <1>2, <1>12, <2>1 DEF SaveState, TypeOK
    <3>2. /\ GoesOn(m, "saveResource")
          /\ UNCHANGED <<remoteUserData, lastSyncUserData, syncPreview, interrupted>>
          /\ UNCHANGED <<storeVars, file, lastSyncResource, backups, boundVars, absent, knows>>
      BY <1>12, <2>1 DEF SaveState
    <3> QED BY <1>1, <3>1, <3>2 DEF GoesOn, TypeOK, storeVars, boundVars
  <2>2. CASE ~IsNews(m)
    <3>1. /\ Ends(m, "idle", FALSE)
          /\ interrupted' \in [Machines -> BOOLEAN]
          /\ UNCHANGED <<storeVars, file, stateVars, backups, boundVars, absent, knows>>
      BY <1>1, <1>12, <2>2 DEF SaveState, TypeOK, stateVars
    <3> QED BY <1>1, <3>1, TypeEnds DEF TypeOK, storeVars, stateVars, boundVars
  <2> QED BY <2>1, <2>2
<1>13. CASE SaveResource(m)
  <2>1. /\ Ends(m, "idle", FALSE)
        /\ interrupted' \in [Machines -> BOOLEAN]
        /\ UNCHANGED <<storeVars, file, lastSyncUserDataState, olderState, backups, boundVars,
                       absent, knows>>
    BY <1>1, <1>13 DEF SaveResource, TypeOK
  <2>2. lastSyncResource' \in [Machines -> UserData]
    BY <1>1, <1>2, <1>13 DEF SaveResource, TypeOK
  <2> QED BY <1>1, <2>1, <2>2, TypeEnds DEF TypeOK, storeVars, boundVars
<1>14. CASE LocalChangeInConflicts(m)
  <2>1. syncPreview' \in [Machines -> Preview]
    BY <1>1, <1>4, <1>14 DEF LocalChangeInConflicts, TypeOK
  <2> QED BY <1>1, <1>14, <2>1
          DEF LocalChangeInConflicts, GoesOn, TypeOK, storeVars, stateVars, boundVars, historyVars
<1>15. CASE Crash(m)
  <2>1. Ends(m, "idle", FALSE)
    BY <1>15 DEF Crash
  <2>2. faults' \in 0..MaxFaults
    BY <1>1, <1>15, BoundsAssumption DEF Crash, TypeOK
  <2>3. /\ lastSyncUserDataState' \in [Machines -> -1..Len(versions)]
        /\ olderState' \in [Machines -> -1..Len(versions)]
    BY <1>1, <1>3, <1>15 DEF Crash, TypeOK
  <2>4. interrupted' \in [Machines -> BOOLEAN]
    <3>1. PICK b \in BOOLEAN : interrupted' = [interrupted EXCEPT ![m] = b]
      <4>1. PICK state \in {lastSyncUserDataState[m], olderState[m]} :
               interrupted' = [interrupted EXCEPT ![m] =
                  interrupted[m] \/ pc[m] /= "idle" \/ state /= lastSyncUserDataState[m]]
        BY <1>15 DEF Crash
      <4> QED BY <4>1
    <3>2. interrupted \in [Machines -> BOOLEAN]
      BY <1>1 DEF TypeOK
    <3> QED BY <3>1, <3>2
  <2>5. UNCHANGED <<storeVars, file, lastSyncResource, backups, edits, absent, knows>>
    BY <1>15 DEF Crash
  <2> QED BY <1>1, <2>1, <2>2, <2>3, <2>4, <2>5, TypeEnds DEF TypeOK, storeVars
<1>16. CASE ResetLocal(m)
  <2>1. Ends(m, "idle", FALSE)
    BY <1>16 DEF ResetLocal
  <2>2. faults' \in 0..MaxFaults
    BY <1>1, <1>16, BoundsAssumption DEF ResetLocal, TypeOK
  <2>3. /\ lastSyncUserDataState' \in [Machines -> -1..Len(versions)]
        /\ olderState' \in [Machines -> -1..Len(versions)]
        /\ interrupted' \in [Machines -> BOOLEAN]
    BY <1>1, <1>3, <1>16 DEF ResetLocal, TypeOK
  <2>4. lastSyncResource' \in [Machines -> UserData]
    BY <1>1, <1>4, <1>16 DEF ResetLocal, TypeOK
  <2>5. UNCHANGED <<storeVars, file, backups, edits, absent, knows>>
    BY <1>16 DEF ResetLocal
  <2> QED BY <1>1, <2>1, <2>2, <2>3, <2>4, <2>5, TypeEnds DEF TypeOK, storeVars
<1> QED BY <1>5, <1>8, <1>9, <1>10, <1>11, <1>12, <1>13, <1>14, <1>15, <1>16
\* Updating the file keeps the types.
LEMMA TypeApplyLocal ==
    ASSUME IInv, NEW m \in Machines, ApplyLocal(m)
    PROVE  TypeOK'
<1>1. TypeOK
  BY DEF IInv
<1>2. syncPreview[m] \in Preview /\ NoPreview \in Preview
  BY <1>1, BoundsAssumption DEF TypeOK, NoPreview, Preview, Texts
<1>3. /\ syncPreview[m].content \in Texts /\ syncPreview[m].fileContent \in Texts
      /\ syncPreview[m].knows \subseteq Texts
  BY <1>2 DEF Preview
<1>4. backups' \in [Machines -> SUBSET Texts]
  BY <1>1, <1>3 DEF ApplyLocal, TypeOK
<1>5. UNCHANGED <<storeVars, stateVars, boundVars, absent, interrupted>>
  BY DEF ApplyLocal
<1>6. CASE LocalPrecondition(m)
  <2>1. file' \in [Machines -> Texts] /\ knows' \in [Machines -> SUBSET Texts]
    BY <1>1, <1>3, <1>6 DEF ApplyLocal, TypeOK
  <2>2. /\ pc' \in [Machines -> {"idle", "fetch", "refetch", "preview", "applyLocal",
                                 "applyRemote", "saveState", "saveResource"}]
        /\ UNCHANGED <<status, applying, latestRef, remoteUserData, lastSyncUserData, syncPreview>>
    BY <1>1, <1>6 DEF ApplyLocal, GoesOn, TypeOK
  <2> QED BY <1>1, <1>4, <1>5, <2>1, <2>2 DEF TypeOK, storeVars, stateVars, boundVars
<1>7. CASE ~LocalPrecondition(m)
  <2>1. /\ AfterLocalPreconditionFailed(m)
        /\ UNCHANGED <<file, knows, remoteUserData, lastSyncUserData>>
    BY <1>7 DEF ApplyLocal
  <2>2. CASE applying[m]
    <3>1. Ends(m, "syncing", TRUE)
      BY <2>1, <2>2 DEF AfterLocalPreconditionFailed
    <3> QED BY <1>1, <1>4, <1>5, <2>1, <3>1, TypeEnds DEF TypeOK, storeVars, stateVars, boundVars
  <2>3. CASE ~applying[m]
    <3>1. GoesOn(m, "preview") /\ syncPreview' = [syncPreview EXCEPT ![m] = NoPreview]
      BY <2>1, <2>3 DEF AfterLocalPreconditionFailed
    <3>2. syncPreview' \in [Machines -> Preview]
      BY <1>1, <1>2, <3>1 DEF TypeOK
    <3> QED BY <1>1, <1>4, <1>5, <2>1, <3>1, <3>2
            DEF GoesOn, TypeOK, storeVars, stateVars, boundVars
  <2> QED BY <2>2, <2>3
<1> QED BY <1>6, <1>7

\* The version that writeResource adds is one.
LEMMA WriteIs ==
    ASSUME IInv, NEW m \in Machines, Write(m), absent' = absent
    PROVE  /\ Kept /\ Len(versions') = Len(versions) + 1
           /\ versions' \in Seq(Version)
           /\ versions'[Len(versions) + 1].text = syncPreview[m].content
           /\ versions'[Len(versions) + 1].machineId = m
           /\ versions'[Len(versions) + 1].knows = syncPreview[m].knows
           /\ knows' = [knows EXCEPT ![m] = knows[m] \cup syncPreview[m].knows]
           /\ knows' \in [Machines -> SUBSET Texts]
<1> DEFINE v == [text |-> syncPreview[m].content, machineId |-> m,
                 knows |-> syncPreview[m].knows, interrupted |-> interrupted[m]]
<1>1. TypeOK
  BY DEF IInv
<1>2. syncPreview[m] \in Preview /\ interrupted[m] \in BOOLEAN
  BY <1>1 DEF TypeOK
<1>3. syncPreview[m].content \in Texts /\ syncPreview[m].knows \subseteq Texts
  BY <1>2 DEF Preview
<1>4. v \in Version
  BY <1>2, <1>3 DEF Version
<1>5. versions' = Append(versions, v)
  BY DEF Write, Written
<1>6. v.text = syncPreview[m].content /\ v.machineId = m /\ v.knows = syncPreview[m].knows
  OBVIOUS
<1>7. /\ knows' = [knows EXCEPT ![m] = knows[m] \cup syncPreview[m].knows]
      /\ knows' \in [Machines -> SUBSET Texts]
  BY <1>1, <1>3 DEF Write, TypeOK
<1> HIDE DEF v
<1>8. /\ Kept /\ Len(versions') = Len(versions) + 1
      /\ versions' \in Seq(Version)
      /\ versions'[Len(versions) + 1] = v
  BY <1>1, <1>4, <1>5, AppendKeeps
<1> QED BY <1>6, <1>7, <1>8

\* The types that depend on the store allow for more versions.
LEMMA TypeMoreVersions ==
    ASSUME TypeOK, Kept
    PROVE  /\ lastSyncUserDataState \in [Machines -> -1..Len(versions')]
           /\ olderState \in [Machines -> -1..Len(versions')]
           /\ latestRef \in [Machines -> 0..Len(versions')]
           /\ -1..Len(versions) \subseteq -1..Len(versions')
           /\ 0..Len(versions) \subseteq 0..Len(versions')
<1>1. -1..Len(versions) \subseteq -1..Len(versions') /\ 0..Len(versions) \subseteq 0..Len(versions')
  BY DEF Kept
<1> QED BY <1>1 DEF TypeOK

\* Updating the store keeps the types.
LEMMA TypeApplyRemote ==
    ASSUME IInv, NEW m \in Machines, ApplyRemote(m)
    PROVE  TypeOK'
<1>1. TypeOK
  BY DEF IInv
<1>2. syncPreview[m] \in Preview /\ NoPreview \in Preview
  BY <1>1, BoundsAssumption DEF TypeOK, NoPreview, Preview, Texts
<1>3. UNCHANGED <<pruned, file, stateVars, backups, boundVars, absent>>
  BY DEF ApplyRemote
<1>4. CASE IfMatch(m)
  <2>1. /\ Write(m) /\ GoesOn(m, "saveState")
        /\ UNCHANGED <<lastSyncUserData, syncPreview, interrupted>>
        /\ remoteUserData' = [remoteUserData EXCEPT ![m] =
              [ref |-> Len(versions) + 1, text |-> syncPreview[m].content, machineId |-> m]]
    BY <1>4 DEF ApplyRemote
  <2>2. Kept /\ versions' \in Seq(Version) /\ knows' \in [Machines -> SUBSET Texts]
    BY <1>3, <2>1, WriteIs
  <2>3. remoteUserData' \in [Machines -> UserData]
    <3>1. [ref |-> Len(versions) + 1, text |-> syncPreview[m].content, machineId |-> m]
              \in UserData
      BY <1>2, <2>2 DEF Kept, Preview, UserData
    <3>2. remoteUserData \in [Machines -> UserData]
      BY <1>1 DEF TypeOK
    <3> QED BY <2>1, <3>1, <3>2
  <2>4. /\ lastSyncUserDataState' \in [Machines -> -1..Len(versions')]
        /\ olderState' \in [Machines -> -1..Len(versions')]
        /\ latestRef' \in [Machines -> 0..Len(versions')]
    BY <1>1, <1>3, <2>1, <2>2, TypeMoreVersions DEF stateVars, GoesOn
  <2> QED BY <1>1, <1>3, <2>1, <2>2, <2>3, <2>4 DEF GoesOn, TypeOK, stateVars, boundVars
<1>5. CASE ~IfMatch(m) /\ applying[m]
  <2>1. /\ Ends(m, "syncing", TRUE) /\ UNCHANGED <<versions, knows>>
        /\ interrupted' = [interrupted EXCEPT ![m] = TRUE]
    BY <1>5 DEF ApplyRemote
  <2>2. interrupted' \in [Machines -> BOOLEAN]
    BY <1>1, <2>1 DEF TypeOK
  <2> QED BY <1>1, <1>3, <2>1, <2>2, TypeEnds DEF TypeOK, stateVars, boundVars
<1>6. CASE ~IfMatch(m) /\ ~applying[m]
  <2>1. /\ GoesOn(m, "refetch") /\ syncPreview' = [syncPreview EXCEPT ![m] = NoPreview]
        /\ UNCHANGED <<remoteUserData, lastSyncUserData, interrupted, versions, knows>>
    BY <1>6 DEF ApplyRemote
  <2>2. syncPreview' \in [Machines -> Preview]
    BY <1>1, <1>2, <2>1 DEF TypeOK
  <2> QED BY <1>1, <1>3, <2>1, <2>2 DEF GoesOn, TypeOK, stateVars, boundVars
<1> QED BY <1>4, <1>5, <1>6

\* So does a write that fails, or whose answer is lost.
LEMMA TypeApplyRemoteFails ==
    ASSUME IInv, NEW m \in Machines, ApplyRemoteFails(m)
    PROVE  TypeOK'
<1>1. TypeOK
  BY DEF IInv
<1>2. UNCHANGED <<pruned, file, stateVars, backups, edits, absent>>
  BY DEF ApplyRemoteFails
<1>3. PICK s \in {"idle", "syncing", "conflicts"}, keep \in BOOLEAN : Ends(m, s, keep)
  BY <1>1, ThrowsEnds DEF ApplyRemoteFails
<1>4. faults' \in 0..MaxFaults /\ interrupted' \in [Machines -> BOOLEAN]
  BY <1>1, BoundsAssumption DEF ApplyRemoteFails, TypeOK
<1>5. Kept /\ versions' \in Seq(Version) /\ knows' \in [Machines -> SUBSET Texts]
  <2>1. CASE UNCHANGED <<versions, knows>>
    BY <1>1, <1>2, <2>1, StoreKept DEF TypeOK
  <2>2. CASE Write(m)
    BY <1>2, <2>2, WriteIs
  <2> QED BY <2>1, <2>2 DEF ApplyRemoteFails
<1>6. /\ lastSyncUserDataState' \in [Machines -> -1..Len(versions')]
      /\ olderState' \in [Machines -> -1..Len(versions')]
  BY <1>1, <1>2, <1>5, TypeMoreVersions DEF stateVars
<1>7. latestRef' \in [Machines -> 0..Len(versions')]
  <2>1. latestRef' \in [Machines -> 0..Len(versions)] /\ 0..Len(versions) \subseteq 0..Len(versions')
    BY <1>1, <1>3, <1>5, TypeEnds, TypeMoreVersions
  <2> QED BY <2>1
<1>8. /\ status' \in [Machines -> {"idle", "syncing", "conflicts"}]
      /\ pc' \in [Machines -> {"idle", "fetch", "refetch", "preview", "applyLocal",
                               "applyRemote", "saveState", "saveResource"}]
      /\ applying' \in [Machines -> BOOLEAN]
      /\ remoteUserData' \in [Machines -> UserData]
      /\ lastSyncUserData' \in [Machines -> UserData]
      /\ syncPreview' \in [Machines -> Preview]
  BY <1>1, <1>3, TypeEnds
<1> QED BY <1>1, <1>2, <1>4, <1>5, <1>6, <1>7, <1>8 DEF TypeOK, stateVars

\* The preview after accept()
AcceptedText(m, choice) ==
    CASE choice = "local" -> syncPreview[m].fileContent
      [] choice = "remote" -> remoteUserData[m].text
      [] OTHER -> edits + 1
AcceptedPreview(m, choice) ==
    [syncPreview[m] EXCEPT !.content = AcceptedText(m, choice),
                           !.localChange = choice /= "local",
                           !.remoteChange = choice /= "remote",
                           !.hasConflicts = FALSE,
                           !.knows = @ \cup {syncPreview[m].fileContent, remoteUserData[m].text}]

\* What Accept does, in these words.
LEMMA AcceptIs ==
    ASSUME TypeOK, NEW m \in Machines, NEW choice \in {"local", "remote", "preview"},
           Accept(m, choice)
    PROVE  LET p == AcceptedPreview(m, choice)
           IN  /\ InConflicts(m)
               /\ syncPreview' = [syncPreview EXCEPT ![m] = p] /\ p \in Preview
               /\ p.content = AcceptedText(m, choice)
               /\ p.localChange <=> choice /= "local"
               /\ p.remoteChange <=> choice /= "remote"
               /\ p.fileContent = syncPreview[m].fileContent
               /\ p.knows = syncPreview[m].knows
                            \cup {syncPreview[m].fileContent, remoteUserData[m].text}
               /\ pc' = [pc EXCEPT ![m] = FirstStep(p)]
               /\ edits' \in 0..MaxEdits
<1> DEFINE p == AcceptedPreview(m, choice)
<1>1. syncPreview[m] \in Preview /\ remoteUserData[m] \in UserData /\ edits \in 0..MaxEdits
      /\ syncPreview \in [Machines -> Preview]
  BY DEF TypeOK
<1>2. syncPreview[m].fileContent \in Texts /\ remoteUserData[m].text \in Texts
      /\ syncPreview[m].knows \subseteq Texts
  BY <1>1 DEF Preview, UserData
<1>3. choice = "preview" => edits < MaxEdits
  BY DEF Accept
<1>4. AcceptedText(m, choice) \in Texts /\ edits' \in 0..MaxEdits
  <2>1. CASE choice = "preview"
    BY <1>1, <1>3, <2>1, BoundsAssumption DEF AcceptedText, Texts, Accept
  <2>2. CASE choice /= "preview"
    BY <1>1, <1>2, <2>2 DEF AcceptedText, Accept
  <2> QED BY <2>1, <2>2
<1>5. /\ p \in Preview /\ p.content = AcceptedText(m, choice)
      /\ p.localChange <=> choice /= "local"
      /\ p.remoteChange <=> choice /= "remote"
      /\ p.fileContent = syncPreview[m].fileContent
      /\ p.knows = syncPreview[m].knows
                   \cup {syncPreview[m].fileContent, remoteUserData[m].text}
  BY <1>1, <1>2, <1>4 DEF AcceptedPreview, Preview
<1>6. syncPreview' = [syncPreview EXCEPT ![m] = p]
  BY DEF Accept, AcceptedPreview, AcceptedText
<1>7. syncPreview'[m] = p
  BY <1>1, <1>6
<1>8. pc' = [pc EXCEPT ![m] = FirstStep(p)]
  <2> HIDE DEF p
  <2> QED BY <1>7 DEF Accept
<1>9. InConflicts(m)
  BY DEF Accept
<1> HIDE DEF p
<1> QED BY <1>4, <1>5, <1>6, <1>8, <1>9 DEF p

\* A decision of the user keeps the types.
LEMMA TypeAccept ==
    ASSUME TypeOK, NEW m \in Machines, NEW choice \in {"local", "remote", "preview"},
           Accept(m, choice)
    PROVE  TypeOK'
<1> DEFINE p == AcceptedPreview(m, choice)
<1>1. /\ syncPreview' = [syncPreview EXCEPT ![m] = p] /\ p \in Preview
      /\ pc' = [pc EXCEPT ![m] = FirstStep(p)] /\ edits' \in 0..MaxEdits
  BY AcceptIs
<1> HIDE DEF p
<1>2. syncPreview' \in [Machines -> Preview]
  BY <1>1 DEF TypeOK
<1>3. /\ status' \in [Machines -> {"idle", "syncing", "conflicts"}]
      /\ pc' \in [Machines -> {"idle", "fetch", "refetch", "preview", "applyLocal",
                               "applyRemote", "saveState", "saveResource"}]
      /\ applying' \in [Machines -> BOOLEAN]
  BY <1>1 DEF Accept, FirstStep, TypeOK
<1>4. UNCHANGED <<storeVars, file, stateVars, backups, latestRef, remoteUserData,
                  lastSyncUserData, faults, historyVars>>
  BY DEF Accept
<1> QED BY <1>1, <1>2, <1>3, <1>4 DEF TypeOK, storeVars, stateVars, historyVars
-----------------------------------------------------------------------------
\* The steps keep the invariant

\* What was synchronised stays known, when the file forgets nothing and nothing
\* else counts as synchronised.
LEMMA SynchronisedKept ==
    ASSUME TypeOK, Kept, NEW m \in Machines, SynchronisedIsKnown(m),
           Synchronised(m)' \subseteq Synchronised(m), Known(m) \subseteq Known(m)'
    PROVE  SynchronisedIsKnown(m)'
<1> SUFFICES ASSUME NEW ref \in Synchronised(m)'
             PROVE  IsKnown(ref, Known(m))'
  BY DEF SynchronisedIsKnown
<1>1. ref \in Int /\ ref <= Len(versions)
  BY SynchronisedRefs
<1>2. IsKnown(ref, Known(m))
  BY DEF SynchronisedIsKnown
<1> DEFINE texts == Known(m)
           more == Known(m)'
<1>3. texts \subseteq more /\ IsKnown(ref, texts)
  BY <1>2
<1>4. ref > 0 => ref \in 1..Len(versions)
  BY <1>1 DEF Kept
<1> HIDE DEF texts, more
<1>5. ref > 0 /\ versions'[ref].text \notin absent' => versions'[ref].text \in more
  BY <1>3, <1>4 DEF Kept, IsKnown, Exists
<1> QED BY <1>5 DEF more, IsKnown, Exists

\* A synchroniser that has ended, and does not wait for the user, has no more
\* to answer for.
LEMMA EndedIsTrue ==
    ASSUME NEW m \in Machines, pc'[m] = "idle", ~InConflicts(m)'
    PROVE  RemoteIsNewer(m)' /\ PreviewIsTrue(m)'
BY DEF RemoteIsNewer, PreviewIsTrue, IsDeciding

\* Ends leaves such a synchroniser.
LEMMA EndsIs ==
    ASSUME IInv, NEW m \in Machines, NEW s, NEW keep \in BOOLEAN, Ends(m, s, keep),
           keep => s = "syncing", Kept, IsFetched(lastSyncResource[m])'
    PROVE  /\ pc'[m] = "idle" /\ RemoteIsNewer(m)' /\ PreviewIsTrue(m)' /\ DataIsFetched(m)'
           /\ \A n \in Machines \ {m} :
                 /\ status'[n] = status[n] /\ pc'[n] = pc[n] /\ applying'[n] = applying[n]
                 /\ latestRef'[n] = latestRef[n] /\ remoteUserData'[n] = remoteUserData[n]
                 /\ lastSyncUserData'[n] = lastSyncUserData[n] /\ syncPreview'[n] = syncPreview[n]
<1>1. TypeOK /\ DataIsFetched(m)
  BY DEF IInv
<1>2. pc'[m] = "idle" /\ status'[m] = s
  BY <1>1 DEF Ends, TypeOK
<1>3. IsFetched(Null)'
  BY DEF IsFetched, Null
<1>4. ~keep => remoteUserData'[m] = Null /\ lastSyncUserData'[m] = Null
  BY <1>1 DEF Ends, TypeOK
<1>5. keep => remoteUserData'[m] = remoteUserData[m] /\ lastSyncUserData'[m] = lastSyncUserData[m]
  BY DEF Ends
<1>6. ~InConflicts(m)'
  <2>1. Null' = Null
    BY DEF Null
  <2> HIDE DEF Null
  <2> QED BY <1>2, <1>4, <2>1 DEF InConflicts
<1>7. IsFetched(remoteUserData[m])' /\ IsFetched(lastSyncUserData[m])'
  <2>1. CASE keep
    <3>1. IsFetched(remoteUserData[m]) /\ IsFetched(lastSyncUserData[m])
      BY <1>1 DEF DataIsFetched
    <3> DEFINE a == remoteUserData[m]
               b == lastSyncUserData[m]
    <3>2. a' = a /\ b' = b
      BY <1>5, <2>1
    <3>3. IsFetched(a) /\ IsFetched(b)
      BY <3>1
    <3> HIDE DEF a, b
    <3>4. IsFetched(a)' /\ IsFetched(b)'
      BY <3>2, <3>3, FetchedKept
    <3> QED BY <3>4 DEF a, b
  <2>2. CASE ~keep
    <3>1. (remoteUserData[m])' = Null /\ (lastSyncUserData[m])' = Null
      BY <1>4, <2>2
    <3> QED BY <3>1 DEF IsFetched, Null
  <2> QED BY <2>1, <2>2
<1>8. \A n \in Machines \ {m} :
        /\ status'[n] = status[n] /\ pc'[n] = pc[n] /\ applying'[n] = applying[n]
        /\ latestRef'[n] = latestRef[n]
  BY <1>1 DEF Ends, TypeOK
<1>9. \A n \in Machines \ {m} :
        /\ remoteUserData'[n] = remoteUserData[n]
        /\ lastSyncUserData'[n] = lastSyncUserData[n] /\ syncPreview'[n] = syncPreview[n]
  <2>1. CASE keep
    BY <2>1 DEF Ends
  <2>2. CASE ~keep
    BY <1>1, <2>2 DEF Ends, TypeOK
  <2> QED BY <2>1, <2>2
<1> QED BY <1>2, <1>6, <1>7, <1>8, <1>9, EndedIsTrue DEF DataIsFetched

\* A step of machine m keeps the invariant if the rest of it holds afterwards.
LEMMA MachineStep ==
    ASSUME IInv, NEW m \in Machines, TypeOK', Kept, pruned' = pruned, VersionsBuildOn',
           \A n \in Machines \ {m} : Untouched(n),
           \A i \in 1..Len(versions') : i > Len(versions) => versions'[i].machineId = m,
           MachineOK(m)'
    PROVE  IInv'
<1>1. \A n \in Machines : MachineOK(n)
  BY DEF IInv, MachineOK
<1>2. ASSUME NEW n \in Machines PROVE MachineOK(n)'
  <2>1. CASE n = m
    BY <2>1
  <2>2. CASE n /= m
    <3>1. \A i \in 1..Len(versions') : i > Len(versions) => versions'[i].machineId /= n
      BY <2>2
    <3>2. Untouched(n) /\ MachineOK(n) /\ TypeOK
      BY <1>1, <2>2 DEF IInv
    <3> QED BY <3>1, <3>2, UntouchedKeeps
  <2> QED BY <2>1, <2>2
<1>3. (0 \in absent)' /\ (pruned <= Len(versions))'
  BY DEF IInv, Kept, TypeOK
<1>4. (\A n \in Machines :
         DataIsFetched(n) /\ SynchronisedIsKnown(n) /\ RemoteIsNewer(n) /\ PreviewIsTrue(n))'
  BY <1>2 DEF MachineOK
<1> QED BY <1>3, <1>4 DEF IInv

\* If it does not touch the store, the versions need no second look.
LEMMA LocalStep ==
    ASSUME IInv, NEW m \in Machines, TypeOK', versions' = versions, pruned' = pruned,
           absent \subseteq absent', \A n \in Machines \ {m} : Untouched(n), MachineOK(m)'
    PROVE  IInv'
<1>1. Kept
  BY StoreKept DEF IInv
<1>2. VersionsBuildOn'
  BY DEF IInv, VersionsBuildOn, IsKnown, Exists
<1>3. \A i \in 1..Len(versions') : i > Len(versions) => versions'[i].machineId = m
  BY <1>1 DEF Kept
<1> QED BY <1>1, <1>2, <1>3, MachineStep

\* The facts about machine m that most steps of it need
LEMMA MachineFacts ==
    ASSUME IInv, NEW m \in Machines
    PROVE  /\ TypeOK /\ 0 \in absent /\ VersionsBuildOn
           /\ DataIsFetched(m) /\ SynchronisedIsKnown(m) /\ RemoteIsNewer(m) /\ PreviewIsTrue(m)
           /\ Len(versions) \in Nat /\ DOMAIN versions = 1..Len(versions)
           /\ remoteUserData[m] \in UserData /\ lastSyncUserData[m] \in UserData
           /\ syncPreview[m] \in Preview
           /\ remoteUserData[m].ref \in Int /\ remoteUserData[m].ref <= Len(versions)
<1>1. TypeOK /\ DataIsFetched(m)
  BY DEF IInv
<1>2. remoteUserData[m] \in UserData /\ lastSyncUserData[m] \in UserData
      /\ syncPreview[m] \in Preview /\ Len(versions) \in Nat /\ DOMAIN versions = 1..Len(versions)
  BY <1>1 DEF TypeOK
<1>3. remoteUserData[m].ref \in Int /\ remoteUserData[m].ref \in -1..Len(versions)
  BY <1>1, <1>2, FetchedRef DEF DataIsFetched
<1>4. remoteUserData[m].ref <= Len(versions)
  BY <1>2, <1>3
<1> QED BY <1>1, <1>2, <1>3, <1>4 DEF IInv

\* A change of the file by the user: the text that was there is remembered.
LEMMA NewTextOK ==
    ASSUME IInv, NEW m \in Machines, NewText(m),
           absent' = absent \/ absent' = absent \cup {edits + 1}
    PROVE  IInv'
<1>1. TypeOK /\ MachineOK(m)
  BY DEF IInv, MachineOK
<1>2. TypeOK'
  BY <1>1, TypeNewText
<1>3. versions' = versions /\ absent \subseteq absent' /\ pruned' = pruned /\ Kept
  BY <1>1, StoreKept DEF NewText, storeVars
<1>4. \A n \in Machines \ {m} : Untouched(n)
  BY <1>1 DEF NewText, Untouched, TypeOK, stateVars, syncVars
<1>5. /\ UNCHANGED <<lastSyncUserDataState, olderState, lastSyncResource>>
      /\ UNCHANGED <<status, pc, applying, latestRef, remoteUserData, lastSyncUserData, syncPreview>>
  BY DEF NewText, stateVars, syncVars
<1>6. Known(m) \subseteq Known(m)'
  BY <1>1 DEF Known, NewText, TypeOK
<1>7. Synchronised(m)' = Synchronised(m)
  BY <1>3, <1>5 DEF Synchronised
<1>8. SynchronisedIsKnown(m)'
  BY <1>1, <1>3, <1>6, <1>7, SynchronisedKept DEF MachineOK
<1>9. DataIsFetched(m)'
  BY <1>1, <1>3, <1>5 DEF MachineOK, DataIsFetched, IsFetched, At, Null, NoResource
<1>10. InConflicts(m)' <=> InConflicts(m)
  BY <1>5 DEF InConflicts, Null
<1>11. RemoteIsNewer(m)'
  BY <1>1, <1>5, <1>7, <1>10 DEF MachineOK, RemoteIsNewer, IsDeciding, Null
<1>12. PreviewIsTrue(m)'
  <2> DEFINE preview == syncPreview[m]
             remote == remoteUserData[m]
             known == Known(m)
             known2 == Known(m)'
  <2>1. PreviewIsTrue(m) /\ known \subseteq known2
    BY <1>1, <1>6 DEF MachineOK
  <2>3. (pc[m] \in {"applyLocal", "applyRemote"} \/ InConflicts(m) =>
            Knows(remote.ref) \subseteq preview.knows)'
    BY <1>3, <1>5, <1>10, <2>1 DEF PreviewIsTrue, Knows
  <2>4. (InConflicts(m) => preview.fileContent \in Known(m))'
    BY <1>5, <1>10, <2>1 DEF PreviewIsTrue
  <2>5. (pc[m] \in {"applyLocal", "applyRemote"} =>
            IsKnown(remote.ref, preview.knows \cup {preview.content}))'
    BY <1>3, <1>5, <2>1 DEF PreviewIsTrue, IsKnown, Exists
  <2>6. (pc[m] = "applyRemote" => preview.content \in Known(m))'
    BY <1>5, <2>1 DEF PreviewIsTrue
  <2>7. (pc[m] = "applyLocal" =>
            /\ preview.remoteChange => applying[m]
            /\ ~preview.remoteChange => preview.content = remote.text
            /\ (~applying[m] /\ ~preview.acceptRemote /\ Exists(preview.fileContent)) =>
                  preview.fileContent \in Knows(remote.ref) \cup {remote.text})'
    BY <1>3, <1>5, <2>1 DEF PreviewIsTrue, Exists, Knows
  <2>8. (pc[m] \in {"saveState", "saveResource"} => IsKnown(remote.ref, Known(m)))'
    <3>1. pc[m] \in {"saveState", "saveResource"} => IsKnown(remote.ref, known)
      BY <2>1 DEF PreviewIsTrue
    <3> HIDE DEF known, known2
    <3>2. pc[m] \in {"saveState", "saveResource"} =>
             (remote.ref > 0 /\ versions[remote.ref].text \notin absent'
                => versions[remote.ref].text \in known2)
      BY <1>3, <2>1, <3>1 DEF IsKnown, Exists
    <3> QED BY <1>3, <1>5, <3>2 DEF known2, IsKnown, Exists
  <2> QED BY <2>3, <2>4, <2>5, <2>6, <2>7, <2>8 DEF PreviewIsTrue
<1> QED BY <1>2, <1>3, <1>4, <1>8, <1>9, <1>11, <1>12, LocalStep DEF MachineOK

\* The facts about the parts that a step of the synchroniser leaves alone
LEMMA QuietFacts ==
    ASSUME IInv, NEW m \in Machines, UNCHANGED <<versions, file, absent, knows>>,
           Synchronised(m)' \subseteq Synchronised(m)
    PROVE  SynchronisedIsKnown(m)' /\ Kept /\ Known(m)' = Known(m)
<1>1. TypeOK /\ SynchronisedIsKnown(m)
  BY DEF IInv
<1>2. Kept
  BY <1>1, StoreKept
<1>3. Known(m)' = Known(m)
  BY DEF Known
<1> QED BY <1>1, <1>2, <1>3, SynchronisedKept

\* A sync begins: the manifest is no older than what was synchronised.
LEMMA StartSyncOK ==
    ASSUME IInv, NEW m \in Machines, StartSync(m)
    PROVE  IInv'
<1>1. TypeOK /\ DataIsFetched(m)
  BY DEF IInv
<1>2. UNCHANGED <<versions, pruned, file, lastSyncUserDataState, olderState, lastSyncResource,
                  remoteUserData, lastSyncUserData, absent, knows>>
  BY DEF StartSync, storeVars, stateVars, historyVars
<1>3. Synchronised(m)' = Synchronised(m)
  BY <1>2 DEF Synchronised
<1>4. SynchronisedIsKnown(m)' /\ Kept
  BY <1>2, <1>3, QuietFacts
<1>5. DataIsFetched(m)'
  BY <1>1, <1>2 DEF DataIsFetched, IsFetched, At, Null, NoResource
<1>6. pc'[m] = "fetch" /\ latestRef'[m] = Len(versions)
  BY <1>1 DEF StartSync, TypeOK
<1>7. RemoteIsNewer(m)'
  BY <1>1, <1>3, <1>6, SynchronisedRefs DEF RemoteIsNewer, IsDeciding, InConflicts
<1>8. PreviewIsTrue(m)'
  BY <1>6 DEF PreviewIsTrue, InConflicts
<1>9. \A n \in Machines \ {m} : Untouched(n)
  BY <1>1, <1>2 DEF StartSync, Untouched, TypeOK
<1>10. TypeOK'
  BY TypeStep
<1> QED BY <1>2, <1>4, <1>5, <1>7, <1>8, <1>9, <1>10, LocalStep DEF MachineOK

\* The data that a merge begins with: a version no older than what this machine
\* took or wrote, and as the base the version its storage names.
LEMMA FetchedOK ==
    ASSUME IInv, NEW m \in Machines, TypeOK', NEW new \in UserData,
           IsFetched(new), new /= Null, \A ref \in Synchronised(m) : ref <= new.ref,
           remoteUserData' = [remoteUserData EXCEPT ![m] = new],
           lastSyncUserData' = [lastSyncUserData EXCEPT ![m] = GetLastSyncUserData(m)],
           lastSyncResource' = [lastSyncResource EXCEPT ![m] = LastSyncResource(m)],
           GoesOn(m, "preview"),
           UNCHANGED <<storeVars, file, lastSyncUserDataState, olderState, backups, syncPreview,
                       boundVars, historyVars>>
    PROVE  IInv'
<1>1. TypeOK /\ DataIsFetched(m)
  BY DEF IInv
<1>2. UNCHANGED <<versions, pruned, file, lastSyncUserDataState, olderState, absent, knows,
                  syncPreview>>
  BY DEF storeVars, historyVars
<1>3. Synchronised(m)' = Synchronised(m)
  BY <1>2 DEF Synchronised
<1>4. SynchronisedIsKnown(m)' /\ Kept
  BY <1>2, <1>3, QuietFacts
<1> DEFINE last == GetLastSyncUserData(m)
           resource == LastSyncResource(m)
<1>5. /\ IsFetched(last) /\ IsFetched(resource)
      /\ last = Null \/ last.ref = lastSyncUserDataState[m]
  BY <1>1, LastSyncIsFetched DEF DataIsFetched
<1> HIDE DEF last, resource
<1>6. /\ remoteUserData'[m] = new /\ lastSyncUserData'[m] = last
      /\ lastSyncResource'[m] = resource /\ pc'[m] = "preview"
  BY <1>1 DEF TypeOK, GoesOn, last, resource
<1>7. DataIsFetched(m)'
  BY <1>2, <1>5, <1>6 DEF DataIsFetched, IsFetched, At, Null, NoResource
<1>8. RemoteIsNewer(m)'
  <2>1. Null' = Null
    BY DEF Null
  <2> HIDE DEF Null
  <2> QED BY <1>2, <1>3, <1>5, <1>6, <2>1 DEF RemoteIsNewer
<1>9. PreviewIsTrue(m)'
  BY <1>6 DEF PreviewIsTrue, InConflicts
<1>10. \A n \in Machines \ {m} : Untouched(n)
  BY <1>1, <1>2 DEF Untouched, TypeOK, GoesOn
<1> QED BY <1>2, <1>4, <1>7, <1>8, <1>9, <1>10, LocalStep DEF MachineOK

\* fetch: the data is the latest, or that of the manifest's ref.
LEMMA FetchOK ==
    ASSUME IInv, NEW m \in Machines, Fetch(m) \/ Refetch(m)
    PROVE  IInv'
<1>1. TypeOK /\ DataIsFetched(m) /\ RemoteIsNewer(m)
  BY DEF IInv
<1>2. TypeOK'
  BY TypeStep
<1>3. /\ Latest \in UserData /\ IsFetched(Latest) /\ Latest /= Null
      /\ \A ref \in Synchronised(m) : ref <= Latest.ref
  BY <1>1, LatestIsFetched, SynchronisedRefs
<1>4. CASE Refetch(m)
  <2> HIDE DEF Latest, Null
  <2>1. /\ remoteUserData' = [remoteUserData EXCEPT ![m] = Latest]
        /\ lastSyncUserData' = [lastSyncUserData EXCEPT ![m] = GetLastSyncUserData(m)]
        /\ lastSyncResource' = [lastSyncResource EXCEPT ![m] = LastSyncResource(m)]
        /\ GoesOn(m, "preview")
        /\ UNCHANGED <<storeVars, file, lastSyncUserDataState, olderState, backups, syncPreview,
                       boundVars, historyVars>>
    BY <1>4 DEF Refetch
  <2> QED BY <1>2, <1>3, <2>1, FetchedOK
<1>5. CASE Fetch(m)
  <2> DEFINE last == GetLastSyncUserData(m)
             new == GetLatestRemoteUserData(m, last)
  <2>1. last \in UserData /\ IsFetched(last)
    BY <1>1, LastSyncIsFetched DEF DataIsFetched
  <2>2. \A ref \in Synchronised(m) : ref <= latestRef[m]
    BY <1>1, <1>5 DEF Fetch, RemoteIsNewer
  <2>3. /\ new \in UserData /\ IsFetched(new) /\ new /= Null
        /\ \A ref \in Synchronised(m) : ref <= new.ref
    <3> HIDE DEF last, Latest, Null
    <3>1. CASE last /= Null /\ last.ref = latestRef[m]
      <4>1. new = last
        BY <3>1 DEF GetLatestRemoteUserData
      <4> QED BY <2>1, <2>2, <3>1, <4>1
    <3>2. CASE ~(last /= Null /\ last.ref = latestRef[m])
      <4>1. new = Latest
        BY <3>2 DEF GetLatestRemoteUserData
      <4> QED BY <1>3, <4>1
    <3> QED BY <3>1, <3>2
  <2>4. /\ remoteUserData' = [remoteUserData EXCEPT ![m] = new]
        /\ lastSyncUserData' = [lastSyncUserData EXCEPT ![m] = GetLastSyncUserData(m)]
        /\ lastSyncResource' = [lastSyncResource EXCEPT ![m] = LastSyncResource(m)]
        /\ GoesOn(m, "preview")
        /\ UNCHANGED <<storeVars, file, lastSyncUserDataState, olderState, backups, syncPreview,
                       boundVars, historyVars>>
    BY <1>5 DEF Fetch
  <2> HIDE DEF new, Null
  <2> QED BY <1>2, <2>3, <2>4, FetchedOK
<1> QED BY <1>4, <1>5

\* A step that ends the synchroniser and leaves store and file alone, and takes
\* no other version for synchronised.
LEMMA EndOK ==
    ASSUME IInv, NEW m \in Machines, TypeOK', NEW s, NEW keep \in BOOLEAN, Ends(m, s, keep),
           keep => s = "syncing", UNCHANGED <<versions, pruned, file, absent, knows>>,
           IsFetched(lastSyncResource[m])', Synchronised(m)' \subseteq Synchronised(m),
           \A n \in Machines \ {m} : /\ lastSyncUserDataState'[n] = lastSyncUserDataState[n]
                                     /\ olderState'[n] = olderState[n]
                                     /\ lastSyncResource'[n] = lastSyncResource[n]
    PROVE  IInv'
<1>1. SynchronisedIsKnown(m)' /\ Kept
  BY QuietFacts
<1>2. /\ RemoteIsNewer(m)' /\ PreviewIsTrue(m)' /\ DataIsFetched(m)'
      /\ \A n \in Machines \ {m} :
            /\ status'[n] = status[n] /\ pc'[n] = pc[n] /\ applying'[n] = applying[n]
            /\ latestRef'[n] = latestRef[n] /\ remoteUserData'[n] = remoteUserData[n]
            /\ lastSyncUserData'[n] = lastSyncUserData[n] /\ syncPreview'[n] = syncPreview[n]
  BY <1>1, EndsIs
<1>3. \A n \in Machines \ {m} : Untouched(n)
  BY <1>2 DEF Untouched
<1> QED BY <1>1, <1>2, <1>3, LocalStep DEF MachineOK

\* A request that fails
LEMMA FetchFailsOK ==
    ASSUME IInv, NEW m \in Machines, FetchFails(m)
    PROVE  IInv'
<1>1. TypeOK /\ DataIsFetched(m)
  BY DEF IInv
<1>2. TypeOK'
  BY TypeStep
<1>3. UNCHANGED <<versions, pruned, file, absent, knows,
                  lastSyncUserDataState, olderState, lastSyncResource>>
  BY DEF FetchFails, storeVars, stateVars, historyVars
<1>4. PICK s \in {"idle", "syncing", "conflicts"}, keep \in BOOLEAN :
         Ends(m, s, keep) /\ (keep => s = "syncing")
  BY <1>1, ThrowsEnds DEF FetchFails
<1>5. Synchronised(m)' \subseteq Synchronised(m)
  BY <1>3 DEF Synchronised
<1>6. IsFetched(lastSyncResource[m])'
  BY <1>1, <1>3 DEF DataIsFetched, IsFetched, At, Null, NoResource
<1> QED BY <1>2, <1>3, <1>4, <1>5, <1>6, EndOK

\* A file operation that fails
LEMMA ApplyLocalFailsOK ==
    ASSUME IInv, NEW m \in Machines, ApplyLocalFails(m)
    PROVE  IInv'
<1>1. TypeOK /\ DataIsFetched(m)
  BY DEF IInv
<1>2. UNCHANGED <<versions, pruned, file, absent, knows, interrupted, edits,
                  lastSyncUserDataState, olderState, lastSyncResource>>
  BY DEF ApplyLocalFails, storeVars, stateVars, historyVars
<1>3. PICK s \in {"idle", "syncing", "conflicts"}, keep \in BOOLEAN :
         Ends(m, s, keep) /\ (keep => s = "syncing")
  BY <1>1, ThrowsEnds DEF ApplyLocalFails
<1>4. TypeOK'
  <2>1. faults' \in 0..MaxFaults
    BY <1>1, BoundsAssumption DEF ApplyLocalFails, TypeOK
  <2>2. backups' \in [Machines -> SUBSET Texts]
    <3>1. syncPreview[m].fileContent \in Texts
      BY <1>1 DEF TypeOK, Preview
    <3>2. backups \in [Machines -> SUBSET Texts]
      BY <1>1 DEF TypeOK
    <3>3. backups[m] \cup {syncPreview[m].fileContent} \in SUBSET Texts
      BY <3>1, <3>2
    <3>4. \/ backups' = backups
          \/ backups' = [backups EXCEPT ![m] = backups[m] \cup {syncPreview[m].fileContent}]
      BY DEF ApplyLocalFails
    <3> QED BY <3>2, <3>3, <3>4
  <2> QED BY <1>1, <1>2, <1>3, <2>1, <2>2, TypeEnds DEF TypeOK
<1>5. Synchronised(m)' \subseteq Synchronised(m)
  BY <1>2 DEF Synchronised
<1>6. IsFetched(lastSyncResource[m])'
  BY <1>1, <1>2 DEF DataIsFetched, IsFetched, At, Null, NoResource
<1> QED BY <1>2, <1>3, <1>4, <1>5, <1>6, EndOK

\* The process ends and comes back with a state it had
LEMMA CrashOK ==
    ASSUME IInv, NEW m \in Machines, Crash(m)
    PROVE  IInv'
<1>1. TypeOK /\ DataIsFetched(m)
  BY DEF IInv
<1>2. TypeOK'
  BY TypeStep
<1>3. UNCHANGED <<versions, pruned, file, absent, knows, lastSyncResource>>
  BY DEF Crash, storeVars
<1>4. Ends(m, "idle", FALSE)
  BY DEF Crash
<1>5. PICK state \in {lastSyncUserDataState[m], olderState[m]} :
          /\ lastSyncUserDataState' = [lastSyncUserDataState EXCEPT ![m] = state]
          /\ olderState' = [olderState EXCEPT ![m] = state]
  BY DEF Crash
<1>6. Synchronised(m)' \subseteq Synchronised(m)
  <2>1. lastSyncUserDataState'[m] = state /\ olderState'[m] = state
    BY <1>1, <1>5 DEF TypeOK
  <2> QED BY <1>3, <1>5, <2>1 DEF Synchronised
<1>7. IsFetched(lastSyncResource[m])'
  BY <1>1, <1>3 DEF DataIsFetched, IsFetched, At, Null, NoResource
<1>8. \A n \in Machines \ {m} : /\ lastSyncUserDataState'[n] = lastSyncUserDataState[n]
                                /\ olderState'[n] = olderState[n]
                                /\ lastSyncResource'[n] = lastSyncResource[n]
  BY <1>1, <1>3, <1>5 DEF TypeOK
<1> QED BY <1>2, <1>3, <1>4, <1>6, <1>7, <1>8, EndOK

\* Sync is turned off and on again: nothing counts as synchronised but the
\* versions that this machine wrote.
LEMMA ResetLocalOK ==
    ASSUME IInv, NEW m \in Machines, ResetLocal(m)
    PROVE  IInv'
<1>1. TypeOK /\ SynchronisedIsKnown(m)
  BY DEF IInv
<1>2. TypeOK'
  BY TypeStep
<1>3. UNCHANGED <<versions, pruned, file, absent, knows>>
  BY DEF ResetLocal, storeVars
<1>4. Ends(m, "idle", FALSE)
  BY DEF ResetLocal
<1>5. /\ lastSyncUserDataState'[m] = -1 /\ olderState'[m] = -1 /\ lastSyncResource'[m] = Null
      /\ \A n \in Machines \ {m} : /\ lastSyncUserDataState'[n] = lastSyncUserDataState[n]
                                   /\ olderState'[n] = olderState[n]
                                   /\ lastSyncResource'[n] = lastSyncResource[n]
  BY <1>1 DEF ResetLocal, TypeOK
<1>6. IsFetched(lastSyncResource[m])'
  BY <1>5 DEF IsFetched, Null
<1>7. Kept
  BY <1>1, <1>3, StoreKept
<1>8. Synchronised(m)' \subseteq Synchronised(m) \cup {-1}
  BY <1>3, <1>5 DEF Synchronised
<1>9. SynchronisedIsKnown(m)'
  BY <1>1, <1>3, <1>8 DEF SynchronisedIsKnown, IsKnown, Known, Exists
<1>10. /\ RemoteIsNewer(m)' /\ PreviewIsTrue(m)' /\ DataIsFetched(m)'
       /\ \A n \in Machines \ {m} :
            /\ status'[n] = status[n] /\ pc'[n] = pc[n] /\ applying'[n] = applying[n]
            /\ latestRef'[n] = latestRef[n] /\ remoteUserData'[n] = remoteUserData[n]
            /\ lastSyncUserData'[n] = lastSyncUserData[n] /\ syncPreview'[n] = syncPreview[n]
  BY <1>4, <1>6, <1>7, EndsIs
<1>11. \A n \in Machines \ {m} : Untouched(n)
  BY <1>3, <1>5, <1>10 DEF Untouched
<1> QED BY <1>2, <1>3, <1>9, <1>10, <1>11, LocalStep DEF MachineOK

\* The base is written down: the file was made from it by now.
LEMMA SaveStateOK ==
    ASSUME IInv, NEW m \in Machines, SaveState(m)
    PROVE  IInv'
<1>1. /\ TypeOK /\ DataIsFetched(m) /\ SynchronisedIsKnown(m) /\ RemoteIsNewer(m)
      /\ PreviewIsTrue(m)
  BY MachineFacts
<1>2. TypeOK'
  BY TypeStep
<1>3. UNCHANGED <<versions, pruned, file, absent, knows, lastSyncResource>> /\ pc[m] = "saveState"
  BY DEF SaveState, storeVars
<1>4. IsFetched(lastSyncResource[m])'
  BY <1>1, <1>3 DEF DataIsFetched, IsFetched, At, Null, NoResource
<1>5. CASE IsNews(m)
  <2>1. /\ lastSyncUserDataState' = [lastSyncUserDataState EXCEPT ![m] = remoteUserData[m].ref]
        /\ olderState' = [olderState EXCEPT ![m] = lastSyncUserDataState[m]]
        /\ GoesOn(m, "saveResource")
        /\ UNCHANGED <<remoteUserData, lastSyncUserData, syncPreview>>
    BY <1>5 DEF SaveState
  <2>2. /\ lastSyncUserDataState'[m] = remoteUserData[m].ref
        /\ olderState'[m] = lastSyncUserDataState[m] /\ pc'[m] = "saveResource"
    BY <1>1, <2>1 DEF TypeOK, GoesOn
  <2>3. Synchronised(m)' \subseteq Synchronised(m) \cup {remoteUserData[m].ref}
    BY <1>3, <2>2 DEF Synchronised
  <2>4. IsKnown(remoteUserData[m].ref, Known(m))
    BY <1>1, <1>3 DEF PreviewIsTrue
  <2>6. SynchronisedIsKnown(m)'
    BY <1>1, <1>3, <2>3, <2>4 DEF SynchronisedIsKnown, IsKnown, Known, Exists
  <2>7. DataIsFetched(m)'
    BY <1>1, <1>3, <2>1 DEF DataIsFetched, IsFetched, At, Null, NoResource
  <2>8. RemoteIsNewer(m)'
    BY <1>1, <1>3, <2>1, <2>2 DEF RemoteIsNewer, IsDeciding, InConflicts, Null
  <2>9. PreviewIsTrue(m)'
    <3>1. IsKnown(remoteUserData[m].ref, Known(m))'
      BY <1>3, <2>1, <2>4 DEF IsKnown, Known, Exists
    <3> QED BY <2>2, <3>1 DEF PreviewIsTrue, InConflicts
  <2>10. \A n \in Machines \ {m} : Untouched(n)
    BY <1>1, <1>3, <2>1 DEF Untouched, TypeOK, GoesOn
  <2> QED BY <1>2, <1>3, <2>6, <2>7, <2>8, <2>9, <2>10, LocalStep DEF MachineOK
<1>6. CASE ~IsNews(m)
  <2>1. Ends(m, "idle", FALSE) /\ UNCHANGED <<lastSyncUserDataState, olderState>>
    BY <1>6 DEF SaveState
  <2>2. Synchronised(m)' \subseteq Synchronised(m)
    BY <1>3, <2>1 DEF Synchronised
  <2> QED BY <1>2, <1>3, <1>4, <2>1, <2>2, EndOK
<1> QED BY <1>5, <1>6

\* ... and its data after it.
LEMMA SaveResourceOK ==
    ASSUME IInv, NEW m \in Machines, SaveResource(m)
    PROVE  IInv'
<1>1. TypeOK /\ DataIsFetched(m)
  BY DEF IInv
<1>2. TypeOK'
  BY TypeStep
<1>3. /\ UNCHANGED <<versions, pruned, file, absent, knows, lastSyncUserDataState, olderState>>
      /\ lastSyncResource' = [lastSyncResource EXCEPT ![m] = remoteUserData[m]]
      /\ Ends(m, "idle", FALSE)
  BY DEF SaveResource, storeVars
<1>4. lastSyncResource'[m] = remoteUserData[m]
  BY <1>1, <1>3 DEF TypeOK
<1>5. IsFetched(lastSyncResource[m])'
  BY <1>1, <1>3, <1>4 DEF DataIsFetched, IsFetched, At, Null, NoResource
<1>6. Synchronised(m)' \subseteq Synchronised(m)
  BY <1>3 DEF Synchronised
<1>7. \A n \in Machines \ {m} : /\ lastSyncUserDataState'[n] = lastSyncUserDataState[n]
                                /\ olderState'[n] = olderState[n]
                                /\ lastSyncResource'[n] = lastSyncResource[n]
  BY <1>1, <1>3 DEF TypeOK
<1> QED BY <1>2, <1>3, <1>5, <1>6, <1>7, EndOK

\* The file changes while a conflict is shown: the merge is made again from the
\* same data.
LEMMA LocalChangeInConflictsOK ==
    ASSUME IInv, NEW m \in Machines, LocalChangeInConflicts(m)
    PROVE  IInv'
<1>1. TypeOK /\ DataIsFetched(m) /\ RemoteIsNewer(m)
  BY DEF IInv
<1>2. TypeOK'
  BY TypeStep
<1>3. /\ UNCHANGED <<versions, pruned, file, absent, knows, lastSyncUserDataState, olderState,
                     lastSyncResource, remoteUserData, lastSyncUserData>>
      /\ syncPreview' = [syncPreview EXCEPT ![m] = NoPreview]
      /\ GoesOn(m, "preview") /\ InConflicts(m)
  BY DEF LocalChangeInConflicts, storeVars, stateVars, historyVars
<1>4. Synchronised(m)' = Synchronised(m)
  BY <1>3 DEF Synchronised
<1>5. SynchronisedIsKnown(m)'
  BY <1>3, <1>4, QuietFacts
<1>6. DataIsFetched(m)'
  BY <1>1, <1>3 DEF DataIsFetched, IsFetched, At, Null, NoResource
<1>7. pc'[m] = "preview"
  BY <1>1, <1>3 DEF GoesOn, TypeOK
<1>8. RemoteIsNewer(m)'
  <2>1. Null' = Null
    BY DEF Null
  <2> HIDE DEF Null
  <2> QED BY <1>1, <1>3, <1>4, <1>7, <2>1 DEF RemoteIsNewer, IsDeciding
<1>9. PreviewIsTrue(m)'
  BY <1>7 DEF PreviewIsTrue, InConflicts
<1>10. \A n \in Machines \ {m} : Untouched(n)
  BY <1>1, <1>3 DEF Untouched, TypeOK, GoesOn
<1> QED BY <1>2, <1>3, <1>5, <1>6, <1>8, <1>9, <1>10, LocalStep DEF MachineOK

\* The store forgets a version that nobody is about to read: what was fetched
\* from it is still the data of that version.
LEMMA PruneOK ==
    ASSUME IInv, Prune
    PROVE  IInv'
<1>1. Len(versions) \in Nat /\ pruned \in 0..MaxPruned /\ TypeOK
  BY DEF IInv, TypeOK
<1>2. pruned' \in 0..MaxPruned /\ pruned' <= Len(versions)
  BY <1>1, BoundsAssumption DEF Prune
<1>3. UNCHANGED <<versions, file, lastSyncUserDataState, olderState, lastSyncResource, backups,
                  status, pc, applying, latestRef, remoteUserData, lastSyncUserData, syncPreview,
                  edits, faults, absent, knows, interrupted>>
  BY DEF Prune, stateVars, syncVars, boundVars, historyVars
<1>4. TypeOK'
  BY <1>1, <1>2, <1>3 DEF TypeOK
<1>5. Kept
  BY <1>1, <1>3, StoreKept
<1>6. VersionsBuildOn'
  BY <1>3 DEF IInv, VersionsBuildOn, IsKnown, Exists
<1>7. ASSUME NEW n \in Machines PROVE MachineOK(n)'
  <2>1. MachineOK(n) /\ Untouched(n)
    BY <1>3 DEF IInv, MachineOK, Untouched
  <2>2. \A i \in 1..Len(versions') : i > Len(versions) => versions'[i].machineId /= n
    BY <1>1, <1>3
  <2> QED BY <1>1, <1>5, <2>1, <2>2, UntouchedKeeps
<1>8. (\A n \in Machines :
         DataIsFetched(n) /\ SynchronisedIsKnown(n) /\ RemoteIsNewer(n) /\ PreviewIsTrue(n))'
  BY <1>7 DEF MachineOK
<1>9. (0 \in absent)' /\ (pruned <= Len(versions))'
  BY <1>2, <1>3 DEF IInv
<1> QED BY <1>4, <1>6, <1>8, <1>9 DEF IInv

\* A decision of the user: the text it leads to is made from both sides.
LEMMA AcceptOK ==
    ASSUME IInv, NEW m \in Machines, NEW choice \in {"local", "remote", "preview"},
           Accept(m, choice)
    PROVE  IInv'
<1> DEFINE p == AcceptedPreview(m, choice)
           remote == remoteUserData[m]
<1>1. /\ TypeOK /\ DataIsFetched(m) /\ RemoteIsNewer(m) /\ PreviewIsTrue(m)
      /\ remote \in UserData
  BY MachineFacts
<1>2. TypeOK'
  BY <1>1, TypeAccept
<1>3. /\ InConflicts(m)
      /\ syncPreview' = [syncPreview EXCEPT ![m] = p] /\ p \in Preview
      /\ p.content = AcceptedText(m, choice)
      /\ p.localChange <=> choice /= "local"
      /\ p.remoteChange <=> choice /= "remote"
      /\ p.fileContent = syncPreview[m].fileContent
      /\ p.knows = syncPreview[m].knows \cup {syncPreview[m].fileContent, remote.text}
      /\ pc' = [pc EXCEPT ![m] = FirstStep(p)]
  BY <1>1, AcceptIs
<1>4. UNCHANGED <<versions, pruned, file, absent, knows, lastSyncUserDataState, olderState,
                  lastSyncResource, remoteUserData, lastSyncUserData, latestRef>>
  BY DEF Accept, storeVars, stateVars, historyVars
<1>5. /\ applying' = [applying EXCEPT ![m] = TRUE] /\ status' = [status EXCEPT ![m] = "syncing"]
  BY DEF Accept
<1> HIDE DEF p
<1>6. /\ syncPreview'[m] = p /\ applying'[m] = TRUE /\ pc'[m] = FirstStep(p)
  BY <1>1, <1>3, <1>5 DEF TypeOK
<1>7. /\ pc'[m] = "applyLocal" => choice /= "local"
      /\ pc'[m] = "applyRemote" => choice = "local"
      /\ pc'[m] \in {"applyLocal", "applyRemote"}
  BY <1>3, <1>6 DEF FirstStep
<1>8. Synchronised(m)' = Synchronised(m)
  BY <1>4 DEF Synchronised
<1>9. SynchronisedIsKnown(m)' /\ Known(m)' = Known(m)
  BY <1>4, <1>8, QuietFacts
<1>10. DataIsFetched(m)'
  BY <1>1, <1>4 DEF DataIsFetched, IsFetched, At, Null, NoResource
<1>11. RemoteIsNewer(m)'
  <2>1. Null' = Null
    BY DEF Null
  <2> HIDE DEF Null
  <2> QED BY <1>1, <1>3, <1>4, <1>7, <1>8, <2>1 DEF RemoteIsNewer, IsDeciding
<1>12. PreviewIsTrue(m)'
  <2>1. Knows(remote.ref) \subseteq p.knows
    BY <1>1, <1>3 DEF PreviewIsTrue
  <2>2. remote.ref > 0 => remote.text = versions[remote.ref].text
    BY <1>1, FetchedRef DEF DataIsFetched
  <2>3. IsKnown(remote.ref, p.knows \cup {p.content})
    BY <1>3, <2>2 DEF IsKnown
  <2>4. syncPreview[m].fileContent \in Known(m)
    BY <1>1, <1>3 DEF PreviewIsTrue
  <2>5. choice = "local" => p.content \in Known(m)
    BY <1>3, <2>4 DEF AcceptedText
  <2>6. choice = "remote" => p.content = remote.text
    BY <1>3 DEF AcceptedText
  <2>7. Knows(remoteUserData[m].ref)' = Knows(remote.ref)
    BY <1>4 DEF Knows
  <2>8. IsKnown(remoteUserData[m].ref, syncPreview[m].knows \cup {syncPreview[m].content})'
    BY <1>4, <1>6, <2>3 DEF IsKnown, Exists
  <2>9. ~InConflicts(m)'
    BY <1>7 DEF InConflicts
  <2>10. (pc[m] = "applyRemote" => syncPreview[m].content \in Known(m))'
    BY <1>6, <1>7, <1>9, <2>5
  <2>11. (pc[m] = "applyLocal" =>
            /\ syncPreview[m].remoteChange => applying[m]
            /\ ~syncPreview[m].remoteChange => syncPreview[m].content = remoteUserData[m].text
            /\ applying[m])'
    BY <1>3, <1>4, <1>6, <2>6
  <2>12. (Knows(remoteUserData[m].ref) \subseteq syncPreview[m].knows)'
    BY <1>6, <2>1, <2>7
  <2> QED BY <1>7, <2>8, <2>9, <2>10, <2>11, <2>12 DEF PreviewIsTrue
<1>13. \A n \in Machines \ {m} : Untouched(n)
  BY <1>1, <1>3, <1>4, <1>5 DEF Untouched, TypeOK
<1> QED BY <1>2, <1>4, <1>9, <1>10, <1>11, <1>12, <1>13, LocalStep DEF MachineOK

\* What merge decides: with nothing to do, or only the store to update, the file
\* was made from the remote version; with only the file to update, the remote
\* version was made from the file.
LEMMA MergeLosesNothing ==
    ASSUME IInv, NEW m \in Machines, pc[m] = "preview"
    PROVE  LET r == MergeResult(m)
               remote == remoteUserData[m]
           IN  /\ r.fileContent = file[m]
               /\ ~r.hasConflicts => ~(r.localChange /\ r.remoteChange)
               /\ (~r.hasConflicts /\ ~r.localChange) => IsKnown(remote.ref, Known(m) \cup Knows(remote.ref))
               /\ (~r.hasConflicts /\ ~r.localChange /\ ~r.remoteChange) => IsKnown(remote.ref, Known(m))
               /\ (~r.hasConflicts /\ ~r.localChange /\ r.remoteChange) => r.content = file[m]
               /\ (~r.hasConflicts /\ r.localChange) =>
                     /\ r.content = remote.text
                     /\ (~r.acceptRemote /\ Exists(file[m])) =>
                           file[m] \in Knows(remote.ref) \cup {remote.text}
<1> DEFINE r == MergeResult(m)
           remote == remoteUserData[m]
           last == lastSyncUserData[m]
<1>1. /\ TypeOK /\ DataIsFetched(m) /\ RemoteIsNewer(m) /\ SynchronisedIsKnown(m)
      /\ 0 \in absent /\ VersionsBuildOn
      /\ remote \in UserData /\ last \in UserData
      /\ remote.ref \in Int /\ Len(versions) \in Nat /\ DOMAIN versions = 1..Len(versions)
  BY MachineFacts
<1>2. /\ \A ref \in Synchronised(m) : ref <= remote.ref
      /\ last = Null \/ last.ref = lastSyncUserDataState[m]
      /\ remote /= Null
  BY <1>1 DEF RemoteIsNewer, IsDeciding
<1>3. /\ remote.ref > 0 => /\ remote.ref \in DOMAIN versions
                           /\ remote.text = versions[remote.ref].text
                           /\ remote.machineId = versions[remote.ref].machineId
      /\ last.ref \in Int
      /\ last.ref > 0 => /\ last.ref \in DOMAIN versions
                         /\ last.text = versions[last.ref].text
      /\ last.ref <= 0 => last.text = 0
      /\ last = Null <=> last.ref = -1
  BY <1>1, FetchedRef DEF DataIsFetched
<1>4. CASE AcceptsRemote(m)
  BY <1>4 DEF MergeResult, Remote
<1>5. CASE ~AcceptsRemote(m) /\ ~HasSyncData(remote)
  BY <1>5 DEF MergeResult, Remote, NoPreview, HasSyncData, IsKnown
<1>6. CASE ~AcceptsRemote(m) /\ HasSyncData(remote)
  <2>1. remote.ref > 0 /\ r = Merge(file[m], remote.text, Base(m).text)
    BY <1>6 DEF MergeResult, Remote, HasSyncData
  <2>2. CASE Same(file[m], remote.text)
    <3>1. /\ r.fileContent = file[m] /\ r.localChange = FALSE /\ r.remoteChange = FALSE
          /\ r.hasConflicts = FALSE
      BY <2>1, <2>2 DEF Merge
    <3>2. IsKnown(remote.ref, Known(m))
      BY <1>3, <2>1, <2>2 DEF IsKnown, Same, Known, Exists
    <3>3. IsKnown(remote.ref, Known(m) \cup Knows(remote.ref))
      BY <3>2 DEF IsKnown
    <3> QED BY <3>1, <3>2, <3>3
  <2>3. ASSUME Exists(Base(m).text)
        PROVE  \/ Base(m).text = remote.text /\ remote.ref \in Synchronised(m)
               \/ /\ last.ref \in Synchronised(m) /\ last.ref > 0
                  /\ Base(m).text = versions[last.ref].text
    <3>1. CASE last = Null /\ remote.machineId = m
      <4>1. Base(m) = remote
        BY <3>1 DEF Base, FromCurrentMachine, Remote
      <4> QED BY <1>1, <1>3, <2>1, <3>1, <4>1 DEF Synchronised
    <3>2. CASE ~(last = Null /\ remote.machineId = m)
      <4>1. Base(m) = last
        BY <3>2 DEF Base, FromCurrentMachine, Remote
      <4>2. last.ref > 0
        BY <1>1, <1>3, <2>3, <4>1 DEF Exists
      <4>3. last.ref = lastSyncUserDataState[m]
        BY <1>2, <1>3, <4>2
      <4> QED BY <1>3, <4>1, <4>2, <4>3 DEF Synchronised
    <3> QED BY <3>1, <3>2
  <2>4. CASE ~Same(file[m], remote.text) /\ Same(Base(m).text, remote.text)
    <3>1. /\ r.fileContent = file[m] /\ r.localChange = FALSE /\ r.remoteChange = TRUE
          /\ r.hasConflicts = FALSE /\ r.content = file[m]
      <4>1. ~Same(Base(m).text, file[m])
        BY <2>4 DEF Same
      <4> QED BY <2>1, <2>4, <4>1 DEF Merge
    <3>2. IsKnown(remote.ref, Known(m))
      <4>1. CASE Exists(remote.text)
        <5>1. Base(m).text = remote.text /\ Exists(Base(m).text)
          BY <2>4, <4>1 DEF Same
        <5>2. remote.text \in Known(m)
          BY <1>1, <1>3, <2>1, <2>3, <4>1, <5>1 DEF SynchronisedIsKnown, IsKnown
        <5> QED BY <1>3, <2>1, <5>2 DEF IsKnown
      <4>2. CASE ~Exists(remote.text)
        BY <1>3, <2>1, <4>2 DEF IsKnown
      <4> QED BY <4>1, <4>2
    <3>3. IsKnown(remote.ref, Known(m) \cup Knows(remote.ref))
      BY <3>2 DEF IsKnown
    <3> QED BY <3>1, <3>3
  <2>5. CASE /\ ~Same(file[m], remote.text) /\ ~Same(Base(m).text, remote.text)
             /\ Same(Base(m).text, file[m])
    <3>1. /\ r.fileContent = file[m] /\ r.localChange = TRUE /\ r.remoteChange = FALSE
          /\ r.hasConflicts = FALSE /\ r.content = remote.text
      BY <2>1, <2>5 DEF Merge
    <3>2. ASSUME Exists(file[m]) PROVE file[m] \in Knows(remote.ref) \cup {remote.text}
      <4>1. Base(m).text = file[m] /\ Exists(Base(m).text)
        BY <2>5, <3>2 DEF Same
      <4>2. CASE Base(m).text = remote.text
        BY <4>1, <4>2
      <4>3. CASE Base(m).text /= remote.text
        <5>1. /\ last.ref \in Synchronised(m) /\ last.ref > 0
              /\ file[m] = versions[last.ref].text
          BY <2>3, <4>1, <4>3
        <5>2. last.ref <= remote.ref /\ last.ref \in DOMAIN versions
          BY <1>2, <1>3, <5>1
        <5>3. last.ref < remote.ref
          BY <1>1, <1>3, <2>1, <4>1, <4>3, <5>1, <5>2
        <5>4. IsKnown(last.ref, versions[remote.ref].knows \cup {versions[remote.ref].text})
          BY <1>1, <1>3, <2>1, <5>2, <5>3 DEF VersionsBuildOn
        <5>5. file[m] \in versions[remote.ref].knows \cup {versions[remote.ref].text}
          BY <3>2, <5>1, <5>4 DEF IsKnown
        <5> QED BY <1>3, <2>1, <5>5 DEF Knows
      <4> QED BY <4>2, <4>3
    <3> QED BY <3>1, <3>2
  <2>6. CASE /\ ~Same(file[m], remote.text) /\ ~Same(Base(m).text, remote.text)
             /\ ~Same(Base(m).text, file[m])
    <3>1. r.fileContent = file[m] /\ r.hasConflicts = TRUE
      BY <2>1, <2>6 DEF Merge
    <3> QED BY <3>1
  <2> QED BY <2>2, <2>4, <2>5, <2>6
<1> QED BY <1>4, <1>5, <1>6

\* The preview is made: what it will do loses no text.
LEMMA GeneratePreviewOK ==
    ASSUME IInv, NEW m \in Machines, GeneratePreview(m)
    PROVE  IInv'
<1> DEFINE p == NewPreview(m)
           r == MergeResult(m)
           remote == remoteUserData[m]
<1>1. /\ TypeOK /\ DataIsFetched(m) /\ RemoteIsNewer(m) /\ remote \in UserData
      /\ remote.ref > 0 => remote.text = versions[remote.ref].text
  BY MachineFacts, FetchedRef DEF DataIsFetched
<1>2. TypeOK'
  BY TypeStep
<1>3. /\ pc[m] = "preview" /\ syncPreview' = [syncPreview EXCEPT ![m] = p]
      /\ UNCHANGED <<versions, pruned, file, absent, knows, lastSyncUserDataState, olderState,
                     lastSyncResource, remoteUserData, lastSyncUserData>>
  BY GeneratePreviewIs DEF storeVars, stateVars, historyVars
<1>4. /\ p.knows = knows[m] \cup Knows(remote.ref) /\ p.fileContent = r.fileContent
      /\ p.content = r.content /\ p.localChange = r.localChange
      /\ p.remoteChange = r.remoteChange /\ p.acceptRemote = r.acceptRemote
  BY NewPreviewType DEF Remote
<1>5. /\ r.fileContent = file[m]
      /\ ~r.hasConflicts => ~(r.localChange /\ r.remoteChange)
      /\ (~r.hasConflicts /\ ~r.localChange) => IsKnown(remote.ref, Known(m) \cup Knows(remote.ref))
      /\ (~r.hasConflicts /\ ~r.localChange /\ ~r.remoteChange) => IsKnown(remote.ref, Known(m))
      /\ (~r.hasConflicts /\ ~r.localChange /\ r.remoteChange) => r.content = file[m]
      /\ (~r.hasConflicts /\ r.localChange) =>
            /\ r.content = remote.text
            /\ (~r.acceptRemote /\ Exists(file[m])) =>
                  file[m] \in Knows(remote.ref) \cup {remote.text}
  BY <1>3, MergeLosesNothing
<1>6. Synchronised(m)' = Synchronised(m)
  BY <1>3 DEF Synchronised
<1>7. SynchronisedIsKnown(m)' /\ Known(m)' = Known(m)
  BY <1>3, <1>6, QuietFacts
<1>8. DataIsFetched(m)'
  BY <1>1, <1>3 DEF DataIsFetched, IsFetched, At, Null, NoResource
<1>9. /\ r.hasConflicts => pc'[m] = "idle"
      /\ ~r.hasConflicts => pc'[m] = FirstStep(r)
      /\ \A n \in Machines \ {m} :
            /\ status'[n] = status[n] /\ pc'[n] = pc[n] /\ applying'[n] = applying[n]
            /\ latestRef'[n] = latestRef[n]
  <2>1. CASE r.hasConflicts
    BY <1>1, <2>1, GeneratePreviewIs DEF TypeOK
  <2>2. CASE ~r.hasConflicts
    <3>1. GoesOn(m, FirstStep(r))
      BY <2>2, GeneratePreviewIs
    <3> QED BY <1>1, <2>2, <3>1 DEF GoesOn, TypeOK
  <2> QED BY <2>1, <2>2
<1> HIDE DEF p, r
<1>10. /\ syncPreview'[m] = p
       /\ \A n \in Machines \ {m} : Untouched(n)
  BY <1>1, <1>3, <1>9 DEF Untouched, TypeOK
<1>11. RemoteIsNewer(m)'
  <2>1. Null' = Null
    BY DEF Null
  <2> HIDE DEF Null
  <2>2. pc'[m] /= "fetch"
    BY <1>9 DEF FirstStep
  <2> QED BY <1>1, <1>3, <1>6, <2>1, <2>2 DEF RemoteIsNewer, IsDeciding
<1>12. PreviewIsTrue(m)'
  <2>1. /\ pc'[m] = "applyLocal" => ~r.hasConflicts /\ r.localChange
        /\ pc'[m] = "applyRemote" => ~r.hasConflicts /\ ~r.localChange /\ r.remoteChange
        /\ pc'[m] = "saveState" => ~r.hasConflicts /\ ~r.localChange /\ ~r.remoteChange
        /\ pc'[m] /= "saveResource"
    BY <1>9 DEF FirstStep
  <2>2. Knows(remoteUserData[m].ref)' = Knows(remote.ref)
        /\ Knows(remote.ref) \subseteq p.knows
    BY <1>3, <1>4 DEF Knows
  <2>3. syncPreview'[m].fileContent \in Known(m)'
    BY <1>4, <1>5, <1>7, <1>10 DEF Known
  <2>4. ASSUME pc'[m] \in {"applyLocal", "applyRemote"}
        PROVE  IsKnown(remote.ref, p.knows \cup {p.content})
    <3>1. CASE pc'[m] = "applyLocal"
      BY <1>1, <1>4, <1>5, <2>1, <3>1 DEF IsKnown
    <3>2. CASE pc'[m] = "applyRemote"
      <4>1. IsKnown(remote.ref, Known(m) \cup Knows(remote.ref)) /\ p.content = file[m]
        BY <1>4, <1>5, <2>1, <3>2
      <4> QED BY <1>4, <4>1 DEF IsKnown, Known
    <3> QED BY <2>4, <3>1, <3>2
  <2>5. (pc[m] \in {"applyLocal", "applyRemote"} =>
            IsKnown(remoteUserData[m].ref, syncPreview[m].knows \cup {syncPreview[m].content}))'
    BY <1>3, <1>10, <2>4 DEF IsKnown, Exists
  <2>6. (pc[m] = "applyRemote" => syncPreview[m].content \in Known(m))'
    BY <1>4, <1>5, <1>7, <1>10, <2>1 DEF Known
  <2>7. (pc[m] = "applyLocal" =>
            /\ ~syncPreview[m].remoteChange
            /\ syncPreview[m].content = remoteUserData[m].text
            /\ (~syncPreview[m].acceptRemote /\ Exists(syncPreview[m].fileContent)) =>
                  syncPreview[m].fileContent
                      \in Knows(remoteUserData[m].ref) \cup {remoteUserData[m].text})'
    BY <1>3, <1>4, <1>5, <1>10, <2>1, <2>2 DEF Exists
  <2>8. (pc[m] \in {"saveState", "saveResource"} => IsKnown(remoteUserData[m].ref, Known(m)))'
    BY <1>3, <1>5, <1>7, <2>1 DEF IsKnown, Exists
  <2>9. (Knows(remoteUserData[m].ref) \subseteq syncPreview[m].knows)'
    BY <1>10, <2>2
  <2> QED BY <2>3, <2>5, <2>6, <2>7, <2>8, <2>9 DEF PreviewIsTrue
<1> QED BY <1>2, <1>3, <1>7, <1>8, <1>10, <1>11, <1>12, LocalStep DEF MachineOK

\* What a machine took or wrote is no news to one who knows a later version.
LEMMA LaterKnowsMore ==
    ASSUME IInv, NEW ref \in Int, NEW i \in Int, ref <= i, i <= Len(versions), NEW texts,
           Knows(i) \subseteq texts, IsKnown(i, texts)
    PROVE  IsKnown(ref, texts)
<1>1. Len(versions) \in Nat /\ DOMAIN versions = 1..Len(versions) /\ VersionsBuildOn
  BY DEF IInv, TypeOK
<1>2. CASE ref <= 0
  BY <1>2 DEF IsKnown
<1>3. CASE ref = i
  BY <1>3
<1>4. CASE ref > 0 /\ ref < i
  <2>1. ref \in DOMAIN versions /\ i \in DOMAIN versions /\ i > 0
    BY <1>1, <1>4
  <2>2. IsKnown(ref, versions[i].knows \cup {versions[i].text})
    BY <1>1, <1>4, <2>1 DEF VersionsBuildOn
  <2> QED BY <2>1, <2>2 DEF IsKnown, Knows
<1> QED BY <1>2, <1>3, <1>4

\* The file is updated: what was synchronised before is known to the new text.
LEMMA ApplyLocalOK ==
    ASSUME IInv, NEW m \in Machines, ApplyLocal(m)
    PROVE  IInv'
<1> DEFINE p == syncPreview[m]
           remote == remoteUserData[m]
<1>1. /\ TypeOK /\ DataIsFetched(m) /\ RemoteIsNewer(m) /\ SynchronisedIsKnown(m)
      /\ PreviewIsTrue(m) /\ remote.ref \in Int /\ remote.ref <= Len(versions)
  BY MachineFacts
<1>2. TypeOK'
  BY TypeApplyLocal
<1>3. /\ pc[m] = "applyLocal"
      /\ UNCHANGED <<versions, pruned, absent, lastSyncUserDataState, olderState,
                     lastSyncResource, remoteUserData, lastSyncUserData>>
  BY DEF ApplyLocal, AfterLocalPreconditionFailed, storeVars, stateVars
<1>4. Kept /\ Synchronised(m)' = Synchronised(m)
  BY <1>1, <1>3, StoreKept DEF Synchronised
<1>5. DataIsFetched(m)'
  BY <1>1, <1>3 DEF DataIsFetched, IsFetched, At, Null, NoResource
<1>6. CASE LocalPrecondition(m)
  <2>1. /\ file' = [file EXCEPT ![m] = p.content]
        /\ knows' = [knows EXCEPT ![m] = p.knows]
        /\ GoesOn(m, IF p.remoteChange THEN "applyRemote" ELSE "saveState")
        /\ syncPreview' = syncPreview
    BY <1>6 DEF ApplyLocal
  <2>2. /\ Known(m)' = p.knows \cup {p.content}
        /\ pc'[m] = IF p.remoteChange THEN "applyRemote" ELSE "saveState"
    BY <1>1, <2>1 DEF Known, TypeOK, GoesOn
  <2>3. /\ Knows(remote.ref) \subseteq p.knows
        /\ IsKnown(remote.ref, p.knows \cup {p.content})
        /\ \A ref \in Synchronised(m) : ref <= remote.ref
    BY <1>1, <1>3 DEF PreviewIsTrue, RemoteIsNewer, IsDeciding
  <2>4. ASSUME NEW ref \in Synchronised(m)
        PROVE  IsKnown(ref, p.knows \cup {p.content})
    <3>1. ref \in Int /\ ref <= remote.ref
      BY <1>1, <2>3, SynchronisedRefs
    <3> DEFINE texts == p.knows \cup {p.content}
    <3>2. Knows(remote.ref) \subseteq texts /\ IsKnown(remote.ref, texts)
      BY <2>3
    <3> HIDE DEF texts
    <3>3. IsKnown(ref, texts)
      BY <1>1, <3>1, <3>2, LaterKnowsMore
    <3> QED BY <3>3 DEF texts
  <2>5. SynchronisedIsKnown(m)'
    BY <1>3, <1>4, <2>2, <2>4 DEF SynchronisedIsKnown, IsKnown, Exists
  <2>6. RemoteIsNewer(m)'
    <3>1. Null' = Null
      BY DEF Null
    <3> HIDE DEF Null
    <3> QED BY <1>1, <1>3, <1>4, <2>2, <3>1 DEF RemoteIsNewer, IsDeciding
  <2>7. PreviewIsTrue(m)'
    <3>1. (Knows(remoteUserData[m].ref) \subseteq syncPreview[m].knows)'
      BY <1>3, <2>1, <2>3 DEF Knows
    <3>2. (IsKnown(remoteUserData[m].ref, syncPreview[m].knows \cup {syncPreview[m].content}))'
      BY <1>3, <2>1, <2>3 DEF IsKnown, Exists
    <3>3. (IsKnown(remoteUserData[m].ref, Known(m)))'
      BY <1>3, <2>2, <2>3 DEF IsKnown, Exists
    <3>4. (syncPreview[m].content \in Known(m))'
      BY <2>1, <2>2
    <3> QED BY <2>2, <3>1, <3>2, <3>3, <3>4 DEF PreviewIsTrue, InConflicts
  <2>8. \A n \in Machines \ {m} : Untouched(n)
    BY <1>1, <1>3, <2>1 DEF Untouched, TypeOK, GoesOn
  <2> QED BY <1>2, <1>3, <1>5, <2>5, <2>6, <2>7, <2>8, LocalStep DEF MachineOK
<1>7. CASE ~LocalPrecondition(m) /\ applying[m]
  <2>1. Ends(m, "syncing", TRUE) /\ UNCHANGED <<file, knows>>
    BY <1>7 DEF ApplyLocal, AfterLocalPreconditionFailed
  <2>2. IsFetched(lastSyncResource[m])'
    BY <1>5 DEF DataIsFetched
  <2> QED BY <1>2, <1>3, <1>4, <2>1, <2>2, EndOK
<1>8. CASE ~LocalPrecondition(m) /\ ~applying[m]
  <2>1. /\ GoesOn(m, "preview") /\ syncPreview' = [syncPreview EXCEPT ![m] = NoPreview]
        /\ UNCHANGED <<file, knows>>
    BY <1>8 DEF ApplyLocal, AfterLocalPreconditionFailed
  <2>2. SynchronisedIsKnown(m)'
    BY <1>3, <1>4, <2>1, QuietFacts
  <2>3. pc'[m] = "preview"
    BY <1>1, <2>1 DEF GoesOn, TypeOK
  <2>4. RemoteIsNewer(m)'
    <3>1. Null' = Null
      BY DEF Null
    <3> HIDE DEF Null
    <3> QED BY <1>1, <1>3, <1>4, <2>3, <3>1 DEF RemoteIsNewer, IsDeciding
  <2>5. PreviewIsTrue(m)'
    BY <2>3 DEF PreviewIsTrue, InConflicts
  <2>6. \A n \in Machines \ {m} : Untouched(n)
    BY <1>1, <1>3, <2>1 DEF Untouched, TypeOK, GoesOn
  <2> QED BY <1>2, <1>3, <1>5, <2>2, <2>4, <2>5, <2>6, LocalStep DEF MachineOK
<1> QED BY <1>6, <1>7, <1>8

\* The store is written to on the latest version: the new one was made from all.
LEMMA WriteOK ==
    ASSUME IInv, NEW m \in Machines, pc[m] = "applyRemote", IfMatch(m), Write(m),
           UNCHANGED <<file, absent, lastSyncUserDataState, olderState>>
    PROVE  /\ Kept /\ VersionsBuildOn' /\ SynchronisedIsKnown(m)'
           /\ \A i \in 1..Len(versions') : i > Len(versions) => versions'[i].machineId = m
           /\ \A n \in Machines \ {m} : knows'[n] = knows[n]
           /\ versions'[Len(versions) + 1].text \in Known(m)'
<1> DEFINE p == syncPreview[m]
           L == Len(versions)
<1>1. /\ TypeOK /\ SynchronisedIsKnown(m) /\ PreviewIsTrue(m) /\ VersionsBuildOn
      /\ L \in Nat /\ DOMAIN versions = 1..L
  BY MachineFacts
<1>2. /\ Kept /\ Len(versions') = L + 1
      /\ versions'[L + 1].text = p.content
      /\ versions'[L + 1].machineId = m
      /\ versions'[L + 1].knows = p.knows
      /\ knows' = [knows EXCEPT ![m] = knows[m] \cup p.knows]
  BY WriteIs
<1>3. /\ DOMAIN versions' = 1..(L + 1) /\ \A i \in 1..L : versions'[i] = versions[i]
      /\ \A i \in 1..(L + 1) : i \in 1..L \/ i = L + 1
  BY <1>1, <1>2 DEF Kept
<1>4. /\ Knows(L) \subseteq p.knows /\ IsKnown(L, p.knows \cup {p.content})
      /\ p.content \in Known(m)
  BY <1>1 DEF PreviewIsTrue, IfMatch
<1>5. /\ Known(m) \subseteq Known(m)' /\ p.content \in Known(m)'
      /\ \A n \in Machines \ {m} : knows'[n] = knows[n]
  BY <1>1, <1>2, <1>4 DEF Known, TypeOK
<1>6. VersionsBuildOn'
  <2> SUFFICES ASSUME NEW i \in 1..(L + 1), NEW j \in 1..(L + 1), i < j
               PROVE  /\ versions'[i].knows \subseteq versions'[j].knows
                      /\ versions'[i].text \notin absent
                            => versions'[i].text \in versions'[j].knows \cup {versions'[j].text}
    BY <1>3 DEF VersionsBuildOn, IsKnown, Exists
  <2>1. i \in 1..L
    BY <1>1
  <2>2. CASE j \in 1..L
    <3>1. /\ versions[i].knows \subseteq versions[j].knows
          /\ IsKnown(i, versions[j].knows \cup {versions[j].text})
      BY <1>1, <2>1, <2>2 DEF VersionsBuildOn
    <3> QED BY <1>3, <2>1, <2>2, <3>1 DEF IsKnown, Exists
  <2>3. CASE j = L + 1
    <3>1. versions[i].knows \subseteq versions[L].knows
      <4>1. CASE i = L
        BY <4>1
      <4>2. CASE i < L
        <5>1. i \in DOMAIN versions /\ L \in DOMAIN versions
          BY <1>1, <2>1
        <5> QED BY <1>1, <4>2, <5>1 DEF VersionsBuildOn
      <4>3. i = L \/ i < L
        <5>1. L \in Nat
          BY <1>1
        <5> HIDE DEF L
        <5> QED BY <2>1, <5>1
      <4> QED BY <4>1, <4>2, <4>3
    <3>2. versions[L].knows \subseteq p.knows
      BY <1>1, <1>4, <2>1 DEF Knows
    <3> DEFINE texts == p.knows \cup {p.content}
    <3>3. Knows(L) \subseteq texts /\ IsKnown(L, texts) /\ i \in Int /\ L \in Int /\ i <= L
      BY <1>1, <1>4, <2>1
    <3> HIDE DEF texts
    <3>4. IsKnown(i, texts)
      BY <3>3, LaterKnowsMore
    <3>5. versions[i].text \notin absent => versions[i].text \in texts
      BY <2>1, <3>4 DEF IsKnown, Exists
    <3> QED BY <1>2, <1>3, <2>1, <2>3, <3>1, <3>2, <3>5 DEF texts
  <2> QED BY <1>3, <2>2, <2>3
<1>7. Synchronised(m)' \subseteq Synchronised(m) \cup {L + 1}
  BY <1>1, <1>2, <1>3 DEF Synchronised
<1>8. SynchronisedIsKnown(m)' /\ versions'[L + 1].text \in Known(m)'
  <2> DEFINE known == Known(m)
             known2 == Known(m)'
  <2>1. known \subseteq known2 /\ p.content \in known2
    BY <1>5
  <2>2. \A ref \in Synchronised(m) : ref \in Int /\ ref <= L /\ IsKnown(ref, known)
    BY <1>1, SynchronisedRefs DEF SynchronisedIsKnown
  <2> HIDE DEF known, known2
  <2>3. ASSUME NEW ref \in Synchronised(m)
        PROVE  ref > 0 /\ versions'[ref].text \notin absent => versions'[ref].text \in known2
    <3>1. ref > 0 => ref \in 1..L
      BY <1>1, <2>2
    <3> QED BY <1>3, <2>1, <2>2, <3>1 DEF IsKnown, Exists
  <2>4. versions'[L + 1].text \in known2
    BY <1>2, <2>1
  <2>5. \A ref \in Synchronised(m)' :
           ref > 0 /\ versions'[ref].text \notin absent => versions'[ref].text \in known2
    BY <1>7, <2>3, <2>4
  <2>6. SynchronisedIsKnown(m)'
    BY <2>5 DEF known2, SynchronisedIsKnown, IsKnown, Exists
  <2> QED BY <2>4, <2>6 DEF known2
<1> QED BY <1>1, <1>2, <1>5, <1>6, <1>8

\* updateRemoteUserData: the version is written, or another one was first.
LEMMA ApplyRemoteOK ==
    ASSUME IInv, NEW m \in Machines, ApplyRemote(m)
    PROVE  IInv'
<1>1. TypeOK /\ DataIsFetched(m) /\ Len(versions) \in Nat /\ DOMAIN versions = 1..Len(versions)
  BY MachineFacts
<1>2. TypeOK'
  BY TypeApplyRemote
<1>3. /\ pc[m] = "applyRemote"
      /\ UNCHANGED <<pruned, file, absent, lastSyncUserDataState, olderState, lastSyncResource>>
  BY DEF ApplyRemote, stateVars
<1>4. CASE IfMatch(m)
  <2> DEFINE L == Len(versions)
             new == [ref |-> L + 1, text |-> syncPreview[m].content, machineId |-> m]
  <2>1. /\ Write(m) /\ GoesOn(m, "saveState")
        /\ UNCHANGED <<lastSyncUserData, syncPreview>>
        /\ remoteUserData' = [remoteUserData EXCEPT ![m] = new]
    BY <1>4 DEF ApplyRemote
  <2>2. /\ Kept /\ VersionsBuildOn' /\ SynchronisedIsKnown(m)'
        /\ \A i \in 1..Len(versions') : i > Len(versions) => versions'[i].machineId = m
        /\ \A n \in Machines \ {m} : knows'[n] = knows[n]
        /\ versions'[L + 1].text \in Known(m)'
    BY <1>3, <1>4, <2>1, WriteOK
  <2>3. /\ Len(versions') = L + 1 /\ versions'[L + 1].text = syncPreview[m].content
        /\ versions'[L + 1].machineId = m
    BY <1>3, <2>1, WriteIs
  <2>4. /\ remoteUserData'[m] = new /\ pc'[m] = "saveState"
        /\ lastSyncUserData'[m] = lastSyncUserData[m]
        /\ lastSyncResource'[m] = lastSyncResource[m]
    BY <1>1, <1>3, <2>1 DEF TypeOK, GoesOn
  <2>5. new.ref = L + 1 /\ new.text = syncPreview[m].content /\ new.machineId = m
    OBVIOUS
  <2>6. L + 1 \in DOMAIN versions' /\ new /= Null
    <3>1. L + 1 \in DOMAIN versions'
      BY <1>1, <2>2, <2>3 DEF Kept
    <3>2. new.ref /= -1 /\ Null.ref = -1
      BY <1>1 DEF Null
    <3> QED BY <3>1, <3>2
  <2>7. IsFetched(remoteUserData[m])'
    <3>1. remoteUserData'[m].ref = L + 1
      BY <2>4, <2>5
    <3>2. remoteUserData'[m] = [ref |-> L + 1, text |-> versions'[L + 1].text,
                               machineId |-> versions'[L + 1].machineId]
      BY <2>3, <2>4
    <3> HIDE DEF L, new
    <3> QED BY <2>6, <3>1, <3>2 DEF IsFetched, At
  <2> HIDE DEF new
  <2>8. DataIsFetched(m)'
    <3> DEFINE a == lastSyncUserData[m]
               b == lastSyncResource[m]
    <3>1. IsFetched(a) /\ IsFetched(b) /\ a' = a /\ b' = b
      BY <1>1, <2>4 DEF DataIsFetched
    <3> HIDE DEF a, b
    <3>2. IsFetched(a)' /\ IsFetched(b)'
      BY <2>2, <3>1, FetchedKept
    <3> QED BY <2>7, <3>2 DEF DataIsFetched, a, b
  <2>9. RemoteIsNewer(m)'
    <3>1. Null' = Null
      BY DEF Null
    <3> HIDE DEF Null
    <3> QED BY <2>4, <2>6, <3>1 DEF RemoteIsNewer, IsDeciding, InConflicts
  <2>10. PreviewIsTrue(m)'
    <3>1. IsKnown(remoteUserData[m].ref, Known(m))'
      <4>1. remoteUserData'[m].ref = L + 1
        BY <2>4, <2>5
      <4> HIDE DEF L
      <4> QED BY <2>2, <4>1 DEF IsKnown
    <3> QED BY <2>4, <3>1 DEF PreviewIsTrue, InConflicts
  <2>11. \A n \in Machines \ {m} : Untouched(n)
    BY <1>1, <1>3, <2>1, <2>2 DEF Untouched, TypeOK, GoesOn
  <2> QED BY <1>2, <1>3, <2>2, <2>8, <2>9, <2>10, <2>11, MachineStep DEF MachineOK
<1>5. CASE ~IfMatch(m)
  <2>1. UNCHANGED <<versions, knows>>
    BY <1>5 DEF ApplyRemote
  <2>2. Synchronised(m)' \subseteq Synchronised(m)
    BY <1>3, <2>1 DEF Synchronised
  <2>3. IsFetched(lastSyncResource[m])'
    BY <1>1, <1>3, <2>1 DEF DataIsFetched, IsFetched, At, Null, NoResource
  <2>4. CASE applying[m]
    <3>1. Ends(m, "syncing", TRUE)
      BY <1>5, <2>4 DEF ApplyRemote
    <3> QED BY <1>2, <1>3, <2>1, <2>2, <2>3, <3>1, EndOK
  <2>5. CASE ~applying[m]
    <3>1. /\ GoesOn(m, "refetch") /\ syncPreview' = [syncPreview EXCEPT ![m] = NoPreview]
          /\ UNCHANGED <<remoteUserData, lastSyncUserData>>
      BY <1>5, <2>5 DEF ApplyRemote
    <3>2. pc'[m] = "refetch"
      BY <1>1, <3>1 DEF GoesOn, TypeOK
    <3>3. SynchronisedIsKnown(m)'
      BY <1>3, <2>1, <2>2, QuietFacts
    <3>4. DataIsFetched(m)'
      BY <1>1, <1>3, <2>1, <3>1 DEF DataIsFetched, IsFetched, At, Null, NoResource
    <3>5. RemoteIsNewer(m)' /\ PreviewIsTrue(m)'
      BY <3>2 DEF RemoteIsNewer, IsDeciding, PreviewIsTrue, InConflicts
    <3>6. \A n \in Machines \ {m} : Untouched(n)
      BY <1>1, <1>3, <2>1, <3>1 DEF Untouched, TypeOK, GoesOn
    <3> QED BY <1>2, <1>3, <2>1, <3>3, <3>4, <3>5, <3>6, LocalStep DEF MachineOK
  <2> QED BY <2>4, <2>5
<1> QED BY <1>4, <1>5

\* A write that fails, or that nobody hears of: the version counts as this
\* machine's all the same.
LEMMA ApplyRemoteFailsOK ==
    ASSUME IInv, NEW m \in Machines, ApplyRemoteFails(m)
    PROVE  IInv'
<1>1. TypeOK /\ DataIsFetched(m) /\ SynchronisedIsKnown(m)
  BY MachineFacts
<1>2. TypeOK'
  BY TypeApplyRemoteFails
<1>3. /\ pc[m] = "applyRemote"
      /\ UNCHANGED <<pruned, file, absent, lastSyncUserDataState, olderState, lastSyncResource>>
  BY DEF ApplyRemoteFails, stateVars
<1>4. PICK s \in {"idle", "syncing", "conflicts"}, keep \in BOOLEAN :
         Ends(m, s, keep) /\ (keep => s = "syncing")
  BY <1>1, ThrowsEnds DEF ApplyRemoteFails
<1>5. CASE UNCHANGED <<versions, knows>>
  <2>1. Synchronised(m)' \subseteq Synchronised(m)
    BY <1>3, <1>5 DEF Synchronised
  <2>2. IsFetched(lastSyncResource[m])'
    BY <1>1, <1>3, <1>5 DEF DataIsFetched, IsFetched, At, Null, NoResource
  <2> QED BY <1>2, <1>3, <1>4, <1>5, <2>1, <2>2, EndOK
<1>6. CASE IfMatch(m) /\ Write(m)
  <2>1. /\ Kept /\ VersionsBuildOn' /\ SynchronisedIsKnown(m)'
        /\ \A i \in 1..Len(versions') : i > Len(versions) => versions'[i].machineId = m
        /\ \A n \in Machines \ {m} : knows'[n] = knows[n]
    BY <1>3, <1>6, WriteOK
  <2>2. IsFetched(lastSyncResource[m])'
    <3> DEFINE a == lastSyncResource[m]
    <3>1. IsFetched(a) /\ a' = a
      BY <1>1, <1>3 DEF DataIsFetched
    <3> HIDE DEF a
    <3>2. IsFetched(a)'
      BY <2>1, <3>1, FetchedKept
    <3> QED BY <3>2 DEF a
  <2>3. /\ RemoteIsNewer(m)' /\ PreviewIsTrue(m)' /\ DataIsFetched(m)'
        /\ \A n \in Machines \ {m} :
            /\ status'[n] = status[n] /\ pc'[n] = pc[n] /\ applying'[n] = applying[n]
            /\ latestRef'[n] = latestRef[n] /\ remoteUserData'[n] = remoteUserData[n]
            /\ lastSyncUserData'[n] = lastSyncUserData[n] /\ syncPreview'[n] = syncPreview[n]
    BY <1>4, <2>1, <2>2, EndsIs
  <2>4. \A n \in Machines \ {m} : Untouched(n)
    BY <1>3, <2>1, <2>3 DEF Untouched
  <2> QED BY <1>2, <1>3, <2>1, <2>3, <2>4, MachineStep DEF MachineOK
<1> QED BY <1>5, <1>6 DEF ApplyRemoteFails

-----------------------------------------------------------------------------
\* The theorems

\* The invariant holds at the start.
LEMMA InitOK == Init => IInv
<1> SUFFICES ASSUME Init PROVE IInv
  OBVIOUS
<1>1. TypeOK
  BY TypeInit
<1>2. versions = <<>> /\ pruned = 0 /\ absent = {0} /\ Len(versions) = 0 /\ DOMAIN versions = {}
  BY DEF Init
<1>3. VersionsBuildOn
  BY <1>2 DEF VersionsBuildOn
<1>4. ASSUME NEW m \in Machines
      PROVE  /\ lastSyncUserDataState[m] = -1 /\ olderState[m] = -1 /\ pc[m] = "idle"
             /\ status[m] = "idle" /\ lastSyncResource[m] = Null /\ remoteUserData[m] = Null
             /\ lastSyncUserData[m] = Null
  BY DEF Init
<1>5. ASSUME NEW m \in Machines PROVE DataIsFetched(m)
  BY <1>4 DEF DataIsFetched, IsFetched
<1>6. ASSUME NEW m \in Machines PROVE SynchronisedIsKnown(m)
  BY <1>2, <1>4 DEF SynchronisedIsKnown, Synchronised, IsKnown
<1>7. ASSUME NEW m \in Machines PROVE RemoteIsNewer(m) /\ PreviewIsTrue(m)
  BY <1>4 DEF RemoteIsNewer, PreviewIsTrue, IsDeciding, InConflicts
<1> QED BY <1>1, <1>2, <1>3, <1>5, <1>6, <1>7 DEF IInv

\* Every step keeps the invariant.
LEMMA NextOK == IInv /\ [Next]_vars => IInv'
<1> SUFFICES ASSUME IInv, [Next]_vars PROVE IInv'
  OBVIOUS
<1>1. ASSUME NEW m \in Machines, Edit(m) \/ Delete(m) PROVE IInv'
  <2>1. NewText(m) /\ (absent' = absent \/ absent' = absent \cup {edits + 1})
    BY <1>1 DEF Edit, Delete
  <2> QED BY <2>1, NewTextOK
<1>2. ASSUME NEW m \in Machines,
             \/ StartSync(m) \/ Fetch(m) \/ Refetch(m) \/ FetchFails(m) \/ GeneratePreview(m)
             \/ ApplyLocal(m) \/ ApplyLocalFails(m) \/ ApplyRemote(m) \/ ApplyRemoteFails(m)
             \/ SaveState(m) \/ SaveResource(m)
      PROVE  IInv'
  BY <1>2, StartSyncOK, FetchOK, FetchFailsOK, GeneratePreviewOK, ApplyLocalOK,
     ApplyLocalFailsOK, ApplyRemoteOK, ApplyRemoteFailsOK, SaveStateOK, SaveResourceOK
<1>3. ASSUME NEW m \in Machines,
             \/ LocalChangeInConflicts(m) \/ Crash(m) \/ ResetLocal(m)
             \/ \E choice \in {"local", "remote", "preview"} : Accept(m, choice)
      PROVE  IInv'
  BY <1>3, LocalChangeInConflictsOK, CrashOK, ResetLocalOK, AcceptOK
<1>4. CASE Prune
  BY <1>4, PruneOK
<1>5. CASE UNCHANGED vars
  <2>1. UNCHANGED <<versions, pruned, file, lastSyncUserDataState, olderState, lastSyncResource,
                    backups, status, pc, applying, latestRef, remoteUserData, lastSyncUserData,
                    syncPreview, edits, faults, absent, knows, interrupted>>
    BY <1>5 DEF vars
  <2>2. TypeOK' /\ (0 \in absent)' /\ (pruned <= Len(versions))' /\ VersionsBuildOn'
    BY <2>1 DEF IInv, TypeOK, VersionsBuildOn, IsKnown, Exists
  <2>3. TypeOK /\ Kept
    BY <2>1, StoreKept DEF IInv
  <2>4. ASSUME NEW n \in Machines PROVE MachineOK(n)'
    <3>1. MachineOK(n) /\ Untouched(n)
      BY <2>1 DEF IInv, MachineOK, Untouched
    <3>2. \A i \in 1..Len(versions') : i > Len(versions) => versions'[i].machineId /= n
      BY <2>1, <2>3 DEF Kept
    <3> QED BY <2>3, <3>1, <3>2, UntouchedKeeps
  <2>5. (\A n \in Machines :
           DataIsFetched(n) /\ SynchronisedIsKnown(n) /\ RemoteIsNewer(n) /\ PreviewIsTrue(n))'
    BY <2>4 DEF MachineOK
  <2> QED BY <2>2, <2>5 DEF IInv
<1> QED BY <1>1, <1>2, <1>3, <1>4, <1>5 DEF Next

\* The invariant holds for any machines and any course of edits, faults,
\* conflicts and forgotten versions.
THEOREM SyncInvariant == Spec => []IInv
<1> QED BY InitOK, NextOK, PTL DEF Spec

\* getLastSyncUserData: the base of the next merge is a version that the file
\* was made from.
THEOREM BasesAreAncestors == Spec => []BaseIsAncestor
<1>1. IInv => BaseIsAncestor
  <2> SUFFICES ASSUME IInv, NEW m \in Machines, HasSyncData(GetLastSyncUserData(m)),
                      Exists(GetLastSyncUserData(m).text)
               PROVE  GetLastSyncUserData(m).text \in knows[m] \cup {file[m]}
    BY DEF BaseIsAncestor
  <2> DEFINE base == GetLastSyncUserData(m)
  <2>1. TypeOK /\ DataIsFetched(m) /\ SynchronisedIsKnown(m)
    BY MachineFacts
  <2>2. /\ base \in UserData /\ IsFetched(base)
        /\ base = Null \/ base.ref = lastSyncUserDataState[m]
    BY <2>1, LastSyncIsFetched DEF DataIsFetched
  <2>3. base.ref > 0 /\ Exists(base.text)
    BY DEF HasSyncData
  <2> HIDE DEF base
  <2>4. base.text = versions[base.ref].text /\ base.ref = lastSyncUserDataState[m]
    BY <2>1, <2>2, <2>3, FetchedRef DEF Null
  <2>5. IsKnown(base.ref, Known(m))
    BY <2>1, <2>4 DEF SynchronisedIsKnown, Synchronised
  <2>6. base.text \in knows[m] \cup {file[m]}
    BY <2>3, <2>4, <2>5 DEF IsKnown, Known
  <2> QED BY <2>6 DEF base
<1> QED BY <1>1, SyncInvariant, PTL

\* The steps that change a file without a new text, and what they change it to
LEMMA FileChanges ==
    ASSUME IInv, [Next]_vars, edits' = edits, NEW m \in Machines, file'[m] /= file[m]
    PROVE  /\ ApplyLocal(m) /\ LocalPrecondition(m) /\ file'[m] = syncPreview[m].content
<1>1. TypeOK /\ edits \in Int
  BY DEF IInv, TypeOK
<1>2. ~\E n \in Machines : NewText(n)
  BY <1>1 DEF NewText
<1>3. PICK n \in Machines : ApplyLocal(n) /\ LocalPrecondition(n)
  <2>1. \/ file' = file
        \/ \E n \in Machines : ApplyLocal(n) /\ LocalPrecondition(n)
    BY <1>2, ZenonT(30) DEF Next, vars, Edit, Delete, StartSync, Fetch, Refetch, FetchFails,
       GeneratePreview, ApplyLocal, ApplyLocalFails, ApplyRemote, ApplyRemoteFails, SaveState,
       SaveResource, LocalChangeInConflicts, Accept, Crash, ResetLocal, Prune
  <2> QED BY <2>1
<1>4. file' = [file EXCEPT ![n] = syncPreview[n].content]
  BY <1>3 DEF ApplyLocal
<1>5. n = m
  BY <1>1, <1>4 DEF TypeOK
<1> QED BY <1>1, <1>3, <1>4, <1>5 DEF TypeOK

\* backupLocal and the etag of writeFile: whatever the synchroniser replaces on
\* disk has been backed up, whatever the user does meanwhile.
THEOREM ReplacedTextsAreBackedUp == Spec => ReplacedIsBackedUp
<1>1. IInv /\ [Next]_vars =>
        [\A m \in Machines : (edits' = edits /\ file'[m] /= file[m] /\ Exists(file[m]))
            => (file[m] \in backups'[m] \/ DeleteRace(m))]_vars
  <2> SUFFICES ASSUME IInv, [Next]_vars, NEW m \in Machines, edits' = edits,
                      file'[m] /= file[m], Exists(file[m])
               PROVE  file[m] \in backups'[m] \/ DeleteRace(m)
    OBVIOUS
  <2>1. ApplyLocal(m) /\ LocalPrecondition(m) /\ file'[m] = syncPreview[m].content
    BY FileChanges
  <2>2. CASE file[m] = syncPreview[m].fileContent
    BY <2>1, <2>2 DEF ApplyLocal, IInv, TypeOK
  <2>3. CASE file[m] /= syncPreview[m].fileContent
    BY <2>1, <2>3 DEF LocalPrecondition, DeleteRace
  <2> QED BY <2>2, <2>3
<1> QED BY <1>1, SyncInvariant, PTL DEF Spec, ReplacedIsBackedUp

\* Whoever is about to change a file unasked had decided so before, or has just
\* made its preview.
LEMMA BeginsApplyLocal ==
    ASSUME IInv, [Next]_vars, NEW n \in Machines, pc'[n] = "applyLocal", ~applying'[n]
    PROVE  \/ GeneratePreview(n)
           \/ /\ pc[n] = "applyLocal" /\ ~applying[n]
              /\ syncPreview'[n] = syncPreview[n]
              /\ lastSyncUserData'[n] = lastSyncUserData[n]
              /\ lastSyncUserDataState'[n] = lastSyncUserDataState[n]
<1>1. TypeOK
  BY DEF IInv
<1> DEFINE Quiet == /\ pc[n] = "applyLocal" /\ ~applying[n]
                    /\ syncPreview'[n] = syncPreview[n]
                    /\ lastSyncUserData'[n] = lastSyncUserData[n]
                    /\ lastSyncUserDataState'[n] = lastSyncUserDataState[n]
<1> SUFFICES ASSUME ~GeneratePreview(n) PROVE Quiet
  OBVIOUS
<1>2. ASSUME UNCHANGED <<pc, applying, syncPreview, lastSyncUserData, lastSyncUserDataState>>
      PROVE  Quiet
  BY <1>2
<1>3. ASSUME NEW m \in Machines, NEW s, NEW keep \in BOOLEAN, Ends(m, s, keep),
             m /= n => lastSyncUserDataState'[n] = lastSyncUserDataState[n]
      PROVE  Quiet
  <2>1. pc'[m] = "idle"
    BY <1>1, <1>3 DEF Ends, TypeOK
  <2>2. m /= n
    BY <2>1
  <2>3. pc'[n] = pc[n] /\ applying'[n] = applying[n]
    BY <1>1, <1>3, <2>2 DEF Ends, TypeOK
  <2>4. syncPreview'[n] = syncPreview[n] /\ lastSyncUserData'[n] = lastSyncUserData[n]
    <3>1. CASE keep
      BY <1>3, <3>1 DEF Ends
    <3>2. CASE ~keep
      BY <1>1, <1>3, <2>2, <3>2 DEF Ends, TypeOK
    <3> QED BY <3>1, <3>2
  <2> QED BY <1>3, <2>2, <2>3, <2>4
<1>4. ASSUME NEW m \in Machines, NEW step, pc' = [pc EXCEPT ![m] = step],
             m = n => step /= "applyLocal" \/ applying'[m],
             m /= n => /\ applying'[n] = applying[n]
                       /\ syncPreview'[n] = syncPreview[n]
                       /\ lastSyncUserData'[n] = lastSyncUserData[n]
                       /\ lastSyncUserDataState'[n] = lastSyncUserDataState[n]
      PROVE  Quiet
  <2>1. m /= n
    BY <1>1, <1>4 DEF TypeOK
  <2>2. pc'[n] = pc[n]
    BY <1>1, <1>4, <2>1 DEF TypeOK
  <2> QED BY <1>4, <2>1, <2>2
<1>5. ASSUME NEW m \in Machines, Edit(m) \/ Delete(m) PROVE Quiet
  BY <1>2, <1>5 DEF Edit, Delete, NewText, stateVars, syncVars
<1>6. ASSUME NEW m \in Machines, StartSync(m) PROVE Quiet
  BY <1>4, <1>6 DEF StartSync, stateVars
<1>7. ASSUME NEW m \in Machines, Fetch(m) \/ Refetch(m) PROVE Quiet
  <2>1. /\ pc' = [pc EXCEPT ![m] = "preview"]
        /\ UNCHANGED <<applying, syncPreview, lastSyncUserDataState>>
    BY <1>7 DEF Fetch, Refetch, GoesOn
  <2>2. m /= n => lastSyncUserData'[n] = lastSyncUserData[n]
    BY <1>1, <1>7 DEF Fetch, Refetch, TypeOK
  <2> QED BY <1>4, <2>1, <2>2
<1>8. ASSUME NEW m \in Machines, FetchFails(m) \/ ApplyLocalFails(m) \/ ApplyRemoteFails(m)
      PROVE  Quiet
  <2>1. Throws(m) /\ lastSyncUserDataState' = lastSyncUserDataState
    BY <1>8 DEF FetchFails, ApplyLocalFails, ApplyRemoteFails, stateVars
  <2> QED BY <1>1, <1>3, <2>1, ThrowsEnds
<1>9. ASSUME NEW m \in Machines, GeneratePreview(m) PROVE Quiet
  <2>1. m /= n
    BY <1>9
  <2>2. /\ syncPreview'[n] = syncPreview[n]
        /\ UNCHANGED <<lastSyncUserData, lastSyncUserDataState, applying>>
        /\ \E step : pc' = [pc EXCEPT ![m] = step]
    BY <1>1, <1>9, <2>1, GeneratePreviewIs DEF GoesOn, stateVars, TypeOK
  <2> QED BY <1>4, <2>1, <2>2
<1>10. ASSUME NEW m \in Machines, ApplyLocal(m) \/ LocalChangeInConflicts(m) PROVE Quiet
  <2>1. UNCHANGED <<lastSyncUserDataState>>
    BY <1>10 DEF ApplyLocal, LocalChangeInConflicts, stateVars
  <2>2. CASE Ends(m, "syncing", TRUE)
    BY <1>3, <2>1, <2>2
  <2>3. CASE ~Ends(m, "syncing", TRUE)
    <3>1. PICK step \in {"preview", "applyRemote", "saveState"} : GoesOn(m, step)
      BY <1>10, <2>3 DEF ApplyLocal, AfterLocalPreconditionFailed, LocalChangeInConflicts
    <3>2. m /= n => syncPreview'[n] = syncPreview[n]
      BY <1>1, <1>10, <2>3
         DEF ApplyLocal, AfterLocalPreconditionFailed, LocalChangeInConflicts, TypeOK
    <3>3. lastSyncUserData' = lastSyncUserData
      BY <1>10, <2>3 DEF ApplyLocal, AfterLocalPreconditionFailed, LocalChangeInConflicts
    <3> QED BY <1>4, <2>1, <3>1, <3>2, <3>3 DEF GoesOn
  <2> QED BY <2>2, <2>3
<1>11. ASSUME NEW m \in Machines, ApplyRemote(m) PROVE Quiet
  <2>1. UNCHANGED <<lastSyncUserDataState>>
    BY <1>11 DEF ApplyRemote, stateVars
  <2>2. CASE Ends(m, "syncing", TRUE)
    BY <1>3, <2>1, <2>2
  <2>3. CASE ~Ends(m, "syncing", TRUE)
    <3>1. PICK step \in {"refetch", "saveState"} : GoesOn(m, step)
      BY <1>11, <2>3 DEF ApplyRemote
    <3>2. m /= n => syncPreview'[n] = syncPreview[n]
      BY <1>1, <1>11, <2>3 DEF ApplyRemote, TypeOK
    <3>3. lastSyncUserData' = lastSyncUserData
      BY <1>11, <2>3 DEF ApplyRemote
    <3> QED BY <1>4, <2>1, <3>1, <3>2, <3>3 DEF GoesOn
  <2> QED BY <2>2, <2>3
<1>12. ASSUME NEW m \in Machines, SaveState(m) PROVE Quiet
  <2>1. CASE IsNews(m)
    <3>1. /\ GoesOn(m, "saveResource") /\ UNCHANGED <<lastSyncUserData, syncPreview>>
          /\ m /= n => lastSyncUserDataState'[n] = lastSyncUserDataState[n]
      BY <1>1, <1>12, <2>1 DEF SaveState, TypeOK
    <3> QED BY <1>4, <3>1 DEF GoesOn
  <2>2. CASE ~IsNews(m)
    <3>1. Ends(m, "idle", FALSE) /\ UNCHANGED lastSyncUserDataState
      BY <1>12, <2>2 DEF SaveState
    <3> QED BY <1>3, <3>1
  <2> QED BY <2>1, <2>2
<1>13. ASSUME NEW m \in Machines, SaveResource(m) \/ Crash(m) \/ ResetLocal(m) PROVE Quiet
  <2>1. /\ Ends(m, "idle", FALSE)
        /\ m /= n => lastSyncUserDataState'[n] = lastSyncUserDataState[n]
    BY <1>1, <1>13 DEF SaveResource, Crash, ResetLocal, TypeOK
  <2> QED BY <1>3, <2>1
<1>14. ASSUME NEW m \in Machines, NEW choice \in {"local", "remote", "preview"},
              Accept(m, choice)
       PROVE  Quiet
  <2>1. /\ applying'[m] = TRUE
        /\ m /= n => applying'[n] = applying[n] /\ syncPreview'[n] = syncPreview[n]
        /\ UNCHANGED <<lastSyncUserData, lastSyncUserDataState>>
        /\ \E step : pc' = [pc EXCEPT ![m] = step]
    BY <1>1, <1>14 DEF Accept, TypeOK, stateVars
  <2> QED BY <1>4, <2>1
<1>15. CASE Prune \/ UNCHANGED vars
  BY <1>2, <1>15 DEF Prune, vars, stateVars, syncVars
<1> QED BY <1>5, <1>6, <1>7, <1>8, <1>9, <1>10, <1>11, <1>12, <1>13, <1>14, <1>15 DEF Next

\* doSync accepts the remote text unasked only when the base is lost.
LEMMA AcceptedIsLostOK == Spec => []AcceptedIsLost
<1>1. Init => AcceptedIsLost
  BY DEF Init, AcceptedIsLost
<1>2. IInv /\ AcceptedIsLost /\ [Next]_vars => AcceptedIsLost'
  <2> SUFFICES ASSUME IInv, AcceptedIsLost, [Next]_vars, NEW n \in Machines,
                      pc'[n] = "applyLocal", ~applying'[n], syncPreview'[n].acceptRemote
               PROVE  BaseIsLost(n)'
    BY DEF AcceptedIsLost
  <2>1. Null' = Null
    BY DEF Null
  <2>2. CASE GeneratePreview(n)
    <3>1. /\ syncPreview'[n] = NewPreview(n)
          /\ UNCHANGED <<lastSyncUserData, lastSyncUserDataState>>
      BY <2>2, GeneratePreviewIs DEF IInv, TypeOK, stateVars
    <3>2. NewPreview(n).acceptRemote = MergeResult(n).acceptRemote
      BY NewPreviewType DEF NewPreview, Preview
    <3>3. AcceptsRemote(n)
      <4> SUFFICES ASSUME ~AcceptsRemote(n) PROVE MergeResult(n).acceptRemote = FALSE
        BY <3>1, <3>2
      <4>1. CASE HasSyncData(Remote(n))
        BY <4>1 DEF MergeResult, Merge
      <4>2. CASE ~HasSyncData(Remote(n))
        BY <4>2 DEF MergeResult, NoPreview
      <4> QED BY <4>1, <4>2
    <3> HIDE DEF Null
    <3> QED BY <2>1, <3>1, <3>3 DEF AcceptsRemote, BaseIsLost
  <2>3. CASE ~GeneratePreview(n)
    <3>1. /\ pc[n] = "applyLocal" /\ ~applying[n]
          /\ syncPreview'[n] = syncPreview[n]
          /\ lastSyncUserData'[n] = lastSyncUserData[n]
          /\ lastSyncUserDataState'[n] = lastSyncUserDataState[n]
      BY <2>3, BeginsApplyLocal
    <3>2. BaseIsLost(n)
      BY <3>1 DEF AcceptedIsLost
    <3> HIDE DEF Null
    <3> QED BY <2>1, <3>1, <3>2 DEF BaseIsLost
  <2> QED BY <2>2, <2>3
<1> QED BY <1>1, <1>2, SyncInvariant, PTL DEF Spec

\* merge, If-Match and the base: neither a file nor the latest version of the
\* store is replaced by a text that was not made from it.  For a file there are
\* three exceptions: the user has seen the text and decided so; the base is lost
\* and doSync accepts the remote text unasked; or the text was written after the
\* preview of a sync that deletes the file.
THEOREM OnlyForwardSync == Spec => OnlyForward
<1>1. ASSUME IInv, AcceptedIsLost, [Next]_vars, edits' = edits, NEW m \in Machines,
             file'[m] /= file[m], Exists(file[m])
      PROVE  \/ file[m] \in Knows(remoteUserData[m].ref)
             \/ applying[m] /\ file[m] = syncPreview[m].fileContent
             \/ BaseIsLost(m)
             \/ DeleteRace(m)
  <2>1. ApplyLocal(m) /\ LocalPrecondition(m) /\ file'[m] = syncPreview[m].content
    BY <1>1, FileChanges
  <2>2. CASE file[m] /= syncPreview[m].fileContent
    BY <1>1, <2>1, <2>2 DEF LocalPrecondition, DeleteRace
  <2>3. CASE file[m] = syncPreview[m].fileContent
    <3>1. PreviewIsTrue(m) /\ pc[m] = "applyLocal"
      BY <1>1, <2>1 DEF IInv, ApplyLocal
    <3>2. syncPreview[m].acceptRemote /\ ~applying[m] => BaseIsLost(m)
      BY <1>1, <3>1 DEF AcceptedIsLost
    <3> QED BY <1>1, <2>1, <2>3, <3>1, <3>2 DEF PreviewIsTrue
  <2> QED BY <2>2, <2>3
<1>2. ASSUME IInv, [Next]_vars, versions' /= versions, Exists(Latest.text)
      PROVE  \E m \in Machines :
                /\ Written(m) = versions'
                /\ Latest.text \in syncPreview[m].knows \cup {syncPreview[m].content}
  <2>1. PICK m \in Machines : pc[m] = "applyRemote" /\ IfMatch(m) /\ Write(m)
    BY <1>2, ZenonT(30) DEF Next, vars, storeVars, NewText, Edit, Delete, StartSync, Fetch, Refetch,
       FetchFails, GeneratePreview, ApplyLocal, ApplyLocalFails, ApplyRemote, ApplyRemoteFails,
       SaveState, SaveResource, LocalChangeInConflicts, Accept, Crash, ResetLocal, Prune
  <2>2. /\ Len(versions) \in Nat /\ 0 \in absent
        /\ IsKnown(Len(versions), syncPreview[m].knows \cup {syncPreview[m].content})
        /\ versions \in Seq(Version)
    <3>1. PreviewIsTrue(m) /\ TypeOK /\ 0 \in absent /\ Len(versions) \in Nat
      BY <1>2, MachineFacts
    <3>2. IsKnown(remoteUserData[m].ref, syncPreview[m].knows \cup {syncPreview[m].content})
      BY <2>1, <3>1 DEF PreviewIsTrue
    <3> QED BY <2>1, <3>1, <3>2 DEF IfMatch, TypeOK
  <2>3. versions /= <<>>
    BY <1>2, <2>2 DEF Latest, NoResource, Exists
  <2>4. Len(versions) > 0 /\ Latest.text = versions[Len(versions)].text
    BY <2>2, <2>3 DEF Latest, At
  <2>5. Latest.text \in syncPreview[m].knows \cup {syncPreview[m].content}
    BY <1>2, <2>2, <2>4 DEF IsKnown
  <2> QED BY <2>1, <2>5 DEF Write
<1> DEFINE A == edits' = edits =>
        /\ \A m \in Machines : (file'[m] /= file[m] /\ Exists(file[m])) =>
              \/ file[m] \in Knows(remoteUserData[m].ref)
              \/ applying[m] /\ file[m] = syncPreview[m].fileContent
              \/ BaseIsLost(m)
              \/ DeleteRace(m)
        /\ (versions' /= versions /\ Exists(Latest.text)) =>
              \E m \in Machines :
                  /\ Written(m) = versions'
                  /\ Latest.text \in syncPreview[m].knows \cup {syncPreview[m].content}
<1>3. IInv /\ AcceptedIsLost /\ [Next]_vars => A
  BY <1>1, <1>2
<1>4. IInv /\ AcceptedIsLost /\ [Next]_vars => [A]_vars
  BY <1>3
<1> QED BY <1>4, SyncInvariant, AcceptedIsLostOK, PTL DEF Spec, OnlyForward

-----------------------------------------------------------------------------
\* ConflictInv, on top of IInv

\* the part of it that is about one machine
ConflictOK(m) ==
    LaterIsUnseen(m) /\ FileIsBaseOrNew(m) /\ WrittenIsNew(m) /\ BaseIsSaved(m)

\* A step of machine m passes texts on through the store only: it publishes what
\* it has, and takes what is published or new.
Passes(m) ==
    /\ Kept /\ Len(versions') \in {Len(versions), Len(versions) + 1}
    /\ \A n \in Machines \ {m} : Untouched(n) /\ interrupted'[n] = interrupted[n]
    /\ Published' \subseteq Published \cup Held(m)
    /\ edits' \in {edits, edits + 1}
    /\ \A t \in Held(m)' : t \in Held(m) \cup Published \/ (t = edits + 1 /\ edits' = edits + 1)
    /\ \A i \in 1..Len(versions') : i > Len(versions) =>
          /\ versions'[i].machineId = m
          /\ ~versions'[i].interrupted => OnlyHere(m, versions'[i].text)

\* What anybody has are texts.
LEMMA HeldAreTexts ==
    ASSUME IInv
    PROVE  /\ Published \subseteq Texts /\ \A n \in Machines : Held(n) \subseteq Texts
           /\ edits \in Nat /\ Texts \subseteq Nat
<1>1. TypeOK
  BY DEF IInv
<1>2. \A i \in DOMAIN versions : versions[i] \in Version
  BY <1>1 DEF TypeOK
<1>3. Published \subseteq Texts
  BY <1>2, BoundsAssumption DEF Published, Version, Texts
<1>4. ASSUME NEW n \in Machines PROVE Held(n) \subseteq Texts
  BY <1>1 DEF Held, Known, TypeOK, Preview
<1>5. edits \in Nat /\ Texts \subseteq Nat
  BY <1>1, BoundsAssumption DEF TypeOK, Texts
<1> QED BY <1>3, <1>4, <1>5

\* A step that leaves the store alone publishes nothing.
LEMMA NothingPublished ==
    ASSUME versions' = versions
    PROVE  Published' = Published
BY DEF Published

\* A machine that does nothing has what it had.
LEMMA HeldKept ==
    ASSUME NEW n \in Machines, Untouched(n)
    PROVE  Held(n)' = Held(n) /\ Known(n)' = Known(n)
BY DEF Untouched, Held, Known

\* What only machine n has, it alone has after a step of another.
LEMMA OnlyHereKept ==
    ASSUME IInv, ConflictInv, NEW m \in Machines, NEW n \in Machines \ {m}, Passes(m),
           NEW t, t <= edits, OnlyHere(n, t), t \in Texts
    PROVE  t \notin Published' /\ \A k \in Machines \ {n} : t \notin Held(k)'
<1>1. t \notin Published /\ t \notin Held(m) /\ \A k \in Machines \ {n} : t \notin Held(k)
  BY DEF OnlyHere
<1>2. edits \in Nat /\ t \in Nat
  BY HeldAreTexts
<1>3. t \notin Published'
  BY <1>1 DEF Passes
<1>4. t \notin Held(m)'
  BY <1>1, <1>2 DEF Passes
<1>5. ASSUME NEW k \in Machines \ {n}, k /= m PROVE t \notin Held(k)'
  <2>1. Untouched(k)
    BY <1>5 DEF Passes
  <2> QED BY <1>1, <1>5, <2>1, HeldKept
<1> QED BY <1>3, <1>4, <1>5

\* The versions that a step of m adds are unseen by another machine.
LEMMA UnseenKept ==
    ASSUME IInv, NEW m \in Machines, NEW n \in Machines \ {m}, Passes(m),
           NEW ref, NEW texts, texts \subseteq Held(n), Unseen(ref, texts)
    PROVE  \A i \in DOMAIN versions' :
              i > ref /\ ~versions'[i].interrupted => versions'[i].text \notin texts
<1> SUFFICES ASSUME NEW i \in DOMAIN versions', i > ref, ~versions'[i].interrupted
             PROVE  versions'[i].text \notin texts
  OBVIOUS
<1>1. Kept /\ i \in 1..Len(versions')
  BY DEF Passes, Kept
<1>2. CASE i <= Len(versions)
  <2>1. i \in 1..Len(versions) /\ i \in DOMAIN versions
    BY <1>1, <1>2 DEF Kept
  <2>2. versions'[i] = versions[i]
    BY <1>1, <2>1 DEF Kept
  <2> QED BY <2>1, <2>2 DEF Unseen
<1>3. CASE ~(i <= Len(versions))
  <2>1. i > Len(versions)
    BY <1>1, <1>3 DEF Kept
  <2>2. OnlyHere(m, versions'[i].text)
    BY <1>1, <2>1 DEF Passes
  <2> QED BY <2>2 DEF OnlyHere
<1> QED BY <1>2, <1>3

\* What the text of a version is does not change.
LEMMA TextOfKept ==
    ASSUME Kept, NEW ref \in Int, ref <= Len(versions)
    PROVE  TextOf(ref)' = TextOf(ref)
<1>1. ref > 0 => ref \in 1..Len(versions)
  BY DEF Kept
<1> QED BY <1>1 DEF TextOf, Kept

\* What holds of a machine holds after a step of another one.
LEMMA OthersOK ==
    ASSUME IInv, ConflictInv, NEW m \in Machines, NEW n \in Machines \ {m}, Passes(m)
    PROVE  ConflictOK(n)'
<1> DEFINE p == syncPreview[n]
           r == remoteUserData[n].ref
           s == lastSyncUserDataState[n]
           k == Known(n)
           d == p.knows \cup {p.fileContent, p.content}
<1>1. /\ LaterIsUnseen(n) /\ FileIsBaseOrNew(n) /\ WrittenIsNew(n) /\ BaseIsSaved(n)
      /\ NumbersAreUsed
  BY DEF ConflictInv
<1>2. /\ TypeOK /\ r \in Int /\ r <= Len(versions) /\ s \in Int /\ s <= Len(versions)
      /\ p \in Preview /\ file[n] \in Texts
  <2>1. TypeOK /\ r \in Int /\ r <= Len(versions) /\ p \in Preview /\ Len(versions) \in Nat
    BY MachineFacts
  <2>2. s \in -1..Len(versions) /\ file[n] \in Texts
    BY <2>1 DEF TypeOK
  <2> HIDE DEF s, r, p
  <2>3. s \in Int /\ s <= Len(versions)
    BY <2>1, <2>2
  <2> QED BY <2>1, <2>2, <2>3
<1>3. Untouched(n) /\ interrupted'[n] = interrupted[n] /\ Kept
  BY DEF Passes
<1>4. Known(n)' = k /\ Held(n)' = Held(n) /\ k \subseteq Held(n) /\ d \subseteq Held(n)
  BY <1>3, HeldKept DEF Held
<1>5. /\ file[n] \in Held(n) /\ p.content \in Held(n) /\ p.fileContent \in Held(n)
      /\ \A t \in Held(n) : t <= edits /\ t \in Texts
  <2>1. Held(n) \subseteq Texts
    BY HeldAreTexts
  <2> QED BY <1>1, <2>1 DEF Held, Known, NumbersAreUsed
<1>6. ASSUME NEW t \in Held(n), OnlyHere(n, t)
      PROVE  t \notin Published' /\ \A j \in Machines \ {n} : t \notin Held(j)'
  BY <1>5, <1>6, OnlyHereKept
<1>7. /\ pc'[n] = pc[n] /\ status'[n] = status[n] /\ applying'[n] = applying[n]
      /\ remoteUserData'[n] = remoteUserData[n] /\ latestRef'[n] = latestRef[n]
      /\ lastSyncUserDataState'[n] = s /\ syncPreview'[n] = p /\ file'[n] = file[n]
      /\ lastSyncUserData'[n] = lastSyncUserData[n] /\ lastSyncResource'[n] = lastSyncResource[n]
      /\ Null' = Null
  BY <1>3 DEF Untouched, Null
<1>8. /\ InConflicts(n)' = InConflicts(n) /\ IsSaving(n)' = IsSaving(n)
      /\ IsDeciding(n)' = IsDeciding(n) /\ IsApplying(n)' = IsApplying(n)
      /\ HasBase(n)' = HasBase(n)
  <2> HIDE DEF Null
  <2> QED BY <1>3, <1>7 DEF InConflicts, IsSaving, IsDeciding, IsApplying, HasBase
<1>9. LaterIsUnseen(n)'
  <2>1. ASSUME NEW ref, Unseen(ref, k)
        PROVE  \A i \in DOMAIN versions' :
                  i > ref /\ ~versions'[i].interrupted => versions'[i].text \notin k
    <3> HIDE DEF k
    <3> QED BY <1>4, <2>1, UnseenKept
  <2>2. ASSUME NEW ref, Unseen(ref, d)
        PROVE  \A i \in DOMAIN versions' :
                  i > ref /\ ~versions'[i].interrupted => versions'[i].text \notin d
    <3> HIDE DEF d
    <3> QED BY <1>4, <2>2, UnseenKept
  <2>3. /\ pc[n] = "fetch" => Unseen(latestRef[n], k)
        /\ IsDeciding(n) \/ IsSaving(n) => Unseen(r, k)
        /\ IsApplying(n) => Unseen(r, d)
        /\ HasBase(n) => Unseen(s, k)
    BY <1>1 DEF LaterIsUnseen
  <2>4. syncPreview'[n].knows \cup {syncPreview'[n].fileContent, syncPreview'[n].content} = d
    BY <1>7
  <2> HIDE DEF k, d
  <2>5. (pc[n] = "fetch" => Unseen(latestRef[n], Known(n)))'
    BY <1>4, <1>7, <2>1, <2>3 DEF Unseen
  <2>6. (IsDeciding(n) \/ IsSaving(n) => Unseen(remoteUserData[n].ref, Known(n)))'
    BY <1>4, <1>7, <1>8, <2>1, <2>3 DEF Unseen
  <2>7. (IsApplying(n) => Unseen(remoteUserData[n].ref,
            syncPreview[n].knows \cup {syncPreview[n].fileContent, syncPreview[n].content}))'
    BY <1>7, <1>8, <2>2, <2>3, <2>4 DEF Unseen
  <2>8. (HasBase(n) => Unseen(lastSyncUserDataState[n], Known(n)))'
    BY <1>4, <1>7, <1>8, <2>1, <2>3 DEF Unseen
  <2> QED BY <2>5, <2>6, <2>7, <2>8 DEF LaterIsUnseen
<1>10. ASSUME NEW t \in Held(n), NEW ref \in {r, s}, Same(t, TextOf(ref))
       PROVE  Same(t, TextOf(ref))'
  <2>1. ref \in Int /\ ref <= Len(versions)
    BY <1>2
  <2> QED BY <1>3, <1>10, <2>1, TextOfKept DEF Same, Exists, Kept
<1>11. FileIsBaseOrNew(n)'
  <2>1. OnlyHere(n, file[n]) => OnlyHere(n, file[n])'
    BY <1>5, <1>6, <1>7 DEF OnlyHere
  <2>2. IsLater(n, file[n]) => IsLater(n, file[n])'
    BY <1>7, <2>1 DEF IsLater
  <2>3. Same(file[n], TextOf(s)) => Same(file[n], TextOf(lastSyncUserDataState[n]))'
    BY <1>5, <1>7, <1>10 DEF Same, Exists, TextOf
  <2>4. Same(file[n], TextOf(r)) => Same(file[n], TextOf(remoteUserData[n].ref))'
    BY <1>5, <1>7, <1>10 DEF Same, Exists, TextOf
  <2> QED BY <1>1, <1>7, <1>8, <2>1, <2>2, <2>3, <2>4 DEF FileIsBaseOrNew
<1>12. WrittenIsNew(n)'
  <2>1. OnlyHere(n, p.content) => OnlyHere(n, syncPreview[n].content)'
    BY <1>5, <1>6, <1>7 DEF OnlyHere
  <2>2. OnlyHere(n, p.fileContent) => OnlyHere(n, syncPreview[n].fileContent)'
    BY <1>5, <1>6, <1>7 DEF OnlyHere
  <2> QED BY <1>1, <1>3, <1>7, <1>8, <2>1, <2>2 DEF WrittenIsNew
<1>13. BaseIsSaved(n)'
  <2>1. \A i \in DOMAIN versions' : versions'[i].machineId = n =>
           i \in DOMAIN versions /\ versions[i].machineId = n
    <3> SUFFICES ASSUME NEW i \in DOMAIN versions', versions'[i].machineId = n
                 PROVE  i \in DOMAIN versions /\ versions[i].machineId = n
      OBVIOUS
    <3>1. i \in 1..Len(versions') /\ Len(versions) \in Nat /\ n /= m
      BY <1>3 DEF Kept
    <3>2. ~(i > Len(versions))
      BY <3>1 DEF Passes
    <3>3. i \in 1..Len(versions)
      BY <3>1, <3>2
    <3> QED BY <1>3, <3>3 DEF Kept
  <2> HIDE DEF Null
  <2>2. (IsSaving(n) =>
           \A i \in DOMAIN versions : versions[i].machineId = n => i <= remoteUserData[n].ref)'
    BY <1>1, <1>7, <1>8, <2>1 DEF BaseIsSaved
  <2>3. (~interrupted[n] /\ ~IsSaving(n) =>
           /\ \A i \in DOMAIN versions :
                 versions[i].machineId = n => i <= lastSyncUserDataState[n]
           /\ lastSyncUserDataState[n] \in {-1, lastSyncResource[n].ref})'
    BY <1>1, <1>3, <1>7, <1>8, <2>1 DEF BaseIsSaved
  <2>4. (IsDeciding(n) \/ pc[n] = "saveState" =>
          IF lastSyncUserData[n] = Null THEN interrupted[n] \/ lastSyncUserDataState[n] = -1
          ELSE /\ lastSyncResource[n] = lastSyncUserData[n]
               /\ lastSyncUserData[n].ref = lastSyncUserDataState[n])'
    BY <1>1, <1>3, <1>7, <1>8 DEF BaseIsSaved
  <2>5. (pc[n] = "saveResource" => lastSyncUserDataState[n] = remoteUserData[n].ref)'
    BY <1>1, <1>7 DEF BaseIsSaved
  <2> QED BY <2>2, <2>3, <2>4, <2>5 DEF BaseIsSaved
<1> QED BY <1>9, <1>11, <1>12, <1>13 DEF ConflictOK

\* A step of machine m keeps ConflictInv if it keeps what is about m.
LEMMA ConflictStep ==
    ASSUME IInv, ConflictInv, NEW m \in Machines, Passes(m), ConflictOK(m)'
    PROVE  ConflictInv'
<1>1. NumbersAreUsed /\ VersionsAreNew
  BY DEF ConflictInv
<1>2. /\ edits \in Nat /\ edits' \in {edits, edits + 1} /\ Kept
      /\ Published \subseteq Nat /\ \A n \in Machines : Held(n) \subseteq Nat
  BY HeldAreTexts DEF Passes
<1>3. \A t \in Published' : t <= edits'
  <2> SUFFICES ASSUME NEW t \in Published' PROVE t <= edits'
    OBVIOUS
  <2>1. t \in Published \cup Held(m)
    BY DEF Passes
  <2> QED BY <1>1, <1>2, <2>1 DEF NumbersAreUsed
<1>4. ASSUME NEW n \in Machines, NEW t \in Held(n)' PROVE t <= edits'
  <2>1. CASE n = m
    <3>1. t \in Held(m) \cup Published \/ (t = edits + 1 /\ edits' = edits + 1)
      BY <2>1 DEF Passes
    <3>2. t \in Held(m) \cup Published => t \in Nat /\ t <= edits
      BY <1>1, <1>2 DEF NumbersAreUsed
    <3> QED BY <1>2, <3>1, <3>2
  <2>2. CASE n /= m
    <3>1. Held(n)' = Held(n)
      BY <2>2, HeldKept DEF Passes
    <3> QED BY <1>1, <1>2, <3>1 DEF NumbersAreUsed
  <2> QED BY <2>1, <2>2
<1>5. VersionsAreNew'
  <2> SUFFICES ASSUME NEW i \in DOMAIN versions', NEW j \in DOMAIN versions',
                      ~versions'[j].interrupted
               PROVE  /\ versions'[j].text /= 0
                      /\ i < j => versions'[j].text \notin
                                     versions'[i].knows \cup {versions'[i].text}
    BY DEF VersionsAreNew
  <2>1. CASE j <= Len(versions)
    <3>1. j \in DOMAIN versions /\ versions'[j] = versions[j]
          /\ (i < j => i \in DOMAIN versions /\ versions'[i] = versions[i])
      BY <1>2, <2>1 DEF Kept
    <3> QED BY <1>1, <3>1 DEF VersionsAreNew
  <2>2. CASE ~(j <= Len(versions))
    <3>1. j > Len(versions) /\ j \in 1..Len(versions')
      BY <1>2, <2>2 DEF Kept
    <3>2. versions'[j].text \notin Published
      BY <3>1 DEF Passes, OnlyHere
    <3>3. i < j => i \in DOMAIN versions /\ versions'[i] = versions[i]
      <4>1. Len(versions') \in {Len(versions), Len(versions) + 1}
        BY DEF Passes
      <4>2. Len(versions) \in Nat /\ DOMAIN versions' = 1..Len(versions')
            /\ DOMAIN versions = 1..Len(versions)
        BY <1>2 DEF Kept
      <4>3. i < j => i \in 1..Len(versions)
        <5> DEFINE L == Len(versions)
        <5>1. i \in 1..Len(versions') /\ j \in 1..Len(versions') /\ j > L /\ L \in Nat
              /\ Len(versions') \in {L, L + 1}
          BY <3>1, <4>1, <4>2
        <5> HIDE DEF L
        <5>2. i \in Nat /\ j \in Nat /\ i >= 1 /\ j <= L + 1
          BY <5>1
        <5>3. i < j => i \in 1..L
          BY <5>1, <5>2
        <5> QED BY <5>3 DEF L
      <4> QED BY <1>2, <4>2, <4>3 DEF Kept
    <3> QED BY <3>2, <3>3 DEF Published
  <2> QED BY <2>1, <2>2
<1>6. ASSUME NEW n \in Machines PROVE ConflictOK(n)'
  BY OthersOK
<1>7. NumbersAreUsed'
  BY <1>3, <1>4 DEF NumbersAreUsed
<1> QED BY <1>5, <1>6, <1>7 DEF ConflictInv, ConflictOK

\* A step of machine m that leaves the store alone
Local(m) ==
    /\ versions' = versions /\ absent \subseteq absent' /\ edits' \in {edits, edits + 1}
    /\ \A n \in Machines \ {m} : Untouched(n) /\ interrupted'[n] = interrupted[n]
    /\ \A t \in Held(m)' : t \in Held(m) \cup Published \/ (t = edits + 1 /\ edits' = edits + 1)

\* Such a step publishes nothing, and what only m has it alone has afterwards.
LEMMA LocalPasses ==
    ASSUME IInv, NEW m \in Machines, Local(m)
    PROVE  /\ Passes(m) /\ Kept /\ Published' = Published
           /\ \A n \in Machines \ {m} : Held(n)' = Held(n)
<1>1. Kept /\ TypeOK /\ Len(versions) \in Nat
  BY StoreKept DEF IInv, Local, TypeOK
<1>2. Published' = Published
  BY NothingPublished DEF Local
<1>3. \A n \in Machines \ {m} : Held(n)' = Held(n)
  BY HeldKept DEF Local
<1>4. \A i \in 1..Len(versions') : ~(i > Len(versions))
  BY <1>1 DEF Local
<1> QED BY <1>1, <1>2, <1>3, <1>4 DEF Passes, Local

\* what HasBase stands for
BaseHolds(m) ==
    /\ Unseen(lastSyncUserDataState[m], Known(m))
    /\ OnlyHere(m, file[m]) \/ Same(file[m], TextOf(lastSyncUserDataState[m]))
    /\ \A i \in DOMAIN versions : versions[i].machineId = m => i <= lastSyncUserDataState[m]
    /\ lastSyncUserDataState[m] \in {-1, lastSyncResource[m].ref}

\* Whoever was not cut short has a base.
LEMMA BaseIsThere ==
    ASSUME ConflictInv, NEW m \in Machines, HasBase(m)
    PROVE  BaseHolds(m)
BY DEF ConflictInv, HasBase, BaseHolds, LaterIsUnseen, FileIsBaseOrNew, BaseIsSaved

\* A base stays while nothing happens to it and to the file.
LEMMA BaseCarried ==
    ASSUME IInv, NEW m \in Machines, Local(m), BaseHolds(m),
           file'[m] = file[m], knows'[m] = knows[m],
           lastSyncUserDataState'[m] = lastSyncUserDataState[m],
           lastSyncUserDataState[m] \in {-1, lastSyncResource'[m].ref}
    PROVE  BaseHolds(m)'
<1>1. /\ Published' = Published /\ \A n \in Machines \ {m} : Held(n)' = Held(n)
      /\ versions' = versions /\ absent \subseteq absent'
  BY LocalPasses DEF Local
<1>2. Known(m)' = Known(m)
  BY DEF Known
<1>3. Unseen(lastSyncUserDataState[m], Known(m))'
  BY <1>1, <1>2 DEF Unseen, BaseHolds
<1>4. OnlyHere(m, file[m]) => OnlyHere(m, file[m])'
  BY <1>1 DEF OnlyHere
<1>5. TextOf(lastSyncUserDataState[m])' = TextOf(lastSyncUserDataState[m])
  BY <1>1 DEF TextOf
<1>6. Same(file[m], TextOf(lastSyncUserDataState[m]))
        => Same(file[m], TextOf(lastSyncUserDataState[m]))'
  BY <1>1, <1>5 DEF Same, Exists
<1> QED BY <1>1, <1>3, <1>4, <1>6 DEF BaseHolds

\* A synchroniser that has ended, or begins again, needs its base only.
LEMMA EndedConflictOK ==
    ASSUME NEW m \in Machines, pc'[m] \in {"idle", "refetch"}, ~InConflicts(m)',
           interrupted'[m] \/ BaseHolds(m)'
    PROVE  ConflictOK(m)'
<1>1. /\ ~IsDeciding(m)' /\ ~IsSaving(m)' /\ ~IsApplying(m)' /\ pc'[m] /= "fetch"
      /\ pc'[m] \notin {"applyLocal", "applyRemote", "saveState", "saveResource"}
  BY DEF IsDeciding, IsSaving, IsApplying
<1>2. HasBase(m)' => ~interrupted'[m]
  BY DEF HasBase
<1>3. LaterIsUnseen(m)'
  BY <1>1, <1>2 DEF LaterIsUnseen, BaseHolds
<1>4. FileIsBaseOrNew(m)'
  BY <1>1, <1>2 DEF FileIsBaseOrNew, BaseHolds
<1>5. WrittenIsNew(m)'
  BY <1>1 DEF WrittenIsNew
<1>6. BaseIsSaved(m)'
  BY <1>1 DEF BaseIsSaved, BaseHolds
<1> QED BY <1>3, <1>4, <1>5, <1>6 DEF ConflictOK

\* What Ends leaves of a synchroniser
LEMMA EndsLeaves ==
    ASSUME TypeOK, NEW m \in Machines, NEW s, NEW keep \in BOOLEAN, Ends(m, s, keep),
           keep => s = "syncing"
    PROVE  /\ pc'[m] = "idle" /\ ~InConflicts(m)'
           /\ syncPreview'[m] \in {syncPreview[m], NoPreview}
           /\ \A n \in Machines \ {m} :
                 /\ status'[n] = status[n] /\ pc'[n] = pc[n] /\ applying'[n] = applying[n]
                 /\ latestRef'[n] = latestRef[n] /\ remoteUserData'[n] = remoteUserData[n]
                 /\ lastSyncUserData'[n] = lastSyncUserData[n] /\ syncPreview'[n] = syncPreview[n]
<1>1. pc'[m] = "idle" /\ status'[m] = s
  BY DEF Ends, TypeOK
<1>2. /\ ~keep => remoteUserData'[m] = Null /\ syncPreview'[m] = NoPreview
      /\ keep => syncPreview'[m] = syncPreview[m]
  BY DEF Ends, TypeOK
<1>3. ~InConflicts(m)'
  <2>1. Null' = Null
    BY DEF Null
  <2> HIDE DEF Null
  <2> QED BY <1>1, <1>2, <2>1 DEF InConflicts
<1>4. \A n \in Machines \ {m} :
        /\ status'[n] = status[n] /\ pc'[n] = pc[n] /\ applying'[n] = applying[n]
        /\ latestRef'[n] = latestRef[n]
  BY DEF Ends, TypeOK
<1>5. \A n \in Machines \ {m} :
        /\ remoteUserData'[n] = remoteUserData[n]
        /\ lastSyncUserData'[n] = lastSyncUserData[n] /\ syncPreview'[n] = syncPreview[n]
  <2>1. CASE keep
    BY <2>1 DEF Ends
  <2>2. CASE ~keep
    BY <2>2 DEF Ends, TypeOK
  <2> QED BY <2>1, <2>2
<1> QED BY <1>1, <1>2, <1>3, <1>4, <1>5

\* The texts that a machine has after its preview was reset are ones it had.
LEMMA ResetHolds ==
    ASSUME NEW m \in Machines, syncPreview'[m] \in {syncPreview[m], NoPreview},
           file'[m] = file[m], knows'[m] = knows[m]
    PROVE  Held(m)' \subseteq Held(m) \cup Published
<1>1. CASE syncPreview'[m] = syncPreview[m]
  BY <1>1 DEF Held, Known
<1>2. CASE syncPreview'[m] = NoPreview
  BY <1>2 DEF Held, Known, NoPreview, Published
<1> QED BY <1>1, <1>2

\* The end of a sync, with a base or cut short
LEMMA EndConflict ==
    ASSUME IInv, ConflictInv, NEW m \in Machines, NEW s, NEW keep \in BOOLEAN,
           Ends(m, s, keep), keep => s = "syncing",
           UNCHANGED <<versions, file, absent, knows, edits>>,
           \A n \in Machines \ {m} : /\ lastSyncUserDataState'[n] = lastSyncUserDataState[n]
                                     /\ olderState'[n] = olderState[n]
                                     /\ lastSyncResource'[n] = lastSyncResource[n]
                                     /\ interrupted'[n] = interrupted[n],
           Local(m) => interrupted'[m] \/ BaseHolds(m)'
    PROVE  ConflictInv'
<1>1. TypeOK
  BY DEF IInv
<1>2. /\ pc'[m] = "idle" /\ ~InConflicts(m)'
      /\ syncPreview'[m] \in {syncPreview[m], NoPreview}
      /\ \A n \in Machines \ {m} : Untouched(n)
  BY <1>1, EndsLeaves DEF Untouched
<1>3. Held(m)' \subseteq Held(m) \cup Published
  BY <1>2, ResetHolds
<1>4. Local(m)
  BY <1>2, <1>3 DEF Local
<1> QED BY <1>2, <1>4, LocalPasses, EndedConflictOK, ConflictStep

\* A sync that begins knows no version after the manifest.
LEMMA BegunConflictOK ==
    ASSUME NEW m \in Machines, pc'[m] = "fetch", Unseen(latestRef[m], Known(m))',
           interrupted'[m] \/ BaseHolds(m)'
    PROVE  ConflictOK(m)'
<1>1. /\ ~IsDeciding(m)' /\ ~IsSaving(m)' /\ ~IsApplying(m)' /\ ~InConflicts(m)'
      /\ pc'[m] \notin {"applyLocal", "applyRemote", "saveState", "saveResource"}
  BY DEF IsDeciding, IsSaving, IsApplying, InConflicts
<1>2. HasBase(m)' => ~interrupted'[m]
  BY DEF HasBase
<1>3. LaterIsUnseen(m)'
  BY <1>1, <1>2 DEF LaterIsUnseen, BaseHolds
<1>4. FileIsBaseOrNew(m)'
  BY <1>1, <1>2 DEF FileIsBaseOrNew, BaseHolds
<1>5. WrittenIsNew(m)'
  BY <1>1 DEF WrittenIsNew
<1>6. BaseIsSaved(m)'
  BY <1>1 DEF BaseIsSaved, BaseHolds
<1> QED BY <1>3, <1>4, <1>5, <1>6 DEF ConflictOK

\* what lastSyncUserData is, once it has been read
LastIsSaved(m) ==
    IF lastSyncUserData[m] = Null THEN interrupted[m] \/ lastSyncUserDataState[m] = -1
    ELSE /\ lastSyncResource[m] = lastSyncUserData[m]
         /\ lastSyncUserData[m].ref = lastSyncUserDataState[m]

\* A sync that has fetched its data knows no later version.
LEMMA FetchedConflictOK ==
    ASSUME NEW m \in Machines, pc'[m] = "preview", Unseen(remoteUserData[m].ref, Known(m))',
           interrupted'[m] \/ BaseHolds(m)', LastIsSaved(m)'
    PROVE  ConflictOK(m)'
<1>1. /\ ~IsSaving(m)' /\ ~IsApplying(m)' /\ ~InConflicts(m)'
      /\ pc'[m] \notin {"fetch", "applyLocal", "applyRemote", "saveState", "saveResource"}
  BY DEF IsSaving, IsApplying, InConflicts
<1>2. HasBase(m)' => ~interrupted'[m]
  BY DEF HasBase
<1>3. LaterIsUnseen(m)'
  BY <1>1, <1>2 DEF LaterIsUnseen, BaseHolds
<1>4. FileIsBaseOrNew(m)'
  BY <1>1, <1>2 DEF FileIsBaseOrNew, BaseHolds
<1>5. WrittenIsNew(m)'
  BY <1>1 DEF WrittenIsNew
<1>6. BaseIsSaved(m)'
  BY <1>1 DEF BaseIsSaved, BaseHolds, LastIsSaved
<1> QED BY <1>3, <1>4, <1>5, <1>6 DEF ConflictOK

\* A request fails before anything was done: the base is as it was.
LEMMA FetchFailsConflict ==
    ASSUME IInv, ConflictInv, NEW m \in Machines, FetchFails(m)
    PROVE  ConflictInv'
<1>1. TypeOK /\ pc[m] \in {"fetch", "refetch"}
  BY DEF IInv, FetchFails
<1>2. UNCHANGED <<versions, file, absent, knows, edits, interrupted, lastSyncUserDataState,
                  olderState, lastSyncResource>>
  BY DEF FetchFails, storeVars, stateVars, historyVars
<1>3. PICK s \in {"idle", "syncing", "conflicts"}, keep \in BOOLEAN :
         Ends(m, s, keep) /\ (keep => s = "syncing")
  BY <1>1, ThrowsEnds DEF FetchFails
<1>4. Local(m) => interrupted'[m] \/ BaseHolds(m)'
  <2> SUFFICES ASSUME Local(m), ~interrupted[m] PROVE BaseHolds(m)'
    BY <1>2
  <2>1. BaseHolds(m)
    BY <1>1, BaseIsThere DEF HasBase, IsSaving
  <2> QED BY <1>2, <2>1, BaseCarried DEF BaseHolds
<1> QED BY <1>2, <1>3, <1>4, EndConflict

\* A file operation fails: base and file are as they were.
LEMMA ApplyLocalFailsConflict ==
    ASSUME IInv, ConflictInv, NEW m \in Machines, ApplyLocalFails(m)
    PROVE  ConflictInv'
<1>1. TypeOK /\ pc[m] = "applyLocal"
  BY DEF IInv, ApplyLocalFails
<1>2. UNCHANGED <<versions, file, absent, knows, edits, interrupted, lastSyncUserDataState,
                  olderState, lastSyncResource>>
  BY DEF ApplyLocalFails, storeVars, stateVars, historyVars
<1>3. PICK s \in {"idle", "syncing", "conflicts"}, keep \in BOOLEAN :
         Ends(m, s, keep) /\ (keep => s = "syncing")
  BY <1>1, ThrowsEnds DEF ApplyLocalFails
<1>4. Local(m) => interrupted'[m] \/ BaseHolds(m)'
  <2> SUFFICES ASSUME Local(m), ~interrupted[m] PROVE BaseHolds(m)'
    BY <1>2
  <2>1. BaseHolds(m)
    BY <1>1, BaseIsThere DEF HasBase, IsSaving
  <2> QED BY <1>2, <2>1, BaseCarried DEF BaseHolds
<1> QED BY <1>2, <1>3, <1>4, EndConflict

\* A crash: if nothing was under way and the storage is as it was, so is the base.
LEMMA CrashConflict ==
    ASSUME IInv, ConflictInv, NEW m \in Machines, Crash(m)
    PROVE  ConflictInv'
<1>1. TypeOK
  BY DEF IInv
<1>2. UNCHANGED <<versions, file, absent, knows, edits, lastSyncResource>>
      /\ Ends(m, "idle", FALSE)
  BY DEF Crash, storeVars
<1>3. PICK state \in {lastSyncUserDataState[m], olderState[m]} :
          /\ lastSyncUserDataState' = [lastSyncUserDataState EXCEPT ![m] = state]
          /\ olderState' = [olderState EXCEPT ![m] = state]
          /\ interrupted' = [interrupted EXCEPT ![m] =
                @ \/ pc[m] /= "idle" \/ state /= lastSyncUserDataState[m]]
  BY DEF Crash
<1>4. /\ lastSyncUserDataState'[m] = state
      /\ interrupted'[m] = (interrupted[m] \/ pc[m] /= "idle" \/ state /= lastSyncUserDataState[m])
      /\ \A n \in Machines \ {m} : /\ lastSyncUserDataState'[n] = lastSyncUserDataState[n]
                                   /\ olderState'[n] = olderState[n]
                                   /\ lastSyncResource'[n] = lastSyncResource[n]
                                   /\ interrupted'[n] = interrupted[n]
  BY <1>1, <1>2, <1>3 DEF TypeOK
<1>5. Local(m) => interrupted'[m] \/ BaseHolds(m)'
  <2> SUFFICES ASSUME Local(m), ~interrupted'[m] PROVE BaseHolds(m)'
    OBVIOUS
  <2>1. ~interrupted[m] /\ pc[m] = "idle" /\ state = lastSyncUserDataState[m]
    BY <1>4
  <2>2. BaseHolds(m)
    BY <2>1, BaseIsThere DEF HasBase, IsSaving
  <2> QED BY <1>2, <1>4, <2>1, <2>2, BaseCarried DEF BaseHolds
<1> QED BY <1>2, <1>4, <1>5, EndConflict

\* Sync is turned off and on: whatever is there counts as cut short.
LEMMA ResetLocalConflict ==
    ASSUME IInv, ConflictInv, NEW m \in Machines, ResetLocal(m)
    PROVE  ConflictInv'
<1>1. TypeOK
  BY DEF IInv
<1>2. UNCHANGED <<versions, file, absent, knows, edits>> /\ Ends(m, "idle", FALSE)
  BY DEF ResetLocal, storeVars
<1>3. /\ interrupted'[m]
      /\ \A n \in Machines \ {m} : /\ lastSyncUserDataState'[n] = lastSyncUserDataState[n]
                                   /\ olderState'[n] = olderState[n]
                                   /\ lastSyncResource'[n] = lastSyncResource[n]
                                   /\ interrupted'[n] = interrupted[n]
  BY <1>1 DEF ResetLocal, TypeOK
<1> QED BY <1>2, <1>3, EndConflict

\* The remote version is the base now, and is remembered.
LEMMA SaveResourceConflict ==
    ASSUME IInv, ConflictInv, NEW m \in Machines, SaveResource(m)
    PROVE  ConflictInv'
<1>1. TypeOK /\ IsSaving(m) /\ pc[m] = "saveResource"
  BY DEF IInv, SaveResource, IsSaving
<1>2. UNCHANGED <<versions, file, absent, knows, edits, lastSyncUserDataState, olderState>>
      /\ Ends(m, "idle", FALSE)
  BY DEF SaveResource, storeVars, boundVars
<1>3. /\ lastSyncResource'[m] = remoteUserData[m]
      /\ \A n \in Machines \ {m} : /\ lastSyncResource'[n] = lastSyncResource[n]
                                   /\ interrupted'[n] = interrupted[n]
  BY <1>1 DEF SaveResource, TypeOK
<1>4. /\ lastSyncUserDataState[m] = remoteUserData[m].ref
      /\ Unseen(remoteUserData[m].ref, Known(m))
      /\ OnlyHere(m, file[m]) \/ Same(file[m], TextOf(remoteUserData[m].ref))
      /\ \A i \in DOMAIN versions : versions[i].machineId = m => i <= remoteUserData[m].ref
  BY <1>1 DEF ConflictInv, LaterIsUnseen, FileIsBaseOrNew, BaseIsSaved
<1>5. Local(m) => BaseHolds(m)'
  <2> SUFFICES ASSUME Local(m) PROVE BaseHolds(m)'
    OBVIOUS
  <2>1. /\ Published' = Published /\ \A n \in Machines \ {m} : Held(n)' = Held(n)
    BY LocalPasses
  <2>2. OnlyHere(m, file[m])' = OnlyHere(m, file[m]) /\ Known(m)' = Known(m)
    BY <1>2, <2>1 DEF OnlyHere, Known
  <2> QED BY <1>2, <1>3, <1>4, <2>2 DEF BaseHolds, Unseen, Same, Exists, TextOf
<1> QED BY <1>2, <1>3, <1>5, EndConflict

\* The same in two steps, or in one if the base is the one it was.
LEMMA SaveStateConflict ==
    ASSUME IInv, ConflictInv, NEW m \in Machines, SaveState(m)
    PROVE  ConflictInv'
<1>1. TypeOK /\ IsSaving(m) /\ pc[m] = "saveState"
  BY DEF IInv, SaveState, IsSaving
<1>2. UNCHANGED <<versions, file, absent, knows, edits, lastSyncResource>>
  BY DEF SaveState, storeVars, boundVars
<1>3. /\ Unseen(remoteUserData[m].ref, Known(m))
      /\ OnlyHere(m, file[m]) \/ Same(file[m], TextOf(remoteUserData[m].ref))
      /\ \A i \in DOMAIN versions : versions[i].machineId = m => i <= remoteUserData[m].ref
      /\ lastSyncUserData[m] /= Null => /\ lastSyncResource[m] = lastSyncUserData[m]
                                        /\ lastSyncUserData[m].ref = lastSyncUserDataState[m]
  <2> HIDE DEF Null
  <2> QED BY <1>1 DEF ConflictInv, LaterIsUnseen, FileIsBaseOrNew, BaseIsSaved
<1>4. ASSUME Local(m)
      PROVE  OnlyHere(m, file[m])' = OnlyHere(m, file[m]) /\ Known(m)' = Known(m)
  <2>1. /\ Published' = Published /\ \A n \in Machines \ {m} : Held(n)' = Held(n)
    BY <1>4, LocalPasses
  <2> QED BY <1>2, <2>1 DEF OnlyHere, Known
<1>5. CASE IsNews(m)
  <2>1. /\ lastSyncUserDataState' = [lastSyncUserDataState EXCEPT ![m] = remoteUserData[m].ref]
        /\ olderState' = [olderState EXCEPT ![m] = lastSyncUserDataState[m]]
        /\ GoesOn(m, "saveResource")
        /\ UNCHANGED <<remoteUserData, lastSyncUserData, syncPreview, interrupted>>
    BY <1>5 DEF SaveState
  <2>2. lastSyncUserDataState'[m] = remoteUserData[m].ref /\ pc'[m] = "saveResource"
    BY <1>1, <2>1 DEF TypeOK, GoesOn
  <2>3. \A n \in Machines \ {m} : Untouched(n)
    BY <1>1, <1>2, <2>1 DEF Untouched, TypeOK, GoesOn
  <2>4. Held(m)' = Held(m)
    BY <1>2, <2>1 DEF Held, Known
  <2>5. Local(m)
    BY <1>2, <2>1, <2>3, <2>4 DEF Local
  <2>6. OnlyHere(m, file[m])' = OnlyHere(m, file[m]) /\ Known(m)' = Known(m)
    BY <1>4, <2>5
  <2>7. /\ ~InConflicts(m)' /\ ~IsDeciding(m)' /\ ~IsApplying(m)' /\ ~HasBase(m)' /\ IsSaving(m)'
    BY <2>2 DEF InConflicts, IsDeciding, IsApplying, HasBase, IsSaving
  <2>8. LaterIsUnseen(m)'
    BY <1>2, <1>3, <2>1, <2>2, <2>6, <2>7 DEF LaterIsUnseen, Unseen
  <2>9. FileIsBaseOrNew(m)'
    BY <1>2, <1>3, <2>1, <2>2, <2>6, <2>7 DEF FileIsBaseOrNew, Same, Exists, TextOf
  <2>10. WrittenIsNew(m)'
    BY <2>2, <2>7 DEF WrittenIsNew
  <2>11. BaseIsSaved(m)'
    BY <1>2, <1>3, <2>1, <2>2, <2>7 DEF BaseIsSaved
  <2> QED BY <2>5, <2>8, <2>9, <2>10, <2>11, LocalPasses, ConflictStep DEF ConflictOK
<1>6. CASE ~IsNews(m)
  <2>1. /\ Ends(m, "idle", FALSE) /\ UNCHANGED <<lastSyncUserDataState, olderState>>
        /\ \A n \in Machines \ {m} : interrupted'[n] = interrupted[n]
    BY <1>1, <1>6 DEF SaveState, TypeOK
  <2>2. lastSyncUserData[m] /= Null /\ lastSyncUserData[m].ref = remoteUserData[m].ref
    BY <1>6 DEF IsNews
  <2>3. lastSyncUserDataState[m] = remoteUserData[m].ref
        /\ lastSyncResource[m].ref = remoteUserData[m].ref
    BY <1>3, <2>2
  <2>4. Local(m) => BaseHolds(m)'
    BY <1>2, <1>3, <1>4, <2>1, <2>3 DEF BaseHolds, Unseen, Same, Exists, TextOf
  <2> QED BY <1>2, <2>1, <2>4, EndConflict
<1> QED BY <1>5, <1>6

\* The manifest names the latest version, so none is later.
LEMMA StartSyncConflict ==
    ASSUME IInv, ConflictInv, NEW m \in Machines, StartSync(m)
    PROVE  ConflictInv'
<1>1. TypeOK /\ pc[m] = "idle" /\ Len(versions) \in Nat /\ DOMAIN versions = 1..Len(versions)
  BY MachineFacts DEF StartSync
<1>2. UNCHANGED <<versions, file, absent, knows, edits, interrupted, lastSyncUserDataState,
                  olderState, lastSyncResource, remoteUserData, lastSyncUserData, syncPreview,
                  applying>>
  BY DEF StartSync, storeVars, stateVars, historyVars, boundVars
<1>3. /\ pc'[m] = "fetch" /\ latestRef'[m] = Len(versions)
      /\ \A n \in Machines \ {m} : Untouched(n)
  BY <1>1, <1>2 DEF StartSync, TypeOK, Untouched
<1>4. Held(m)' = Held(m)
  BY <1>2 DEF Held, Known
<1>5. Local(m)
  BY <1>2, <1>3, <1>4 DEF Local
<1>6. Unseen(latestRef[m], Known(m))'
  BY <1>1, <1>2, <1>3 DEF Unseen
<1>7. interrupted'[m] \/ BaseHolds(m)'
  <2> SUFFICES ASSUME ~interrupted[m] PROVE BaseHolds(m)'
    BY <1>2
  <2>1. BaseHolds(m)
    BY <1>1, BaseIsThere DEF HasBase, IsSaving
  <2> QED BY <1>2, <1>5, <2>1, BaseCarried DEF BaseHolds
<1> QED BY <1>3, <1>5, <1>6, <1>7, LocalPasses, BegunConflictOK, ConflictStep

\* The user changes the file: nobody else has the new text.
LEMMA NewTextConflict ==
    ASSUME IInv, ConflictInv, NEW m \in Machines, NewText(m),
           absent' = absent \/ absent' = absent \cup {edits + 1}
    PROVE  ConflictInv'
<1> DEFINE t == edits + 1
<1>1. TypeOK /\ NumbersAreUsed /\ edits \in Nat
  BY HeldAreTexts DEF IInv, ConflictInv
<1>2. UNCHANGED <<versions, interrupted, lastSyncUserDataState, olderState, lastSyncResource,
                  remoteUserData, lastSyncUserData, syncPreview, applying, pc, status, latestRef>>
      /\ edits' = t
  BY DEF NewText, storeVars, stateVars, syncVars
<1>3. /\ file'[m] = t /\ knows'[m] = knows[m] \cup {file[m]}
      /\ \A n \in Machines \ {m} : Untouched(n)
  BY <1>1, <1>2 DEF NewText, TypeOK, Untouched
<1>4. Known(m)' = Known(m) \cup {t} /\ Held(m)' = Held(m) \cup {t}
  BY <1>2, <1>3 DEF Held, Known
<1>5. Local(m)
  BY <1>2, <1>3, <1>4 DEF Local
<1>6. Published' = Published /\ \A n \in Machines \ {m} : Held(n)' = Held(n)
  BY <1>5, LocalPasses
<1>7. t \notin Published /\ \A n \in Machines : t \notin Held(n)
  <2>1. Published \subseteq Nat /\ \A n \in Machines : Held(n) \subseteq Nat
    BY HeldAreTexts
  <2> QED BY <1>1, <2>1 DEF NumbersAreUsed
<1> HIDE DEF t
<1>8. OnlyHere(m, file[m])' /\ IsLater(m, file[m])'
  <2>1. OnlyHere(m, file[m])'
    BY <1>3, <1>6, <1>7 DEF OnlyHere
  <2>2. t \notin syncPreview[m].knows \cup {syncPreview[m].content}
    BY <1>7 DEF Held
  <2> QED BY <1>2, <1>3, <2>1, <2>2 DEF IsLater
<1>9. /\ InConflicts(m)' = InConflicts(m) /\ IsSaving(m)' = IsSaving(m)
      /\ IsDeciding(m)' = IsDeciding(m) /\ IsApplying(m)' = IsApplying(m)
      /\ HasBase(m)' = HasBase(m) /\ Null' = Null
  <2>1. Null' = Null
    BY DEF Null
  <2> HIDE DEF Null
  <2> QED BY <1>2, <2>1 DEF InConflicts, IsSaving, IsDeciding, IsApplying, HasBase
<1>10. LaterIsUnseen(m)'
  <2>1. \A i \in DOMAIN versions : versions[i].text /= t
    BY <1>7 DEF Published
  <2>2. LaterIsUnseen(m)
    BY DEF ConflictInv
  <2>3. (pc[m] = "fetch" => Unseen(latestRef[m], Known(m)))'
    BY <1>2, <1>4, <2>1, <2>2 DEF LaterIsUnseen, Unseen
  <2>4. (IsDeciding(m) \/ IsSaving(m) => Unseen(remoteUserData[m].ref, Known(m)))'
    BY <1>2, <1>4, <1>9, <2>1, <2>2 DEF LaterIsUnseen, Unseen
  <2>5. (IsApplying(m) => Unseen(remoteUserData[m].ref,
            syncPreview[m].knows \cup {syncPreview[m].fileContent, syncPreview[m].content}))'
    BY <1>2, <1>9, <2>2 DEF LaterIsUnseen, Unseen
  <2>6. (HasBase(m) => Unseen(lastSyncUserDataState[m], Known(m)))'
    BY <1>2, <1>4, <1>9, <2>1, <2>2 DEF LaterIsUnseen, Unseen
  <2> QED BY <2>3, <2>4, <2>5, <2>6 DEF LaterIsUnseen
<1>11. FileIsBaseOrNew(m)'
  BY <1>8 DEF FileIsBaseOrNew
<1>12. WrittenIsNew(m)'
  <2>1. WrittenIsNew(m)
    BY DEF ConflictInv
  <2>2. /\ OnlyHere(m, syncPreview[m].content)' = OnlyHere(m, syncPreview[m].content)
        /\ OnlyHere(m, syncPreview[m].fileContent)' = OnlyHere(m, syncPreview[m].fileContent)
    BY <1>2, <1>6 DEF OnlyHere
  <2> QED BY <1>2, <1>9, <2>1, <2>2 DEF WrittenIsNew
<1>13. BaseIsSaved(m)'
  <2>1. BaseIsSaved(m)
    BY DEF ConflictInv
  <2> HIDE DEF Null
  <2> QED BY <1>2, <1>9, <2>1 DEF BaseIsSaved
<1> QED BY <1>5, <1>10, <1>11, <1>12, <1>13, LocalPasses, ConflictStep DEF ConflictOK

\* The data is fetched: no version that is later was known when the sync began.
LEMMA FetchConflict ==
    ASSUME IInv, ConflictInv, NEW m \in Machines, Fetch(m) \/ Refetch(m)
    PROVE  ConflictInv'
<1> DEFINE last == GetLastSyncUserData(m)
           s == lastSyncUserDataState[m]
<1>1. /\ TypeOK /\ pc[m] \in {"fetch", "refetch"} /\ DataIsFetched(m)
      /\ Len(versions) \in Nat /\ DOMAIN versions = 1..Len(versions)
      /\ lastSyncResource[m] \in UserData
  BY MachineFacts DEF Fetch, Refetch, TypeOK
<1>2. UNCHANGED <<versions, file, absent, knows, edits, interrupted, lastSyncUserDataState,
                  olderState, syncPreview, applying, status, latestRef>>
  BY DEF Fetch, Refetch, storeVars, historyVars, boundVars, GoesOn
<1>3. /\ pc'[m] = "preview" /\ lastSyncUserData'[m] = last
      /\ lastSyncResource'[m] = LastSyncResource(m)
      /\ \A n \in Machines \ {m} : Untouched(n)
  BY <1>1, <1>2 DEF Fetch, Refetch, GoesOn, TypeOK, Untouched
<1>4. Held(m)' = Held(m) /\ Known(m)' = Known(m)
  BY <1>2 DEF Held, Known
<1>5. Local(m)
  BY <1>2, <1>3, <1>4 DEF Local
<1>6. Unseen(remoteUserData[m].ref, Known(m))'
  <2>1. Latest.ref = Len(versions)
    BY <1>1, LatestIsFetched
  <2>2. \/ remoteUserData'[m] = Latest
        \/ Fetch(m) /\ remoteUserData'[m] = last /\ last.ref = latestRef[m]
    BY <1>1 DEF Fetch, Refetch, GetLatestRemoteUserData, TypeOK
  <2>3. CASE remoteUserData'[m] = Latest
    BY <1>1, <1>2, <2>1, <2>3 DEF Unseen
  <2>4. CASE Fetch(m) /\ remoteUserData'[m] = last /\ last.ref = latestRef[m]
    <3>1. Unseen(latestRef[m], Known(m))
      BY <2>4 DEF Fetch, ConflictInv, LaterIsUnseen
    <3> QED BY <1>2, <1>4, <2>4, <3>1 DEF Unseen
  <2> QED BY <2>2, <2>3, <2>4
<1>7. ASSUME ~interrupted[m], s /= -1
      PROVE  last = lastSyncResource[m] /\ last /= Null /\ LastSyncResource(m) = last
             /\ lastSyncResource[m].ref = s
  <2>1. BaseHolds(m)
    BY <1>1, <1>7, BaseIsThere DEF HasBase, IsSaving
  <2>2. lastSyncResource[m].ref = s
    BY <1>7, <2>1 DEF BaseHolds
  <2>3. last = lastSyncResource[m]
    BY <1>7, <2>2 DEF GetLastSyncUserData
  <2>4. lastSyncResource[m] /= Null
    BY <1>7, <2>2 DEF Null
  <2> QED BY <1>7, <2>2, <2>3, <2>4 DEF LastSyncResource
<1>8. interrupted'[m] \/ BaseHolds(m)'
  <2> SUFFICES ASSUME ~interrupted[m] PROVE BaseHolds(m)'
    BY <1>2
  <2>1. BaseHolds(m)
    BY <1>1, BaseIsThere DEF HasBase, IsSaving
  <2>2. s \in {-1, lastSyncResource'[m].ref}
    BY <1>3, <1>7
  <2> QED BY <1>2, <1>5, <2>1, <2>2, BaseCarried
<1>9. LastIsSaved(m)'
  <2>1. last = Null \/ last.ref = s
    BY <1>1, LastSyncIsFetched DEF DataIsFetched
  <2>2. last /= Null => LastSyncResource(m) = last
    BY DEF LastSyncResource, GetLastSyncUserData
  <2>3. last = Null => interrupted[m] \/ s = -1
    BY <1>7
  <2>4. Null' = Null
    BY DEF Null
  <2> HIDE DEF Null, last
  <2> QED BY <1>2, <1>3, <2>1, <2>2, <2>3, <2>4 DEF LastIsSaved
<1> QED BY <1>3, <1>5, <1>6, <1>8, <1>9, LocalPasses, FetchedConflictOK, ConflictStep

\* A merge is made again with the data that is there.
LEMMA AgainConflict ==
    ASSUME IInv, ConflictInv, NEW m \in Machines, pc[m] = "applyLocal" \/ InConflicts(m),
           pc' = [pc EXCEPT ![m] = "preview"], syncPreview' = [syncPreview EXCEPT ![m] = NoPreview],
           UNCHANGED <<versions, file, absent, knows, edits, interrupted, lastSyncUserDataState,
                       olderState, lastSyncResource, remoteUserData, lastSyncUserData, applying,
                       status, latestRef>>
    PROVE  ConflictInv'
<1>1. TypeOK /\ IsDeciding(m)
  BY DEF IInv, IsDeciding
<1>2. /\ pc'[m] = "preview" /\ syncPreview'[m] = NoPreview
      /\ \A n \in Machines \ {m} : Untouched(n)
  BY <1>1 DEF TypeOK, Untouched
<1>3. Held(m)' \subseteq Held(m) \cup Published
  BY <1>2, ResetHolds
<1>4. Local(m)
  BY <1>2, <1>3 DEF Local
<1>5. Unseen(remoteUserData[m].ref, Known(m))'
  BY <1>1 DEF ConflictInv, LaterIsUnseen, Unseen, Known
<1>6. interrupted'[m] \/ BaseHolds(m)'
  <2> SUFFICES ASSUME ~interrupted[m] PROVE BaseHolds(m)'
    OBVIOUS
  <2>1. BaseHolds(m)
    BY BaseIsThere DEF HasBase, IsSaving, InConflicts
  <2> QED BY <1>4, <2>1, BaseCarried DEF BaseHolds
<1>7. LastIsSaved(m)'
  <2>1. Null' = Null
    BY DEF Null
  <2> HIDE DEF Null
  <2> QED BY <1>1, <2>1 DEF ConflictInv, BaseIsSaved, LastIsSaved
<1> QED BY <1>2, <1>4, <1>5, <1>6, <1>7, LocalPasses, FetchedConflictOK, ConflictStep

\* ... because the file has changed while a conflict is shown.
LEMMA LocalChangeConflict ==
    ASSUME IInv, ConflictInv, NEW m \in Machines, LocalChangeInConflicts(m)
    PROVE  ConflictInv'
BY AgainConflict DEF LocalChangeInConflicts, storeVars, stateVars, historyVars, boundVars, GoesOn

\* The base of a merge that follows on a complete sync is the one in the storage.
LEMMA BaseTextIs ==
    ASSUME IInv, ConflictInv, NEW m \in Machines, pc[m] = "preview", ~interrupted[m]
    PROVE  /\ Base(m).text = TextOf(lastSyncUserDataState[m]) /\ ~AcceptsRemote(m)
           /\ OnlyHere(m, file[m]) \/ Same(file[m], TextOf(lastSyncUserDataState[m]))
           /\ lastSyncUserDataState[m] \in Int
           /\ lastSyncUserDataState[m] <= remoteUserData[m].ref
<1> DEFINE last == lastSyncUserData[m]
           remote == remoteUserData[m]
           s == lastSyncUserDataState[m]
<1>1. /\ TypeOK /\ DataIsFetched(m) /\ RemoteIsNewer(m) /\ remote \in UserData /\ last \in UserData
      /\ remote.ref \in Int
  BY MachineFacts
<1>2. BaseHolds(m)
  BY BaseIsThere DEF HasBase, IsSaving
<1>3. s \in Int /\ s <= remote.ref
  BY <1>1 DEF RemoteIsNewer, IsDeciding, Synchronised, TypeOK
<1>4. /\ remote.ref > 0 => /\ remote.ref \in DOMAIN versions
                           /\ remote.machineId = versions[remote.ref].machineId
      /\ remote.ref <= 0 => remote.text = 0
      /\ last.ref > 0 => last.text = versions[last.ref].text
      /\ last.ref <= 0 => last.text = 0
      /\ last = Null <=> last.ref = -1
  BY <1>1, FetchedRef DEF DataIsFetched
<1>5. IF last = Null THEN s = -1 ELSE last.ref = s
  <2> HIDE DEF Null
  <2> QED BY DEF ConflictInv, BaseIsSaved, IsDeciding
<1>6. ~AcceptsRemote(m)
  BY <1>5 DEF AcceptsRemote
<1>7. Base(m).text = TextOf(s)
  <2>1. CASE last = Null
    <3>1. s = -1 /\ TextOf(s) = 0 /\ last.text = 0
      BY <1>5, <2>1 DEF TextOf, Null
    <3>2. CASE remote.machineId = m
      <4>1. ~(remote.ref > 0)
        BY <1>1, <1>2, <1>4, <3>1, <3>2 DEF BaseHolds
      <4>2. Base(m) = remote
        BY <2>1, <3>2 DEF Base, FromCurrentMachine, Remote
      <4> QED BY <1>1, <1>4, <3>1, <4>1, <4>2
    <3>3. CASE remote.machineId /= m
      BY <3>1, <3>3 DEF Base, FromCurrentMachine, Remote
    <3> QED BY <3>2, <3>3
  <2>2. CASE last /= Null
    <3>1. last.ref = s /\ Base(m) = last
      BY <1>5, <2>2 DEF Base
    <3> QED BY <1>3, <1>4, <3>1 DEF TextOf
  <2> QED BY <2>1, <2>2
<1> QED BY <1>2, <1>3, <1>6, <1>7 DEF BaseHolds

\* What merge decides: it writes, or shows a conflict for, a text that nobody
\* else has, unless the last sync was cut short.
LEMMA MergeIsNew ==
    ASSUME IInv, ConflictInv, NEW m \in Machines, pc[m] = "preview"
    PROVE  LET r == MergeResult(m)
               remote == remoteUserData[m]
           IN  /\ r.content \in {0, file[m], remote.text}
               /\ r.hasConflicts =>
                     /\ r.content = file[m] /\ remote.ref > 0
                     /\ ~interrupted[m] => /\ OnlyHere(m, file[m])
                                           /\ remote.ref > lastSyncUserDataState[m]
               /\ (~r.hasConflicts /\ ~r.localChange /\ r.remoteChange /\ ~interrupted[m]) =>
                     OnlyHere(m, file[m])
               /\ (~r.hasConflicts /\ ~r.localChange /\ ~r.remoteChange) =>
                     Same(file[m], TextOf(remote.ref))
<1> DEFINE r == MergeResult(m)
           remote == remoteUserData[m]
           s == lastSyncUserDataState[m]
           base == Base(m).text
<1>1. /\ TypeOK /\ DataIsFetched(m) /\ remote \in UserData /\ remote.ref \in Int /\ 0 \in absent
  BY MachineFacts
<1>2. /\ remote.ref > 0 => remote.text = versions[remote.ref].text
      /\ remote.ref <= 0 => remote.text = 0
  BY <1>1, FetchedRef DEF DataIsFetched
<1>3. TextOf(remote.ref) = remote.text
  BY <1>1, <1>2 DEF TextOf
<1>4. ~interrupted[m] =>
         /\ base = TextOf(s)
         /\ OnlyHere(m, file[m]) \/ Same(file[m], base)
         /\ s \in Int /\ s <= remote.ref
  BY BaseTextIs
<1>5. CASE AcceptsRemote(m)
  BY <1>5 DEF MergeResult, Remote
<1>6. CASE ~AcceptsRemote(m) /\ ~HasSyncData(remote)
  <2>1. /\ r.content = file[m] /\ r.hasConflicts = FALSE /\ r.localChange = FALSE
        /\ r.remoteChange = Exists(file[m])
    BY <1>6 DEF MergeResult, Remote, NoPreview
  <2>2. remote.ref <= 0
    BY <1>1, <1>6 DEF HasSyncData
  <2>3. ~interrupted[m] => base = 0
    <3>1. ~interrupted[m] => ~(s > 0)
      BY <1>1, <1>4, <2>2
    <3> QED BY <1>4, <3>1 DEF TextOf
  <2>4. ~Exists(file[m]) => Same(file[m], TextOf(remote.ref))
    BY <1>1, <1>2, <1>3, <2>2 DEF Same, Exists
  <2>5. Exists(file[m]) /\ ~interrupted[m] => OnlyHere(m, file[m])
    BY <1>1, <1>4, <2>3 DEF Same, Exists
  <2> QED BY <2>1, <2>4, <2>5
<1>7. CASE ~AcceptsRemote(m) /\ HasSyncData(remote)
  <2>1. remote.ref > 0 /\ r = Merge(file[m], remote.text, base)
    BY <1>7 DEF MergeResult, Remote, HasSyncData
  <2>2. CASE Same(file[m], remote.text)
    <3>1. /\ r.content = 0 /\ r.localChange = FALSE /\ r.remoteChange = FALSE
          /\ r.hasConflicts = FALSE
      BY <2>1, <2>2 DEF Merge
    <3> QED BY <1>3, <2>2, <3>1
  <2>3. CASE ~Same(file[m], remote.text) /\ Same(base, remote.text)
    <3>1. ~Same(base, file[m]) /\ ~Same(file[m], base)
      BY <2>3 DEF Same
    <3>2. /\ r.localChange = FALSE /\ r.remoteChange = TRUE
          /\ r.hasConflicts = FALSE /\ r.content = file[m]
      BY <2>1, <2>3, <3>1 DEF Merge
    <3> QED BY <1>4, <3>1, <3>2
  <2>4. CASE /\ ~Same(file[m], remote.text) /\ ~Same(base, remote.text)
             /\ Same(base, file[m])
    <3>1. /\ r.localChange = TRUE /\ r.hasConflicts = FALSE /\ r.content = remote.text
      BY <2>1, <2>4 DEF Merge
    <3> QED BY <3>1
  <2>5. CASE /\ ~Same(file[m], remote.text) /\ ~Same(base, remote.text)
             /\ ~Same(base, file[m])
    <3>1. r.hasConflicts = TRUE /\ r.content = file[m]
      BY <2>1, <2>5 DEF Merge
    <3>2. ~Same(file[m], base) /\ base /= remote.text
      BY <2>5 DEF Same
    <3>3. ~interrupted[m] => OnlyHere(m, file[m]) /\ remote.ref > s
      BY <1>1, <1>3, <1>4, <3>2
    <3> QED BY <2>1, <3>1, <3>3
  <2> QED BY <2>2, <2>3, <2>4, <2>5
<1> QED BY <1>5, <1>6, <1>7

\* The preview is made: it holds no text of a later version, and what it will
\* write, or ask the user about, nobody else has.
LEMMA GeneratePreviewConflict ==
    ASSUME IInv, ConflictInv, NEW m \in Machines, GeneratePreview(m)
    PROVE  ConflictInv'
<1> DEFINE p == NewPreview(m)
           r == MergeResult(m)
           remote == remoteUserData[m]
<1>1. /\ TypeOK /\ DataIsFetched(m) /\ RemoteIsNewer(m) /\ remote \in UserData
      /\ remote.ref \in Int /\ Len(versions) \in Nat /\ DOMAIN versions = 1..Len(versions)
      /\ LaterIsUnseen(m) /\ BaseIsSaved(m) /\ VersionsAreNew
  BY MachineFacts DEF ConflictInv
<1>2. /\ remote.ref > 0 => /\ remote.ref \in DOMAIN versions
                           /\ remote.text = versions[remote.ref].text
      /\ remote.ref <= 0 => remote.text = 0
  BY <1>1, FetchedRef DEF DataIsFetched
<1>3. /\ pc[m] = "preview" /\ syncPreview' = [syncPreview EXCEPT ![m] = p]
      /\ UNCHANGED <<versions, file, absent, knows, edits, interrupted, lastSyncUserDataState,
                     olderState, lastSyncResource, remoteUserData, lastSyncUserData, applying>>
  BY GeneratePreviewIs DEF storeVars, stateVars, historyVars, boundVars, GoesOn
<1>4. /\ p.knows = knows[m] \cup Knows(remote.ref) /\ p.fileContent = file[m]
      /\ p.content = r.content /\ p.remoteChange = r.remoteChange
      /\ ~r.hasConflicts => ~(r.localChange /\ r.remoteChange)
      /\ (~r.hasConflicts /\ ~r.localChange /\ r.remoteChange) => r.content = file[m]
      /\ (~r.hasConflicts /\ r.localChange) => r.content = remote.text
  BY <1>3, NewPreviewType, MergeLosesNothing DEF Remote
<1>5. /\ r.content \in {0, file[m], remote.text}
      /\ r.hasConflicts =>
            /\ r.content = file[m] /\ remote.ref > 0
            /\ ~interrupted[m] => /\ OnlyHere(m, file[m])
                                  /\ remote.ref > lastSyncUserDataState[m]
      /\ (~r.hasConflicts /\ ~r.localChange /\ r.remoteChange /\ ~interrupted[m]) =>
            OnlyHere(m, file[m])
      /\ (~r.hasConflicts /\ ~r.localChange /\ ~r.remoteChange) =>
            Same(file[m], TextOf(remote.ref))
  BY <1>3, MergeIsNew
<1>6. /\ r.hasConflicts => pc'[m] = "idle"
      /\ ~r.hasConflicts => pc'[m] = FirstStep(r) /\ status'[m] = status[m]
      /\ \A n \in Machines \ {m} :
            /\ status'[n] = status[n] /\ pc'[n] = pc[n] /\ latestRef'[n] = latestRef[n]
  <2>1. CASE r.hasConflicts
    BY <1>1, <2>1, GeneratePreviewIs DEF TypeOK
  <2>2. CASE ~r.hasConflicts
    <3>1. GoesOn(m, FirstStep(r))
      BY <2>2, GeneratePreviewIs
    <3> QED BY <1>1, <2>2, <3>1 DEF GoesOn, TypeOK
  <2> QED BY <2>1, <2>2
<1> HIDE DEF p, r
<1>7. /\ syncPreview'[m] = p
      /\ \A n \in Machines \ {m} : Untouched(n)
  BY <1>1, <1>3, <1>6 DEF Untouched, TypeOK
<1>8. Known(m)' = Known(m)
  BY <1>3 DEF Known
<1>9. Held(m)' \subseteq Held(m) \cup Published
  <2>1. remote.text \in Published /\ 0 \in Published /\ Knows(remote.ref) \subseteq Published
    BY <1>1, <1>2 DEF Published, Knows
  <2>2. knows[m] \subseteq Held(m) /\ file[m] \in Held(m) /\ Known(m) \subseteq Held(m)
    BY DEF Held, Known
  <2>3. Held(m)' = Known(m) \cup p.knows \cup {p.fileContent, p.content}
    BY <1>7, <1>8 DEF Held
  <2> QED BY <1>4, <1>5, <2>1, <2>2, <2>3
<1>10. Local(m)
  BY <1>3, <1>7, <1>9 DEF Local
<1>11. /\ pc'[m] = "applyLocal" => ~r.hasConflicts /\ r.localChange
       /\ pc'[m] = "applyRemote" => ~r.hasConflicts /\ ~r.localChange /\ r.remoteChange
       /\ pc'[m] = "saveState" => ~r.hasConflicts /\ ~r.localChange /\ ~r.remoteChange
       /\ pc'[m] \in {"idle", "applyLocal", "applyRemote", "saveState"}
       /\ InConflicts(m)' => r.hasConflicts
  BY <1>6 DEF FirstStep, InConflicts
<1>12. /\ OnlyHere(m, file[m]) => OnlyHere(m, file[m])'
       /\ \A t : OnlyHere(m, t) => t \notin Published' /\ \A n \in Machines \ {m} : t \notin Held(n)'
  BY <1>3, <1>10, LocalPasses DEF OnlyHere
<1>13. interrupted[m] \/ BaseHolds(m)'
  <2> SUFFICES ASSUME ~interrupted[m] PROVE BaseHolds(m)'
    OBVIOUS
  <2>1. BaseHolds(m)
    BY <1>3, BaseIsThere DEF HasBase, IsSaving
  <2> QED BY <1>3, <1>10, <2>1, BaseCarried DEF BaseHolds
<1>14. LaterIsUnseen(m)'
  <2>1. Unseen(remote.ref, Known(m))
    BY <1>1, <1>3 DEF LaterIsUnseen, IsDeciding
  <2>2. Unseen(remote.ref, Knows(remote.ref) \cup {remote.text})
    <3> SUFFICES ASSUME NEW i \in DOMAIN versions, i > remote.ref, ~versions[i].interrupted
                 PROVE  versions[i].text \notin Knows(remote.ref) \cup {remote.text}
      BY DEF Unseen
    <3>1. CASE remote.ref > 0
      BY <1>1, <1>2, <3>1 DEF VersionsAreNew, Knows
    <3>2. CASE ~(remote.ref > 0)
      BY <1>1, <1>2, <3>2 DEF VersionsAreNew, Knows
    <3> QED BY <3>1, <3>2
  <2>3. IsApplying(m)' => p.content \in {file[m], remote.text}
    BY <1>4, <1>5, <1>11 DEF IsApplying
  <2>4. IsApplying(m)' => Unseen(remote.ref, p.knows \cup {p.fileContent, p.content})
    BY <1>4, <2>1, <2>2, <2>3 DEF Unseen, Known
  <2>5. (IsApplying(m) => Unseen(remoteUserData[m].ref,
            syncPreview[m].knows \cup {syncPreview[m].fileContent, syncPreview[m].content}))'
    BY <1>3, <1>7, <2>4 DEF Unseen
  <2>6. (HasBase(m) => Unseen(lastSyncUserDataState[m], Known(m)))'
    BY <1>3, <1>13 DEF HasBase, BaseHolds
  <2>7. Unseen(remoteUserData[m].ref, Known(m))'
    BY <1>3, <1>8, <2>1 DEF Unseen
  <2>8. pc'[m] /= "fetch"
    BY <1>11
  <2> QED BY <2>5, <2>6, <2>7, <2>8 DEF LaterIsUnseen
<1>15. FileIsBaseOrNew(m)'
  <2>1. (HasBase(m) => OnlyHere(m, file[m]) \/ Same(file[m], TextOf(lastSyncUserDataState[m])))'
    BY <1>3, <1>13 DEF HasBase, BaseHolds
  <2>2. (IsSaving(m) => Same(file[m], TextOf(remoteUserData[m].ref)))'
    BY <1>3, <1>5, <1>11 DEF IsSaving, Same, Exists, TextOf
  <2>3. (file[m] = syncPreview[m].fileContent)'
    BY <1>3, <1>4, <1>7
  <2>4. (pc[m] = "applyRemote" => file[m] = syncPreview[m].content)'
    BY <1>3, <1>4, <1>7, <1>11
  <2> QED BY <2>1, <2>2, <2>3, <2>4 DEF FileIsBaseOrNew
<1>16. WrittenIsNew(m)'
  <2> SUFFICES ASSUME ~interrupted[m] PROVE WrittenIsNew(m)'
    BY <1>3 DEF WrittenIsNew
  <2>1. (pc[m] = "applyRemote" => OnlyHere(m, syncPreview[m].content))'
    BY <1>4, <1>5, <1>7, <1>11, <1>12 DEF OnlyHere
  <2>2. ~(pc[m] = "applyLocal" /\ syncPreview[m].remoteChange)'
    BY <1>4, <1>7, <1>11
  <2>3. (InConflicts(m) => /\ OnlyHere(m, syncPreview[m].fileContent)
                           /\ remoteUserData[m].ref > lastSyncUserDataState[m]
                           /\ remoteUserData[m].ref > 0)'
    BY <1>3, <1>4, <1>5, <1>7, <1>11, <1>12 DEF OnlyHere
  <2> QED BY <2>1, <2>2, <2>3 DEF WrittenIsNew
<1>17. BaseIsSaved(m)'
  <2>1. \A i \in DOMAIN versions : versions[i].machineId = m => i <= remote.ref
    BY <1>1, <1>3 DEF RemoteIsNewer, IsDeciding, Synchronised
  <2>2. LastIsSaved(m)
    BY <1>1, <1>3 DEF BaseIsSaved, LastIsSaved, IsDeciding
  <2>3. LastIsSaved(m)'
    <3>1. Null' = Null
      BY DEF Null
    <3> HIDE DEF Null
    <3> QED BY <1>3, <2>2, <3>1 DEF LastIsSaved
  <2>4. pc'[m] /= "saveResource"
    BY <1>11
  <2>5. (\A i \in DOMAIN versions : versions[i].machineId = m => i <= remoteUserData[m].ref)'
    BY <1>3, <2>1
  <2>6. (~interrupted[m] =>
           /\ \A i \in DOMAIN versions :
                 versions[i].machineId = m => i <= lastSyncUserDataState[m]
           /\ lastSyncUserDataState[m] \in {-1, lastSyncResource[m].ref})'
    BY <1>3, <1>13 DEF BaseHolds
  <2> QED BY <2>3, <2>4, <2>5, <2>6 DEF BaseIsSaved, LastIsSaved
<1> QED BY <1>10, <1>14, <1>15, <1>16, <1>17, LocalPasses, ConflictStep DEF ConflictOK

\* A decision of the user: one of the two sides, or a text that is new.
LEMMA AcceptConflict ==
    ASSUME IInv, ConflictInv, NEW m \in Machines, NEW choice \in {"local", "remote", "preview"},
           Accept(m, choice)
    PROVE  ConflictInv'
<1> DEFINE p == AcceptedPreview(m, choice)
           old == syncPreview[m]
           remote == remoteUserData[m]
           t == edits + 1
<1>1. /\ TypeOK /\ DataIsFetched(m) /\ RemoteIsNewer(m) /\ remote \in UserData /\ remote.ref \in Int
      /\ LaterIsUnseen(m) /\ FileIsBaseOrNew(m) /\ WrittenIsNew(m) /\ BaseIsSaved(m)
      /\ VersionsAreNew /\ NumbersAreUsed /\ DOMAIN versions \subseteq Int
  BY MachineFacts DEF ConflictInv
<1>2. /\ remote.ref > 0 => /\ remote.ref \in DOMAIN versions
                           /\ remote.text = versions[remote.ref].text
      /\ remote.ref <= 0 => remote.text = 0
  BY <1>1, FetchedRef DEF DataIsFetched
<1>3. /\ InConflicts(m)
      /\ syncPreview' = [syncPreview EXCEPT ![m] = p] /\ p \in Preview
      /\ p.content = AcceptedText(m, choice)
      /\ p.localChange <=> choice /= "local"
      /\ p.remoteChange <=> choice /= "remote"
      /\ p.fileContent = old.fileContent
      /\ p.knows = old.knows \cup {old.fileContent, remote.text}
      /\ pc' = [pc EXCEPT ![m] = FirstStep(p)]
  BY <1>1, AcceptIs
<1>4. /\ UNCHANGED <<versions, file, absent, knows, interrupted, lastSyncUserDataState, olderState,
                     lastSyncResource, remoteUserData, lastSyncUserData, latestRef>>
      /\ edits' = IF choice = "preview" THEN t ELSE edits
  BY DEF Accept, storeVars, stateVars, historyVars
<1>5. applying' = [applying EXCEPT ![m] = TRUE] /\ status' = [status EXCEPT ![m] = "syncing"]
  BY DEF Accept
<1>6. /\ choice = "local" => p.content = old.fileContent
      /\ choice = "remote" => p.content = remote.text
      /\ choice = "preview" => p.content = t
  BY <1>3 DEF AcceptedText
<1> HIDE DEF p
<1>7. /\ syncPreview'[m] = p /\ applying'[m] = TRUE /\ pc'[m] = FirstStep(p)
      /\ \A n \in Machines \ {m} : Untouched(n)
  BY <1>1, <1>3, <1>4, <1>5 DEF TypeOK, Untouched
<1>8. /\ pc'[m] = "applyLocal" => choice /= "local"
      /\ pc'[m] = "applyRemote" => choice = "local"
      /\ pc'[m] \in {"applyLocal", "applyRemote"}
  BY <1>3, <1>7 DEF FirstStep
<1>9. /\ remote.text \in Published /\ old.fileContent \in Held(m) /\ Known(m)' = Known(m)
      /\ old.knows \subseteq Held(m) /\ Known(m) \subseteq Held(m)
  BY <1>1, <1>2, <1>4 DEF Published, Held, Known
<1>10. Local(m)
  <2>1. Held(m)' = Known(m) \cup p.knows \cup {p.fileContent, p.content}
    BY <1>7, <1>9 DEF Held
  <2>2. \A u \in Held(m)' :
           u \in Held(m) \cup Published \/ (u = edits + 1 /\ edits' = edits + 1)
    BY <1>3, <1>4, <1>6, <1>9, <2>1
  <2> QED BY <1>4, <1>7, <2>2 DEF Local
<1>11. t \notin Published /\ \A n \in Machines : t \notin Held(n)
  <2>1. Published \subseteq Nat /\ (\A n \in Machines : Held(n) \subseteq Nat) /\ edits \in Nat
    BY HeldAreTexts
  <2> QED BY <1>1, <2>1 DEF NumbersAreUsed
<1> HIDE DEF t
<1>12. \A u : OnlyHere(m, u) => u \notin Published' /\ \A n \in Machines \ {m} : u \notin Held(n)'
  BY <1>10, LocalPasses DEF OnlyHere
<1>13. interrupted[m] \/ BaseHolds(m)'
  <2> SUFFICES ASSUME ~interrupted[m] PROVE BaseHolds(m)'
    OBVIOUS
  <2>1. BaseHolds(m)
    BY <1>3, BaseIsThere DEF HasBase, IsSaving, InConflicts
  <2> QED BY <1>4, <1>10, <2>1, BaseCarried DEF BaseHolds
<1>14. ~InConflicts(m)' /\ ~IsSaving(m)' /\ pc'[m] \notin {"fetch", "saveState", "saveResource"}
  BY <1>8 DEF InConflicts, IsSaving
<1>15. LaterIsUnseen(m)'
  <2>1. /\ Unseen(remote.ref, Known(m))
        /\ Unseen(remote.ref, old.knows \cup {old.fileContent, old.content})
    BY <1>1, <1>3 DEF LaterIsUnseen, IsDeciding, IsApplying
  <2>2. Unseen(remote.ref, {remote.text, t})
    <3> SUFFICES ASSUME NEW i \in DOMAIN versions, i > remote.ref, ~versions[i].interrupted
                 PROVE  versions[i].text \notin {remote.text, t}
      BY DEF Unseen
    <3>1. versions[i].text /= t
      BY <1>11 DEF Published
    <3>2. versions[i].text /= remote.text
      <4>1. CASE remote.ref > 0
        BY <1>1, <1>2, <4>1 DEF VersionsAreNew
      <4>2. CASE ~(remote.ref > 0)
        BY <1>1, <1>2, <4>2 DEF VersionsAreNew
      <4> QED BY <4>1, <4>2
    <3> QED BY <3>1, <3>2
  <2>3. p.content \in {old.fileContent, remote.text, t}
    BY <1>6
  <2>4. Unseen(remote.ref, p.knows \cup {p.fileContent, p.content})
    BY <1>3, <2>1, <2>2, <2>3 DEF Unseen
  <2>5. Unseen(remoteUserData[m].ref,
            syncPreview[m].knows \cup {syncPreview[m].fileContent, syncPreview[m].content})'
    BY <1>4, <1>7, <2>4 DEF Unseen
  <2>6. (HasBase(m) => Unseen(lastSyncUserDataState[m], Known(m)))'
    BY <1>4, <1>13 DEF HasBase, BaseHolds
  <2>7. Unseen(remoteUserData[m].ref, Known(m))'
    BY <1>4, <1>9, <2>1 DEF Unseen
  <2> QED BY <1>14, <2>5, <2>6, <2>7 DEF LaterIsUnseen
<1>16. FileIsBaseOrNew(m)'
  <2>1. (HasBase(m) => OnlyHere(m, file[m]) \/ Same(file[m], TextOf(lastSyncUserDataState[m])))'
    BY <1>4, <1>13 DEF HasBase, BaseHolds
  <2>2. (pc[m] = "applyRemote" => file[m] = syncPreview[m].content \/ IsLater(m, file[m]))'
    <3> SUFFICES ASSUME choice = "local"
                 PROVE  file[m] = p.content \/ IsLater(m, file[m])'
      BY <1>4, <1>7, <1>8
    <3>1. file[m] = old.fileContent \/ IsLater(m, file[m])
      BY <1>1, <1>3 DEF FileIsBaseOrNew
    <3>2. ASSUME file[m] /= old.fileContent
          PROVE  IsLater(m, file[m])'
      <4>1. OnlyHere(m, file[m]) /\ file[m] \notin old.knows
        BY <3>1, <3>2 DEF IsLater
      <4>2. file[m] /= remote.text
        BY <1>9, <4>1 DEF OnlyHere
      <4>3. OnlyHere(m, file[m])'
        BY <1>4, <1>12, <4>1 DEF OnlyHere
      <4>4. file[m] \notin p.knows \cup {p.content}
        BY <1>3, <1>6, <3>2, <4>1, <4>2
      <4> QED BY <1>4, <1>7, <4>3, <4>4 DEF IsLater
    <3> QED BY <1>6, <3>2
  <2> QED BY <1>14, <2>1, <2>2 DEF FileIsBaseOrNew
<1>17. WrittenIsNew(m)'
  <2> SUFFICES ASSUME ~interrupted[m] PROVE WrittenIsNew(m)'
    BY <1>4 DEF WrittenIsNew
  <2>1. OnlyHere(m, old.fileContent) /\ OnlyHere(m, t)
    BY <1>1, <1>3, <1>11 DEF WrittenIsNew, OnlyHere
  <2>2. choice /= "remote" => p.content \in {old.fileContent, t}
    BY <1>6
  <2>3. choice /= "remote" => OnlyHere(m, syncPreview[m].content)'
    BY <1>7, <1>12, <2>1, <2>2 DEF OnlyHere
  <2>4. (pc[m] = "applyRemote" \/ (pc[m] = "applyLocal" /\ syncPreview[m].remoteChange))'
           => choice /= "remote"
    BY <1>3, <1>7, <1>8
  <2> QED BY <1>14, <2>3, <2>4 DEF WrittenIsNew
<1>18. BaseIsSaved(m)'
  <2>1. LastIsSaved(m)
    BY <1>1, <1>3 DEF BaseIsSaved, LastIsSaved, IsDeciding
  <2>2. LastIsSaved(m)'
    <3>1. Null' = Null
      BY DEF Null
    <3> HIDE DEF Null
    <3> QED BY <1>4, <2>1, <3>1 DEF LastIsSaved
  <2>3. (~interrupted[m] =>
           /\ \A i \in DOMAIN versions :
                 versions[i].machineId = m => i <= lastSyncUserDataState[m]
           /\ lastSyncUserDataState[m] \in {-1, lastSyncResource[m].ref})'
    BY <1>4, <1>13 DEF BaseHolds
  <2> QED BY <1>14, <2>2, <2>3 DEF BaseIsSaved, LastIsSaved
<1> QED BY <1>10, <1>15, <1>16, <1>17, <1>18, LocalPasses, ConflictStep DEF ConflictOK

\* The file is updated, or has changed since the preview.
LEMMA ApplyLocalConflict ==
    ASSUME IInv, ConflictInv, NEW m \in Machines, ApplyLocal(m)
    PROVE  ConflictInv'
<1> DEFINE p == syncPreview[m]
           remote == remoteUserData[m]
<1>1. /\ TypeOK /\ DataIsFetched(m) /\ RemoteIsNewer(m) /\ PreviewIsTrue(m) /\ remote \in UserData
      /\ remote.ref \in Int
      /\ LaterIsUnseen(m) /\ WrittenIsNew(m) /\ BaseIsSaved(m)
  BY MachineFacts DEF ConflictInv
<1>2. /\ pc[m] = "applyLocal"
      /\ UNCHANGED <<versions, absent, edits, interrupted, lastSyncUserDataState, olderState,
                     lastSyncResource, remoteUserData, lastSyncUserData>>
  BY DEF ApplyLocal, AfterLocalPreconditionFailed, storeVars, stateVars, boundVars
<1>3. interrupted[m] \/ BaseHolds(m)
  BY <1>2, BaseIsThere DEF HasBase, IsSaving
<1>4. CASE LocalPrecondition(m)
  <2>1. /\ file' = [file EXCEPT ![m] = p.content]
        /\ knows' = [knows EXCEPT ![m] = p.knows]
        /\ GoesOn(m, IF p.remoteChange THEN "applyRemote" ELSE "saveState")
        /\ syncPreview' = syncPreview
    BY <1>4 DEF ApplyLocal
  <2>2. /\ Known(m)' = p.knows \cup {p.content} /\ file'[m] = p.content
        /\ pc'[m] = IF p.remoteChange THEN "applyRemote" ELSE "saveState"
        /\ UNCHANGED <<status, applying, latestRef>>
        /\ \A n \in Machines \ {m} : Untouched(n)
    BY <1>1, <1>2, <2>1 DEF Known, TypeOK, GoesOn, Untouched
  <2>3. Held(m)' \subseteq Held(m)
    BY <2>1, <2>2 DEF Held
  <2>4. Local(m)
    BY <1>2, <2>2, <2>3 DEF Local
  <2>5. /\ p.remoteChange => applying[m]
        /\ ~p.remoteChange => p.content = remote.text
    BY <1>1, <1>2 DEF PreviewIsTrue
  <2>6. ~HasBase(m)' /\ ~InConflicts(m)' /\ pc'[m] \notin {"fetch", "applyLocal", "saveResource"}
    BY <2>2, <2>5 DEF HasBase, IsSaving, InConflicts
  <2>7. LaterIsUnseen(m)'
    <3>1. Unseen(remote.ref, p.knows \cup {p.fileContent, p.content})
      BY <1>1, <1>2 DEF LaterIsUnseen, IsApplying
    <3>2. Unseen(remoteUserData[m].ref, Known(m))'
      BY <1>2, <2>2, <3>1 DEF Unseen
    <3>3. Unseen(remoteUserData[m].ref,
            syncPreview[m].knows \cup {syncPreview[m].fileContent, syncPreview[m].content})'
      BY <1>2, <2>1, <3>1 DEF Unseen
    <3> QED BY <2>6, <3>2, <3>3 DEF LaterIsUnseen
  <2>8. FileIsBaseOrNew(m)'
    <3>1. (IsSaving(m) => Same(file[m], TextOf(remoteUserData[m].ref)))'
      <4>1. ~p.remoteChange => p.content = TextOf(remote.ref)
        <5>1. remote.text = TextOf(remote.ref)
          BY <1>1, FetchedRef DEF DataIsFetched, TextOf
        <5> QED BY <2>5, <5>1
      <4>2. TextOf(remoteUserData[m].ref)' = TextOf(remote.ref)
        BY <1>2 DEF TextOf
      <4> QED BY <2>2, <4>1, <4>2 DEF IsSaving, Same
    <3>2. (file[m] = syncPreview[m].content)'
      BY <2>1, <2>2
    <3> QED BY <2>6, <3>1, <3>2 DEF FileIsBaseOrNew
  <2>9. WrittenIsNew(m)'
    <3> SUFFICES ASSUME ~interrupted[m], p.remoteChange
                 PROVE  OnlyHere(m, syncPreview[m].content)'
      BY <1>2, <2>2, <2>6 DEF WrittenIsNew
    <3>1. OnlyHere(m, p.content)
      BY <1>1, <1>2 DEF WrittenIsNew
    <3> QED BY <2>1, <2>4, <3>1, LocalPasses DEF OnlyHere
  <2>10. BaseIsSaved(m)'
    <3>1. \A i \in DOMAIN versions : versions[i].machineId = m => i <= remote.ref
      BY <1>1, <1>2 DEF RemoteIsNewer, IsDeciding, Synchronised
    <3>2. LastIsSaved(m)
      BY <1>1, <1>2 DEF BaseIsSaved, LastIsSaved, IsDeciding
    <3>3. LastIsSaved(m)'
      <4>1. Null' = Null
        BY DEF Null
      <4> HIDE DEF Null
      <4> QED BY <1>2, <3>2, <4>1 DEF LastIsSaved
    <3>4. (\A i \in DOMAIN versions : versions[i].machineId = m => i <= remoteUserData[m].ref)'
      BY <1>2, <3>1
    <3>5. (~interrupted[m] =>
             /\ \A i \in DOMAIN versions :
                   versions[i].machineId = m => i <= lastSyncUserDataState[m]
             /\ lastSyncUserDataState[m] \in {-1, lastSyncResource[m].ref})'
      BY <1>2, <1>3 DEF BaseHolds
    <3> QED BY <2>6, <3>3, <3>4, <3>5 DEF BaseIsSaved, LastIsSaved
  <2> QED BY <2>4, <2>7, <2>8, <2>9, <2>10, LocalPasses, ConflictStep DEF ConflictOK
<1>5. CASE ~LocalPrecondition(m) /\ applying[m]
  <2>1. Ends(m, "syncing", TRUE) /\ UNCHANGED <<file, knows>>
    BY <1>5 DEF ApplyLocal, AfterLocalPreconditionFailed
  <2>2. Local(m) => interrupted'[m] \/ BaseHolds(m)'
    BY <1>2, <1>3, <2>1, BaseCarried DEF BaseHolds
  <2> QED BY <1>2, <2>1, <2>2, EndConflict
<1>6. CASE ~LocalPrecondition(m) /\ ~applying[m]
  <2>1. /\ GoesOn(m, "preview") /\ syncPreview' = [syncPreview EXCEPT ![m] = NoPreview]
        /\ UNCHANGED <<file, knows>>
    BY <1>6 DEF ApplyLocal, AfterLocalPreconditionFailed
  <2> QED BY <1>2, <2>1, AgainConflict DEF GoesOn
<1> QED BY <1>4, <1>5, <1>6

\* A write publishes what the machine has, under a text nobody else has unless a
\* sync was cut short.
LEMMA WritePasses ==
    ASSUME IInv, ConflictInv, NEW m \in Machines, pc[m] = "applyRemote", Write(m),
           UNCHANGED <<file, absent, edits>>,
           syncPreview'[m] \in {syncPreview[m], NoPreview},
           \A n \in Machines \ {m} : knows'[n] = knows[n] =>
               Untouched(n) /\ interrupted'[n] = interrupted[n]
    PROVE  /\ Passes(m) /\ Len(versions') = Len(versions) + 1
           /\ versions'[Len(versions) + 1].text = syncPreview[m].content
           /\ Published' \subseteq Published \cup syncPreview[m].knows \cup {syncPreview[m].content}
           /\ DOMAIN versions' = 1..(Len(versions) + 1)
<1> DEFINE p == syncPreview[m]
           L == Len(versions)
           v == [text |-> p.content, machineId |-> m, knows |-> p.knows,
                 interrupted |-> interrupted[m]]
<1>1. TypeOK /\ L \in Nat /\ DOMAIN versions = 1..L /\ WrittenIsNew(m)
  BY MachineFacts DEF ConflictInv
<1>2. /\ Kept /\ Len(versions') = L + 1
      /\ knows' = [knows EXCEPT ![m] = knows[m] \cup p.knows]
  BY WriteIs
<1>3. versions'[L + 1] = v
  <2>1. versions' = Append(versions, v) /\ versions \in Seq(Version)
    BY <1>1 DEF Write, Written, TypeOK
  <2> HIDE DEF v
  <2> QED BY <2>1
<1>4. v.text = p.content /\ v.knows = p.knows /\ v.interrupted = interrupted[m] /\ v.machineId = m
  OBVIOUS
<1> HIDE DEF v
<1>5. /\ DOMAIN versions' = 1..(L + 1) /\ \A i \in 1..L : versions'[i] = versions[i]
      /\ \A i \in 1..(L + 1) : i \in 1..L \/ i = L + 1
  BY <1>1, <1>2 DEF Kept
<1>6. Published' \subseteq Published \cup p.knows \cup {p.content}
  <2> SUFFICES ASSUME NEW i \in DOMAIN versions'
               PROVE  versions'[i].knows \cup {versions'[i].text}
                         \subseteq Published \cup p.knows \cup {p.content}
    BY DEF Published
  <2>1. CASE i \in 1..L
    BY <1>1, <1>5, <2>1 DEF Published
  <2>2. CASE i = L + 1
    BY <1>3, <1>4, <2>2
  <2> QED BY <1>5, <2>1, <2>2
<1>7. p.knows \cup {p.content} \subseteq Held(m)
  BY DEF Held
<1>8. \A n \in Machines \ {m} : Untouched(n) /\ interrupted'[n] = interrupted[n]
  BY <1>1, <1>2 DEF TypeOK
<1>9. Held(m)' \subseteq Held(m) \cup Published
  <2>1. Known(m)' = Known(m) \cup p.knows
    BY <1>1, <1>2 DEF Known, TypeOK
  <2>2. CASE syncPreview'[m] = p
    BY <2>1, <2>2 DEF Held
  <2>3. CASE syncPreview'[m] = NoPreview
    BY <2>1, <2>3 DEF Held, NoPreview, Published
  <2> QED BY <2>2, <2>3
<1>10. ASSUME NEW i \in 1..Len(versions'), i > Len(versions)
       PROVE  /\ versions'[i].machineId = m
              /\ ~versions'[i].interrupted => OnlyHere(m, versions'[i].text)
  <2>1. i = L + 1
    BY <1>1, <1>2, <1>10
  <2>2. ~interrupted[m] => OnlyHere(m, p.content)
    BY <1>1 DEF WrittenIsNew
  <2> QED BY <1>3, <1>4, <2>1, <2>2
<1>11. Passes(m)
  BY <1>2, <1>6, <1>7, <1>8, <1>9, <1>10 DEF Passes
<1> QED BY <1>2, <1>3, <1>4, <1>5, <1>6, <1>11

\* The version is written, or another one was first.
LEMMA ApplyRemoteConflict ==
    ASSUME IInv, ConflictInv, NEW m \in Machines, ApplyRemote(m)
    PROVE  ConflictInv'
<1> DEFINE p == syncPreview[m]
           L == Len(versions)
<1>1. /\ TypeOK /\ L \in Nat /\ FileIsBaseOrNew(m) /\ BaseIsSaved(m)
  BY MachineFacts DEF ConflictInv
<1>2. /\ pc[m] = "applyRemote"
      /\ UNCHANGED <<file, absent, edits, lastSyncUserDataState, olderState, lastSyncResource>>
  BY DEF ApplyRemote, stateVars, boundVars
<1>3. CASE IfMatch(m)
  <2> DEFINE new == [ref |-> L + 1, text |-> p.content, machineId |-> m]
  <2>1. /\ Write(m) /\ GoesOn(m, "saveState")
        /\ UNCHANGED <<lastSyncUserData, syncPreview, interrupted>>
        /\ remoteUserData' = [remoteUserData EXCEPT ![m] = new]
    BY <1>3 DEF ApplyRemote
  <2>2. /\ remoteUserData'[m].ref = L + 1 /\ pc'[m] = "saveState"
        /\ \A n \in Machines \ {m} : knows'[n] = knows[n] => Untouched(n)
    BY <1>1, <1>2, <2>1 DEF TypeOK, GoesOn, Untouched
  <2>3. /\ Passes(m) /\ versions'[L + 1].text = p.content
        /\ Published' \subseteq Published \cup p.knows \cup {p.content}
        /\ DOMAIN versions' = 1..(L + 1)
    BY <1>2, <2>1, <2>2, WritePasses
  <2>4. /\ ~HasBase(m)' /\ ~InConflicts(m)' /\ ~IsApplying(m)' /\ IsSaving(m)'
        /\ pc'[m] \notin {"fetch", "applyRemote", "applyLocal", "saveResource"}
    BY <2>2 DEF HasBase, IsSaving, InConflicts, IsApplying
  <2> HIDE DEF new
  <2>5. LaterIsUnseen(m)'
    <3>1. Unseen(remoteUserData[m].ref, Known(m))'
      BY <1>1, <2>2, <2>3 DEF Unseen
    <3> QED BY <2>4, <3>1 DEF LaterIsUnseen
  <2>6. FileIsBaseOrNew(m)'
    <3>1. CASE file[m] = p.content
      <4>1. TextOf(remoteUserData[m].ref)' = p.content
        BY <1>1, <2>2, <2>3 DEF TextOf
      <4>2. Same(file[m], TextOf(remoteUserData[m].ref))'
        BY <1>2, <3>1, <4>1 DEF Same
      <4> QED BY <2>4, <4>2 DEF FileIsBaseOrNew
    <3>2. CASE IsLater(m, file[m])
      <4>1. file[m] \notin Published'
        BY <2>3, <3>2 DEF IsLater, OnlyHere
      <4>2. \A n \in Machines \ {m} : Held(n)' = Held(n)
        BY <2>3, HeldKept DEF Passes
      <4>3. OnlyHere(m, file[m])'
        BY <1>2, <3>2, <4>1, <4>2 DEF IsLater, OnlyHere
      <4> QED BY <2>4, <4>3 DEF FileIsBaseOrNew
    <3> QED BY <1>1, <1>2, <3>1, <3>2 DEF FileIsBaseOrNew
  <2>7. WrittenIsNew(m)'
    BY <2>4 DEF WrittenIsNew
  <2>8. BaseIsSaved(m)'
    <3>1. LastIsSaved(m)
      BY <1>1, <1>2 DEF BaseIsSaved, LastIsSaved, IsDeciding
    <3>2. LastIsSaved(m)'
      <4>1. Null' = Null
        BY DEF Null
      <4> HIDE DEF Null
      <4> QED BY <1>2, <2>1, <3>1, <4>1 DEF LastIsSaved
    <3>3. (\A i \in DOMAIN versions : versions[i].machineId = m => i <= remoteUserData[m].ref)'
      BY <1>1, <2>2, <2>3
    <3> QED BY <2>4, <3>2, <3>3 DEF BaseIsSaved, LastIsSaved
  <2> QED BY <2>3, <2>5, <2>6, <2>7, <2>8, ConflictStep DEF ConflictOK
<1>4. CASE ~IfMatch(m) /\ applying[m]
  <2>1. UNCHANGED <<versions, knows>> /\ Ends(m, "syncing", TRUE)
        /\ interrupted' = [interrupted EXCEPT ![m] = TRUE]
    BY <1>4 DEF ApplyRemote
  <2>2. interrupted'[m] /\ \A n \in Machines \ {m} : interrupted'[n] = interrupted[n]
    BY <1>1, <2>1 DEF TypeOK
  <2> QED BY <1>2, <2>1, <2>2, EndConflict
<1>5. CASE ~IfMatch(m) /\ ~applying[m]
  <2>1. /\ UNCHANGED <<versions, knows, remoteUserData, lastSyncUserData, interrupted>>
        /\ GoesOn(m, "refetch") /\ syncPreview' = [syncPreview EXCEPT ![m] = NoPreview]
    BY <1>5 DEF ApplyRemote
  <2>2. /\ pc'[m] = "refetch" /\ syncPreview'[m] = NoPreview
        /\ \A n \in Machines \ {m} : Untouched(n)
    BY <1>1, <1>2, <2>1 DEF TypeOK, GoesOn, Untouched
  <2>3. Local(m)
    BY <1>2, <2>1, <2>2, ResetHolds DEF Local
  <2>4. interrupted'[m] \/ BaseHolds(m)'
    <3> SUFFICES ASSUME ~interrupted[m] PROVE BaseHolds(m)'
      BY <2>1
    <3>1. BaseHolds(m)
      BY <1>2, <1>5, BaseIsThere DEF HasBase, IsSaving
    <3> QED BY <1>2, <2>1, <2>3, <3>1, BaseCarried DEF BaseHolds
  <2>5. ~InConflicts(m)'
    BY <2>2 DEF InConflicts
  <2> QED BY <2>2, <2>3, <2>4, <2>5, LocalPasses, EndedConflictOK, ConflictStep
<1> QED BY <1>3, <1>4, <1>5

\* The write fails, or its answer is lost: either way the sync was cut short.
LEMMA ApplyRemoteFailsConflict ==
    ASSUME IInv, ConflictInv, NEW m \in Machines, ApplyRemoteFails(m)
    PROVE  ConflictInv'
<1>1. TypeOK /\ pc[m] = "applyRemote"
  BY DEF IInv, ApplyRemoteFails
<1>2. UNCHANGED <<file, absent, edits, lastSyncUserDataState, olderState, lastSyncResource>>
  BY DEF ApplyRemoteFails, stateVars
<1>3. interrupted'[m] /\ \A n \in Machines \ {m} : interrupted'[n] = interrupted[n]
  BY <1>1 DEF ApplyRemoteFails, TypeOK
<1>4. PICK s \in {"idle", "syncing", "conflicts"}, keep \in BOOLEAN :
         Ends(m, s, keep) /\ (keep => s = "syncing")
  BY <1>1, ThrowsEnds DEF ApplyRemoteFails
<1>5. CASE UNCHANGED <<versions, knows>>
  BY <1>2, <1>3, <1>4, <1>5, EndConflict
<1>6. CASE Write(m)
  <2>1. /\ pc'[m] = "idle" /\ ~InConflicts(m)'
        /\ syncPreview'[m] \in {syncPreview[m], NoPreview}
        /\ \A n \in Machines \ {m} : knows'[n] = knows[n] => Untouched(n)
    BY <1>1, <1>2, <1>4, EndsLeaves DEF Untouched
  <2>2. Passes(m)
    BY <1>1, <1>2, <1>3, <1>6, <2>1, WritePasses
  <2> QED BY <1>3, <2>1, <2>2, EndedConflictOK, ConflictStep
<1> QED BY <1>5, <1>6 DEF ApplyRemoteFails

\* A version that is forgotten, or nothing at all, changes nothing of this.
LEMMA QuietConflict ==
    ASSUME ConflictInv,
           UNCHANGED <<versions, file, lastSyncUserDataState, lastSyncResource, status, pc, applying,
                       latestRef, remoteUserData, lastSyncUserData, syncPreview, edits, absent,
                       knows, interrupted>>
    PROVE  ConflictInv'
<1>1. Published' = Published /\ Null' = Null
  BY DEF Published, Null
<1>2. \A m \in Machines : Held(m)' = Held(m) /\ Known(m)' = Known(m)
  BY DEF Held, Known
<1>3. NumbersAreUsed'
  BY <1>1, <1>2 DEF ConflictInv, NumbersAreUsed
<1>4. VersionsAreNew'
  BY DEF ConflictInv, VersionsAreNew
<1>5. ASSUME NEW m \in Machines PROVE ConflictOK(m)'
  <2>1. LaterIsUnseen(m) /\ FileIsBaseOrNew(m) /\ WrittenIsNew(m) /\ BaseIsSaved(m)
    BY DEF ConflictInv
  <2> HIDE DEF Null
  <2>2. /\ InConflicts(m)' = InConflicts(m) /\ IsSaving(m)' = IsSaving(m)
        /\ IsDeciding(m)' = IsDeciding(m) /\ IsApplying(m)' = IsApplying(m)
        /\ HasBase(m)' = HasBase(m)
    BY <1>1 DEF InConflicts, IsSaving, IsDeciding, IsApplying, HasBase
  <2>3. LaterIsUnseen(m)'
    BY <1>2, <2>1, <2>2 DEF LaterIsUnseen, Unseen
  <2>4. /\ OnlyHere(m, file[m])' = OnlyHere(m, file[m])
        /\ OnlyHere(m, syncPreview[m].content)' = OnlyHere(m, syncPreview[m].content)
        /\ OnlyHere(m, syncPreview[m].fileContent)' = OnlyHere(m, syncPreview[m].fileContent)
    BY <1>1, <1>2 DEF OnlyHere
  <2>5. FileIsBaseOrNew(m)'
    BY <2>1, <2>2, <2>4 DEF FileIsBaseOrNew, IsLater, Same, Exists, TextOf
  <2>6. WrittenIsNew(m)'
    BY <2>1, <2>2, <2>4 DEF WrittenIsNew
  <2>7. BaseIsSaved(m)'
    BY <1>1, <2>1, <2>2 DEF BaseIsSaved
  <2> QED BY <2>3, <2>5, <2>6, <2>7 DEF ConflictOK
<1> QED BY <1>3, <1>4, <1>5 DEF ConflictInv, ConflictOK

\* Sync is turned on with one file and an empty store.
LEMMA InitConflict == Init => ConflictInv
<1> SUFFICES ASSUME Init PROVE ConflictInv
  OBVIOUS
<1>1. /\ versions = <<>> /\ edits = 1 /\ absent = {0}
      /\ \A m \in Machines :
            /\ file[m] = IF m = First THEN 1 ELSE 0
            /\ lastSyncUserDataState[m] = -1 /\ pc[m] = "idle" /\ status[m] = "idle"
            /\ syncPreview[m] = NoPreview /\ knows[m] = {} /\ interrupted[m] = FALSE
  BY DEF Init
<1>2. DOMAIN versions = {}
  BY <1>1
<1>3. Published = {0}
  BY <1>2 DEF Published
<1>4. \A m \in Machines : Held(m) = {0} \cup (IF m = First THEN {1} ELSE {0})
  BY <1>1 DEF Held, Known, NoPreview
<1>5. NumbersAreUsed
  BY <1>1, <1>3, <1>4 DEF NumbersAreUsed
<1>6. VersionsAreNew
  BY <1>2 DEF VersionsAreNew
<1>7. ASSUME NEW m \in Machines
      PROVE  LaterIsUnseen(m) /\ FileIsBaseOrNew(m) /\ WrittenIsNew(m) /\ BaseIsSaved(m)
  <2>1. /\ ~InConflicts(m) /\ ~IsSaving(m) /\ ~IsDeciding(m) /\ ~IsApplying(m)
        /\ pc[m] \notin {"fetch", "applyLocal", "applyRemote", "saveState", "saveResource"}
    BY <1>1 DEF InConflicts, IsSaving, IsDeciding, IsApplying
  <2>2. LaterIsUnseen(m)
    BY <1>2, <2>1 DEF LaterIsUnseen, Unseen
  <2>3. OnlyHere(m, file[m]) \/ Same(file[m], TextOf(lastSyncUserDataState[m]))
    <3>1. CASE m = First
      BY <1>1, <1>3, <1>4, <3>1 DEF OnlyHere
    <3>2. CASE m /= First
      BY <1>1, <3>2 DEF Same, TextOf
    <3> QED BY <3>1, <3>2
  <2>4. FileIsBaseOrNew(m)
    BY <2>1, <2>3 DEF FileIsBaseOrNew
  <2>5. WrittenIsNew(m)
    BY <2>1 DEF WrittenIsNew
  <2>6. BaseIsSaved(m)
    BY <1>1, <1>2, <2>1 DEF BaseIsSaved
  <2> QED BY <2>2, <2>4, <2>5, <2>6
<1> QED BY <1>5, <1>6, <1>7 DEF ConflictInv

\* Every step keeps ConflictInv.
LEMMA NextConflict == IInv /\ ConflictInv /\ [Next]_vars => ConflictInv'
<1> SUFFICES ASSUME IInv, ConflictInv, [Next]_vars PROVE ConflictInv'
  OBVIOUS
<1>1. ASSUME NEW m \in Machines, Edit(m) \/ Delete(m) PROVE ConflictInv'
  BY <1>1, NewTextConflict DEF Edit, Delete
<1>2. ASSUME NEW m \in Machines, StartSync(m) PROVE ConflictInv'
  BY <1>2, StartSyncConflict
<1>3. ASSUME NEW m \in Machines, Fetch(m) \/ Refetch(m) PROVE ConflictInv'
  BY <1>3, FetchConflict
<1>4. ASSUME NEW m \in Machines, FetchFails(m) PROVE ConflictInv'
  BY <1>4, FetchFailsConflict
<1>5. ASSUME NEW m \in Machines, GeneratePreview(m) PROVE ConflictInv'
  BY <1>5, GeneratePreviewConflict
<1>6. ASSUME NEW m \in Machines, ApplyLocal(m) \/ ApplyLocalFails(m) PROVE ConflictInv'
  BY <1>6, ApplyLocalConflict, ApplyLocalFailsConflict
<1>7. ASSUME NEW m \in Machines, ApplyRemote(m) PROVE ConflictInv'
  BY <1>7, ApplyRemoteConflict
<1>8. ASSUME NEW m \in Machines, ApplyRemoteFails(m) PROVE ConflictInv'
  BY <1>8, ApplyRemoteFailsConflict
<1>9. ASSUME NEW m \in Machines, SaveState(m) \/ SaveResource(m) PROVE ConflictInv'
  BY <1>9, SaveStateConflict, SaveResourceConflict
<1>10. ASSUME NEW m \in Machines, LocalChangeInConflicts(m) PROVE ConflictInv'
  BY <1>10, LocalChangeConflict
<1>11. ASSUME NEW m \in Machines, NEW choice \in {"local", "remote", "preview"},
              Accept(m, choice)
       PROVE  ConflictInv'
  BY <1>11, AcceptConflict
<1>12. ASSUME NEW m \in Machines, Crash(m) \/ ResetLocal(m) PROVE ConflictInv'
  BY <1>12, CrashConflict, ResetLocalConflict
<1>13. CASE Prune
  BY <1>13, QuietConflict DEF Prune, stateVars, syncVars, boundVars, historyVars
<1>14. CASE UNCHANGED vars
  BY <1>14, QuietConflict DEF vars
<1> QED BY <1>1, <1>2, <1>3, <1>4, <1>5, <1>6, <1>7, <1>8, <1>9, <1>10, <1>11, <1>12, <1>13, <1>14
        DEF Next

\* Between syncs that were not cut short a machine has a base that is saved, no
\* version after it is known there, and what was edited since nobody else has.
THEOREM ConflictInvariance == Spec => []ConflictInv
<1>1. Init => ConflictInv
  BY InitConflict
<1>2. IInv /\ ConflictInv /\ [Next]_vars => ConflictInv'
  BY NextConflict
<1> QED BY <1>1, <1>2, SyncInvariant, PTL DEF Spec

\* A conflict is shown only for texts neither of which was made from the other,
\* unless a sync was cut short: whoever calls merge has a base that both sides
\* were made from.
THEOREM ConflictsAreReal == Spec => []ConflictIsReal
<1>1. IInv /\ ConflictInv => ConflictIsReal
  <2> SUFFICES ASSUME IInv, ConflictInv, NEW m \in Machines, InConflicts(m), ~interrupted[m],
                      ~versions[remoteUserData[m].ref].interrupted
               PROVE  /\ syncPreview[m].fileContent \notin Knows(remoteUserData[m].ref)
                      /\ remoteUserData[m].text \notin knows[m]
    BY DEF ConflictIsReal
  <2> DEFINE remote == remoteUserData[m]
  <2>1. /\ OnlyHere(m, syncPreview[m].fileContent)
        /\ remote.ref > lastSyncUserDataState[m] /\ remote.ref > 0
    BY DEF ConflictInv, WrittenIsNew
  <2>2. remote.ref \in DOMAIN versions /\ remote.text = versions[remote.ref].text
    BY <2>1, MachineFacts, FetchedRef DEF DataIsFetched
  <2>3. Knows(remote.ref) \subseteq Published
    BY <2>1, <2>2 DEF Knows, Published
  <2>4. Unseen(lastSyncUserDataState[m], Known(m))
    BY DEF ConflictInv, LaterIsUnseen, HasBase, IsSaving, InConflicts
  <2>5. remote.text \notin Known(m)
    BY <2>1, <2>2, <2>4 DEF Unseen
  <2> QED BY <2>1, <2>3, <2>5 DEF OnlyHere, Known
<1> QED BY <1>1, SyncInvariant, ConflictInvariance, PTL
=============================================================================
