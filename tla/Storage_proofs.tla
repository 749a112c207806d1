-------------------------- MODULE Storage_proofs --------------------------
(***************************************************************************)
(* The invariant IInv of Storage is inductive: whatever the keys, the      *)
(* values and the number of changes, failures and external changes, no     *)
(* change is stranded or overwritten by an older one, and what a closed    *)
(* storage held is in its database.                                        *)
(***************************************************************************)
EXTENDS Storage, TLAPS

\* An element of a sequence.
LEMMA ElementOf ==
    ASSUME NEW S, NEW s \in Seq(S), NEW i \in 1..Len(s)
    PROVE  s[i] \in S
  OBVIOUS

\* The first of a sequence and the others.
LEMMA HeadTail ==
    ASSUME NEW S, NEW s \in Seq(S), s /= <<>>
    PROVE  /\ Len(s) \in Nat \ {0}
           /\ Head(s) = s[1]
           /\ Head(s) \in S
           /\ Tail(s) \in Seq(S)
           /\ Len(Tail(s)) = Len(s) - 1
           /\ \A i \in 1..(Len(s) - 1) : Tail(s)[i] = s[i + 1]
  OBVIOUS

\* A sequence and one more.
LEMMA AppendLast ==
    ASSUME NEW S, NEW s \in Seq(S), NEW x \in S
    PROVE  /\ Append(s, x) \in Seq(S)
           /\ Len(Append(s, x)) = Len(s) + 1
           /\ \A i \in 1..Len(s) : Append(s, x)[i] = s[i]
           /\ Append(s, x)[Len(s) + 1] = x
  OBVIOUS

\* updateItems(), key by key.
LEMMA UpdateItemsAt ==
    ASSUME NEW items, NEW req, NEW k \in Keys
    PROVE  UpdateItems(items, req)[k] =
              IF k \in req.delete THEN NoValue
              ELSE IF req.insert[k] /= NoValue THEN req.insert[k]
              ELSE items[k]
  BY DEF UpdateItems

\* updateItems() makes items of items.
LEMMA UpdateItemsType ==
    ASSUME NEW items \in Items, NEW req \in IUpdateRequest
    PROVE  UpdateItems(items, req) \in Items
  BY DEF UpdateItems, Items, IUpdateRequest

\* Requests are made of items and sets of keys.
LEMMA RequestType ==
    /\ NoItems \in Items
    /\ NoRequest \in IUpdateRequest
    /\ \A ins \in Items, del \in SUBSET Keys :
          [insert |-> ins, delete |-> del] \in IUpdateRequest
  BY DEF NoItems, Items, NoRequest, IUpdateRequest

\* What is pending after set() and delete() has the right types.
LEMMA ChangeType ==
    ASSUME TypeOK, NEW k \in Keys, NEW v \in Values
    PROVE  /\ PendingAfterSet(k, v).insert \in Items
           /\ PendingAfterSet(k, v).delete \in SUBSET Keys
           /\ PendingAfterDelete(k).insert \in Items
           /\ PendingAfterDelete(k).delete \in SUBSET Keys
  BY DEF TypeOK, PendingAfterSet, PendingAfterDelete, Items

\* Change with well-typed pending changes keeps the types.
LEMMA ChangeKeepsType ==
    ASSUME TypeOK, NEW k \in Keys, NEW v \in Values \cup {NoValue},
           NEW p, p.insert \in Items, p.delete \in SUBSET Keys,
           Change(k, v, p)
    PROVE  TypeOK'
  <1>1. UpdateItems(database, [insert |-> p.insert, delete |-> p.delete]) \in Items
    BY UpdateItemsType, RequestType DEF TypeOK
  <1>2. database' \in Items /\ pendingInserts' \in Items /\ pendingDeletes' \in SUBSET Keys
    BY <1>1, RequestType DEF Change, DoFlush, TypeOK
  <1>3. deferred' \in BOOLEAN
    BY DEF Change, DoFlush, TypeOK
  <1>4. cache' \in Items
    BY DEF Change, TypeOK, Items
  <1>5. changes' \in 0..MaxChanges
    BY BoundsAssumption DEF Change, TypeOK
  <1>6. raced' \in SUBSET Keys
    BY DEF Change, TypeOK
  <1> QED
    BY <1>2, <1>3, <1>4, <1>5, <1>6 DEF Change, TypeOK

\* Every action keeps the types.
LEMMA TypeInvariance ==
    ASSUME TypeOK, Next
    PROVE  TypeOK'
  <1>1. CASE InitBegin
    BY <1>1 DEF InitBegin, TypeOK, delayerVars, databaseVars, historyVars
  <1>2. CASE InitEnd
    BY <1>2 DEF InitEnd, TypeOK, delayerVars, databaseVars, historyVars
  <1>3. CASE InitFails
    <2>1. failures' \in 0..MaxFailures
      BY <1>3, BoundsAssumption DEF InitFails, TypeOK
    <2>2. isErroneous' \in BOOLEAN /\ initPhase' \in {"none", "loading", "done", "failed"}
      BY <1>3 DEF InitFails
    <2> QED
      BY <1>3, <2>1, <2>2 DEF InitFails, TypeOK, delayerVars
  <1>4. CASE DelayElapses
    <2>1. /\ request' \in IUpdateRequest
          /\ pendingInserts' \in Items
          /\ pendingDeletes' \in SUBSET Keys
      BY <1>4, RequestType DEF DelayElapses, StartUpdate, Pending, TypeOK
    <2>2. activePromise' \in BOOLEAN /\ queuedPromise' \in BOOLEAN /\ deferred' \in BOOLEAN
      BY <1>4 DEF DelayElapses, StartUpdate, TypeOK
    <2>3. pendingClose' \in {"open", "delay", "active", "queued", "queuedRun", "never",
                             "flushed", "closed", "failed"}
      BY <1>4 DEF DelayElapses, Settles, TypeOK
    <2> QED
      BY <1>4, <2>1, <2>2, <2>3 DEF DelayElapses, TypeOK, historyVars
  <1>5. ASSUME NEW b \in BOOLEAN, UpdateDone(b)
        PROVE  /\ request' \in IUpdateRequest
               /\ pendingInserts' \in Items
               /\ pendingDeletes' \in SUBSET Keys
               /\ activePromise' \in BOOLEAN
               /\ queuedPromise' \in BOOLEAN
               /\ whenFlushedCallbacks' \in 0..1
               /\ pendingClose' \in {"open", "delay", "active", "queued", "queuedRun", "never",
                                     "flushed", "closed", "failed"}
    <2>1. /\ request' \in IUpdateRequest
          /\ pendingInserts' \in Items
          /\ pendingDeletes' \in SUBSET Keys
      BY <1>5, RequestType DEF UpdateDone, StartUpdate, Pending, TypeOK
    <2>2. activePromise' \in BOOLEAN /\ queuedPromise' \in BOOLEAN
      BY <1>5 DEF UpdateDone, StartUpdate
    <2>3. whenFlushedCallbacks' \in 0..1
      BY <1>5 DEF UpdateDone, TypeOK
    <2>4. pendingClose' \in {"open", "delay", "active", "queued", "queuedRun", "never",
                             "flushed", "closed", "failed"}
      BY <1>5 DEF UpdateDone, AfterUpdate, TypeOK
    <2> QED
      BY <2>1, <2>2, <2>3, <2>4
  <1>6. CASE UpdateSucceeds
    <2>1. database' \in Items
      BY <1>6, UpdateItemsType DEF UpdateSucceeds, TypeOK
    <2> QED
      BY <1>6, <1>5, <2>1 DEF UpdateSucceeds, UpdateDone, TypeOK
  <1>7. CASE UpdateFails
    <2>1. failures' \in 0..MaxFailures
      BY <1>7, BoundsAssumption DEF UpdateFails, TypeOK
    <2>2. request.insert \in Items /\ request.delete \in SUBSET Keys
      BY DEF TypeOK, IUpdateRequest
    <2>3. database' \in Items
      BY <1>7, <2>2, UpdateItemsType, RequestType DEF UpdateFails, TypeOK
    <2>4. isErroneous' \in BOOLEAN
      BY <1>7 DEF UpdateFails
    <2>5. PICK b \in BOOLEAN : UpdateDone(b)
      BY <1>7 DEF UpdateFails
    <2> QED
      BY <2>1, <2>3, <2>4, <2>5, <1>5 DEF UpdateDone, TypeOK
  <1>8. CASE \E k \in Keys, v \in Values : Set(k, v)
    BY <1>8, ChangeType, ChangeKeepsType DEF Set
  <1>9. CASE \E k \in Keys : Delete(k)
    <2>1. PICK k \in Keys : Delete(k)
      BY <1>9
    <2>2. PendingAfterDelete(k).insert \in Items /\ PendingAfterDelete(k).delete \in SUBSET Keys
      BY DEF TypeOK, PendingAfterDelete, Items
    <2> QED
      BY <2>1, <2>2, ChangeKeepsType DEF Delete
  <1>10. CASE Flush
    BY <1>10 DEF Flush, TypeOK, storageVars, databaseVars, historyVars
  <1>11. CASE WhenFlushed
    BY <1>11 DEF WhenFlushed, TypeOK, delayerVars, databaseVars, historyVars
  <1>12. CASE Close
    <2>1. UpdateItems(database, [insert |-> pendingInserts, delete |-> pendingDeletes]) \in Items
      BY UpdateItemsType, RequestType DEF TypeOK
    <2>2. database' \in Items /\ pendingInserts' \in Items /\ pendingDeletes' \in SUBSET Keys
      BY <1>12, <2>1, RequestType DEF Close, CloseFlushes, DoFlush, TypeOK
    <2>3. deferred' \in BOOLEAN
      BY <1>12 DEF Close, CloseFlushes, DoFlush, TypeOK
    <2> QED
      BY <1>12, <2>2, <2>3 DEF Close, CloseFlushes, TypeOK, historyVars
  <1>13. CASE Dispose
    BY <1>13 DEF Dispose, TypeOK, databaseVars, historyVars
  <1>14. CASE DatabaseClose
    <2>1. failures' \in 0..MaxFailures
      BY <1>14, BoundsAssumption DEF DatabaseClose, TypeOK
    <2>2. database' \in Items
      BY <1>14, RequestType DEF DatabaseClose, TypeOK
    <2>3. isErroneous' \in BOOLEAN
      BY <1>14 DEF DatabaseClose, TypeOK
    <2> QED
      BY <1>14, <2>1, <2>2, <2>3 DEF DatabaseClose, TypeOK, delayerVars
  <1>15. CASE \E k \in Keys, v \in Values \cup {NoValue} : ExternalChange(k, v)
    <2>1. PICK k \in Keys, v \in Values \cup {NoValue} : ExternalChange(k, v)
      BY <1>15
    <2>2. database' \in Items
      BY <2>1 DEF ExternalChange, TypeOK, Items
    <2>3. events' \in Seq([key : Keys, value : Values \cup {NoValue}])
      BY <2>1 DEF ExternalChange, TypeOK
    <2>4. externals' \in 0..MaxExternal
      BY <2>1, BoundsAssumption DEF ExternalChange, TypeOK
    <2>5. raced' \in SUBSET Keys
      BY <2>1 DEF ExternalChange, TypeOK
    <2>6. /\ UNCHANGED <<state, cache, pendingInserts, pendingDeletes,
                         whenFlushedCallbacks, initPhase, pendingClose, isDisposed,
                         hint, deferred, activePromise, queuedPromise>>
          /\ UNCHANGED <<request, isErroneous, changes, failures>>
      BY <2>1 DEF ExternalChange, storageVars, delayerVars
    <2> QED
      BY <2>2, <2>3, <2>4, <2>5, <2>6 DEF TypeOK
  <1>16. CASE AcceptExternal
    <2>0. events \in Seq([key : Keys, value : Values \cup {NoValue}]) /\ events /= <<>>
      BY <1>16 DEF AcceptExternal, TypeOK
    <2>1. Head(events) \in [key : Keys, value : Values \cup {NoValue}]
      BY <2>0, HeadTail
    <2>2. cache' \in Items /\ raced' \in SUBSET Keys
      BY <1>16, <2>1 DEF AcceptExternal, TypeOK, Items
    <2>3. events' \in Seq([key : Keys, value : Values \cup {NoValue}])
      BY <1>16 DEF AcceptExternal, TypeOK
    <2> QED
      BY <1>16, <2>2, <2>3 DEF AcceptExternal, TypeOK, delayerVars
  <1> QED
    BY <1>1, <1>2, <1>3, <1>4, <1>6, <1>7, <1>8, <1>9, <1>10, <1>11, <1>12, <1>13,
       <1>14, <1>15, <1>16 DEF Next, UserStep

\* Every action keeps what is said about the control state: pending changes have
\* their flush, and doClose() waits for the last one.
LEMMA ControlInvariance ==
    ASSUME IInv, Next
    PROVE  PendingIsScheduled' /\ NothingBeforeInit' /\ ClosingIsLast'
  <1> USE DEF IInv, PendingIsScheduled, NothingBeforeInit, ClosingIsLast, HasPending
  <1>0. ASSUME NEW b \in BOOLEAN, UpdateDone(b)
        PROVE  /\ PendingIsScheduled'
               /\ NothingBeforeInit'
               /\ (initPhase = "failed" => isErroneous') => ClosingIsLast'
    <2>1. PendingIsScheduled' /\ NothingBeforeInit'
      BY <1>0 DEF UpdateDone, StartUpdate, RunsQueued, TypeOK
    <2>2. (initPhase = "failed" => isErroneous') => ClosingIsLast'
      BY <1>0 DEF UpdateDone, StartUpdate, AfterUpdate, RunsQueued, TypeOK
    <2> QED
      BY <2>1, <2>2
  <1>1. CASE InitBegin
    BY <1>1 DEF InitBegin, delayerVars, databaseVars, historyVars, TypeOK
  <1>2. CASE InitEnd
    BY <1>2 DEF InitEnd, delayerVars, databaseVars, historyVars, TypeOK
  <1>3. CASE InitFails
    BY <1>3 DEF InitFails, delayerVars, TypeOK
  <1>4. CASE DelayElapses
    BY <1>4 DEF DelayElapses, StartUpdate, Settles, historyVars, TypeOK
  <1>5. CASE UpdateSucceeds
    BY <1>5, <1>0 DEF UpdateSucceeds, TypeOK
  <1>6. CASE UpdateFails
    BY <1>6, <1>0 DEF UpdateFails, TypeOK
  <1>7. CASE \E k \in Keys, v \in Values : Set(k, v)
    BY <1>7 DEF Set, Change, DoFlush, TypeOK
  <1>8. CASE \E k \in Keys : Delete(k)
    BY <1>8 DEF Delete, Change, DoFlush, TypeOK
  <1>9. CASE Flush
    BY <1>9 DEF Flush, FlushReturnsAtOnce, storageVars, databaseVars, historyVars, TypeOK
  <1>10. CASE WhenFlushed
    BY <1>10 DEF WhenFlushed, delayerVars, databaseVars, historyVars, TypeOK
  <1>11. CASE Close
    BY <1>11 DEF Close, CloseFlushes, DoFlush, historyVars, TypeOK
  <1>12. CASE Dispose
    BY <1>12 DEF Dispose, databaseVars, historyVars, TypeOK
  <1>13. CASE DatabaseClose
    BY <1>13 DEF DatabaseClose, delayerVars, TypeOK
  <1>14. CASE \E k \in Keys, v \in Values \cup {NoValue} : ExternalChange(k, v)
    BY <1>14 DEF ExternalChange, storageVars, delayerVars, TypeOK
  <1>15. CASE AcceptExternal
    BY <1>15 DEF AcceptExternal, delayerVars, TypeOK
  <1> QED
    BY <1>1, <1>2, <1>3, <1>4, <1>5, <1>6, <1>7, <1>8, <1>9, <1>10, <1>11, <1>12,
       <1>13, <1>14, <1>15 DEF Next, UserStep

\* What the inserts ins and the deletes del make of a key with value old
After(k, old, ins, del) ==
    IF k \in del THEN NoValue ELSE IF ins[k] /= NoValue THEN ins[k] ELSE old

\* The value of a key that is on its way, before and after a step.
LEMMA EffectiveAt ==
    ASSUME NEW k \in Keys
    PROVE  /\ Effective[k] =
                After(k, IF activePromise
                         THEN After(k, database[k], request.insert, request.delete)
                         ELSE database[k],
                      pendingInserts, pendingDeletes)
           /\ Effective'[k] =
                After(k, IF activePromise'
                         THEN After(k, database'[k], request'.insert, request'.delete)
                         ELSE database'[k],
                      pendingInserts', pendingDeletes')
  BY UpdateItemsAt DEF Effective, Pending, After

\* Nothing is pending: a key keeps its value.
LEMMA NothingPending ==
    ASSUME NEW k \in Keys, NEW old
    PROVE  After(k, old, NoItems, {}) = old
  BY DEF After, NoItems

\* A flush that starts or succeeds moves changes on, and changes no value that
\* is on its way.
LEMMA FlushMovesOn ==
    ASSUME IInv, DelayElapses \/ UpdateSucceeds, NEW k \in Keys
    PROVE  /\ Effective'[k] = Effective[k]
           /\ OnItsWay(k)' => OnItsWay(k)
           /\ ~OnItsWay(k) => database'[k] = database[k]
  <1>1. CASE DelayElapses
    <2>1. /\ database' = database
          /\ \/ UNCHANGED <<request, pendingInserts, pendingDeletes, activePromise>>
             \/ ~activePromise /\ StartUpdate
      BY <1>1 DEF DelayElapses
    <2>2. CASE UNCHANGED <<request, pendingInserts, pendingDeletes, activePromise>>
      BY <2>1, <2>2, EffectiveAt DEF OnItsWay
    <2>3. CASE ~activePromise /\ StartUpdate
      <3>1. /\ activePromise' /\ pendingInserts' = NoItems /\ pendingDeletes' = {}
            /\ request'.insert = pendingInserts /\ request'.delete = pendingDeletes
        BY <2>3 DEF StartUpdate, Pending
      <3>2. Effective'[k] = Effective[k]
        BY <2>1, <2>3, <3>1, EffectiveAt, NothingPending
      <3>3. OnItsWay(k)' => OnItsWay(k)
        BY <2>3, <3>1 DEF OnItsWay, NoItems
      <3> QED
        BY <2>1, <3>2, <3>3
    <2> QED
      BY <2>1, <2>2, <2>3
  <1>2. CASE UpdateSucceeds
    <2>1. /\ activePromise
          /\ database' = UpdateItems(database, request)
          /\ \/ StartUpdate
             \/ ~activePromise' /\ UNCHANGED <<pendingInserts, pendingDeletes>>
      BY <1>2 DEF UpdateSucceeds, UpdateDone
    <2>2. database'[k] = After(k, database[k], request.insert, request.delete)
      BY <2>1, UpdateItemsAt DEF After
    <2>3. ~OnItsWay(k) => database'[k] = database[k]
      BY <2>1, <2>2 DEF OnItsWay, After
    <2>4. CASE StartUpdate
      <3>1. /\ activePromise' /\ pendingInserts' = NoItems /\ pendingDeletes' = {}
            /\ request'.insert = pendingInserts /\ request'.delete = pendingDeletes
        BY <2>4 DEF StartUpdate, Pending
      <3>2. Effective'[k] = Effective[k]
        BY <2>1, <2>2, <3>1, EffectiveAt, NothingPending
      <3>3. OnItsWay(k)' => OnItsWay(k)
        BY <3>1 DEF OnItsWay, NoItems
      <3> QED
        BY <2>3, <3>2, <3>3
    <2>5. CASE ~activePromise' /\ UNCHANGED <<pendingInserts, pendingDeletes>>
      BY <2>1, <2>2, <2>3, <2>5, EffectiveAt DEF OnItsWay
    <2> QED
      BY <2>1, <2>4, <2>5
  <1> QED
    BY <1>1, <1>2

\* Events are about keys.
LEMMA EventKeysType ==
    ASSUME TypeOK
    PROVE  EventKeys \subseteq Keys
  <1> SUFFICES ASSUME NEW i \in 1..Len(events)
               PROVE  events[i].key \in Keys
    BY DEF EventKeys
  <1>1. events \in Seq([key : Keys, value : Values \cup {NoValue}])
    BY DEF TypeOK
  <1>2. events[i] \in [key : Keys, value : Values \cup {NoValue}]
    BY <1>1, ElementOf
  <1> QED
    BY <1>2

\* Steps that report nothing and do not touch what was reported keep the news.
LEMMA NewsKept ==
    ASSUME EventsAreNews, events' = events, raced \subseteq raced',
           ~isErroneous' => ~isErroneous,
           ~isErroneous' => \A k \in EventKeys \ raced' : ~OnItsWay(k) =>
               ~OnItsWay(k)' /\ database'[k] = database[k]
    PROVE  EventsAreNews'
  <1>1. EventKeys' = EventKeys
    BY DEF EventKeys
  <1> QED
    BY <1>1 DEF EventsAreNews

\* Steps that change no value keep the cache written and the closed saved.
LEMMA ValuesKept ==
    ASSUME CacheIsWritten, NewIsEmpty, ClosedIsSaved,
           cache' = cache, events' = events, raced' = raced,
           UNCHANGED <<initPhase, hint>>,
           ~isErroneous' => ~isErroneous,
           \A k \in Settled : /\ ~isErroneous' => Effective'[k] = Effective[k]
                              /\ ~isErroneous' /\ initPhase = "none" => database'[k] = database[k],
           pendingClose' = "closed" /\ ~isDisposed' /\ initPhase \in {"done", "failed"} =>
               \/ pendingClose = "closed" /\ ~isDisposed /\ database' = database
               \/ \A k \in Settled : database'[k] = cache[k]
    PROVE  CacheIsWritten' /\ NewIsEmpty' /\ ClosedIsSaved'
  <1>1. Settled' = Settled
    BY DEF Settled, EventKeys
  <1> QED
    BY <1>1 DEF CacheIsWritten, NewIsEmpty, ClosedIsSaved

\* Steps that leave the values and the database alone keep everything.
LEMMA NothingChanged ==
    ASSUME IInv, UNCHANGED <<cache, events, raced, initPhase, hint, isErroneous, database,
                             activePromise, request, pendingInserts, pendingDeletes>>,
           pendingClose' = "closed" => pendingClose = "closed",
           ~isDisposed' => ~isDisposed
    PROVE  EventsAreNews' /\ CacheIsWritten' /\ NewIsEmpty' /\ ClosedIsSaved'
  <1>1. \A k \in Keys : Effective'[k] = Effective[k]
    BY EffectiveAt
  <1>2. EventsAreNews'
    BY NewsKept DEF IInv, OnItsWay
  <1>3. CacheIsWritten' /\ NewIsEmpty' /\ ClosedIsSaved'
    BY <1>1, ValuesKept DEF IInv, Settled
  <1> QED
    BY <1>2, <1>3

\* A local change keeps the cache written; a change of a key with unreported
\* external changes is a race.
LEMMA ChangeInvariance ==
    ASSUME IInv, NEW k \in Keys, NEW v \in Values \cup {NoValue}, NEW p, Change(k, v, p),
           \/ /\ v /= NoValue
              /\ p.insert = [pendingInserts EXCEPT ![k] = v]
              /\ p.delete = pendingDeletes \ {k}
           \/ /\ v = NoValue
              /\ p.insert = [pendingInserts EXCEPT ![k] = NoValue]
              /\ p.delete = pendingDeletes \cup {k}
    PROVE  EventsAreNews' /\ CacheIsWritten' /\ NewIsEmpty' /\ ClosedIsSaved'
  <1>1. ASSUME NEW j \in Keys
        PROVE  /\ Effective'[j] = IF j = k THEN v ELSE Effective[j]
               /\ j /= k => (OnItsWay(j)' => OnItsWay(j)) /\ database'[j] = database[j]
    <2> DEFINE old == IF activePromise
                      THEN After(j, database[j], request.insert, request.delete)
                      ELSE database[j]
    <2>1. pendingInserts \in [Keys -> Values \cup {NoValue}] /\ pendingDeletes \subseteq Keys
      BY DEF IInv, TypeOK, Items
    <2>2. After(j, old, p.insert, p.delete) =
              IF j = k THEN v ELSE After(j, old, pendingInserts, pendingDeletes)
      BY <2>1 DEF After
    <2>3. Effective[j] = After(j, old, pendingInserts, pendingDeletes)
      BY EffectiveAt
    <2>4. UNCHANGED <<activePromise, request>>
      BY DEF Change
    <2>5. CASE hint = "STORAGE_IN_MEMORY"
      <3>1. ~activePromise /\ pendingInserts = NoItems /\ pendingDeletes = {}
        BY <2>5 DEF IInv, NothingBeforeInit, HasPending
      <3>2. /\ database' = UpdateItems(database, [insert |-> p.insert, delete |-> p.delete])
            /\ pendingInserts' = NoItems /\ pendingDeletes' = {}
        BY <2>5 DEF Change, DoFlush
      <3>3. database'[j] = After(j, database[j], p.insert, p.delete)
        BY <3>2, UpdateItemsAt DEF After
      <3>4. Effective'[j] = database'[j]
        BY <2>4, <3>1, <3>2, EffectiveAt, NothingPending
      <3>5. Effective[j] = database[j]
        BY <2>3, <3>1, NothingPending
      <3>6. ~OnItsWay(j)'
        BY <2>4, <3>1, <3>2 DEF OnItsWay, NoItems
      <3> QED
        BY <2>2, <2>3, <3>1, <3>3, <3>4, <3>5, <3>6
    <2>6. CASE hint /= "STORAGE_IN_MEMORY"
      <3>1. database' = database /\ pendingInserts' = p.insert /\ pendingDeletes' = p.delete
        BY <2>6 DEF Change, DoFlush
      <3>2. Effective'[j] = After(j, old, p.insert, p.delete)
        BY <2>4, <3>1, EffectiveAt
      <3>3. j /= k => (OnItsWay(j)' => OnItsWay(j))
        BY <2>1, <2>4, <3>1 DEF OnItsWay
      <3> QED
        BY <2>2, <2>3, <3>1, <3>2, <3>3
    <2> QED
      BY <2>5, <2>6
  <1>2. cache' = [cache EXCEPT ![k] = v] /\ cache \in [Keys -> Values \cup {NoValue}]
    BY DEF Change, IInv, TypeOK, Items
  <1>3. events' = events /\ raced \subseteq raced' /\ (k \in EventKeys => k \in raced')
    BY DEF Change
  <1>4. UNCHANGED <<isErroneous, initPhase, pendingClose>> /\ initPhase \in {"done", "failed"}
    BY DEF Change
  <1>5. pendingClose = "open"
    BY DEF Change, IInv, ClosingIsLast
  <1>6. EventKeys' = EventKeys /\ EventKeys \subseteq Keys
    BY <1>3, EventKeysType DEF EventKeys, IInv
  <1>7. EventsAreNews'
    BY <1>1, <1>3, <1>4, <1>6, NewsKept DEF IInv
  <1>8. CacheIsWritten'
    BY <1>1, <1>2, <1>3, <1>4, <1>6 DEF IInv, CacheIsWritten, Settled
  <1> QED
    BY <1>4, <1>5, <1>7, <1>8 DEF NewIsEmpty, ClosedIsSaved

\* Every action of init() keeps what is said about values.
LEMMA InitInvariance ==
    ASSUME IInv, InitBegin \/ InitEnd \/ InitFails
    PROVE  EventsAreNews' /\ CacheIsWritten' /\ NewIsEmpty' /\ ClosedIsSaved'
  <1>1. /\ UNCHANGED <<events, raced, database, request, activePromise, pendingInserts,
                       pendingDeletes, pendingClose, hint>>
        /\ ~isErroneous' => ~isErroneous
        /\ initPhase' /= "none"
    BY DEF InitBegin, InitEnd, InitFails, delayerVars, databaseVars, historyVars
  <1>2. pendingClose = "open" /\ ~HasPending /\ ~activePromise
    BY DEF IInv, ClosingIsLast, NothingBeforeInit, InitBegin, InitEnd, InitFails
  <1>3. EventsAreNews'
    BY <1>1, NewsKept DEF IInv, OnItsWay
  <1>4. \A k \in Keys : Effective'[k] = database[k]
    BY <1>1, <1>2, EffectiveAt, NothingPending DEF HasPending
  <1>5. Settled' = Settled
    BY <1>1 DEF Settled, EventKeys
  <1>6. CacheIsWritten'
    <2>1. CASE InitBegin
      BY <1>1, <1>4, <1>5, <2>1
      DEF InitBegin, IInv, NewIsEmpty, NothingBeforeInit, CacheIsWritten, Settled
    <2>2. CASE InitEnd
      BY <1>4, <1>5, <2>2 DEF InitEnd, CacheIsWritten, Settled
    <2>3. CASE InitFails
      BY <2>3 DEF InitFails, CacheIsWritten
    <2> QED
      BY <2>1, <2>2, <2>3
  <1> QED
    BY <1>1, <1>2, <1>3, <1>6 DEF NewIsEmpty, ClosedIsSaved

\* Flushing, successful or not, keeps what is said about values.
LEMMA FlushInvariance ==
    ASSUME IInv, DelayElapses \/ UpdateSucceeds \/ UpdateFails
    PROVE  EventsAreNews' /\ CacheIsWritten' /\ NewIsEmpty' /\ ClosedIsSaved'
  <1>1. UNCHANGED <<cache, events, raced, initPhase, hint, isDisposed>>
    BY DEF DelayElapses, UpdateSucceeds, UpdateFails, UpdateDone, historyVars
  <1>2. pendingClose' = "closed" /\ ~isDisposed' => pendingClose = "closed" /\ database' = database
    BY <1>1 DEF IInv, TypeOK, ClosingIsLast, DelayElapses, Settles, UpdateSucceeds, UpdateFails,
           UpdateDone, AfterUpdate
  <1>3. CASE DelayElapses \/ UpdateSucceeds
    <2>1. \A k \in Keys : /\ Effective'[k] = Effective[k]
                          /\ ~OnItsWay(k) => ~OnItsWay(k)' /\ database'[k] = database[k]
      BY <1>3, FlushMovesOn DEF OnItsWay
    <2>2. isErroneous' = isErroneous
      BY <1>3 DEF DelayElapses, UpdateSucceeds
    <2>3. initPhase = "none" => database' = database
      BY <1>3 DEF IInv, NothingBeforeInit, DelayElapses, UpdateSucceeds, UpdateDone
    <2>4. EventsAreNews'
      BY <1>1, <2>1, <2>2, NewsKept, EventKeysType DEF IInv
    <2>5. CacheIsWritten' /\ NewIsEmpty' /\ ClosedIsSaved'
      BY <1>1, <1>2, <2>1, <2>2, <2>3, ValuesKept DEF IInv, Settled
    <2> QED
      BY <2>4, <2>5
  <1>4. CASE UpdateFails
    <2>1. isErroneous'
      BY <1>4 DEF UpdateFails
    <2>2. Settled' = Settled
      BY <1>1 DEF Settled, EventKeys
    <2> QED
      BY <1>1, <1>2, <2>1, <2>2
      DEF IInv, EventsAreNews, CacheIsWritten, NewIsEmpty, ClosedIsSaved
  <1> QED
    BY <1>3, <1>4

\* Closing keeps what is said about values, and saves them.
LEMMA CloseInvariance ==
    ASSUME IInv, Close \/ DatabaseClose
    PROVE  EventsAreNews' /\ CacheIsWritten' /\ NewIsEmpty' /\ ClosedIsSaved'
  <1>1. UNCHANGED <<cache, events, raced, initPhase, hint, isDisposed, activePromise, request>>
    BY DEF Close, DatabaseClose, delayerVars, historyVars
  <1>2. Settled' = Settled
    BY <1>1 DEF Settled, EventKeys
  <1>3. CASE Close
    <2>1. isErroneous' = isErroneous /\ pendingClose' /= "closed"
      BY <1>3 DEF Close, CloseFlushes
    <2>2. CASE hint = "STORAGE_IN_MEMORY"
      <3>1. ~activePromise /\ pendingInserts = NoItems /\ pendingDeletes = {}
        BY <2>2 DEF IInv, NothingBeforeInit, HasPending
      <3>2. /\ database' = UpdateItems(database, [insert |-> NoItems, delete |-> {}])
            /\ pendingInserts' = NoItems /\ pendingDeletes' = {}
        BY <1>3, <2>2, <3>1 DEF Close, CloseFlushes, DoFlush
      <3>3. \A k \in Keys : database'[k] = database[k]
        BY <3>2, UpdateItemsAt DEF NoItems
      <3>4. \A k \in Keys : Effective'[k] = Effective[k] /\ ~OnItsWay(k)'
        BY <1>1, <3>1, <3>2, <3>3, EffectiveAt, NothingPending DEF OnItsWay, NoItems
      <3>5. EventsAreNews'
        BY <1>1, <2>1, <3>3, <3>4, NewsKept, EventKeysType DEF IInv
      <3>6. CacheIsWritten' /\ NewIsEmpty' /\ ClosedIsSaved'
        BY <1>1, <2>1, <3>3, <3>4, ValuesKept DEF IInv, Settled
      <3> QED
        BY <3>5, <3>6
    <2>3. CASE hint /= "STORAGE_IN_MEMORY"
      <3>1. UNCHANGED <<database, pendingInserts, pendingDeletes>>
        BY <1>3, <2>3 DEF Close, CloseFlushes, DoFlush
      <3> QED
        BY <1>1, <2>1, <3>1, NothingChanged
    <2> QED
      BY <2>2, <2>3
  <1>4. CASE DatabaseClose
    <2>1. UNCHANGED <<pendingInserts, pendingDeletes>> /\ pendingClose = "flushed"
      BY <1>4 DEF DatabaseClose
    <2>2. CASE isErroneous'
      <3>1. pendingClose' = "closed" => database' = cache
        BY <1>4, <2>2 DEF DatabaseClose
      <3> QED
        BY <1>1, <2>2, <3>1
        DEF EventsAreNews, CacheIsWritten, NewIsEmpty, ClosedIsSaved
    <2>3. CASE ~isErroneous'
      <3>1. ~isErroneous /\ database' = database
        BY <1>4, <2>3 DEF DatabaseClose
      <3>2. ASSUME NEW k \in Keys
            PROVE  Effective'[k] = Effective[k] /\ (OnItsWay(k)' => OnItsWay(k))
        BY <1>1, <2>1, <3>1, EffectiveAt DEF OnItsWay
      <3>3. ~isDisposed /\ initPhase \in {"done", "failed"} =>
                \A k \in Settled : database[k] = cache[k]
        <4>1. ~isDisposed => ~activePromise /\ pendingInserts = NoItems /\ pendingDeletes = {}
          BY <2>1 DEF IInv, ClosingIsLast, HasPending
        <4>2. ~isDisposed => \A k \in Keys : Effective[k] = database[k]
          BY <4>1, EffectiveAt, NothingPending
        <4>3. initPhase /= "failed"
          BY <3>1 DEF IInv, ClosingIsLast
        <4> QED
          BY <3>1, <4>2, <4>3 DEF IInv, CacheIsWritten, Settled
      <3>4. EventsAreNews'
        BY <1>1, <2>1, <3>1, NewsKept DEF IInv, OnItsWay
      <3>5. CacheIsWritten' /\ NewIsEmpty' /\ ClosedIsSaved'
        BY <1>1, <1>2, <3>1, <3>2, <3>3 DEF IInv, CacheIsWritten, NewIsEmpty, ClosedIsSaved, Settled
      <3> QED
        BY <3>4, <3>5
    <2> QED
      BY <2>2, <2>3
  <1> QED
    BY <1>3, <1>4

\* A change from outside is news.
LEMMA ExternalChangeInvariance ==
    ASSUME IInv, NEW k \in Keys, NEW v \in Values \cup {NoValue}, ExternalChange(k, v)
    PROVE  EventsAreNews' /\ CacheIsWritten' /\ NewIsEmpty' /\ ClosedIsSaved'
  <1> DEFINE e == [key |-> k, value |-> v]
  <1>1. /\ UNCHANGED <<cache, initPhase, hint, pendingClose, isErroneous, activePromise, request,
                       pendingInserts, pendingDeletes>>
        /\ pendingClose /= "closed"
        /\ database' = [database EXCEPT ![k] = v]
        /\ events' = Append(events, e)
        /\ raced' = IF OnItsWay(k) THEN raced \cup {k} ELSE raced
    BY DEF ExternalChange, storageVars, delayerVars
  <1>2. database \in [Keys -> Values \cup {NoValue}]
    BY DEF IInv, TypeOK, Items
  <1>3. /\ Len(events) \in Nat
        /\ Len(events') = Len(events) + 1
        /\ \A i \in 1..Len(events) : events'[i] = events[i]
        /\ events'[Len(events) + 1] = e
    <2>1. events \in Seq([key : Keys, value : Values \cup {NoValue}])
      BY DEF IInv, TypeOK
    <2>2. e \in [key : Keys, value : Values \cup {NoValue}]
      OBVIOUS
    <2> QED
      BY <1>1, <2>1, <2>2, AppendLast
  <1>4. EventKeys' = EventKeys \cup {k}
    <2>1. 1..Len(events') = 1..Len(events) \cup {Len(events) + 1}
      BY <1>3
    <2> QED
      BY <1>3, <2>1 DEF EventKeys
  <1>5. ASSUME NEW j \in Keys
        PROVE  /\ OnItsWay(j)' = OnItsWay(j)
               /\ j /= k => database'[j] = database[j] /\ Effective'[j] = Effective[j]
               /\ database'[k] = v
    BY <1>1, <1>2, EffectiveAt DEF OnItsWay
  <1>6. EventsAreNews'
    <2> SUFFICES ASSUME ~isErroneous, NEW j \in EventKeys' \ raced'
                 PROVE  /\ ~OnItsWay(j)'
                        /\ \A i \in 1..Len(events') :
                              /\ events'[i].key = j
                              /\ \A l \in (i + 1)..Len(events') : events'[l].key /= j
                              => events'[i].value = database'[j]
      BY <1>1 DEF EventsAreNews
    <2>1. CASE j = k
      <3>1. ~OnItsWay(j)'
        BY <1>1, <1>5, <2>1
      <3>2. ASSUME NEW i \in 1..Len(events'), i /= Len(events) + 1
            PROVE  Len(events) + 1 \in (i + 1)..Len(events')
        BY <1>3, <3>2
      <3> QED
        BY <1>3, <1>5, <2>1, <3>1, <3>2
    <2>2. CASE j /= k
      <3>1. j \in EventKeys \ raced /\ j \in Keys
        BY <1>1, <1>4, <2>2, EventKeysType DEF IInv
      <3>2. /\ ~OnItsWay(j)
            /\ \A i \in 1..Len(events) :
                  /\ events[i].key = j
                  /\ \A l \in (i + 1)..Len(events) : events[l].key /= j
                  => events[i].value = database[j]
        BY <3>1 DEF IInv, EventsAreNews
      <3>3. ASSUME NEW i \in 1..Len(events'), events'[i].key = j,
                   \A l \in (i + 1)..Len(events') : events'[l].key /= j
            PROVE  events'[i].value = database'[j]
        <4>1. i \in 1..Len(events)
          BY <1>3, <2>2, <3>3
        <4>2. \A l \in (i + 1)..Len(events) : events[l].key /= j
          BY <1>3, <3>3, <4>1
        <4> QED
          BY <1>3, <1>5, <2>2, <3>1, <3>2, <3>3, <4>1, <4>2
      <3> QED
        BY <1>5, <3>1, <3>2, <3>3
    <2> QED
      BY <2>1, <2>2
  <1>7. \A j \in Settled' : j \in Settled /\ j /= k /\ j \in Keys
    BY <1>1, <1>4 DEF Settled
  <1> QED
    BY <1>1, <1>5, <1>6, <1>7 DEF IInv, CacheIsWritten, NewIsEmpty, ClosedIsSaved

\* The cache takes over what is reported.
LEMMA AcceptExternalInvariance ==
    ASSUME IInv, AcceptExternal
    PROVE  EventsAreNews' /\ CacheIsWritten' /\ NewIsEmpty' /\ ClosedIsSaved'
  <1> DEFINE e == Head(events)
  <1>1. /\ UNCHANGED <<initPhase, hint, pendingClose, isErroneous, activePromise, request, database,
                       pendingInserts, pendingDeletes, isDisposed>>
        /\ events' = Tail(events) /\ events /= <<>>
        /\ \/ state = "Closed" /\ cache' = cache /\ raced' = raced \cup {e.key}
           \/ /\ state /= "Closed" /\ raced' = raced
              /\ cache' = [cache EXCEPT ![e.key] = e.value]
    BY DEF AcceptExternal, delayerVars
  <1>2. /\ Len(events) \in Nat \ {0}
        /\ e = events[1]
        /\ e.key \in Keys
        /\ Len(events') = Len(events) - 1
        /\ \A i \in 1..Len(events') : events'[i] = events[i + 1]
    <2>1. events \in Seq([key : Keys, value : Values \cup {NoValue}])
      BY DEF IInv, TypeOK
    <2>2. /\ Len(events) \in Nat \ {0}
          /\ e = events[1]
          /\ e \in [key : Keys, value : Values \cup {NoValue}]
          /\ Len(Tail(events)) = Len(events) - 1
          /\ \A i \in 1..(Len(events) - 1) : Tail(events)[i] = events[i + 1]
      BY <1>1, <2>1, HeadTail, Zenon
    <2>3. e.key \in Keys
      BY <2>2
    <2> HIDE DEF e
    <2> QED
      BY <1>1, <2>2, <2>3
  <1>3. EventKeys = EventKeys' \cup {e.key}
    <2>1. ASSUME NEW i \in 1..Len(events')
          PROVE  i + 1 \in 1..Len(events)
      BY <1>2
    <2>2. ASSUME NEW i \in 1..Len(events), i /= 1
          PROVE  i - 1 \in 1..Len(events') /\ events'[i - 1] = events[i]
      BY <1>2, <2>2
    <2>3. EventKeys' \cup {e.key} \subseteq EventKeys
      BY <1>2, <2>1 DEF EventKeys
    <2>4. EventKeys \subseteq EventKeys' \cup {e.key}
      BY <1>2, <2>2 DEF EventKeys
    <2> QED
      BY <2>3, <2>4
  <1>4. ASSUME NEW j \in Keys
        PROVE  (OnItsWay(j)' <=> OnItsWay(j)) /\ Effective'[j] = Effective[j]
    BY <1>1, EffectiveAt DEF OnItsWay
  <1>5. ASSUME ~isErroneous, NEW j \in EventKeys \ raced
        PROVE  /\ ~OnItsWay(j)
               /\ \A i \in 1..Len(events) :
                     /\ events[i].key = j
                     /\ \A l \in (i + 1)..Len(events) : events[l].key /= j
                     => events[i].value = database[j]
    BY <1>5 DEF IInv, EventsAreNews
  <1>6. EventsAreNews'
    <2> SUFFICES ASSUME ~isErroneous, NEW j \in EventKeys' \ raced'
                 PROVE  /\ ~OnItsWay(j)'
                        /\ \A i \in 1..Len(events') :
                              /\ events'[i].key = j
                              /\ \A l \in (i + 1)..Len(events') : events'[l].key /= j
                              => events'[i].value = database'[j]
      BY <1>1 DEF EventsAreNews
    <2>1. j \in EventKeys \ raced /\ j \in Keys
      BY <1>1, <1>3, EventKeysType DEF IInv
    <2>2. ASSUME NEW i \in 1..Len(events'), events'[i].key = j,
                 \A l \in (i + 1)..Len(events') : events'[l].key /= j
          PROVE  events'[i].value = database'[j]
      <3>1. i + 1 \in 1..Len(events) /\ events'[i] = events[i + 1]
        BY <1>2
      <3>2. ASSUME NEW l \in ((i + 1) + 1)..Len(events)
            PROVE  events[l].key /= j
        <4>1. l - 1 \in (i + 1)..Len(events') /\ l - 1 \in 1..Len(events') /\ (l - 1) + 1 = l
          BY <1>2
        <4> QED
          BY <1>2, <2>2, <4>1
      <3> QED
        BY <1>1, <1>5, <2>1, <2>2, <3>1, <3>2
    <2> QED
      BY <1>4, <1>5, <2>1, <2>2
  <1>7. CASE state = "Closed"
    <2>1. \A j \in Settled' : j \in Settled /\ j \in Keys
      BY <1>1, <1>3, <1>7 DEF Settled
    <2> QED
      BY <1>1, <1>4, <1>6, <1>7, <2>1 DEF IInv, CacheIsWritten, NewIsEmpty, ClosedIsSaved
  <1>8. CASE state /= "Closed"
    <2>1. cache' = [cache EXCEPT ![e.key] = e.value] /\ cache \in [Keys -> Values \cup {NoValue}]
      BY <1>1, <1>8 DEF IInv, TypeOK, Items
    <2>2. pendingClose = "open"
      BY <1>8 DEF IInv, ClosingIsLast
    <2>3. ASSUME ~isErroneous, NEW j \in Settled', j = e.key
          PROVE  Effective[j] = cache'[j] /\ database[j] = cache'[j]
      <3>1. j \in EventKeys \ raced /\ j \notin EventKeys' /\ j \in Keys
        BY <1>1, <1>3, <1>8, <2>3 DEF Settled
      <3>2. ASSUME NEW l \in 2..Len(events)
            PROVE  events[l].key /= j
        <4>1. l - 1 \in 1..Len(events') /\ (l - 1) + 1 = l
          BY <1>2
        <4> QED
          BY <1>2, <3>1, <4>1 DEF EventKeys
      <3>3. events[1].key = j /\ 1 \in 1..Len(events) /\ 1 + 1 = 2
        BY <1>2, <2>3
      <3>4. e.value = database[j]
        BY <1>2, <1>5, <2>3, <3>1, <3>2, <3>3
      <3>5. Effective[j] = database[j]
        BY <1>5, <2>3, <3>1, EffectiveAt DEF OnItsWay, After
      <3> QED
        BY <2>1, <2>3, <3>1, <3>4, <3>5
    <2>4. ASSUME NEW j \in Settled', j /= e.key
          PROVE  j \in Settled /\ j \in Keys /\ cache'[j] = cache[j]
      BY <1>1, <1>3, <1>8, <2>1, <2>4 DEF Settled
    <2>5. CacheIsWritten' /\ NewIsEmpty'
      BY <1>1, <1>4, <2>3, <2>4 DEF IInv, CacheIsWritten, NewIsEmpty, Settled
    <2> QED
      BY <1>1, <1>6, <2>2, <2>5 DEF ClosedIsSaved
  <1> QED
    BY <1>7, <1>8

-----------------------------------------------------------------------------
\* The inductive invariant of Storage, for all keys, values, hints and bounds:
\* what init(), set(), delete(), flush(), close(), dispose(), the delayer, the
\* database and other processes do in any order keeps it.
THEOREM Invariance == Spec => []IInv
  <1>1. Init => IInv
    <2> SUFFICES ASSUME Init PROVE IInv
      OBVIOUS
    <2>1. /\ database \in Items /\ cache \in Items /\ pendingInserts \in Items
          /\ request \in IUpdateRequest
      BY RequestType DEF Init
    <2>2. events \in Seq([key : Keys, value : Values \cup {NoValue}])
      BY DEF Init
    <2>3. /\ changes \in 0..MaxChanges /\ failures \in 0..MaxFailures
          /\ externals \in 0..MaxExternal /\ whenFlushedCallbacks \in 0..1
      BY BoundsAssumption DEF Init
    <2>4. /\ isDisposed \in BOOLEAN /\ deferred \in BOOLEAN /\ activePromise \in BOOLEAN
          /\ queuedPromise \in BOOLEAN /\ isErroneous \in BOOLEAN
      BY DEF Init
    <2>5. /\ state \in {"None", "Initialized", "Closed"}
          /\ initPhase \in {"none", "loading", "done", "failed"}
          /\ pendingClose \in {"open", "delay", "active", "queued", "queuedRun", "never",
                               "flushed", "closed", "failed"}
          /\ hint \in Hints
          /\ pendingDeletes \in SUBSET Keys /\ raced \in SUBSET Keys
      BY DEF Init
    <2>6. TypeOK
      BY <2>1, <2>2, <2>3, <2>4, <2>5 DEF TypeOK
    <2>7. ~HasPending /\ EventKeys = {}
      BY DEF Init, HasPending, EventKeys
    <2>8. NewIsEmpty
      BY DEF Init, NewIsEmpty, Settled
    <2> QED
      BY <2>6, <2>7, <2>8 DEF Init, IInv, PendingIsScheduled, CacheIsWritten, ClosedIsSaved,
           EventsAreNews, NothingBeforeInit, ClosingIsLast
  <1>2. IInv /\ [Next]_vars => IInv'
    <2> SUFFICES ASSUME IInv, [Next]_vars PROVE IInv'
      OBVIOUS
    <2>1. CASE Next
      <3>1. TypeOK' /\ PendingIsScheduled' /\ NothingBeforeInit' /\ ClosingIsLast'
        BY <2>1, TypeInvariance, ControlInvariance DEF IInv
      <3>2. EventsAreNews' /\ CacheIsWritten' /\ NewIsEmpty' /\ ClosedIsSaved'
        <4>1. CASE \E k \in Keys, v \in Values : Set(k, v)
          <5>1. PICK k \in Keys, v \in Values : Set(k, v)
            BY <4>1
          <5>2. /\ v /= NoValue
                /\ PendingAfterSet(k, v).insert = [pendingInserts EXCEPT ![k] = v]
                /\ PendingAfterSet(k, v).delete = pendingDeletes \ {k}
            BY NoValueAssumption DEF PendingAfterSet
          <5> QED
            BY <5>1, <5>2, ChangeInvariance DEF Set
        <4>2. CASE \E k \in Keys : Delete(k)
          <5>1. PICK k \in Keys : Delete(k)
            BY <4>2
          <5>2. /\ PendingAfterDelete(k).insert = [pendingInserts EXCEPT ![k] = NoValue]
                /\ PendingAfterDelete(k).delete = pendingDeletes \cup {k}
            BY DEF PendingAfterDelete
          <5> QED
            BY <5>1, <5>2, ChangeInvariance DEF Delete
        <4>3. CASE Flush
          BY <4>3, NothingChanged DEF Flush, storageVars, databaseVars, historyVars
        <4>4. CASE WhenFlushed
          BY <4>4, NothingChanged DEF WhenFlushed, delayerVars, databaseVars, historyVars
        <4>5. CASE Dispose
          BY <4>5, NothingChanged DEF Dispose, databaseVars, historyVars
        <4>6. CASE InitBegin \/ InitEnd \/ InitFails
          BY <4>6, InitInvariance
        <4>7. CASE DelayElapses \/ UpdateSucceeds \/ UpdateFails
          BY <4>7, FlushInvariance
        <4>8. CASE Close \/ DatabaseClose
          BY <4>8, CloseInvariance
        <4>9. CASE \E k \in Keys, v \in Values \cup {NoValue} : ExternalChange(k, v)
          BY <4>9, ExternalChangeInvariance
        <4>10. CASE AcceptExternal
          BY <4>10, AcceptExternalInvariance
        <4> QED
          BY <2>1, <4>1, <4>2, <4>3, <4>4, <4>5, <4>6, <4>7, <4>8, <4>9, <4>10
          DEF Next, UserStep
      <3> QED
        BY <3>1, <3>2 DEF IInv
    <2>2. CASE UNCHANGED vars
      <3>1. TypeOK'
        BY <2>2 DEF IInv, TypeOK, vars
      <3>2. PendingIsScheduled' /\ NothingBeforeInit' /\ ClosingIsLast'
        BY <2>2 DEF IInv, PendingIsScheduled, NothingBeforeInit, ClosingIsLast, HasPending, vars
      <3>3. EventsAreNews' /\ CacheIsWritten' /\ NewIsEmpty' /\ ClosedIsSaved'
        BY <2>2, NothingChanged DEF vars
      <3> QED
        BY <3>1, <3>2, <3>3 DEF IInv
    <2> QED
      BY <2>1, <2>2
  <1> QED
    BY <1>1, <1>2, PTL DEF Spec

\* No change waits without a flush: while something is pending the timer of the
\* delayer is armed or a flush is queued behind the update under way.
THEOREM NoChangeIsStranded == Spec => []PendingIsScheduled
  <1>1. IInv => PendingIsScheduled
    BY DEF IInv
  <1> QED
    BY <1>1, Invariance, PTL

\* set() and delete() calls around running updates never leave an older value to
\* be written last: database, update under way and pending changes add up to the
\* cache.
THEOREM CacheReachesDatabase == Spec => []CacheIsWritten
  <1>1. IInv => CacheIsWritten
    BY DEF IInv
  <1> QED
    BY <1>1, Invariance, PTL

\* A close() that ends well leaves the cache in the database, also after updates
\* that failed.
THEOREM CloseSaves == Spec => []ClosedIsSaved
  <1>1. IInv => ClosedIsSaved
    BY DEF IInv
  <1> QED
    BY <1>1, Invariance, PTL

=============================================================================
