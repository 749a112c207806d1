------------------------------ MODULE Storage ------------------------------
(***************************************************************************)
(* A key-value Storage: a cache in memory over a database.  A change goes  *)
(* to the cache and to the pending inserts and deletes at once; the        *)
(* flushDelayer, a ThrottledDelayer, waits for more changes and then hands *)
(* the pending ones to the database, one update at a time: while an update *)
(* is under way at most one more flush is queued behind it (Throttler).    *)
(* Updates may fail, another process may change the database, and close()  *)
(* flushes a last time before it closes the database.                      *)
(*                                                                         *)
(* Values are the strings items are stored as.  A timer that fires and the *)
(* microtasks it starts are one step.                                      *)
(***************************************************************************)
EXTENDS Naturals, Sequences

CONSTANTS
    Keys, Values,
    NoValue,        \* the key is not there
    Hints,          \* the values of StorageHint, "none" when there is none
    MaxChanges,     \* bound: calls of set() and delete()
    MaxFailures,    \* bound: failures of the database
    MaxExternal     \* bound: changes by another process

ASSUME NoValueAssumption == NoValue \notin Values
ASSUME HintsAssumption ==
    Hints \subseteq {"none", "STORAGE_DOES_NOT_EXIST", "STORAGE_IN_MEMORY"}
ASSUME BoundsAssumption ==
    MaxChanges \in Nat /\ MaxFailures \in Nat /\ MaxExternal \in Nat

VARIABLES
    \* Storage
    state, cache, pendingInserts, pendingDeletes,
    whenFlushedCallbacks, \* number of waiters
    initPhase,            \* how far init() is
    pendingClose,         \* what doClose() waits for
    isDisposed,
    hint,                 \* options.hint, which never changes
    \* flushDelayer
    deferred,             \* the timer of the Delayer is armed
    activePromise,        \* an update is under way at the database
    queuedPromise,        \* another flush is queued behind it
    \* the database
    database,
    request,              \* the update under way
    isErroneous,          \* an update failed
    events,               \* external changes not yet reported
    \* bounds and history
    changes, failures, externals,
    raced                 \* keys changed here and externally at the same time

storageVars == <<state, cache, pendingInserts, pendingDeletes,
                 whenFlushedCallbacks, initPhase, pendingClose, isDisposed, hint>>
delayerVars == <<deferred, activePromise, queuedPromise>>
databaseVars == <<database, request, isErroneous, events>>
historyVars == <<changes, failures, externals, raced>>
vars == <<state, cache, pendingInserts, pendingDeletes, whenFlushedCallbacks,
          initPhase, pendingClose, isDisposed, hint, deferred, activePromise,
          queuedPromise, database, request, isErroneous, events, changes,
          failures, externals, raced>>

Items == [Keys -> Values \cup {NoValue}]
NoItems == [k \in Keys |-> NoValue]
IUpdateRequest == [insert : Items, delete : SUBSET Keys]
NoRequest == [insert |-> NoItems, delete |-> {}]

HasPending == pendingInserts /= NoItems \/ pendingDeletes /= {}

\* updateItems() of the databases: first the inserts, then the deletes
UpdateItems(items, req) ==
    [k \in Keys |-> IF k \in req.delete THEN NoValue
                    ELSE IF req.insert[k] /= NoValue THEN req.insert[k]
                    ELSE items[k]]

Pending == [insert |-> pendingInserts, delete |-> pendingDeletes]

EventKeys == {events[i].key : i \in 1..Len(events)}

Init ==
    /\ state = "None"
    /\ cache = NoItems
    /\ pendingInserts = NoItems
    /\ pendingDeletes = {}
    /\ whenFlushedCallbacks = 0
    /\ initPhase = "none"
    /\ pendingClose = "open"
    /\ isDisposed = FALSE
    /\ deferred = FALSE
    /\ activePromise = FALSE
    /\ queuedPromise = FALSE
    /\ hint \in Hints
    /\ database \in IF hint = "none" THEN Items ELSE {NoItems}
    /\ request = NoRequest
    /\ isErroneous = FALSE
    /\ events = <<>>
    /\ changes = 0
    /\ failures = 0
    /\ externals = 0
    /\ raced = {}

-----------------------------------------------------------------------------
(* Starting                                                                *)

\* init() before and after its await; its caller awaits it before any set().
InitBegin ==
    /\ state = "None"
    /\ state' = "Initialized"
    /\ initPhase' = IF hint = "STORAGE_DOES_NOT_EXIST" THEN "done" ELSE "loading"
    /\ UNCHANGED <<cache, pendingInserts, pendingDeletes, whenFlushedCallbacks,
                   pendingClose, isDisposed, hint, delayerVars, databaseVars,
                   historyVars>>

InitEnd ==
    /\ initPhase = "loading"
    /\ initPhase' = "done"
    /\ cache' = database
    /\ UNCHANGED <<state, pendingInserts, pendingDeletes, whenFlushedCallbacks,
                   pendingClose, isDisposed, hint, delayerVars, databaseVars,
                   historyVars>>

\* The items cannot be read: the caller logs the error and uses the storage as
\* it is, with an empty cache.
InitFails ==
    /\ initPhase = "loading"
    /\ failures < MaxFailures
    /\ failures' = failures + 1
    /\ initPhase' = "failed"
    /\ isErroneous' = TRUE
    /\ UNCHANGED <<state, cache, pendingInserts, pendingDeletes,
                   whenFlushedCallbacks, pendingClose, isDisposed, hint,
                   delayerVars, database, request, events, changes, externals,
                   raced>>

-----------------------------------------------------------------------------
(* Flushing                                                                *)

\* flushPending() when there is something pending: the pending changes become
\* the update under way.
StartUpdate ==
    /\ request' = Pending
    /\ pendingInserts' = NoItems
    /\ pendingDeletes' = {}
    /\ activePromise' = TRUE

\* doFlush() after the pending changes became ins and del: the in-memory database
\* takes them at once, otherwise the delayer is triggered (again).
DoFlush(ins, del) ==
    IF hint = "STORAGE_IN_MEMORY"
    THEN /\ database' = UpdateItems(database, [insert |-> ins, delete |-> del])
         /\ pendingInserts' = NoItems
         /\ pendingDeletes' = {}
         /\ UNCHANGED deferred
    ELSE /\ deferred' = TRUE
         /\ pendingInserts' = ins
         /\ pendingDeletes' = del
         /\ UNCHANGED database

\* What doClose() waits for next, if it waits for the timer.
Settles(next) ==
    pendingClose' = IF pendingClose = "delay" THEN next ELSE pendingClose

\* The timer of the delayer fires: flushPending() runs now, or is queued behind
\* the update under way.  A disposed throttler refuses.
DelayElapses ==
    /\ deferred
    /\ deferred' = FALSE
    /\ \/ /\ isDisposed
          /\ Settles("flushed")
          /\ UNCHANGED <<request, pendingInserts, pendingDeletes,
                         activePromise, queuedPromise>>
       \/ /\ ~isDisposed /\ activePromise
          /\ queuedPromise' = TRUE
          /\ Settles("queued")
          /\ UNCHANGED <<request, pendingInserts, pendingDeletes,
                         activePromise>>
       \/ /\ ~isDisposed /\ ~activePromise /\ HasPending
          /\ StartUpdate
          /\ Settles("active")
          /\ UNCHANGED queuedPromise
       \/ /\ ~isDisposed /\ ~activePromise /\ ~HasPending
          /\ Settles("flushed")
          /\ UNCHANGED <<request, pendingInserts, pendingDeletes,
                         activePromise, queuedPromise>>
    /\ UNCHANGED <<state, cache, whenFlushedCallbacks, initPhase, isDisposed,
                   hint, database, isErroneous, events, historyVars>>

\* Mutant of RunsQueued: the queued flush is forgotten.
RunsQueuedNever == FALSE

\* Throttler, onComplete: the queued flush runs now.
RunsQueued == queuedPromise /\ ~isDisposed

\* What doClose() waits for once the update under way is settled.  The promise of
\* a queued flush is resolved when the flush succeeds, but a failing flush never
\* rejects it: onComplete's promise is only forwarded by then(resolve).
AfterUpdate(succeeded) ==
    CASE pendingClose = "active" -> "flushed"
      [] pendingClose = "queuedRun" -> IF succeeded THEN "flushed" ELSE "never"
      [] pendingClose = "queued" -> IF RunsQueued /\ HasPending THEN "queuedRun"
                                    ELSE "flushed"
      [] OTHER -> pendingClose

\* updateItems() settles: the waiters are released unless more is pending, and a
\* queued flush runs.
UpdateDone(succeeded) ==
    /\ activePromise
    /\ whenFlushedCallbacks' = IF HasPending THEN whenFlushedCallbacks ELSE 0
    /\ queuedPromise' = FALSE
    /\ pendingClose' = AfterUpdate(succeeded)
    /\ IF RunsQueued /\ HasPending
       THEN StartUpdate
       ELSE /\ activePromise' = FALSE
            /\ request' = NoRequest
            /\ UNCHANGED <<pendingInserts, pendingDeletes>>
    /\ UNCHANGED <<state, cache, initPhase, isDisposed, hint, deferred, events,
                   changes, externals, raced>>

UpdateSucceeds ==
    /\ UpdateDone(TRUE)
    /\ database' = UpdateItems(database, request)
    /\ UNCHANGED <<isErroneous, failures>>

\* The database reports an error: the transaction fails, or it is committed
\* without a statement that failed.  The changes are not tried again.
UpdateFails ==
    /\ failures < MaxFailures
    /\ failures' = failures + 1
    /\ isErroneous' = TRUE
    /\ \/ UpdateDone(FALSE) /\ UNCHANGED database
       \/ /\ UpdateDone(TRUE)
          /\ \E part \in {[insert |-> request.insert, delete |-> {}],
                         [insert |-> NoItems, delete |-> request.delete],
                         NoRequest} :
                database' = UpdateItems(database, part)

-----------------------------------------------------------------------------
(* The calls of Storage's users                                            *)

\* The pending inserts and deletes after set(k, v).
\* Mutant: the pending delete of the key stays.
PendingAfterSetKeepsDelete(k, v) ==
    [insert |-> [pendingInserts EXCEPT ![k] = v], delete |-> pendingDeletes]
PendingAfterSet(k, v) ==
    [insert |-> [pendingInserts EXCEPT ![k] = v], delete |-> pendingDeletes \ {k}]

\* The pending inserts and deletes after delete(k): also when the key's insert is
\* pending, because the database may hold an older value.
\* Mutant: a pending insert is taken back and nothing is deleted.
PendingAfterDeleteOnlyTakesBack(k) ==
    [insert |-> [pendingInserts EXCEPT ![k] = NoValue],
     delete |-> IF pendingInserts[k] = NoValue THEN pendingDeletes \cup {k}
                ELSE pendingDeletes]
PendingAfterDelete(k) ==
    [insert |-> [pendingInserts EXCEPT ![k] = NoValue],
     delete |-> pendingDeletes \cup {k}]

\* set() and delete() with a change of the cache to value v
Change(k, v, pending) ==
    /\ state /= "Closed"
    /\ initPhase \in {"done", "failed"}
    /\ changes < MaxChanges
    /\ cache[k] /= v
    /\ cache' = [cache EXCEPT ![k] = v]
    /\ DoFlush(pending.insert, pending.delete)
    /\ changes' = changes + 1
    /\ raced' = IF k \in EventKeys THEN raced \cup {k} ELSE raced
    /\ UNCHANGED <<state, whenFlushedCallbacks, initPhase, pendingClose,
                   isDisposed, hint, activePromise, queuedPromise, request,
                   isErroneous, events, failures, externals>>

Set(k, v) == Change(k, v, PendingAfterSet(k, v))

Delete(k) == Change(k, NoValue, PendingAfterDelete(k))

\* flush() returns at once when nothing is pending.
FlushReturnsAtOnce == ~HasPending

\* flush() and, through it, optimize(): the delayer is triggered.
Flush ==
    /\ ~FlushReturnsAtOnce
    /\ deferred' = TRUE
    /\ UNCHANGED <<storageVars, activePromise, queuedPromise, databaseVars,
                   historyVars>>

\* whenFlushed() with something pending
WhenFlushed ==
    /\ HasPending
    /\ whenFlushedCallbacks = 0
    /\ whenFlushedCallbacks' = 1
    /\ UNCHANGED <<state, cache, pendingInserts, pendingDeletes, initPhase,
                   pendingClose, isDisposed, hint, delayerVars, databaseVars,
                   historyVars>>

\* Mutant of CloseFlushes: the database is closed without a last flush.
CloseFlushesNot ==
    /\ pendingClose' = "flushed"
    /\ UNCHANGED <<deferred, pendingInserts, pendingDeletes, database>>

CloseFlushes ==
    /\ DoFlush(pendingInserts, pendingDeletes)
    /\ pendingClose' = IF hint = "STORAGE_IN_MEMORY" THEN "flushed" ELSE "delay"

\* close(): from now on nothing changes; the last flush.  The owner of the storage
\* waits for init() before.
Close ==
    /\ pendingClose = "open"
    /\ initPhase /= "loading"
    /\ state' = "Closed"
    /\ CloseFlushes
    /\ UNCHANGED <<cache, whenFlushedCallbacks, initPhase, isDisposed, hint,
                   activePromise, queuedPromise, request, isErroneous, events,
                   historyVars>>

\* dispose(): the delayer is cancelled, which rejects what doClose() waits for.
Dispose ==
    /\ ~isDisposed
    /\ isDisposed' = TRUE
    /\ deferred' = FALSE
    /\ pendingClose' = IF pendingClose = "delay" /\ deferred THEN "flushed"
                       ELSE pendingClose
    /\ UNCHANGED <<state, cache, pendingInserts, pendingDeletes,
                   whenFlushedCallbacks, initPhase, hint, activePromise,
                   queuedPromise, databaseVars, historyVars>>

-----------------------------------------------------------------------------
(* The database                                                            *)

\* database.close().  A database that had errors, or cannot be closed, is created
\* again from the cache, which may fail as well.
DatabaseClose ==
    /\ pendingClose = "flushed"
    /\ \/ /\ ~isErroneous
          /\ pendingClose' = "closed"
          /\ UNCHANGED <<database, isErroneous, failures>>
       \/ /\ isErroneous
          /\ pendingClose' = "closed"
          /\ database' = cache
          /\ UNCHANGED <<isErroneous, failures>>
       \/ /\ hint /= "STORAGE_IN_MEMORY"
          /\ failures < MaxFailures
          /\ failures' = failures + 1
          /\ isErroneous' = TRUE
          /\ \/ pendingClose' = "closed" /\ database' = cache
             \/ pendingClose' = "failed" /\ database' \in {database, NoItems}
    /\ UNCHANGED <<state, cache, pendingInserts, pendingDeletes,
                   whenFlushedCallbacks, initPhase, isDisposed, hint,
                   delayerVars, request, events, changes, externals, raced>>

\* Is a local change of key k on its way to the database?
OnItsWay(k) ==
    \/ k \in pendingDeletes \/ pendingInserts[k] /= NoValue
    \/ activePromise /\ (k \in request.delete \/ request.insert[k] /= NoValue)

\* Another process changes the database and we will be told.
ExternalChange(k, v) ==
    /\ hint /= "STORAGE_IN_MEMORY"
    /\ externals < MaxExternal
    /\ pendingClose \notin {"closed", "failed"}
    /\ database[k] /= v
    /\ database' = [database EXCEPT ![k] = v]
    /\ events' = Append(events, [key |-> k, value |-> v])
    /\ externals' = externals + 1
    /\ raced' = IF OnItsWay(k) THEN raced \cup {k} ELSE raced
    /\ UNCHANGED <<storageVars, delayerVars, request, isErroneous, changes,
                   failures>>

\* acceptExternal(): the value is taken over, unless we are closed.
AcceptExternal ==
    /\ events /= <<>>
    /\ ~isDisposed
    /\ events' = Tail(events)
    /\ LET e == Head(events)
       IN  IF state = "Closed"
           THEN raced' = raced \cup {e.key} /\ UNCHANGED cache
           ELSE cache' = [cache EXCEPT ![e.key] = e.value] /\ UNCHANGED raced
    /\ UNCHANGED <<state, pendingInserts, pendingDeletes, whenFlushedCallbacks,
                   initPhase, pendingClose, isDisposed, hint, delayerVars,
                   database, request, isErroneous, changes, failures,
                   externals>>

-----------------------------------------------------------------------------
UserStep ==
    \/ InitBegin
    \/ \E k \in Keys, v \in Values : Set(k, v)
    \/ \E k \in Keys : Delete(k)
    \/ Flush
    \/ WhenFlushed
    \/ Close
    \/ Dispose

Next ==
    \/ UserStep
    \/ InitEnd
    \/ InitFails
    \/ DelayElapses
    \/ UpdateSucceeds
    \/ UpdateFails
    \/ DatabaseClose
    \/ \E k \in Keys, v \in Values \cup {NoValue} : ExternalChange(k, v)
    \/ AcceptExternal

Spec == Init /\ [][Next]_vars

\* The timer fires unless it is put off for ever, the database settles every call.
Fairness ==
    /\ WF_vars(DelayElapses)
    /\ WF_vars(UpdateSucceeds \/ UpdateFails)
    /\ WF_vars(DatabaseClose)
    /\ WF_vars(InitEnd \/ InitFails)

FairSpec == Spec /\ Fairness

-----------------------------------------------------------------------------
(* Properties                                                              *)

\* Type correctness.
TypeOK ==
    /\ state \in {"None", "Initialized", "Closed"}
    /\ cache \in Items
    /\ pendingInserts \in Items
    /\ pendingDeletes \in SUBSET Keys
    /\ whenFlushedCallbacks \in 0..1
    /\ initPhase \in {"none", "loading", "done", "failed"}
    /\ pendingClose \in {"open", "delay", "active", "queued", "queuedRun", "never",
                         "flushed", "closed", "failed"}
    /\ isDisposed \in BOOLEAN
    /\ hint \in Hints
    /\ deferred \in BOOLEAN
    /\ activePromise \in BOOLEAN
    /\ queuedPromise \in BOOLEAN
    /\ database \in Items
    /\ request \in IUpdateRequest
    /\ isErroneous \in BOOLEAN
    /\ events \in Seq([key : Keys, value : Values \cup {NoValue}])
    /\ changes \in 0..MaxChanges
    /\ failures \in 0..MaxFailures
    /\ externals \in 0..MaxExternal
    /\ raced \in SUBSET Keys

\* No change is stranded: while something is pending a flush is scheduled, by the
\* timer or behind the update under way, in every order of calls, timers, updates
\* and failures.
PendingIsScheduled == HasPending /\ ~isDisposed => deferred \/ queuedPromise

\* The keys of which our changes and external ones do not cross
Settled == Keys \ (raced \cup EventKeys)

Effective ==
    UpdateItems(IF activePromise THEN UpdateItems(database, request) ELSE database,
                Pending)

\* Whatever the order of set() and delete() calls around running updates, the
\* database with the update under way and the pending changes is what the cache
\* says, as long as no update failed.
CacheIsWritten ==
    initPhase = "done" /\ ~isErroneous =>
        \A k \in Settled : Effective[k] = cache[k]

\* close() that ends well leaves every item in the database, failed updates
\* included: those are written again from the cache.
ClosedIsSaved ==
    pendingClose = "closed" /\ initPhase \in {"done", "failed"} /\ ~isDisposed =>
        \A k \in Settled : database[k] = cache[k]

\* whenFlushed() never hangs, even when updates fail.
WaitersAreReleased ==
    (whenFlushedCallbacks > 0) ~> (whenFlushedCallbacks = 0 \/ isDisposed)

\* storage.ts:344: "then close even if there is an error flushing. We must always
\* ensure the DB is closed to avoid corruption."
AlwaysClosed == (pendingClose /= "open") ~> (pendingClose \in {"closed", "failed"})

-----------------------------------------------------------------------------
(* The inductive invariant                                                 *)

\* The last of the unreported external changes of a key is in the database, and
\* no change of our own is on its way to it.
EventsAreNews ==
    ~isErroneous =>
        \A k \in EventKeys \ raced :
            /\ ~OnItsWay(k)
            /\ \A i \in 1..Len(events) :
                  /\ events[i].key = k
                  /\ \A j \in (i + 1)..Len(events) : events[j].key /= k
                  => events[i].value = database[k]

\* Nothing is changed before init() is done, and with an in-memory database
\* nothing is kept.
NothingBeforeInit ==
    /\ state = "None" => initPhase = "none"
    /\ initPhase \notin {"done", "failed"} \/ hint = "STORAGE_IN_MEMORY" =>
          ~HasPending /\ ~activePromise

\* init() need not read a database that does not exist.
NewIsEmpty ==
    initPhase = "none" /\ hint = "STORAGE_DOES_NOT_EXIST" /\ ~isErroneous =>
        \A k \in Settled : database[k] = cache[k]

\* The last flush of doClose() takes everything with it.
ClosingIsLast ==
    /\ pendingClose /= "open" => state = "Closed" /\ initPhase /= "loading"
    /\ pendingClose = "queued" => activePromise
    /\ pendingClose = "queued" /\ ~isDisposed => queuedPromise
    /\ pendingClose \in {"active", "queuedRun"} => activePromise /\ ~HasPending
    /\ pendingClose \in {"flushed", "closed", "failed"} /\ ~isDisposed =>
          ~activePromise /\ ~HasPending
    /\ queuedPromise => activePromise
    /\ initPhase = "failed" => isErroneous

IInv ==
    /\ TypeOK
    /\ PendingIsScheduled
    /\ CacheIsWritten
    /\ ClosedIsSaved
    /\ EventsAreNews
    /\ NothingBeforeInit
    /\ NewIsEmpty
    /\ ClosingIsLast

=============================================================================
