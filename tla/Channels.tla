------------------------------ MODULE Channels ------------------------------
(***************************************************************************)
(* Calls and events over IPC channels: a ChannelClient at one end and a     *)
(* ChannelServer at the other end of a protocol that delivers in order.     *)
(* Requests may be made before the server has said Initialize, and may come *)
(* in before the channel they name is registered.  There is one channel,    *)
(* a set of calls and one event.  Within one turn of the event loop the     *)
(* callbacks of settled promises run, so they belong to the action.         *)
(***************************************************************************)
EXTENDS Integers, Sequences, FiniteSets, SequencesExt

CONSTANTS
    Calls,              \* ids of calls
    MaxListens,         \* bound: times the event gets its first listener
    MaxFires,           \* bound: times the event fires
    MaxRegistrations,   \* bound: times the channel is registered
    MayDispose          \* may the two ends be disposed

ASSUME BoundsAssumption ==
    /\ MaxListens \in Nat /\ MaxFires \in Nat /\ MaxRegistrations \in Nat
    /\ MayDispose \in BOOLEAN

VARIABLES
    \* the client
    state,              \* "uninitialized" or "idle"
    call,               \* the promise of a call
    handlers,           \* the calls that have a handler
    uninitialized,      \* the requests that wait for Initialize, in order
    listening,          \* the event has a listener
    clientDisposed,
    \* the protocol
    toServer, toClient,
    \* the server
    registered,         \* the channel is there
    flushDue,           \* and flushPendingRequests about to run
    pendingRequests,    \* requests for the channel, each with its timer
    activeRequests,     \* the ids that can be disposed
    execution,          \* what has become of a call
    token,              \* the calls whose token was cancelled
    subscriptions,      \* listeners of the server for the event
    serverDisposed,
    \* bounds and history
    listens, fires, registrations,
    heard,              \* times the listener was called
    missed              \* ids disposed by the client while their request was pending

clientVars == <<state, call, handlers, uninitialized, listening, clientDisposed>>
serverVars == <<registered, flushDue, pendingRequests, activeRequests, execution, token,
                subscriptions, serverDisposed>>
boundVars == <<listens, fires, registrations>>
historyVars == <<heard, missed>>
vars == <<clientVars, toServer, toClient, serverVars, boundVars, historyVars>>

\* the id of the event, and all ids
EventId == "event"
Ids == Calls \cup {EventId}
ASSUME CallsAssumption == IsFiniteSet(Calls) /\ EventId \notin Calls

Results == {"data", "error"}

\* messages.  PromiseErrorObj, for a reason that is no Error, is a PromiseError.
Request(id) == [type |-> IF id = EventId THEN "EventListen" ELSE "Promise", id |-> id]
Dispose(id) == [type |-> IF id = EventId THEN "EventDispose" ELSE "PromiseCancel", id |-> id]
Response(type, id, data) == [type |-> type, id |-> id, data |-> data]
Initialize == Response("Initialize", EventId, "none")

\* how often an element is in a sequence
Count(seq, e) == Cardinality({i \in DOMAIN seq : seq[i] = e})

\* the ids of the requests that are pending, in order
Pending == [i \in DOMAIN pendingRequests |-> pendingRequests[i].id]
PendingIds == ToSet(Pending)

\* uninitialized without the request that has this id
RemoveUninitialized(id) ==
    \E i \in DOMAIN uninitialized : /\ uninitialized[i] = id
                                   /\ uninitialized' = RemoveAt(uninitialized, i)

Settled(c) == call[c] \notin {"none", "uninitialized", "sent"}

Init ==
    /\ state = "uninitialized"
    /\ call = [c \in Calls |-> "none"]
    /\ handlers = {} /\ uninitialized = <<>> /\ listening = FALSE /\ clientDisposed = FALSE
    /\ toServer = <<>> /\ toClient = <<Initialize>>
    /\ registered = FALSE /\ flushDue = FALSE
    /\ pendingRequests = <<>> /\ activeRequests = {}
    /\ execution = [c \in Calls |-> "none"]
    /\ token = {} /\ subscriptions = 0 /\ serverDisposed = FALSE
    /\ listens = 0 /\ fires = 0 /\ registrations = 0
    /\ heard = 0 /\ missed = {}

-----------------------------------------------------------------------------
\* The client

\* requestPromise
RequestPromise(c) ==
    /\ call[c] = "none"
    /\ \/ /\ clientDisposed
          /\ call' = [call EXCEPT ![c] = "cancelled"]
          /\ UNCHANGED <<handlers, uninitialized, toServer>>
       \/ /\ ~clientDisposed /\ state = "idle"
          /\ call' = [call EXCEPT ![c] = "sent"]
          /\ handlers' = handlers \cup {c}
          /\ toServer' = Append(toServer, Request(c))
          /\ UNCHANGED uninitialized
       \/ /\ ~clientDisposed /\ state = "uninitialized"
          /\ call' = [call EXCEPT ![c] = "uninitialized"]
          /\ uninitialized' = Append(uninitialized, c)
          /\ UNCHANGED <<handlers, toServer>>
    /\ UNCHANGED <<state, listening, clientDisposed, toClient, serverVars, boundVars, historyVars>>

\* cancel(), by the token of the caller; when the promise is settled, finally()
\* disposes the request, which runs cancel() again
CancelCall(c) ==
    /\ call' = [call EXCEPT ![c] = "cancelled"]
    /\ \/ /\ call[c] = "uninitialized"
          /\ RemoveUninitialized(c)
          /\ toServer' = Append(toServer, Dispose(c))
       \/ /\ call[c] = "sent"
          /\ toServer' = toServer \o <<Dispose(c), Dispose(c)>>
          /\ UNCHANGED uninitialized
    /\ UNCHANGED <<state, handlers, listening, clientDisposed, toClient, serverVars, boundVars,
                   historyVars>>

\* requestEvent: the first listener of the event
AddFirstListener ==
    /\ listens < MaxListens /\ ~listening /\ ~clientDisposed
    /\ listens' = listens + 1
    /\ listening' = TRUE
    /\ IF state = "idle"
       THEN toServer' = Append(toServer, Request(EventId)) /\ UNCHANGED uninitialized
       ELSE uninitialized' = Append(uninitialized, EventId) /\ UNCHANGED toServer
    /\ UNCHANGED <<state, call, handlers, clientDisposed, toClient, serverVars, fires,
                   registrations, historyVars>>

\* and its last one
RemoveLastListener ==
    /\ listening /\ ~clientDisposed
    /\ listening' = FALSE
    /\ IF Contains(uninitialized, EventId)
       THEN RemoveUninitialized(EventId) /\ UNCHANGED toServer
       ELSE toServer' = Append(toServer, Dispose(EventId)) /\ UNCHANGED uninitialized
    /\ UNCHANGED <<state, call, handlers, clientDisposed, toClient, serverVars, boundVars, historyVars>>

\* onResponse to Initialize: the requests that waited are made
OnInitialize ==
    /\ state' = "idle"
    /\ uninitialized' = <<>>
    /\ call' = [c \in Calls |-> IF Contains(uninitialized, c) THEN "sent" ELSE call[c]]
    /\ handlers' = handlers \cup (ToSet(uninitialized) \cap Calls)
    /\ toServer' = toServer \o [i \in DOMAIN uninitialized |-> Request(uninitialized[i])]

\* onResponse to a call: its handler settles the promise, if it is not settled
\* yet, and finally() disposes the request
OnPromiseResponse(response) ==
    LET c == response.id
    IN  /\ handlers' = handlers \ {c}
        /\ IF c \in handlers /\ ~Settled(c)
           THEN /\ call' = [call EXCEPT ![c] = response.data]
                /\ toServer' = Append(toServer, Dispose(c))
           ELSE UNCHANGED <<call, toServer>>
        /\ UNCHANGED <<state, uninitialized>>

\* onResponse; an event goes to the listener.  A disposed client hears nothing.
OnResponse ==
    /\ toClient /= <<>>
    /\ toClient' = Tail(toClient)
    /\ LET response == Head(toClient)
       IN  \/ /\ clientDisposed
              /\ UNCHANGED <<state, call, handlers, uninitialized, toServer, heard>>
           \/ /\ ~clientDisposed /\ response.type = "Initialize"
              /\ OnInitialize
              /\ UNCHANGED heard
           \/ /\ ~clientDisposed /\ response.type \in {"PromiseSuccess", "PromiseError"}
              /\ OnPromiseResponse(response)
              /\ UNCHANGED heard
           \/ /\ ~clientDisposed /\ response.type = "EventFire"
              /\ heard' = IF listening THEN heard + 1 ELSE heard
              /\ UNCHANGED <<state, call, handlers, uninitialized, toServer>>
    /\ UNCHANGED <<listening, clientDisposed, serverVars, boundVars, missed>>

\* Mutant of DisposedCalls: only requests that were sent are cancelled.
DisposedSentCalls == {c \in Calls : call[c] = "sent"}

\* the calls in the client's activeRequests
DisposedCalls == {c \in Calls : call[c] \in {"uninitialized", "sent"}}

\* ChannelClient.dispose: the active requests are cancelled, the emitter of a
\* requested event is disposed
ClientDispose ==
    LET sent == SetToSeq({c \in DisposedCalls : call[c] = "sent"}
                         \cup (IF listening /\ ~Contains(uninitialized, EventId)
                               THEN {EventId} ELSE {}))
    IN  /\ MayDispose /\ ~clientDisposed
        /\ clientDisposed' = TRUE
        /\ call' = [c \in Calls |-> IF c \in DisposedCalls THEN "cancelled" ELSE call[c]]
        /\ uninitialized' = <<>>
        /\ listening' = FALSE
        /\ toServer' = toServer \o [i \in DOMAIN sent |-> Dispose(sent[i])]
        /\ UNCHANGED <<state, handlers, toClient, serverVars, boundVars, historyVars>>

-----------------------------------------------------------------------------
\* The server

\* Mutant of CollectPendingRequest: requests for events are not kept.
CollectPendingCall(id) ==
    pendingRequests' = IF id \in Calls THEN Append(pendingRequests, [id |-> id, timer |-> TRUE])
                       ELSE pendingRequests

\* collectPendingRequest
CollectPendingRequest(id) ==
    pendingRequests' = Append(pendingRequests, [id |-> id, timer |-> TRUE])

\* onPromise and onEventListen for requests whose channel is there, in order
StartRequests(ids) ==
    /\ execution' = [c \in Calls |-> IF Contains(ids, c) THEN "running" ELSE execution[c]]
    /\ subscriptions' = subscriptions + Count(ids, EventId)
    /\ activeRequests' = activeRequests \cup ToSet(ids)

OnRequest(id) ==
    IF registered
    THEN StartRequests(<<id>>) /\ UNCHANGED pendingRequests
    ELSE /\ CollectPendingRequest(id)
         /\ UNCHANGED <<activeRequests, execution, subscriptions>>

\* Mutant of DisposeActiveRequest: the entry is deleted and nothing disposed.
ForgetActiveRequest(id) ==
    activeRequests' = activeRequests \ {id} /\ UNCHANGED <<token, subscriptions>>

\* Mutant of DisposeActiveRequest: a request need not be active.
DisposeAnyRequest(id) ==
    /\ activeRequests' = activeRequests \ {id}
    /\ token' = token \cup ({id} \cap Calls)
    /\ subscriptions' = IF id = EventId THEN subscriptions - 1 ELSE subscriptions

\* disposeActiveRequest: the token of a call is cancelled, the event's listener
\* removed
DisposeActiveRequest(id) ==
    /\ activeRequests' = activeRequests \ {id}
    /\ token' = token \cup ({id} \cap activeRequests \cap Calls)
    /\ subscriptions' = IF id = EventId /\ id \in activeRequests THEN subscriptions - 1
                        ELSE subscriptions

\* onRawMessage; a disposed server hears nothing
OnRawMessage ==
    /\ toServer /= <<>>
    /\ toServer' = Tail(toServer)
    /\ LET request == Head(toServer)
       IN  \/ /\ serverDisposed
              /\ UNCHANGED <<pendingRequests, activeRequests, execution, token, subscriptions,
                             missed>>
           \/ /\ ~serverDisposed /\ request.type \in {"Promise", "EventListen"}
              /\ OnRequest(request.id)
              /\ UNCHANGED <<token, missed>>
           \/ /\ ~serverDisposed /\ request.type \in {"PromiseCancel", "EventDispose"}
              /\ DisposeActiveRequest(request.id)
              /\ missed' = missed \cup ({request.id} \cap PendingIds)
              /\ UNCHANGED <<pendingRequests, execution>>
    /\ UNCHANGED <<clientVars, toClient, registered, flushDue, serverDisposed, boundVars, heard>>

\* registerChannel: the channel is there at once, the requests that wait for it
\* are looked at in a turn of their own
RegisterChannel ==
    /\ registrations < MaxRegistrations /\ ~flushDue /\ ~serverDisposed
    /\ registrations' = registrations + 1
    /\ registered' = TRUE
    /\ flushDue' = TRUE
    /\ UNCHANGED <<clientVars, toServer, toClient, pendingRequests, activeRequests, execution,
                   token, subscriptions, serverDisposed, listens, fires, historyVars>>

\* Mutant of FlushedRequests: they are kept.
KeptRequests == pendingRequests

\* pendingRequests after the flush
FlushedRequests == <<>>

\* flushPendingRequests, of a disposed server too
FlushPendingRequests ==
    /\ flushDue
    /\ flushDue' = FALSE
    /\ StartRequests(Pending)
    /\ pendingRequests' = FlushedRequests
    /\ UNCHANGED <<clientVars, toServer, toClient, registered, token, serverDisposed, boundVars,
                   historyVars>>

\* what the timer of a pending request sends
TimeoutResponse(id) == IF id \in Calls THEN <<Response("PromiseError", id, "unknownChannel")>> ELSE <<>>

\* The timer of a pending request fires; the request stays pending
PendingRequestTimeout(i) ==
    /\ pendingRequests[i].timer
    /\ pendingRequests' = [pendingRequests EXCEPT ![i].timer = FALSE]
    /\ toClient' = toClient \o TimeoutResponse(pendingRequests[i].id)
    /\ UNCHANGED <<clientVars, toServer, registered, flushDue, activeRequests, execution, token,
                   subscriptions, serverDisposed, boundVars, historyVars>>

\* Mutant of CallResponse: a call that was cancelled is not answered.
ResponseUnlessCancelled(c, result) ==
    IF c \in token THEN <<>>
    ELSE <<Response(IF result = "data" THEN "PromiseSuccess" ELSE "PromiseError", c, result)>>

\* the answer to a call, cancelled or not
CallResponse(c, result) ==
    <<Response(IF result = "data" THEN "PromiseSuccess" ELSE "PromiseError", c, result)>>

\* The promise of channel.call is settled
CallEnds(c, result) ==
    /\ execution[c] = "running"
    /\ execution' = [execution EXCEPT ![c] = result]
    /\ activeRequests' = activeRequests \ {c}
    /\ toClient' = toClient \o CallResponse(c, result)
    /\ UNCHANGED <<clientVars, toServer, registered, flushDue, pendingRequests, token,
                   subscriptions, serverDisposed, boundVars, historyVars>>

\* The event of the channel fires: each subscription sends it
EventFires ==
    /\ fires < MaxFires /\ subscriptions > 0
    /\ fires' = fires + 1
    /\ toClient' = toClient \o [i \in 1..subscriptions |->
                                 Response("EventFire", EventId, "none")]
    /\ UNCHANGED <<clientVars, toServer, serverVars, listens, registrations, historyVars>>

\* ChannelServer.dispose: the active requests are disposed, the pending ones and
\* their timers are left
ServerDispose ==
    /\ MayDispose /\ ~serverDisposed
    /\ serverDisposed' = TRUE
    /\ token' = token \cup (activeRequests \cap Calls)
    /\ subscriptions' = IF EventId \in activeRequests THEN subscriptions - 1 ELSE subscriptions
    /\ activeRequests' = {}
    /\ UNCHANGED <<clientVars, toServer, toClient, registered, flushDue, pendingRequests,
                   execution, boundVars, historyVars>>

-----------------------------------------------------------------------------
Next ==
    \/ \E c \in Calls : RequestPromise(c) \/ CancelCall(c)
    \/ AddFirstListener \/ RemoveLastListener
    \/ OnResponse \/ ClientDispose
    \/ OnRawMessage \/ RegisterChannel \/ FlushPendingRequests
    \/ \E i \in DOMAIN pendingRequests : PendingRequestTimeout(i)
    \/ \E c \in Calls, result \in Results : CallEnds(c, result)
    \/ EventFires \/ ServerDispose

Spec == Init /\ [][Next]_vars

\* Messages arrive, timers fire, and a call the channel has begun comes to an end
Fairness ==
    /\ WF_vars(OnResponse) /\ WF_vars(OnRawMessage)
    /\ WF_vars(FlushPendingRequests)
    /\ WF_vars(\E i \in DOMAIN pendingRequests : PendingRequestTimeout(i))
    /\ \A c \in Calls : WF_vars(\E result \in Results : CallEnds(c, result))

FairSpec == Spec /\ Fairness

-----------------------------------------------------------------------------
TypeOK ==
    /\ state \in {"uninitialized", "idle"}
    /\ call \in [Calls -> {"none", "uninitialized", "sent", "unknownChannel", "cancelled"}
                          \cup Results]
    /\ handlers \subseteq Calls
    /\ uninitialized \in Seq(Ids) /\ IsInjective(uninitialized)
    /\ toServer \in Seq({Request(id) : id \in Ids} \cup {Dispose(id) : id \in Ids})
    /\ toClient \in Seq([type : {"Initialize", "PromiseSuccess", "PromiseError", "EventFire"},
                         id : Ids, data : Results \cup {"none", "unknownChannel"}])
    /\ pendingRequests \in Seq([id : Ids, timer : BOOLEAN])
    /\ activeRequests \subseteq Ids /\ missed \subseteq Ids
    /\ execution \in [Calls -> {"none", "running"} \cup Results]
    /\ token \subseteq Calls
    /\ subscriptions \in 0..MaxListens
    /\ listens \in 0..MaxListens /\ fires \in 0..MaxFires
    /\ registrations \in 0..MaxRegistrations /\ heard \in Nat
    /\ {listening, clientDisposed, registered, flushDue, serverDisposed} \subseteq BOOLEAN

\* a message about this id is on its way
OnItsWay(messages, id) == \E i \in DOMAIN messages : messages[i].id = id

\* Before it is sent nobody has heard of a call
UnsentHasNoTrace ==
    \A c \in Calls : call[c] \in {"none", "uninitialized"} =>
        /\ ~OnItsWay(toServer, c) /\ ~OnItsWay(toClient, c) /\ c \notin PendingIds
        /\ execution[c] = "none" /\ c \notin handlers

\* and it waits for Initialize in its place
UninitializedWaits ==
    /\ \A c \in Calls : call[c] = "uninitialized" <=> Contains(uninitialized, c)
    /\ Contains(uninitialized, EventId) => listening
    /\ state = "idle" => uninitialized = <<>>

AtMostOnce(seq, e) == \A i, j \in DOMAIN seq : seq[i] = e /\ seq[j] = e => i = j
InOrder(seq, e, f) == \A i, j \in DOMAIN seq : seq[i] = e /\ seq[j] = f => i < j

\* The request of a call is in one place, or the call was begun
RequestedOnce ==
    \A c \in Calls :
        /\ AtMostOnce(toServer, Request(c))
        /\ Contains(toServer, Request(c)) => c \notin PendingIds
        /\ Contains(toServer, Request(c)) \/ c \in PendingIds => execution[c] = "none"

\* An answer is what the call gave, or that its channel is unknown
AnswersAreTrue ==
    \A i \in DOMAIN toClient :
        IF toClient[i].type \in {"PromiseSuccess", "PromiseError"}
        THEN /\ toClient[i].id \in Calls
             /\ \/ toClient[i].data = "unknownChannel"
                \/ toClient[i].data \in Results /\ toClient[i].data = execution[toClient[i].id]
        ELSE toClient[i].id = EventId /\ toClient[i].data = "none"

\* an answer to a call will come
IsAwaited(c) ==
    \/ clientDisposed \/ serverDisposed
    \/ Contains(toServer, Request(c))
    \/ Contains(pendingRequests, [id |-> c, timer |-> TRUE])
    \/ execution[c] = "running"
    \/ OnItsWay(toClient, c)

\* A handler waits for an answer that will come: its request is on the way, waits
\* for the channel or runs, or the answer is on the way.  cancel() leaves the
\* handler, so calls that were cancelled must be answered too, or it stays.
HandlerIsAwaited == \A c \in handlers : IsAwaited(c)

\* A call that was cancelled and still runs knows it once the cancellation has
\* arrived, unless it arrived while the request waited for its channel.
CancelIsTold ==
    \A c \in Calls :
        (call[c] = "cancelled" /\ execution[c] = "running" /\ ~serverDisposed
            /\ ~OnItsWay(toServer, c) /\ c \notin missed)
        => c \in token

\* A cancellation follows its request, and finds it unless it waits for its channel
CancelFollows ==
    \A c \in Calls :
        /\ InOrder(toServer, Request(c), Dispose(c))
        /\ execution[c] = "running" /\ ~serverDisposed => c \in activeRequests \cup token
        /\ (/\ call[c] = "cancelled" /\ ~serverDisposed /\ c \notin token \cup missed
            /\ \/ Contains(toServer, Request(c)) \/ c \in PendingIds
               \/ execution[c] = "running")
           => Contains(toServer, Dispose(c))

\* With no message about the event on its way, the server listens to it if and
\* only if the client has a listener.
ListensTogether ==
    (state = "idle" /\ ~OnItsWay(toServer, EventId) /\ EventId \notin PendingIds
        /\ ~serverDisposed /\ ~clientDisposed)
    => /\ listening => EventId \in activeRequests
       /\ EventId \in missed \/ subscriptions = (IF listening THEN 1 ELSE 0)

\* A listener is called at most once each time the event fires.
HeardOnce == EventId \in missed \/ heard <= fires

\* However often the listener of an event is removed and added again, the server
\* has one subscription for it or none, as the client has, and no event is heard
\* twice.  A dispose that arrives while the request waits for its channel
\* leaves subscriptions behind, and is left out.
SubscriptionMatches == ListensTogether /\ HeardOnce

\* Every subscription comes from a listener that was added
SubscriptionsCounted ==
    /\ subscriptions + Count(Pending, EventId) + Count(toServer, Request(EventId))
          + Count(uninitialized, EventId) <= listens
    /\ EventId \in activeRequests => subscriptions > 0

IsEventMessage(messages, i) == i \in DOMAIN messages /\ messages[i].id = EventId
NoEventMessage(messages, i, j) == \A k \in i..j : ~IsEventMessage(messages, k)

\* Who listens, if before, sends messages that make the other side listen, if
\* after: EventListen and EventDispose take turns
TakeTurns(messages, before, after) ==
    /\ \A i \in DOMAIN messages :
          (IsEventMessage(messages, i) /\ NoEventMessage(messages, 1, i - 1))
          => (messages[i] = Request(EventId)) = ~before
    /\ \A i, j \in DOMAIN messages :
          (/\ i < j /\ IsEventMessage(messages, i) /\ IsEventMessage(messages, j)
           /\ NoEventMessage(messages, i + 1, j - 1))
          => (messages[i] = Request(EventId)) /= (messages[j] = Request(EventId))
    /\ \A i \in DOMAIN messages :
          (IsEventMessage(messages, i) /\ NoEventMessage(messages, i + 1, Len(messages)))
          => (messages[i] = Request(EventId)) = after
    /\ NoEventMessage(messages, 1, Len(messages)) => before = after

\* the client has asked for the event
Asked == listening /\ ~Contains(uninitialized, EventId)

\* the server has heard of it
Heard == EventId \in activeRequests \cup PendingIds

\* Listeners are announced in turn, and the server, which was told to listen or
\* not to, has at most one subscription
EventsTakeTurns ==
    /\ \E told \in BOOLEAN :
          /\ TakeTurns(toServer, told, Asked)
          /\ ~serverDisposed /\ told => Heard
          /\ ~serverDisposed /\ EventId \notin missed => told = Heard
    /\ EventId \notin missed =>
          /\ subscriptions = (IF EventId \in activeRequests THEN 1 ELSE 0)
          /\ EventId \in activeRequests => EventId \notin PendingIds
          /\ AtMostOnce(Pending, EventId)

\* and events are heard as often as they were sent
HeardAsSent ==
    EventId \notin missed =>
        heard + Count(toClient, Response("EventFire", EventId, "none")) <= fires

\* The inductive invariant
IInv ==
    /\ TypeOK /\ UnsentHasNoTrace /\ UninitializedWaits /\ RequestedOnce /\ AnswersAreTrue
    /\ HandlerIsAwaited /\ CancelFollows
    /\ SubscriptionsCounted /\ EventsTakeTurns /\ HeardAsSent

\* what the caller of a call knows
Caller == [c \in Calls |-> IF call[c] \in {"uninitialized", "sent"} THEN "waiting" ELSE call[c]]

Remote == INSTANCE RemoteCalls WITH Calls <- Calls, caller <- Caller, execution <- execution

\* Client and server implement remote calls: each runs at most once, and what it
\* returns is the result of its own run.
ImplementsRemoteCalls == Remote!Spec

\* Every call is settled, whenever it was made and whether or not its channel is
\* ever registered, as long as the server is there or the client is disposed.
EveryCallSettles ==
    \A c \in Calls : (call[c] \in {"uninitialized", "sent"}) ~> (Settled(c) \/ serverDisposed)

=============================================================================
