---------------------------- MODULE AckTimeout ----------------------------
(***************************************************************************)
(* The clocks of PersistentProtocol.  Our end sends messages and watches   *)
(* for a dead connection (_recvAckCheck); the peer acknowledges what it    *)
(* receives with a delay (_sendAckCheck) and sends keep alives.            *)
(*                                                                         *)
(* Time passes in ticks.  A time stamp is kept as the time that has passed *)
(* since, up to the longest time the code compares it with, and a timer as *)
(* the ticks until it fires.  Timers fire on time and a live socket        *)
(* delivers within a tick: Tick waits for both.  Everything else happens   *)
(* at any time.  Message ids are relative to our outgoingAckId: message i  *)
(* is the i-th of the unacknowledged queue (PersistentProtocol shows that  *)
(* the queue holds exactly those), so no counter grows.                    *)
(***************************************************************************)
EXTENDS Integers, Sequences

CONSTANTS
    AcknowledgeTime,    \* ProtocolConstants: 2s
    KeepAliveSendTime,  \* 5s
    TimeoutTime,        \* 20s
    MinimumDelay,       \* 0.5s, the shortest time between two checks
    MaxUnacked,         \* bound: messages in the unacknowledged queue
    MayDispose,         \* the owner may dispose the protocol and go on sending
    ExtHost             \* the peer is an extension host: sockets are handed over

ASSUME TimesAssumption ==
    /\ AcknowledgeTime \in Nat \ {0}
    /\ KeepAliveSendTime \in Nat
    /\ TimeoutTime \in Nat
    /\ MinimumDelay \in Nat \ {0}
    /\ AcknowledgeTime < KeepAliveSendTime
    /\ KeepAliveSendTime < TimeoutTime
    /\ MinimumDelay <= TimeoutTime
ASSUME MaxUnackedAssumption == MaxUnacked \in Nat
ASSUME FlagsAssumption == {MayDispose, ExtHost} \subseteq BOOLEAN

VARIABLES
    \* our end
    outgoingUnackMsg,   \* the age of each message since writtenTime, and
                        \* whether it ever left for a socket
    sinceRead,          \* ProtocolReader.lastReadTime
    sinceTimeout,       \* _lastSocketTimeoutTime
    outgoingAckTimeout, \* timer of _recvAckCheck
    isReconnecting, isPaused, isDisposed,
    timedOut,           \* onSocketTimeout fired on this socket
    \* the peer
    incomingMsgId, incomingAckId,
    sinceMsg,           \* _incomingMsgLastTime
    incomingAckTimeout, \* timer of _sendAckCheck
    keepAliveInterval,
    waiting,            \* how long the oldest received message waits for its ack
    \* the socket
    dead, toUs          \* toUs: the acks of the peer's frames in flight

ourVars == <<outgoingUnackMsg, sinceRead, sinceTimeout, outgoingAckTimeout,
             isReconnecting, isPaused, isDisposed, timedOut>>
timerVars == <<sinceMsg, incomingAckTimeout, keepAliveInterval>>
peerVars == <<incomingMsgId, incomingAckId, sinceMsg, incomingAckTimeout,
              keepAliveInterval, waiting>>
vars == <<outgoingUnackMsg, sinceRead, sinceTimeout, outgoingAckTimeout,
          isReconnecting, isPaused, isDisposed, timedOut, incomingMsgId,
          incomingAckId, sinceMsg, incomingAckTimeout, keepAliveInterval,
          waiting, dead, toUs>>

Off == -1   \* a timer that is not armed

\* writtenTime is 0 until the message is written: long ago for every comparison
NeverWritten == TimeoutTime

Max2(a, b) == IF a >= b THEN a ELSE b

\* one tick later: a time that is only told apart up to limit; a timer
Later(t, limit) == IF t < limit THEN t + 1 ELSE t
Sooner(timer) == IF timer = Off THEN Off ELSE timer - 1

Init ==
    /\ outgoingUnackMsg = <<>>
    /\ sinceRead = 0
    /\ sinceTimeout = 0
    /\ outgoingAckTimeout = Off
    /\ isReconnecting = FALSE
    /\ isPaused = FALSE
    /\ isDisposed = FALSE
    /\ timedOut = FALSE
    /\ incomingMsgId = 0
    /\ incomingAckId = 0
    /\ sinceMsg = 0
    /\ incomingAckTimeout = Off
    /\ keepAliveInterval = KeepAliveSendTime
    /\ waiting = 0
    /\ dead = FALSE
    /\ toUs = <<>>

-----------------------------------------------------------------------------
(* Our end                                                                 *)

\* Mutant of MinimumTimeUntilTimeout: a full timeout from now on.
MinimumTimeUntilTimeoutFull(age, read, timeout) == TimeoutTime

MinimumTimeUntilTimeout(age, read, timeout) ==
    Max2(Max2(TimeoutTime - age, TimeoutTime - read),
         Max2(TimeoutTime - timeout, MinimumDelay))

HasTimedOut(age, read, timeout) ==
    age >= TimeoutTime /\ read >= TimeoutTime /\ timeout >= TimeoutTime

\* _recvAckCheck(), called last, with timer the state of its timer.  A high load
\* of the event loop, which may be the reason for reading nothing, puts it off.
RecvAckCheck(timer) ==
    LET age == outgoingUnackMsg'[1].age
        check == outgoingUnackMsg' /= <<>> /\ timer = Off /\ ~isReconnecting'
    IN  \E hasHighLoad \in BOOLEAN :
        LET fires == check /\ HasTimedOut(age, sinceRead', sinceTimeout) /\ ~hasHighLoad
        IN  /\ outgoingAckTimeout' =
                  IF check /\ ~fires
                  THEN MinimumTimeUntilTimeout(age, sinceRead', sinceTimeout)
                  ELSE timer
            /\ timedOut' = (timedOut \/ fires)
            /\ sinceTimeout' = IF fires THEN 0 ELSE sinceTimeout

\* What ProtocolWriter.write makes of msg: a disposed writer ignores it, a paused
\* one takes the time and keeps it in its buffer.
Written(msg, paused) ==
    IF isDisposed THEN msg ELSE [age |-> 0, wired |-> msg.wired \/ ~paused]

WriteAll(paused) ==
    outgoingUnackMsg' =
        [i \in 1..Len(outgoingUnackMsg) |-> Written(outgoingUnackMsg[i], paused)]

\* send()
Send ==
    LET msg == [age |-> NeverWritten, wired |-> FALSE]
    IN  /\ Len(outgoingUnackMsg) < MaxUnacked
        /\ outgoingUnackMsg' = Append(outgoingUnackMsg,
              IF isReconnecting THEN msg ELSE Written(msg, isPaused))
        /\ UNCHANGED <<isReconnecting, isPaused, isDisposed, sinceRead>>
        /\ IF isReconnecting
           THEN UNCHANGED <<outgoingAckTimeout, timedOut, sinceTimeout>>
           ELSE RecvAckCheck(outgoingAckTimeout)
        /\ UNCHANGED <<peerVars, dead, toUs>>

\* The timer of _recvAckCheck fires.
OutgoingAckTimeout ==
    /\ outgoingAckTimeout = 0
    /\ UNCHANGED <<outgoingUnackMsg, isReconnecting, isPaused, isDisposed, sinceRead>>
    /\ RecvAckCheck(Off)
    /\ UNCHANGED <<peerVars, dead, toUs>>

\* A frame of the peer is read: its ack pops what it acknowledges.
ReceiveMessage ==
    /\ toUs /= <<>>
    /\ LET n == Head(toUs)
       IN  /\ outgoingUnackMsg' = SubSeq(outgoingUnackMsg, n + 1, Len(outgoingUnackMsg))
           /\ incomingMsgId' = incomingMsgId - n
           /\ incomingAckId' = incomingAckId - n
           /\ toUs' = [i \in 1..(Len(toUs) - 1) |-> Max2(toUs[i + 1] - n, 0)]
    /\ sinceRead' = 0
    /\ UNCHANGED <<sinceTimeout, outgoingAckTimeout, isReconnecting, isPaused,
                   isDisposed, timedOut, timerVars, waiting, dead>>

\* beginAcceptReconnection(): a new socket, reader and writer
BeginAcceptReconnection ==
    /\ isReconnecting' = TRUE
    /\ isPaused' = FALSE
    /\ isDisposed' = FALSE
    /\ sinceTimeout' = 0
    /\ sinceRead' = 0
    /\ timedOut' = FALSE
    /\ dead' = FALSE
    /\ toUs' = <<>>
    /\ UNCHANGED <<outgoingUnackMsg, outgoingAckTimeout, peerVars>>

\* The peer's endAcceptReconnection() acknowledges all it received.
PeerEndAcceptReconnection ==
    /\ incomingAckId' = incomingMsgId
    /\ waiting' = 0
    /\ toUs' = <<incomingMsgId>>
    /\ UNCHANGED <<incomingMsgId, timerVars>>

RecvAckCheckAtEnd == RecvAckCheck(outgoingAckTimeout)

\* The server's answer is read and endAcceptReconnection() writes all again.  In
\* the answer of an extension host connection a Pause comes first, and the peer
\* is on the socket only once the hand-off is done.
EndAcceptReconnection ==
    /\ isReconnecting
    /\ ~dead
    /\ ~isDisposed
    /\ isReconnecting' = FALSE
    /\ isPaused' = ExtHost
    /\ sinceRead' = 0
    /\ WriteAll(isPaused')
    /\ RecvAckCheckAtEnd
    /\ IF ExtHost THEN UNCHANGED <<peerVars, toUs>> ELSE PeerEndAcceptReconnection
    /\ UNCHANGED <<isDisposed, dead>>

\* The extension host has the socket: its replay ends with a Resume, and our
\* writer lets go of what it buffered.
ReceiveResume ==
    /\ isPaused
    /\ ~dead
    /\ ~isDisposed
    /\ isPaused' = FALSE
    /\ sinceRead' = 0
    /\ outgoingUnackMsg' = [i \in 1..Len(outgoingUnackMsg) |->
                               [age |-> outgoingUnackMsg[i].age, wired |-> TRUE]]
    /\ PeerEndAcceptReconnection
    /\ UNCHANGED <<sinceTimeout, outgoingAckTimeout, isReconnecting, isDisposed,
                   timedOut, dead>>

\* dispose()
Dispose ==
    /\ MayDispose
    /\ ~isDisposed
    /\ isDisposed' = TRUE
    /\ outgoingAckTimeout' = Off
    /\ toUs' = <<>>
    /\ UNCHANGED <<outgoingUnackMsg, sinceRead, sinceTimeout, isReconnecting,
                   isPaused, timedOut, peerVars, dead>>

-----------------------------------------------------------------------------
(* The peer                                                                *)

\* Both ends are on the same live socket.
Connected == ~dead /\ ~isReconnecting /\ ~isPaused

\* The peer writes a frame that acknowledges everything received.
PeerWrites ==
    /\ incomingAckId' = incomingMsgId
    /\ waiting' = 0
    /\ toUs' = IF Connected /\ ~isDisposed THEN Append(toUs, incomingMsgId) ELSE toUs

InFlight ==
    /\ Connected
    /\ incomingMsgId < Len(outgoingUnackMsg)
    /\ outgoingUnackMsg[incomingMsgId + 1].wired

\* The next message arrives: _sendAckCheck() arms its timer.
PeerReceives ==
    /\ InFlight
    /\ incomingMsgId' = incomingMsgId + 1
    /\ sinceMsg' = 0
    /\ incomingAckTimeout' =
          IF incomingAckTimeout = Off THEN AcknowledgeTime ELSE incomingAckTimeout
    /\ UNCHANGED <<ourVars, incomingAckId, keepAliveInterval, waiting, dead, toUs>>

\* The timer of _sendAckCheck fires.  (The 5ms added to it are less than a tick.)
SendAckCheck ==
    /\ incomingAckTimeout = 0
    /\ \/ /\ incomingMsgId <= incomingAckId
          /\ incomingAckTimeout' = Off
          /\ UNCHANGED <<incomingAckId, waiting, toUs>>
       \/ /\ incomingMsgId > incomingAckId
          /\ sinceMsg >= AcknowledgeTime
          /\ incomingAckTimeout' = Off
          /\ PeerWrites
       \/ /\ incomingMsgId > incomingAckId
          /\ sinceMsg < AcknowledgeTime
          /\ incomingAckTimeout' = AcknowledgeTime - sinceMsg
          /\ UNCHANGED <<incomingAckId, waiting, toUs>>
    /\ UNCHANGED <<ourVars, incomingMsgId, sinceMsg, keepAliveInterval, dead>>

\* Mutants of SendKeepAlive: it carries no ack; it is not written.
SendKeepAliveWithoutAck ==
    /\ keepAliveInterval = 0
    /\ keepAliveInterval' = KeepAliveSendTime
    /\ toUs' = IF Connected /\ ~isDisposed THEN Append(toUs, 0) ELSE toUs
    /\ UNCHANGED <<ourVars, incomingMsgId, incomingAckId, sinceMsg,
                   incomingAckTimeout, waiting, dead>>
SendKeepAliveNotWritten ==
    /\ keepAliveInterval = 0
    /\ keepAliveInterval' = KeepAliveSendTime
    /\ UNCHANGED <<ourVars, incomingMsgId, incomingAckId, sinceMsg,
                   incomingAckTimeout, waiting, dead, toUs>>

\* _sendKeepAlive()
SendKeepAlive ==
    /\ keepAliveInterval = 0
    /\ keepAliveInterval' = KeepAliveSendTime
    /\ PeerWrites
    /\ UNCHANGED <<ourVars, incomingMsgId, sinceMsg, incomingAckTimeout, dead>>

\* The peer has something to send itself; the message carries the ack.
PeerSends ==
    /\ toUs = <<>>
    /\ PeerWrites
    /\ UNCHANGED <<ourVars, incomingMsgId, timerVars, dead>>

-----------------------------------------------------------------------------
(* The world                                                               *)

\* The network is gone; nobody is told.  What is in flight is lost.
SocketDies ==
    /\ ~dead
    /\ dead' = TRUE
    /\ toUs' = <<>>
    /\ UNCHANGED <<ourVars, peerVars>>

Tick ==
    /\ outgoingAckTimeout /= 0
    /\ incomingAckTimeout /= 0
    /\ keepAliveInterval /= 0
    /\ toUs = <<>>
    /\ ~InFlight
    /\ outgoingUnackMsg' =
          [i \in 1..Len(outgoingUnackMsg) |->
              [outgoingUnackMsg[i] EXCEPT !.age = Later(@, TimeoutTime)]]
    /\ sinceRead' = Later(sinceRead, TimeoutTime)
    /\ sinceTimeout' = Later(sinceTimeout, TimeoutTime)
    /\ outgoingAckTimeout' = Sooner(outgoingAckTimeout)
    /\ sinceMsg' = Later(sinceMsg, AcknowledgeTime)
    /\ incomingAckTimeout' = Sooner(incomingAckTimeout)
    /\ keepAliveInterval' = keepAliveInterval - 1
    /\ waiting' = IF incomingAckId < incomingMsgId
                  THEN Later(waiting, KeepAliveSendTime + 1) ELSE waiting
    /\ UNCHANGED <<isReconnecting, isPaused, isDisposed, timedOut, incomingMsgId,
                   incomingAckId, dead, toUs>>

Next ==
    \/ Send
    \/ OutgoingAckTimeout
    \/ ReceiveMessage
    \/ BeginAcceptReconnection
    \/ EndAcceptReconnection
    \/ ReceiveResume
    \/ Dispose
    \/ PeerReceives
    \/ SendAckCheck
    \/ SendKeepAlive
    \/ PeerSends
    \/ SocketDies
    \/ Tick

Spec == Init /\ [][Next]_vars

-----------------------------------------------------------------------------
(* Properties                                                              *)

Message == [age : 0..TimeoutTime, wired : BOOLEAN]

\* Type correctness.
TypeOK ==
    /\ outgoingUnackMsg \in Seq(Message)
    /\ sinceRead \in 0..TimeoutTime
    /\ sinceTimeout \in 0..TimeoutTime
    /\ outgoingAckTimeout \in {Off} \cup 0..TimeoutTime
    /\ isReconnecting \in BOOLEAN
    /\ isPaused \in BOOLEAN
    /\ isDisposed \in BOOLEAN
    /\ timedOut \in BOOLEAN
    /\ dead \in BOOLEAN
    /\ incomingMsgId \in 0..Len(outgoingUnackMsg)
    /\ incomingAckId \in 0..incomingMsgId
    /\ sinceMsg \in 0..AcknowledgeTime
    /\ incomingAckTimeout \in {Off} \cup 0..AcknowledgeTime
    /\ keepAliveInterval \in 0..KeepAliveSendTime
    /\ waiting \in 0..(KeepAliveSendTime + 1)
    /\ toUs \in Seq(0..incomingAckId)

\* A dead connection does not go unnoticed: as long as a message is unacknowledged
\* outside of a reconnection, either the timeout has fired or the next check is
\* not later than the moment it could fire at the earliest, plus the shortest
\* delay.  No order of sends, acks, timers and reconnections loses the timer.
WatchdogInTime ==
    outgoingUnackMsg /= <<>> /\ ~isReconnecting /\ ~isDisposed /\ ~timedOut =>
        /\ outgoingAckTimeout /= Off
        /\ \/ outgoingAckTimeout <= TimeoutTime - outgoingUnackMsg[1].age
           \/ outgoingAckTimeout <= TimeoutTime - sinceRead
           \/ outgoingAckTimeout <= TimeoutTime - sinceTimeout
           \/ outgoingAckTimeout <= MinimumDelay

\* onSocketTimeout fires in this step.
TimeoutFires == sinceTimeout > 0 /\ sinceTimeout' = 0 /\ timedOut'

\* A connection that works is never trashed: the timeout only fires when the
\* socket is dead, when its hand-off to the extension host takes too long, or
\* when the protocol was disposed and reads no longer.
NoSpuriousTimeout ==
    [][TimeoutFires => dead \/ isPaused \/ isDisposed]_vars

\* Every received message is acknowledged by the next keep alive at the latest,
\* whatever the acknowledge timer does.
AcknowledgedByKeepAlive == waiting <= KeepAliveSendTime

-----------------------------------------------------------------------------
(* The inductive invariant                                                 *)

\* A message that waits for its ack has waited since the last keep alive at most.
WaitsSinceKeepAlive ==
    /\ incomingAckId = incomingMsgId => waiting = 0
    /\ waiting + keepAliveInterval <= KeepAliveSendTime

\* On a connection that works the last read is no older than the peer's last
\* keep alive, which is read at the next tick at the latest.
ReadsKeepAlives ==
    Connected /\ ~isDisposed =>
        /\ sinceRead <= KeepAliveSendTime
        /\ toUs = <<>> => sinceRead + keepAliveInterval <= KeepAliveSendTime

IInv == TypeOK /\ WatchdogInTime /\ WaitsSinceKeepAlive /\ ReadsKeepAlives

=============================================================================
