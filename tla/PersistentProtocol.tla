------------------------ MODULE PersistentProtocol ------------------------
(***************************************************************************)
(* The two PersistentProtocol objects of one remote connection, one in the *)
(* renderer ("client"), one in the server or in the remote extension host  *)
(* ("server"), over a succession of sockets.                               *)
(*                                                                         *)
(* A socket carries the frames of each direction in order and may break at *)
(* any time, losing what is in flight.  The client then dials a new socket *)
(* and both ends move to it (beginAcceptReconnection) and write again what *)
(* is unacknowledged (endAcceptReconnection).  The authentication that     *)
(* precedes this on the new socket is reduced to its last round trip: the  *)
(* client's ConnectionTypeRequest and the server's answer, both Control    *)
(* frames.  Time is left out: a timer is armed or not, and an armed timer  *)
(* may fire.  The clock arithmetic of the ack timeout is in AckTimeout.    *)
(***************************************************************************)
EXTENDS Naturals, Sequences

CONSTANTS
    Data,           \* payloads of Regular messages
    NoData,         \* the empty buffer every other frame carries
    IdSpace,        \* ids and acks are written as u32be: 2^32 in the code
    MaxSends,       \* bound: messages sent by each end
    MaxSockets,     \* bound: reconnection attempts; socket 0 is the first one
    MaxInFlight,    \* bound: frames in flight when a keep alive is added
    ConnectionTypes,\* what a connection may be for: the server process
                    \* (Management) or an extension host process
    Lossy,          \* a socket may drop a frame and stay up
    DataBeforeClose \* a socket delivers what it received before it fires close

ASSUME NoDataAssumption == NoData \notin Data
ASSUME BoundsAssumption ==
    /\ MaxSends \in Nat
    /\ MaxSockets \in Nat
    /\ MaxInFlight \in Nat
    /\ IdSpace \in Nat
    /\ MaxSends < IdSpace
ASSUME FlagsAssumption == {Lossy, DataBeforeClose} \subseteq BOOLEAN
ASSUME ConnectionTypesAssumption ==
    ConnectionTypes \subseteq {"Management", "ExtensionHost"}

VARIABLES
    \* the two PersistentProtocol objects
    isReconnecting, outgoingUnackMsg, outgoingMsgId, outgoingAckId,
    incomingMsgId, incomingAckId,
    incomingAckTimeout,   \* is the acknowledge timer armed?
    replayRequested,      \* was a replay request written less than 10s ago?
    writer,               \* frames buffered by the ProtocolWriter
    isPaused,             \* ProtocolWriter._isPaused
    socket,               \* the socket each object is attached to
    \* the sockets
    open, wire,           \* wire[k][e]: frames of end e in flight on socket k
    \* who connects whom
    connectionType,       \* of the connection, fixed when it is made
    phase,                \* where the client's PersistentConnection is
    closeFired,           \* the client saw the close event of its socket
    handOff,              \* sockets under way to the extension host process
    \* history
    sent, delivered

protocolVars == <<isReconnecting, outgoingUnackMsg, outgoingMsgId, outgoingAckId,
                  incomingMsgId, incomingAckId, incomingAckTimeout,
                  replayRequested>>
clientVars == <<phase, closeFired>>
vars == <<isReconnecting, outgoingUnackMsg, outgoingMsgId, outgoingAckId,
          incomingMsgId, incomingAckId, incomingAckTimeout, replayRequested,
          writer, isPaused, socket, open, wire, connectionType, phase,
          closeFired, handOff, sent, delivered>>

Ends == {"client", "server"}

Peer(e) == IF e = "client" THEN "server" ELSE "client"

Sockets == 0..MaxSockets

ProtocolMessageType ==
    {"Regular", "Control", "Ack", "ReplayRequest", "Pause", "Resume", "KeepAlive"}

ProtocolMessage ==
    [type : ProtocolMessageType, id : Nat, ack : Nat, data : Data \cup {NoData}]

Regular(id, ack, d) == [type |-> "Regular", id |-> id, ack |-> ack, data |-> d]

\* The other messages are not counted; only some of them carry an ack.
Uncounted(type, ack) == [type |-> type, id |-> 0, ack |-> ack, data |-> NoData]

\* Mutant of Encode: the two numbers change places in the header.
EncodeSwapped(msg) == [msg EXCEPT !.id = msg.ack % IdSpace, !.ack = msg.id % IdSpace]

\* The 13 byte header ProtocolWriter.write builds holds id and ack modulo 2^32.
Encode(msg) ==
    [type |-> msg.type, id |-> msg.id % IdSpace, ack |-> msg.ack % IdSpace,
     data |-> msg.data]

EncodeAll(msgs) == [i \in 1..Len(msgs) |-> Encode(msgs[i])]

\* ProtocolWriter.write for each of msgs: they are only buffered.
Write(e, msgs) == writer' = [writer EXCEPT ![e] = @ \o EncodeAll(msgs)]

Max2(a, b) == IF a >= b THEN a ELSE b

\* The loop of _receiveMessage that pops acknowledged messages: the queue
\* without its longest prefix of ids that are not above ack.
PopAcked(queue, ack) ==
    LET n == CHOOSE k \in 0..Len(queue) :
                /\ \A i \in 1..k : queue[i].id <= ack
                /\ k < Len(queue) => queue[k + 1].id > ack
    IN  SubSeq(queue, n + 1, Len(queue))

\* Mutants of AfterAck: the acknowledged messages stay; all messages go.
AfterAckKeepAll(e, ack) == outgoingUnackMsg[e]
AfterAckDropAll(e, ack) == IF ack > outgoingAckId[e] THEN <<>> ELSE outgoingUnackMsg[e]

\* outgoingUnackMsg after an incoming ack
AfterAck(e, ack) ==
    IF ack > outgoingAckId[e] THEN PopAcked(outgoingUnackMsg[e], ack)
                              ELSE outgoingUnackMsg[e]

Init ==
    /\ isReconnecting = [e \in Ends |-> FALSE]
    /\ outgoingUnackMsg = [e \in Ends |-> <<>>]
    /\ outgoingMsgId = [e \in Ends |-> 0]
    /\ outgoingAckId = [e \in Ends |-> 0]
    /\ incomingMsgId = [e \in Ends |-> 0]
    /\ incomingAckId = [e \in Ends |-> 0]
    /\ incomingAckTimeout = [e \in Ends |-> FALSE]
    /\ replayRequested = [e \in Ends |-> FALSE]
    /\ writer = [e \in Ends |-> <<>>]
    /\ isPaused = [e \in Ends |-> FALSE]
    /\ socket = [e \in Ends |-> 0]
    /\ open = [k \in Sockets |-> k = 0]
    /\ wire = [k \in Sockets |-> [e \in Ends |-> <<>>]]
    /\ connectionType \in ConnectionTypes
    /\ phase = "up"
    /\ closeFired = FALSE
    /\ handOff = {}
    /\ sent = [e \in Ends |-> <<>>]
    /\ delivered = [e \in Ends |-> <<>>]

-----------------------------------------------------------------------------
(* Sending                                                                 *)

\* Mutant of WrittenAtOnce: isReconnecting is not looked at.
WrittenAlways(e, msg) == <<msg>>

\* What send() writes: while reconnecting the message is only queued.
WrittenAtOnce(e, msg) == IF isReconnecting[e] THEN <<>> ELSE <<msg>>

\* send()
Send(e, d) ==
    LET msg == Regular(outgoingMsgId[e] + 1, incomingMsgId[e], d)
    IN  /\ outgoingMsgId[e] < MaxSends
        /\ outgoingMsgId' = [outgoingMsgId EXCEPT ![e] = @ + 1]
        /\ incomingAckId' = [incomingAckId EXCEPT ![e] = incomingMsgId[e]]
        /\ outgoingUnackMsg' = [outgoingUnackMsg EXCEPT ![e] = Append(@, msg)]
        /\ Write(e, WrittenAtOnce(e, msg))
        /\ sent' = [sent EXCEPT ![e] = Append(@, d)]
        /\ UNCHANGED <<isReconnecting, outgoingAckId, incomingMsgId,
                       incomingAckTimeout, replayRequested, isPaused, socket,
                       open, wire, connectionType, clientVars, handOff,
                       delivered>>

\* _writeNow(): the buffer goes to the socket; a closed socket drops it.
WriteNow(e) ==
    LET k == socket[e]
    IN  /\ writer[e] /= <<>>
        /\ ~isPaused[e]
        /\ writer' = [writer EXCEPT ![e] = <<>>]
        /\ wire' = IF open[k] THEN [wire EXCEPT ![k][e] = @ \o writer[e]] ELSE wire
        /\ UNCHANGED <<protocolVars, isPaused, socket, open, connectionType,
                       clientVars, handOff, sent, delivered>>

\* The acknowledge timer fires: _sendAckCheck(), which sends an Ack unless a
\* message or a keep alive carried the ack in the meantime.  Its third outcome,
\* arming the timer again because a message arrived less than 2s ago, is a
\* stuttering step here.
SendAckCheck(e) ==
    /\ incomingAckTimeout[e]
    /\ incomingAckTimeout' = [incomingAckTimeout EXCEPT ![e] = FALSE]
    /\ incomingAckId' = [incomingAckId EXCEPT ![e] = incomingMsgId[e]]
    /\ Write(e, IF incomingMsgId[e] <= incomingAckId[e] THEN <<>>
                ELSE <<Uncounted("Ack", incomingMsgId[e])>>)
    /\ UNCHANGED <<isReconnecting, outgoingUnackMsg, outgoingMsgId,
                   outgoingAckId, incomingMsgId, replayRequested, isPaused,
                   socket, open, wire, connectionType, clientVars, handOff,
                   sent, delivered>>

\* The keep alive interval, every 5s, reconnecting or not.
SendKeepAlive(e) ==
    /\ Len(writer[e]) + Len(wire[socket[e]][e]) < MaxInFlight
    /\ incomingAckId' = [incomingAckId EXCEPT ![e] = incomingMsgId[e]]
    /\ Write(e, <<Uncounted("KeepAlive", incomingMsgId[e])>>)
    /\ UNCHANGED <<isReconnecting, outgoingUnackMsg, outgoingMsgId,
                   outgoingAckId, incomingMsgId, incomingAckTimeout,
                   replayRequested, isPaused, socket, open, wire,
                   connectionType, clientVars, handOff, sent, delivered>>

\* Ten seconds have passed since the last replay request.
ReplayWindowElapses(e) ==
    /\ replayRequested[e]
    /\ replayRequested' = [replayRequested EXCEPT ![e] = FALSE]
    /\ UNCHANGED <<isReconnecting, outgoingUnackMsg, outgoingMsgId,
                   outgoingAckId, incomingMsgId, incomingAckId,
                   incomingAckTimeout, writer, isPaused, socket, open, wire,
                   connectionType, clientVars, handOff, sent, delivered>>

-----------------------------------------------------------------------------
(* Receiving: _receiveMessage, one action per case of its switch           *)

Incoming(e) == wire[socket[e]][Peer(e)]

\* msg, the next frame on the socket of end e, is read; its ack is handled first.
ReceiveMessage(e, msg) ==
    /\ wire' = [wire EXCEPT ![socket[e]][Peer(e)] = Tail(@)]
    /\ outgoingAckId' = [outgoingAckId EXCEPT ![e] = Max2(@, msg.ack)]
    /\ outgoingUnackMsg' = [outgoingUnackMsg EXCEPT ![e] = AfterAck(e, msg.ack)]
    /\ UNCHANGED <<outgoingMsgId, socket, open, connectionType, handOff, sent>>

\* Mutant of IsNext: a replayed message and one after a gap count as well.
IsNextUnchecked(e, msg) == TRUE

IsNext(e, msg) == msg.id = incomingMsgId[e] + 1

\* The next message in sequence: _sendAckCheck() arms the acknowledge timer
\* (the message has just arrived) and onMessage fires.
ReceiveNext(e, msg) ==
    /\ ReceiveMessage(e, msg)
    /\ msg.type = "Regular"
    /\ IsNext(e, msg)
    /\ incomingMsgId' = [incomingMsgId EXCEPT ![e] = msg.id]
    /\ incomingAckTimeout' =
          [incomingAckTimeout EXCEPT ![e] = @ \/ msg.id > incomingAckId[e]]
    /\ delivered' = [delivered EXCEPT ![e] = Append(@, msg.data)]
    /\ UNCHANGED <<isReconnecting, incomingAckId, replayRequested, writer,
                   isPaused, clientVars>>

\* A message after a gap is dropped; the other party is asked to send again, at
\* most once every 10s.
ReceiveAfterGap(e, msg) ==
    /\ ReceiveMessage(e, msg)
    /\ msg.type = "Regular"
    /\ msg.id > incomingMsgId[e] + 1
    /\ Write(e, IF replayRequested[e] THEN <<>>
                ELSE <<Uncounted("ReplayRequest", 0)>>)
    /\ replayRequested' = [replayRequested EXCEPT ![e] = TRUE]
    /\ UNCHANGED <<isReconnecting, incomingMsgId, incomingAckId,
                   incomingAckTimeout, isPaused, clientVars, delivered>>

\* A message that was received before (a replay), an Ack or a KeepAlive: only
\* the ack counts.
ReceiveNothingNew(e, msg) ==
    /\ ReceiveMessage(e, msg)
    /\ \/ msg.type \in {"Ack", "KeepAlive"}
       \/ msg.type = "Regular" /\ msg.id <= incomingMsgId[e]
    /\ UNCHANGED <<isReconnecting, incomingMsgId, incomingAckId,
                   incomingAckTimeout, replayRequested, writer, isPaused,
                   clientVars, delivered>>

\* Send again all unacknowledged messages.
ReceiveReplayRequest(e, msg) ==
    /\ ReceiveMessage(e, msg)
    /\ msg.type = "ReplayRequest"
    /\ Write(e, outgoingUnackMsg'[e])
    /\ UNCHANGED <<isReconnecting, incomingMsgId, incomingAckId,
                   incomingAckTimeout, replayRequested, isPaused, clientVars,
                   delivered>>

\* Pause and Resume of the other end's writer
ReceivePauseResume(e, msg) ==
    /\ ReceiveMessage(e, msg)
    /\ msg.type \in {"Pause", "Resume"}
    /\ isPaused' = [isPaused EXCEPT ![e] = msg.type = "Pause"]
    /\ UNCHANGED <<isReconnecting, incomingMsgId, incomingAckId,
                   incomingAckTimeout, replayRequested, writer, clientVars,
                   delivered>>

\* Mutants of ReplayAfterReconnection: nothing is sent again; no ack is sent.
ReplayOnlyAck(e, unacked) == <<Uncounted("Ack", incomingMsgId[e])>>
ReplayWithoutAck(e, unacked) == unacked

\* The frames endAcceptReconnection() writes
ReplayAfterReconnection(e, unacked) ==
    <<Uncounted("Ack", incomingMsgId[e])>> \o unacked

\* The client receives the answer to its ConnectionTypeRequest and ends the
\* reconnection there and then; the reconnection loop is left.
EndAcceptReconnection(msg) ==
    /\ ReceiveMessage("client", msg)
    /\ msg.type = "Control"
    /\ phase = "requested"
    /\ phase' = "up"
    /\ isReconnecting' = [isReconnecting EXCEPT !["client"] = FALSE]
    /\ incomingAckId' = [incomingAckId EXCEPT !["client"] = incomingMsgId["client"]]
    /\ Write("client", ReplayAfterReconnection("client", outgoingUnackMsg'["client"]))
    /\ UNCHANGED <<incomingMsgId, incomingAckTimeout, replayRequested, isPaused,
                   closeFired, delivered>>

\* An answer that comes after the attempt was given up finds no listener; the
\* next beginAcceptReconnection() flushes it.
ReceiveLateAnswer(msg) ==
    /\ ReceiveMessage("client", msg)
    /\ msg.type = "Control"
    /\ phase /= "requested"
    /\ UNCHANGED <<isReconnecting, incomingMsgId, incomingAckId,
                   incomingAckTimeout, replayRequested, writer, isPaused,
                   clientVars, delivered>>

Receive(e) ==
    /\ Incoming(e) /= <<>>
    /\ LET msg == Head(Incoming(e))
       IN  \/ ReceiveNext(e, msg)
           \/ ReceiveAfterGap(e, msg)
           \/ ReceiveNothingNew(e, msg)
           \/ ReceiveReplayRequest(e, msg)
           \/ ReceivePauseResume(e, msg)
           \/ e = "client" /\ (EndAcceptReconnection(msg) \/ ReceiveLateAnswer(msg))

-----------------------------------------------------------------------------
(* Sockets: the last one allowed is taken to be a good one                 *)

Prefixes(s) == {SubSeq(s, 1, n) : n \in 0..Len(s)}

\* Socket k breaks: any suffix of what is in flight is lost.
SocketBreaks(k) ==
    /\ k < MaxSockets
    /\ open[k]
    /\ open' = [open EXCEPT ![k] = FALSE]
    /\ \E c \in Prefixes(wire[k]["client"]), s \in Prefixes(wire[k]["server"]) :
          wire' = [wire EXCEPT ![k] = [e \in Ends |-> IF e = "client" THEN c ELSE s]]
    /\ UNCHANGED <<protocolVars, writer, isPaused, socket, connectionType,
                   clientVars, handOff, sent, delivered>>

\* A frame is lost on a socket that stays up.
LoseFrame(k, e) ==
    /\ Lossy
    /\ k < MaxSockets
    /\ wire[k][e] /= <<>>
    /\ wire' = [wire EXCEPT ![k][e] = Tail(@)]
    /\ UNCHANGED <<protocolVars, writer, isPaused, socket, open, connectionType,
                   clientVars, handOff, sent, delivered>>

-----------------------------------------------------------------------------
(* Reconnecting                                                            *)

\* onSocketClose at the client: _beginReconnecting(), which does nothing when
\* the loop is already running.
OnSocketClose ==
    /\ ~open[socket["client"]]
    /\ ~closeFired
    /\ DataBeforeClose => Incoming("client") = <<>>
    /\ closeFired' = TRUE
    /\ phase' = IF phase = "up" THEN "waiting" ELSE phase
    /\ UNCHANGED <<protocolVars, writer, isPaused, socket, open, wire,
                   connectionType, handOff, sent, delivered>>

\* onSocketTimeout at the client (see AckTimeout): _beginReconnecting().
OnSocketTimeout ==
    /\ phase = "up"
    /\ outgoingMsgId["client"] > outgoingAckId["client"]
    /\ socket["client"] < MaxSockets
    /\ phase' = "waiting"
    /\ UNCHANGED <<protocolVars, writer, isPaused, socket, open, wire,
                   connectionType, closeFired, handOff, sent, delivered>>

\* What becomes of the socket end e is attached to when e moves to another one:
\* the old writer is flushed (unless paused), the old socket is destroyed.
Abandon(e, w) ==
    LET k == socket[e]
        all == IF isPaused[e] \/ ~open[k] THEN w[k][e] ELSE w[k][e] \o writer[e]
    IN  {[w EXCEPT ![k] = [f \in Ends |-> IF f = e THEN p ELSE <<>>]] :
            p \in Prefixes(all)}

\* An attempt of the client's reconnection loop: a socket was created and
\* beginAcceptReconnection() attaches the protocol to it.
BeginAcceptReconnection ==
    LET k == socket["client"]
    IN  /\ phase = "waiting"
        /\ phase' = "begun"
        /\ k < MaxSockets
        /\ isReconnecting' = [isReconnecting EXCEPT !["client"] = TRUE]
        /\ replayRequested' = [replayRequested EXCEPT !["client"] = FALSE]
        /\ wire' \in Abandon("client", wire)
        /\ writer' = [writer EXCEPT !["client"] = <<>>]
        /\ isPaused' = [isPaused EXCEPT !["client"] = FALSE]
        /\ socket' = [socket EXCEPT !["client"] = k + 1]
        /\ open' = [open EXCEPT ![k] = FALSE, ![k + 1] = TRUE]
        /\ closeFired' = FALSE
        /\ UNCHANGED <<outgoingUnackMsg, outgoingMsgId, outgoingAckId,
                       incomingMsgId, incomingAckId, incomingAckTimeout,
                       connectionType, handOff, sent, delivered>>

\* The handshake reaches the ConnectionTypeRequest, a control message.
SendConnectionTypeRequest ==
    /\ phase = "begun"
    /\ phase' = "requested"
    /\ Write("client", <<Uncounted("Control", 0)>>)
    /\ UNCHANGED <<protocolVars, isPaused, socket, open, wire, connectionType,
                   closeFired, handOff, sent, delivered>>

\* The handshake fails or times out; the loop waits before the next attempt.
AttemptFails ==
    /\ phase \in {"begun", "requested"}
    /\ socket["client"] < MaxSockets
    /\ phase' = "waiting"
    /\ UNCHANGED <<protocolVars, writer, isPaused, socket, open, wire,
                   connectionType, closeFired, handOff, sent, delivered>>

\* On a socket that is not handed over yet a short-lived PersistentProtocol of
\* the server reads the handshake; what else it reads is gone.
HandshakeReads(k) ==
    /\ k /= socket["server"]
    /\ wire[k]["client"] /= <<>>
    /\ Head(wire[k]["client"]).type /= "Control" \/ k \in handOff
    /\ wire' = [wire EXCEPT ![k]["client"] = Tail(@)]
    /\ UNCHANGED <<protocolVars, writer, isPaused, socket, open, connectionType,
                   clientVars, handOff, sent, delivered>>

\* The server's protocol object moves to socket k.  rest is what follows the
\* request on k, of which n frames were read already (initialDataChunk): they
\* are processed before endAcceptReconnection(), which writes tail last.
ServerAccepts(k, w, rest, n, tail) ==
    LET acks == {rest[i].ack : i \in 1..n} \cup {outgoingAckId["server"]}
    IN  \E ack \in acks :
          /\ \A b \in acks : b <= ack
          /\ \A i \in 1..n : rest[i].type \in {"Ack", "KeepAlive"}
          /\ outgoingAckId' = [outgoingAckId EXCEPT !["server"] = ack]
          /\ outgoingUnackMsg' =
                [outgoingUnackMsg EXCEPT !["server"] = AfterAck("server", ack)]
          /\ incomingAckId' =
                [incomingAckId EXCEPT !["server"] = incomingMsgId["server"]]
          /\ replayRequested' = [replayRequested EXCEPT !["server"] = FALSE]
          /\ writer' = [writer EXCEPT !["server"] =
                EncodeAll(ReplayAfterReconnection("server", outgoingUnackMsg'["server"])
                          \o tail)]
          /\ isPaused' = [isPaused EXCEPT !["server"] = FALSE]
          /\ socket' = [socket EXCEPT !["server"] = k]
          /\ open' = [open EXCEPT ![socket["server"]] = FALSE]
          /\ \E w1 \in Abandon("server", w) :
                wire' = [w1 EXCEPT ![k]["client"] = SubSeq(rest, n + 1, Len(rest))]
          /\ UNCHANGED <<isReconnecting, outgoingMsgId, incomingMsgId,
                         incomingAckTimeout, connectionType, clientVars, sent,
                         delivered>>

\* The frames of the answer reach the socket unless it is closed.
Answer(k, frames) ==
    [wire EXCEPT ![k]["server"] = IF open[k] THEN @ \o frames ELSE @]

\* ManagementConnection: the answer and acceptReconnection() in one turn.
AcceptManagement(k) ==
    /\ connectionType = "Management"
    /\ k /= socket["server"]
    /\ wire[k]["client"] /= <<>>
    /\ Head(wire[k]["client"]).type = "Control"
    /\ \E n \in 0..(Len(wire[k]["client"]) - 1) :
          ServerAccepts(k, Answer(k, <<Uncounted("Control", 0)>>),
                        Tail(wire[k]["client"]), n, <<>>)
    /\ UNCHANGED handOff

\* Mutant of HandOffAnswer: the client is not told to stop writing.
HandOffAnswerWithoutPause == <<Uncounted("Control", 0)>>

HandOffAnswer == <<Uncounted("Pause", 0), Uncounted("Control", 0)>>

\* ExtensionHostConnection: the server tells the client to stop writing, answers,
\* and sends the socket to the extension host process.
SendSocketToExtensionHost(k) ==
    /\ connectionType = "ExtensionHost"
    /\ k /= socket["server"]
    /\ k \notin handOff
    /\ wire[k]["client"] /= <<>>
    /\ Head(wire[k]["client"]).type = "Control"
    /\ handOff' = handOff \cup {k}
    /\ wire' = [Answer(k, HandOffAnswer) EXCEPT ![k]["client"] = Tail(@)]
    /\ UNCHANGED <<protocolVars, writer, isPaused, socket, open, connectionType,
                   clientVars, sent, delivered>>

\* The extension host process receives a socket.  Draining the sockets before
\* they are sent may reorder them.
AcceptExtHost(k) ==
    /\ k \in handOff
    /\ handOff' = handOff \ {k}
    /\ ServerAccepts(k, wire, wire[k]["client"], 0, <<Uncounted("Resume", 0)>>)

-----------------------------------------------------------------------------
EndStep(e) ==
    \/ \E d \in Data : Send(e, d)
    \/ WriteNow(e)
    \/ SendAckCheck(e)
    \/ SendKeepAlive(e)
    \/ ReplayWindowElapses(e)
    \/ Receive(e)

ClientStep ==
    \/ OnSocketClose
    \/ OnSocketTimeout
    \/ BeginAcceptReconnection
    \/ SendConnectionTypeRequest
    \/ AttemptFails

SocketStep(k) ==
    \/ SocketBreaks(k)
    \/ \E e \in Ends : LoseFrame(k, e)
    \/ HandshakeReads(k)
    \/ AcceptManagement(k)
    \/ SendSocketToExtensionHost(k)
    \/ AcceptExtHost(k)

Next ==
    \/ \E e \in Ends : EndStep(e)
    \/ ClientStep
    \/ \E k \in Sockets : SocketStep(k)

Spec == Init /\ [][Next]_vars

\* Timers fire, the event loop hands over what a socket received and the close
\* of a socket, the reconnection loop makes its next attempt, and the server
\* answers.  Nothing makes a socket break, a frame get lost or the owner send.
Fairness ==
    /\ \A e \in Ends : /\ WF_vars(WriteNow(e))
                       /\ WF_vars(SendAckCheck(e))
                       /\ WF_vars(Receive(e))
                       /\ WF_vars(ReplayWindowElapses(e))
    /\ WF_vars(OnSocketClose)
    /\ WF_vars(OnSocketTimeout)
    /\ WF_vars(BeginAcceptReconnection)
    /\ WF_vars(SendConnectionTypeRequest)
    /\ WF_vars(AttemptFails)
    /\ \A k \in Sockets : /\ WF_vars(HandshakeReads(k))
                          /\ WF_vars(AcceptManagement(k))
                          /\ WF_vars(SendSocketToExtensionHost(k))
                          /\ WF_vars(AcceptExtHost(k))

FairSpec == Spec /\ Fairness

-----------------------------------------------------------------------------
(* Properties                                                              *)

\* Type correctness; the history variables agree with the counters.
TypeOK ==
    /\ isReconnecting \in [Ends -> BOOLEAN]
    /\ outgoingUnackMsg \in [Ends -> Seq(ProtocolMessage)]
    /\ outgoingMsgId \in [Ends -> 0..MaxSends]
    /\ outgoingAckId \in [Ends -> 0..MaxSends]
    /\ incomingMsgId \in [Ends -> 0..MaxSends]
    /\ incomingAckId \in [Ends -> 0..MaxSends]
    /\ incomingAckTimeout \in [Ends -> BOOLEAN]
    /\ replayRequested \in [Ends -> BOOLEAN]
    /\ writer \in [Ends -> Seq(ProtocolMessage)]
    /\ isPaused \in [Ends -> BOOLEAN]
    /\ socket \in [Ends -> Sockets]
    /\ open \in [Sockets -> BOOLEAN]
    /\ wire \in [Sockets -> [Ends -> Seq(ProtocolMessage)]]
    /\ connectionType \in ConnectionTypes
    /\ phase \in {"up", "waiting", "begun", "requested"}
    /\ closeFired \in BOOLEAN
    /\ handOff \subseteq Sockets
    /\ sent \in [Ends -> Seq(Data)]
    /\ delivered \in [Ends -> Seq(Data)]

\* The queue of unacknowledged messages holds exactly the messages after
\* outgoingAckId, in order: _recvAckCheck peeks at it without a check as soon as
\* outgoingMsgId > outgoingAckId, and unacknowledgedCount is their difference.
UnackQueueExact ==
    \A e \in Ends :
        /\ outgoingAckId[e] + Len(outgoingUnackMsg[e]) = outgoingMsgId[e]
        /\ \A i \in 1..Len(outgoingUnackMsg[e]) :
              outgoingUnackMsg[e][i].id = outgoingAckId[e] + i

\* No message is lost: whatever breaks, a message that was sent and not yet
\* received by the peer is still in the sender's queue, payload included, so
\* that a reconnection or a replay request can send it again.
UndeliveredIsKept ==
    \A e \in Ends : \A n \in (Len(delivered[Peer(e)]) + 1)..Len(sent[e]) :
        \E i \in 1..Len(outgoingUnackMsg[e]) :
            /\ outgoingUnackMsg[e][i].type = "Regular"
            /\ outgoingUnackMsg[e][i].id = n
            /\ outgoingUnackMsg[e][i].data = sent[e][n]

Channel == INSTANCE ReliableChannel
           WITH Data <- Data, MaxSends <- MaxSends, sent <- sent, delivered <- delivered

\* send() and onMessage of the two ends are a reliable channel: in order, once,
\* nothing else, through any sequence of breaks, failed attempts and replays.
ImplementsReliableChannel == Channel!Spec

\* Over sockets that lose nothing while they are up no receiver ever sees a gap:
\* what is written after a reconnection always starts early enough, and no
\* Regular message is written between beginAcceptReconnection() and the answer.
NoGapWithoutLoss ==
    ~Lossy =>
        /\ \A e \in Ends : \A i \in 1..Len(writer[e]) :
              writer[e][i].type /= "ReplayRequest"
        /\ \A k \in Sockets, e \in Ends : \A i \in 1..Len(wire[k][e]) :
              wire[k][e][i].type /= "ReplayRequest"

\* The server process drops what it reads while a socket is on its way to the
\* extension host process; the Pause sent before the answer keeps the client
\* from writing a Regular message then.
HandOffIsSilent ==
    ~Lossy => \A k \in handOff : \A i \in 1..Len(wire[k]["client"]) :
                 wire[k]["client"][i].type /= "Regular"

\* The bound on attempts is used up: the client's socket is closed and the
\* model allows no other one.
OutOfSockets == socket["client"] = MaxSockets /\ ~open[MaxSockets]

\* Every message that is sent is received in the end.
EventuallyDelivered ==
    \A e \in Ends, n \in 1..MaxSends :
        (Len(sent[e]) >= n) ~> (Len(delivered[Peer(e)]) >= n \/ OutOfSockets)

\* Every message that is sent is acknowledged in the end, so that the queue of
\* unacknowledged messages does not grow for ever.
EventuallyAcknowledged ==
    \A e \in Ends, n \in 1..MaxSends :
        (Len(sent[e]) >= n) ~> (outgoingAckId[e] >= n \/ OutOfSockets)

-----------------------------------------------------------------------------
(* The inductive invariant behind UndeliveredIsKept and the refinement      *)

\* What end e may have written: an ack for something it received, and Regular
\* messages with the payload that was sent under their id.
GoodFrame(e) ==
    {m \in ProtocolMessage :
        /\ m.ack <= incomingMsgId[e]
        /\ m.type = "Regular" => /\ m.id \in 1..outgoingMsgId[e]
                                 /\ m.data = sent[e][m.id]}

CountersAgree ==
    \A e \in Ends :
        /\ Len(sent[e]) = outgoingMsgId[e]
        /\ Len(delivered[e]) = incomingMsgId[e]
        /\ incomingMsgId[e] <= outgoingMsgId[Peer(e)]
        /\ outgoingAckId[e] <= incomingMsgId[Peer(e)]
        /\ incomingAckId[e] <= incomingMsgId[e]

DeliveredInOrder ==
    \A e \in Ends : \A i \in 1..Len(delivered[e]) :
        delivered[e][i] = sent[Peer(e)][i]

FramesAreGood ==
    \A e \in Ends :
        /\ writer[e] \in Seq(GoodFrame(e))
        /\ \A k \in Sockets : wire[k][e] \in Seq(GoodFrame(e))

UnackIsGood ==
    \A e \in Ends : \A i \in 1..Len(outgoingUnackMsg[e]) :
        /\ outgoingUnackMsg[e][i] \in GoodFrame(e)
        /\ outgoingUnackMsg[e][i].type = "Regular"

IInv ==
    /\ TypeOK
    /\ CountersAgree
    /\ UnackQueueExact
    /\ UnackIsGood
    /\ FramesAreGood
    /\ DeliveredInOrder

-----------------------------------------------------------------------------
(* The inductive invariant behind NoGapWithoutLoss and HandOffIsSilent      *)

Without(type, s) == \A i \in 1..Len(s) : s[i].type /= type

Holds(s, id) == \E i \in 1..Len(s) : s[i].type = "Regular" /\ s[i].id = id

\* A receiver that has seen n messages meets no gap in s: each message in s is
\* the next one, an old one, or comes after its predecessor.
GapFree(s, n) ==
    \A i \in 1..Len(s) :
        s[i].type = "Regular" /\ s[i].id > n + 1 =>
            \E j \in 1..(i - 1) : s[j].type = "Regular" /\ s[j].id = s[i].id - 1

\* What end e has written to the socket it is attached to, or will write there
Pipeline(e) == wire[socket[e]][e] \o writer[e]

\* The client is the first on every socket; a socket under way to the extension
\* host process is not the server's yet.
SocketsInOrder ==
    /\ socket["server"] <= socket["client"]
    /\ \A k \in handOff : k <= socket["client"] /\ k /= socket["server"]
    /\ connectionType = "Management" => handOff = {}
    /\ \A k \in Sockets, e \in Ends : k > socket["client"] => wire[k][e] = <<>>

\* The server is never between beginAcceptReconnection() and
\* endAcceptReconnection() at the end of a turn, and nobody saw a gap.
NobodyAsks ==
    /\ ~isReconnecting["server"]
    /\ \A e \in Ends : Without("ReplayRequest", writer[e])
    /\ \A k \in Sockets, e \in Ends : Without("ReplayRequest", wire[k][e])

\* The client writes no Regular message to an open socket the server's protocol
\* is not attached to: it is reconnecting or paused.
ClientIsSilent ==
    /\ \A k \in Sockets : k /= socket["server"] => Without("Regular", wire[k]["client"])
    /\ open[socket["client"]] /\ ~isPaused["client"] /\ socket["client"] /= socket["server"]
          => isReconnecting["client"] /\ Without("Regular", writer["client"])

\* An answer on an open socket that is not the server's yet is of a hand-off and
\* comes after its Pause; a Resume is only sent when the hand-off is over.
AnswersArePaused ==
    /\ Without("Control", writer["server"])
    /\ \A k \in Sockets : k /= socket["server"] /\ open[k] =>
          /\ Without("Resume", wire[k]["server"])
          /\ \A i \in 1..Len(wire[k]["server"]) :
                wire[k]["server"][i].type = "Control" =>
                    /\ k \in handOff
                    /\ \/ k = socket["client"] /\ isPaused["client"]
                       \/ \E j \in 1..(i - 1) : wire[k]["server"][j].type = "Pause"

\* What is in flight has no gap, and neither has what is going to be written;
\* unless e is reconnecting, its last message was received or is on its way.
PipelinesAreGapFree ==
    /\ \A k \in Sockets, e \in Ends : GapFree(wire[k][e], incomingMsgId[Peer(e)])
    /\ \A e \in Ends : open[socket[e]] =>
          /\ GapFree(Pipeline(e), incomingMsgId[Peer(e)])
          /\ ~isReconnecting[e] /\ outgoingMsgId[e] > incomingMsgId[Peer(e)]
                => Holds(Pipeline(e), outgoingMsgId[e])

LosslessInv ==
    /\ SocketsInOrder
    /\ NobodyAsks
    /\ ClientIsSilent
    /\ AnswersArePaused
    /\ PipelinesAreGapFree

=============================================================================
