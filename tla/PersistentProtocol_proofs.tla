--------------------- MODULE PersistentProtocol_proofs ---------------------
(***************************************************************************)
(* Proofs about PersistentProtocol for every value of its constants: the   *)
(* inductive invariant IInv, the safety invariants that follow from it, and *)
(* that the two ends implement ReliableChannel.                            *)
(***************************************************************************)
EXTENDS PersistentProtocol, SequenceTheorems, TLAPS

\* A wire that only holds what its ends may have written.
GoodWires(w) ==
    /\ w \in [Sockets -> [Ends -> Seq(ProtocolMessage)]]
    /\ \A k \in Sockets, e \in Ends : w[k][e] \in Seq(GoodFrame(e))

\* The same for the buffers of the writers.
GoodWriters(b) ==
    /\ b \in [Ends -> Seq(ProtocolMessage)]
    /\ \A e \in Ends : b[e] \in Seq(GoodFrame(e))

\* The queues q of unacknowledged messages are exact for the acks a.
GoodAcks(a, q) ==
    /\ a \in [Ends -> 0..MaxSends]
    /\ q \in [Ends -> Seq(ProtocolMessage)]
    /\ \A e \in Ends :
          /\ a[e] <= incomingMsgId[Peer(e)]
          /\ a[e] + Len(q[e]) = outgoingMsgId[e]
          /\ \A i \in 1..Len(q[e]) : /\ q[e][i].id = a[e] + i
                                     /\ q[e][i] \in GoodFrame(e)
                                     /\ q[e][i].type = "Regular"

\* The variables that only their type says something about.
PlainOK ==
    /\ isReconnecting \in [Ends -> BOOLEAN]
    /\ incomingAckTimeout \in [Ends -> BOOLEAN]
    /\ replayRequested \in [Ends -> BOOLEAN]
    /\ isPaused \in [Ends -> BOOLEAN]
    /\ socket \in [Ends -> Sockets]
    /\ open \in [Sockets -> BOOLEAN]
    /\ connectionType \in ConnectionTypes
    /\ phase \in {"up", "waiting", "begun", "requested"}
    /\ closeFired \in BOOLEAN
    /\ handOff \subseteq Sockets

-----------------------------------------------------------------------------
(* Frames and encoding                                                     *)

\* The identifiers fit their 32 bits, so ProtocolWriter.write encodes a good
\* frame as a good frame.
LEMMA EncodeGood ==
    ASSUME IInv, NEW e \in Ends, NEW m \in GoodFrame(e)
    PROVE  Encode(m) \in GoodFrame(e)
<1>1. /\ m \in ProtocolMessage
      /\ m.ack <= incomingMsgId[e]
      /\ incomingMsgId[e] \in 0..MaxSends
      /\ outgoingMsgId[e] \in 0..MaxSends
  BY DEF IInv, TypeOK, GoodFrame
<1>2. m.ack \in Nat /\ m.id \in Nat
  BY <1>1 DEF ProtocolMessage
<1>3. m.ack % IdSpace = m.ack
  BY <1>1, <1>2, BoundsAssumption
<1>4. m.id % IdSpace \in Nat
  BY <1>2, BoundsAssumption
<1>5. m.type = "Regular" => m.id % IdSpace = m.id
  BY <1>1, <1>2, BoundsAssumption DEF GoodFrame
<1>6. Encode(m) = [type |-> m.type, id |-> m.id % IdSpace, ack |-> m.ack, data |-> m.data]
  BY <1>1, <1>3 DEF Encode, ProtocolMessage
<1> QED
  BY <1>1, <1>2, <1>4, <1>5, <1>6 DEF GoodFrame, ProtocolMessage

\* The same for a sequence of frames, and for the buffer they are written to.
LEMMA WriteGood ==
    ASSUME IInv, NEW e \in Ends, NEW msgs \in Seq(GoodFrame(e))
    PROVE  /\ EncodeAll(msgs) \in Seq(GoodFrame(e))
           /\ writer[e] \o EncodeAll(msgs) \in Seq(GoodFrame(e))
<1>1. \A i \in 1..Len(msgs) : Encode(msgs[i]) \in GoodFrame(e)
  BY EncodeGood, ElementOfSeq
<1>2. Len(msgs) \in Nat
  BY LenProperties
<1>3. EncodeAll(msgs) \in Seq(GoodFrame(e))
  BY <1>1, <1>2 DEF EncodeAll
<1>4. writer[e] \in Seq(GoodFrame(e))
  BY DEF IInv, FramesAreGood
<1> QED
  BY <1>3, <1>4, ConcatProperties

\* A frame that is not counted is good when its ack is.
LEMMA UncountedGood ==
    ASSUME NEW e \in Ends, NEW type \in ProtocolMessageType \ {"Regular"},
           NEW ack \in Nat, ack <= incomingMsgId[e]
    PROVE  Uncounted(type, ack) \in GoodFrame(e)
  BY DEF Uncounted, GoodFrame, ProtocolMessage

\* What was good stays good while an end sends and receives more.
LEMMA GoodFrameGrows ==
    ASSUME NEW e \in Ends,
           incomingMsgId[e] \in Nat, incomingMsgId'[e] \in Nat,
           outgoingMsgId[e] \in Nat, outgoingMsgId'[e] \in Nat,
           incomingMsgId[e] <= incomingMsgId'[e],
           outgoingMsgId[e] <= outgoingMsgId'[e],
           \A i \in 1..outgoingMsgId[e] : sent'[e][i] = sent[e][i]
    PROVE  GoodFrame(e) \subseteq GoodFrame(e)'
  BY DEF GoodFrame, ProtocolMessage

-----------------------------------------------------------------------------
(* Acknowledgements                                                        *)

\* In a queue of consecutive ids the loop pops one message per id up to ack.
LEMMA PopAckedIsSubSeq ==
    ASSUME NEW S, NEW queue \in Seq(S), NEW base \in Nat, NEW ack \in Nat,
           base <= ack, ack <= base + Len(queue),
           \A i \in 1..Len(queue) : queue[i].id = base + i
    PROVE  PopAcked(queue, ack) = SubSeq(queue, ack - base + 1, Len(queue))
<1> DEFINE P(k) == /\ \A i \in 1..k : queue[i].id <= ack
                   /\ k < Len(queue) => queue[k + 1].id > ack
<1>0. Len(queue) \in Nat
  BY LenProperties
<1>1. ack - base \in 0..Len(queue) /\ P(ack - base)
  <2>1. ack - base \in 0..Len(queue)
    BY <1>0
  <2>2. ASSUME NEW i \in 1..(ack - base)
        PROVE  queue[i].id <= ack
    <3>1. i \in 1..Len(queue)
      BY <1>0, <2>1
    <3> QED
      BY <3>1
  <2>3. ASSUME ack - base < Len(queue)
        PROVE  queue[ack - base + 1].id > ack
    <3>1. ack - base + 1 \in 1..Len(queue)
      BY <1>0, <2>1, <2>3
    <3> QED
      BY <3>1
  <2> QED
    BY <2>1, <2>2, <2>3
<1>2. ASSUME NEW k \in 0..Len(queue), P(k)
      PROVE  k = ack - base
  <2>1. k <= ack - base
    BY <1>0, <1>2
  <2>2. ack - base <= k
    BY <1>0, <1>2
  <2> QED
    BY <2>1, <2>2
<1> DEFINE n == CHOOSE k \in 0..Len(queue) : P(k)
<1>3. n \in 0..Len(queue) /\ P(n)
  BY <1>1
<1> HIDE DEF P
<1>4. n = ack - base
  BY <1>2, <1>3
<1>5. PopAcked(queue, ack) = SubSeq(queue, n + 1, Len(queue))
  BY DEF PopAcked, P
<1> QED
  BY <1>4, <1>5

\* An ack for something the peer has received keeps the queue of
\* unacknowledged messages exact.
LEMMA AckHandled ==
    ASSUME IInv, NEW e \in Ends, NEW ack \in Nat, ack <= incomingMsgId[Peer(e)]
    PROVE  LET a == Max2(outgoingAckId[e], ack)
               q == AfterAck(e, ack)
           IN  /\ a \in 0..MaxSends
               /\ a <= incomingMsgId[Peer(e)]
               /\ q \in Seq(GoodFrame(e))
               /\ q \in Seq(ProtocolMessage)
               /\ a + Len(q) = outgoingMsgId[e]
               /\ \A i \in 1..Len(q) : /\ q[i].id = a + i
                                       /\ q[i].type = "Regular"
<1> DEFINE a == Max2(outgoingAckId[e], ack)
           q == AfterAck(e, ack)
           old == outgoingUnackMsg[e]
           base == outgoingAckId[e]
<1>1. /\ Peer(e) \in Ends
      /\ old \in Seq(ProtocolMessage)
      /\ base \in 0..MaxSends
      /\ outgoingMsgId[e] \in 0..MaxSends
      /\ incomingMsgId[Peer(e)] \in 0..MaxSends
      /\ base + Len(old) = outgoingMsgId[e]
      /\ base <= incomingMsgId[Peer(e)]
      /\ incomingMsgId[Peer(e)] <= outgoingMsgId[e]
      /\ \A i \in 1..Len(old) : /\ old[i].id = base + i
                                /\ old[i] \in GoodFrame(e)
                                /\ old[i].type = "Regular"
  BY DEF IInv, TypeOK, CountersAgree, UnackQueueExact, UnackIsGood, Ends, Peer
<1>2. Len(old) \in Nat
  BY <1>1, LenProperties
<1>3. a \in base..outgoingMsgId[e] /\ a \in Nat /\ a <= incomingMsgId[Peer(e)]
  BY <1>1, BoundsAssumption DEF Max2
<1>4. q = SubSeq(old, a - base + 1, Len(old))
  <2>1. CASE ack > base
    <3>1. a = ack
      BY <2>1, <1>1 DEF Max2
    <3>2. ack <= base + Len(old) /\ base <= ack /\ base \in Nat
      BY <2>1, <1>1, <1>2
    <3>3. PopAcked(old, ack) = SubSeq(old, ack - base + 1, Len(old))
      <4> HIDE DEF old, base
      <4> QED
        BY <3>2, <1>1, PopAckedIsSubSeq
    <3> QED
      BY <2>1, <3>1, <3>3 DEF AfterAck
  <2>2. CASE ~(ack > base)
    <3>1. a = base
      BY <2>2, <1>1 DEF Max2
    <3>2. q = old
      BY <2>2 DEF AfterAck
    <3>3. SubSeq(old, 1, Len(old)) = old
      BY <1>1, SubSeqFull
    <3> QED
      BY <3>1, <3>2, <3>3, <1>1
  <2> QED
    BY <2>1, <2>2
<1> DEFINE m == a - base + 1
<1>5. m \in Int /\ Len(old) \in Int /\ m >= 1
  BY <1>1, <1>2, <1>3
<1>6. \A i \in m..Len(old) : old[i] \in GoodFrame(e)
  BY <1>1, <1>2, <1>5
<1> HIDE DEF m, old
<1>7. /\ q \in Seq(GoodFrame(e))
      /\ Len(q) = IF m <= Len(old) THEN Len(old) - m + 1 ELSE 0
      /\ \A i \in 1..(Len(old) - m + 1) : q[i] = old[m + i - 1]
  BY <1>4, <1>5, <1>6, SubSeqProperties DEF m
<1>8. Len(q) = Len(old) - m + 1
  BY <1>7, <1>1, <1>2, <1>3 DEF m, old
<1>9. a + Len(q) = outgoingMsgId[e]
  BY <1>8, <1>1, <1>2, <1>3 DEF m, old
<1>10. ASSUME NEW i \in 1..Len(q)
       PROVE  q[i].id = a + i /\ q[i].type = "Regular"
  <2>1. m + i - 1 \in 1..Len(old)
    BY <1>8, <1>5, <1>2
  <2>2. q[i] = old[m + i - 1]
    BY <1>7, <1>8
  <2>3. m + i - 1 = a - base + i
    BY <1>1, <1>3, <1>2, <1>8 DEF m
  <2>4. old[m + i - 1].id = base + (m + i - 1) /\ old[m + i - 1].type = "Regular"
    BY <2>1, <1>1 DEF old
  <2> QED
    BY <2>2, <2>3, <2>4, <1>1, <1>3, <1>2, <1>8
<1>11. q \in Seq(ProtocolMessage)
  BY <1>7, SeqMonotonic DEF GoodFrame
<1> QED
  BY <1>3, <1>1, <1>7, <1>9, <1>10, <1>11, BoundsAssumption

\* The acks and the queue of one end change.
LEMMA AcksChanged ==
    ASSUME NEW a, NEW q, GoodAcks(a, q), NEW e \in Ends, NEW ack \in 0..MaxSends,
           NEW queue \in Seq(ProtocolMessage),
           ack <= incomingMsgId[Peer(e)],
           ack + Len(queue) = outgoingMsgId[e],
           \A i \in 1..Len(queue) : queue[i].id = ack + i /\ queue[i].type = "Regular",
           \A i \in 1..Len(queue) : queue[i] \in GoodFrame(e)
    PROVE  GoodAcks([a EXCEPT ![e] = ack], [q EXCEPT ![e] = queue])
<1> DEFINE a1 == [a EXCEPT ![e] = ack]
           q1 == [q EXCEPT ![e] = queue]
<1>1. /\ a1 \in [Ends -> 0..MaxSends] /\ q1 \in [Ends -> Seq(ProtocolMessage)]
      /\ a1[e] = ack /\ q1[e] = queue
      /\ \A f \in Ends \ {e} : a1[f] = a[f] /\ q1[f] = q[f]
  BY DEF GoodAcks
<1> HIDE DEF a1, q1
<1>2. ASSUME NEW f \in Ends
      PROVE  /\ a1[f] <= incomingMsgId[Peer(f)]
             /\ a1[f] + Len(q1[f]) = outgoingMsgId[f]
             /\ \A i \in 1..Len(q1[f]) : /\ q1[f][i].id = a1[f] + i
                                         /\ q1[f][i] \in GoodFrame(f)
                                         /\ q1[f][i].type = "Regular"
  <2>1. CASE f = e
    BY <1>1, <2>1
  <2>2. CASE f # e
    BY <1>1, <2>2 DEF GoodAcks
  <2> QED
    BY <2>1, <2>2
<1>3. GoodAcks(a1, q1)
  BY <1>1, <1>2 DEF GoodAcks
<1> QED
  BY <1>3 DEF a1, q1

-----------------------------------------------------------------------------
(* Sockets                                                                 *)

\* A prefix of good frames holds good frames.
LEMMA PrefixGood ==
    ASSUME NEW S, NEW s \in Seq(S), NEW p \in Prefixes(s)
    PROVE  p \in Seq(S)
<1>1. PICK n \in 0..Len(s) : p = SubSeq(s, 1, n)
  BY DEF Prefixes
<1>2. Len(s) \in Nat /\ \A i \in 1..n : s[i] \in S
  BY LenProperties, ElementOfSeq
<1> QED
  BY <1>1, <1>2, SubSeqProperties

\* Moving to another socket leaves only good frames behind.
LEMMA AbandonGood ==
    ASSUME IInv, NEW e \in Ends, NEW w, GoodWires(w), NEW w1 \in Abandon(e, w)
    PROVE  GoodWires(w1)
<1> DEFINE k == socket[e]
           all == IF isPaused[e] \/ ~open[k] THEN w[k][e] ELSE w[k][e] \o writer[e]
<1>1. PICK p \in Prefixes(all) :
          w1 = [w EXCEPT ![k] = [f \in Ends |-> IF f = e THEN p ELSE <<>>]]
  BY DEF Abandon
<1>2. k \in Sockets /\ writer[e] \in Seq(GoodFrame(e)) /\ w[k][e] \in Seq(GoodFrame(e))
  BY DEF IInv, TypeOK, FramesAreGood, GoodWires
<1>3. all \in Seq(GoodFrame(e))
  BY <1>2, ConcatProperties
<1>4. p \in Seq(GoodFrame(e))
  BY <1>3, PrefixGood
<1>5. p \in Seq(ProtocolMessage)
  BY <1>4, SeqMonotonic DEF GoodFrame
<1>6. \A f \in Ends : <<>> \in Seq(GoodFrame(f))
  OBVIOUS
<1> QED
  BY <1>1, <1>2, <1>4, <1>5, <1>6 DEF GoodWires

\* One direction of one socket changes.
LEMMA WireChanged ==
    ASSUME NEW w, GoodWires(w), NEW k \in Sockets, NEW e \in Ends,
           NEW s \in Seq(GoodFrame(e))
    PROVE  GoodWires([w EXCEPT ![k][e] = s])
<1>1. s \in Seq(ProtocolMessage)
  BY SeqMonotonic DEF GoodFrame
<1> QED
  BY <1>1 DEF GoodWires

\* One writer changes.
LEMMA WriterChanged ==
    ASSUME IInv, NEW e \in Ends, NEW s \in Seq(GoodFrame(e))
    PROVE  GoodWriters([writer EXCEPT ![e] = s])
<1>1. s \in Seq(ProtocolMessage)
  BY SeqMonotonic DEF GoodFrame
<1> QED
  BY <1>1 DEF IInv, TypeOK, FramesAreGood, GoodWriters

\* The parts of the invariant, in the form the next lemmas use.
LEMMA Parts ==
    ASSUME IInv
    PROVE  /\ GoodWires(wire)
           /\ GoodWriters(writer)
           /\ GoodAcks(outgoingAckId, outgoingUnackMsg)
           /\ PlainOK
<1>1. GoodWires(wire)
  BY DEF IInv, TypeOK, FramesAreGood, GoodWires
<1>2. GoodWriters(writer)
  BY DEF IInv, TypeOK, FramesAreGood, GoodWriters
<1>3. GoodAcks(outgoingAckId, outgoingUnackMsg)
  BY DEF IInv, TypeOK, CountersAgree, UnackQueueExact, UnackIsGood, GoodAcks
<1>4. PlainOK
  BY DEF IInv, TypeOK, PlainOK
<1> QED
  BY <1>1, <1>2, <1>3, <1>4

-----------------------------------------------------------------------------
(* Steps                                                                   *)

\* Every step but send(): the invariant holds again when the parts do, judged
\* by what was good before the step.
LEMMA KeepsIInv ==
    ASSUME IInv, PlainOK', UNCHANGED <<outgoingMsgId, sent>>,
           incomingMsgId' \in [Ends -> 0..MaxSends],
           incomingAckId' \in [Ends -> 0..MaxSends],
           delivered' \in [Ends -> Seq(Data)],
           \A e \in Ends : /\ incomingMsgId[e] <= incomingMsgId'[e]
                           /\ incomingMsgId'[e] <= outgoingMsgId[Peer(e)]
                           /\ Len(delivered'[e]) = incomingMsgId'[e]
                           /\ incomingAckId'[e] <= incomingMsgId'[e],
           DeliveredInOrder',
           GoodAcks(outgoingAckId', outgoingUnackMsg'),
           GoodWriters(writer'),
           GoodWires(wire')
    PROVE  IInv'
<1>1. \A e \in Ends : GoodFrame(e) \subseteq GoodFrame(e)'
  <2> SUFFICES ASSUME NEW e \in Ends
               PROVE  GoodFrame(e) \subseteq GoodFrame(e)'
    OBVIOUS
  <2>1. /\ incomingMsgId[e] \in Nat /\ incomingMsgId'[e] \in Nat
        /\ outgoingMsgId[e] \in Nat /\ outgoingMsgId'[e] \in Nat
    BY BoundsAssumption DEF IInv, TypeOK
  <2> QED
    BY <2>1, GoodFrameGrows
<1>2. TypeOK'
  BY DEF IInv, TypeOK, PlainOK, GoodAcks, GoodWriters, GoodWires
<1>3. CountersAgree'
  <2> SUFFICES ASSUME NEW e \in Ends
               PROVE  /\ Len(sent'[e]) = outgoingMsgId'[e]
                      /\ Len(delivered'[e]) = incomingMsgId'[e]
                      /\ incomingMsgId'[e] <= outgoingMsgId'[Peer(e)]
                      /\ outgoingAckId'[e] <= incomingMsgId'[Peer(e)]
                      /\ incomingAckId'[e] <= incomingMsgId'[e]
    BY DEF CountersAgree, Peer
  <2>1. /\ Peer(e) \in Ends
        /\ outgoingAckId'[e] \in 0..MaxSends
        /\ incomingMsgId[Peer(e)] \in 0..MaxSends
        /\ incomingMsgId'[Peer(e)] \in 0..MaxSends
        /\ outgoingAckId'[e] <= incomingMsgId[Peer(e)]
        /\ incomingMsgId[Peer(e)] <= incomingMsgId'[Peer(e)]
    BY DEF GoodAcks, Ends, Peer, IInv, TypeOK
  <2> QED
    BY <2>1, BoundsAssumption DEF IInv, CountersAgree
<1>4. UnackQueueExact'
  BY DEF UnackQueueExact, GoodAcks
<1>5. UnackIsGood'
  BY <1>1 DEF UnackIsGood, GoodAcks
<1>6. FramesAreGood'
  <2> SUFFICES ASSUME NEW e \in Ends
               PROVE  /\ writer'[e] \in Seq(GoodFrame(e)')
                      /\ \A k \in Sockets : wire'[k][e] \in Seq(GoodFrame(e)')
    BY DEF FramesAreGood
  <2>1. writer'[e] \in Seq(GoodFrame(e)')
    BY <1>1, SeqMonotonic DEF GoodWriters
  <2>2. ASSUME NEW k \in Sockets
        PROVE  wire'[k][e] \in Seq(GoodFrame(e)')
    BY <1>1, SeqMonotonic DEF GoodWires
  <2> QED
    BY <2>1, <2>2
<1> QED
  BY <1>2, <1>3, <1>4, <1>5, <1>6 DEF IInv

\* The steps that neither send nor deliver a message.
LEMMA KeepsIInvQuiet ==
    ASSUME IInv, PlainOK',
           UNCHANGED <<outgoingMsgId, sent, incomingMsgId, delivered>>,
           incomingAckId' \in [Ends -> 0..MaxSends],
           \A e \in Ends : incomingAckId'[e] <= incomingMsgId[e],
           GoodAcks(outgoingAckId', outgoingUnackMsg'),
           GoodWriters(writer'),
           GoodWires(wire')
    PROVE  IInv'
<1>1. /\ incomingMsgId' \in [Ends -> 0..MaxSends]
      /\ delivered' \in [Ends -> Seq(Data)]
  BY DEF IInv, TypeOK
<1>2. \A e \in Ends : /\ incomingMsgId[e] <= incomingMsgId'[e]
                      /\ incomingMsgId'[e] <= outgoingMsgId[Peer(e)]
                      /\ Len(delivered'[e]) = incomingMsgId'[e]
                      /\ incomingAckId'[e] <= incomingMsgId'[e]
  BY BoundsAssumption DEF IInv, TypeOK, CountersAgree
<1>3. DeliveredInOrder'
  BY DEF IInv, DeliveredInOrder, Peer
<1> QED
  BY <1>1, <1>2, <1>3, KeepsIInv

\* Both protocol objects start with empty queues and counters at zero.
LEMMA InitIInv == Init => IInv
<1> SUFFICES ASSUME Init PROVE IInv
  OBVIOUS
<1>1. 0 \in Sockets /\ 0 \in 0..MaxSends
  BY BoundsAssumption DEF Sockets
<1>2. TypeOK
  BY <1>1 DEF Init, TypeOK
<1>3. CountersAgree /\ UnackQueueExact /\ UnackIsGood /\ DeliveredInOrder
  BY DEF Init, CountersAgree, UnackQueueExact, UnackIsGood, DeliveredInOrder,
         Ends, Peer
<1>4. FramesAreGood
  BY DEF Init, FramesAreGood
<1> QED
  BY <1>2, <1>3, <1>4 DEF IInv

\* send(): the new message joins the queue under the next id.
LEMMA SendKeeps ==
    ASSUME IInv, NEW e \in Ends, NEW d \in Data, Send(e, d)
    PROVE  IInv'
<1> DEFINE msg == Regular(outgoingMsgId[e] + 1, incomingMsgId[e], d)
           frames == WrittenAtOnce(e, msg)
<1>1. /\ outgoingMsgId \in [Ends -> 0..MaxSends]
      /\ incomingMsgId \in [Ends -> 0..MaxSends]
      /\ outgoingMsgId[e] + 1 \in 1..MaxSends
      /\ outgoingMsgId' = [outgoingMsgId EXCEPT ![e] = @ + 1]
      /\ outgoingMsgId' \in [Ends -> 0..MaxSends]
      /\ sent \in [Ends -> Seq(Data)]
      /\ Len(sent[e]) = outgoingMsgId[e]
      /\ sent' = [sent EXCEPT ![e] = Append(@, d)]
      /\ outgoingUnackMsg' = [outgoingUnackMsg EXCEPT ![e] = Append(@, msg)]
      /\ UNCHANGED <<isReconnecting, outgoingAckId, incomingMsgId,
                     incomingAckTimeout, replayRequested, isPaused, socket,
                     open, wire, connectionType, phase, closeFired, handOff,
                     delivered>>
  BY BoundsAssumption DEF IInv, TypeOK, CountersAgree, Send, clientVars
<1>2. /\ sent' \in [Ends -> Seq(Data)]
      /\ Len(sent'[e]) = outgoingMsgId'[e]
      /\ sent'[e][outgoingMsgId[e] + 1] = d
      /\ \A f \in Ends : \A i \in 1..outgoingMsgId[f] : sent'[f][i] = sent[f][i]
  <2>1. sent[e] \in Seq(Data) /\ sent'[e] = Append(sent[e], d)
    BY <1>1
  <2>2. /\ Append(sent[e], d) \in Seq(Data)
        /\ Len(Append(sent[e], d)) = Len(sent[e]) + 1
        /\ \A i \in 1..Len(sent[e]) : Append(sent[e], d)[i] = sent[e][i]
        /\ Append(sent[e], d)[Len(sent[e]) + 1] = d
    BY <2>1, AppendProperties
  <2> QED
    BY <1>1, <2>1, <2>2
<1>3. \A f \in Ends : GoodFrame(f) \subseteq GoodFrame(f)'
  <2> SUFFICES ASSUME NEW f \in Ends
               PROVE  GoodFrame(f) \subseteq GoodFrame(f)'
    OBVIOUS
  <2>1. /\ incomingMsgId[f] \in Nat /\ incomingMsgId'[f] \in Nat
        /\ outgoingMsgId[f] \in Nat /\ outgoingMsgId'[f] \in Nat
        /\ incomingMsgId[f] <= incomingMsgId'[f]
        /\ outgoingMsgId[f] <= outgoingMsgId'[f]
    BY <1>1, BoundsAssumption
  <2> QED
    BY <2>1, <1>2, GoodFrameGrows
<1>4. msg \in GoodFrame(e)' /\ msg.type = "Regular" /\ msg.id = outgoingMsgId[e] + 1
  BY <1>1, <1>2, BoundsAssumption
     DEF GoodFrame, Regular, ProtocolMessage, ProtocolMessageType
<1>5. Encode(msg) = msg
  <2>1. /\ msg.id \in Nat /\ msg.ack \in Nat
        /\ msg.id < IdSpace /\ msg.ack < IdSpace
    BY <1>1, BoundsAssumption DEF Regular
  <2>2. msg.id % IdSpace = msg.id /\ msg.ack % IdSpace = msg.ack
    BY <2>1, BoundsAssumption
  <2> QED
    BY <2>2 DEF Encode, Regular
<1>6. msg \in ProtocolMessage
  BY <1>1, BoundsAssumption DEF Regular, ProtocolMessage, ProtocolMessageType
<1>7. incomingAckId' \in [Ends -> 0..MaxSends]
  BY <1>1 DEF IInv, TypeOK, Send
<1>8. /\ outgoingUnackMsg' \in [Ends -> Seq(ProtocolMessage)]
      /\ \A f \in Ends \ {e} : outgoingUnackMsg'[f] = outgoingUnackMsg[f]
      /\ Len(outgoingUnackMsg'[e]) = Len(outgoingUnackMsg[e]) + 1
      /\ \A i \in 1..Len(outgoingUnackMsg[e]) :
            outgoingUnackMsg'[e][i] = outgoingUnackMsg[e][i]
      /\ outgoingUnackMsg'[e][Len(outgoingUnackMsg[e]) + 1] = msg
  <2> DEFINE old == outgoingUnackMsg[e]
  <2>0. outgoingUnackMsg \in [Ends -> Seq(ProtocolMessage)]
    BY DEF IInv, TypeOK
  <2>1. old \in Seq(ProtocolMessage) /\ outgoingUnackMsg'[e] = Append(old, msg)
    BY <2>0, <1>1
  <2> HIDE DEF msg
  <2>2. /\ Append(old, msg) \in Seq(ProtocolMessage)
        /\ Len(Append(old, msg)) = Len(old) + 1
        /\ \A i \in 1..Len(old) : Append(old, msg)[i] = old[i]
        /\ Append(old, msg)[Len(old) + 1] = msg
    BY <2>1, <1>6, AppendProperties
  <2> QED
    BY <1>1, <2>0, <2>1, <2>2
<1> HIDE DEF msg
<1>9. Write(e, frames) /\ frames \in {<<>>, <<msg>>}
  BY DEF Send, WrittenAtOnce, msg
<1>10. EncodeAll(frames) \in {<<>>, <<msg>>}
  <2>1. CASE frames = <<>>
    BY <2>1 DEF EncodeAll
  <2>2. CASE frames = <<msg>>
    BY <2>2, <1>5 DEF EncodeAll
  <2> QED
    BY <1>9, <2>1, <2>2
<1>11. \A f \in Ends : writer'[f] \in Seq(GoodFrame(f)')
  <2> SUFFICES ASSUME NEW f \in Ends PROVE writer'[f] \in Seq(GoodFrame(f)')
    OBVIOUS
  <2>1. writer \in [Ends -> Seq(ProtocolMessage)] /\ writer[f] \in Seq(GoodFrame(f))
    BY DEF IInv, TypeOK, FramesAreGood
  <2>2. writer[f] \in Seq(GoodFrame(f)')
    BY <2>1, <1>3, SeqMonotonic
  <2>3. CASE f # e
    BY <2>1, <2>2, <2>3, <1>9 DEF Write
  <2>4. CASE f = e
    <3>1. EncodeAll(frames) \in Seq(GoodFrame(e)')
      <4>1. \A S : msg \in S => <<>> \in Seq(S) /\ <<msg>> \in Seq(S)
        OBVIOUS
      <4>2. <<>> \in Seq(GoodFrame(e)') /\ <<msg>> \in Seq(GoodFrame(e)')
        BY <4>1, <1>4
      <4> QED
        BY <4>2, <1>10
    <3>2. writer'[e] = writer[e] \o EncodeAll(frames)
      BY <2>1, <1>9 DEF Write
    <3> QED
      BY <2>2, <2>4, <3>1, <3>2, ConcatProperties
  <2> QED
    BY <2>3, <2>4
<1>12. writer' \in [Ends -> Seq(ProtocolMessage)]
  <2>1. \A f \in Ends : writer'[f] \in Seq(ProtocolMessage)
    <3> SUFFICES ASSUME NEW f \in Ends PROVE writer'[f] \in Seq(ProtocolMessage)
      OBVIOUS
    <3>1. GoodFrame(f)' \subseteq ProtocolMessage
      BY DEF GoodFrame
    <3> QED
      BY <3>1, <1>11, SeqMonotonic
  <2>2. writer' = [writer EXCEPT ![e] = writer[e] \o EncodeAll(frames)]
    BY <1>9 DEF Write
  <2>3. writer' = [f \in Ends |-> writer'[f]]
    BY <2>2 DEF IInv, TypeOK
  <2> QED
    BY <2>1, <2>3
<1>13. TypeOK'
  BY <1>1, <1>2, <1>7, <1>8, <1>12 DEF IInv, TypeOK
<1>14. CountersAgree'
  <2> SUFFICES ASSUME NEW f \in Ends
               PROVE  /\ Len(sent'[f]) = outgoingMsgId'[f]
                      /\ Len(delivered'[f]) = incomingMsgId'[f]
                      /\ incomingMsgId'[f] <= outgoingMsgId'[Peer(f)]
                      /\ outgoingAckId'[f] <= incomingMsgId'[Peer(f)]
                      /\ incomingAckId'[f] <= incomingMsgId'[f]
    BY DEF CountersAgree, Peer
  <2>1. Peer(f) \in Ends
    BY DEF Ends, Peer
  <2>2. /\ Len(sent[f]) = outgoingMsgId[f]
        /\ Len(delivered[f]) = incomingMsgId[f]
        /\ incomingMsgId[f] <= outgoingMsgId[Peer(f)]
        /\ outgoingAckId[f] <= incomingMsgId[Peer(f)]
        /\ incomingAckId[f] <= incomingMsgId[f]
    BY DEF IInv, CountersAgree
  <2>3. incomingAckId'[f] \in {incomingAckId[f], incomingMsgId[f]}
    BY DEF Send, IInv, TypeOK
  <2>4. Len(sent'[f]) = outgoingMsgId'[f]
    BY <1>1, <1>2, <2>2
  <2> QED
    BY <1>1, <2>1, <2>2, <2>3, <2>4, BoundsAssumption
<1>15. UnackQueueExact' /\ UnackIsGood'
  <2> SUFFICES ASSUME NEW f \in Ends
               PROVE  /\ outgoingAckId'[f] + Len(outgoingUnackMsg'[f]) = outgoingMsgId'[f]
                      /\ \A i \in 1..Len(outgoingUnackMsg'[f]) :
                            /\ outgoingUnackMsg'[f][i].id = outgoingAckId'[f] + i
                            /\ outgoingUnackMsg'[f][i] \in GoodFrame(f)'
                            /\ outgoingUnackMsg'[f][i].type = "Regular"
    BY DEF UnackQueueExact, UnackIsGood
  <2>1. /\ outgoingAckId[f] \in 0..MaxSends
        /\ outgoingAckId[f] + Len(outgoingUnackMsg[f]) = outgoingMsgId[f]
        /\ Len(outgoingUnackMsg[f]) \in Nat
        /\ \A i \in 1..Len(outgoingUnackMsg[f]) :
              /\ outgoingUnackMsg[f][i].id = outgoingAckId[f] + i
              /\ outgoingUnackMsg[f][i] \in GoodFrame(f)'
              /\ outgoingUnackMsg[f][i].type = "Regular"
    BY <1>3, LenProperties DEF IInv, TypeOK, UnackQueueExact, UnackIsGood
  <2>2. CASE f # e
    BY <2>1, <2>2, <1>1, <1>8
  <2>3. CASE f = e
    <3> DEFINE n == Len(outgoingUnackMsg[e])
    <3>1. outgoingAckId'[e] + Len(outgoingUnackMsg'[e]) = outgoingMsgId'[e]
      BY <2>1, <2>3, <1>1, <1>8
    <3>2. ASSUME NEW i \in 1..Len(outgoingUnackMsg'[e])
          PROVE  /\ outgoingUnackMsg'[e][i].id = outgoingAckId'[e] + i
                 /\ outgoingUnackMsg'[e][i] \in GoodFrame(e)'
                 /\ outgoingUnackMsg'[e][i].type = "Regular"
      <4>1. CASE i \in 1..n
        BY <4>1, <2>1, <2>3, <1>1, <1>8
      <4>2. CASE i = n + 1
        BY <4>2, <2>1, <2>3, <1>1, <1>4, <1>8
      <4>3. i \in 1..n \/ i = n + 1
        BY <2>1, <2>3, <1>8
      <4> QED
        BY <4>1, <4>2, <4>3
    <3> QED
      BY <3>1, <3>2, <2>3
  <2> QED
    BY <2>2, <2>3
<1>16. FramesAreGood'
  <2> SUFFICES ASSUME NEW f \in Ends, NEW k \in Sockets
               PROVE  wire'[k][f] \in Seq(GoodFrame(f)')
    BY <1>11 DEF FramesAreGood
  <2>1. wire[k][f] \in Seq(GoodFrame(f)) /\ wire' = wire
    BY <1>1 DEF IInv, FramesAreGood
  <2> QED
    BY <2>1, <1>3, SeqMonotonic
<1>17. DeliveredInOrder'
  <2> SUFFICES ASSUME NEW f \in Ends, NEW i \in 1..Len(delivered[f])
               PROVE  delivered[f][i] = sent'[Peer(f)][i]
    BY <1>1 DEF DeliveredInOrder, Peer
  <2>1. Peer(f) \in Ends
    BY DEF Ends, Peer
  <2>2. i \in 1..outgoingMsgId[Peer(f)] /\ delivered[f][i] = sent[Peer(f)][i]
    BY <2>1, <1>1 DEF IInv, CountersAgree, DeliveredInOrder
  <2> QED
    BY <2>1, <2>2, <1>2
<1> QED
  BY <1>13, <1>14, <1>15, <1>16, <1>17 DEF IInv

\* _writeNow() moves good frames from the buffer to the socket.
LEMMA WriteNowKeeps ==
    ASSUME IInv, NEW e \in Ends, WriteNow(e)
    PROVE  IInv'
<1> USE DEF protocolVars, clientVars
<1> DEFINE k == socket[e]
<1>1. k \in Sockets /\ writer[e] \in Seq(GoodFrame(e)) /\ wire[k][e] \in Seq(GoodFrame(e))
  BY DEF IInv, TypeOK, FramesAreGood
<1>2. GoodWriters(writer')
  <2>1. <<>> \in Seq(GoodFrame(e)) /\ writer' = [writer EXCEPT ![e] = <<>>]
    BY DEF WriteNow
  <2> QED
    BY <2>1, WriterChanged
<1>3. GoodWires(wire')
  <2>1. wire[k][e] \o writer[e] \in Seq(GoodFrame(e))
    BY <1>1, ConcatProperties
  <2>2. GoodWires([wire EXCEPT ![k][e] = wire[k][e] \o writer[e]])
    BY <2>1, <1>1, Parts, WireChanged
  <2>3. wire' \in {wire, [wire EXCEPT ![k][e] = wire[k][e] \o writer[e]]}
    BY DEF WriteNow
  <2> QED
    BY <2>2, <2>3, Parts
<1>4. /\ PlainOK'
      /\ UNCHANGED <<outgoingMsgId, sent, incomingMsgId, delivered>>
      /\ incomingAckId' \in [Ends -> 0..MaxSends]
      /\ \A f \in Ends : incomingAckId'[f] <= incomingMsgId[f]
      /\ UNCHANGED <<outgoingAckId, outgoingUnackMsg>>
  BY DEF IInv, TypeOK, CountersAgree, WriteNow, PlainOK
<1>5. GoodAcks(outgoingAckId', outgoingUnackMsg')
  BY <1>4, Parts
<1> QED
  BY <1>2, <1>3, <1>4, <1>5, KeepsIInvQuiet

\* An end that acknowledges all it received, in frames that are good.
LEMMA AcknowledgeAll ==
    ASSUME IInv, NEW e \in Ends,
           incomingAckId' = [incomingAckId EXCEPT ![e] = incomingMsgId[e]]
    PROVE  /\ incomingAckId' \in [Ends -> 0..MaxSends]
           /\ \A f \in Ends : incomingAckId'[f] <= incomingMsgId[f]
           /\ incomingMsgId[e] \in Nat
           /\ <<Uncounted("Ack", incomingMsgId[e])>> \in Seq(GoodFrame(e))
           /\ <<Uncounted("KeepAlive", incomingMsgId[e])>> \in Seq(GoodFrame(e))
<1>1. /\ incomingAckId \in [Ends -> 0..MaxSends]
      /\ incomingMsgId \in [Ends -> 0..MaxSends]
      /\ \A f \in Ends : incomingAckId[f] <= incomingMsgId[f]
  BY DEF IInv, TypeOK, CountersAgree
<1>2. incomingMsgId[e] \in Nat /\ incomingMsgId[e] <= incomingMsgId[e]
  BY <1>1, BoundsAssumption
<1>3. /\ Uncounted("Ack", incomingMsgId[e]) \in GoodFrame(e)
      /\ Uncounted("KeepAlive", incomingMsgId[e]) \in GoodFrame(e)
  BY <1>2, UncountedGood DEF ProtocolMessageType
<1> QED
  BY <1>1, <1>2, <1>3, BoundsAssumption

\* The acknowledge timer
LEMMA SendAckCheckKeeps ==
    ASSUME IInv, NEW e \in Ends, SendAckCheck(e)
    PROVE  IInv'
<1> USE DEF protocolVars, clientVars
<1> DEFINE msgs == IF incomingMsgId[e] <= incomingAckId[e] THEN <<>>
                   ELSE <<Uncounted("Ack", incomingMsgId[e])>>
<1>1. /\ incomingAckId' \in [Ends -> 0..MaxSends]
      /\ \A f \in Ends : incomingAckId'[f] <= incomingMsgId[f]
      /\ msgs \in Seq(GoodFrame(e))
  <2>1. incomingAckId' = [incomingAckId EXCEPT ![e] = incomingMsgId[e]]
    BY DEF SendAckCheck
  <2>2. <<>> \in Seq(GoodFrame(e))
    OBVIOUS
  <2> QED
    BY <2>1, <2>2, AcknowledgeAll
<1>2. writer' = [writer EXCEPT ![e] = writer[e] \o EncodeAll(msgs)]
  BY DEF SendAckCheck, Write
<1>3. GoodWriters(writer')
  BY <1>1, <1>2, WriteGood, WriterChanged
<1>4. /\ PlainOK'
      /\ UNCHANGED <<outgoingMsgId, sent, incomingMsgId, delivered>>
      /\ UNCHANGED <<outgoingAckId, outgoingUnackMsg, wire>>
  BY DEF IInv, TypeOK, SendAckCheck, PlainOK
<1>5. GoodAcks(outgoingAckId', outgoingUnackMsg') /\ GoodWires(wire')
  BY <1>4, Parts
<1> QED
  BY <1>1, <1>3, <1>4, <1>5, KeepsIInvQuiet

\* The keep alive interval
LEMMA SendKeepAliveKeeps ==
    ASSUME IInv, NEW e \in Ends, SendKeepAlive(e)
    PROVE  IInv'
<1> USE DEF protocolVars, clientVars
<1> DEFINE msgs == <<Uncounted("KeepAlive", incomingMsgId[e])>>
<1>1. /\ incomingAckId' \in [Ends -> 0..MaxSends]
      /\ \A f \in Ends : incomingAckId'[f] <= incomingMsgId[f]
      /\ msgs \in Seq(GoodFrame(e))
  <2>1. incomingAckId' = [incomingAckId EXCEPT ![e] = incomingMsgId[e]]
    BY DEF SendKeepAlive
  <2> QED
    BY <2>1, AcknowledgeAll
<1>2. writer' = [writer EXCEPT ![e] = writer[e] \o EncodeAll(msgs)]
  BY DEF SendKeepAlive, Write
<1>3. GoodWriters(writer')
  BY <1>1, <1>2, WriteGood, WriterChanged
<1>4. /\ PlainOK'
      /\ UNCHANGED <<outgoingMsgId, sent, incomingMsgId, delivered>>
      /\ UNCHANGED <<outgoingAckId, outgoingUnackMsg, wire>>
  BY DEF IInv, TypeOK, SendKeepAlive, PlainOK
<1>5. GoodAcks(outgoingAckId', outgoingUnackMsg') /\ GoodWires(wire')
  BY <1>4, Parts
<1> QED
  BY <1>1, <1>3, <1>4, <1>5, KeepsIInvQuiet

\* The steps that change neither a counter nor a frame.
LEMMA SilentKeeps ==
    ASSUME IInv, PlainOK',
           UNCHANGED <<outgoingMsgId, sent, incomingMsgId, delivered>>,
           UNCHANGED <<incomingAckId, outgoingAckId, outgoingUnackMsg, writer, wire>>
    PROVE  IInv'
<1>1. /\ incomingAckId' \in [Ends -> 0..MaxSends]
      /\ \A f \in Ends : incomingAckId'[f] <= incomingMsgId[f]
  BY DEF IInv, TypeOK, CountersAgree
<1>2. /\ GoodAcks(outgoingAckId', outgoingUnackMsg')
      /\ GoodWriters(writer')
      /\ GoodWires(wire')
  BY Parts
<1> QED
  BY <1>1, <1>2, KeepsIInvQuiet

-----------------------------------------------------------------------------
(* Receiving                                                               *)

\* A frame that is read is one its sender may have written; reading it and
\* handling its ack keeps the wires good and the queue exact.
LEMMA ReceiveMessageKeeps ==
    ASSUME IInv, NEW e \in Ends, Incoming(e) # <<>>, NEW msg,
           msg = Head(Incoming(e)), ReceiveMessage(e, msg)
    PROVE  /\ Peer(e) \in Ends
           /\ msg \in GoodFrame(Peer(e))
           /\ GoodWires(wire')
           /\ GoodAcks(outgoingAckId', outgoingUnackMsg')
           /\ outgoingUnackMsg'[e] \in Seq(GoodFrame(e))
           /\ UNCHANGED <<outgoingMsgId, socket, open, connectionType, handOff, sent>>
<1> DEFINE k == socket[e]
           p == Peer(e)
<1>1. p \in Ends /\ Peer(p) = e
  BY DEF Ends, Peer
<1>2. k \in Sockets /\ wire[k][p] \in Seq(GoodFrame(p)) /\ wire[k][p] # <<>>
  BY <1>1 DEF IInv, TypeOK, FramesAreGood, Incoming
<1>3. msg \in GoodFrame(p) /\ Tail(wire[k][p]) \in Seq(GoodFrame(p))
  BY <1>2, HeadTailProperties DEF Incoming
<1>4. GoodWires(wire')
  <2>1. wire' = [wire EXCEPT ![k][p] = Tail(wire[k][p])]
    BY DEF ReceiveMessage
  <2> QED
    BY <2>1, <1>1, <1>2, <1>3, Parts, WireChanged
<1>5. msg.ack \in Nat /\ msg.ack <= incomingMsgId[Peer(e)]
  BY <1>3 DEF GoodFrame, ProtocolMessage
<1> DEFINE a == Max2(outgoingAckId[e], msg.ack)
           q == AfterAck(e, msg.ack)
<1>6. /\ a \in 0..MaxSends
      /\ a <= incomingMsgId[Peer(e)]
      /\ q \in Seq(GoodFrame(e))
      /\ q \in Seq(ProtocolMessage)
      /\ a + Len(q) = outgoingMsgId[e]
      /\ \A i \in 1..Len(q) : q[i].id = a + i /\ q[i].type = "Regular"
  BY <1>5, AckHandled
<1>7. \A i \in 1..Len(q) : q[i] \in GoodFrame(e)
  BY <1>6, ElementOfSeq
<1>8. /\ outgoingAckId' = [outgoingAckId EXCEPT ![e] = a]
      /\ outgoingUnackMsg' = [outgoingUnackMsg EXCEPT ![e] = q]
  BY DEF ReceiveMessage
<1> HIDE DEF a, q
<1>9. outgoingUnackMsg'[e] = q
  BY <1>8 DEF IInv, TypeOK
<1>10. GoodAcks(outgoingAckId', outgoingUnackMsg')
  <2>1. GoodAcks(outgoingAckId, outgoingUnackMsg)
    BY Parts
  <2>2. GoodAcks([outgoingAckId EXCEPT ![e] = a], [outgoingUnackMsg EXCEPT ![e] = q])
    BY <2>1, <1>6, <1>7, AcksChanged
  <2> QED
    BY <2>2, <1>8
<1> QED
  BY <1>1, <1>3, <1>4, <1>6, <1>9, <1>10 DEF ReceiveMessage

\* The next message in sequence is delivered.
LEMMA ReceiveNextKeeps ==
    ASSUME IInv, NEW e \in Ends, Incoming(e) # <<>>, NEW msg,
           msg = Head(Incoming(e)), ReceiveNext(e, msg)
    PROVE  /\ IInv'
           /\ Len(delivered[e]) < Len(sent[Peer(e)])
           /\ msg.data = sent[Peer(e)][Len(delivered[e]) + 1]
<1> USE DEF clientVars
<1>1. ReceiveMessage(e, msg)
  BY DEF ReceiveNext
<1>2. /\ Peer(e) \in Ends
      /\ msg \in GoodFrame(Peer(e))
      /\ GoodWires(wire')
      /\ GoodAcks(outgoingAckId', outgoingUnackMsg')
      /\ UNCHANGED <<outgoingMsgId, socket, open, connectionType, handOff, sent>>
  BY <1>1, ReceiveMessageKeeps
<1>3. /\ incomingMsgId \in [Ends -> 0..MaxSends]
      /\ outgoingMsgId \in [Ends -> 0..MaxSends]
      /\ delivered \in [Ends -> Seq(Data)]
      /\ sent \in [Ends -> Seq(Data)]
      /\ Len(delivered[e]) = incomingMsgId[e]
      /\ Len(sent[Peer(e)]) = outgoingMsgId[Peer(e)]
      /\ msg.id = incomingMsgId[e] + 1
      /\ incomingMsgId' = [incomingMsgId EXCEPT ![e] = msg.id]
      /\ delivered' = [delivered EXCEPT ![e] = Append(@, msg.data)]
      /\ incomingAckId' = incomingAckId
      /\ incomingAckId \in [Ends -> 0..MaxSends]
      /\ \A f \in Ends : incomingAckId[f] <= incomingMsgId[f]
  BY <1>2 DEF IInv, TypeOK, CountersAgree, ReceiveNext, IsNext
<1>4. msg.id \in 1..outgoingMsgId[Peer(e)] /\ msg.data = sent[Peer(e)][msg.id]
  BY <1>2 DEF GoodFrame, ReceiveNext
<1>5. msg.data \in Data
  BY <1>2, <1>3, <1>4, ElementOfSeq
<1>6. /\ delivered'[e] \in Seq(Data)
      /\ Len(delivered'[e]) = incomingMsgId[e] + 1
      /\ \A i \in 1..Len(delivered[e]) : delivered'[e][i] = delivered[e][i]
      /\ delivered'[e][incomingMsgId[e] + 1] = msg.data
  <2>1. delivered[e] \in Seq(Data) /\ delivered'[e] = Append(delivered[e], msg.data)
    BY <1>3
  <2>2. /\ Append(delivered[e], msg.data) \in Seq(Data)
        /\ Len(Append(delivered[e], msg.data)) = Len(delivered[e]) + 1
        /\ \A i \in 1..Len(delivered[e]) :
              Append(delivered[e], msg.data)[i] = delivered[e][i]
        /\ Append(delivered[e], msg.data)[Len(delivered[e]) + 1] = msg.data
    BY <2>1, <1>5, AppendProperties
  <2> QED
    BY <2>1, <2>2, <1>3
<1>7. delivered' \in [Ends -> Seq(Data)] /\ incomingMsgId' \in [Ends -> 0..MaxSends]
  BY <1>2, <1>3, <1>4, <1>6, BoundsAssumption
<1>8. \A f \in Ends : /\ incomingMsgId[f] <= incomingMsgId'[f]
                      /\ incomingMsgId'[f] <= outgoingMsgId[Peer(f)]
                      /\ Len(delivered'[f]) = incomingMsgId'[f]
                      /\ incomingAckId'[f] <= incomingMsgId'[f]
  <2> SUFFICES ASSUME NEW f \in Ends
               PROVE  /\ incomingMsgId[f] <= incomingMsgId'[f]
                      /\ incomingMsgId'[f] <= outgoingMsgId[Peer(f)]
                      /\ Len(delivered'[f]) = incomingMsgId'[f]
                      /\ incomingAckId'[f] <= incomingMsgId'[f]
    OBVIOUS
  <2>1. CASE f = e
    BY <2>1, <1>2, <1>3, <1>4, <1>6, BoundsAssumption
  <2>2. CASE f # e
    BY <2>2, <1>3, BoundsAssumption DEF IInv, CountersAgree
  <2> QED
    BY <2>1, <2>2
<1>9. DeliveredInOrder'
  <2> SUFFICES ASSUME NEW f \in Ends, NEW i \in 1..Len(delivered'[f])
               PROVE  delivered'[f][i] = sent[Peer(f)][i]
    BY <1>2 DEF DeliveredInOrder, Peer
  <2>1. \A j \in 1..Len(delivered[f]) : delivered[f][j] = sent[Peer(f)][j]
    BY DEF IInv, DeliveredInOrder
  <2>2. CASE f # e
    BY <2>1, <2>2, <1>3
  <2>3. CASE f = e /\ i \in 1..Len(delivered[e])
    BY <2>1, <2>3, <1>6
  <2>4. CASE f = e /\ i = incomingMsgId[e] + 1
    BY <2>4, <1>3, <1>4, <1>6
  <2>5. f = e => i \in 1..Len(delivered[e]) \/ i = incomingMsgId[e] + 1
    BY <1>3, <1>6
  <2> QED
    BY <2>2, <2>3, <2>4, <2>5
<1>10. GoodWriters(writer') /\ PlainOK'
  <2>1. GoodWriters(writer')
    BY Parts DEF ReceiveNext
  <2>2. PlainOK'
    BY <1>2 DEF IInv, TypeOK, PlainOK, ReceiveNext
  <2> QED
    BY <2>1, <2>2
<1>11. IInv'
  BY <1>2, <1>3, <1>7, <1>8, <1>9, <1>10, KeepsIInv
<1> QED
  BY <1>2, <1>3, <1>4, <1>11, BoundsAssumption

\* The other frames deliver nothing.
LEMMA ReceiveOtherKeeps ==
    ASSUME IInv, NEW e \in Ends, Incoming(e) # <<>>, NEW msg,
           msg = Head(Incoming(e)), ReceiveMessage(e, msg), PlainOK',
           UNCHANGED <<incomingMsgId, delivered>>,
           incomingAckId' \in [Ends -> 0..MaxSends],
           \A f \in Ends : incomingAckId'[f] <= incomingMsgId[f],
           GoodWriters(writer')
    PROVE  IInv'
  BY ReceiveMessageKeeps, KeepsIInvQuiet

\* Frames after a gap
LEMMA ReceiveAfterGapKeeps ==
    ASSUME IInv, NEW e \in Ends, Incoming(e) # <<>>, NEW msg,
           msg = Head(Incoming(e)), ReceiveAfterGap(e, msg)
    PROVE  IInv'
<1> USE DEF clientVars
<1> DEFINE msgs == IF replayRequested[e] THEN <<>>
                   ELSE <<Uncounted("ReplayRequest", 0)>>
<1>1. ReceiveMessage(e, msg)
  BY DEF ReceiveAfterGap
<1>2. msgs \in Seq(GoodFrame(e))
  <2>1. 0 <= incomingMsgId[e] /\ 0 \in Nat
    BY BoundsAssumption DEF IInv, TypeOK
  <2>2. Uncounted("ReplayRequest", 0) \in GoodFrame(e)
    BY <2>1, UncountedGood DEF ProtocolMessageType
  <2> QED
    BY <2>2
<1>3. writer' = [writer EXCEPT ![e] = writer[e] \o EncodeAll(msgs)]
  BY DEF ReceiveAfterGap, Write
<1>4. GoodWriters(writer')
  BY <1>2, <1>3, WriteGood, WriterChanged
<1>5. PlainOK'
  BY <1>1, ReceiveMessageKeeps DEF IInv, TypeOK, PlainOK, ReceiveAfterGap
<1>6. /\ UNCHANGED <<incomingMsgId, delivered>>
      /\ incomingAckId' \in [Ends -> 0..MaxSends]
      /\ \A f \in Ends : incomingAckId'[f] <= incomingMsgId[f]
  BY DEF ReceiveAfterGap, IInv, TypeOK, CountersAgree
<1> QED
  BY <1>1, <1>4, <1>5, <1>6, ReceiveOtherKeeps

\* A replay request
LEMMA ReceiveReplayRequestKeeps ==
    ASSUME IInv, NEW e \in Ends, Incoming(e) # <<>>, NEW msg,
           msg = Head(Incoming(e)), ReceiveReplayRequest(e, msg)
    PROVE  IInv'
<1> USE DEF clientVars
<1>1. ReceiveMessage(e, msg)
  BY DEF ReceiveReplayRequest
<1>2. outgoingUnackMsg'[e] \in Seq(GoodFrame(e))
  BY <1>1, ReceiveMessageKeeps
<1>3. writer' = [writer EXCEPT ![e] = writer[e] \o EncodeAll(outgoingUnackMsg'[e])]
  BY DEF ReceiveReplayRequest, Write
<1>4. GoodWriters(writer')
  BY <1>2, <1>3, WriteGood, WriterChanged
<1>5. PlainOK'
  BY <1>1, ReceiveMessageKeeps DEF IInv, TypeOK, PlainOK, ReceiveReplayRequest
<1>6. /\ UNCHANGED <<incomingMsgId, delivered>>
      /\ incomingAckId' \in [Ends -> 0..MaxSends]
      /\ \A f \in Ends : incomingAckId'[f] <= incomingMsgId[f]
  BY DEF ReceiveReplayRequest, IInv, TypeOK, CountersAgree
<1> QED
  BY <1>1, <1>4, <1>5, <1>6, ReceiveOtherKeeps

\* The frames that write nothing and deliver nothing
LEMMA ReceiveSilentKeeps ==
    ASSUME IInv, NEW e \in Ends, Incoming(e) # <<>>, NEW msg,
           msg = Head(Incoming(e)),
           \/ ReceiveNothingNew(e, msg)
           \/ ReceivePauseResume(e, msg)
           \/ e = "client" /\ ReceiveLateAnswer(msg)
    PROVE  IInv'
<1> USE DEF clientVars, ReceiveNothingNew, ReceivePauseResume, ReceiveLateAnswer
<1>1. ReceiveMessage(e, msg)
  OBVIOUS
<1>2. UNCHANGED <<incomingMsgId, incomingAckId, delivered, writer>>
  OBVIOUS
<1>3. GoodWriters(writer')
  BY <1>2, Parts
<1>4. PlainOK'
  BY <1>1, ReceiveMessageKeeps DEF IInv, TypeOK, PlainOK
<1>5. /\ incomingAckId' \in [Ends -> 0..MaxSends]
      /\ \A f \in Ends : incomingAckId'[f] <= incomingMsgId[f]
  BY <1>2 DEF IInv, TypeOK, CountersAgree
<1> QED
  BY <1>1, <1>2, <1>3, <1>4, <1>5, ReceiveOtherKeeps

\* The answer to the reconnection request: an ack and the unacknowledged
\* messages are written.
LEMMA EndAcceptReconnectionKeeps ==
    ASSUME IInv, Incoming("client") # <<>>, NEW msg,
           msg = Head(Incoming("client")), EndAcceptReconnection(msg)
    PROVE  IInv'
<1> USE DEF clientVars
<1> DEFINE e == "client"
           msgs == ReplayAfterReconnection(e, outgoingUnackMsg'[e])
<1>1. e \in Ends /\ ReceiveMessage(e, msg)
  BY DEF EndAcceptReconnection, Ends
<1>2. outgoingUnackMsg'[e] \in Seq(GoodFrame(e))
  BY <1>1, ReceiveMessageKeeps
<1>3. /\ incomingAckId' \in [Ends -> 0..MaxSends]
      /\ \A f \in Ends : incomingAckId'[f] <= incomingMsgId[f]
      /\ <<Uncounted("Ack", incomingMsgId[e])>> \in Seq(GoodFrame(e))
  <2>1. incomingAckId' = [incomingAckId EXCEPT ![e] = incomingMsgId[e]]
    BY DEF EndAcceptReconnection
  <2> QED
    BY <2>1, <1>1, AcknowledgeAll
<1>4. msgs \in Seq(GoodFrame(e))
  BY <1>2, <1>3, ConcatProperties DEF ReplayAfterReconnection
<1>5. writer' = [writer EXCEPT ![e] = writer[e] \o EncodeAll(msgs)]
  BY DEF EndAcceptReconnection, Write
<1> HIDE DEF msgs
<1>6. GoodWriters(writer')
  BY <1>1, <1>4, <1>5, WriteGood, WriterChanged
<1>7. PlainOK'
  BY <1>1, ReceiveMessageKeeps DEF IInv, TypeOK, PlainOK, EndAcceptReconnection
<1>8. UNCHANGED <<incomingMsgId, delivered>>
  BY DEF EndAcceptReconnection
<1> QED
  BY <1>1, <1>3, <1>6, <1>7, <1>8, ReceiveOtherKeeps

-----------------------------------------------------------------------------
(* Sockets and reconnection                                                *)

\* Steps that change only the wires and variables without a condition
LEMMA WireStepKeeps ==
    ASSUME IInv, PlainOK', GoodWires(wire'),
           UNCHANGED <<outgoingMsgId, sent, incomingMsgId, delivered>>,
           UNCHANGED <<incomingAckId, outgoingAckId, outgoingUnackMsg, writer>>
    PROVE  IInv'
<1>1. /\ incomingAckId' \in [Ends -> 0..MaxSends]
      /\ \A f \in Ends : incomingAckId'[f] <= incomingMsgId[f]
  BY DEF IInv, TypeOK, CountersAgree
<1>2. /\ GoodAcks(outgoingAckId', outgoingUnackMsg')
      /\ GoodWriters(writer')
  BY Parts
<1> QED
  BY <1>1, <1>2, KeepsIInvQuiet

\* A socket breaks and keeps a prefix of what was in flight.
LEMMA SocketBreaksKeeps ==
    ASSUME IInv, NEW k \in Sockets, SocketBreaks(k)
    PROVE  IInv'
<1> USE DEF protocolVars, clientVars
<1>1. PICK c \in Prefixes(wire[k]["client"]), s \in Prefixes(wire[k]["server"]) :
          wire' = [wire EXCEPT ![k] = [e \in Ends |-> IF e = "client" THEN c ELSE s]]
  BY DEF SocketBreaks
<1>2. /\ wire[k]["client"] \in Seq(GoodFrame("client"))
      /\ wire[k]["server"] \in Seq(GoodFrame("server"))
  BY DEF IInv, FramesAreGood, Ends
<1>3. c \in Seq(GoodFrame("client")) /\ s \in Seq(GoodFrame("server"))
  BY <1>2, PrefixGood
<1>4. c \in Seq(ProtocolMessage) /\ s \in Seq(ProtocolMessage)
  BY <1>3, SeqMonotonic DEF GoodFrame
<1>5. GoodWires(wire')
  BY <1>1, <1>3, <1>4, Parts DEF GoodWires, Ends
<1>6. PlainOK'
  BY DEF IInv, TypeOK, PlainOK, SocketBreaks
<1> QED
  BY <1>5, <1>6, WireStepKeeps DEF SocketBreaks

\* The first frame of one direction of a socket goes away.
LEMMA TailGood ==
    ASSUME IInv, NEW k \in Sockets, NEW e \in Ends, wire[k][e] # <<>>
    PROVE  /\ Tail(wire[k][e]) \in Seq(GoodFrame(e))
           /\ GoodWires([wire EXCEPT ![k][e] = Tail(wire[k][e])])
<1>1. wire[k][e] \in Seq(GoodFrame(e))
  BY DEF IInv, FramesAreGood
<1>2. Tail(wire[k][e]) \in Seq(GoodFrame(e))
  BY <1>1, HeadTailProperties
<1> QED
  BY <1>2, Parts, WireChanged

\* A frame is lost, or read by the handshake.
LEMMA LoseFrameKeeps ==
    ASSUME IInv, NEW k \in Sockets, NEW e \in Ends,
           LoseFrame(k, e) \/ (e = "client" /\ HandshakeReads(k))
    PROVE  IInv'
<1> USE DEF protocolVars, clientVars, LoseFrame, HandshakeReads
<1>1. wire[k][e] # <<>> /\ wire' = [wire EXCEPT ![k][e] = Tail(wire[k][e])]
  OBVIOUS
<1>2. GoodWires(wire')
  BY <1>1, TailGood
<1>3. PlainOK'
  BY DEF IInv, TypeOK, PlainOK
<1> QED
  BY <1>2, <1>3, WireStepKeeps

\* The client's reconnection loop
LEMMA ClientStepKeeps ==
    ASSUME IInv, ClientStep
    PROVE  IInv'
<1> USE DEF protocolVars, clientVars
<1>1. CASE OnSocketClose \/ OnSocketTimeout \/ AttemptFails
  <2> USE <1>1 DEF OnSocketClose, OnSocketTimeout, AttemptFails
  <2>1. PlainOK'
    BY DEF IInv, TypeOK, PlainOK
  <2> QED
    BY <2>1, SilentKeeps
<1>2. CASE SendConnectionTypeRequest
  <2> DEFINE e == "client"
             msgs == <<Uncounted("Control", 0)>>
  <2>1. e \in Ends /\ 0 <= incomingMsgId[e]
    BY BoundsAssumption DEF IInv, TypeOK, Ends
  <2>2. msgs \in Seq(GoodFrame(e))
    BY <2>1, UncountedGood DEF ProtocolMessageType
  <2>3. writer' = [writer EXCEPT ![e] = writer[e] \o EncodeAll(msgs)]
    BY <1>2 DEF SendConnectionTypeRequest, Write
  <2> HIDE DEF msgs
  <2>4. GoodWriters(writer')
    BY <2>1, <2>2, <2>3, WriteGood, WriterChanged
  <2>5. /\ PlainOK'
        /\ UNCHANGED <<outgoingMsgId, sent, incomingMsgId, delivered>>
        /\ incomingAckId' \in [Ends -> 0..MaxSends]
        /\ \A f \in Ends : incomingAckId'[f] <= incomingMsgId[f]
        /\ UNCHANGED <<outgoingAckId, outgoingUnackMsg, wire>>
    BY <1>2 DEF IInv, TypeOK, CountersAgree, SendConnectionTypeRequest, PlainOK
  <2>6. GoodAcks(outgoingAckId', outgoingUnackMsg') /\ GoodWires(wire')
    BY <2>5, Parts
  <2> QED
    BY <2>4, <2>5, <2>6, KeepsIInvQuiet
<1>3. CASE BeginAcceptReconnection
  <2>1. "client" \in Ends
    BY DEF Ends
  <2>2. GoodWires(wire')
    <3>1. wire' \in Abandon("client", wire)
      BY <1>3 DEF BeginAcceptReconnection
    <3> QED
      BY <2>1, <3>1, Parts, AbandonGood
  <2>3. GoodWriters(writer')
    <3>1. <<>> \in Seq(GoodFrame("client"))
      OBVIOUS
    <3>2. writer' = [writer EXCEPT !["client"] = <<>>]
      BY <1>3 DEF BeginAcceptReconnection
    <3> QED
      BY <2>1, <3>1, <3>2, WriterChanged
  <2>4. /\ UNCHANGED <<outgoingMsgId, sent, incomingMsgId, delivered>>
        /\ incomingAckId' \in [Ends -> 0..MaxSends]
        /\ \A f \in Ends : incomingAckId'[f] <= incomingMsgId[f]
        /\ UNCHANGED <<outgoingAckId, outgoingUnackMsg>>
    BY <1>3 DEF IInv, TypeOK, CountersAgree, BeginAcceptReconnection
  <2>5. PlainOK'
    <3>1. socket["client"] + 1 \in Sockets
      <4>1. socket["client"] \in Sockets
        BY <2>1 DEF IInv, TypeOK
      <4>2. socket["client"] < MaxSockets
        BY <1>3 DEF BeginAcceptReconnection
      <4> QED
        BY <4>1, <4>2, BoundsAssumption DEF Sockets
    <3> QED
      BY <1>3, <2>1, <3>1 DEF IInv, TypeOK, PlainOK, BeginAcceptReconnection
  <2>6. GoodAcks(outgoingAckId', outgoingUnackMsg')
    BY <2>4, Parts
  <2> QED
    BY <2>2, <2>3, <2>4, <2>5, <2>6, KeepsIInvQuiet
<1> QED
  BY <1>1, <1>2, <1>3 DEF ClientStep

\* The server's protocol object moves to another socket.
LEMMA ServerAcceptsKeeps ==
    ASSUME IInv, NEW k \in Sockets, NEW w, GoodWires(w),
           NEW rest \in Seq(GoodFrame("client")), NEW n \in 0..Len(rest),
           NEW tail \in Seq(GoodFrame("server")),
           ServerAccepts(k, w, rest, n, tail), handOff' \subseteq Sockets
    PROVE  IInv'
<1> USE DEF clientVars
<1> DEFINE acks == {rest[i].ack : i \in 1..n} \cup {outgoingAckId["server"]}
<1>1. PICK ack \in acks :
        /\ \A b \in acks : b <= ack
        /\ outgoingAckId' = [outgoingAckId EXCEPT !["server"] = ack]
        /\ outgoingUnackMsg' =
              [outgoingUnackMsg EXCEPT !["server"] = AfterAck("server", ack)]
        /\ incomingAckId' =
              [incomingAckId EXCEPT !["server"] = incomingMsgId["server"]]
        /\ replayRequested' = [replayRequested EXCEPT !["server"] = FALSE]
        /\ writer' = [writer EXCEPT !["server"] =
              EncodeAll(ReplayAfterReconnection("server", outgoingUnackMsg'["server"])
                        \o tail)]
        /\ isPaused' = [isPaused EXCEPT !["server"] = FALSE]
        /\ socket' = [socket EXCEPT !["server"] = k]
        /\ open' = [open EXCEPT ![socket["server"]] = FALSE]
        /\ \E w1 \in Abandon("server", w) :
              wire' = [w1 EXCEPT ![k]["client"] = SubSeq(rest, n + 1, Len(rest))]
        /\ UNCHANGED <<isReconnecting, outgoingMsgId, incomingMsgId,
                       incomingAckTimeout, connectionType, clientVars, sent,
                       delivered>>
  BY DEF ServerAccepts
<1>2. /\ "server" \in Ends /\ "client" \in Ends /\ Peer("server") = "client"
      /\ outgoingAckId \in [Ends -> 0..MaxSends]
      /\ incomingMsgId \in [Ends -> 0..MaxSends]
      /\ outgoingAckId["server"] <= incomingMsgId["client"]
      /\ Len(rest) \in Nat
  BY LenProperties DEF IInv, TypeOK, CountersAgree, Ends, Peer
<1>3. ack \in Nat /\ ack <= incomingMsgId["client"]
  <2>1. \A i \in 1..n : rest[i] \in GoodFrame("client")
    BY <1>2, ElementOfSeq
  <2>2. \A i \in 1..n : rest[i].ack \in Nat /\ rest[i].ack <= incomingMsgId["client"]
    BY <2>1 DEF GoodFrame, ProtocolMessage
  <2> QED
    BY <1>1, <1>2, <2>2, BoundsAssumption
<1>4. Max2(outgoingAckId["server"], ack) = ack
  <2>1. outgoingAckId["server"] <= ack
    BY <1>1
  <2> QED
    BY <2>1, <1>2, <1>3, BoundsAssumption DEF Max2
<1> DEFINE q == AfterAck("server", ack)
<1>5. /\ ack \in 0..MaxSends
      /\ q \in Seq(GoodFrame("server"))
      /\ q \in Seq(ProtocolMessage)
      /\ ack + Len(q) = outgoingMsgId["server"]
      /\ \A i \in 1..Len(q) : q[i].id = ack + i /\ q[i].type = "Regular"
  BY <1>2, <1>3, <1>4, AckHandled
<1>6. \A i \in 1..Len(q) : q[i] \in GoodFrame("server")
  BY <1>5, ElementOfSeq
<1> HIDE DEF q, acks
<1>7. outgoingUnackMsg' = [outgoingUnackMsg EXCEPT !["server"] = q]
  BY <1>1 DEF q
<1>8. outgoingUnackMsg'["server"] = q
  BY <1>2, <1>7 DEF IInv, TypeOK
<1>9. GoodAcks(outgoingAckId', outgoingUnackMsg')
  <2>1. GoodAcks(outgoingAckId, outgoingUnackMsg)
    BY Parts
  <2>2. GoodAcks([outgoingAckId EXCEPT !["server"] = ack],
                 [outgoingUnackMsg EXCEPT !["server"] = q])
    BY <2>1, <1>2, <1>3, <1>5, <1>6, AcksChanged
  <2> QED
    BY <2>2, <1>1, <1>7
<1>10. /\ incomingAckId' \in [Ends -> 0..MaxSends]
       /\ \A f \in Ends : incomingAckId'[f] <= incomingMsgId[f]
       /\ <<Uncounted("Ack", incomingMsgId["server"])>> \in Seq(GoodFrame("server"))
  BY <1>1, <1>2, AcknowledgeAll
<1>11. GoodWriters(writer')
  <2> DEFINE msgs == ReplayAfterReconnection("server", q) \o tail
  <2>1. ReplayAfterReconnection("server", q) \in Seq(GoodFrame("server"))
    BY <1>5, <1>10, ConcatProperties DEF ReplayAfterReconnection
  <2>2. msgs \in Seq(GoodFrame("server"))
    BY <2>1, ConcatProperties
  <2>3. writer' = [writer EXCEPT !["server"] = EncodeAll(msgs)]
    BY <1>1, <1>8
  <2> HIDE DEF msgs
  <2> QED
    BY <1>2, <2>2, <2>3, WriteGood, WriterChanged
<1>12. GoodWires(wire')
  <2>1. PICK w1 \in Abandon("server", w) :
            wire' = [w1 EXCEPT ![k]["client"] = SubSeq(rest, n + 1, Len(rest))]
    BY <1>1
  <2>2. GoodWires(w1)
    BY <1>2, AbandonGood
  <2>3. SubSeq(rest, n + 1, Len(rest)) \in Seq(GoodFrame("client"))
    <3>1. \A i \in (n + 1)..Len(rest) : rest[i] \in GoodFrame("client")
      BY <1>2, ElementOfSeq
    <3>2. n + 1 \in Int /\ Len(rest) \in Int
      BY <1>2
    <3> QED
      BY <3>1, <3>2, SubSeqProperties
  <2> QED
    BY <1>2, <2>1, <2>2, <2>3, WireChanged
<1>13. PlainOK'
  BY <1>1, <1>2 DEF IInv, TypeOK, PlainOK
<1>14. UNCHANGED <<outgoingMsgId, sent, incomingMsgId, delivered>>
  BY <1>1
<1> QED
  BY <1>9, <1>10, <1>11, <1>12, <1>13, <1>14, KeepsIInvQuiet

\* The frames the server process writes to a socket it is about to hand over
LEMMA AnswerGood ==
    ASSUME IInv, NEW k \in Sockets, NEW frames \in Seq(GoodFrame("server"))
    PROVE  GoodWires(Answer(k, frames))
<1>1. "server" \in Ends /\ wire[k]["server"] \in Seq(GoodFrame("server"))
  BY DEF IInv, FramesAreGood, Ends
<1>2. wire[k]["server"] \o frames \in Seq(GoodFrame("server"))
  BY <1>1, ConcatProperties
<1> DEFINE s == IF open[k] THEN wire[k]["server"] \o frames ELSE wire[k]["server"]
<1>3. s \in Seq(GoodFrame("server"))
  BY <1>1, <1>2
<1>4. Answer(k, frames) = [wire EXCEPT ![k]["server"] = s]
  BY DEF Answer
<1> HIDE DEF s
<1>5. GoodWires(wire)
  BY Parts
<1>6. GoodWires([wire EXCEPT ![k]["server"] = s])
  BY <1>1, <1>3, <1>5, WireChanged
<1> QED
  BY <1>4, <1>6

\* Uncounted frames without an ack are good for either end.
LEMMA NoAckGood ==
    ASSUME IInv, NEW e \in Ends, NEW type \in ProtocolMessageType \ {"Regular"}
    PROVE  Uncounted(type, 0) \in GoodFrame(e)
<1>1. 0 <= incomingMsgId[e] /\ 0 \in Nat
  BY BoundsAssumption DEF IInv, TypeOK
<1> QED
  BY <1>1, UncountedGood

\* A management connection accepts a reconnection.
LEMMA AcceptManagementKeeps ==
    ASSUME IInv, NEW k \in Sockets, AcceptManagement(k)
    PROVE  IInv'
<1> DEFINE frames == <<Uncounted("Control", 0)>>
           rest == Tail(wire[k]["client"])
<1>1. "client" \in Ends /\ "server" \in Ends /\ wire[k]["client"] # <<>>
  BY DEF Ends, AcceptManagement
<1>2. frames \in Seq(GoodFrame("server"))
  BY <1>1, NoAckGood DEF ProtocolMessageType
<1>3. GoodWires(Answer(k, frames))
  <2> HIDE DEF frames
  <2> QED
    BY <1>2, AnswerGood
<1>4. rest \in Seq(GoodFrame("client"))
  BY <1>1, TailGood
<1>5. Len(rest) = Len(wire[k]["client"]) - 1
  <2>1. wire[k]["client"] \in Seq(GoodFrame("client"))
    BY <1>1 DEF IInv, FramesAreGood
  <2> QED
    BY <2>1, <1>1, HeadTailProperties
<1>6. <<>> \in Seq(GoodFrame("server"))
  OBVIOUS
<1>7. PICK n \in 0..Len(rest) : ServerAccepts(k, Answer(k, frames), rest, n, <<>>)
  BY <1>5 DEF AcceptManagement
<1>8. handOff' \subseteq Sockets
  BY DEF AcceptManagement, IInv, TypeOK
<1> HIDE DEF frames, rest
<1> QED
  BY <1>3, <1>4, <1>6, <1>7, <1>8, ServerAcceptsKeeps

\* A socket is sent to the extension host process.
LEMMA SendSocketToExtensionHostKeeps ==
    ASSUME IInv, NEW k \in Sockets, SendSocketToExtensionHost(k)
    PROVE  IInv'
<1> USE DEF protocolVars, clientVars
<1>1. "client" \in Ends /\ "server" \in Ends /\ wire[k]["client"] # <<>>
  BY DEF Ends, SendSocketToExtensionHost
<1>2. HandOffAnswer \in Seq(GoodFrame("server"))
  <2>1. /\ Uncounted("Pause", 0) \in GoodFrame("server")
        /\ Uncounted("Control", 0) \in GoodFrame("server")
    BY <1>1, NoAckGood DEF ProtocolMessageType
  <2> QED
    BY <2>1 DEF HandOffAnswer
<1> DEFINE w == Answer(k, HandOffAnswer)
<1>3. GoodWires(w)
  BY <1>2, AnswerGood
<1>4. w[k]["client"] = wire[k]["client"]
  BY <1>1 DEF Answer, IInv, TypeOK
<1>5. Tail(wire[k]["client"]) \in Seq(GoodFrame("client"))
  BY <1>1, TailGood
<1>6. wire' = [w EXCEPT ![k]["client"] = Tail(w[k]["client"])]
  BY DEF SendSocketToExtensionHost
<1> HIDE DEF w
<1>7. GoodWires(wire')
  BY <1>1, <1>3, <1>4, <1>5, <1>6, WireChanged
<1>8. PlainOK'
  BY DEF IInv, TypeOK, PlainOK, SendSocketToExtensionHost
<1> QED
  BY <1>7, <1>8, WireStepKeeps DEF SendSocketToExtensionHost

\* The extension host process receives a socket.
LEMMA AcceptExtHostKeeps ==
    ASSUME IInv, NEW k \in Sockets, AcceptExtHost(k)
    PROVE  IInv'
<1> DEFINE tail == <<Uncounted("Resume", 0)>>
           rest == wire[k]["client"]
<1>1. "client" \in Ends /\ "server" \in Ends
  BY DEF Ends
<1>2. tail \in Seq(GoodFrame("server"))
  BY <1>1, NoAckGood DEF ProtocolMessageType
<1>3. rest \in Seq(GoodFrame("client"))
  BY <1>1 DEF IInv, FramesAreGood
<1>4. 0 \in 0..Len(rest)
  BY <1>3, LenProperties
<1>5. ServerAccepts(k, wire, rest, 0, tail) /\ handOff' \subseteq Sockets
  BY DEF AcceptExtHost, IInv, TypeOK
<1>6. GoodWires(wire)
  BY Parts
<1> HIDE DEF tail, rest
<1> QED
  BY <1>2, <1>3, <1>4, <1>5, <1>6, ServerAcceptsKeeps

\* Every step of every actor keeps the invariant.
LEMMA NextKeeps == IInv /\ [Next]_vars => IInv'
<1> SUFFICES ASSUME IInv, [Next]_vars PROVE IInv'
  OBVIOUS
<1>1. ASSUME NEW e \in Ends, EndStep(e)
      PROVE  IInv'
  <2>1. ASSUME NEW d \in Data, Send(e, d) PROVE IInv'
    BY <2>1, SendKeeps
  <2>2. CASE WriteNow(e)
    BY <2>2, WriteNowKeeps
  <2>3. CASE SendAckCheck(e)
    BY <2>3, SendAckCheckKeeps
  <2>4. CASE SendKeepAlive(e)
    BY <2>4, SendKeepAliveKeeps
  <2>5. CASE ReplayWindowElapses(e)
    <3>1. PlainOK'
      BY <2>5 DEF IInv, TypeOK, PlainOK, ReplayWindowElapses, clientVars
    <3> QED
      BY <2>5, <3>1, SilentKeeps DEF ReplayWindowElapses, clientVars
  <2>6. CASE Receive(e)
    <3> DEFINE msg == Head(Incoming(e))
    <3>1. Incoming(e) # <<>>
      BY <2>6 DEF Receive
    <3>2. \/ ReceiveNext(e, msg)
          \/ ReceiveAfterGap(e, msg)
          \/ ReceiveNothingNew(e, msg)
          \/ ReceiveReplayRequest(e, msg)
          \/ ReceivePauseResume(e, msg)
          \/ e = "client" /\ (EndAcceptReconnection(msg) \/ ReceiveLateAnswer(msg))
      BY <2>6 DEF Receive
    <3> HIDE DEF msg
    <3>3. msg = Head(Incoming(e))
      BY DEF msg
    <3> QED
      BY <3>1, <3>2, <3>3, ReceiveNextKeeps, ReceiveAfterGapKeeps,
         ReceiveSilentKeeps, ReceiveReplayRequestKeeps, EndAcceptReconnectionKeeps
  <2> QED
    BY <1>1, <2>1, <2>2, <2>3, <2>4, <2>5, <2>6 DEF EndStep
<1>2. CASE ClientStep
  BY <1>2, ClientStepKeeps
<1>3. ASSUME NEW k \in Sockets, SocketStep(k)
      PROVE  IInv'
  <2>1. CASE SocketBreaks(k)
    BY <2>1, SocketBreaksKeeps
  <2>2. ASSUME NEW e \in Ends, LoseFrame(k, e) PROVE IInv'
    BY <2>2, LoseFrameKeeps
  <2>3. CASE HandshakeReads(k)
    BY <2>3, LoseFrameKeeps DEF Ends
  <2>4. CASE AcceptManagement(k)
    BY <2>4, AcceptManagementKeeps
  <2>5. CASE SendSocketToExtensionHost(k)
    BY <2>5, SendSocketToExtensionHostKeeps
  <2>6. CASE AcceptExtHost(k)
    BY <2>6, AcceptExtHostKeeps
  <2> QED
    BY <1>3, <2>1, <2>2, <2>3, <2>4, <2>5, <2>6 DEF SocketStep
<1>4. CASE UNCHANGED vars
  <2>1. PlainOK'
    BY <1>4 DEF vars, IInv, TypeOK, PlainOK
  <2> QED
    BY <1>4, <2>1, SilentKeeps DEF vars
<1> QED
  BY <1>1, <1>2, <1>3, <1>4 DEF Next

-----------------------------------------------------------------------------
(* The theorems                                                            *)

\* IInv holds throughout: counters of the two ends agree, everything queued,
\* buffered or in flight is what send() was given under its id, and what was
\* delivered is what was sent, in order.
THEOREM Invariance == Spec => []IInv
<1>1. Init => IInv
  BY InitIInv
<1>2. IInv /\ [Next]_vars => IInv'
  BY NextKeeps
<1> QED
  BY <1>1, <1>2, PTL DEF Spec

\* The queue of unacknowledged messages holds exactly the messages after
\* outgoingAckId, which _recvAckCheck and unacknowledgedCount rely on.
THEOREM UnackQueueExactness == Spec => []UnackQueueExact
<1>1. IInv => UnackQueueExact
  BY DEF IInv
<1> QED
  BY <1>1, Invariance, PTL

\* No message is lost, whatever the sockets do: an undelivered message is still
\* queued at its sender.
THEOREM NothingIsLost == Spec => []UndeliveredIsKept
<1>1. IInv => UndeliveredIsKept
  <2> SUFFICES ASSUME IInv, NEW e \in Ends,
                      NEW n \in (Len(delivered[Peer(e)]) + 1)..Len(sent[e])
               PROVE  \E i \in 1..Len(outgoingUnackMsg[e]) :
                          /\ outgoingUnackMsg[e][i].type = "Regular"
                          /\ outgoingUnackMsg[e][i].id = n
                          /\ outgoingUnackMsg[e][i].data = sent[e][n]
    BY DEF UndeliveredIsKept
  <2> DEFINE i == n - outgoingAckId[e]
  <2>1. Peer(e) \in Ends
    BY DEF Ends, Peer
  <2>2. /\ outgoingAckId[e] \in Nat
        /\ incomingMsgId[Peer(e)] \in Nat
        /\ outgoingMsgId[e] \in Nat
        /\ Len(delivered[Peer(e)]) = incomingMsgId[Peer(e)]
        /\ Len(sent[e]) = outgoingMsgId[e]
        /\ outgoingAckId[e] <= incomingMsgId[Peer(e)]
        /\ outgoingAckId[e] + Len(outgoingUnackMsg[e]) = outgoingMsgId[e]
        /\ Len(outgoingUnackMsg[e]) \in Nat
    BY <2>1, BoundsAssumption, LenProperties
       DEF IInv, TypeOK, CountersAgree, UnackQueueExact
  <2>3. i \in 1..Len(outgoingUnackMsg[e]) /\ outgoingAckId[e] + i = n
    BY <2>2
  <2> HIDE DEF i
  <2>4. /\ outgoingUnackMsg[e][i].id = n
        /\ outgoingUnackMsg[e][i] \in GoodFrame(e)
        /\ outgoingUnackMsg[e][i].type = "Regular"
    BY <2>3 DEF IInv, UnackQueueExact, UnackIsGood
  <2>5. outgoingUnackMsg[e][i].data = sent[e][n]
    BY <2>4 DEF GoodFrame
  <2> QED
    BY <2>3, <2>4, <2>5
<1> QED
  BY <1>1, Invariance, PTL

\* The two ends implement a reliable channel: every step is a send, an in-order
\* delivery of the oldest undelivered message, or invisible.
THEOREM Refinement == Spec => ImplementsReliableChannel
<1>1. Init => Channel!Init
  BY DEF Init, Channel!Init, Ends, Channel!Ends
<1>2. IInv /\ [Next]_vars => [Channel!Next]_(Channel!vars)
  <2> SUFFICES ASSUME IInv, [Next]_vars
               PROVE  Channel!Next \/ UNCHANGED Channel!vars
    OBVIOUS
  <2>0. \A e \in Ends : e \in Channel!Ends /\ Channel!Peer(e) = Peer(e)
    BY DEF Ends, Channel!Ends, Peer, Channel!Peer
  <2>1. ASSUME NEW e \in Ends, NEW d \in Data, Send(e, d)
        PROVE  Channel!Next
    <3>1. Len(sent[e]) < MaxSends
      BY <2>1 DEF IInv, CountersAgree, Send
    <3>2. Channel!Send(e, d)
      BY <2>1, <3>1 DEF Send, Channel!Send
    <3> QED
      BY <2>0, <3>2 DEF Channel!Next
  <2>2. ASSUME NEW e \in Ends, Incoming(e) # <<>>, NEW msg,
               msg = Head(Incoming(e)), ReceiveNext(e, msg)
        PROVE  Channel!Next
    <3>1. /\ Len(delivered[e]) < Len(sent[Peer(e)])
          /\ msg.data = sent[Peer(e)][Len(delivered[e]) + 1]
      BY <2>2, ReceiveNextKeeps
    <3>2. delivered' = [delivered EXCEPT ![e] = Append(delivered[e], msg.data)]
      BY <2>2 DEF ReceiveNext
    <3>3. UNCHANGED sent
      BY <2>2 DEF ReceiveNext, ReceiveMessage
    <3>4. Channel!Deliver(e)
      BY <2>0, <3>1, <3>2, <3>3 DEF Channel!Deliver
    <3> QED
      BY <2>0, <3>4 DEF Channel!Next
  <2>3. ASSUME NEW e \in Ends, EndStep(e)
        PROVE  Channel!Next \/ UNCHANGED Channel!vars
    <3>1. CASE WriteNow(e) \/ SendAckCheck(e) \/ SendKeepAlive(e) \/ ReplayWindowElapses(e)
      BY <3>1 DEF WriteNow, SendAckCheck, SendKeepAlive, ReplayWindowElapses, Channel!vars
    <3>2. CASE Receive(e)
      <4> DEFINE msg == Head(Incoming(e))
      <4>1. \/ ReceiveNext(e, msg)
            \/ ReceiveAfterGap(e, msg)
            \/ ReceiveNothingNew(e, msg)
            \/ ReceiveReplayRequest(e, msg)
            \/ ReceivePauseResume(e, msg)
            \/ EndAcceptReconnection(msg)
            \/ ReceiveLateAnswer(msg)
        BY <3>2 DEF Receive
      <4>2. Incoming(e) # <<>>
        BY <3>2 DEF Receive
      <4> HIDE DEF msg
      <4>3. msg = Head(Incoming(e))
        BY DEF msg
      <4>4. CASE ReceiveNext(e, msg)
        BY <2>2, <4>2, <4>3, <4>4
      <4>5. CASE ~ReceiveNext(e, msg)
        BY <4>1, <4>5
           DEF ReceiveAfterGap, ReceiveNothingNew, ReceiveReplayRequest,
               ReceivePauseResume, EndAcceptReconnection, ReceiveLateAnswer,
               ReceiveMessage, Channel!vars
      <4> QED
        BY <4>4, <4>5
    <3> QED
      BY <2>1, <2>3, <3>1, <3>2 DEF EndStep
  <2>4. CASE ClientStep
    BY <2>4 DEF ClientStep, OnSocketClose, OnSocketTimeout, BeginAcceptReconnection,
                SendConnectionTypeRequest, AttemptFails, Channel!vars
  <2>5. ASSUME NEW k \in Sockets, SocketStep(k)
        PROVE  UNCHANGED Channel!vars
    BY <2>5 DEF SocketStep, SocketBreaks, LoseFrame, HandshakeReads, AcceptManagement,
                SendSocketToExtensionHost, AcceptExtHost, ServerAccepts, Channel!vars
  <2>6. CASE UNCHANGED vars
    BY <2>6 DEF vars, Channel!vars
  <2> QED
    BY <2>3, <2>4, <2>5, <2>6 DEF Next
<1> QED
  BY <1>1, <1>2, Invariance, PTL DEF Spec, ImplementsReliableChannel, Channel!Spec

=============================================================================
