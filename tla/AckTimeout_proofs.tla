------------------------- MODULE AckTimeout_proofs -------------------------
(***************************************************************************)
(* Proofs about AckTimeout for every choice of its times and bounds: the   *)
(* inductive invariant IInv, and from it that no unacknowledged message is *)
(* left without a timer, that keep alives bound the delay of an ack, and   *)
(* that a connection that works never times out.                           *)
(***************************************************************************)
EXTENDS AckTimeout, SequenceTheorems, TLAPS

-----------------------------------------------------------------------------
(* Sequences                                                               *)

\* A longer range of acks holds the frames of a shorter one.
LEMMA AcksGrow ==
    ASSUME NEW m \in Nat, NEW n \in Nat, m <= n, NEW s \in Seq(0..m)
    PROVE  s \in Seq(0..n)
<1>1. Len(s) \in Nat /\ DOMAIN s = 1..Len(s)
  BY LenProperties
<1>2. \A i \in 1..Len(s) : s[i] \in 0..n
  BY ElementOfSeq
<1>3. s = [i \in 1..Len(s) |-> s[i]]
  BY <1>1
<1>4. [i \in 1..Len(s) |-> s[i]] \in Seq(0..n)
  BY <1>1, <1>2
<1> QED
  BY <1>3, <1>4

\* Later and Sooner stay in their ranges.
LEMMA LaterInRange ==
    ASSUME NEW limit \in Nat, NEW t \in 0..limit
    PROVE  /\ Later(t, limit) \in 0..limit
           /\ Later(t, limit) >= t
           /\ Later(t, limit) <= t + 1
  BY DEF Later

\* A timer that comes nearer stays a timer.
LEMMA SoonerInRange ==
    ASSUME NEW limit \in Nat, NEW timer \in {Off} \cup 0..limit, timer /= 0
    PROVE  /\ Sooner(timer) \in {Off} \cup 0..limit
           /\ timer /= Off => Sooner(timer) = timer - 1 /\ Sooner(timer) /= Off
  BY DEF Sooner, Off

\* An older message is a message.
LEMMA AgeOK ==
    ASSUME NEW m \in Message, NEW a \in 0..TimeoutTime
    PROVE  [m EXCEPT !.age = a] \in Message /\ [m EXCEPT !.age = a].age = a
  BY DEF Message

\* The message _recvAckCheck peeks at exists.
LEMMA FirstMessage ==
    ASSUME NEW q \in Seq(Message), q /= <<>>
    PROVE  1 \in 1..Len(q) /\ q[1] \in Message /\ q[1].age \in 0..TimeoutTime
<1>1. 1 \in 1..Len(q)
  BY EmptySeq, LenProperties
<1>2. q[1] \in Message
  BY <1>1, ElementOfSeq
<1> QED
  BY <1>1, <1>2 DEF Message

-----------------------------------------------------------------------------
(* _recvAckCheck                                                           *)

\* The time is one of the four it is the maximum of, so never too long.
LEMMA MinimumTime ==
    ASSUME NEW age \in 0..TimeoutTime, NEW read \in 0..TimeoutTime,
           NEW timeout \in 0..TimeoutTime
    PROVE  LET t == MinimumTimeUntilTimeout(age, read, timeout)
           IN  /\ t \in 0..TimeoutTime
               /\ \/ t <= TimeoutTime - age
                  \/ t <= TimeoutTime - read
                  \/ t <= TimeoutTime - timeout
                  \/ t <= MinimumDelay
  BY TimesAssumption DEF MinimumTimeUntilTimeout, Max2

\* What a check leaves behind: an armed timer stays as it is; otherwise, if there
\* is something to watch, the timeout fires or the timer is armed in time.  The
\* timeout fires only when nothing was read for TimeoutTime.
LEMMA RecvAckCheckDone ==
    ASSUME NEW timer \in {Off} \cup 0..TimeoutTime,
           outgoingUnackMsg' \in Seq(Message),
           sinceRead' \in 0..TimeoutTime,
           sinceTimeout \in 0..TimeoutTime,
           timedOut \in BOOLEAN,
           RecvAckCheck(timer)
    PROVE  /\ outgoingAckTimeout' \in {Off} \cup 0..TimeoutTime
           /\ timedOut' \in BOOLEAN
           /\ sinceTimeout' \in 0..TimeoutTime
           /\ timer /= Off => outgoingAckTimeout' = timer /\ sinceTimeout' = sinceTimeout
                              /\ timedOut' = timedOut
           /\ timer = Off /\ outgoingUnackMsg' /= <<>> /\ ~isReconnecting' /\ ~timedOut' =>
                  /\ outgoingAckTimeout' /= Off
                  /\ \/ outgoingAckTimeout' <= TimeoutTime - outgoingUnackMsg'[1].age
                     \/ outgoingAckTimeout' <= TimeoutTime - sinceRead'
                     \/ outgoingAckTimeout' <= TimeoutTime - sinceTimeout'
                     \/ outgoingAckTimeout' <= MinimumDelay
           /\ sinceTimeout' /= sinceTimeout => ~isReconnecting' /\ sinceRead' >= TimeoutTime
           /\ timedOut => timedOut'
<1> DEFINE age == outgoingUnackMsg'[1].age
           check == outgoingUnackMsg' /= <<>> /\ timer = Off /\ ~isReconnecting'
           min == MinimumTimeUntilTimeout(age, sinceRead', sinceTimeout)
<1>1. PICK hasHighLoad \in BOOLEAN :
         LET fires == check /\ HasTimedOut(age, sinceRead', sinceTimeout) /\ ~hasHighLoad
         IN  /\ outgoingAckTimeout' = IF check /\ ~fires THEN min ELSE timer
             /\ timedOut' = (timedOut \/ fires)
             /\ sinceTimeout' = IF fires THEN 0 ELSE sinceTimeout
  BY DEF RecvAckCheck
<1> DEFINE fires == check /\ HasTimedOut(age, sinceRead', sinceTimeout) /\ ~hasHighLoad
<1>2. check => age \in 0..TimeoutTime
  BY FirstMessage
<1>3. check => /\ min \in 0..TimeoutTime
               /\ \/ min <= TimeoutTime - age
                  \/ min <= TimeoutTime - sinceRead'
                  \/ min <= TimeoutTime - sinceTimeout
                  \/ min <= MinimumDelay
  BY <1>2, MinimumTime
<1>4. fires => sinceRead' >= TimeoutTime
  BY DEF HasTimedOut
<1>5. CASE fires
  <2>1. timer = Off /\ outgoingAckTimeout' = timer /\ timedOut' = TRUE /\ sinceTimeout' = 0
    BY <1>1, <1>5, Zenon
  <2> HIDE DEF min, age, fires
  <2> QED
    BY <2>1, <1>4, <1>5, TimesAssumption DEF fires
<1>6. CASE ~fires /\ check
  <2>1. outgoingAckTimeout' = min /\ timedOut' = timedOut /\ sinceTimeout' = sinceTimeout
    BY <1>1, <1>6, Zenon
  <2>2. min /= Off
    BY <1>3, <1>6 DEF Off
  <2> HIDE DEF min
  <2> QED
    BY <2>1, <2>2, <1>3, <1>6
<1>7. CASE ~check
  <2>1. outgoingAckTimeout' = timer /\ timedOut' = timedOut /\ sinceTimeout' = sinceTimeout
    BY <1>1, <1>7, Zenon
  <2> HIDE DEF min, age, fires
  <2> QED
    BY <2>1, <1>7
<1> QED
  BY <1>5, <1>6, <1>7

-----------------------------------------------------------------------------
(* One lemma per action                                                    *)

\* The invariant holds initially.
LEMMA InitIInv == Init => IInv
<1> SUFFICES ASSUME Init PROVE IInv
  OBVIOUS
<1>1. Len(outgoingUnackMsg) = 0 /\ outgoingUnackMsg \in Seq(Message)
      /\ toUs \in Seq(0..incomingAckId)
  BY EmptySeq DEF Init
<1>2. /\ outgoingUnackMsg = <<>>
      /\ sinceRead = 0 /\ sinceTimeout = 0 /\ outgoingAckTimeout = Off
      /\ isReconnecting \in BOOLEAN /\ isPaused \in BOOLEAN /\ isDisposed \in BOOLEAN
      /\ timedOut \in BOOLEAN /\ dead \in BOOLEAN
      /\ incomingMsgId = 0 /\ incomingAckId = 0 /\ sinceMsg = 0
      /\ incomingAckTimeout = Off /\ keepAliveInterval = KeepAliveSendTime
      /\ waiting = 0
  BY Zenon DEF Init
<1>3. TypeOK
  BY <1>1, <1>2, TimesAssumption DEF TypeOK, Off
<1> QED
  BY <1>2, <1>3, TimesAssumption
  DEF IInv, WatchdogInTime, WaitsSinceKeepAlive, ReadsKeepAlives

\* send() arms the timer, or finds it armed for an older message.
LEMMA SendKeeps ==
    ASSUME IInv, Send
    PROVE  IInv' /\ (TimeoutFires => ~Connected \/ isDisposed)
<1> DEFINE msg == [age |-> NeverWritten, wired |-> FALSE]
           new == IF isReconnecting THEN msg ELSE Written(msg, isPaused)
<1>1. new \in Message
  BY TimesAssumption DEF IInv, TypeOK, Written, Message, NeverWritten
<1>2. /\ outgoingUnackMsg' = Append(outgoingUnackMsg, new)
      /\ outgoingUnackMsg \in Seq(Message)
  BY DEF Send, IInv, TypeOK
<1>3. /\ outgoingUnackMsg' \in Seq(Message)
      /\ Len(outgoingUnackMsg') = Len(outgoingUnackMsg) + 1
      /\ outgoingUnackMsg /= <<>> => outgoingUnackMsg'[1] = outgoingUnackMsg[1]
  <2> HIDE DEF new
  <2>1. Len(outgoingUnackMsg) \in Nat
    BY <1>2, LenProperties
  <2>2. outgoingUnackMsg /= <<>> => 1 \in 1..Len(outgoingUnackMsg)
    BY <1>2, FirstMessage
  <2> QED
    BY <1>1, <1>2, <2>1, <2>2, AppendProperties
<1>4. UNCHANGED <<isReconnecting, isPaused, isDisposed, sinceRead, incomingMsgId,
                  incomingAckId, sinceMsg, incomingAckTimeout, keepAliveInterval,
                  waiting, dead, toUs>>
  BY DEF Send, peerVars
<1>5. CASE isReconnecting
  <2>1. UNCHANGED <<outgoingAckTimeout, timedOut, sinceTimeout>>
    BY <1>5 DEF Send
  <2>2. TypeOK'
    BY <1>2, <1>3, <1>4, <2>1, LenProperties DEF IInv, TypeOK
  <2> QED
    BY <1>4, <1>5, <2>1, <2>2
    DEF IInv, WatchdogInTime, WaitsSinceKeepAlive, ReadsKeepAlives, Connected,
        TimeoutFires
<1>6. CASE ~isReconnecting
  <2>1. RecvAckCheck(outgoingAckTimeout)
    BY <1>6 DEF Send
  <2>2. /\ outgoingAckTimeout \in {Off} \cup 0..TimeoutTime
        /\ sinceRead' \in 0..TimeoutTime
        /\ sinceTimeout \in 0..TimeoutTime
        /\ timedOut \in BOOLEAN
    BY <1>4 DEF IInv, TypeOK
  <2>3. /\ outgoingAckTimeout' \in {Off} \cup 0..TimeoutTime
        /\ timedOut' \in BOOLEAN
        /\ sinceTimeout' \in 0..TimeoutTime
        /\ outgoingAckTimeout /= Off =>
              /\ outgoingAckTimeout' = outgoingAckTimeout
              /\ sinceTimeout' = sinceTimeout
              /\ timedOut' = timedOut
        /\ outgoingAckTimeout = Off => WatchdogInTime'
        /\ sinceTimeout' /= sinceTimeout => sinceRead' >= TimeoutTime
    BY <1>3, <2>1, <2>2, RecvAckCheckDone DEF WatchdogInTime
  <2>4. TypeOK'
    BY <1>2, <1>3, <1>4, <2>3, LenProperties DEF IInv, TypeOK
  <2>5. WatchdogInTime'
    <3>1. CASE outgoingAckTimeout = Off
      BY <3>1, <2>3
    <3>2. CASE outgoingAckTimeout /= Off /\ outgoingUnackMsg /= <<>>
      BY <3>2, <1>3, <1>4, <2>3 DEF IInv, WatchdogInTime
    <3>3. CASE outgoingAckTimeout /= Off /\ outgoingUnackMsg = <<>>
      <4>1. outgoingUnackMsg'[1] = new
        <5> HIDE DEF new
        <5> QED
          BY <3>3, <1>1, <1>2, AppendProperties
      <4>2. ~isDisposed => new.age = 0
        BY <1>6 DEF Written
      <4> HIDE DEF new
      <4> QED
        BY <3>3, <4>1, <4>2, <1>4, <2>2, <2>3, TimesAssumption DEF WatchdogInTime
    <3> QED
      BY <3>1, <3>2, <3>3
  <2>6. WaitsSinceKeepAlive' /\ ReadsKeepAlives'
    BY <1>4 DEF IInv, WaitsSinceKeepAlive, ReadsKeepAlives, Connected
  <2>7. TimeoutFires => ~Connected \/ isDisposed
    BY <1>4, <2>2, <2>3, TimesAssumption
    DEF TimeoutFires, IInv, TypeOK, ReadsKeepAlives
  <2> QED
    BY <2>4, <2>5, <2>6, <2>7 DEF IInv
<1> QED
  BY <1>5, <1>6

\* The timer of _recvAckCheck fires.
LEMMA OutgoingAckTimeoutKeeps ==
    ASSUME IInv, OutgoingAckTimeout
    PROVE  IInv' /\ (TimeoutFires => ~Connected \/ isDisposed)
<1>1. UNCHANGED <<outgoingUnackMsg, isReconnecting, isPaused, isDisposed, sinceRead,
                  incomingMsgId, incomingAckId, sinceMsg, incomingAckTimeout,
                  keepAliveInterval, waiting, dead, toUs>>
  BY DEF OutgoingAckTimeout, peerVars
<1>2. RecvAckCheck(Off)
  BY DEF OutgoingAckTimeout
<1>3. /\ outgoingUnackMsg' \in Seq(Message)
      /\ sinceRead' \in 0..TimeoutTime
      /\ sinceTimeout \in 0..TimeoutTime
      /\ timedOut \in BOOLEAN
  BY <1>1 DEF IInv, TypeOK
<1>4. /\ outgoingAckTimeout' \in {Off} \cup 0..TimeoutTime
      /\ timedOut' \in BOOLEAN
      /\ sinceTimeout' \in 0..TimeoutTime
      /\ WatchdogInTime'
      /\ sinceTimeout' /= sinceTimeout => sinceRead' >= TimeoutTime
  BY <1>2, <1>3, RecvAckCheckDone DEF WatchdogInTime
<1>5. TypeOK'
  BY <1>1, <1>4 DEF IInv, TypeOK
<1>6. WaitsSinceKeepAlive' /\ ReadsKeepAlives'
  BY <1>1 DEF IInv, WaitsSinceKeepAlive, ReadsKeepAlives, Connected
<1>7. TimeoutFires => ~Connected \/ isDisposed
  BY <1>1, <1>3, <1>4, TimesAssumption DEF TimeoutFires, IInv, TypeOK, ReadsKeepAlives
<1> QED
  BY <1>4, <1>5, <1>6, <1>7 DEF IInv

\* A frame is read: the next check is in time because something was read just now.
LEMMA ReceiveMessageKeeps ==
    ASSUME IInv, ReceiveMessage
    PROVE  IInv' /\ ~TimeoutFires
<1> DEFINE n == Head(toUs)
           L == Len(outgoingUnackMsg)
<1>1. /\ outgoingUnackMsg' = SubSeq(outgoingUnackMsg, n + 1, L)
      /\ incomingMsgId' = incomingMsgId - n
      /\ incomingAckId' = incomingAckId - n
      /\ toUs' = [i \in 1..(Len(toUs) - 1) |-> Max2(toUs[i + 1] - n, 0)]
      /\ sinceRead' = 0
      /\ UNCHANGED <<sinceTimeout, outgoingAckTimeout, isReconnecting, isPaused,
                     isDisposed, timedOut, sinceMsg, incomingAckTimeout,
                     keepAliveInterval, waiting, dead>>
  BY DEF ReceiveMessage, timerVars
<1>2. /\ toUs \in Seq(0..incomingAckId) /\ toUs /= <<>>
      /\ outgoingUnackMsg \in Seq(Message)
      /\ L \in Nat /\ incomingMsgId \in 0..L /\ incomingAckId \in 0..incomingMsgId
  BY LenProperties DEF ReceiveMessage, IInv, TypeOK
<1>3. n \in 0..incomingAckId /\ Len(toUs) \in Nat /\ Len(toUs) >= 1
  BY <1>2, HeadTailProperties, EmptySeq, LenProperties
<1> HIDE DEF n
<1>4. /\ outgoingUnackMsg' \in Seq(Message)
      /\ Len(outgoingUnackMsg') = L - n
  <2>1. n + 1 \in 1..(L + 1) /\ L \in 0..L
    BY <1>2, <1>3
  <2>2. CASE n < L
    <3>1. n + 1 \in 1..L /\ L \in (n + 1)..L
      BY <2>2, <1>2, <1>3
    <3> QED
      BY <1>1, <1>2, <1>3, <2>1, <2>2, <3>1, SubSeqProperties
  <2>3. CASE n = L
    BY <1>1, <1>2, <1>3, <2>1, <2>3, SubSeqProperties
  <2> QED
    BY <1>2, <1>3, <2>2, <2>3
<1>5. toUs' \in Seq(0..incomingAckId')
  <2>1. \A i \in 1..(Len(toUs) - 1) : Max2(toUs[i + 1] - n, 0) \in 0..(incomingAckId - n)
    <3> TAKE i \in 1..(Len(toUs) - 1)
    <3>1. i + 1 \in 1..Len(toUs)
      BY <1>3
    <3>2. toUs[i + 1] \in 0..incomingAckId
      BY <3>1, <1>2, ElementOfSeq
    <3> QED
      BY <3>2, <1>2, <1>3 DEF Max2
  <2> QED
    BY <2>1, <1>1, <1>3
<1>6. TypeOK'
  BY <1>1, <1>2, <1>3, <1>4, <1>5, TimesAssumption DEF IInv, TypeOK
<1>7. outgoingUnackMsg' /= <<>> => outgoingUnackMsg /= <<>>
  BY <1>2, <1>3, <1>4, EmptySeq
<1>8. WatchdogInTime'
  BY <1>1, <1>7, TimesAssumption DEF IInv, TypeOK, WatchdogInTime
<1>9. WaitsSinceKeepAlive' /\ ReadsKeepAlives'
  BY <1>1, <1>2, <1>3, TimesAssumption
  DEF IInv, TypeOK, WaitsSinceKeepAlive, ReadsKeepAlives, Connected
<1> QED
  BY <1>1, <1>6, <1>8, <1>9 DEF IInv, TimeoutFires

\* beginAcceptReconnection() and dispose() leave nothing to watch.
LEMMA BeginAcceptReconnectionKeeps ==
    ASSUME IInv, BeginAcceptReconnection
    PROVE  IInv' /\ ~TimeoutFires
<1>1. toUs' \in Seq(0..incomingAckId)
  BY EmptySeq DEF BeginAcceptReconnection
<1>2. TypeOK'
  <2>1. /\ isReconnecting' \in BOOLEAN /\ isPaused' \in BOOLEAN /\ isDisposed' \in BOOLEAN
        /\ timedOut' \in BOOLEAN /\ dead' \in BOOLEAN
        /\ sinceTimeout' = 0 /\ sinceRead' = 0
        /\ UNCHANGED <<outgoingUnackMsg, outgoingAckTimeout, incomingMsgId,
                       incomingAckId, sinceMsg, incomingAckTimeout,
                       keepAliveInterval, waiting>>
    BY DEF BeginAcceptReconnection, peerVars
  <2> QED
    BY <1>1, <2>1, TimesAssumption DEF IInv, TypeOK
<1> QED
  BY <1>2 DEF IInv, BeginAcceptReconnection, peerVars, WatchdogInTime,
              WaitsSinceKeepAlive, ReadsKeepAlives, Connected, TimeoutFires

\* dispose() keeps the invariant and times nothing out.
LEMMA DisposeKeeps ==
    ASSUME IInv, Dispose
    PROVE  IInv' /\ ~TimeoutFires
<1>1. toUs' \in Seq(0..incomingAckId)
  BY EmptySeq DEF Dispose
<1>2. TypeOK'
  BY <1>1 DEF IInv, TypeOK, Dispose, peerVars
<1> QED
  BY <1>2 DEF IInv, Dispose, peerVars, WatchdogInTime, WaitsSinceKeepAlive,
              ReadsKeepAlives, Connected, TimeoutFires

\* The acknowledgements of the peer's endAcceptReconnection()
LEMMA PeerEndAcceptReconnectionKeeps ==
    ASSUME IInv, PeerEndAcceptReconnection
    PROVE  /\ incomingMsgId' = incomingMsgId
           /\ incomingAckId' = incomingMsgId
           /\ toUs' \in Seq(0..incomingAckId')
           /\ sinceMsg' = sinceMsg /\ incomingAckTimeout' = incomingAckTimeout
           /\ keepAliveInterval' = keepAliveInterval
           /\ WaitsSinceKeepAlive'
<1>1. /\ incomingMsgId' = incomingMsgId /\ incomingAckId' = incomingMsgId
      /\ waiting' = 0 /\ toUs' = <<incomingMsgId>>
      /\ sinceMsg' = sinceMsg /\ incomingAckTimeout' = incomingAckTimeout
      /\ keepAliveInterval' = keepAliveInterval
  BY DEF PeerEndAcceptReconnection, timerVars
<1>2. incomingMsgId \in Nat
  BY LenProperties DEF IInv, TypeOK
<1>3. toUs' \in Seq(0..incomingMsgId)
  BY <1>1, <1>2
<1>4. WaitsSinceKeepAlive'
  BY <1>1, TimesAssumption DEF IInv, TypeOK, WaitsSinceKeepAlive
<1> QED
  BY <1>1, <1>3, <1>4

\* endAcceptReconnection() checks last: the timer is armed again.
LEMMA EndAcceptReconnectionKeeps ==
    ASSUME IInv, EndAcceptReconnection
    PROVE  IInv' /\ ~TimeoutFires
<1>1. /\ isReconnecting' = FALSE /\ isPaused' = ExtHost /\ sinceRead' = 0
      /\ UNCHANGED <<isDisposed, dead>>
      /\ ~isDisposed
      /\ WriteAll(isPaused')
      /\ RecvAckCheck(outgoingAckTimeout)
  BY DEF EndAcceptReconnection, RecvAckCheckAtEnd
<1>2. /\ outgoingUnackMsg \in Seq(Message)
      /\ Len(outgoingUnackMsg) \in Nat
      /\ isPaused' \in BOOLEAN
  BY <1>1, FlagsAssumption, LenProperties DEF IInv, TypeOK
<1>3. /\ outgoingUnackMsg' \in Seq(Message)
      /\ Len(outgoingUnackMsg') = Len(outgoingUnackMsg)
      /\ \A i \in 1..Len(outgoingUnackMsg) : outgoingUnackMsg'[i].age = 0
  <2>1. \A i \in 1..Len(outgoingUnackMsg) :
           /\ Written(outgoingUnackMsg[i], isPaused') \in Message
           /\ Written(outgoingUnackMsg[i], isPaused').age = 0
    <3> TAKE i \in 1..Len(outgoingUnackMsg)
    <3>1. (outgoingUnackMsg[i].wired \/ ~isPaused') \in BOOLEAN
      OBVIOUS
    <3> QED
      BY <1>1, <3>1, TimesAssumption DEF Written, Message
  <2>2. outgoingUnackMsg' = [i \in 1..Len(outgoingUnackMsg) |->
                                Written(outgoingUnackMsg[i], isPaused')]
    BY <1>1 DEF WriteAll
  <2> QED
    BY <1>2, <2>1, <2>2
<1>4. /\ outgoingAckTimeout \in {Off} \cup 0..TimeoutTime
      /\ sinceRead' \in 0..TimeoutTime
      /\ sinceTimeout \in 0..TimeoutTime
      /\ timedOut \in BOOLEAN
  BY <1>1, TimesAssumption DEF IInv, TypeOK
<1>5. /\ outgoingAckTimeout' \in {Off} \cup 0..TimeoutTime
      /\ timedOut' \in BOOLEAN
      /\ sinceTimeout' \in 0..TimeoutTime
      /\ outgoingAckTimeout /= Off => outgoingAckTimeout' = outgoingAckTimeout
      /\ outgoingAckTimeout = Off => WatchdogInTime'
      /\ sinceTimeout' /= sinceTimeout => sinceRead' >= TimeoutTime
  BY <1>1, <1>3, <1>4, RecvAckCheckDone DEF WatchdogInTime
<1>6. WatchdogInTime'
  <2>1. CASE outgoingAckTimeout /= Off
    BY <2>1, <1>1, <1>4, <1>5, TimesAssumption DEF WatchdogInTime
  <2> QED
    BY <2>1, <1>5
<1>7. /\ incomingMsgId' = incomingMsgId
      /\ incomingAckId' \in 0..incomingMsgId
      /\ toUs' \in Seq(0..incomingAckId')
      /\ sinceMsg' = sinceMsg /\ incomingAckTimeout' = incomingAckTimeout
      /\ keepAliveInterval' = keepAliveInterval
      /\ WaitsSinceKeepAlive'
  <2>1. CASE ExtHost
    <3>1. UNCHANGED <<incomingMsgId, incomingAckId, sinceMsg, incomingAckTimeout,
                      keepAliveInterval, waiting, toUs>>
      BY <2>1 DEF EndAcceptReconnection, peerVars
    <3> QED
      BY <3>1 DEF IInv, TypeOK, WaitsSinceKeepAlive
  <2>2. CASE ~ExtHost
    <3>1. PeerEndAcceptReconnection
      BY <2>2 DEF EndAcceptReconnection
    <3>2. incomingMsgId \in Nat
      BY LenProperties DEF IInv, TypeOK
    <3> QED
      BY <3>1, <3>2, PeerEndAcceptReconnectionKeeps
  <2> QED
    BY <2>1, <2>2
<1>8. waiting' \in 0..(KeepAliveSendTime + 1)
  BY <1>7, TimesAssumption DEF EndAcceptReconnection, PeerEndAcceptReconnection,
                               peerVars, IInv, TypeOK
<1>9. TypeOK'
  BY <1>1, <1>2, <1>3, <1>4, <1>5, <1>7, <1>8 DEF IInv, TypeOK
<1>10. ReadsKeepAlives'
  BY <1>1, <1>7, TimesAssumption DEF IInv, TypeOK, ReadsKeepAlives
<1>11. ~TimeoutFires
  BY <1>1, <1>4, <1>5, TimesAssumption DEF TimeoutFires
<1> QED
  BY <1>6, <1>7, <1>9, <1>10, <1>11 DEF IInv

\* The hand-off is done: the peer's replay was read just now.
LEMMA ReceiveResumeKeeps ==
    ASSUME IInv, ReceiveResume
    PROVE  IInv' /\ ~TimeoutFires
<1>1. /\ isPaused' = FALSE /\ sinceRead' = 0
      /\ UNCHANGED <<sinceTimeout, outgoingAckTimeout, isReconnecting, isDisposed,
                     timedOut, dead>>
      /\ PeerEndAcceptReconnection
  BY DEF ReceiveResume
<1>2. outgoingUnackMsg \in Seq(Message) /\ Len(outgoingUnackMsg) \in Nat
  BY LenProperties DEF IInv, TypeOK
<1>3. /\ outgoingUnackMsg' \in Seq(Message)
      /\ Len(outgoingUnackMsg') = Len(outgoingUnackMsg)
  <2>1. \A i \in 1..Len(outgoingUnackMsg) :
           [age |-> outgoingUnackMsg[i].age, wired |-> TRUE] \in Message
    BY <1>2, ElementOfSeq DEF Message
  <2>2. outgoingUnackMsg' = [i \in 1..Len(outgoingUnackMsg) |->
                                [age |-> outgoingUnackMsg[i].age, wired |-> TRUE]]
    BY DEF ReceiveResume
  <2> QED
    BY <1>2, <2>1, <2>2
<1>4. /\ incomingMsgId' = incomingMsgId
      /\ incomingAckId' = incomingMsgId
      /\ toUs' \in Seq(0..incomingAckId')
      /\ sinceMsg' = sinceMsg /\ incomingAckTimeout' = incomingAckTimeout
      /\ keepAliveInterval' = keepAliveInterval
      /\ WaitsSinceKeepAlive'
  BY <1>1, PeerEndAcceptReconnectionKeeps
<1>5. waiting' = 0
  BY <1>1 DEF PeerEndAcceptReconnection
<1>6. TypeOK'
  <2>1. isPaused' \in BOOLEAN
    BY <1>1
  <2> QED
    BY <2>1, <1>1, <1>2, <1>3, <1>4, <1>5, TimesAssumption DEF IInv, TypeOK
<1>7. outgoingUnackMsg' /= <<>> => outgoingUnackMsg /= <<>>
  BY <1>2, <1>3, EmptySeq
<1>8. WatchdogInTime'
  BY <1>1, <1>7, TimesAssumption DEF IInv, TypeOK, WatchdogInTime
<1>9. ReadsKeepAlives'
  BY <1>1, <1>4, TimesAssumption DEF IInv, TypeOK, ReadsKeepAlives
<1> QED
  BY <1>1, <1>4, <1>6, <1>8, <1>9 DEF IInv, TimeoutFires

\* A frame of the peer acknowledges everything and is one more thing to read.
LEMMA PeerWritesKeeps ==
    ASSUME IInv, PeerWrites
    PROVE  /\ incomingAckId' = incomingMsgId
           /\ waiting' = 0
           /\ toUs' \in Seq(0..incomingMsgId)
           /\ Connected /\ ~isDisposed => toUs' /= <<>>
<1>1. /\ incomingMsgId \in Nat /\ incomingAckId \in Nat /\ incomingAckId <= incomingMsgId
      /\ toUs \in Seq(0..incomingAckId)
  BY LenProperties DEF IInv, TypeOK
<1>2. toUs \in Seq(0..incomingMsgId)
  BY <1>1, AcksGrow
<1>3. /\ Append(toUs, incomingMsgId) \in Seq(0..incomingMsgId)
      /\ Append(toUs, incomingMsgId) /= <<>>
  BY <1>1, <1>2, AppendProperties
<1> QED
  BY <1>2, <1>3 DEF PeerWrites

\* A message arrives at the peer.
LEMMA PeerReceivesKeeps ==
    ASSUME IInv, PeerReceives
    PROVE  IInv' /\ ~TimeoutFires
<1>1. TypeOK'
  BY LenProperties, TimesAssumption
  DEF IInv, TypeOK, PeerReceives, InFlight, ourVars
<1>2. WaitsSinceKeepAlive'
  BY LenProperties DEF IInv, TypeOK, WaitsSinceKeepAlive, PeerReceives, ourVars
<1> QED
  BY <1>1, <1>2 DEF IInv, PeerReceives, ourVars, WatchdogInTime, ReadsKeepAlives,
                    Connected, TimeoutFires

\* The acknowledge timer of the peer fires.
LEMMA SendAckCheckKeeps ==
    ASSUME IInv, SendAckCheck
    PROVE  IInv' /\ ~TimeoutFires
<1>1. UNCHANGED <<outgoingUnackMsg, sinceRead, sinceTimeout, outgoingAckTimeout,
                  isReconnecting, isPaused, isDisposed, timedOut, incomingMsgId,
                  sinceMsg, keepAliveInterval, dead>>
  BY DEF SendAckCheck, ourVars
<1>2. incomingAckTimeout' \in {Off} \cup 0..AcknowledgeTime
  BY TimesAssumption DEF SendAckCheck, IInv, TypeOK
<1>3. CASE PeerWrites
  <2>1. /\ incomingAckId' = incomingMsgId /\ waiting' = 0
        /\ toUs' \in Seq(0..incomingMsgId)
        /\ Connected /\ ~isDisposed => toUs' /= <<>>
    BY <1>3, PeerWritesKeeps
  <2>2. TypeOK'
    BY <1>1, <1>2, <2>1, LenProperties, TimesAssumption DEF IInv, TypeOK
  <2> QED
    BY <1>1, <2>1, <2>2 DEF IInv, TypeOK, WatchdogInTime, WaitsSinceKeepAlive,
                            ReadsKeepAlives, Connected, TimeoutFires
<1>4. CASE UNCHANGED <<incomingAckId, waiting, toUs>>
  <2>1. TypeOK'
    BY <1>1, <1>2, <1>4 DEF IInv, TypeOK
  <2> QED
    BY <1>1, <1>4, <2>1 DEF IInv, WatchdogInTime, WaitsSinceKeepAlive,
                            ReadsKeepAlives, Connected, TimeoutFires
<1> QED
  BY <1>3, <1>4 DEF SendAckCheck

\* The keep alive, and a message of the peer's own.
LEMMA PeerFrameKeeps ==
    ASSUME IInv, SendKeepAlive \/ PeerSends
    PROVE  IInv' /\ ~TimeoutFires
<1>1. /\ UNCHANGED <<outgoingUnackMsg, sinceRead, sinceTimeout, outgoingAckTimeout,
                     isReconnecting, isPaused, isDisposed, timedOut, incomingMsgId,
                     sinceMsg, incomingAckTimeout, dead>>
      /\ keepAliveInterval' \in {keepAliveInterval, KeepAliveSendTime}
      /\ PeerWrites
  BY DEF SendKeepAlive, PeerSends, ourVars, timerVars
<1>2. /\ incomingAckId' = incomingMsgId /\ waiting' = 0
      /\ toUs' \in Seq(0..incomingMsgId)
      /\ Connected /\ ~isDisposed => toUs' /= <<>>
  BY <1>1, PeerWritesKeeps
<1>3. TypeOK'
  BY <1>1, <1>2, LenProperties, TimesAssumption DEF IInv, TypeOK
<1>4. WaitsSinceKeepAlive'
  <2>1. keepAliveInterval' \in 0..KeepAliveSendTime
    BY <1>3 DEF TypeOK
  <2>2. waiting' = 0
    BY <1>2
  <2>3. PICK k \in 0..KeepAliveSendTime : keepAliveInterval' = k
    BY <2>1
  <2>4. waiting' + keepAliveInterval' <= KeepAliveSendTime
    BY <2>2, <2>3, TimesAssumption
  <2> QED
    BY <2>2, <2>4 DEF WaitsSinceKeepAlive
<1>5. ReadsKeepAlives'
  BY <1>1, <1>2 DEF IInv, ReadsKeepAlives, Connected
<1>6. WatchdogInTime' /\ ~TimeoutFires
  BY <1>1 DEF IInv, WatchdogInTime, TimeoutFires
<1> QED
  BY <1>3, <1>4, <1>5, <1>6 DEF IInv

\* The socket dies.
LEMMA SocketDiesKeeps ==
    ASSUME IInv, SocketDies
    PROVE  IInv' /\ ~TimeoutFires
<1>1. toUs' \in Seq(0..incomingAckId)
  BY EmptySeq DEF SocketDies
<1>2. TypeOK'
  BY <1>1 DEF IInv, TypeOK, SocketDies, ourVars, peerVars
<1> QED
  BY <1>2 DEF IInv, SocketDies, ourVars, peerVars, WatchdogInTime,
              WaitsSinceKeepAlive, ReadsKeepAlives, Connected, TimeoutFires

\* A tick: every bound moves by one with the timer it bounds.
LEMMA TickKeeps ==
    ASSUME IInv, Tick
    PROVE  IInv' /\ ~TimeoutFires
<1>1. /\ UNCHANGED <<isReconnecting, isPaused, isDisposed, timedOut, incomingMsgId,
                     incomingAckId, dead, toUs>>
      /\ sinceRead' = Later(sinceRead, TimeoutTime)
      /\ sinceTimeout' = Later(sinceTimeout, TimeoutTime)
      /\ outgoingAckTimeout' = Sooner(outgoingAckTimeout)
      /\ sinceMsg' = Later(sinceMsg, AcknowledgeTime)
      /\ incomingAckTimeout' = Sooner(incomingAckTimeout)
      /\ keepAliveInterval' = keepAliveInterval - 1
      /\ outgoingAckTimeout /= 0 /\ incomingAckTimeout /= 0 /\ keepAliveInterval /= 0
      /\ toUs = <<>>
  BY DEF Tick
<1>2. /\ sinceRead' \in 0..TimeoutTime /\ sinceRead' <= sinceRead + 1
      /\ sinceTimeout' \in 0..TimeoutTime /\ sinceTimeout' <= sinceTimeout + 1
      /\ sinceTimeout' >= sinceTimeout
      /\ sinceMsg' \in 0..AcknowledgeTime
  BY <1>1, LaterInRange, TimesAssumption DEF IInv, TypeOK
<1>3. /\ outgoingAckTimeout' \in {Off} \cup 0..TimeoutTime
      /\ outgoingAckTimeout /= Off => /\ outgoingAckTimeout' = outgoingAckTimeout - 1
                                      /\ outgoingAckTimeout' /= Off
      /\ incomingAckTimeout' \in {Off} \cup 0..AcknowledgeTime
  BY <1>1, SoonerInRange, TimesAssumption DEF IInv, TypeOK
<1>4. keepAliveInterval' \in 0..KeepAliveSendTime
  BY <1>1, TimesAssumption DEF IInv, TypeOK
<1>5. waiting' \in 0..(KeepAliveSendTime + 1) /\ WaitsSinceKeepAlive'
  <2>1. waiting \in 0..(KeepAliveSendTime + 1) /\ KeepAliveSendTime + 1 \in Nat
    BY TimesAssumption DEF IInv, TypeOK
  <2>2. /\ Later(waiting, KeepAliveSendTime + 1) \in 0..(KeepAliveSendTime + 1)
        /\ Later(waiting, KeepAliveSendTime + 1) <= waiting + 1
    BY <2>1, LaterInRange
  <2>3. waiting' = IF incomingAckId < incomingMsgId
                   THEN Later(waiting, KeepAliveSendTime + 1) ELSE waiting
    BY DEF Tick
  <2>4. incomingMsgId \in Nat /\ incomingAckId \in Nat
    BY LenProperties DEF IInv, TypeOK
  <2>5. waiting + keepAliveInterval <= KeepAliveSendTime
        /\ (incomingAckId = incomingMsgId => waiting = 0)
    BY DEF IInv, WaitsSinceKeepAlive
  <2> QED
    BY <1>1, <1>4, <2>1, <2>2, <2>3, <2>4, <2>5, TimesAssumption
    DEF WaitsSinceKeepAlive, IInv, TypeOK
<1>6. outgoingUnackMsg \in Seq(Message) /\ Len(outgoingUnackMsg) \in Nat
  BY LenProperties DEF IInv, TypeOK
<1>7. /\ outgoingUnackMsg' \in Seq(Message)
      /\ Len(outgoingUnackMsg') = Len(outgoingUnackMsg)
      /\ \A i \in 1..Len(outgoingUnackMsg) :
            outgoingUnackMsg'[i].age <= outgoingUnackMsg[i].age + 1
  <2> DEFINE older(i) == [outgoingUnackMsg[i] EXCEPT
                             !.age = Later(outgoingUnackMsg[i].age, TimeoutTime)]
  <2>1. ASSUME NEW i \in 1..Len(outgoingUnackMsg)
        PROVE  /\ older(i) \in Message
               /\ older(i).age <= outgoingUnackMsg[i].age + 1
    <3>1. outgoingUnackMsg[i] \in Message
      BY <1>6, ElementOfSeq
    <3>2. outgoingUnackMsg[i].age \in 0..TimeoutTime
      BY <3>1 DEF Message
    <3>3. /\ Later(outgoingUnackMsg[i].age, TimeoutTime) \in 0..TimeoutTime
          /\ Later(outgoingUnackMsg[i].age, TimeoutTime) <= outgoingUnackMsg[i].age + 1
      BY <3>2, LaterInRange, TimesAssumption
    <3>4. older(i) \in Message /\ older(i).age = Later(outgoingUnackMsg[i].age, TimeoutTime)
      BY <3>1, <3>3, AgeOK
    <3> QED
      BY <3>3, <3>4
  <2>2. outgoingUnackMsg' = [i \in 1..Len(outgoingUnackMsg) |-> older(i)]
    BY DEF Tick
  <2> HIDE DEF older
  <2> QED
    BY <1>6, <2>1, <2>2
<1>8. TypeOK'
  BY <1>1, <1>2, <1>3, <1>4, <1>5, <1>7 DEF IInv, TypeOK
<1>9. WatchdogInTime'
  <2> SUFFICES ASSUME outgoingUnackMsg' /= <<>>, ~isReconnecting, ~isDisposed, ~timedOut
               PROVE  /\ outgoingAckTimeout' /= Off
                      /\ \/ outgoingAckTimeout' <= TimeoutTime - outgoingUnackMsg'[1].age
                         \/ outgoingAckTimeout' <= TimeoutTime - sinceRead'
                         \/ outgoingAckTimeout' <= TimeoutTime - sinceTimeout'
                         \/ outgoingAckTimeout' <= MinimumDelay
    BY <1>1 DEF WatchdogInTime
  <2>1. outgoingUnackMsg /= <<>>
    BY <1>6, <1>7, EmptySeq
  <2>2. /\ 1 \in 1..Len(outgoingUnackMsg)
        /\ outgoingUnackMsg[1].age \in 0..TimeoutTime
        /\ outgoingUnackMsg'[1].age \in 0..TimeoutTime
    BY <2>1, <1>6, <1>7, FirstMessage
  <2>3. outgoingUnackMsg'[1].age <= outgoingUnackMsg[1].age + 1
    BY <2>2, <1>7
  <2>4. /\ outgoingAckTimeout /= Off
        /\ \/ outgoingAckTimeout <= TimeoutTime - outgoingUnackMsg[1].age
           \/ outgoingAckTimeout <= TimeoutTime - sinceRead
           \/ outgoingAckTimeout <= TimeoutTime - sinceTimeout
           \/ outgoingAckTimeout <= MinimumDelay
    BY <2>1 DEF IInv, WatchdogInTime
  <2>5. outgoingAckTimeout' = outgoingAckTimeout - 1 /\ outgoingAckTimeout' /= Off
    BY <2>4, <1>3
  <2>6. /\ outgoingAckTimeout \in 0..TimeoutTime /\ TimeoutTime \in Nat /\ MinimumDelay \in Nat
        /\ sinceRead \in 0..TimeoutTime /\ sinceTimeout \in 0..TimeoutTime
    BY <2>4, TimesAssumption DEF IInv, TypeOK
  <2>7. CASE outgoingAckTimeout <= TimeoutTime - outgoingUnackMsg[1].age
    BY <2>2, <2>3, <2>5, <2>6, <2>7
  <2>8. CASE outgoingAckTimeout <= TimeoutTime - sinceRead
    <3>1. PICK t \in 0..TimeoutTime : sinceRead' = t
      BY <1>2
    <3>2. outgoingAckTimeout' <= TimeoutTime - sinceRead'
      BY <1>2, <2>5, <2>6, <2>8, <3>1
    <3> QED
      BY <3>2, <2>5
  <2>9. CASE outgoingAckTimeout <= TimeoutTime - sinceTimeout
    <3>1. PICK t \in 0..TimeoutTime : sinceTimeout' = t
      BY <1>2
    <3>2. outgoingAckTimeout' <= TimeoutTime - sinceTimeout'
      BY <1>2, <2>5, <2>6, <2>9, <3>1
    <3> QED
      BY <3>2, <2>5
  <2>10. CASE outgoingAckTimeout <= MinimumDelay
    BY <2>5, <2>6, <2>10
  <2> QED
    BY <2>4, <2>7, <2>8, <2>9, <2>10
<1>10. ReadsKeepAlives'
  BY <1>1, <1>2, <1>4, TimesAssumption DEF IInv, TypeOK, ReadsKeepAlives, Connected
<1>11. ~TimeoutFires
  BY <1>2 DEF TimeoutFires, IInv, TypeOK
<1> QED
  BY <1>5, <1>8, <1>9, <1>10, <1>11 DEF IInv

-----------------------------------------------------------------------------
(* The theorems                                                            *)

\* Every step keeps the invariant; the timeout fires only where it may.
LEMMA NextKeeps ==
    ASSUME IInv, [Next]_vars
    PROVE  IInv' /\ (TimeoutFires => dead \/ isPaused \/ isDisposed)
<1>1. CASE Send
  <2>1. IInv' /\ (TimeoutFires => ~Connected \/ isDisposed)
    BY <1>1, SendKeeps
  <2>2. isReconnecting => ~TimeoutFires
    BY <1>1 DEF Send, TimeoutFires, IInv, TypeOK
  <2> QED
    BY <2>1, <2>2 DEF Connected
<1>2. CASE OutgoingAckTimeout
  <2>1. IInv' /\ (TimeoutFires => ~Connected \/ isDisposed)
    BY <1>2, OutgoingAckTimeoutKeeps
  <2>2. isReconnecting => ~TimeoutFires
    BY <1>2 DEF OutgoingAckTimeout, RecvAckCheck, TimeoutFires, IInv, TypeOK
  <2> QED
    BY <2>1, <2>2 DEF Connected
<1>3. CASE ReceiveMessage
  BY <1>3, ReceiveMessageKeeps
<1>4. CASE BeginAcceptReconnection
  BY <1>4, BeginAcceptReconnectionKeeps
<1>5. CASE EndAcceptReconnection
  BY <1>5, EndAcceptReconnectionKeeps
<1>6. CASE ReceiveResume
  BY <1>6, ReceiveResumeKeeps
<1>7. CASE Dispose
  BY <1>7, DisposeKeeps
<1>8. CASE PeerReceives
  BY <1>8, PeerReceivesKeeps
<1>9. CASE SendAckCheck
  BY <1>9, SendAckCheckKeeps
<1>10. CASE SendKeepAlive \/ PeerSends
  BY <1>10, PeerFrameKeeps
<1>11. CASE SocketDies
  BY <1>11, SocketDiesKeeps
<1>12. CASE Tick
  BY <1>12, TickKeeps
<1>13. CASE UNCHANGED vars
  BY <1>13 DEF vars, IInv, TypeOK, WatchdogInTime, WaitsSinceKeepAlive,
               ReadsKeepAlives, Connected, TimeoutFires
<1> QED
  BY <1>1, <1>2, <1>3, <1>4, <1>5, <1>6, <1>7, <1>8, <1>9, <1>10, <1>11, <1>12,
     <1>13
  DEF Next

\* The inductive invariant of the clocks, for all times and any queue length.
THEOREM Invariance == Spec => []IInv
<1>1. IInv /\ [Next]_vars => IInv'
  BY NextKeeps
<1> QED
  BY InitIInv, <1>1, PTL DEF Spec

\* _recvAckCheck never loses its timer while there is something to watch, so a
\* dead connection with an unacknowledged message is always found.
THEOREM Watchdog == Spec => []WatchdogInTime
<1>1. IInv => WatchdogInTime
  BY DEF IInv
<1> QED
  BY Invariance, <1>1, PTL

\* No received message waits for its ack for more than KeepAliveSendTime.
THEOREM AckDelay == Spec => []AcknowledgedByKeepAlive
<1>1. IInv => AcknowledgedByKeepAlive
  BY TimesAssumption DEF IInv, TypeOK, WaitsSinceKeepAlive, AcknowledgedByKeepAlive
<1> QED
  BY Invariance, <1>1, PTL

\* A connection that works never times out, whatever is sent and however often it
\* reconnects, as soon as KeepAliveSendTime < TimeoutTime.
THEOREM WorkingConnectionStays == Spec => NoSpuriousTimeout
<1>1. IInv /\ [Next]_vars => [TimeoutFires => dead \/ isPaused \/ isDisposed]_vars
  BY NextKeeps
<1> QED
  BY Invariance, <1>1, PTL DEF Spec, NoSpuriousTimeout

=============================================================================
