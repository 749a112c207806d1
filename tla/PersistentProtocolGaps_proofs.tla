------------------ MODULE PersistentProtocolGaps_proofs ------------------
(***************************************************************************)
(* Proofs about PersistentProtocol over sockets that lose nothing while    *)
(* they are up: no receiver ever sees a gap, and the client is silent      *)
(* while its socket is on its way to the extension host process.  IInv and *)
(* its proof are in PersistentProtocol_proofs.                             *)
(***************************************************************************)
EXTENDS PersistentProtocol_proofs

-----------------------------------------------------------------------------
(* Frames in a sequence                                                    *)

\* What the tail, a prefix and a concatenation consist of.
LEMMA TailIs ==
    ASSUME NEW S, NEW s \in Seq(S), s /= <<>>
    PROVE  /\ Tail(s) \in Seq(S)
           /\ Len(s) \in Nat \ {0}
           /\ Len(Tail(s)) = Len(s) - 1
           /\ \A i \in 1..Len(Tail(s)) : Tail(s)[i] = s[i + 1]
           /\ Head(s) = s[1]
  BY HeadTailProperties, LenProperties, EmptySeq

LEMMA HeadIs ==
    ASSUME NEW S, NEW s \in Seq(S), s /= <<>>
    PROVE  1 \in 1..Len(s) /\ Head(s) = s[1]
<1>1. Len(s) \in Nat \ {0} /\ Head(s) = s[1]
  BY TailIs
<1> QED
  BY <1>1

\* A prefix of a sequence, as the sockets that break leave it
LEMMA PrefixIs ==
    ASSUME NEW S, NEW s \in Seq(S), NEW p \in Prefixes(s)
    PROVE  /\ p \in Seq(S)
           /\ Len(p) \in Nat
           /\ Len(p) <= Len(s)
           /\ \A i \in 1..Len(p) : p[i] = s[i]
<1>1. PICK n \in 0..Len(s) : p = SubSeq(s, 1, n)
  BY DEF Prefixes
<1>2. Len(s) \in Nat
  BY LenProperties
<1>3. \A i \in 1..n : i \in 1..Len(s)
  BY <1>2
<1>4. \A i \in 1..n : s[i] \in S
  BY <1>3, ElementOfSeq
<1>5. p = [i \in 1..n |-> s[i]]
  BY <1>1, <1>2, SubSeqProperties
<1> QED
  BY <1>2, <1>3, <1>4, <1>5

\* A concatenation, element by element
LEMMA ConcatIs ==
    ASSUME NEW S, NEW s \in Seq(S), NEW t \in Seq(S)
    PROVE  /\ s \o t \in Seq(S)
           /\ Len(s) \in Nat
           /\ Len(t) \in Nat
           /\ Len(s \o t) = Len(s) + Len(t)
           /\ \A i \in 1..Len(s) : (s \o t)[i] = s[i]
           /\ \A i \in 1..Len(t) : (s \o t)[Len(s) + i] = t[i]
<1>1. Len(s) \in Nat /\ Len(t) \in Nat
  BY LenProperties
<1>2. /\ s \o t \in Seq(S)
      /\ Len(s \o t) = Len(s) + Len(t)
      /\ \A i \in 1..(Len(s) + Len(t)) :
            (s \o t)[i] = IF i <= Len(s) THEN s[i] ELSE t[i - Len(s)]
  BY ConcatProperties
<1>3. ASSUME NEW i \in 1..Len(s)
      PROVE  (s \o t)[i] = s[i]
  BY <1>1, <1>2
<1>4. ASSUME NEW i \in 1..Len(t)
      PROVE  (s \o t)[Len(s) + i] = t[i]
  <2>1. Len(s) + i \in 1..(Len(s) + Len(t)) /\ ~(Len(s) + i <= Len(s)) /\ Len(s) + i - Len(s) = i
    BY <1>1
  <2> QED
    BY <1>2, <2>1
<1> QED
  BY <1>1, <1>2, <1>3, <1>4

\* Concatenation is associative; stated in the direction used below.
LEMMA Regroup ==
    ASSUME NEW S, NEW s \in Seq(S), NEW t \in Seq(S), NEW u \in Seq(S)
    PROVE  s \o (t \o u) = (s \o t) \o u
<1>1. (s \o t) \o u = s \o (t \o u)
  BY ConcatAssociative
<1> QED
  BY <1>1

\* Reading the first frame of a pipeline reads the first frame in flight.
LEMMA TailOfConcat ==
    ASSUME NEW S, NEW s \in Seq(S), NEW t \in Seq(S), s /= <<>>
    PROVE  Tail(s \o t) = Tail(s) \o t
  BY ConcatProperties, HeadTailProperties

\* A kind of frame is absent from a concatenation when it is from both parts.
LEMMA WithoutConcat ==
    ASSUME NEW S, NEW s \in Seq(S), NEW t \in Seq(S), NEW type
    PROVE  Without(type, s \o t) <=> Without(type, s) /\ Without(type, t)
<1>1. ASSUME Without(type, s \o t)
      PROVE  Without(type, s) /\ Without(type, t)
  <2>1. ASSUME NEW i \in 1..Len(s)
        PROVE  s[i].type /= type
    BY <1>1, <2>1, ConcatIs DEF Without
  <2>2. ASSUME NEW i \in 1..Len(t)
        PROVE  t[i].type /= type
    <3>1. Len(s) + i \in 1..Len(s \o t)
      BY ConcatIs
    <3> QED
      BY <1>1, <3>1, ConcatIs DEF Without
  <2> QED
    BY <2>1, <2>2 DEF Without
<1>2. ASSUME Without(type, s), Without(type, t), NEW i \in 1..Len(s \o t)
      PROVE  (s \o t)[i].type /= type
  <2>1. Len(s) \in Nat /\ Len(t) \in Nat /\ Len(s \o t) = Len(s) + Len(t)
    BY ConcatIs
  <2>2. CASE i <= Len(s)
    <3>1. i \in 1..Len(s)
      BY <2>1, <2>2
    <3> QED
      BY <1>2, <3>1, ConcatIs DEF Without
  <2>3. CASE i > Len(s)
    <3>1. i - Len(s) \in 1..Len(t) /\ Len(s) + (i - Len(s)) = i
      BY <2>1, <2>3
    <3>2. (s \o t)[Len(s) + (i - Len(s))] = t[i - Len(s)]
      BY <3>1, ConcatIs
    <3> QED
      BY <1>2, <3>1, <3>2 DEF Without
  <2> QED
    BY <2>1, <2>2, <2>3
<1> QED
  BY <1>1, <1>2 DEF Without

\* Reading a frame brings in no other kind of frame.
LEMMA WithoutTail ==
    ASSUME NEW S, NEW s \in Seq(S), s /= <<>>, NEW type, Without(type, s)
    PROVE  Without(type, Tail(s))
<1>1. ASSUME NEW i \in 1..Len(Tail(s))
      PROVE  i + 1 \in 1..Len(s)
  BY TailIs
<1> QED
  BY <1>1, TailIs DEF Without

\* Neither does losing a suffix.
LEMMA WithoutPrefix ==
    ASSUME NEW S, NEW s \in Seq(S), NEW p \in Prefixes(s), NEW type, Without(type, s)
    PROVE  Without(type, p)
<1>0. Len(s) \in Nat
  BY LenProperties
<1>1. ASSUME NEW i \in 1..Len(p)
      PROVE  i \in 1..Len(s)
  BY <1>0, PrefixIs
<1> QED
  BY <1>1, PrefixIs DEF Without

\* A message is in a concatenation when it is in one of the parts.
LEMMA HoldsConcat ==
    ASSUME NEW S, NEW s \in Seq(S), NEW t \in Seq(S), NEW id
    PROVE  Holds(s \o t, id) <=> Holds(s, id) \/ Holds(t, id)
<1>0. Len(s) \in Nat /\ Len(t) \in Nat /\ Len(s \o t) = Len(s) + Len(t)
  BY ConcatIs
<1>1. ASSUME Holds(s, id)
      PROVE  Holds(s \o t, id)
  <2>1. PICK i \in 1..Len(s) : s[i].type = "Regular" /\ s[i].id = id
    BY <1>1 DEF Holds
  <2>2. i \in 1..Len(s \o t)
    BY <1>0
  <2>3. (s \o t)[i] = s[i]
    BY ConcatIs
  <2> QED
    BY <2>1, <2>2, <2>3 DEF Holds
<1>2. ASSUME Holds(t, id)
      PROVE  Holds(s \o t, id)
  <2>1. PICK i \in 1..Len(t) : t[i].type = "Regular" /\ t[i].id = id
    BY <1>2 DEF Holds
  <2>2. Len(s) + i \in 1..Len(s \o t)
    BY <1>0
  <2>3. (s \o t)[Len(s) + i] = t[i]
    BY ConcatIs
  <2> QED
    BY <2>1, <2>2, <2>3 DEF Holds
<1>3. ASSUME Holds(s \o t, id)
      PROVE  Holds(s, id) \/ Holds(t, id)
  <2>1. PICK i \in 1..Len(s \o t) : (s \o t)[i].type = "Regular" /\ (s \o t)[i].id = id
    BY <1>3 DEF Holds
  <2>2. CASE i <= Len(s)
    <3>1. i \in 1..Len(s)
      BY <1>0, <2>2
    <3>2. (s \o t)[i] = s[i]
      BY <3>1, ConcatIs
    <3> QED
      BY <2>1, <3>1, <3>2 DEF Holds
  <2>3. CASE i > Len(s)
    <3>1. i - Len(s) \in 1..Len(t) /\ Len(s) + (i - Len(s)) = i
      BY <1>0, <2>3
    <3>2. (s \o t)[Len(s) + (i - Len(s))] = t[i - Len(s)]
      BY <3>1, ConcatIs
    <3> QED
      BY <2>1, <3>1, <3>2 DEF Holds
  <2> QED
    BY <1>0, <2>2, <2>3
<1> QED
  BY <1>1, <1>2, <1>3

\* Reading another frame keeps it.
LEMMA HoldsTail ==
    ASSUME NEW S, NEW s \in Seq(S), s /= <<>>, NEW id, Holds(s, id),
           ~(Head(s).type = "Regular" /\ Head(s).id = id)
    PROVE  Holds(Tail(s), id)
<1>1. PICK i \in 1..Len(s) : s[i].type = "Regular" /\ s[i].id = id
  BY DEF Holds
<1>2. i /= 1
  BY <1>1, TailIs
<1>3. i - 1 \in 1..Len(Tail(s)) /\ (i - 1) + 1 = i
  BY <1>2, TailIs
<1>4. Tail(s)[i - 1] = s[(i - 1) + 1]
  BY <1>3, TailIs
<1> QED
  BY <1>1, <1>3, <1>4 DEF Holds

-----------------------------------------------------------------------------
(* Sequences without a gap                                                 *)

\* Frames carry natural numbers as ids.
LEMMA FrameIds ==
    ASSUME NEW s \in Seq(ProtocolMessage)
    PROVE  \A i \in 1..Len(s) : s[i].id \in Nat
<1>1. \A i \in 1..Len(s) : s[i] \in ProtocolMessage
  BY ElementOfSeq
<1> QED
  BY <1>1 DEF ProtocolMessage

\* Without a Regular message there is no gap.
LEMMA SilentIsGapFree ==
    ASSUME NEW s, NEW n, Without("Regular", s)
    PROVE  GapFree(s, n)
  BY DEF Without, GapFree

\* A receiver that has seen more meets no more gaps.
LEMMA GapFreeGrows ==
    ASSUME NEW s \in Seq(ProtocolMessage), NEW n \in Nat, NEW m \in Nat, n <= m,
           GapFree(s, n)
    PROVE  GapFree(s, m)
<1>1. ASSUME NEW i \in 1..Len(s), s[i].id > m + 1
      PROVE  s[i].id > n + 1
  <2>1. s[i].id \in Nat
    BY FrameIds
  <2> QED
    BY <1>1, <2>1
<1> QED
  BY <1>1 DEF GapFree

\* Losing a suffix makes no gap.
LEMMA GapFreePrefix ==
    ASSUME NEW s \in Seq(ProtocolMessage), NEW p \in Prefixes(s), NEW n \in Nat,
           GapFree(s, n)
    PROVE  GapFree(p, n)
<1>0. Len(s) \in Nat
  BY LenProperties
<1>1. /\ Len(p) \in Nat
      /\ Len(p) <= Len(s)
      /\ \A i \in 1..Len(p) : p[i] = s[i]
  BY PrefixIs
<1>2. ASSUME NEW i \in 1..Len(p), p[i].type = "Regular", p[i].id > n + 1
      PROVE  \E j \in 1..(i - 1) : p[j].type = "Regular" /\ p[j].id = p[i].id - 1
  <2>1. i \in 1..Len(s) /\ p[i] = s[i]
    BY <1>0, <1>1
  <2>2. PICK j \in 1..(i - 1) : s[j].type = "Regular" /\ s[j].id = s[i].id - 1
    BY <1>2, <2>1 DEF GapFree
  <2>3. j \in 1..Len(p)
    BY <1>1
  <2> QED
    BY <1>1, <2>1, <2>2, <2>3
<1> QED
  BY <1>2 DEF GapFree

\* Neither does writing one sequence without a gap after another.
LEMMA GapFreeConcat ==
    ASSUME NEW s \in Seq(ProtocolMessage), NEW t \in Seq(ProtocolMessage), NEW n \in Nat,
           GapFree(s, n), GapFree(t, n)
    PROVE  GapFree(s \o t, n)
<1>0. Len(s) \in Nat /\ Len(t) \in Nat /\ Len(s \o t) = Len(s) + Len(t)
  BY ConcatIs
<1>1. ASSUME NEW i \in 1..Len(s \o t), (s \o t)[i].type = "Regular", (s \o t)[i].id > n + 1
      PROVE  \E j \in 1..(i - 1) : /\ (s \o t)[j].type = "Regular"
                                   /\ (s \o t)[j].id = (s \o t)[i].id - 1
  <2>1. CASE i <= Len(s)
    <3>1. i \in 1..Len(s)
      BY <1>0, <2>1
    <3>2. (s \o t)[i] = s[i]
      BY <3>1, ConcatIs
    <3>3. PICK j \in 1..(i - 1) : s[j].type = "Regular" /\ s[j].id = s[i].id - 1
      BY <1>1, <3>1, <3>2 DEF GapFree
    <3>4. j \in 1..Len(s)
      BY <1>0, <2>1
    <3>5. (s \o t)[j] = s[j]
      BY <3>4, ConcatIs
    <3> QED
      BY <3>2, <3>3, <3>5
  <2>2. CASE i > Len(s)
    <3> DEFINE m == i - Len(s)
    <3>1. m \in 1..Len(t) /\ Len(s) + m = i
      BY <1>0, <2>2
    <3>2. (s \o t)[Len(s) + m] = t[m]
      BY <3>1, ConcatIs
    <3>3. PICK j \in 1..(m - 1) : t[j].type = "Regular" /\ t[j].id = t[m].id - 1
      BY <1>1, <3>1, <3>2 DEF GapFree
    <3>4. j \in 1..Len(t) /\ Len(s) + j \in 1..(i - 1)
      BY <1>0, <2>2
    <3>5. (s \o t)[Len(s) + j] = t[j]
      BY <3>4, ConcatIs
    <3> QED
      BY <3>1, <3>2, <3>3, <3>4, <3>5
  <2> QED
    BY <1>0, <2>1, <2>2
<1> QED
  BY <1>1 DEF GapFree

\* Frames that are not Regular before the others make no difference.
LEMMA GapFreeSilent ==
    ASSUME NEW s \in Seq(ProtocolMessage), NEW t \in Seq(ProtocolMessage), NEW n \in Nat,
           Without("Regular", s), GapFree(s \o t, n)
    PROVE  GapFree(t, n)
<1>0. Len(s) \in Nat /\ Len(t) \in Nat /\ Len(s \o t) = Len(s) + Len(t)
  BY ConcatIs
<1>1. ASSUME NEW i \in 1..Len(t), t[i].type = "Regular", t[i].id > n + 1
      PROVE  \E j \in 1..(i - 1) : t[j].type = "Regular" /\ t[j].id = t[i].id - 1
  <2>1. Len(s) + i \in 1..Len(s \o t)
    BY <1>0
  <2>2. (s \o t)[Len(s) + i] = t[i]
    BY ConcatIs
  <2>3. PICK j \in 1..(Len(s) + i - 1) :
            (s \o t)[j].type = "Regular" /\ (s \o t)[j].id = t[i].id - 1
    BY <1>1, <2>1, <2>2 DEF GapFree
  <2>4. ~(j <= Len(s))
    <3>1. SUFFICES ASSUME j <= Len(s) PROVE FALSE
      OBVIOUS
    <3>2. j \in 1..Len(s)
      BY <1>0, <3>1
    <3>3. (s \o t)[j] = s[j]
      BY <3>2, ConcatIs
    <3> QED
      BY <2>3, <3>2, <3>3 DEF Without
  <2>5. /\ j - Len(s) \in 1..(i - 1)
        /\ j - Len(s) \in 1..Len(t)
        /\ Len(s) + (j - Len(s)) = j
    BY <1>0, <2>4
  <2>6. (s \o t)[Len(s) + (j - Len(s))] = t[j - Len(s)]
    BY <2>5, ConcatIs
  <2> QED
    BY <2>3, <2>5, <2>6
<1> QED
  BY <1>1 DEF GapFree

\* The first message is not after a gap.
LEMMA HeadIsNoGap ==
    ASSUME NEW s \in Seq(ProtocolMessage), s /= <<>>, NEW n \in Nat, GapFree(s, n),
           Head(s).type = "Regular"
    PROVE  Head(s).id <= n + 1
<1>1. 1 \in 1..Len(s) /\ Head(s) = s[1]
  BY HeadIs
<1>2. s[1].id \in Nat
  BY <1>1, FrameIds
<1>3. ~ \E j \in 1..(1 - 1) : s[j].type = "Regular" /\ s[j].id = s[1].id - 1
  OBVIOUS
<1> QED
  BY <1>1, <1>2, <1>3 DEF GapFree

\* Nor is what follows once the first message was received.
LEMMA GapFreeTail ==
    ASSUME NEW s \in Seq(ProtocolMessage), s /= <<>>, NEW n \in Nat, NEW m \in Nat, n <= m,
           GapFree(s, n), Head(s).type = "Regular" => Head(s).id <= m
    PROVE  GapFree(Tail(s), m)
<1>0. /\ Len(s) \in Nat \ {0}
      /\ Len(Tail(s)) = Len(s) - 1
      /\ \A i \in 1..Len(Tail(s)) : Tail(s)[i] = s[i + 1]
      /\ Head(s) = s[1]
  BY TailIs
<1>1. ASSUME NEW i \in 1..Len(Tail(s)), Tail(s)[i].type = "Regular", Tail(s)[i].id > m + 1
      PROVE  \E j \in 1..(i - 1) : /\ Tail(s)[j].type = "Regular"
                                   /\ Tail(s)[j].id = Tail(s)[i].id - 1
  <2>1. i + 1 \in 1..Len(s) /\ Tail(s)[i] = s[i + 1]
    BY <1>0
  <2>2. s[i + 1].id \in Nat
    BY <2>1, FrameIds
  <2>a. s[i + 1].type = "Regular" /\ s[i + 1].id > m + 1
    BY <1>1, <2>1
  <2>b. s[i + 1].id > n + 1
    BY <2>2, <2>a
  <2>3. PICK j \in 1..(i + 1 - 1) : s[j].type = "Regular" /\ s[j].id = s[i + 1].id - 1
    BY <2>1, <2>a, <2>b DEF GapFree
  <2>4. j /= 1
    BY <1>0, <2>2, <2>a, <2>3
  <2>5. j - 1 \in 1..(i - 1) /\ j - 1 \in 1..Len(Tail(s)) /\ (j - 1) + 1 = j
    BY <1>0, <2>4
  <2>6. Tail(s)[j - 1] = s[(j - 1) + 1]
    BY <1>0, <2>5
  <2> QED
    BY <2>1, <2>3, <2>5, <2>6
<1> QED
  BY <1>1 DEF GapFree

\* A message follows its predecessor, or what was received.
LEMMA GapFreeNext ==
    ASSUME NEW s \in Seq(ProtocolMessage), NEW t \in Seq(ProtocolMessage), NEW n \in Nat,
           NEW id \in Nat, Len(t) = 1, t[1].id = id + 1,
           GapFree(s, n), id > n => Holds(s, id)
    PROVE  GapFree(s \o t, n)
<1>a. Len(s) \in Nat /\ Len(s \o t) = Len(s) + Len(t)
  BY ConcatIs
<1>0. Len(s) \in Nat /\ Len(s \o t) = Len(s) + 1
  BY <1>a
<1>1. ASSUME NEW i \in 1..Len(s \o t), (s \o t)[i].type = "Regular", (s \o t)[i].id > n + 1
      PROVE  \E j \in 1..(i - 1) : /\ (s \o t)[j].type = "Regular"
                                   /\ (s \o t)[j].id = (s \o t)[i].id - 1
  <2>1. CASE i <= Len(s)
    <3>1. i \in 1..Len(s)
      BY <1>0, <2>1
    <3>2. (s \o t)[i] = s[i]
      BY <3>1, ConcatIs
    <3>3. PICK j \in 1..(i - 1) : s[j].type = "Regular" /\ s[j].id = s[i].id - 1
      BY <1>1, <3>1, <3>2 DEF GapFree
    <3>4. j \in 1..Len(s)
      BY <1>0, <2>1
    <3>5. (s \o t)[j] = s[j]
      BY <3>4, ConcatIs
    <3> QED
      BY <3>2, <3>3, <3>5
  <2>2. CASE i > Len(s)
    <3>1. i = Len(s) + 1 /\ 1 \in 1..Len(t)
      BY <1>0, <2>2
    <3>2. (s \o t)[Len(s) + 1] = t[1]
      BY <3>1, ConcatIs
    <3>3. id > n /\ (s \o t)[i].id - 1 = id
      BY <1>1, <3>1, <3>2
    <3>4. PICK j \in 1..Len(s) : s[j].type = "Regular" /\ s[j].id = id
      BY <3>3 DEF Holds
    <3>5. (s \o t)[j] = s[j]
      BY <3>4, ConcatIs
    <3>6. j \in 1..(i - 1)
      BY <1>0, <3>1
    <3> QED
      BY <3>3, <3>4, <3>5, <3>6
  <2> QED
    BY <1>0, <2>1, <2>2
<1> QED
  BY <1>1 DEF GapFree

\* Messages with consecutive ids that start early enough have no gap, and the
\* last of them is there.
LEMMA ConsecutiveIsGapFree ==
    ASSUME NEW s \in Seq(ProtocolMessage), NEW n \in Nat, NEW base \in Nat, base <= n,
           \A i \in 1..Len(s) : s[i].type = "Regular" /\ s[i].id = base + i
    PROVE  /\ GapFree(s, n)
           /\ base + Len(s) > n => Holds(s, base + Len(s))
<1>0. Len(s) \in Nat
  BY LenProperties
<1>1. ASSUME NEW i \in 1..Len(s), s[i].id > n + 1
      PROVE  \E j \in 1..(i - 1) : s[j].type = "Regular" /\ s[j].id = s[i].id - 1
  <2>1. s[i].id = base + i /\ i > 1
    BY <1>0, <1>1
  <2>2. i - 1 \in 1..(i - 1) /\ i - 1 \in 1..Len(s)
    BY <1>0, <2>1
  <2>3. s[i - 1].type = "Regular" /\ s[i - 1].id = base + (i - 1)
    BY <2>2
  <2> QED
    BY <2>1, <2>2, <2>3
<1>2. ASSUME base + Len(s) > n
      PROVE  Holds(s, base + Len(s))
  <2>1. Len(s) \in 1..Len(s)
    BY <1>0, <1>2
  <2> QED
    BY <2>1 DEF Holds
<1> QED
  BY <1>1, <1>2 DEF GapFree
-----------------------------------------------------------------------------
(* The state                                                               *)

\* The types the steps below rely on.
LEMMA Shapes ==
    ASSUME IInv
    PROVE  /\ Ends = {"client", "server"}
           /\ Peer("client") = "server" /\ Peer("server") = "client"
           /\ \A k \in Sockets : k \in Nat
           /\ socket \in [Ends -> Sockets]
           /\ open \in [Sockets -> BOOLEAN]
           /\ isPaused \in [Ends -> BOOLEAN]
           /\ isReconnecting \in [Ends -> BOOLEAN]
           /\ writer \in [Ends -> Seq(ProtocolMessage)]
           /\ wire \in [Sockets -> [Ends -> Seq(ProtocolMessage)]]
           /\ incomingMsgId \in [Ends -> Nat]
           /\ outgoingMsgId \in [Ends -> Nat]
<1>1. /\ incomingMsgId \in [Ends -> 0..MaxSends]
      /\ outgoingMsgId \in [Ends -> 0..MaxSends]
  BY DEF IInv, TypeOK
<1>2. incomingMsgId \in [Ends -> Nat] /\ outgoingMsgId \in [Ends -> Nat]
  BY <1>1, BoundsAssumption
<1>3. \A k \in Sockets : k \in Nat
  BY BoundsAssumption DEF Sockets
<1> QED
  BY <1>2, <1>3 DEF IInv, TypeOK, Ends, Peer

\* Nothing is written yet.
LEMMA InitLossless == Init => LosslessInv
<1> SUFFICES ASSUME Init PROVE LosslessInv
  OBVIOUS
<1>1. 0 \in Sockets
  BY BoundsAssumption DEF Sockets
<1>2. /\ \A e \in Ends : writer[e] = <<>>
      /\ \A k \in Sockets, e \in Ends : wire[k][e] = <<>>
      /\ \A e \in Ends : socket[e] = 0
      /\ "client" \in Ends /\ "server" \in Ends
  BY DEF Init, Ends
<1>3. \A type : Without(type, <<>>)
  BY DEF Without
<1>4. \A n : GapFree(<<>>, n)
  BY DEF GapFree
<1>5. SocketsInOrder
  BY <1>2 DEF Init, SocketsInOrder
<1>6. NobodyAsks
  BY <1>2, <1>3 DEF Init, NobodyAsks
<1>7. ClientIsSilent
  BY <1>2, <1>3 DEF ClientIsSilent
<1>8. AnswersArePaused
  <2>1. Len(<<>>) = 0
    OBVIOUS
  <2>2. \A k \in Sockets : \A i \in 1..Len(wire[k]["server"]) : FALSE
    BY <1>2, <2>1
  <2> QED
    BY <1>2, <1>3, <2>2 DEF AnswersArePaused
<1>9. PipelinesAreGapFree
  <2>1. \A e \in Ends : Pipeline(e) = <<>>
    BY <1>1, <1>2 DEF Pipeline
  <2>2. \A e \in Ends : ~(outgoingMsgId[e] > incomingMsgId[Peer(e)])
    BY DEF Init, Peer, Ends
  <2> QED
    BY <1>2, <1>4, <2>1, <2>2 DEF PipelinesAreGapFree
<1> QED
  BY <1>5, <1>6, <1>7, <1>8, <1>9 DEF LosslessInv

\* Steps that touch neither frames nor sockets
LEMMA QuietLossless ==
    ASSUME LosslessInv,
           UNCHANGED <<writer, wire, socket, open, isPaused, isReconnecting,
                       connectionType, handOff, outgoingMsgId, incomingMsgId>>
    PROVE  LosslessInv'
<1>1. SocketsInOrder'
  BY DEF LosslessInv, SocketsInOrder
<1>2. NobodyAsks'
  BY DEF LosslessInv, NobodyAsks
<1>3. ClientIsSilent'
  BY DEF LosslessInv, ClientIsSilent
<1>4. AnswersArePaused'
  BY DEF LosslessInv, AnswersArePaused
<1>5. PipelinesAreGapFree'
  BY DEF LosslessInv, PipelinesAreGapFree, Pipeline
<1> QED
  BY <1>1, <1>2, <1>3, <1>4, <1>5 DEF LosslessInv

-----------------------------------------------------------------------------
(* Writing                                                                 *)

\* What end e buffers extends its pipeline.
LEMMA WriteLossless ==
    ASSUME IInv, LosslessInv, NEW e \in Ends, NEW x \in Seq(ProtocolMessage),
           writer' = [writer EXCEPT ![e] = @ \o x],
           Without("ReplayRequest", x),
           e = "server" => Without("Control", x),
           e = "client" /\ open[socket[e]] /\ ~isPaused[e] /\ socket[e] /= socket["server"]
              => Without("Regular", x),
           open[socket[e]] =>
              /\ GapFree(Pipeline(e) \o x, incomingMsgId[Peer(e)])
              /\ ~isReconnecting[e] /\ outgoingMsgId'[e] > incomingMsgId[Peer(e)]
                    => Holds(Pipeline(e) \o x, outgoingMsgId'[e]),
           \A f \in Ends \ {e} : outgoingMsgId'[f] = outgoingMsgId[f],
           UNCHANGED <<wire, socket, open, isPaused, isReconnecting,
                       connectionType, handOff, incomingMsgId>>
    PROVE  LosslessInv'
<1>1. /\ writer'[e] = writer[e] \o x
      /\ \A f \in Ends \ {e} : writer'[f] = writer[f]
      /\ \A f \in Ends : writer[f] \in Seq(ProtocolMessage)
      /\ \A f \in Ends : wire[socket[f]][f] \in Seq(ProtocolMessage)
      /\ "client" \in Ends /\ "server" \in Ends /\ Ends = {"client", "server"}
  BY Shapes
<1>2. SocketsInOrder'
  BY DEF LosslessInv, SocketsInOrder
<1>3. NobodyAsks'
  <2>1. \A f \in Ends : Without("ReplayRequest", writer[f])
    BY DEF LosslessInv, NobodyAsks
  <2>2. Without("ReplayRequest", writer'[e])
    BY <1>1, <2>1, WithoutConcat
  <2> QED
    BY <1>1, <2>1, <2>2 DEF LosslessInv, NobodyAsks
<1>4. ClientIsSilent'
  <2>1. CASE e = "client"
    <3>1. writer'["client"] = writer["client"] \o x
      BY <1>1, <2>1
    <3>2. Without("Regular", writer["client"]) /\ Without("Regular", x)
             => Without("Regular", writer'["client"])
      BY <1>1, <3>1, WithoutConcat
    <3> QED
      BY <2>1, <3>2 DEF LosslessInv, ClientIsSilent
  <2>2. CASE e /= "client"
    <3>1. writer'["client"] = writer["client"]
      BY <1>1, <2>2
    <3> QED
      BY <3>1 DEF LosslessInv, ClientIsSilent
  <2> QED
    BY <2>1, <2>2
<1>5. AnswersArePaused'
  <2>0. Without("Control", writer["server"])
    BY DEF LosslessInv, AnswersArePaused
  <2>1. Without("Control", writer'["server"])
    BY <1>1, <2>0, WithoutConcat
  <2> QED
    BY <2>1 DEF LosslessInv, AnswersArePaused
<1>6. PipelinesAreGapFree'
  <2>1. Pipeline(e)' = Pipeline(e) \o x
    <3>1. Pipeline(e)' = wire[socket[e]][e] \o (writer[e] \o x)
      BY <1>1 DEF Pipeline
    <3>2. wire[socket[e]][e] \o (writer[e] \o x) = (wire[socket[e]][e] \o writer[e]) \o x
      <4> DEFINE s == wire[socket[e]][e]
                 t == writer[e]
      <4>1. s \in Seq(ProtocolMessage) /\ t \in Seq(ProtocolMessage)
        BY <1>1
      <4> HIDE DEF s, t
      <4>2. s \o (t \o x) = (s \o t) \o x
        BY <4>1, Regroup
      <4> QED
        BY <4>2 DEF s, t
    <3> QED
      BY <3>1, <3>2 DEF Pipeline
  <2>2. \A f \in Ends \ {e} : Pipeline(f)' = Pipeline(f)
    BY <1>1 DEF Pipeline
  <2>3. ASSUME NEW f \in Ends, open[socket[f]]
        PROVE  /\ GapFree(Pipeline(f)', incomingMsgId[Peer(f)])
               /\ ~isReconnecting[f] /\ outgoingMsgId'[f] > incomingMsgId[Peer(f)]
                     => Holds(Pipeline(f)', outgoingMsgId'[f])
    <3>1. CASE f = e
      BY <2>1, <2>3, <3>1
    <3>2. CASE f /= e
      <4>1. Pipeline(f)' = Pipeline(f) /\ outgoingMsgId'[f] = outgoingMsgId[f]
        BY <2>2, <3>2
      <4>2. /\ GapFree(Pipeline(f), incomingMsgId[Peer(f)])
            /\ ~isReconnecting[f] /\ outgoingMsgId[f] > incomingMsgId[Peer(f)]
                  => Holds(Pipeline(f), outgoingMsgId[f])
        BY <2>3 DEF LosslessInv, PipelinesAreGapFree
      <4> QED
        BY <4>1, <4>2
    <3> QED
      BY <3>1, <3>2
  <2>4. \A k \in Sockets, f \in Ends : GapFree(wire[k][f], incomingMsgId[Peer(f)])
    BY DEF LosslessInv, PipelinesAreGapFree
  <2> QED
    BY <2>3, <2>4 DEF PipelinesAreGapFree
<1> QED
  BY <1>2, <1>3, <1>4, <1>5, <1>6 DEF LosslessInv

\* Frames that are neither Regular nor a request to send again
LEMMA WriteSilentLossless ==
    ASSUME IInv, LosslessInv, NEW e \in Ends, NEW x \in Seq(ProtocolMessage),
           writer' = [writer EXCEPT ![e] = @ \o x],
           Without("Regular", x), Without("ReplayRequest", x),
           e = "server" => Without("Control", x),
           UNCHANGED <<wire, socket, open, isPaused, isReconnecting, outgoingMsgId,
                       connectionType, handOff, incomingMsgId>>
    PROVE  LosslessInv'
<1>1. Pipeline(e) \in Seq(ProtocolMessage) /\ incomingMsgId[Peer(e)] \in Nat
  <2>1. wire[socket[e]][e] \in Seq(ProtocolMessage) /\ writer[e] \in Seq(ProtocolMessage)
    BY Shapes
  <2> QED
    BY <2>1, ConcatProperties, Shapes DEF Pipeline
<1>2. ASSUME open[socket[e]]
      PROVE  /\ GapFree(Pipeline(e) \o x, incomingMsgId[Peer(e)])
             /\ ~isReconnecting[e] /\ outgoingMsgId'[e] > incomingMsgId[Peer(e)]
                   => Holds(Pipeline(e) \o x, outgoingMsgId'[e])
  <2>1. /\ GapFree(Pipeline(e), incomingMsgId[Peer(e)])
        /\ ~isReconnecting[e] /\ outgoingMsgId[e] > incomingMsgId[Peer(e)]
              => Holds(Pipeline(e), outgoingMsgId[e])
    BY <1>2 DEF LosslessInv, PipelinesAreGapFree
  <2>2. GapFree(x, incomingMsgId[Peer(e)])
    BY SilentIsGapFree
  <2>3. GapFree(Pipeline(e) \o x, incomingMsgId[Peer(e)])
    BY <1>1, <2>1, <2>2, GapFreeConcat
  <2>4. Holds(Pipeline(e), outgoingMsgId[e]) => Holds(Pipeline(e) \o x, outgoingMsgId[e])
    BY <1>1, HoldsConcat
  <2> QED
    BY <2>1, <2>3, <2>4
<1> QED
  BY <1>2, WriteLossless
\* Encoding keeps the type of a frame and the id of a message.
LEMMA Encoded ==
    ASSUME IInv, NEW e \in Ends, NEW msgs \in Seq(GoodFrame(e))
    PROVE  /\ EncodeAll(msgs) \in Seq(ProtocolMessage)
           /\ Len(EncodeAll(msgs)) = Len(msgs)
           /\ \A i \in 1..Len(msgs) :
                 /\ EncodeAll(msgs)[i].type = msgs[i].type
                 /\ msgs[i].type = "Regular" => EncodeAll(msgs)[i].id = msgs[i].id
<1>0. Len(msgs) \in Nat
  BY LenProperties
<1>1. \A i \in 1..Len(msgs) : msgs[i] \in GoodFrame(e)
  BY ElementOfSeq
<1>2. ASSUME NEW m \in GoodFrame(e)
      PROVE  /\ Encode(m) \in ProtocolMessage
             /\ Encode(m).type = m.type
             /\ m.type = "Regular" => Encode(m).id = m.id
  <2>1. Encode(m) \in ProtocolMessage
    BY EncodeGood DEF GoodFrame
  <2>2. Encode(m).type = m.type /\ Encode(m).id = m.id % IdSpace
    BY DEF Encode
  <2>3. m.type = "Regular" => m.id \in 1..outgoingMsgId[e]
    BY DEF GoodFrame
  <2>4. outgoingMsgId[e] \in 0..MaxSends
    BY DEF IInv, TypeOK
  <2>5. m.type = "Regular" => m.id % IdSpace = m.id
    BY <2>3, <2>4, BoundsAssumption
  <2> QED
    BY <2>1, <2>2, <2>5
<1>3. \A i \in 1..Len(msgs) : Encode(msgs[i]) \in ProtocolMessage
  BY <1>1, <1>2
<1>4. /\ EncodeAll(msgs) \in Seq(ProtocolMessage)
      /\ Len(EncodeAll(msgs)) = Len(msgs)
      /\ \A i \in 1..Len(msgs) : EncodeAll(msgs)[i] = Encode(msgs[i])
  BY <1>0, <1>3 DEF EncodeAll
<1> QED
  BY <1>1, <1>2, <1>4

\* Encoding adds no kind of frame.
LEMMA EncodedWithout ==
    ASSUME IInv, NEW e \in Ends, NEW msgs \in Seq(GoodFrame(e)), NEW type,
           Without(type, msgs)
    PROVE  Without(type, EncodeAll(msgs))
  BY Encoded DEF Without

\* One frame that is not counted, and none
LEMMA EncodedUncounted ==
    ASSUME IInv, NEW e \in Ends, NEW type \in ProtocolMessageType \ {"Regular"},
           NEW ack \in Nat, ack <= incomingMsgId[e]
    PROVE  /\ EncodeAll(<<Uncounted(type, ack)>>) \in Seq(ProtocolMessage)
           /\ \A other : other /= type => Without(other, EncodeAll(<<Uncounted(type, ack)>>))
<1> DEFINE m == Uncounted(type, ack)
<1>1. m \in GoodFrame(e)
  BY UncountedGood
<1>2. m.type = type
  BY DEF Uncounted
<1> HIDE DEF m
<1>3. <<m>> \in Seq(GoodFrame(e)) /\ Len(<<m>>) = 1 /\ <<m>>[1] = m
  BY <1>1
<1>4. \A other : other /= type => Without(other, <<m>>)
  BY <1>2, <1>3 DEF Without
<1>5. EncodeAll(<<m>>) \in Seq(ProtocolMessage)
  BY <1>3, Encoded
<1>6. \A other : other /= type => Without(other, EncodeAll(<<m>>))
  BY <1>3, <1>4, EncodedWithout
<1> QED
  BY <1>5, <1>6 DEF m

\* Nothing is encoded as nothing.
LEMMA EncodedNothing ==
    /\ EncodeAll(<<>>) \in Seq(ProtocolMessage)
    /\ EncodeAll(<<>>) = <<>>
    /\ \A type : Without(type, EncodeAll(<<>>))
<1>1. EncodeAll(<<>>) = <<>>
  BY DEF EncodeAll
<1>2. <<>> \in Seq(ProtocolMessage)
  OBVIOUS
<1>3. \A type : Without(type, <<>>)
  BY DEF Without
<1> QED
  BY <1>1, <1>2, <1>3

\* The acknowledge timer, the keep alive interval and the request of the client
LEMMA SendAckCheckLossless ==
    ASSUME IInv, LosslessInv, NEW e \in Ends, SendAckCheck(e) \/ SendKeepAlive(e)
    PROVE  LosslessInv'
<1>0. incomingMsgId[e] \in Nat /\ incomingMsgId[e] <= incomingMsgId[e]
  BY Shapes
<1>1. PICK x \in Seq(ProtocolMessage) :
        /\ writer' = [writer EXCEPT ![e] = @ \o x]
        /\ Without("Regular", x) /\ Without("ReplayRequest", x) /\ Without("Control", x)
  <2>1. CASE SendAckCheck(e)
    <3>1. CASE incomingMsgId[e] <= incomingAckId[e]
      BY <2>1, <3>1, EncodedNothing DEF SendAckCheck, Write
    <3>2. CASE ~(incomingMsgId[e] <= incomingAckId[e])
      <4>1. writer' = [writer EXCEPT ![e] = @ \o EncodeAll(<<Uncounted("Ack", incomingMsgId[e])>>)]
        BY <2>1, <3>2 DEF SendAckCheck, Write
      <4> DEFINE x == EncodeAll(<<Uncounted("Ack", incomingMsgId[e])>>)
      <4>2. "Ack" \in ProtocolMessageType \ {"Regular"}
        BY DEF ProtocolMessageType
      <4>3. /\ x \in Seq(ProtocolMessage)
            /\ Without("Regular", x) /\ Without("ReplayRequest", x) /\ Without("Control", x)
        BY <1>0, <4>2, EncodedUncounted
      <4> HIDE DEF x
      <4>4. writer' = [writer EXCEPT ![e] = @ \o x]
        BY <4>1 DEF x
      <4> QED
        BY <4>3, <4>4
    <3> QED
      BY <3>1, <3>2
  <2>2. CASE SendKeepAlive(e)
    <3>1. writer' = [writer EXCEPT ![e] = @ \o EncodeAll(<<Uncounted("KeepAlive", incomingMsgId[e])>>)]
      BY <2>2 DEF SendKeepAlive, Write
    <3> DEFINE x == EncodeAll(<<Uncounted("KeepAlive", incomingMsgId[e])>>)
    <3>2. "KeepAlive" \in ProtocolMessageType \ {"Regular"}
      BY DEF ProtocolMessageType
    <3>3. /\ x \in Seq(ProtocolMessage)
          /\ Without("Regular", x) /\ Without("ReplayRequest", x) /\ Without("Control", x)
      BY <1>0, <3>2, EncodedUncounted
    <3> HIDE DEF x
    <3>4. writer' = [writer EXCEPT ![e] = @ \o x]
      BY <3>1 DEF x
    <3> QED
      BY <3>3, <3>4
  <2> QED
    BY <2>1, <2>2
<1>2. UNCHANGED <<wire, socket, open, isPaused, isReconnecting, outgoingMsgId,
                  connectionType, handOff, incomingMsgId>>
  BY DEF SendAckCheck, SendKeepAlive
<1> QED
  BY <1>1, <1>2, WriteSilentLossless

\* The client's ConnectionTypeRequest is a Control frame, which only the handshake reads.
LEMMA SendConnectionTypeRequestLossless ==
    ASSUME IInv, LosslessInv, SendConnectionTypeRequest
    PROVE  LosslessInv'
<1> DEFINE x == EncodeAll(<<Uncounted("Control", 0)>>)
<1>1. "client" \in Ends /\ 0 <= incomingMsgId["client"]
  BY Shapes
<1>2. "Control" \in ProtocolMessageType \ {"Regular"}
  BY DEF ProtocolMessageType
<1>3. x \in Seq(ProtocolMessage) /\ Without("Regular", x) /\ Without("ReplayRequest", x)
  BY <1>1, <1>2, EncodedUncounted
<1>4. writer' = [writer EXCEPT !["client"] = @ \o x]
  BY DEF SendConnectionTypeRequest, Write
<1>5. UNCHANGED <<wire, socket, open, isPaused, isReconnecting, outgoingMsgId,
                  connectionType, handOff, incomingMsgId>>
  BY DEF SendConnectionTypeRequest, protocolVars
<1> HIDE DEF x
<1> QED
  BY <1>1, <1>3, <1>4, <1>5, WriteSilentLossless

\* send(): the message before the new one is on its way or was received.
LEMMA SendLossless ==
    ASSUME IInv, IInv', LosslessInv, NEW e \in Ends, NEW d \in Data, Send(e, d)
    PROVE  LosslessInv'
<1> DEFINE msg == Regular(outgoingMsgId[e] + 1, incomingMsgId[e], d)
           x == EncodeAll(WrittenAtOnce(e, msg))
           n == incomingMsgId[Peer(e)]
<1>0. /\ outgoingMsgId[e] \in Nat /\ n \in Nat
      /\ Pipeline(e) \in Seq(ProtocolMessage)
      /\ outgoingMsgId'[e] = outgoingMsgId[e] + 1
      /\ \A f \in Ends \ {e} : outgoingMsgId'[f] = outgoingMsgId[f]
  <2>1. wire[socket[e]][e] \in Seq(ProtocolMessage) /\ writer[e] \in Seq(ProtocolMessage)
    BY Shapes
  <2>2. Pipeline(e) \in Seq(ProtocolMessage)
    BY <2>1, ConcatProperties DEF Pipeline
  <2>a. Peer(e) \in Ends
    BY DEF Peer, Ends
  <2>3. outgoingMsgId \in [Ends -> Nat] /\ n \in Nat
    BY <2>a, Shapes
  <2>4. outgoingMsgId' = [outgoingMsgId EXCEPT ![e] = @ + 1]
    BY DEF Send
  <2> QED
    BY <2>2, <2>3, <2>4
<1>1. writer' = [writer EXCEPT ![e] = @ \o x]
  BY DEF Send, Write
<1>2. UNCHANGED <<wire, socket, open, isPaused, isReconnecting,
                  connectionType, handOff, incomingMsgId>>
  BY DEF Send
<1>3. CASE isReconnecting[e]
  <2>1. x = <<>>
    BY <1>3, EncodedNothing DEF WrittenAtOnce
  <2> HIDE DEF x
  <2>2. Pipeline(e) \o x = Pipeline(e) /\ x \in Seq(ProtocolMessage)
    BY <1>0, <2>1
  <2>3. \A type : Without(type, x)
    BY <2>1 DEF Without
  <2>4. open[socket[e]] => GapFree(Pipeline(e), n)
    BY DEF LosslessInv, PipelinesAreGapFree
  <2> QED
    BY <1>0, <1>1, <1>2, <1>3, <2>2, <2>3, <2>4, WriteLossless
<1>4. CASE ~isReconnecting[e]
  <2>1. /\ msg \in ProtocolMessage
        /\ msg.type = "Regular"
        /\ msg.id = outgoingMsgId[e] + 1
        /\ Encode(msg).type = "Regular"
        /\ Encode(msg).id = outgoingMsgId[e] + 1
        /\ Encode(msg) \in ProtocolMessage
    <3>0. incomingMsgId[e] \in Nat
      BY Shapes
    <3>1. msg \in ProtocolMessage /\ msg.type = "Regular" /\ msg.id = outgoingMsgId[e] + 1
          /\ msg.ack = incomingMsgId[e] /\ msg.data = d
      BY <1>0, <3>0 DEF Regular, ProtocolMessage, ProtocolMessageType
    <3>2. outgoingMsgId[e] + 1 < IdSpace
      BY <1>0, BoundsAssumption DEF Send
    <3>3. (outgoingMsgId[e] + 1) % IdSpace = outgoingMsgId[e] + 1
      <4> DEFINE o == outgoingMsgId[e]
      <4>1. o \in Nat /\ o + 1 < IdSpace /\ IdSpace \in Nat
        BY <1>0, <3>2, BoundsAssumption
      <4> HIDE DEF o
      <4>2. (o + 1) % IdSpace = o + 1
        BY <4>1
      <4> QED
        BY <4>2 DEF o
    <3>a. incomingMsgId[e] \in 0..MaxSends
      BY DEF IInv, TypeOK
    <3>4. incomingMsgId[e] % IdSpace \in Nat
      BY <3>a, BoundsAssumption
    <3>5. Encode(msg) = [type |-> "Regular", id |-> outgoingMsgId[e] + 1,
                         ack |-> incomingMsgId[e] % IdSpace, data |-> d]
      BY <3>1, <3>3 DEF Encode
    <3> QED
      BY <1>0, <3>1, <3>4, <3>5 DEF ProtocolMessage, ProtocolMessageType
  <2>2. x \in Seq(ProtocolMessage) /\ Len(x) = 1 /\ x[1] = Encode(msg)
    <3>1. WrittenAtOnce(e, msg) = <<msg>>
      BY <1>4 DEF WrittenAtOnce
    <3>2. x = [i \in 1..1 |-> Encode(<<msg>>[i])]
      BY <3>1 DEF EncodeAll
    <3> HIDE DEF msg, x
    <3> QED
      BY <2>1, <3>2
  <2> HIDE DEF x, msg
  <2>3. Without("ReplayRequest", x) /\ Without("Control", x)
    BY <2>1, <2>2 DEF Without
  <2>4. ~(e = "client" /\ open[socket[e]] /\ ~isPaused[e] /\ socket[e] /= socket["server"])
    BY <1>4 DEF LosslessInv, ClientIsSilent
  <2>5. Holds(x, outgoingMsgId[e] + 1)
    BY <2>1, <2>2 DEF Holds
  <2>6. Holds(Pipeline(e) \o x, outgoingMsgId[e] + 1)
    BY <1>0, <2>2, <2>5, HoldsConcat
  <2>7. open[socket[e]] => GapFree(Pipeline(e) \o x, n)
    <3>1. ASSUME open[socket[e]]
          PROVE  /\ GapFree(Pipeline(e), n)
                 /\ outgoingMsgId[e] > n => Holds(Pipeline(e), outgoingMsgId[e])
      BY <1>4, <3>1 DEF LosslessInv, PipelinesAreGapFree
    <3>2. x[1].id = outgoingMsgId[e] + 1
      BY <2>1, <2>2
    <3> QED
      BY <1>0, <2>2, <3>1, <3>2, GapFreeNext
  <2> QED
    BY <1>0, <1>1, <1>2, <2>2, <2>3, <2>4, <2>6, <2>7, WriteLossless
<1> QED
  BY <1>3, <1>4
\* _writeNow() moves the buffer along the pipeline, or drops it when the socket
\* is closed.
LEMMA WriteNowLossless ==
    ASSUME IInv, LosslessInv, NEW e \in Ends, WriteNow(e)
    PROVE  LosslessInv'
<1> DEFINE k == socket[e]
<1>1. /\ k \in Sockets
      /\ ~isPaused[e]
      /\ writer'[e] = <<>>
      /\ \A f \in Ends \ {e} : writer'[f] = writer[f]
      /\ UNCHANGED <<isPaused, socket, open, connectionType, handOff, isReconnecting,
                     outgoingMsgId, incomingMsgId>>
      /\ wire[k][e] \in Seq(ProtocolMessage) /\ writer[e] \in Seq(ProtocolMessage)
      /\ "client" \in Ends /\ "server" \in Ends /\ Ends = {"client", "server"}
  BY Shapes DEF WriteNow, protocolVars
<1>2. \A type : Without(type, <<>>)
  BY DEF Without
<1>3. /\ ~open[k] => wire' = wire
      /\ open[k] => /\ wire'[k][e] = Pipeline(e)
                    /\ \A j \in Sockets, f \in Ends :
                          (j /= k \/ f /= e) => wire'[j][f] = wire[j][f]
  <2>1. CASE ~open[k]
    BY <2>1 DEF WriteNow
  <2>2. CASE open[k]
    <3>1. wire' = [wire EXCEPT ![k][e] = @ \o writer[e]]
      BY <2>2 DEF WriteNow
    <3>2. wire \in [Sockets -> [Ends -> Seq(ProtocolMessage)]]
      BY Shapes
    <3> QED
      BY <1>1, <2>2, <3>1, <3>2 DEF Pipeline
  <2> QED
    BY <2>1, <2>2
<1>4. \A j \in Sockets, f \in Ends : wire'[j][f] = wire[j][f] \/ (open[k] /\ j = k /\ f = e)
  BY <1>3
<1> HIDE DEF k
<1>5. SocketsInOrder'
  <2>0. /\ socket["client"] \in Nat /\ socket["server"] \in Nat
        /\ socket["server"] <= socket["client"]
    BY Shapes DEF LosslessInv, SocketsInOrder
  <2>1. ~(k > socket["client"])
    BY <1>1, <2>0 DEF k
  <2>2. \A j \in Sockets, f \in Ends : j > socket["client"] => wire'[j][f] = <<>>
    BY <1>4, <2>1 DEF LosslessInv, SocketsInOrder
  <2> QED
    BY <1>1, <2>2 DEF LosslessInv, SocketsInOrder
<1>6. NobodyAsks'
  <2>1. /\ ~isReconnecting["server"]
        /\ \A f \in Ends : Without("ReplayRequest", writer[f])
        /\ \A j \in Sockets, f \in Ends : Without("ReplayRequest", wire[j][f])
    BY DEF LosslessInv, NobodyAsks
  <2>2. Without("ReplayRequest", wire[k][e]) /\ Without("ReplayRequest", writer[e])
    BY <1>1, <2>1
  <2>3. Without("ReplayRequest", Pipeline(e))
    BY <1>1, <2>2, WithoutConcat DEF Pipeline, k
  <2>4. \A j \in Sockets, f \in Ends : Without("ReplayRequest", wire'[j][f])
    BY <1>3, <1>4, <2>1, <2>3
  <2>5. \A f \in Ends : Without("ReplayRequest", writer'[f])
    BY <1>1, <1>2, <2>1
  <2> QED
    BY <1>1, <2>1, <2>4, <2>5 DEF NobodyAsks
<1>7. ClientIsSilent'
  <2>1. ASSUME NEW j \in Sockets, j /= socket["server"]
        PROVE  Without("Regular", wire'[j]["client"])
    <3>1. Without("Regular", wire[j]["client"])
      BY <2>1 DEF LosslessInv, ClientIsSilent
    <3>2. CASE open[k] /\ j = k /\ e = "client"
      <4>1. Without("Regular", writer[e])
        BY <1>1, <2>1, <3>2 DEF LosslessInv, ClientIsSilent, k
      <4>2. Without("Regular", Pipeline(e))
        BY <1>1, <3>1, <3>2, <4>1, WithoutConcat DEF Pipeline, k
      <4> QED
        BY <1>3, <3>2, <4>2
    <3>3. CASE ~(open[k] /\ j = k /\ e = "client")
      BY <1>1, <1>4, <3>1, <3>3
    <3> QED
      BY <3>2, <3>3
  <2>2. /\ open[socket["client"]] /\ ~isPaused["client"] /\ socket["client"] /= socket["server"]
        => isReconnecting["client"] /\ Without("Regular", writer["client"])
    BY DEF LosslessInv, ClientIsSilent
  <2>3. Without("Regular", writer["client"]) => Without("Regular", writer'["client"])
    BY <1>1, <1>2
  <2> QED
    BY <1>1, <2>1, <2>2, <2>3 DEF ClientIsSilent
<1>8. AnswersArePaused'
  <2>1. \A j \in Sockets : j /= socket["server"] => wire'[j]["server"] = wire[j]["server"]
    BY <1>1, <1>4 DEF k
  <2>2. Without("Control", writer["server"]) => Without("Control", writer'["server"])
    BY <1>1, <1>2
  <2> QED
    BY <1>1, <2>1, <2>2 DEF LosslessInv, AnswersArePaused
<1>9. PipelinesAreGapFree'
  <2>0. /\ \A j \in Sockets, f \in Ends : GapFree(wire[j][f], incomingMsgId[Peer(f)])
        /\ \A f \in Ends : open[socket[f]] =>
              /\ GapFree(Pipeline(f), incomingMsgId[Peer(f)])
              /\ ~isReconnecting[f] /\ outgoingMsgId[f] > incomingMsgId[Peer(f)]
                    => Holds(Pipeline(f), outgoingMsgId[f])
    BY DEF LosslessInv, PipelinesAreGapFree
  <2>1. \A j \in Sockets, f \in Ends : GapFree(wire'[j][f], incomingMsgId[Peer(f)])
    BY <1>3, <1>4, <2>0 DEF k
  <2>2. ASSUME NEW f \in Ends, open[socket[f]]
        PROVE  Pipeline(f)' = Pipeline(f)
    <3>1. CASE f = e
      <4>1. Pipeline(e)' = Pipeline(e) \o <<>>
        BY <1>1, <1>3, <2>2, <3>1 DEF Pipeline, k
      <4>2. Pipeline(e) \in Seq(ProtocolMessage)
        BY <1>1, ConcatProperties DEF Pipeline, k
      <4> HIDE DEF Pipeline
      <4>3. Pipeline(e) \o <<>> = Pipeline(e)
        BY <4>2
      <4> QED
        BY <3>1, <4>1, <4>3
    <3>2. CASE f /= e
      <4>1. socket[f] \in Sockets
        BY Shapes
      <4>2. wire'[socket[f]][f] = wire[socket[f]][f] /\ writer'[f] = writer[f]
        BY <1>1, <1>4, <3>2, <4>1
      <4> QED
        BY <1>1, <4>2 DEF Pipeline
    <3> QED
      BY <3>1, <3>2
  <2> QED
    BY <1>1, <2>0, <2>1, <2>2 DEF PipelinesAreGapFree
<1> QED
  BY <1>5, <1>6, <1>7, <1>8, <1>9 DEF LosslessInv
-----------------------------------------------------------------------------
(* Reading                                                                 *)

\* The first of the frames end f wrote to socket k is read.  All that does not
\* depend on what the reader writes in the same turn stays true.
LEMMA Popped ==
    ASSUME IInv, IInv', LosslessInv, NEW k \in Sockets, NEW f \in Ends, wire[k][f] /= <<>>,
           NEW msg, msg = Head(wire[k][f]),
           wire' = [wire EXCEPT ![k][f] = Tail(@)],
           \A g \in Ends : incomingMsgId[g] <= incomingMsgId'[g],
           msg.type = "Regular" => msg.id <= incomingMsgId'[Peer(f)],
           f = "server" => k = socket["client"] /\ (msg.type = "Pause" => isPaused'["client"]),
           isPaused["client"] /\ ~isPaused'["client"] => f = "server" /\ msg.type = "Resume",
           UNCHANGED <<socket, open, connectionType, handOff, outgoingMsgId>>
    PROVE  /\ SocketsInOrder'
           /\ \A j \in Sockets, g \in Ends : Without("ReplayRequest", wire'[j][g])
           /\ \A j \in Sockets : j /= socket["server"] => Without("Regular", wire'[j]["client"])
           /\ open[socket["client"]] /\ socket["client"] /= socket["server"]
                => ~(isPaused["client"] /\ ~isPaused'["client"])
           /\ Without("Control", writer'["server"]) => AnswersArePaused'
           /\ \A j \in Sockets, g \in Ends : GapFree(wire'[j][g], incomingMsgId'[Peer(g)])
           /\ \A g \in Ends : open[socket[g]] =>
                 /\ GapFree(wire'[socket[g]][g] \o writer[g], incomingMsgId'[Peer(g)])
                 /\ ~isReconnecting[g] /\ outgoingMsgId[g] > incomingMsgId'[Peer(g)]
                       => Holds(wire'[socket[g]][g] \o writer[g], outgoingMsgId[g])
<1> DEFINE s == wire[k][f]
<1>1. /\ s \in Seq(ProtocolMessage) /\ s /= <<>> /\ msg = Head(s)
      /\ wire \in [Sockets -> [Ends -> Seq(ProtocolMessage)]]
      /\ socket \in [Ends -> Sockets]
      /\ writer \in [Ends -> Seq(ProtocolMessage)]
      /\ "client" \in Ends /\ "server" \in Ends
      /\ \A g \in Ends : Peer(g) \in Ends
      /\ incomingMsgId \in [Ends -> Nat]
  BY Shapes
<1>2. incomingMsgId' \in [Ends -> Nat]
  <2>1. incomingMsgId' \in [Ends -> 0..MaxSends]
    BY DEF IInv, TypeOK
  <2> QED
    BY <2>1, BoundsAssumption
<1>3. /\ wire'[k][f] = Tail(s)
      /\ \A j \in Sockets, g \in Ends : (j /= k \/ g /= f) => wire'[j][g] = wire[j][g]
  BY <1>1
<1> HIDE DEF s
<1>4. Tail(s) \in Seq(ProtocolMessage)
  BY <1>1, TailIs
<1>5. SocketsInOrder'
  <2>1. \A j \in Sockets, g \in Ends : j > socket["client"] => wire'[j][g] = <<>>
    <3>1. ~(k > socket["client"])
      BY <1>1 DEF LosslessInv, SocketsInOrder, s
    <3> QED
      BY <1>3, <3>1 DEF LosslessInv, SocketsInOrder
  <2> QED
    BY <2>1 DEF LosslessInv, SocketsInOrder
<1>6. \A j \in Sockets, g \in Ends : Without("ReplayRequest", wire'[j][g])
  <2>1. \A j \in Sockets, g \in Ends : Without("ReplayRequest", wire[j][g])
    BY DEF LosslessInv, NobodyAsks
  <2>2. Without("ReplayRequest", Tail(s))
    BY <1>1, <2>1, WithoutTail DEF s
  <2> QED
    BY <1>3, <2>1, <2>2
<1>7. \A j \in Sockets : j /= socket["server"] => Without("Regular", wire'[j]["client"])
  <2>1. \A j \in Sockets : j /= socket["server"] => Without("Regular", wire[j]["client"])
    BY DEF LosslessInv, ClientIsSilent
  <2>2. f = "client" /\ k /= socket["server"] => Without("Regular", Tail(s))
    BY <1>1, <2>1, WithoutTail DEF s
  <2> QED
    BY <1>1, <1>3, <2>1, <2>2
<1>8. open[socket["client"]] /\ socket["client"] /= socket["server"]
         => ~(isPaused["client"] /\ ~isPaused'["client"])
  <2>1. SUFFICES ASSUME open[socket["client"]], socket["client"] /= socket["server"],
                        isPaused["client"], ~isPaused'["client"]
                 PROVE  FALSE
    OBVIOUS
  <2>2. f = "server" /\ msg.type = "Resume" /\ k = socket["client"]
    BY <2>1
  <2>3. Without("Resume", s)
    BY <2>1, <2>2 DEF LosslessInv, AnswersArePaused, s
  <2>4. 1 \in 1..Len(s) /\ msg = s[1]
    <3>1. s \in Seq(ProtocolMessage) /\ s /= <<>> /\ msg = Head(s)
      BY <1>1
    <3> QED
      BY ONLY <3>1, HeadIs
  <2> QED
    BY <2>2, <2>3, <2>4 DEF Without
<1>9. ASSUME Without("Control", writer'["server"])
      PROVE  AnswersArePaused'
  <2> DEFINE T(j) == wire[j]["server"]
             U(j) == wire'[j]["server"]
  <2> HIDE DEF T, U
  <2>1. ASSUME NEW j \in Sockets, j /= socket["server"], open[j]
        PROVE  /\ Without("Resume", U(j))
               /\ \A i \in 1..Len(U(j)) :
                     U(j)[i].type = "Control" =>
                        /\ j \in handOff
                        /\ \/ j = socket["client"] /\ isPaused'["client"]
                           \/ \E h \in 1..(i - 1) : U(j)[h].type = "Pause"
    <3>1. /\ Without("Resume", T(j))
          /\ \A i \in 1..Len(T(j)) :
                T(j)[i].type = "Control" =>
                   /\ j \in handOff
                   /\ \/ j = socket["client"] /\ isPaused["client"]
                      \/ \E h \in 1..(i - 1) : T(j)[h].type = "Pause"
      BY <2>1 DEF LosslessInv, AnswersArePaused, T
    <3>2. j = socket["client"] /\ isPaused["client"] => isPaused'["client"]
      BY <1>8, <2>1
    <3>3. CASE ~(j = k /\ f = "server")
      <4>1. U(j) = T(j)
        BY <1>1, <1>3, <3>3 DEF T, U
      <4> QED
        BY <3>1, <3>2, <4>1
    <3>4. CASE j = k /\ f = "server"
      <4>1. U(j) = Tail(s) /\ T(j) = s /\ j = socket["client"]
        BY <1>3, <3>4 DEF s, T, U
      <4>2. Without("Resume", Tail(s))
        BY <1>1, <3>1, <4>1, WithoutTail
      <4>3. ASSUME NEW i \in 1..Len(Tail(s)), Tail(s)[i].type = "Control"
            PROVE  /\ j \in handOff
                   /\ isPaused'["client"] \/ \E h \in 1..(i - 1) : Tail(s)[h].type = "Pause"
        <5>1. /\ Len(s) \in Nat \ {0}
              /\ Len(Tail(s)) = Len(s) - 1
              /\ \A h \in 1..Len(Tail(s)) : Tail(s)[h] = s[h + 1]
              /\ Head(s) = s[1]
          BY <1>1, TailIs
        <5>2. i + 1 \in 1..Len(s) /\ s[i + 1].type = "Control"
          BY <4>3, <5>1
        <5>3. /\ j \in handOff
              /\ isPaused["client"] \/ \E h \in 1..(i + 1 - 1) : s[h].type = "Pause"
          BY <3>1, <4>1, <5>2
        <5>4. ASSUME NEW h \in 1..(i + 1 - 1), s[h].type = "Pause"
              PROVE  isPaused'["client"] \/ \E g \in 1..(i - 1) : Tail(s)[g].type = "Pause"
          <6>1. CASE h = 1
            BY <1>1, <3>4, <5>1, <5>4, <6>1
          <6>2. CASE h /= 1
            <7>1. h - 1 \in 1..(i - 1) /\ h - 1 \in 1..Len(Tail(s)) /\ (h - 1) + 1 = h
              BY <5>1, <6>2
            <7>2. Tail(s)[h - 1] = s[(h - 1) + 1]
              BY <5>1, <7>1
            <7> QED
              BY <5>4, <7>1, <7>2
          <6> QED
            BY <6>1, <6>2
        <5> QED
          BY <3>2, <4>1, <5>3, <5>4
      <4> QED
        BY <4>1, <4>2, <4>3
    <3> QED
      BY <3>3, <3>4
  <2> QED
    BY <1>9, <2>1 DEF AnswersArePaused, U
<1>10. ASSUME NEW t \in Seq(ProtocolMessage), NEW g \in Ends, GapFree(t, incomingMsgId[Peer(g)])
       PROVE  GapFree(t, incomingMsgId'[Peer(g)])
  BY <1>1, <1>2, <1>10, GapFreeGrows
<1>11. \A j \in Sockets, g \in Ends : GapFree(wire'[j][g], incomingMsgId'[Peer(g)])
  <2>1. \A j \in Sockets, g \in Ends : GapFree(wire[j][g], incomingMsgId[Peer(g)])
    BY DEF LosslessInv, PipelinesAreGapFree
  <2>2. \A j \in Sockets, g \in Ends : GapFree(wire[j][g], incomingMsgId'[Peer(g)])
    BY <1>1, <1>10, <2>1
  <2>3. GapFree(s, incomingMsgId[Peer(f)])
    BY <2>1 DEF s
  <2>4. GapFree(Tail(s), incomingMsgId'[Peer(f)])
    BY <1>1, <1>2, <2>3, GapFreeTail
  <2> QED
    BY <1>3, <2>2, <2>4
<1>12. ASSUME NEW g \in Ends, open[socket[g]]
       PROVE  /\ GapFree(wire'[socket[g]][g] \o writer[g], incomingMsgId'[Peer(g)])
              /\ ~isReconnecting[g] /\ outgoingMsgId[g] > incomingMsgId'[Peer(g)]
                    => Holds(wire'[socket[g]][g] \o writer[g], outgoingMsgId[g])
  <2> DEFINE p == Pipeline(g)
             n == incomingMsgId[Peer(g)]
             m == incomingMsgId'[Peer(g)]
             o == outgoingMsgId[g]
  <2>1. /\ GapFree(p, n)
        /\ ~isReconnecting[g] /\ o > n => Holds(p, o)
    BY <1>12 DEF LosslessInv, PipelinesAreGapFree
  <2>2. p \in Seq(ProtocolMessage) /\ n \in Nat /\ m \in Nat /\ n <= m /\ o \in Nat
    <3>1. wire[socket[g]][g] \in Seq(ProtocolMessage) /\ writer[g] \in Seq(ProtocolMessage)
      BY <1>1
    <3>2. p \in Seq(ProtocolMessage)
      BY <3>1, ConcatProperties DEF Pipeline
    <3> QED
      BY <1>1, <1>2, <3>2, Shapes
  <2>3. CASE ~(socket[g] = k /\ g = f)
    <3>1. wire'[socket[g]][g] \o writer[g] = p
      BY <1>1, <1>3, <2>3 DEF Pipeline
    <3>2. GapFree(p, m)
      BY <2>1, <2>2, GapFreeGrows
    <3>3. o > m => o > n
      BY <2>2
    <3> QED
      BY <2>1, <3>1, <3>2, <3>3
  <2>4. CASE socket[g] = k /\ g = f
    <3>1. p = s \o writer[g] /\ wire'[socket[g]][g] = Tail(s)
      BY <1>3, <2>4 DEF Pipeline, s
    <3>2. writer[g] \in Seq(ProtocolMessage)
      BY <1>1
    <3>3. p /= <<>> /\ Head(p) = msg /\ Tail(p) = Tail(s) \o writer[g]
      <4> DEFINE b == writer[g]
      <4> HIDE DEF b
      <4>1. s \in Seq(ProtocolMessage) /\ s /= <<>> /\ b \in Seq(ProtocolMessage)
        BY <1>1, <3>2 DEF b
      <4>2. /\ Len(s) \in Nat \ {0}
            /\ Len(s \o b) = Len(s) + Len(b)
            /\ Len(b) \in Nat
            /\ (s \o b)[1] = s[1]
            /\ s \o b \in Seq(ProtocolMessage)
        BY <4>1, ConcatIs, TailIs
      <4>3. s \o b /= <<>>
        BY <4>2
      <4>4. Head(s \o b) = Head(s)
        BY <4>1, <4>2, <4>3, TailIs
      <4>5. Tail(s \o b) = Tail(s) \o b
        BY <4>1, TailOfConcat
      <4> QED
        BY <1>1, <3>1, <4>3, <4>4, <4>5 DEF b
    <3>4. msg.type = "Regular" => msg.id <= m
      BY <2>4
    <3> HIDE DEF p, n, m
    <3>5. GapFree(Tail(p), m)
      BY <2>1, <2>2, <3>3, <3>4, GapFreeTail
    <3>6. ASSUME ~isReconnecting[g], o > m
          PROVE  Holds(Tail(p), o)
      <4>1. Holds(p, o)
        BY <2>1, <2>2, <3>6
      <4>2. ~(msg.type = "Regular" /\ msg.id = o)
        BY <2>2, <3>4, <3>6
      <4> QED
        BY <2>2, <3>3, <4>1, <4>2, HoldsTail
    <3> QED
      BY <3>1, <3>3, <3>5, <3>6 DEF m
  <2> QED
    BY <2>3, <2>4
<1> QED
  BY <1>5, <1>6, <1>7, <1>8, <1>9, <1>11, <1>12
\* Reading a frame without writing anything in the same turn
LEMMA PoppedLossless ==
    ASSUME IInv, IInv', LosslessInv, NEW k \in Sockets, NEW f \in Ends, wire[k][f] /= <<>>,
           NEW msg, msg = Head(wire[k][f]),
           wire' = [wire EXCEPT ![k][f] = Tail(@)],
           \A g \in Ends : incomingMsgId[g] <= incomingMsgId'[g],
           msg.type = "Regular" => msg.id <= incomingMsgId'[Peer(f)],
           f = "server" => k = socket["client"] /\ (msg.type = "Pause" => isPaused'["client"]),
           isPaused["client"] /\ ~isPaused'["client"] => f = "server" /\ msg.type = "Resume",
           UNCHANGED <<socket, open, connectionType, handOff, outgoingMsgId,
                       writer, isReconnecting>>
    PROVE  LosslessInv'
<1>1. /\ SocketsInOrder'
      /\ \A j \in Sockets, g \in Ends : Without("ReplayRequest", wire'[j][g])
      /\ \A j \in Sockets : j /= socket["server"] => Without("Regular", wire'[j]["client"])
      /\ open[socket["client"]] /\ socket["client"] /= socket["server"]
           => ~(isPaused["client"] /\ ~isPaused'["client"])
      /\ Without("Control", writer'["server"]) => AnswersArePaused'
      /\ \A j \in Sockets, g \in Ends : GapFree(wire'[j][g], incomingMsgId'[Peer(g)])
      /\ \A g \in Ends : open[socket[g]] =>
            /\ GapFree(wire'[socket[g]][g] \o writer[g], incomingMsgId'[Peer(g)])
            /\ ~isReconnecting[g] /\ outgoingMsgId[g] > incomingMsgId'[Peer(g)]
                  => Holds(wire'[socket[g]][g] \o writer[g], outgoingMsgId[g])
  BY Popped
<1>2. NobodyAsks'
  BY <1>1 DEF LosslessInv, NobodyAsks
<1>3. ClientIsSilent'
  <2>1. open[socket["client"]] /\ ~isPaused["client"] /\ socket["client"] /= socket["server"]
          => isReconnecting["client"] /\ Without("Regular", writer["client"])
    BY DEF LosslessInv, ClientIsSilent
  <2> QED
    BY <1>1, <2>1 DEF ClientIsSilent
<1>4. AnswersArePaused'
  BY <1>1 DEF LosslessInv, AnswersArePaused
<1>5. PipelinesAreGapFree'
  <2>1. \A g \in Ends : Pipeline(g)' = wire'[socket[g]][g] \o writer[g]
    BY DEF Pipeline
  <2> QED
    BY <1>1, <2>1 DEF PipelinesAreGapFree
<1> QED
  BY <1>1, <1>2, <1>3, <1>4, <1>5 DEF LosslessInv

\* What the cases of _receiveMessage have in common
LEMMA ReceivedFrame ==
    ASSUME IInv, LosslessInv, NEW e \in Ends, Incoming(e) /= <<>>, NEW msg,
           msg = Head(Incoming(e)), ReceiveMessage(e, msg)
    PROVE  /\ socket[e] \in Sockets /\ Peer(e) \in Ends /\ Peer(Peer(e)) = e
           /\ wire[socket[e]][Peer(e)] /= <<>>
           /\ msg = Head(wire[socket[e]][Peer(e)])
           /\ wire' = [wire EXCEPT ![socket[e]][Peer(e)] = Tail(@)]
           /\ Peer(e) = "server" <=> e = "client"
           /\ msg.type /= "ReplayRequest"
           /\ msg.id \in Nat
           /\ msg.type = "Regular" => msg.id <= incomingMsgId[e] + 1
           /\ UNCHANGED <<socket, open, connectionType, handOff, outgoingMsgId>>
<1> DEFINE s == wire[socket[e]][Peer(e)]
<1>1. /\ socket[e] \in Sockets /\ Peer(e) \in Ends /\ Peer(Peer(e)) = e
      /\ Peer(e) = "server" <=> e = "client"
  BY Shapes
<1>2. s \in Seq(ProtocolMessage) /\ s /= <<>> /\ msg = Head(s) /\ incomingMsgId[e] \in Nat
  BY <1>1, Shapes DEF Incoming
<1>3. GapFree(s, incomingMsgId[e]) /\ Without("ReplayRequest", s)
  BY <1>1 DEF LosslessInv, PipelinesAreGapFree, NobodyAsks
<1>4. 1 \in 1..Len(s) /\ msg = s[1]
  BY <1>2, HeadIs
<1>5. msg.type /= "ReplayRequest"
  BY <1>3, <1>4 DEF Without
<1>6. msg.type = "Regular" => msg.id <= incomingMsgId[e] + 1
  BY <1>2, <1>3, HeadIsNoGap
<1>7. msg.id \in Nat
  BY <1>2, <1>4, FrameIds
<1> QED
  BY <1>1, <1>2, <1>5, <1>6, <1>7 DEF ReceiveMessage

\* All cases but the one that ends a reconnection; two of them cannot happen.
LEMMA ReceiveLossless ==
    ASSUME IInv, IInv', LosslessInv, NEW e \in Ends, Incoming(e) /= <<>>, NEW msg,
           msg = Head(Incoming(e)),
           \/ ReceiveNext(e, msg)
           \/ ReceiveAfterGap(e, msg)
           \/ ReceiveNothingNew(e, msg)
           \/ ReceiveReplayRequest(e, msg)
           \/ ReceivePauseResume(e, msg)
           \/ e = "client" /\ ReceiveLateAnswer(msg)
    PROVE  LosslessInv'
<1>1. ReceiveMessage(e, msg)
  BY DEF ReceiveNext, ReceiveAfterGap, ReceiveNothingNew, ReceiveReplayRequest,
         ReceivePauseResume, ReceiveLateAnswer
<1>2. /\ socket[e] \in Sockets /\ Peer(e) \in Ends /\ Peer(Peer(e)) = e
      /\ wire[socket[e]][Peer(e)] /= <<>>
      /\ msg = Head(wire[socket[e]][Peer(e)])
      /\ wire' = [wire EXCEPT ![socket[e]][Peer(e)] = Tail(@)]
      /\ Peer(e) = "server" <=> e = "client"
      /\ msg.type /= "ReplayRequest"
      /\ msg.id \in Nat
      /\ msg.type = "Regular" => msg.id <= incomingMsgId[e] + 1
      /\ UNCHANGED <<socket, open, connectionType, handOff, outgoingMsgId>>
  BY <1>1, ReceivedFrame
<1>3. ~ReceiveAfterGap(e, msg) /\ ~ReceiveReplayRequest(e, msg)
  <2>1. incomingMsgId[e] \in Nat
    BY Shapes
  <2> QED
    BY <1>2, <2>1 DEF ReceiveAfterGap, ReceiveReplayRequest
<1>4. UNCHANGED <<writer, isReconnecting>>
  BY <1>3 DEF ReceiveNext, ReceiveNothingNew, ReceivePauseResume, ReceiveLateAnswer
<1>5. /\ \A g \in Ends : incomingMsgId[g] <= incomingMsgId'[g]
      /\ msg.type = "Regular" => msg.id <= incomingMsgId'[e]
  <2>0. incomingMsgId \in [Ends -> Nat]
    BY Shapes
  <2>1. CASE ReceiveNext(e, msg)
    <3>1. /\ msg.id = incomingMsgId[e] + 1
          /\ incomingMsgId' = [incomingMsgId EXCEPT ![e] = msg.id]
      BY <2>1 DEF ReceiveNext, IsNext
    <3> QED
      BY <1>2, <2>0, <3>1
  <2>2. CASE ReceiveNothingNew(e, msg)
    <3>1. /\ incomingMsgId' = incomingMsgId
          /\ msg.type = "Regular" => msg.id <= incomingMsgId[e]
      BY <2>2 DEF ReceiveNothingNew
    <3> QED
      BY <2>0, <3>1
  <2>3. CASE ReceivePauseResume(e, msg) \/ (e = "client" /\ ReceiveLateAnswer(msg))
    <3>1. incomingMsgId' = incomingMsgId /\ msg.type /= "Regular"
      BY <2>3 DEF ReceivePauseResume, ReceiveLateAnswer
    <3> QED
      BY <2>0, <3>1
  <2> QED
    BY <1>3, <2>1, <2>2, <2>3
<1>6. /\ e = "client" /\ msg.type = "Pause" => isPaused'["client"]
      /\ isPaused["client"] /\ ~isPaused'["client"] => e = "client" /\ msg.type = "Resume"
  <2>0. isPaused \in [Ends -> BOOLEAN] /\ "client" \in Ends
    BY Shapes
  <2>1. CASE ReceivePauseResume(e, msg)
    <3>1. /\ isPaused' = [isPaused EXCEPT ![e] = (msg.type = "Pause")]
          /\ msg.type \in {"Pause", "Resume"}
      BY <2>1 DEF ReceivePauseResume
    <3>2. CASE msg.type = "Pause"
      <4>1. isPaused' = [isPaused EXCEPT ![e] = TRUE]
        BY <3>1, <3>2
      <4> QED
        BY <2>0, <4>1
    <3>3. CASE msg.type = "Resume"
      <4>1. \A g \in Ends \ {e} : isPaused'[g] = isPaused[g]
        BY <2>0, <3>1
      <4> QED
        BY <2>0, <3>3, <4>1
    <3> QED
      BY <3>1, <3>2, <3>3
  <2>2. CASE ~ReceivePauseResume(e, msg)
    <3>1. isPaused' = isPaused /\ msg.type /= "Pause"
      BY <1>3, <2>2 DEF ReceiveNext, ReceiveNothingNew, ReceiveLateAnswer
    <3> QED
      BY <3>1
  <2> QED
    BY <2>1, <2>2
<1> QED
  BY <1>2, <1>4, <1>5, <1>6, PoppedLossless

\* On a socket that is not the server's a short-lived protocol reads.
LEMMA HandshakeReadsLossless ==
    ASSUME IInv, IInv', LosslessInv, NEW k \in Sockets, HandshakeReads(k)
    PROVE  LosslessInv'
<1> DEFINE s == wire[k]["client"]
           msg == Head(s)
<1>1. /\ s /= <<>>
      /\ wire' = [wire EXCEPT ![k]["client"] = Tail(@)]
      /\ k /= socket["server"]
      /\ UNCHANGED <<socket, open, connectionType, handOff, outgoingMsgId,
                     writer, isReconnecting, isPaused, incomingMsgId>>
  BY DEF HandshakeReads, protocolVars
<1>2. "client" \in Ends /\ "client" /= "server" /\ s \in Seq(ProtocolMessage)
  BY Shapes
<1>3. msg.type /= "Regular"
  <2>1. Without("Regular", s)
    BY <1>1 DEF LosslessInv, ClientIsSilent
  <2>2. 1 \in 1..Len(s) /\ msg = s[1]
    BY <1>1, <1>2, HeadIs
  <2> QED
    BY <2>1, <2>2 DEF Without
<1>4. \A g \in Ends : incomingMsgId[g] <= incomingMsgId'[g]
  <2>1. incomingMsgId \in [Ends -> Nat]
    BY Shapes
  <2> QED
    BY <1>1, <2>1
<1> QED
  BY <1>1, <1>2, <1>3, <1>4, PoppedLossless
-----------------------------------------------------------------------------
(* Reconnecting                                                            *)

\* A good frame is a frame.
LEMMA GoodIsFrame ==
    ASSUME NEW e, NEW s \in Seq(GoodFrame(e))
    PROVE  s \in Seq(ProtocolMessage)
<1>1. \A i \in 1..Len(s) : s[i] \in ProtocolMessage
  BY ElementOfSeq DEF GoodFrame
<1>2. Len(s) \in Nat /\ s = [i \in 1..Len(s) |-> s[i]]
  BY LenProperties
<1> QED
  BY <1>1, <1>2

\* Encoding neither makes a gap nor loses a message.
LEMMA EncodedGapFree ==
    ASSUME IInv, NEW e \in Ends, NEW msgs \in Seq(GoodFrame(e)), NEW n \in Nat,
           GapFree(msgs, n)
    PROVE  /\ GapFree(EncodeAll(msgs), n)
           /\ \A id : Holds(msgs, id) => Holds(EncodeAll(msgs), id)
<1> DEFINE x == EncodeAll(msgs)
<1>1. /\ Len(x) = Len(msgs)
      /\ \A i \in 1..Len(msgs) : /\ x[i].type = msgs[i].type
                                 /\ msgs[i].type = "Regular" => x[i].id = msgs[i].id
      /\ Len(msgs) \in Nat
  BY Encoded, LenProperties
<1> HIDE DEF x
<1>2. ASSUME NEW i \in 1..Len(x), x[i].type = "Regular", x[i].id > n + 1
      PROVE  \E j \in 1..(i - 1) : x[j].type = "Regular" /\ x[j].id = x[i].id - 1
  <2>1. PICK j \in 1..(i - 1) : msgs[j].type = "Regular" /\ msgs[j].id = msgs[i].id - 1
    BY <1>1, <1>2 DEF GapFree
  <2>2. j \in 1..Len(msgs)
    BY <1>1
  <2> QED
    BY <1>1, <1>2, <2>1, <2>2
<1>3. GapFree(x, n)
  BY <1>2 DEF GapFree
<1>4. \A id : Holds(msgs, id) => Holds(x, id)
  BY <1>1 DEF Holds
<1> QED
  BY <1>3, <1>4 DEF x

\* endAcceptReconnection() starts early enough and ends with the last message.
LEMMA Replayed ==
    ASSUME IInv, NEW e \in Ends, NEW n \in Nat, NEW base \in Nat, base <= n,
           NEW q \in Seq(GoodFrame(e)), base + Len(q) = outgoingMsgId[e],
           \A i \in 1..Len(q) : q[i].type = "Regular" /\ q[i].id = base + i,
           NEW tail \in Seq(GoodFrame(e)),
           Without("Regular", tail), Without("ReplayRequest", tail), Without("Control", tail),
           NEW x, x = EncodeAll(ReplayAfterReconnection(e, q) \o tail)
    PROVE  /\ x \in Seq(ProtocolMessage)
           /\ GapFree(x, n)
           /\ outgoingMsgId[e] > n => Holds(x, outgoingMsgId[e])
           /\ Without("ReplayRequest", x)
           /\ Without("Control", x)
<1> DEFINE a == <<Uncounted("Ack", incomingMsgId[e])>>
           r == a \o q
           msgs == r \o tail
<1>1. /\ a \in Seq(GoodFrame(e))
      /\ Without("Regular", a) /\ Without("ReplayRequest", a) /\ Without("Control", a)
  <2> DEFINE m == Uncounted("Ack", incomingMsgId[e])
  <2>1. incomingMsgId[e] \in Nat /\ incomingMsgId[e] <= incomingMsgId[e]
    BY Shapes
  <2>2. m \in GoodFrame(e) /\ m.type = "Ack"
    BY <2>1, UncountedGood DEF Uncounted, ProtocolMessageType
  <2> HIDE DEF m
  <2>3. <<m>> \in Seq(GoodFrame(e)) /\ Len(<<m>>) = 1 /\ <<m>>[1] = m
    BY <2>2
  <2>4. \A type : type /= "Ack" => Without(type, <<m>>)
    BY <2>2, <2>3 DEF Without
  <2> QED
    BY <2>3, <2>4 DEF m
<1> HIDE DEF a
<1>2. r \in Seq(GoodFrame(e))
  BY <1>1, ConcatIs
<1>3. msgs \in Seq(GoodFrame(e))
  BY <1>2, ConcatIs
<1>4. /\ a \in Seq(ProtocolMessage) /\ q \in Seq(ProtocolMessage)
      /\ tail \in Seq(ProtocolMessage)
  BY <1>1, GoodIsFrame
<1>5. r \in Seq(ProtocolMessage)
  BY <1>4, ConcatIs
<1>6. x = EncodeAll(msgs)
  BY DEF ReplayAfterReconnection, a
<1>7. Without("ReplayRequest", q) /\ Without("Control", q)
  BY DEF Without
<1>8. Without("ReplayRequest", r) /\ Without("Control", r)
  BY <1>1, <1>4, <1>7, WithoutConcat
<1>9. Without("ReplayRequest", msgs) /\ Without("Control", msgs)
  BY <1>4, <1>5, <1>8, WithoutConcat
<1>10. GapFree(q, n) /\ (outgoingMsgId[e] > n => Holds(q, outgoingMsgId[e]))
  <2>1. GapFree(q, n) /\ (base + Len(q) > n => Holds(q, base + Len(q)))
    BY <1>4, ConsecutiveIsGapFree
  <2> QED
    BY <2>1
<1>11. GapFree(a, n) /\ GapFree(tail, n)
  BY <1>1, SilentIsGapFree
<1>12. GapFree(r, n)
  BY <1>4, <1>10, <1>11, GapFreeConcat
<1>13. GapFree(msgs, n)
  BY <1>4, <1>5, <1>11, <1>12, GapFreeConcat
<1>14. Holds(q, outgoingMsgId[e]) => Holds(r, outgoingMsgId[e])
  BY <1>4, HoldsConcat
<1>15. Holds(r, outgoingMsgId[e]) => Holds(msgs, outgoingMsgId[e])
  BY <1>4, <1>5, HoldsConcat
<1> HIDE DEF r, msgs
<1>16. x \in Seq(ProtocolMessage)
  BY <1>3, <1>6, Encoded
<1>17. /\ GapFree(x, n)
       /\ Holds(msgs, outgoingMsgId[e]) => Holds(x, outgoingMsgId[e])
  BY <1>3, <1>6, <1>13, EncodedGapFree
<1>18. Without("ReplayRequest", x) /\ Without("Control", x)
  BY <1>3, <1>6, <1>9, EncodedWithout
<1> QED
  BY <1>10, <1>14, <1>15, <1>16, <1>17, <1>18

\* The client ends its reconnection.  When the socket is up the server's protocol
\* is attached to it, or the client is paused until it is.
LEMMA EndAcceptReconnectionLossless ==
    ASSUME IInv, IInv', LosslessInv, Incoming("client") /= <<>>, NEW msg,
           msg = Head(Incoming("client")), EndAcceptReconnection(msg)
    PROVE  LosslessInv'
<1> DEFINE k == socket["client"]
           q == outgoingUnackMsg'["client"]
           n == incomingMsgId["server"]
           x == EncodeAll(ReplayAfterReconnection("client", q))
<1>0. /\ "client" \in Ends /\ "server" \in Ends
      /\ Peer("client") = "server" /\ Peer("server") = "client"
      /\ ReceiveMessage("client", msg) /\ msg.type = "Control"
  BY Shapes DEF EndAcceptReconnection
<1>1. /\ k \in Sockets
      /\ wire[k]["server"] /= <<>>
      /\ msg = Head(wire[k]["server"])
      /\ wire' = [wire EXCEPT ![k]["server"] = Tail(@)]
      /\ UNCHANGED <<socket, open, connectionType, handOff, outgoingMsgId>>
  <2>1. /\ socket["client"] \in Sockets
        /\ wire[socket["client"]][Peer("client")] /= <<>>
        /\ msg = Head(wire[socket["client"]][Peer("client")])
        /\ wire' = [wire EXCEPT ![socket["client"]][Peer("client")] = Tail(@)]
        /\ UNCHANGED <<socket, open, connectionType, handOff, outgoingMsgId>>
    BY <1>0, ReceivedFrame
  <2> QED
    BY <1>0, <2>1
<1>2. /\ UNCHANGED <<incomingMsgId, isPaused>>
      /\ isReconnecting' = [isReconnecting EXCEPT !["client"] = FALSE]
      /\ writer' = [writer EXCEPT !["client"] = @ \o x]
  BY DEF EndAcceptReconnection, Write
<1>3. /\ writer'["client"] = writer["client"] \o x
      /\ writer'["server"] = writer["server"]
      /\ isReconnecting'["server"] = isReconnecting["server"]
      /\ \A g \in Ends : writer[g] \in Seq(ProtocolMessage)
      /\ Ends = {"client", "server"}
      /\ wire[k]["client"] \in Seq(ProtocolMessage)
      /\ wire[k]["server"] \in Seq(ProtocolMessage)
      /\ n \in Nat
  <2>1. /\ writer \in [Ends -> Seq(ProtocolMessage)]
        /\ isReconnecting \in [Ends -> BOOLEAN]
        /\ wire \in [Sockets -> [Ends -> Seq(ProtocolMessage)]]
        /\ Ends = {"client", "server"}
        /\ n \in Nat
    BY Shapes
  <2>2. wire[k]["client"] \in Seq(ProtocolMessage) /\ wire[k]["server"] \in Seq(ProtocolMessage)
    BY <1>0, <1>1, <2>1
  <2>3. /\ writer'["client"] = writer["client"] \o x
        /\ writer'["server"] = writer["server"]
    BY <1>0, <1>2, <2>1
  <2>4. isReconnecting'["server"] = isReconnecting["server"]
    BY <1>0, <1>2, <2>1
  <2> QED
    BY <2>1, <2>2, <2>3, <2>4
<1>4. /\ x \in Seq(ProtocolMessage)
      /\ GapFree(x, n)
      /\ outgoingMsgId["client"] > n => Holds(x, outgoingMsgId["client"])
      /\ Without("ReplayRequest", x)
  <2>1. /\ q \in Seq(GoodFrame("client"))
        /\ GoodAcks(outgoingAckId', outgoingUnackMsg')
    BY <1>0, ReceiveMessageKeeps
  <2> DEFINE base == outgoingAckId'["client"]
  <2>2. /\ base \in 0..MaxSends
        /\ base <= n
        /\ base + Len(q) = outgoingMsgId["client"]
        /\ \A i \in 1..Len(q) : q[i].type = "Regular" /\ q[i].id = base + i
    BY <1>0, <2>1 DEF GoodAcks
  <2>3. base \in Nat
    BY <2>2, BoundsAssumption
  <2> HIDE DEF q, n, base
  <2>4. <<>> \in Seq(GoodFrame("client")) /\ \A type : Without(type, <<>>)
    BY DEF Without
  <2>5. ReplayAfterReconnection("client", q) \o <<>> = ReplayAfterReconnection("client", q)
    <3>1. ReplayAfterReconnection("client", q) \in Seq(GoodFrame("client"))
      <4>1. incomingMsgId["client"] \in Nat /\ incomingMsgId["client"] <= incomingMsgId["client"]
        BY Shapes
      <4>2. Uncounted("Ack", incomingMsgId["client"]) \in GoodFrame("client")
        BY <1>0, <4>1, UncountedGood DEF ProtocolMessageType
      <4>3. <<Uncounted("Ack", incomingMsgId["client"])>> \in Seq(GoodFrame("client"))
        BY <4>2
      <4> QED
        BY <2>1, <4>3, ConcatIs DEF ReplayAfterReconnection
    <3> HIDE DEF ReplayAfterReconnection
    <3> QED
      BY <3>1
  <2>6. x = EncodeAll(ReplayAfterReconnection("client", q) \o <<>>)
    BY <2>5
  <2> HIDE DEF x
  <2> QED
    BY <1>0, <1>3, <2>1, <2>2, <2>3, <2>4, <2>6, Replayed
<1> HIDE DEF x, q
<1>5. /\ SocketsInOrder'
      /\ \A j \in Sockets, g \in Ends : Without("ReplayRequest", wire'[j][g])
      /\ \A j \in Sockets : j /= socket["server"] => Without("Regular", wire'[j]["client"])
      /\ Without("Control", writer'["server"]) => AnswersArePaused'
      /\ \A j \in Sockets, g \in Ends : GapFree(wire'[j][g], incomingMsgId'[Peer(g)])
      /\ \A g \in Ends : open[socket[g]] =>
            /\ GapFree(wire'[socket[g]][g] \o writer[g], incomingMsgId'[Peer(g)])
            /\ ~isReconnecting[g] /\ outgoingMsgId[g] > incomingMsgId'[Peer(g)]
                  => Holds(wire'[socket[g]][g] \o writer[g], outgoingMsgId[g])
  <2>1. \A g \in Ends : incomingMsgId[g] <= incomingMsgId'[g]
    <3>1. incomingMsgId \in [Ends -> Nat]
      BY Shapes
    <3> QED
      BY <1>2, <3>1
  <2> QED
    BY <1>0, <1>1, <1>2, <2>1, Popped
<1>6. NobodyAsks'
  <2>1. /\ ~isReconnecting["server"]
        /\ \A g \in Ends : Without("ReplayRequest", writer[g])
    BY DEF LosslessInv, NobodyAsks
  <2>2. Without("ReplayRequest", writer'["client"])
    BY <1>0, <1>3, <1>4, <2>1, WithoutConcat
  <2>3. \A g \in Ends : Without("ReplayRequest", writer'[g])
    BY <1>3, <2>1, <2>2
  <2> QED
    BY <1>3, <1>5, <2>1, <2>3 DEF NobodyAsks
<1>7. ClientIsSilent'
  <2>1. ~(open[k] /\ ~isPaused["client"] /\ k /= socket["server"])
    <3>1. SUFFICES ASSUME open[k], ~isPaused["client"], k /= socket["server"]
                   PROVE  FALSE
      OBVIOUS
    <3>2. 1 \in 1..Len(wire[k]["server"]) /\ wire[k]["server"][1].type = "Control"
      BY <1>0, <1>1, <1>3, TailIs
    <3>3. \E j \in 1..(1 - 1) : wire[k]["server"][j].type = "Pause"
      BY <1>1, <3>1, <3>2 DEF LosslessInv, AnswersArePaused
    <3> QED
      BY <3>3
  <2> QED
    BY <1>1, <1>2, <1>5, <2>1 DEF ClientIsSilent
<1>8. AnswersArePaused'
  BY <1>3, <1>5 DEF LosslessInv, AnswersArePaused
<1>9. PipelinesAreGapFree'
  <2> DEFINE t == wire'[k]["client"]
             b == writer["client"]
  <2>1. t \in Seq(ProtocolMessage) /\ b \in Seq(ProtocolMessage)
    <3>1. wire'[k]["client"] = wire[k]["client"]
      BY <1>0, <1>1, Shapes
    <3> QED
      BY <1>0, <1>3, <3>1
  <2>2. Pipeline("client")' = t \o (b \o x)
    BY <1>1, <1>3 DEF Pipeline
  <2>3. Pipeline("server")' = wire'[socket["server"]]["server"] \o writer["server"]
    BY <1>1, <1>3 DEF Pipeline
  <2>4. open[k] => GapFree(t \o b, n)
    BY <1>0, <1>2, <1>5
  <2> HIDE DEF t, b
  <2>5. t \o (b \o x) = (t \o b) \o x /\ t \o b \in Seq(ProtocolMessage)
    BY <1>4, <2>1, Regroup, ConcatIs
  <2>6. /\ open[k] => GapFree((t \o b) \o x, n)
        /\ outgoingMsgId["client"] > n => Holds((t \o b) \o x, outgoingMsgId["client"])
    BY <1>3, <1>4, <2>4, <2>5, GapFreeConcat, HoldsConcat
  <2>7. ASSUME NEW g \in Ends, open[socket[g]]
        PROVE  /\ GapFree(Pipeline(g)', incomingMsgId[Peer(g)])
               /\ ~isReconnecting'[g] /\ outgoingMsgId[g] > incomingMsgId[Peer(g)]
                     => Holds(Pipeline(g)', outgoingMsgId[g])
    <3>1. CASE g = "client"
      BY <1>0, <2>2, <2>5, <2>6, <2>7, <3>1
    <3>2. CASE g = "server"
      BY <1>0, <1>2, <1>3, <1>5, <2>3, <2>7, <3>2
    <3> QED
      BY <1>3, <3>1, <3>2
  <2>8. \A j \in Sockets, g \in Ends : GapFree(wire'[j][g], incomingMsgId[Peer(g)])
    BY <1>2, <1>5
  <2> QED
    BY <1>1, <1>2, <2>7, <2>8 DEF PipelinesAreGapFree
<1> QED
  BY <1>5, <1>6, <1>7, <1>8, <1>9 DEF LosslessInv
-----------------------------------------------------------------------------
(* Sockets                                                                 *)

\* Nothing can be lost from an empty wire.
LEMMA PrefixOfNothing ==
    ASSUME NEW p \in Prefixes(<<>>)
    PROVE  p = <<>>
<1>1. PICK n \in 0..Len(<<>>) : p = SubSeq(<<>>, 1, n)
  BY DEF Prefixes
<1>2. n = 0
  BY <1>1
<1> QED
  BY <1>1, <1>2

\* A socket that breaks loses a suffix of what is in flight and is closed.
LEMMA SocketBreaksLossless ==
    ASSUME IInv, LosslessInv, NEW k \in Sockets, SocketBreaks(k)
    PROVE  LosslessInv'
<1>1. /\ open' = [open EXCEPT ![k] = FALSE]
      /\ UNCHANGED <<writer, isPaused, socket, connectionType, handOff, isReconnecting,
                     outgoingMsgId, incomingMsgId>>
  BY DEF SocketBreaks, protocolVars
<1>2. /\ wire \in [Sockets -> [Ends -> Seq(ProtocolMessage)]]
      /\ open \in [Sockets -> BOOLEAN]
      /\ socket \in [Ends -> Sockets]
      /\ incomingMsgId \in [Ends -> Nat]
      /\ \A g \in Ends : Peer(g) \in Ends
      /\ Ends = {"client", "server"}
  BY Shapes
<1>3. /\ \A j \in Sockets \ {k}, g \in Ends : wire'[j][g] = wire[j][g]
      /\ \A g \in Ends : wire'[k][g] \in Prefixes(wire[k][g])
  <2>1. PICK c \in Prefixes(wire[k]["client"]), s \in Prefixes(wire[k]["server"]) :
            wire' = [wire EXCEPT ![k] = [e \in Ends |-> IF e = "client" THEN c ELSE s]]
    BY DEF SocketBreaks
  <2>2. wire'[k] = [e \in Ends |-> IF e = "client" THEN c ELSE s]
    BY <1>2, <2>1
  <2>3. wire'[k]["client"] = c /\ wire'[k]["server"] = s
    BY <1>2, <2>2
  <2>4. \A g \in Ends : wire'[k][g] \in Prefixes(wire[k][g])
    BY <1>2, <2>1, <2>3
  <2> QED
    BY <1>2, <2>1, <2>4
<1>4. ~open'[k] /\ \A j \in Sockets \ {k} : open'[j] = open[j]
  BY <1>1, <1>2
<1>5. SocketsInOrder'
  <2>1. \A j \in Sockets, g \in Ends : j > socket["client"] => wire'[j][g] = <<>>
    <3>1. ASSUME NEW g \in Ends, k > socket["client"]
          PROVE  wire'[k][g] = <<>>
      <4>1. wire[k][g] = <<>>
        BY <3>1 DEF LosslessInv, SocketsInOrder
      <4> QED
        BY <1>3, <4>1, PrefixOfNothing
    <3> QED
      BY <1>3, <3>1 DEF LosslessInv, SocketsInOrder
  <2> QED
    BY <1>1, <2>1 DEF LosslessInv, SocketsInOrder
<1>6. NobodyAsks'
  <2>1. \A j \in Sockets, g \in Ends : Without("ReplayRequest", wire[j][g])
    BY DEF LosslessInv, NobodyAsks
  <2>2. \A g \in Ends : Without("ReplayRequest", wire'[k][g])
    BY <1>2, <1>3, <2>1, WithoutPrefix
  <2> QED
    BY <1>1, <1>3, <2>1, <2>2 DEF LosslessInv, NobodyAsks
<1>7. ClientIsSilent'
  <2>1. \A j \in Sockets : j /= socket["server"] => Without("Regular", wire[j]["client"])
    BY DEF LosslessInv, ClientIsSilent
  <2>2. k /= socket["server"] => Without("Regular", wire'[k]["client"])
    BY <1>2, <1>3, <2>1, WithoutPrefix
  <2>3. open'[socket["client"]] => open[socket["client"]]
    BY <1>2, <1>4
  <2>4. \A j \in Sockets : j /= socket["server"] => Without("Regular", wire'[j]["client"])
    BY <1>2, <1>3, <2>1, <2>2
  <2> QED
    BY <1>1, <2>3, <2>4 DEF LosslessInv, ClientIsSilent
<1>8. AnswersArePaused'
  <2>1. ASSUME NEW j \in Sockets, open'[j]
        PROVE  open[j] /\ wire'[j]["server"] = wire[j]["server"]
    <3>1. j \in Sockets \ {k} /\ "server" \in Ends
      BY <1>2, <1>4, <2>1
    <3>2. open[j]
      BY <1>4, <2>1, <3>1
    <3> QED
      BY <1>3, <3>1, <3>2
  <2> QED
    BY <1>1, <2>1 DEF LosslessInv, AnswersArePaused
<1>9. PipelinesAreGapFree'
  <2>1. \A j \in Sockets, g \in Ends : GapFree(wire[j][g], incomingMsgId[Peer(g)])
    BY DEF LosslessInv, PipelinesAreGapFree
  <2>2. \A g \in Ends : GapFree(wire'[k][g], incomingMsgId[Peer(g)])
    BY <1>2, <1>3, <2>1, GapFreePrefix
  <2>3. \A j \in Sockets, g \in Ends : GapFree(wire'[j][g], incomingMsgId[Peer(g)])
    BY <1>3, <2>1, <2>2
  <2>4. \A g \in Ends : open'[socket[g]] => open[socket[g]] /\ Pipeline(g)' = Pipeline(g)
    BY <1>1, <1>2, <1>3, <1>4 DEF Pipeline
  <2> QED
    BY <1>1, <2>3, <2>4 DEF LosslessInv, PipelinesAreGapFree
<1> QED
  BY <1>5, <1>6, <1>7, <1>8, <1>9 DEF LosslessInv

\* What is left of the socket end e abandons
LEMMA AbandonIs ==
    ASSUME NEW e \in Ends, NEW w \in [Sockets -> [Ends -> Seq(ProtocolMessage)]],
           socket[e] \in Sockets, NEW w1 \in Abandon(e, w)
    PROVE  /\ \A j \in Sockets \ {socket[e]} : w1[j] = w[j]
           /\ w1[socket[e]][Peer(e)] = <<>>
           /\ IF isPaused[e] \/ ~open[socket[e]]
              THEN w1[socket[e]][e] \in Prefixes(w[socket[e]][e])
              ELSE w1[socket[e]][e] \in Prefixes(w[socket[e]][e] \o writer[e])
<1> DEFINE k == socket[e]
           all == IF isPaused[e] \/ ~open[k] THEN w[k][e] ELSE w[k][e] \o writer[e]
<1>1. PICK p \in Prefixes(all) : w1 = [w EXCEPT ![k] = [f \in Ends |-> IF f = e THEN p ELSE <<>>]]
  BY DEF Abandon
<1>2. w1[k] = [f \in Ends |-> IF f = e THEN p ELSE <<>>]
  BY <1>1
<1>3. Peer(e) \in Ends /\ Peer(e) /= e
  BY DEF Peer, Ends
<1>4. w1[k][e] = p /\ w1[k][Peer(e)] = <<>>
  BY <1>2, <1>3
<1>5. \A j \in Sockets \ {k} : w1[j] = w[j]
  BY <1>1
<1> QED
  BY <1>1, <1>4, <1>5
\* The client moves to a new socket: its pipeline is empty, and it is reconnecting.
LEMMA BeginAcceptReconnectionLossless ==
    ASSUME IInv, LosslessInv, BeginAcceptReconnection
    PROVE  LosslessInv'
<1> DEFINE k == socket["client"]
<1>1. /\ k < MaxSockets
      /\ isReconnecting' = [isReconnecting EXCEPT !["client"] = TRUE]
      /\ wire' \in Abandon("client", wire)
      /\ writer' = [writer EXCEPT !["client"] = <<>>]
      /\ isPaused' = [isPaused EXCEPT !["client"] = FALSE]
      /\ socket' = [socket EXCEPT !["client"] = k + 1]
      /\ open' = [open EXCEPT ![k] = FALSE, ![k + 1] = TRUE]
      /\ UNCHANGED <<outgoingMsgId, incomingMsgId, connectionType, handOff>>
  BY DEF BeginAcceptReconnection
<1>2. /\ wire \in [Sockets -> [Ends -> Seq(ProtocolMessage)]]
      /\ writer \in [Ends -> Seq(ProtocolMessage)]
      /\ open \in [Sockets -> BOOLEAN]
      /\ isReconnecting \in [Ends -> BOOLEAN]
      /\ isPaused \in [Ends -> BOOLEAN]
      /\ socket \in [Ends -> Sockets]
      /\ incomingMsgId \in [Ends -> Nat]
      /\ \A g \in Ends : Peer(g) \in Ends
      /\ Ends = {"client", "server"}
      /\ Peer("client") = "server"
      /\ \A j \in Sockets : j \in Nat
  BY Shapes
<1>3. k \in Sockets /\ k \in Nat /\ k + 1 \in Sockets
  <2>1. k \in Sockets /\ k \in Nat
    BY <1>2
  <2> HIDE DEF k
  <2>2. k < MaxSockets
    BY <1>1 DEF k
  <2> QED
    BY <2>1, <2>2, BoundsAssumption DEF Sockets
<1>4. /\ isReconnecting'["client"] /\ isReconnecting'["server"] = isReconnecting["server"]
      /\ writer'["client"] = <<>> /\ writer'["server"] = writer["server"]
      /\ socket'["client"] = k + 1 /\ socket'["server"] = socket["server"]
      /\ ~open'[k] /\ \A j \in Sockets \ {k, k + 1} : open'[j] = open[j]
  <2>0. "client" \in Ends /\ "server" \in Ends /\ "client" /= "server"
    BY <1>2
  <2>1. isReconnecting'["client"] /\ isReconnecting'["server"] = isReconnecting["server"]
    BY <1>1, <1>2, <2>0
  <2>2. writer'["client"] = <<>> /\ writer'["server"] = writer["server"]
    BY <1>1, <1>2, <2>0
  <2>3. socket'["client"] = k + 1 /\ socket'["server"] = socket["server"]
    BY <1>1, <1>2, <2>0
  <2> HIDE DEF k
  <2>4. k /= k + 1
    BY <1>3
  <2>5. ~open'[k] /\ \A j \in Sockets \ {k, k + 1} : open'[j] = open[j]
    BY <1>1, <1>2, <1>3, <2>4
  <2> QED
    BY <2>1, <2>2, <2>3, <2>5
<1>5. /\ \A j \in Sockets \ {k} : wire'[j] = wire[j]
      /\ wire'[k]["server"] = <<>>
      /\ IF isPaused["client"] \/ ~open[k]
         THEN wire'[k]["client"] \in Prefixes(wire[k]["client"])
         ELSE wire'[k]["client"] \in Prefixes(Pipeline("client"))
  <2>1. "client" \in Ends /\ socket["client"] \in Sockets /\ Peer("client") = "server"
    BY <1>2
  <2>2. /\ \A j \in Sockets \ {socket["client"]} : wire'[j] = wire[j]
        /\ wire'[socket["client"]][Peer("client")] = <<>>
        /\ IF isPaused["client"] \/ ~open[socket["client"]]
           THEN wire'[socket["client"]]["client"] \in Prefixes(wire[socket["client"]]["client"])
           ELSE wire'[socket["client"]]["client"]
                   \in Prefixes(wire[socket["client"]]["client"] \o writer["client"])
    BY <1>1, <1>2, <2>1, AbandonIs
  <2> QED
    BY <2>1, <2>2 DEF Pipeline
<1>6. Pipeline("client") \in Seq(ProtocolMessage)
  <2>1. wire[k]["client"] \in Seq(ProtocolMessage) /\ writer["client"] \in Seq(ProtocolMessage)
    BY <1>2, <1>3
  <2> QED
    BY <2>1, ConcatIs DEF Pipeline
<1>7. socket["server"] \in Nat /\ socket["server"] <= k
  BY <1>2 DEF LosslessInv, SocketsInOrder
<1>8. \A g \in Ends : wire[k + 1][g] = <<>>
  BY <1>3 DEF LosslessInv, SocketsInOrder
<1>9. (\A type : Without(type, <<>>)) /\ \A n : GapFree(<<>>, n)
  BY DEF Without, GapFree
<1>10. wire[k]["client"] \in Seq(ProtocolMessage)
  BY <1>2, <1>3
<1> HIDE DEF k
<1>11. SocketsInOrder'
  <2>1. \A j \in Sockets, g \in Ends : j > k + 1 => wire'[j][g] = <<>>
    <3>1. ASSUME NEW j \in Sockets, j > k + 1
          PROVE  j /= k /\ j > k
      BY <1>2, <1>3, <3>1
    <3> QED
      BY <1>5, <3>1 DEF LosslessInv, SocketsInOrder, k
  <2>2. \A j \in handOff : j <= k + 1 /\ j /= socket["server"]
    <3>1. handOff \subseteq Sockets
      BY DEF IInv, TypeOK
    <3>2. \A j \in handOff : j \in Nat /\ j <= k /\ j /= socket["server"]
      BY <1>2, <3>1 DEF LosslessInv, SocketsInOrder, k
    <3> QED
      BY <1>3, <3>2
  <2>3. socket["server"] <= k + 1
    BY <1>3, <1>7
  <2> QED
    BY <1>1, <1>4, <2>1, <2>2, <2>3 DEF LosslessInv, SocketsInOrder
<1>12. NobodyAsks'
  <2>1. /\ ~isReconnecting["server"]
        /\ \A g \in Ends : Without("ReplayRequest", writer[g])
        /\ \A j \in Sockets, g \in Ends : Without("ReplayRequest", wire[j][g])
    BY DEF LosslessInv, NobodyAsks
  <2>2. Without("ReplayRequest", Pipeline("client"))
    BY <1>2, <1>3, <1>10, <2>1, WithoutConcat DEF Pipeline, k
  <2>3. Without("ReplayRequest", wire[k]["client"])
    BY <1>2, <1>3, <2>1
  <2>4. Without("ReplayRequest", wire'[k]["client"])
    BY <1>5, <1>6, <1>10, <2>2, <2>3, WithoutPrefix
  <2>5. \A j \in Sockets, g \in Ends : Without("ReplayRequest", wire'[j][g])
    BY <1>2, <1>5, <1>9, <2>1, <2>4
  <2>6. \A g \in Ends : Without("ReplayRequest", writer'[g])
    BY <1>2, <1>4, <1>9, <2>1
  <2> QED
    BY <1>4, <2>1, <2>5, <2>6 DEF NobodyAsks
<1>13. ClientIsSilent'
  <2>1. /\ \A j \in Sockets : j /= socket["server"] => Without("Regular", wire[j]["client"])
        /\ open[k] /\ ~isPaused["client"] /\ k /= socket["server"]
              => Without("Regular", writer["client"])
    BY DEF LosslessInv, ClientIsSilent, k
  <2>2. ASSUME k /= socket["server"]
        PROVE  Without("Regular", wire'[k]["client"])
    <3>1. Without("Regular", wire[k]["client"])
      BY <1>3, <2>1, <2>2
    <3>2. open[k] /\ ~isPaused["client"] => Without("Regular", Pipeline("client"))
      BY <1>2, <1>10, <2>1, <2>2, <3>1, WithoutConcat DEF Pipeline, k
    <3> QED
      BY <1>5, <1>6, <1>10, <3>1, <3>2, WithoutPrefix
  <2>3. \A j \in Sockets : j /= socket["server"] => Without("Regular", wire'[j]["client"])
    BY <1>5, <2>1, <2>2
  <2> QED
    BY <1>4, <1>9, <2>3 DEF ClientIsSilent
<1>14. AnswersArePaused'
  <2>1. ASSUME NEW j \in Sockets, j /= socket["server"], open'[j]
        PROVE  /\ Without("Resume", wire'[j]["server"])
               /\ \A i \in 1..Len(wire'[j]["server"]) :
                     wire'[j]["server"][i].type = "Control" =>
                        /\ j \in handOff
                        /\ \E h \in 1..(i - 1) : wire'[j]["server"][h].type = "Pause"
    <3>1. j /= k
      BY <1>4, <2>1
    <3>2. wire'[j]["server"] = wire[j]["server"]
      BY <1>5, <3>1
    <3>3. CASE j = k + 1
      <4>1. wire'[j]["server"] = <<>>
        BY <1>2, <1>8, <3>2, <3>3
      <4>2. \A i \in 1..Len(wire'[j]["server"]) : FALSE
        BY <4>1
      <4> QED
        BY <1>9, <4>1, <4>2
    <3>4. CASE j /= k + 1
      <4>1. open[j]
        BY <1>4, <2>1, <3>1, <3>4
      <4> QED
        BY <2>1, <3>1, <3>2, <4>1 DEF LosslessInv, AnswersArePaused, k
    <3> QED
      BY <3>3, <3>4
  <2>2. Without("Control", writer'["server"])
    BY <1>4 DEF LosslessInv, AnswersArePaused
  <2> QED
    BY <1>1, <1>4, <2>1, <2>2 DEF AnswersArePaused
<1>15. PipelinesAreGapFree'
  <2>0. /\ \A j \in Sockets, g \in Ends : GapFree(wire[j][g], incomingMsgId[Peer(g)])
        /\ \A g \in Ends : open[socket[g]] =>
              /\ GapFree(Pipeline(g), incomingMsgId[Peer(g)])
              /\ ~isReconnecting[g] /\ outgoingMsgId[g] > incomingMsgId[Peer(g)]
                    => Holds(Pipeline(g), outgoingMsgId[g])
    BY DEF LosslessInv, PipelinesAreGapFree
  <2>1. GapFree(wire'[k]["client"], incomingMsgId[Peer("client")])
    <3>1. GapFree(wire[k]["client"], incomingMsgId[Peer("client")])
      BY <1>2, <1>3, <2>0
    <3>2. open[k] => GapFree(Pipeline("client"), incomingMsgId[Peer("client")])
      BY <1>2, <2>0 DEF k
    <3>3. incomingMsgId[Peer("client")] \in Nat
      BY <1>2
    <3> QED
      BY <1>5, <1>6, <1>10, <3>1, <3>2, <3>3, GapFreePrefix
  <2>2. \A j \in Sockets, g \in Ends : GapFree(wire'[j][g], incomingMsgId[Peer(g)])
    BY <1>2, <1>5, <1>9, <2>0, <2>1
  <2>3. Pipeline("client")' = <<>>
    <3>1. wire'[k + 1]["client"] = <<>>
      BY <1>2, <1>3, <1>5, <1>8
    <3> QED
      BY <1>4, <3>1 DEF Pipeline
  <2>4. ASSUME open'[socket["server"]]
        PROVE  open[socket["server"]] /\ Pipeline("server")' = Pipeline("server")
    <3>1. socket["server"] \in Sockets \ {k, k + 1}
      BY <1>2, <1>3, <1>4, <1>7, <2>4
    <3> QED
      BY <1>4, <1>5, <2>4, <3>1 DEF Pipeline
  <2>5. ASSUME NEW g \in Ends, open'[socket'[g]]
        PROVE  /\ GapFree(Pipeline(g)', incomingMsgId[Peer(g)])
               /\ ~isReconnecting'[g] /\ outgoingMsgId[g] > incomingMsgId[Peer(g)]
                     => Holds(Pipeline(g)', outgoingMsgId[g])
    <3>1. CASE g = "client"
      BY <1>4, <1>9, <2>3, <3>1
    <3>2. CASE g = "server"
      BY <1>4, <2>0, <2>4, <2>5, <3>2
    <3> QED
      BY <1>2, <3>1, <3>2
  <2> QED
    BY <1>1, <2>2, <2>5 DEF PipelinesAreGapFree
<1> QED
  BY <1>11, <1>12, <1>13, <1>14, <1>15 DEF LosslessInv
-----------------------------------------------------------------------------
(* The server accepts                                                      *)

\* What is left when n frames were read from the initial data chunk
LEMMA WithoutRest ==
    ASSUME NEW S, NEW s \in Seq(S), NEW n \in 0..Len(s), NEW type, Without(type, s)
    PROVE  /\ SubSeq(s, n + 1, Len(s)) \in Seq(S)
           /\ Without(type, SubSeq(s, n + 1, Len(s)))
<1>0. Len(s) \in Nat
  BY LenProperties
<1>1. \A i \in (n + 1)..Len(s) : s[i] \in S
  BY <1>0, ElementOfSeq
<1>2. n + 1 \in Int /\ Len(s) \in Int
  BY <1>0
<1>3. /\ SubSeq(s, n + 1, Len(s)) \in Seq(S)
      /\ Len(SubSeq(s, n + 1, Len(s))) = Len(s) - n
      /\ \A i \in 1..(Len(s) - n) : SubSeq(s, n + 1, Len(s))[i] = s[n + i]
  <2>1. SubSeq(s, n + 1, Len(s)) = [i \in 1..(Len(s) - n) |-> s[n + i]]
    BY <1>0
  <2>2. Len(s) - n \in Nat
    BY <1>0
  <2>3. \A i \in 1..(Len(s) - n) : s[n + i] \in S
    <3>1. ASSUME NEW i \in 1..(Len(s) - n) PROVE n + i \in (n + 1)..Len(s)
      BY <1>0
    <3> QED
      BY <1>1, <3>1
  <2> QED
    BY <2>1, <2>2, <2>3
<1>4. ASSUME NEW i \in 1..(Len(s) - n)
      PROVE  n + i \in 1..Len(s)
  BY <1>0
<1> QED
  BY <1>3, <1>4 DEF Without

\* Where no message is, there is not one with this id.
LEMMA SilentHoldsNothing ==
    ASSUME NEW s, NEW id, Without("Regular", s)
    PROVE  ~Holds(s, id)
  BY DEF Without, Holds

\* The server's protocol moves to socket k and leaves its old one closed.
LEMMA ServerAcceptsLossless ==
    ASSUME IInv, IInv', LosslessInv,
           NEW k \in Sockets, k /= socket["server"], k <= socket["client"],
           NEW w, GoodWires(w), \A j \in Sockets \ {k} : w[j] = wire[j],
           Without("ReplayRequest", w[k]["server"]),
           GapFree(w[k]["server"], incomingMsgId["client"]),
           NEW rest \in Seq(GoodFrame("client")),
           Without("Regular", rest), Without("ReplayRequest", rest),
           NEW n \in 0..Len(rest),
           NEW tail \in Seq(GoodFrame("server")),
           Without("Regular", tail), Without("ReplayRequest", tail), Without("Control", tail),
           ServerAccepts(k, w, rest, n, tail), handOff' = handOff \ {k}
    PROVE  LosslessInv'
<1> DEFINE old == socket["server"]
           q == outgoingUnackMsg'["server"]
           x == EncodeAll(ReplayAfterReconnection("server", q) \o tail)
           r == SubSeq(rest, n + 1, Len(rest))
<1>1. /\ writer' = [writer EXCEPT !["server"] = x]
      /\ isPaused' = [isPaused EXCEPT !["server"] = FALSE]
      /\ socket' = [socket EXCEPT !["server"] = k]
      /\ open' = [open EXCEPT ![old] = FALSE]
      /\ \E w1 \in Abandon("server", w) : wire' = [w1 EXCEPT ![k]["client"] = r]
      /\ UNCHANGED <<isReconnecting, outgoingMsgId, incomingMsgId, connectionType, sent>>
  BY DEF ServerAccepts
<1>2. /\ wire \in [Sockets -> [Ends -> Seq(ProtocolMessage)]]
      /\ w \in [Sockets -> [Ends -> Seq(ProtocolMessage)]]
      /\ writer \in [Ends -> Seq(ProtocolMessage)]
      /\ open \in [Sockets -> BOOLEAN]
      /\ isPaused \in [Ends -> BOOLEAN]
      /\ socket \in [Ends -> Sockets]
      /\ incomingMsgId \in [Ends -> Nat]
      /\ outgoingMsgId \in [Ends -> Nat]
      /\ Ends = {"client", "server"}
      /\ "client" \in Ends /\ "server" \in Ends
      /\ Peer("client") = "server" /\ Peer("server") = "client"
      /\ \A j \in Sockets : j \in Nat
  BY Shapes DEF GoodWires
<1>3. old \in Sockets /\ old /= k /\ socket["client"] \in Sockets
  BY <1>2
<1>4. /\ x \in Seq(ProtocolMessage)
      /\ GapFree(x, incomingMsgId["client"])
      /\ outgoingMsgId["server"] > incomingMsgId["client"] => Holds(x, outgoingMsgId["server"])
      /\ Without("ReplayRequest", x)
      /\ Without("Control", x)
  <2> DEFINE base == outgoingAckId'["server"]
  <2>1. GoodFrame("server")' = GoodFrame("server")
    BY <1>1 DEF GoodFrame
  <2>2. /\ q \in Seq(ProtocolMessage)
        /\ base \in 0..MaxSends
        /\ base <= incomingMsgId["client"]
        /\ base + Len(q) = outgoingMsgId["server"]
        /\ \A i \in 1..Len(q) : /\ q[i].type = "Regular"
                                /\ q[i].id = base + i
                                /\ q[i] \in GoodFrame("server")
    <3>0. "server" \in Ends /\ Peer("server") = "client"
      BY <1>2
    <3>1. q \in Seq(ProtocolMessage) /\ base \in 0..MaxSends
      BY <3>0 DEF IInv, TypeOK
    <3>2. base <= incomingMsgId'[Peer("server")]
      BY <3>0 DEF IInv, CountersAgree
    <3>3. /\ base + Len(q) = outgoingMsgId'["server"]
          /\ \A i \in 1..Len(q) : q[i].id = base + i
      BY <3>0 DEF IInv, UnackQueueExact
    <3>4. \A i \in 1..Len(q) : q[i].type = "Regular" /\ q[i] \in GoodFrame("server")'
      BY <3>0 DEF IInv, UnackIsGood
    <3> HIDE DEF q, base
    <3> QED
      BY <1>1, <2>1, <3>0, <3>1, <3>2, <3>3, <3>4
  <2>3. base \in Nat /\ incomingMsgId["client"] \in Nat
    <3>1. base \in Nat
      BY <2>2, BoundsAssumption
    <3>2. incomingMsgId["client"] \in Nat
      BY <1>2
    <3> QED
      BY <3>1, <3>2
  <2> HIDE DEF q, base
  <2>4. q \in Seq(GoodFrame("server"))
    <3>1. Len(q) \in Nat /\ q = [i \in 1..Len(q) |-> q[i]]
      BY <2>2, LenProperties
    <3> QED
      BY <2>2, <3>1
  <2> HIDE DEF x
  <2>5. x = EncodeAll(ReplayAfterReconnection("server", q) \o tail)
    BY DEF x
  <2>6. /\ "server" \in Ends
        /\ \A i \in 1..Len(q) : q[i].type = "Regular" /\ q[i].id = base + i
    BY <1>2, <2>2
  <2>7. base <= incomingMsgId["client"] /\ base + Len(q) = outgoingMsgId["server"]
    BY <2>2
  <2> QED
    BY <2>3, <2>4, <2>5, <2>6, <2>7, Replayed
<1> HIDE DEF x, q
<1>5. /\ r \in Seq(ProtocolMessage)
      /\ Without("Regular", r) /\ Without("ReplayRequest", r)
  <2>1. r \in Seq(GoodFrame("client")) /\ Without("Regular", r) /\ Without("ReplayRequest", r)
    BY WithoutRest
  <2> HIDE DEF r
  <2> QED
    BY <2>1, GoodIsFrame
<1> HIDE DEF r
<1>6. /\ writer'["server"] = x /\ writer'["client"] = writer["client"]
      /\ isPaused'["client"] = isPaused["client"]
      /\ socket'["server"] = k /\ socket'["client"] = socket["client"]
      /\ ~open'[old] /\ \A j \in Sockets \ {old} : open'[j] = open[j]
  BY <1>1, <1>2, <1>3
<1>7. /\ \A j \in Sockets \ {k, old}, g \in Ends : wire'[j][g] = wire[j][g]
      /\ wire'[k]["client"] = r
      /\ wire'[k]["server"] = w[k]["server"]
      /\ wire'[old]["client"] = <<>>
      /\ \/ wire'[old]["server"] \in Prefixes(wire[old]["server"])
         \/ open[old] /\ wire'[old]["server"] \in Prefixes(Pipeline("server"))
  <2>1. PICK w1 \in Abandon("server", w) : wire' = [w1 EXCEPT ![k]["client"] = r]
    BY <1>1
  <2>2. w1 \in [Sockets -> [Ends -> Seq(ProtocolMessage)]]
    BY <1>2, AbandonGood DEF GoodWires
  <2>3. /\ \A j \in Sockets \ {old} : w1[j] = w[j]
        /\ w1[old]["client"] = <<>>
        /\ \/ w1[old]["server"] \in Prefixes(w[old]["server"])
           \/ open[old] /\ w1[old]["server"] \in Prefixes(w[old]["server"] \o writer["server"])
    <3>1. /\ \A j \in Sockets \ {socket["server"]} : w1[j] = w[j]
          /\ w1[socket["server"]][Peer("server")] = <<>>
          /\ IF isPaused["server"] \/ ~open[socket["server"]]
             THEN w1[socket["server"]]["server"] \in Prefixes(w[socket["server"]]["server"])
             ELSE w1[socket["server"]]["server"]
                     \in Prefixes(w[socket["server"]]["server"] \o writer["server"])
      BY <1>2, <1>3, <2>1, AbandonIs
    <3> QED
      BY <1>2, <3>1
  <2>4. w[old] = wire[old] /\ \A j \in Sockets \ {k, old} : w[j] = wire[j]
    BY <1>3
  <2>5. /\ \A j \in Sockets \ {k} : wire'[j] = w1[j]
        /\ wire'[k]["client"] = r
        /\ wire'[k]["server"] = w1[k]["server"]
    BY <1>2, <2>1, <2>2
  <2> HIDE DEF old
  <2> QED
    BY <1>3, <2>3, <2>4, <2>5 DEF Pipeline, old
<1>8. Pipeline("server") \in Seq(ProtocolMessage) /\ wire[old]["server"] \in Seq(ProtocolMessage)
  <2>1. wire[old]["server"] \in Seq(ProtocolMessage) /\ writer["server"] \in Seq(ProtocolMessage)
    BY <1>2, <1>3
  <2> QED
    BY <2>1, ConcatIs DEF Pipeline
<1>9. (\A type : Without(type, <<>>)) /\ \A m : GapFree(<<>>, m)
  BY DEF Without, GapFree
<1>10. SocketsInOrder'
  <2>0. /\ old <= socket["client"]
        /\ \A j \in handOff : j <= socket["client"]
        /\ connectionType = "Management" => handOff = {}
        /\ \A j \in Sockets, g \in Ends : j > socket["client"] => wire[j][g] = <<>>
    BY DEF LosslessInv, SocketsInOrder
  <2>1. old \in Nat /\ k \in Nat /\ socket["client"] \in Nat
    BY <1>2, <1>3
  <2> HIDE DEF old
  <2>2. ~(old > socket["client"]) /\ ~(k > socket["client"])
    BY <2>0, <2>1
  <2>3. \A j \in Sockets, g \in Ends : j > socket["client"] => wire'[j][g] = <<>>
    BY <1>7, <2>0, <2>2
  <2>4. \A j \in handOff' : j <= socket["client"] /\ j /= k
    BY <2>0
  <2>5. connectionType = "Management" => handOff' = {}
    BY <2>0
  <2> QED
    BY <1>1, <1>6, <2>3, <2>4, <2>5 DEF SocketsInOrder
<1>11. NobodyAsks'
  <2>1. /\ ~isReconnecting["server"]
        /\ \A g \in Ends : Without("ReplayRequest", writer[g])
        /\ \A j \in Sockets, g \in Ends : Without("ReplayRequest", wire[j][g])
    BY DEF LosslessInv, NobodyAsks
  <2>2. Without("ReplayRequest", Pipeline("server"))
    <3>1. /\ wire[old]["server"] \in Seq(ProtocolMessage)
          /\ writer["server"] \in Seq(ProtocolMessage)
          /\ Without("ReplayRequest", wire[old]["server"])
          /\ Without("ReplayRequest", writer["server"])
      BY <1>2, <1>3, <2>1
    <3>2. Without("ReplayRequest", wire[old]["server"] \o writer["server"])
      BY <3>1, WithoutConcat
    <3> QED
      BY <3>2 DEF Pipeline
  <2>3. Without("ReplayRequest", wire[old]["server"])
    BY <1>2, <1>3, <2>1
  <2> HIDE DEF old
  <2>4. Without("ReplayRequest", wire'[old]["server"])
    BY <1>7, <1>8, <2>2, <2>3, WithoutPrefix
  <2>5. \A j \in Sockets, g \in Ends : Without("ReplayRequest", wire'[j][g])
    <3>1. \A g \in Ends : Without("ReplayRequest", wire'[old][g])
      BY <1>2, <1>7, <1>9, <2>4
    <3>2. \A g \in Ends : Without("ReplayRequest", wire'[k][g])
      BY <1>2, <1>5, <1>7
    <3> QED
      BY <1>7, <2>1, <3>1, <3>2
  <2>6. \A g \in Ends : Without("ReplayRequest", writer'[g])
    BY <1>2, <1>4, <1>6, <2>1
  <2> QED
    BY <1>1, <2>1, <2>5, <2>6 DEF NobodyAsks
<1>12. ClientIsSilent'
  <2>1. /\ \A j \in Sockets : j /= old => Without("Regular", wire[j]["client"])
        /\ open[socket["client"]] /\ ~isPaused["client"] /\ socket["client"] /= old
              => isReconnecting["client"] /\ Without("Regular", writer["client"])
    BY DEF LosslessInv, ClientIsSilent
  <2> HIDE DEF old
  <2>2. \A j \in Sockets : j /= k => Without("Regular", wire'[j]["client"])
    BY <1>2, <1>7, <1>9, <2>1
  <2>3. open'[socket["client"]] => socket["client"] /= old /\ open[socket["client"]]
    BY <1>3, <1>6
  <2> QED
    BY <1>1, <1>6, <2>1, <2>2, <2>3 DEF ClientIsSilent
<1>13. AnswersArePaused'
  <2>1. ASSUME NEW j \in Sockets, j /= k, open'[j]
        PROVE  /\ Without("Resume", wire'[j]["server"])
               /\ \A i \in 1..Len(wire'[j]["server"]) :
                     wire'[j]["server"][i].type = "Control" =>
                        /\ j \in handOff'
                        /\ \/ j = socket["client"] /\ isPaused["client"]
                           \/ \E h \in 1..(i - 1) : wire'[j]["server"][h].type = "Pause"
    <3>1. j /= old /\ open[j]
      BY <1>6, <2>1
    <3>2. wire'[j]["server"] = wire[j]["server"]
      BY <1>2, <1>7, <2>1, <3>1
    <3>3. /\ Without("Resume", wire[j]["server"])
          /\ \A i \in 1..Len(wire[j]["server"]) :
                wire[j]["server"][i].type = "Control" =>
                   /\ j \in handOff
                   /\ \/ j = socket["client"] /\ isPaused["client"]
                      \/ \E h \in 1..(i - 1) : wire[j]["server"][h].type = "Pause"
      BY <3>1 DEF LosslessInv, AnswersArePaused
    <3> QED
      BY <2>1, <3>2, <3>3
  <2>2. Without("Control", writer'["server"])
    BY <1>4, <1>6
  <2> QED
    BY <1>6, <2>1, <2>2 DEF AnswersArePaused
<1>14. PipelinesAreGapFree'
  <2> DEFINE c == socket["client"]
             b == writer["client"]
             m == incomingMsgId["server"]
             o == outgoingMsgId["client"]
  <2>0. /\ \A j \in Sockets, g \in Ends : GapFree(wire[j][g], incomingMsgId[Peer(g)])
        /\ open[old] => GapFree(Pipeline("server"), incomingMsgId["client"])
        /\ open[c] => /\ GapFree(Pipeline("client"), m)
                      /\ ~isReconnecting["client"] /\ o > m => Holds(Pipeline("client"), o)
    BY <1>2 DEF LosslessInv, PipelinesAreGapFree
  <2>1. GapFree(wire'[old]["server"], incomingMsgId["client"])
    <3>1. GapFree(wire[old]["server"], incomingMsgId["client"])
      BY <1>2, <1>3, <2>0
    <3>2. incomingMsgId["client"] \in Nat
      BY <1>2
    <3> QED
      BY <1>7, <1>8, <2>0, <3>1, <3>2, GapFreePrefix
  <2>2. \A j \in Sockets, g \in Ends : GapFree(wire'[j][g], incomingMsgId[Peer(g)])
    <3>1. \A g \in Ends : GapFree(wire'[old][g], incomingMsgId[Peer(g)])
      <4>1. GapFree(wire'[old]["client"], incomingMsgId[Peer("client")])
        BY <1>7, <1>9
      <4>2. GapFree(wire'[old]["server"], incomingMsgId[Peer("server")])
        BY <1>2, <2>1
      <4>3. Ends = {"client", "server"}
        BY <1>2
      <4> QED
        BY <4>1, <4>2, <4>3
    <3>2. \A g \in Ends : GapFree(wire'[k][g], incomingMsgId[Peer(g)])
      BY <1>2, <1>5, <1>7, SilentIsGapFree
    <3> HIDE DEF old
    <3> QED
      BY <1>7, <2>0, <3>1, <3>2
  <2>3. /\ GapFree(Pipeline("server")', incomingMsgId["client"])
        /\ outgoingMsgId["server"] > incomingMsgId["client"]
              => Holds(Pipeline("server")', outgoingMsgId["server"])
    <3> DEFINE t == w[k]["server"]
    <3>1. Pipeline("server")' = t \o x
      BY <1>6, <1>7 DEF Pipeline
    <3>2. t \in Seq(ProtocolMessage) /\ incomingMsgId["client"] \in Nat
      BY <1>2
    <3>3. GapFree(t, incomingMsgId["client"])
      OBVIOUS
    <3> HIDE DEF t
    <3>4. GapFree(t \o x, incomingMsgId["client"])
      BY <1>4, <3>2, <3>3, GapFreeConcat
    <3>5. Holds(x, outgoingMsgId["server"]) => Holds(t \o x, outgoingMsgId["server"])
      BY <1>4, <3>2, HoldsConcat
    <3> QED
      BY <1>4, <3>1, <3>4, <3>5
  <2>4. ASSUME open'[c]
        PROVE  /\ GapFree(Pipeline("client")', m)
               /\ ~isReconnecting["client"] /\ o > m => Holds(Pipeline("client")', o)
    <3>1. c /= old /\ open[c]
      BY <1>3, <1>6, <2>4
    <3>2. CASE c /= k
      <4>1. wire'[c]["client"] = wire[c]["client"]
        BY <1>2, <1>3, <1>7, <3>1, <3>2
      <4>2. writer'["client"] = writer["client"] /\ socket'["client"] = c
        BY <1>6
      <4>3. Pipeline("client")' = Pipeline("client")
        BY <4>1, <4>2 DEF Pipeline
      <4> QED
        BY <2>0, <3>1, <4>3
    <3>3. CASE c = k
      <4> DEFINE s == wire[k]["client"]
      <4>1. /\ Pipeline("client")' = r \o b
            /\ Pipeline("client") = s \o b
        BY <1>6, <1>7, <3>3 DEF Pipeline
      <4>2. s \in Seq(ProtocolMessage) /\ b \in Seq(ProtocolMessage) /\ m \in Nat
        BY <1>2
      <4>3. Without("Regular", s)
        BY <1>3 DEF LosslessInv, ClientIsSilent
      <4>4. /\ GapFree(s \o b, m)
            /\ ~isReconnecting["client"] /\ o > m => Holds(s \o b, o)
        BY <2>0, <3>1, <4>1
      <4> HIDE DEF s, b, m, o
      <4>5. GapFree(b, m)
        BY <4>2, <4>3, <4>4, GapFreeSilent
      <4>6. GapFree(r, m)
        BY <1>5, SilentIsGapFree
      <4>7. GapFree(r \o b, m)
        BY <1>5, <4>2, <4>5, <4>6, GapFreeConcat
      <4>8. ~Holds(s, o)
        BY <4>3, SilentHoldsNothing
      <4>9. Holds(s \o b, o) => Holds(b, o)
        BY <4>2, <4>8, HoldsConcat
      <4>10. Holds(b, o) => Holds(r \o b, o)
        BY <1>5, <4>2, HoldsConcat
      <4> QED
        BY <4>1, <4>4, <4>7, <4>9, <4>10
    <3> QED
      BY <3>2, <3>3
  <2>5. ASSUME NEW g \in Ends, open'[socket'[g]]
        PROVE  /\ GapFree(Pipeline(g)', incomingMsgId[Peer(g)])
               /\ ~isReconnecting[g] /\ outgoingMsgId[g] > incomingMsgId[Peer(g)]
                     => Holds(Pipeline(g)', outgoingMsgId[g])
    <3>1. CASE g = "client"
      BY <1>2, <1>6, <2>4, <2>5, <3>1
    <3>2. CASE g = "server"
      BY <1>2, <2>3, <3>2
    <3> QED
      BY <1>2, <3>1, <3>2
  <2> QED
    BY <1>1, <2>2, <2>5 DEF PipelinesAreGapFree
<1> QED
  BY <1>10, <1>11, <1>12, <1>13, <1>14 DEF LosslessInv
\* One frame of the server that is not counted
LEMMA AnswerFrame ==
    ASSUME IInv, NEW type \in ProtocolMessageType \ {"Regular"}
    PROVE  /\ <<Uncounted(type, 0)>> \in Seq(GoodFrame("server"))
           /\ \A other : other /= type => Without(other, <<Uncounted(type, 0)>>)
<1> DEFINE m == Uncounted(type, 0)
<1>1. m \in GoodFrame("server") /\ m.type = type
  BY NoAckGood, Shapes DEF Uncounted
<1> HIDE DEF m
<1>2. <<m>> \in Seq(GoodFrame("server")) /\ Len(<<m>>) = 1 /\ <<m>>[1] = m
  BY <1>1
<1>3. \A other : other /= type => Without(other, <<m>>)
  BY <1>1, <1>2 DEF Without
<1> QED
  BY <1>2, <1>3 DEF m

\* A socket with frames of the client is one the client has reached.
LEMMA SocketIsReached ==
    ASSUME IInv, LosslessInv, NEW k \in Sockets, wire[k]["client"] /= <<>>
    PROVE  k <= socket["client"]
<1>1. "client" \in Ends /\ k \in Nat /\ socket["client"] \in Nat
  BY Shapes
<1>2. ~(k > socket["client"])
  BY <1>1 DEF LosslessInv, SocketsInOrder
<1> QED
  BY <1>1, <1>2

\* ManagementConnection: the answer is on the socket the protocol moves to in the
\* same turn.
LEMMA AcceptManagementLossless ==
    ASSUME IInv, IInv', LosslessInv, NEW k \in Sockets, AcceptManagement(k)
    PROVE  LosslessInv'
<1> DEFINE s == wire[k]["client"]
           a == <<Uncounted("Control", 0)>>
           w == Answer(k, a)
           rest == Tail(s)
<1>1. "client" \in Ends /\ "server" \in Ends /\ incomingMsgId["client"] \in Nat
  BY Shapes
<1>2. /\ k /= socket["server"] /\ s /= <<>>
      /\ connectionType = "Management" /\ handOff' = handOff
  BY DEF AcceptManagement
<1>3. k <= socket["client"]
  BY <1>2, SocketIsReached
<1>4. handOff' = handOff \ {k}
  BY <1>2 DEF LosslessInv, SocketsInOrder
<1>5. /\ a \in Seq(GoodFrame("server"))
      /\ Without("Regular", a) /\ Without("ReplayRequest", a)
  BY AnswerFrame DEF ProtocolMessageType
<1> HIDE DEF a
<1>6. GoodWires(w)
  BY <1>5, AnswerGood
<1>7. /\ \A j \in Sockets \ {k} : w[j] = wire[j]
      /\ w[k]["server"] = IF open[k] THEN wire[k]["server"] \o a ELSE wire[k]["server"]
  <2>1. wire \in [Sockets -> [Ends -> Seq(ProtocolMessage)]]
    BY Shapes
  <2> QED
    BY <1>1, <2>1 DEF Answer
<1>8. Without("ReplayRequest", w[k]["server"]) /\ GapFree(w[k]["server"], incomingMsgId["client"])
  <2> DEFINE t == wire[k]["server"]
  <2>1. /\ t \in Seq(ProtocolMessage)
        /\ Without("ReplayRequest", t)
        /\ GapFree(t, incomingMsgId["client"])
    BY <1>1, Shapes DEF LosslessInv, NobodyAsks, PipelinesAreGapFree
  <2>2. a \in Seq(ProtocolMessage) /\ GapFree(a, incomingMsgId["client"])
    BY <1>5, GoodIsFrame, SilentIsGapFree
  <2> HIDE DEF t
  <2>3. Without("ReplayRequest", t \o a)
    BY <1>5, <2>1, <2>2, WithoutConcat
  <2>4. GapFree(t \o a, incomingMsgId["client"])
    BY <1>1, <2>1, <2>2, GapFreeConcat
  <2> QED
    BY <1>7, <2>1, <2>3, <2>4 DEF t
<1>9. s \in Seq(GoodFrame("client")) /\ Without("Regular", s) /\ Without("ReplayRequest", s)
  BY <1>1, <1>2 DEF IInv, FramesAreGood, LosslessInv, ClientIsSilent, NobodyAsks
<1> HIDE DEF s
<1>10. /\ rest \in Seq(GoodFrame("client"))
       /\ Without("Regular", rest) /\ Without("ReplayRequest", rest)
       /\ Len(rest) = Len(s) - 1
  BY <1>2, <1>9, TailIs, WithoutTail
<1>11. PICK n \in 0..Len(rest) : ServerAccepts(k, w, rest, n, <<>>)
  <2>1. PICK n \in 0..(Len(s) - 1) : ServerAccepts(k, w, rest, n, <<>>)
    BY DEF AcceptManagement, s, a
  <2> QED
    BY <1>10, <2>1
<1>12. <<>> \in Seq(GoodFrame("server")) /\ \A type : Without(type, <<>>)
  BY DEF Without
<1> HIDE DEF w, rest
<1> QED
  BY <1>2, <1>3, <1>4, <1>6, <1>7, <1>8, <1>10, <1>11, <1>12, ServerAcceptsLossless

\* The extension host process receives the socket; Resume is the last frame of
\* its replay.
LEMMA AcceptExtHostLossless ==
    ASSUME IInv, IInv', LosslessInv, NEW k \in Sockets, AcceptExtHost(k)
    PROVE  LosslessInv'
<1> DEFINE s == wire[k]["client"]
           a == <<Uncounted("Resume", 0)>>
<1>1. "client" \in Ends /\ "server" \in Ends /\ Peer("server") = "client"
  BY Shapes
<1>2. k \in handOff /\ handOff' = handOff \ {k} /\ ServerAccepts(k, wire, s, 0, a)
  BY DEF AcceptExtHost
<1>3. k <= socket["client"] /\ k /= socket["server"]
  BY <1>2 DEF LosslessInv, SocketsInOrder
<1>4. /\ a \in Seq(GoodFrame("server"))
      /\ Without("Regular", a) /\ Without("ReplayRequest", a) /\ Without("Control", a)
  BY AnswerFrame DEF ProtocolMessageType
<1>5. GoodWires(wire)
  BY Parts
<1>6. /\ Without("ReplayRequest", wire[k]["server"])
      /\ GapFree(wire[k]["server"], incomingMsgId["client"])
  BY <1>1 DEF LosslessInv, NobodyAsks, PipelinesAreGapFree
<1>7. s \in Seq(GoodFrame("client")) /\ Without("Regular", s) /\ Without("ReplayRequest", s)
  BY <1>1, <1>3 DEF IInv, FramesAreGood, LosslessInv, ClientIsSilent, NobodyAsks
<1> HIDE DEF s, a
<1>8. 0 \in 0..Len(s)
  BY <1>7, LenProperties
<1> QED
  BY <1>2, <1>3, <1>4, <1>5, <1>6, <1>7, <1>8, ServerAcceptsLossless

\* The socket goes to the extension host process: Pause, then the answer.
LEMMA SendSocketToExtensionHostLossless ==
    ASSUME IInv, LosslessInv, NEW k \in Sockets, SendSocketToExtensionHost(k)
    PROVE  LosslessInv'
<1> DEFINE s == wire[k]["client"]
           t == wire[k]["server"]
           a == HandOffAnswer
           u == IF open[k] THEN t \o a ELSE t
<1>1. /\ k /= socket["server"] /\ k \notin handOff /\ s /= <<>>
      /\ connectionType = "ExtensionHost"
      /\ handOff' = handOff \cup {k}
      /\ wire' = [Answer(k, a) EXCEPT ![k]["client"] = Tail(@)]
      /\ UNCHANGED <<writer, isPaused, socket, open, connectionType, isReconnecting,
                     outgoingMsgId, incomingMsgId>>
  BY DEF SendSocketToExtensionHost, protocolVars
<1>2. /\ wire \in [Sockets -> [Ends -> Seq(ProtocolMessage)]]
      /\ socket \in [Ends -> Sockets]
      /\ writer \in [Ends -> Seq(ProtocolMessage)]
      /\ Ends = {"client", "server"}
      /\ "client" \in Ends /\ "server" \in Ends
      /\ Peer("client") = "server" /\ Peer("server") = "client"
      /\ incomingMsgId \in [Ends -> Nat]
      /\ \A j \in Sockets : j \in Nat
  BY Shapes
<1>3. k <= socket["client"]
  BY <1>1, SocketIsReached
<1>4. /\ \A j \in Sockets \ {k} : wire'[j] = wire[j]
      /\ wire'[k]["client"] = Tail(s)
      /\ wire'[k]["server"] = u
  <2>1. Answer(k, a) = [wire EXCEPT ![k]["server"] = u]
    BY DEF Answer
  <2> HIDE DEF u
  <2> DEFINE w == Answer(k, a)
  <2>2. /\ w[k]["client"] = s /\ w[k]["server"] = u
        /\ \A j \in Sockets \ {k} : w[j] = wire[j]
        /\ DOMAIN w = Sockets /\ DOMAIN w[k] = Ends
    BY <1>2, <2>1
  <2>3. wire' = [w EXCEPT ![k]["client"] = Tail(w[k]["client"])]
    BY <1>1
  <2> HIDE DEF w
  <2> QED
    BY <1>2, <2>2, <2>3
<1>5. /\ a \in Seq(ProtocolMessage) /\ Len(a) = 2
      /\ a[1].type = "Pause" /\ a[2].type = "Control"
  <2>1. /\ Uncounted("Pause", 0) \in ProtocolMessage
        /\ Uncounted("Control", 0) \in ProtocolMessage
    BY DEF Uncounted, ProtocolMessage, ProtocolMessageType
  <2> QED
    BY <2>1 DEF HandOffAnswer, Uncounted
<1>6. Without("Regular", a) /\ Without("ReplayRequest", a) /\ Without("Resume", a)
  BY <1>5 DEF Without
<1>7. s \in Seq(ProtocolMessage) /\ t \in Seq(ProtocolMessage)
  BY <1>2
<1>8. /\ \A j \in Sockets, g \in Ends : Without("ReplayRequest", wire[j][g])
      /\ \A j \in Sockets, g \in Ends : GapFree(wire[j][g], incomingMsgId[Peer(g)])
      /\ Without("Regular", s)
  BY <1>1 DEF LosslessInv, NobodyAsks, PipelinesAreGapFree, ClientIsSilent
<1>9. Without("Regular", Tail(s)) /\ Without("ReplayRequest", Tail(s)) /\ Tail(s) \in Seq(ProtocolMessage)
  <2>1. Without("ReplayRequest", s)
    BY <1>2, <1>8
  <2> HIDE DEF s
  <2> QED
    BY <1>1, <1>7, <1>8, <2>1, WithoutTail, TailIs
<1>10. /\ u \in Seq(ProtocolMessage)
       /\ Without("ReplayRequest", u)
       /\ GapFree(u, incomingMsgId["client"])
  <2>1. Without("ReplayRequest", t) /\ GapFree(t, incomingMsgId["client"]) /\ incomingMsgId["client"] \in Nat
    BY <1>2, <1>8
  <2>2. GapFree(a, incomingMsgId["client"])
    BY <1>6, SilentIsGapFree
  <2> HIDE DEF t, a
  <2>3. t \o a \in Seq(ProtocolMessage)
    BY <1>5, <1>7, ConcatIs
  <2>4. Without("ReplayRequest", t \o a)
    BY <1>5, <1>6, <1>7, <2>1, WithoutConcat
  <2>5. GapFree(t \o a, incomingMsgId["client"])
    BY <1>5, <1>7, <2>1, <2>2, GapFreeConcat
  <2> QED
    BY <1>7, <2>1, <2>3, <2>4, <2>5
<1>11. SocketsInOrder'
  <2>0. k \in Nat /\ socket["client"] \in Nat
    BY <1>2
  <2>1. ~(k > socket["client"])
    BY <1>3, <2>0
  <2>2. \A j \in Sockets, g \in Ends : j > socket["client"] => wire'[j][g] = <<>>
    BY <1>4, <2>1 DEF LosslessInv, SocketsInOrder
  <2>3. \A j \in handOff' : j <= socket["client"] /\ j /= socket["server"]
    BY <1>1, <1>3 DEF LosslessInv, SocketsInOrder
  <2> QED
    BY <1>1, <2>2, <2>3 DEF LosslessInv, SocketsInOrder
<1> HIDE DEF u
<1>12. NobodyAsks'
  <2>1. \A j \in Sockets, g \in Ends : Without("ReplayRequest", wire'[j][g])
    <3>1. \A g \in Ends : Without("ReplayRequest", wire'[k][g])
      BY <1>2, <1>4, <1>9, <1>10
    <3> QED
      BY <1>4, <1>8, <3>1
  <2> QED
    BY <1>1, <2>1 DEF LosslessInv, NobodyAsks
<1>13. ClientIsSilent'
  <2>1. \A j \in Sockets : j /= socket["server"] => Without("Regular", wire'[j]["client"])
    BY <1>4, <1>9 DEF LosslessInv, ClientIsSilent
  <2> QED
    BY <1>1, <2>1 DEF LosslessInv, ClientIsSilent
<1>14. AnswersArePaused'
  <2>1. ASSUME NEW j \in Sockets, j /= socket["server"], open[j]
        PROVE  /\ Without("Resume", wire'[j]["server"])
               /\ \A i \in 1..Len(wire'[j]["server"]) :
                     wire'[j]["server"][i].type = "Control" =>
                        /\ j \in handOff'
                        /\ \/ j = socket["client"] /\ isPaused["client"]
                           \/ \E h \in 1..(i - 1) : wire'[j]["server"][h].type = "Pause"
    <3>1. /\ Without("Resume", wire[j]["server"])
          /\ \A i \in 1..Len(wire[j]["server"]) :
                wire[j]["server"][i].type = "Control" =>
                   /\ j \in handOff
                   /\ \/ j = socket["client"] /\ isPaused["client"]
                      \/ \E h \in 1..(i - 1) : wire[j]["server"][h].type = "Pause"
      BY <2>1 DEF LosslessInv, AnswersArePaused
    <3>2. CASE j /= k
      <4>1. wire'[j]["server"] = wire[j]["server"] /\ (j \in handOff' <=> j \in handOff)
        BY <1>1, <1>4, <3>2
      <4> QED
        BY <3>1, <4>1
    <3>3. CASE j = k
      <4>1. wire'[j]["server"] = t \o a
        BY <1>4, <2>1, <3>3 DEF u
      <4>2. Without("Resume", t)
        BY <3>1, <3>3
      <4>3. \A i \in 1..Len(t) : t[i].type /= "Control"
        BY <1>1, <3>1, <3>3
      <4> HIDE DEF t, a
      <4>4. Without("Resume", t \o a)
        BY <1>5, <1>6, <1>7, <4>2, WithoutConcat
      <4>5. /\ Len(t) \in Nat
            /\ Len(t \o a) = Len(t) + Len(a)
            /\ \A i \in 1..Len(t) : (t \o a)[i] = t[i]
            /\ \A i \in 1..Len(a) : (t \o a)[Len(t) + i] = a[i]
        BY <1>5, <1>7, ConcatIs
      <4>6. (t \o a)[Len(t) + 1].type = "Pause"
        BY <1>5, <4>5
      <4>7. ASSUME NEW i \in 1..Len(t \o a), (t \o a)[i].type = "Control"
            PROVE  \E h \in 1..(i - 1) : (t \o a)[h].type = "Pause"
        <5>1. ~(i \in 1..Len(t))
          BY <4>3, <4>5, <4>7
        <5>2. i /= Len(t) + 1
          BY <4>6, <4>7
        <5>3. Len(t) + 1 \in 1..(i - 1)
          BY <4>5, <5>1, <5>2
        <5> QED
          BY <4>6, <5>3
      <4>8. j \in handOff'
        BY <1>1, <3>3
      <4> QED
        BY <4>1, <4>4, <4>7, <4>8
    <3> QED
      BY <3>2, <3>3
  <2> QED
    BY <1>1, <2>1 DEF LosslessInv, AnswersArePaused
<1>15. PipelinesAreGapFree'
  <2>1. \A j \in Sockets, g \in Ends : GapFree(wire'[j][g], incomingMsgId[Peer(g)])
    <3>1. GapFree(wire'[k]["client"], incomingMsgId[Peer("client")])
      BY <1>4, <1>9, SilentIsGapFree
    <3>2. GapFree(wire'[k]["server"], incomingMsgId[Peer("server")])
      BY <1>2, <1>4, <1>10
    <3>3. \A g \in Ends : GapFree(wire'[k][g], incomingMsgId[Peer(g)])
      BY <1>2, <3>1, <3>2
    <3> QED
      BY <1>4, <1>8, <3>3
  <2>2. Pipeline("server")' = Pipeline("server")
    BY <1>1, <1>2, <1>4 DEF Pipeline
  <2>3. ASSUME open[socket["client"]]
        PROVE  /\ GapFree(Pipeline("client")', incomingMsgId["server"])
               /\ ~isReconnecting["client"] /\ outgoingMsgId["client"] > incomingMsgId["server"]
                     => Holds(Pipeline("client")', outgoingMsgId["client"])
    <3> DEFINE b == writer["client"]
               m == incomingMsgId["server"]
               o == outgoingMsgId["client"]
    <3>1. /\ GapFree(Pipeline("client"), m)
          /\ ~isReconnecting["client"] /\ o > m => Holds(Pipeline("client"), o)
      BY <1>2, <2>3 DEF LosslessInv, PipelinesAreGapFree
    <3>2. CASE socket["client"] /= k
      <4>1. Pipeline("client")' = Pipeline("client")
        BY <1>1, <1>2, <1>4, <3>2 DEF Pipeline
      <4> QED
        BY <3>1, <4>1
    <3>3. CASE socket["client"] = k
      <4>1. Pipeline("client")' = Tail(s) \o b /\ Pipeline("client") = s \o b
        <5>1. wire'[k]["client"] = Tail(s) /\ writer' = writer /\ socket' = socket
          BY <1>1, <1>4
        <5> QED
          BY <3>3, <5>1 DEF Pipeline
      <4>2. b \in Seq(ProtocolMessage) /\ m \in Nat
        BY <1>2
      <4> HIDE DEF s, b, m, o
      <4>3. GapFree(b, m)
        <5>1. GapFree(s \o b, m)
          BY <3>1, <4>1
        <5> QED
          BY ONLY <1>7, <1>8, <4>2, <5>1, GapFreeSilent
      <4>4. GapFree(Tail(s), m)
        BY <1>9, SilentIsGapFree
      <4>5. GapFree(Tail(s) \o b, m)
        BY <1>9, <4>2, <4>3, <4>4, GapFreeConcat
      <4>6. ~Holds(s, o)
        BY <1>8, SilentHoldsNothing
      <4>7. Holds(s \o b, o) => Holds(b, o)
        BY <1>7, <4>2, <4>6, HoldsConcat
      <4>8. Holds(b, o) => Holds(Tail(s) \o b, o)
        BY <1>9, <4>2, HoldsConcat
      <4> QED
        BY <3>1, <4>1, <4>5, <4>7, <4>8 DEF m, o
    <3> QED
      BY <3>2, <3>3
  <2>4. ASSUME NEW g \in Ends, open[socket[g]]
        PROVE  /\ GapFree(Pipeline(g)', incomingMsgId[Peer(g)])
               /\ ~isReconnecting[g] /\ outgoingMsgId[g] > incomingMsgId[Peer(g)]
                     => Holds(Pipeline(g)', outgoingMsgId[g])
    <3>1. CASE g = "client"
      BY <1>2, <2>3, <2>4, <3>1
    <3>2. CASE g = "server"
      <4>1. /\ GapFree(Pipeline(g), incomingMsgId[Peer(g)])
            /\ ~isReconnecting[g] /\ outgoingMsgId[g] > incomingMsgId[Peer(g)]
                  => Holds(Pipeline(g), outgoingMsgId[g])
        BY <2>4 DEF LosslessInv, PipelinesAreGapFree
      <4> QED
        BY <2>2, <3>2, <4>1
    <3> QED
      BY <1>2, <3>1, <3>2
  <2> QED
    BY <1>1, <2>1, <2>4 DEF PipelinesAreGapFree
<1> QED
  BY <1>11, <1>12, <1>13, <1>14, <1>15 DEF LosslessInv
-----------------------------------------------------------------------------
(* The theorems                                                            *)

\* Every step of every actor keeps the invariant when no frame is lost.
LEMMA NextLossless ==
    ASSUME ~Lossy, IInv, IInv', LosslessInv, [Next]_vars
    PROVE  LosslessInv'
<1>1. ASSUME NEW e \in Ends, EndStep(e)
      PROVE  LosslessInv'
  <2>1. ASSUME NEW d \in Data, Send(e, d) PROVE LosslessInv'
    BY <2>1, SendLossless
  <2>2. CASE WriteNow(e)
    BY <2>2, WriteNowLossless
  <2>3. CASE SendAckCheck(e) \/ SendKeepAlive(e)
    BY <2>3, SendAckCheckLossless
  <2>4. CASE ReplayWindowElapses(e)
    BY <2>4, QuietLossless DEF ReplayWindowElapses
  <2>5. CASE Receive(e)
    <3> DEFINE msg == Head(Incoming(e))
    <3>1. Incoming(e) /= <<>>
      BY <2>5 DEF Receive
    <3>2. \/ ReceiveNext(e, msg)
          \/ ReceiveAfterGap(e, msg)
          \/ ReceiveNothingNew(e, msg)
          \/ ReceiveReplayRequest(e, msg)
          \/ ReceivePauseResume(e, msg)
          \/ e = "client" /\ (EndAcceptReconnection(msg) \/ ReceiveLateAnswer(msg))
      BY <2>5 DEF Receive
    <3> HIDE DEF msg
    <3>3. msg = Head(Incoming(e))
      BY DEF msg
    <3>4. CASE e = "client" /\ EndAcceptReconnection(msg)
      BY <3>1, <3>3, <3>4, EndAcceptReconnectionLossless
    <3>5. CASE ~(e = "client" /\ EndAcceptReconnection(msg))
      BY <3>1, <3>2, <3>3, <3>5, ReceiveLossless
    <3> QED
      BY <3>4, <3>5
  <2> QED
    BY <1>1, <2>1, <2>2, <2>3, <2>4, <2>5 DEF EndStep
<1>2. CASE ClientStep
  <2>1. CASE OnSocketClose \/ OnSocketTimeout \/ AttemptFails
    BY <2>1, QuietLossless DEF OnSocketClose, OnSocketTimeout, AttemptFails, protocolVars
  <2>2. CASE BeginAcceptReconnection
    BY <2>2, BeginAcceptReconnectionLossless
  <2>3. CASE SendConnectionTypeRequest
    BY <2>3, SendConnectionTypeRequestLossless
  <2> QED
    BY <1>2, <2>1, <2>2, <2>3 DEF ClientStep
<1>3. ASSUME NEW k \in Sockets, SocketStep(k)
      PROVE  LosslessInv'
  <2>1. CASE SocketBreaks(k)
    BY <2>1, SocketBreaksLossless
  <2>2. \A e \in Ends : ~LoseFrame(k, e)
    BY DEF LoseFrame
  <2>3. CASE HandshakeReads(k)
    BY <2>3, HandshakeReadsLossless
  <2>4. CASE AcceptManagement(k)
    BY <2>4, AcceptManagementLossless
  <2>5. CASE SendSocketToExtensionHost(k)
    BY <2>5, SendSocketToExtensionHostLossless
  <2>6. CASE AcceptExtHost(k)
    BY <2>6, AcceptExtHostLossless
  <2> QED
    BY <1>3, <2>1, <2>2, <2>3, <2>4, <2>5, <2>6 DEF SocketStep
<1>4. CASE UNCHANGED vars
  BY <1>4, QuietLossless DEF vars
<1> QED
  BY <1>1, <1>2, <1>3, <1>4 DEF Next

\* Over sockets that lose nothing while they are up, LosslessInv holds
\* throughout: each end's pipeline starts early enough and has no gap, and the
\* client is reconnecting or paused on a socket that is not the server's.
THEOREM LosslessInvariance == Spec => [](~Lossy => LosslessInv)
<1>1. Init => (~Lossy => LosslessInv)
  BY InitLossless
<1>2. IInv /\ IInv' /\ (~Lossy => LosslessInv) /\ [Next]_vars => (~Lossy => LosslessInv)'
  BY NextLossless
<1> QED
  BY <1>1, <1>2, Invariance, PTL DEF Spec

\* No receiver ever sees a gap, so that _receiveMessage never asks for a replay,
\* unless a socket lost a frame and stayed up.
THEOREM GapsNeedLoss == Spec => []NoGapWithoutLoss
<1>1. (~Lossy => LosslessInv) => NoGapWithoutLoss
  BY DEF LosslessInv, NobodyAsks, NoGapWithoutLoss, Without
<1> QED
  BY <1>1, LosslessInvariance, PTL

\* The Pause that precedes the answer keeps the client from writing a Regular
\* message to a socket on its way to the extension host process, where the
\* server process would drop it.
THEOREM HandOffsAreSilent == Spec => []HandOffIsSilent
<1>1. IInv /\ (~Lossy => LosslessInv) => HandOffIsSilent
  <2> SUFFICES ASSUME IInv, ~Lossy, LosslessInv, NEW k \in handOff
               PROVE  Without("Regular", wire[k]["client"])
    BY DEF HandOffIsSilent, Without
  <2>1. k \in Sockets /\ k /= socket["server"]
    BY DEF IInv, TypeOK, LosslessInv, SocketsInOrder
  <2> QED
    BY <2>1 DEF LosslessInv, ClientIsSilent
<1> QED
  BY <1>1, Invariance, LosslessInvariance, PTL
=============================================================================
