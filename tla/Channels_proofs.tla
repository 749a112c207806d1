--------------------------- MODULE Channels_proofs ---------------------------
(***************************************************************************)
(* The inductive invariant of Channels, for any number of calls and all     *)
(* bounds, and from it: handlers are answered, cancellations are told,      *)
(* subscriptions match listeners, and client and server implement           *)
(* RemoteCalls.                                                            *)
(***************************************************************************)
EXTENDS Channels, FunctionTheorems, FiniteSetTheorems, TLAPS

ServerMessage == {Request(id) : id \in Ids} \cup {Dispose(id) : id \in Ids}
ClientMessage == [type : {"Initialize", "PromiseSuccess", "PromiseError", "EventFire"},
                  id : Ids, data : Results \cup {"none", "unknownChannel"}]
PendingRequest == [id : Ids, timer : BOOLEAN]

-----------------------------------------------------------------------------
(* Sequences                                                               *)

\* What is in a sequence with one more element
LEMMA ContainsAppend ==
    ASSUME NEW S, NEW q \in Seq(S), NEW x \in S, NEW e
    PROVE  Contains(Append(q, x), e) <=> (Contains(q, e) \/ x = e)
  BY DEF Contains

\* in a sequence without its head,
LEMMA ContainsTail ==
    ASSUME NEW S, NEW q \in Seq(S), q /= <<>>, NEW e
    PROVE  Contains(q, e) <=> (Head(q) = e \/ Contains(Tail(q), e))
<1>1. Contains(q, e) => (Head(q) = e \/ Contains(Tail(q), e))
  <2> SUFFICES ASSUME NEW i \in 1..Len(q), q[i] = e, i /= 1
               PROVE  Contains(Tail(q), e)
    BY DEF Contains
  <2>1. i - 1 \in 1..Len(Tail(q)) /\ Tail(q)[i - 1] = e
    OBVIOUS
  <2> QED
    BY <2>1 DEF Contains
<1>2. Contains(Tail(q), e) => Contains(q, e)
  <2> SUFFICES ASSUME NEW i \in 1..Len(Tail(q)), Tail(q)[i] = e
               PROVE  Contains(q, e)
    BY DEF Contains
  <2>1. i + 1 \in 1..Len(q) /\ q[i + 1] = e
    OBVIOUS
  <2> QED
    BY <2>1 DEF Contains
<1>3. Head(q) = e => Contains(q, e)
  BY 1 \in 1..Len(q) DEF Contains
<1> QED
  BY <1>1, <1>2, <1>3

\* and in two sequences
LEMMA ContainsConcat ==
    ASSUME NEW S, NEW q \in Seq(S), NEW r \in Seq(S), NEW e
    PROVE  Contains(q \o r, e) <=> (Contains(q, e) \/ Contains(r, e))
<1>1. Contains(q, e) => Contains(q \o r, e)
  BY DEF Contains
<1>2. Contains(r, e) => Contains(q \o r, e)
  <2> SUFFICES ASSUME NEW i \in 1..Len(r), r[i] = e
               PROVE  Contains(q \o r, e)
    BY DEF Contains
  <2>1. Len(q) + i \in 1..Len(q \o r) /\ (q \o r)[Len(q) + i] = e
    OBVIOUS
  <2> QED
    BY <2>1 DEF Contains
<1>3. Contains(q \o r, e) => (Contains(q, e) \/ Contains(r, e))
  <2> SUFFICES ASSUME NEW i \in 1..Len(q \o r), (q \o r)[i] = e
               PROVE  Contains(q, e) \/ Contains(r, e)
    BY DEF Contains
  <2>1. CASE i <= Len(q)
    BY <2>1 DEF Contains
  <2>2. CASE i > Len(q)
    <3>1. i - Len(q) \in 1..Len(r) /\ r[i - Len(q)] = e
      BY <2>2
    <3> QED
      BY <3>1 DEF Contains
  <2> QED
    BY <2>1, <2>2
<1> QED
  BY <1>1, <1>2, <1>3

\* The same for messages about an id
LEMMA OnItsWayAppend ==
    ASSUME NEW S, NEW q \in Seq(S), NEW x \in S, NEW c
    PROVE  OnItsWay(Append(q, x), c) <=> (OnItsWay(q, c) \/ x.id = c)
<1>1. DOMAIN q = 1..Len(q) /\ DOMAIN Append(q, x) = 1..(Len(q) + 1) /\ Len(q) \in Nat
  OBVIOUS
<1>2. /\ \A i \in 1..Len(q) : Append(q, x)[i] = q[i]
      /\ Append(q, x)[Len(q) + 1] = x
  OBVIOUS
<1> QED
  BY <1>1, <1>2 DEF OnItsWay

\* When the first message is taken, the others are still on their way.
LEMMA OnItsWayTail ==
    ASSUME NEW S, NEW q \in Seq(S), q /= <<>>, NEW c
    PROVE  OnItsWay(q, c) <=> (Head(q).id = c \/ OnItsWay(Tail(q), c))
<1>1. DOMAIN q = 1..Len(q) /\ DOMAIN Tail(q) = 1..(Len(q) - 1) /\ Len(q) \in Nat \ {0}
  OBVIOUS
<1>2. /\ Head(q) = q[1]
      /\ \A i \in 1..(Len(q) - 1) : Tail(q)[i] = q[i + 1]
  OBVIOUS
<1>3. \A i \in 2..Len(q) : i - 1 \in 1..(Len(q) - 1) /\ q[i] = Tail(q)[i - 1]
  BY <1>1, <1>2
<1>4. OnItsWay(Tail(q), c) => OnItsWay(q, c)
  <2> SUFFICES ASSUME NEW i \in 1..(Len(q) - 1), Tail(q)[i].id = c
               PROVE  OnItsWay(q, c)
    BY <1>1 DEF OnItsWay
  <2>1. i + 1 \in 1..Len(q) /\ q[i + 1].id = c
    BY <1>1, <1>2
  <2> QED
    BY <1>1, <2>1 DEF OnItsWay
<1>5. OnItsWay(q, c) => (Head(q).id = c \/ OnItsWay(Tail(q), c))
  <2> SUFFICES ASSUME NEW i \in 2..Len(q), q[i].id = c
               PROVE  OnItsWay(Tail(q), c)
    BY <1>1, <1>2 DEF OnItsWay
  <2> QED
    BY <1>1, <1>3 DEF OnItsWay
<1>6. Head(q).id = c => OnItsWay(q, c)
  BY <1>1, <1>2, 1 \in 1..Len(q) DEF OnItsWay
<1> QED
  BY <1>4, <1>5, <1>6

\* What is on its way in a queue put behind another
LEMMA OnItsWayConcat ==
    ASSUME NEW S, NEW q \in Seq(S), NEW r \in Seq(S), NEW c
    PROVE  OnItsWay(q \o r, c) <=> (OnItsWay(q, c) \/ OnItsWay(r, c))
<1>1. /\ DOMAIN q = 1..Len(q) /\ DOMAIN r = 1..Len(r) /\ Len(q) \in Nat /\ Len(r) \in Nat
      /\ DOMAIN (q \o r) = 1..(Len(q) + Len(r))
  OBVIOUS
<1>2. /\ \A i \in 1..Len(q) : (q \o r)[i] = q[i]
      /\ \A i \in 1..Len(r) : Len(q) + i \in 1..(Len(q) + Len(r)) /\ (q \o r)[Len(q) + i] = r[i]
  OBVIOUS
<1>3. \A i \in 1..(Len(q) + Len(r)) : i > Len(q) =>
         i - Len(q) \in 1..Len(r) /\ (q \o r)[i] = r[i - Len(q)]
  OBVIOUS
<1> QED
  BY <1>1, <1>2, <1>3, SMTT(30) DEF OnItsWay

\* Elements that are there once, and elements that follow others
LEMMA OnceConcat ==
    ASSUME NEW S, NEW q \in Seq(S), NEW r \in Seq(S), NEW e,
           AtMostOnce(q, e), AtMostOnce(r, e), ~(Contains(q, e) /\ Contains(r, e))
    PROVE  AtMostOnce(q \o r, e)
<1>1. /\ DOMAIN q = 1..Len(q) /\ DOMAIN r = 1..Len(r) /\ Len(q) \in Nat /\ Len(r) \in Nat
      /\ DOMAIN (q \o r) = 1..(Len(q) + Len(r))
      /\ \A i \in 1..Len(q) : (q \o r)[i] = q[i]
      /\ \A i \in 1..(Len(q) + Len(r)) : i > Len(q) =>
            i - Len(q) \in 1..Len(r) /\ (q \o r)[i] = r[i - Len(q)]
  OBVIOUS
<1> QED
  BY <1>1 DEF AtMostOnce, Contains

\* A queue put behind another keeps the order of two messages.
LEMMA OrderConcat ==
    ASSUME NEW S, NEW q \in Seq(S), NEW r \in Seq(S), NEW e, NEW f,
           InOrder(q, e, f), InOrder(r, e, f), ~(Contains(q, f) /\ Contains(r, e))
    PROVE  InOrder(q \o r, e, f)
<1>1. /\ DOMAIN q = 1..Len(q) /\ DOMAIN r = 1..Len(r) /\ Len(q) \in Nat /\ Len(r) \in Nat
      /\ DOMAIN (q \o r) = 1..(Len(q) + Len(r))
      /\ \A i \in 1..Len(q) : (q \o r)[i] = q[i]
      /\ \A i \in 1..(Len(q) + Len(r)) : i > Len(q) =>
            i - Len(q) \in 1..Len(r) /\ (q \o r)[i] = r[i - Len(q)]
  OBVIOUS
<1> QED
  BY <1>1 DEF InOrder, Contains

\* Taking the first message does not duplicate any.
LEMMA OnceTail ==
    ASSUME NEW S, NEW q \in Seq(S), q /= <<>>, NEW e, AtMostOnce(q, e)
    PROVE  /\ AtMostOnce(Tail(q), e)
           /\ Head(q) = e => ~Contains(Tail(q), e)
<1>1. /\ DOMAIN q = 1..Len(q) /\ DOMAIN Tail(q) = 1..(Len(q) - 1) /\ Len(q) \in Nat \ {0}
      /\ Len(Tail(q)) = Len(q) - 1 /\ Head(q) = q[1]
      /\ \A i \in 1..(Len(q) - 1) : i + 1 \in 1..Len(q) /\ Tail(q)[i] = q[i + 1]
  OBVIOUS
<1> QED
  BY <1>1 DEF AtMostOnce, Contains

\* Taking the first message leaves the others in their order.
LEMMA OrderTail ==
    ASSUME NEW S, NEW q \in Seq(S), q /= <<>>, NEW e, NEW f, InOrder(q, e, f)
    PROVE  /\ InOrder(Tail(q), e, f)
           /\ Head(q) = f => ~Contains(Tail(q), e)
<1>1. /\ DOMAIN q = 1..Len(q) /\ DOMAIN Tail(q) = 1..(Len(q) - 1) /\ Len(q) \in Nat \ {0}
      /\ Len(Tail(q)) = Len(q) - 1 /\ Head(q) = q[1]
      /\ \A i \in 1..(Len(q) - 1) : i + 1 \in 1..Len(q) /\ Tail(q)[i] = q[i + 1]
  OBVIOUS
<1> QED
  BY <1>1 DEF InOrder, Contains

\* Elements that are not there
LEMMA NotContained ==
    ASSUME NEW S, NEW q \in Seq(S), NEW e, NEW f, ~Contains(q, e) \/ ~Contains(q, f)
    PROVE  InOrder(q, e, f) /\ (~Contains(q, e) => AtMostOnce(q, e))
<1>1. DOMAIN q = 1..Len(q)
  OBVIOUS
<1> QED
  BY <1>1 DEF InOrder, AtMostOnce, Contains

-----------------------------------------------------------------------------
(* Counting                                                                *)

\* Positions are finitely many
LEMMA CountType ==
    ASSUME NEW S, NEW q \in Seq(S), NEW e
    PROVE  /\ IsFiniteSet({i \in DOMAIN q : q[i] = e})
           /\ Count(q, e) \in Nat
<1>1. DOMAIN q = 1..Len(q) /\ Len(q) \in Nat
  OBVIOUS
<1>2. IsFiniteSet(1..Len(q))
  BY <1>1, FS_Interval
<1>3. IsFiniteSet({i \in DOMAIN q : q[i] = e})
  BY <1>1, <1>2, FS_Subset
<1> QED
  BY <1>3, FS_CardinalityType DEF Count

\* An empty queue counts nothing.
LEMMA CountEmpty == \A e : Count(<<>>, e) = 0
<1> SUFFICES ASSUME NEW e PROVE Count(<<>>, e) = 0
  OBVIOUS
<1>1. {i \in DOMAIN <<>> : <<>>[i] = e} = {}
  OBVIOUS
<1> QED
  BY <1>1, FS_EmptySet DEF Count

\* A queue of one message counts that message.
LEMMA CountSingle == \A x, e : Count(<<x>>, e) = IF x = e THEN 1 ELSE 0
<1> SUFFICES ASSUME NEW x, NEW e PROVE Count(<<x>>, e) = IF x = e THEN 1 ELSE 0
  OBVIOUS
<1>1. {i \in DOMAIN <<x>> : <<x>>[i] = e} = IF x = e THEN {1} ELSE {}
  OBVIOUS
<1>2. Cardinality({1}) = 1 /\ Cardinality({}) = 0
  BY FS_Singleton, FS_EmptySet
<1> QED
  BY <1>1, <1>2 DEF Count

\* A message that is appended counts once.
LEMMA CountAppend ==
    ASSUME NEW S, NEW q \in Seq(S), NEW x \in S, NEW e
    PROVE  Count(Append(q, x), e) = Count(q, e) + IF x = e THEN 1 ELSE 0
<1> DEFINE P == {i \in DOMAIN q : q[i] = e}
           R == {i \in DOMAIN Append(q, x) : Append(q, x)[i] = e}
           n == Len(q) + 1
<1>1. R = IF x = e THEN P \cup {n} ELSE P
  OBVIOUS
<1>2. IsFiniteSet(P) /\ Cardinality(P) \in Nat
  <2>1. IsFiniteSet(P) /\ Count(q, e) \in Nat
    BY CountType
  <2> QED
    BY <2>1 DEF Count
<1>5. n \notin P
  OBVIOUS
<1>3. Cardinality(P \cup {n}) = Cardinality(P) + 1
  <2> HIDE DEF P, n
  <2> QED
    BY <1>2, <1>5, FS_AddElement
<1>4. Count(Append(q, x), e) = Cardinality(R) /\ Count(q, e) = Cardinality(P)
  BY DEF Count
<1> HIDE DEF P, R, n
<1> QED
  BY <1>1, <1>2, <1>3, <1>4

\* the positions in the second part, moved by the length of the first
LEMMA CountConcat ==
    ASSUME NEW S, NEW q \in Seq(S), NEW r \in Seq(S), NEW e
    PROVE  Count(q \o r, e) = Count(q, e) + Count(r, e)
<1> DEFINE P == {i \in DOMAIN q : q[i] = e}
           R == {i \in DOMAIN r : r[i] = e}
           n == Len(q)
           M == {i \in DOMAIN (q \o r) : (q \o r)[i] = e /\ i > n}
           U == {i \in DOMAIN (q \o r) : (q \o r)[i] = e}
           f == [i \in R |-> n + i]
<1>0. /\ n \in Nat /\ DOMAIN q = 1..n /\ DOMAIN r = 1..Len(r) /\ Len(r) \in Nat
      /\ DOMAIN (q \o r) = 1..(n + Len(r))
      /\ \A i \in 1..n : (q \o r)[i] = q[i]
      /\ \A i \in 1..Len(r) : (q \o r)[n + i] = r[i]
  OBVIOUS
<1>1. U = P \cup M /\ P \cap M = {}
  BY <1>0
<1>2. IsFiniteSet(P) /\ IsFiniteSet(R) /\ Cardinality(P) \in Nat /\ Cardinality(R) \in Nat
  BY CountType DEF Count
<1>3. f \in Bijection(R, M)
  <2>1. f \in [R -> M]
    BY <1>0
  <2>2. \A i, j \in R : f[i] = f[j] => i = j
    BY <1>0
  <2>3. \A k \in M : \E i \in R : f[i] = k
    <3> SUFFICES ASSUME NEW k \in M PROVE \E i \in R : f[i] = k
      OBVIOUS
    <3>1. k - n \in 1..Len(r) /\ n + (k - n) = k
      BY <1>0
    <3>2. k - n \in R
      BY <1>0, <3>1
    <3> QED
      BY <3>1, <3>2
  <2> HIDE DEF f, R, M
  <2> QED
    BY <2>1, <2>2, <2>3, Fun_IsBij
<1>4. IsFiniteSet(M) /\ Cardinality(M) = Cardinality(R)
  <2> HIDE DEF f, R, M
  <2> QED
    BY <1>2, <1>3, FS_Bijection DEF ExistsBijection
<1>5. Cardinality(U) = Cardinality(P) + Cardinality(M)
  <2> HIDE DEF P, R, M, U, n, f
  <2>1. Cardinality(P \cup M) = Cardinality(P) + Cardinality(M) - Cardinality(P \cap M)
    BY <1>2, <1>4, FS_Union
  <2>2. Cardinality({}) = 0
    BY FS_EmptySet
  <2>3. Cardinality(M) \in Nat
    BY <1>2, <1>4
  <2>4. Cardinality(U) = Cardinality(P \cup M) /\ Cardinality(P \cap M) = 0
    BY <1>1, <2>2
  <2> QED
    BY <1>2, <2>1, <2>3, <2>4
<1> QED
  BY <1>4, <1>5 DEF Count

\* A message that is taken was counted once.
LEMMA CountTail ==
    ASSUME NEW S, NEW q \in Seq(S), q /= <<>>, NEW e
    PROVE  Count(q, e) = Count(Tail(q), e) + IF Head(q) = e THEN 1 ELSE 0
<1>1. /\ q = <<Head(q)>> \o Tail(q)
      /\ Head(q) \in S /\ Tail(q) \in Seq(S) /\ <<Head(q)>> \in Seq(S)
  OBVIOUS
<1>2. Count(q, e) = Count(<<Head(q)>>, e) + Count(Tail(q), e)
  BY <1>1, CountConcat, ZenonT(30)
<1>4. Count(<<Head(q)>>, e) = IF Head(q) = e THEN 1 ELSE 0
  BY CountSingle
<1>5. Count(Tail(q), e) \in Nat
  BY <1>1, CountType
<1> QED
  BY <1>2, <1>4, <1>5

\* Nothing is counted that is not there, once what is there once.
LEMMA CountOne ==
    ASSUME NEW S, NEW q \in Seq(S), NEW e
    PROVE  /\ ~Contains(q, e) => Count(q, e) = 0
           /\ (\A i, j \in DOMAIN q : q[i] = e /\ q[j] = e => i = j) =>
                 Count(q, e) = IF Contains(q, e) THEN 1 ELSE 0
<1> DEFINE P == {i \in DOMAIN q : q[i] = e}
<1>1. Count(q, e) = Cardinality(P)
  BY DEF Count
<1>2. CASE ~Contains(q, e)
  <2>1. P = {}
    BY <1>2 DEF Contains
  <2> QED
    BY <1>1, <1>2, <2>1, FS_EmptySet
<1>3. CASE Contains(q, e)
  <2>1. PICK i \in DOMAIN q : q[i] = e
    BY <1>3 DEF Contains
  <2>2. (\A k, j \in DOMAIN q : q[k] = e /\ q[j] = e => k = j) => P = {i}
    BY <2>1
  <2> QED
    BY <1>1, <1>3, <2>2, FS_Singleton
<1> QED
  BY <1>2, <1>3

-----------------------------------------------------------------------------
(* EventListen and EventDispose take turns                                 *)

\* Sequences of which the second goes on where the first has ended
LEMMA TurnsConcat ==
    ASSUME NEW S, NEW q \in Seq(S), NEW r \in Seq(S),
           NEW a \in BOOLEAN, NEW b \in BOOLEAN, NEW c \in BOOLEAN,
           TakeTurns(q, a, b), TakeTurns(r, b, c)
    PROVE  TakeTurns(q \o r, a, c)
<1> DEFINE s == q \o r
           n == Len(q)
           m == Len(r)
           Ev(x, i) == IsEventMessage(x, i)
           No(x, i, j) == NoEventMessage(x, i, j)
           Rq(x, i) == x[i] = Request(EventId)
<1>0. /\ n \in Nat /\ m \in Nat /\ Len(s) = n + m
      /\ DOMAIN q = 1..n /\ DOMAIN r = 1..m /\ DOMAIN s = 1..(n + m)
      /\ \A i \in 1..n : s[i] = q[i]
      /\ \A i \in (n + 1)..(n + m) : i - n \in 1..m /\ s[i] = r[i - n]
  OBVIOUS
<1>1. \A i \in 1..n : (Ev(s, i) <=> Ev(q, i)) /\ (Rq(s, i) <=> Rq(q, i))
  BY <1>0 DEF IsEventMessage
<1>2. \A i \in (n + 1)..(n + m) :
         /\ i - n \in 1..m
         /\ (Ev(s, i) <=> Ev(r, i - n)) /\ (Rq(s, i) <=> Rq(r, i - n))
  BY <1>0 DEF IsEventMessage
<1>3. \A i, j \in Nat : i > 0 /\ j <= n /\ No(s, i, j) => No(q, i, j)
  BY <1>0, <1>1 DEF NoEventMessage
<1>4. \A i, j \in Int : i > n /\ j <= n + m /\ No(s, i, j) => No(r, i - n, j - n)
  <2> SUFFICES ASSUME NEW i \in Int, NEW j \in Int, i > n, j <= n + m, No(s, i, j),
                      NEW k \in (i - n)..(j - n)
               PROVE  ~Ev(r, k)
    BY DEF NoEventMessage
  <2>1. k + n \in i..j /\ k + n \in (n + 1)..(n + m) /\ (k + n) - n = k
    BY <1>0
  <2>2. ~Ev(s, k + n)
    BY <2>1 DEF NoEventMessage
  <2> QED
    BY <2>1, <2>2, <1>2
<1>5. /\ \A i \in 1..n : Ev(q, i) /\ No(q, 1, i - 1) => (Rq(q, i) = ~a)
      /\ \A i, j \in 1..n : i < j /\ Ev(q, i) /\ Ev(q, j) /\ No(q, i + 1, j - 1)
            => (Rq(q, i) /= Rq(q, j))
      /\ \A i \in 1..n : Ev(q, i) /\ No(q, i + 1, n) => (Rq(q, i) = b)
      /\ No(q, 1, n) => a = b
  BY <1>0 DEF TakeTurns
<1>6. /\ \A i \in 1..m : Ev(r, i) /\ No(r, 1, i - 1) => (Rq(r, i) = ~b)
      /\ \A i, j \in 1..m : i < j /\ Ev(r, i) /\ Ev(r, j) /\ No(r, i + 1, j - 1)
            => (Rq(r, i) /= Rq(r, j))
      /\ \A i \in 1..m : Ev(r, i) /\ No(r, i + 1, m) => (Rq(r, i) = c)
      /\ No(r, 1, m) => b = c
  BY <1>0 DEF TakeTurns
<1>7. \A i, j, k \in Int : No(s, i, k) /\ i <= j => No(s, j, k)
  BY DEF NoEventMessage
<1>8. \A i, j, k \in Int : No(s, i, k) /\ j <= k => No(s, i, j)
  BY DEF NoEventMessage
<1> HIDE DEF s, n, m, Ev, No
<1>11. ASSUME NEW i \in 1..(n + m), Ev(s, i), No(s, 1, i - 1)
       PROVE  Rq(s, i) = ~a
  <2>1. CASE i <= n
    <3>1. No(q, 1, i - 1) /\ i \in 1..n
      BY <1>0, <1>3, <1>11, <2>1
    <3> QED
      BY <3>1, <1>1, <1>5, <1>11
  <2>2. CASE i > n
    <3>1. No(s, 1, n) /\ No(s, n + 1, i - 1) /\ i \in (n + 1)..(n + m)
      <4>1. /\ i \in (n + 1)..(n + m)
            /\ i - 1 \in Int /\ n + 1 \in Int /\ n \in Int
            /\ 1 <= n + 1 /\ n <= i - 1
        BY <1>0, <2>2
      <4>2. No(s, 1, n)
        BY <1>8, <1>11, <4>1
      <4>3. No(s, n + 1, i - 1)
        BY <1>7, <1>11, <4>1
      <4> QED
        BY <4>1, <4>2, <4>3
    <3>2. No(q, 1, n)
      BY <1>0, <1>3, <3>1
    <3>3. No(r, (n + 1) - n, (i - 1) - n) /\ i - n \in 1..m
      BY <1>0, <1>4, <1>2, <3>1
    <3>4. No(r, 1, (i - n) - 1)
      <4>1. (n + 1) - n = 1 /\ (i - 1) - n = (i - n) - 1
        BY <1>0
      <4> QED
        BY <3>3, <4>1
    <3> QED
      BY <3>1, <3>2, <3>3, <3>4, <1>2, <1>5, <1>6, <1>11
  <2> QED
    BY <1>0, <2>1, <2>2
<1>12. ASSUME NEW i \in 1..(n + m), NEW j \in 1..(n + m), i < j, Ev(s, i), Ev(s, j),
              No(s, i + 1, j - 1)
       PROVE  Rq(s, i) /= Rq(s, j)
  <2>1. CASE j <= n
    <3>1. No(q, i + 1, j - 1) /\ i \in 1..n /\ j \in 1..n
      BY <1>0, <1>3, <1>12, <2>1
    <3> QED
      BY <3>1, <1>1, <1>5, <1>12
  <2>2. CASE i > n
    <3>1. No(r, (i + 1) - n, (j - 1) - n) /\ i - n \in 1..m /\ j - n \in 1..m
      BY <1>0, <1>4, <1>2, <1>12, <2>2
    <3>2. /\ (i + 1) - n = (i - n) + 1 /\ (j - 1) - n = (j - n) - 1 /\ i - n < j - n
          /\ i \in (n + 1)..(n + m) /\ j \in (n + 1)..(n + m)
      BY <1>0, <1>12, <2>2
    <3>3. No(r, (i - n) + 1, (j - n) - 1) /\ Ev(r, i - n) /\ Ev(r, j - n)
      BY <3>1, <3>2, <1>2, <1>12
    <3>4. Rq(r, i - n) /= Rq(r, j - n)
      BY <3>1, <3>2, <3>3, <1>6
    <3> QED
      BY <3>2, <3>4, <1>2
  <2>3. CASE i <= n /\ j > n
    <3>1. No(s, i + 1, n) /\ No(s, n + 1, j - 1) /\ i \in 1..n /\ j \in (n + 1)..(n + m)
      <4>1. i \in 1..n /\ j \in (n + 1)..(n + m)
        BY <1>0, <2>3
      <4>2. /\ i + 1 \in Int /\ j - 1 \in Int /\ n + 1 \in Int /\ n \in Int
            /\ i + 1 <= n + 1 /\ n <= j - 1
        BY <1>0, <4>1
      <4>3. No(s, i + 1, n)
        BY <1>8, <1>12, <4>2
      <4>4. No(s, n + 1, j - 1)
        BY <1>7, <1>12, <4>2
      <4> QED
        BY <4>1, <4>3, <4>4
    <3>2. No(q, i + 1, n)
      BY <1>0, <1>3, <3>1
    <3>3. No(r, (n + 1) - n, (j - 1) - n) /\ j - n \in 1..m
      BY <1>0, <1>4, <1>2, <3>1
    <3>4. No(r, 1, (j - n) - 1)
      <4>1. (n + 1) - n = 1 /\ (j - 1) - n = (j - n) - 1
        BY <1>0
      <4> QED
        BY <3>3, <4>1
    <3> QED
      BY <3>1, <3>2, <3>3, <3>4, <1>1, <1>2, <1>5, <1>6, <1>12
  <2> QED
    BY <1>0, <2>1, <2>2, <2>3
<1>13. ASSUME NEW i \in 1..(n + m), Ev(s, i), No(s, i + 1, n + m)
       PROVE  Rq(s, i) = c
  <2>1. CASE i <= n
    <3>1. No(s, i + 1, n) /\ No(s, n + 1, n + m) /\ i \in 1..n
      <4>1. /\ i \in 1..n
            /\ i + 1 \in Int /\ n + 1 \in Int /\ n \in Int /\ n + m \in Int
            /\ i + 1 <= n + 1 /\ n <= n + m
        BY <1>0, <2>1
      <4>2. No(s, i + 1, n)
        BY <1>8, <1>13, <4>1
      <4>3. No(s, n + 1, n + m)
        BY <1>7, <1>13, <4>1
      <4> QED
        BY <4>1, <4>2, <4>3
    <3>2. No(q, i + 1, n)
      BY <1>0, <1>3, <3>1
    <3>3. No(r, (n + 1) - n, (n + m) - n)
      BY <1>0, <1>4, <3>1
    <3>4. No(r, 1, m)
      <4>1. (n + 1) - n = 1 /\ (n + m) - n = m
        BY <1>0
      <4> QED
        BY <3>3, <4>1
    <3> QED
      BY <3>1, <3>2, <3>4, <1>1, <1>5, <1>6, <1>13
  <2>2. CASE i > n
    <3>1. No(r, (i + 1) - n, (n + m) - n) /\ i - n \in 1..m /\ i \in (n + 1)..(n + m)
      BY <1>0, <1>4, <1>2, <1>13, <2>2
    <3>2. (i + 1) - n = (i - n) + 1 /\ (n + m) - n = m
      BY <1>0
    <3>3. No(r, (i - n) + 1, m)
      BY <3>1, <3>2
    <3> QED
      BY <3>1, <3>3, <1>2, <1>6, <1>13
  <2> QED
    BY <1>0, <2>1, <2>2
<1>14. ASSUME No(s, 1, n + m)
       PROVE  a = c
  <2>1. No(s, 1, n) /\ No(s, n + 1, n + m)
    BY <1>0, <1>7, <1>8, <1>14
  <2>2. No(q, 1, n)
    BY <1>0, <1>3, <2>1
  <2>3. No(r, (n + 1) - n, (n + m) - n)
    BY <1>0, <1>4, <2>1
  <2>4. No(r, 1, m)
    <3>1. (n + 1) - n = 1 /\ (n + m) - n = m
      BY <1>0
    <3> QED
      BY <2>3, <3>1
  <2> QED
    BY <2>2, <2>4, <1>5, <1>6
<1> USE DEF Ev, No
<1>15. TakeTurns(s, a, c)
  BY <1>0, <1>11, <1>12, <1>13, <1>14 DEF TakeTurns
<1> QED
  BY <1>15 DEF s

\* Without messages about the event nothing changes
LEMMA TurnsNone ==
    ASSUME NEW S, NEW q \in Seq(S), ~OnItsWay(q, EventId), NEW a \in BOOLEAN
    PROVE  TakeTurns(q, a, a)
  BY DEF TakeTurns, IsEventMessage, OnItsWay

\* One message makes the server listen or not
LEMMA TurnsOne ==
    ASSUME NEW S, NEW q \in Seq(S), NEW k \in DOMAIN q, q[k].id = EventId,
           \A i \in DOMAIN q : q[i].id = EventId => i = k,
           NEW b \in BOOLEAN, b = (q[k] = Request(EventId))
    PROVE  TakeTurns(q, ~b, b)
<1>1. \A i : IsEventMessage(q, i) <=> i = k
  BY DEF IsEventMessage
<1>2. ~NoEventMessage(q, 1, Len(q))
  BY <1>1 DEF NoEventMessage
<1>3. CASE b
  <2>1. (q[k] = Request(EventId)) = TRUE /\ b = TRUE
    BY <1>3
  <2> QED
    BY <1>1, <1>2, <2>1 DEF TakeTurns
<1>4. CASE ~b
  <2>1. (q[k] = Request(EventId)) = FALSE /\ b = FALSE
    BY <1>4
  <2> QED
    BY <1>1, <1>2, <2>1 DEF TakeTurns
<1> QED
  BY <1>3, <1>4

\* The server gets the first message
LEMMA TurnsTail ==
    ASSUME NEW S, NEW q \in Seq(S), q /= <<>>, NEW a \in BOOLEAN, NEW b \in BOOLEAN,
           TakeTurns(q, a, b)
    PROVE  /\ Head(q).id /= EventId => TakeTurns(Tail(q), a, b)
           /\ Head(q).id = EventId => /\ (Head(q) = Request(EventId)) = ~a
                                      /\ TakeTurns(Tail(q), ~a, b)
<1> DEFINE r == Tail(q)
           n == Len(q)
           Ev(x, i) == IsEventMessage(x, i)
           No(x, i, j) == NoEventMessage(x, i, j)
           Rq(x, i) == x[i] = Request(EventId)
<1>0. /\ n \in Nat \ {0} /\ Len(r) = n - 1 /\ Head(q) = q[1]
      /\ DOMAIN q = 1..n /\ DOMAIN r = 1..(n - 1)
      /\ \A i \in 1..(n - 1) : i + 1 \in 1..n /\ r[i] = q[i + 1]
  OBVIOUS
<1>1. \A i \in 1..(n - 1) : (Ev(r, i) <=> Ev(q, i + 1)) /\ (Rq(r, i) <=> Rq(q, i + 1))
  BY <1>0 DEF IsEventMessage
<1>2. \A i, j \in Int : i > 0 /\ j < n /\ No(r, i, j) => No(q, i + 1, j + 1)
  <2> SUFFICES ASSUME NEW i \in Int, NEW j \in Int, i > 0, j < n, No(r, i, j),
                      NEW k \in (i + 1)..(j + 1)
               PROVE  ~Ev(q, k)
    BY DEF NoEventMessage
  <2>1. k - 1 \in i..j /\ k - 1 \in 1..(n - 1) /\ (k - 1) + 1 = k
    BY <1>0
  <2>2. ~Ev(r, k - 1)
    BY <2>1 DEF NoEventMessage
  <2> QED
    BY <2>1, <2>2, <1>1
<1>3. Ev(q, 1) <=> Head(q).id = EventId
  BY <1>0 DEF IsEventMessage
<1>4. No(q, 1, 0) /\ No(q, 2, 1)
  BY DEF NoEventMessage
<1>5. \A j \in Int : ~Ev(q, 1) /\ No(q, 2, j) => No(q, 1, j)
  BY DEF NoEventMessage
<1>6. /\ \A i \in 1..n : Ev(q, i) /\ No(q, 1, i - 1) => (Rq(q, i) = ~a)
      /\ \A i, j \in 1..n : i < j /\ Ev(q, i) /\ Ev(q, j) /\ No(q, i + 1, j - 1)
            => (Rq(q, i) /= Rq(q, j))
      /\ \A i \in 1..n : Ev(q, i) /\ No(q, i + 1, n) => (Rq(q, i) = b)
      /\ No(q, 1, n) => a = b
  BY <1>0 DEF TakeTurns
<1> HIDE DEF r, n, Ev, No
<1>7. ASSUME NEW i \in 1..(n - 1), NEW j \in 1..(n - 1), i < j, Ev(r, i), Ev(r, j),
             No(r, i + 1, j - 1)
      PROVE  Rq(r, i) /= Rq(r, j)
  <2>1. No(q, (i + 1) + 1, (j - 1) + 1) /\ Ev(q, i + 1) /\ Ev(q, j + 1)
    BY <1>0, <1>1, <1>2, <1>7
  <2>2. (j - 1) + 1 = (j + 1) - 1 /\ i + 1 < j + 1 /\ i + 1 \in 1..n /\ j + 1 \in 1..n
    BY <1>0, <1>7
  <2>3. No(q, (i + 1) + 1, (j + 1) - 1)
    BY <2>1, <2>2
  <2>4. Rq(q, i + 1) /= Rq(q, j + 1)
    BY <2>1, <2>2, <2>3, <1>6
  <2> QED
    BY <2>4, <1>1
<1>8. ASSUME NEW i \in 1..(n - 1), Ev(r, i), No(r, i + 1, n - 1)
      PROVE  Rq(r, i) = b
  <2>1. No(q, (i + 1) + 1, (n - 1) + 1) /\ Ev(q, i + 1) /\ (n - 1) + 1 = n /\ i + 1 \in 1..n
    BY <1>0, <1>1, <1>2, <1>8
  <2>2. Rq(q, i + 1) = b
    BY <2>1, <1>6
  <2> QED
    BY <2>2, <1>1
<1>9. ASSUME NEW i \in 1..(n - 1), Ev(r, i), No(r, 1, i - 1)
      PROVE  No(q, 2, (i + 1) - 1) /\ Ev(q, i + 1) /\ i + 1 \in 1..n /\ (Rq(r, i) <=> Rq(q, i + 1))
  <2>1. No(q, 1 + 1, (i - 1) + 1)
    BY <1>0, <1>2, <1>9
  <2>2. 1 + 1 = 2 /\ (i - 1) + 1 = (i + 1) - 1 /\ i + 1 \in 1..n
    BY <1>0
  <2> QED
    BY <1>1, <1>9, <2>1, <2>2
<1>10. No(r, 1, n - 1) => No(q, 2, n)
  <2>1. 1 + 1 = 2 /\ (n - 1) + 1 = n /\ n - 1 \in Int /\ n - 1 < n
    BY <1>0
  <2> QED
    BY <2>1, <1>2
<1>11. CASE ~Ev(q, 1)
  <2>1. ASSUME NEW i \in 1..(n - 1), Ev(r, i), No(r, 1, i - 1)
        PROVE  Rq(r, i) = ~a
    <3>1. No(q, 1, (i + 1) - 1)
      BY <1>5, <1>9, <1>11, <2>1
    <3> QED
      BY <3>1, <2>1, <1>9, <1>6
  <2>2. No(r, 1, n - 1) => a = b
    BY <1>0, <1>5, <1>6, <1>10, <1>11
  <2> USE DEF Ev, No
  <2>3. TakeTurns(r, a, b)
    BY <1>0, <2>1, <2>2, <1>7, <1>8 DEF TakeTurns
  <2> QED
    BY <2>3, <1>3, <1>11 DEF r
<1>12. CASE Ev(q, 1)
  <2>0. Rq(q, 1) = ~a /\ 1 \in 1..n
    BY <1>0, <1>4, <1>6, <1>12
  <2>1. ASSUME NEW i \in 1..(n - 1), Ev(r, i), No(r, 1, i - 1)
        PROVE  Rq(r, i) = ~(~a)
    <3>1. No(q, 1 + 1, (i + 1) - 1) /\ Ev(q, i + 1) /\ i + 1 \in 1..n /\ 1 < i + 1
      BY <1>0, <1>9, <2>1
    <3>2. Rq(q, 1) /= Rq(q, i + 1)
      BY <3>1, <1>6, <1>12, <2>0
    <3> QED
      BY <3>2, <2>0, <2>1, <1>9
  <2>2. No(r, 1, n - 1) => (~a) = b
    <3>1. 1 + 1 = 2
      OBVIOUS
    <3> QED
      BY <3>1, <2>0, <1>6, <1>10, <1>12
  <2> USE DEF Ev, No
  <2>3. TakeTurns(r, ~a, b)
    BY <1>0, <2>1, <2>2, <1>7, <1>8 DEF TakeTurns
  <2> QED
    BY <2>0, <2>3, <1>0, <1>3, <1>12 DEF r
<1> QED
  BY <1>11, <1>12

-----------------------------------------------------------------------------
(* Messages                                                                *)

\* The types of the queues
LEMMA QueueTypes ==
    ASSUME TypeOK
    PROVE  /\ uninitialized \in Seq(Ids) /\ IsInjective(uninitialized)
           /\ toServer \in Seq(ServerMessage)
           /\ toClient \in Seq(ClientMessage)
           /\ pendingRequests \in Seq(PendingRequest)
           /\ EventId \in Ids /\ EventId \notin Calls /\ Calls \subseteq Ids
  BY CallsAssumption DEF TypeOK, ServerMessage, ClientMessage, PendingRequest, Ids

\* Requests and cancellations of different ids are different messages.
LEMMA MessageFacts ==
    ASSUME NEW a \in Ids, NEW b \in Ids
    PROVE  /\ Request(a) \in ServerMessage /\ Dispose(a) \in ServerMessage
           /\ Request(a).id = a /\ Dispose(a).id = a
           /\ Request(a) = Request(b) <=> a = b
           /\ Dispose(a) = Dispose(b) <=> a = b
           /\ Request(a) /= Dispose(b)
  BY DEF Request, Dispose, ServerMessage

\* A message about an id is on its way if it is in the queue.
LEMMA ContainsOnItsWay ==
    ASSUME NEW q \in Seq(ServerMessage), NEW a \in Ids
    PROVE  Contains(q, Request(a)) \/ Contains(q, Dispose(a)) => OnItsWay(q, a)
  BY MessageFacts DEF Contains, OnItsWay

\* The ids of pending requests
LEMMA PendingFacts ==
    ASSUME pendingRequests \in Seq(PendingRequest)
    PROVE  /\ Pending \in Seq(Ids) /\ DOMAIN Pending = DOMAIN pendingRequests
           /\ \A id : Contains(Pending, id) <=> id \in PendingIds
           /\ ToSet(Pending) = PendingIds
           /\ PendingIds \subseteq Ids
<1>1. /\ DOMAIN pendingRequests = 1..Len(pendingRequests) /\ Len(pendingRequests) \in Nat
      /\ \A i \in DOMAIN pendingRequests : pendingRequests[i].id \in Ids
  <2>1. \A i \in DOMAIN pendingRequests : pendingRequests[i] \in PendingRequest
    OBVIOUS
  <2> QED
    BY <2>1 DEF PendingRequest
<1>2. Pending \in Seq(Ids) /\ Len(Pending) = Len(pendingRequests)
  BY <1>1 DEF Pending
<1> QED
  BY <1>1, <1>2 DEF Pending, PendingIds, Contains, ToSet

\* The counts the invariant adds up are numbers.
LEMMA CountTypes ==
    ASSUME TypeOK
    PROVE  /\ subscriptions \in Nat
           /\ Count(Pending, EventId) \in Nat /\ Count(toServer, Request(EventId)) \in Nat
           /\ Count(uninitialized, EventId) \in Nat
<1>1. subscriptions \in Nat
  BY BoundsAssumption DEF TypeOK
<1>2. Count(Pending, EventId) \in Nat
  BY CountType, QueueTypes, PendingFacts
<1>3. Count(toServer, Request(EventId)) \in Nat
  BY CountType, QueueTypes
<1>4. Count(uninitialized, EventId) \in Nat
  BY CountType, QueueTypes
<1> QED
  BY <1>1, <1>2, <1>3, <1>4

\* One message about the event takes its turn.
LEMMA TurnsSingle ==
    /\ TakeTurns(<<Request(EventId)>>, FALSE, TRUE)
    /\ TakeTurns(<<Dispose(EventId)>>, TRUE, FALSE)
<1>1. ASSUME NEW x \in ServerMessage, x.id = EventId, NEW b \in BOOLEAN, b = (x = Request(EventId))
      PROVE  TakeTurns(<<x>>, ~b, b)
  <2> DEFINE q == <<x>>
  <2>1. q \in Seq(ServerMessage) /\ DOMAIN q = {1} /\ q[1] = x
    OBVIOUS
  <2> HIDE DEF q
  <2>2. TakeTurns(q, ~b, b)
    BY <1>1, <2>1, TurnsOne
  <2> QED
    BY <2>2 DEF q
<1>2. /\ Request(EventId) \in ServerMessage /\ Request(EventId).id = EventId
      /\ Dispose(EventId) \in ServerMessage /\ Dispose(EventId).id = EventId
      /\ Dispose(EventId) /= Request(EventId)
  BY MessageFacts DEF Ids
<1>3. TakeTurns(<<Request(EventId)>>, ~TRUE, TRUE)
  BY <1>1, <1>2
<1>4. TakeTurns(<<Dispose(EventId)>>, ~FALSE, FALSE)
  BY <1>1, <1>2
<1>5. (~TRUE) = FALSE /\ (~FALSE) = TRUE
  OBVIOUS
<1> QED
  BY <1>3, <1>4, <1>5

\* What the parts of the invariant depend on
LEMMA Frame ==
    ASSUME IInv
    PROVE  /\ UNCHANGED <<call, toServer, toClient, pendingRequests, execution, handlers>>
              => UnsentHasNoTrace'
           /\ UNCHANGED <<call, uninitialized, listening, state>> => UninitializedWaits'
           /\ UNCHANGED <<toServer, pendingRequests, execution>> => RequestedOnce'
           /\ UNCHANGED <<toClient, execution>> => AnswersAreTrue'
           /\ UNCHANGED <<handlers, clientDisposed, serverDisposed, toServer, pendingRequests,
                          execution, toClient>> => HandlerIsAwaited'
           /\ UNCHANGED <<toServer, execution, serverDisposed, activeRequests, token, call,
                          missed, pendingRequests>> => CancelFollows'
           /\ UNCHANGED <<subscriptions, pendingRequests, toServer, uninitialized, listens,
                          activeRequests>> => SubscriptionsCounted'
           /\ UNCHANGED <<toServer, listening, uninitialized, activeRequests, pendingRequests,
                          missed, subscriptions, serverDisposed>> => EventsTakeTurns'
           /\ UNCHANGED <<missed, heard, toClient, fires>> => HeardAsSent'
<1>1. UNCHANGED pendingRequests => UNCHANGED <<PendingIds, Pending>>
  BY DEF PendingIds, Pending
<1>2. UNCHANGED <<listening, uninitialized>> => UNCHANGED Asked
  BY DEF Asked
<1>3. UNCHANGED <<activeRequests, pendingRequests>> => UNCHANGED Heard
  BY <1>1 DEF Heard
<1> USE DEF IInv
<1>4. UNCHANGED <<call, toServer, toClient, pendingRequests, execution, handlers>>
         => UnsentHasNoTrace'
  BY <1>1 DEF UnsentHasNoTrace
<1>5. UNCHANGED <<call, uninitialized, listening, state>> => UninitializedWaits'
  BY DEF UninitializedWaits
<1>6. UNCHANGED <<toServer, pendingRequests, execution>> => RequestedOnce'
  BY <1>1 DEF RequestedOnce
<1>7. UNCHANGED <<toClient, execution>> => AnswersAreTrue'
  BY DEF AnswersAreTrue
<1>8. UNCHANGED <<handlers, clientDisposed, serverDisposed, toServer, pendingRequests,
                  execution, toClient>> => HandlerIsAwaited'
  <2> SUFFICES ASSUME UNCHANGED <<handlers, clientDisposed, serverDisposed, toServer,
                                  pendingRequests, execution, toClient>>,
                      NEW c \in handlers
               PROVE  IsAwaited(c)'
    BY DEF HandlerIsAwaited
  <2>1. IsAwaited(c)
    BY DEF HandlerIsAwaited
  <2> QED
    BY <2>1 DEF IsAwaited
<1>9. UNCHANGED <<toServer, execution, serverDisposed, activeRequests, token, call,
                  missed, pendingRequests>> => CancelFollows'
  BY <1>1 DEF CancelFollows
<1>10. UNCHANGED <<subscriptions, pendingRequests, toServer, uninitialized, listens,
                  activeRequests>> => SubscriptionsCounted'
  BY DEF SubscriptionsCounted, Pending
<1>11. UNCHANGED <<toServer, listening, uninitialized, activeRequests, pendingRequests,
                  missed, subscriptions, serverDisposed>> => EventsTakeTurns'
  BY <1>1, <1>2, <1>3 DEF EventsTakeTurns
<1>12. UNCHANGED <<missed, heard, toClient, fires>> => HeardAsSent'
  BY DEF HeardAsSent
<1> QED
  BY <1>4, <1>5, <1>6, <1>7, <1>8, <1>9, <1>10, <1>11, <1>12

\* Messages to the server that agree with what the client does with its listener
LEMMA ExtendTurns ==
    ASSUME EventsTakeTurns, toServer \in Seq(ServerMessage),
           NEW r \in Seq(ServerMessage), toServer' = toServer \o r,
           TakeTurns(r, Asked, Asked'),
           UNCHANGED <<activeRequests, pendingRequests, missed, subscriptions, serverDisposed>>
    PROVE  EventsTakeTurns'
<1>1. UNCHANGED <<Pending, PendingIds>>
  BY DEF Pending, PendingIds
<1>2. UNCHANGED Heard
  BY <1>1 DEF Heard
<1>3. Asked \in BOOLEAN /\ Asked' \in BOOLEAN
  BY DEF Asked
<1>4. PICK told \in BOOLEAN : /\ TakeTurns(toServer, told, Asked)
                              /\ ~serverDisposed /\ told => Heard
                              /\ ~serverDisposed /\ EventId \notin missed => told = Heard
  BY DEF EventsTakeTurns
<1>5. TakeTurns(toServer', told, Asked')
  BY <1>3, <1>4, TurnsConcat
<1> QED
  BY <1>1, <1>2, <1>4, <1>5 DEF EventsTakeTurns

-----------------------------------------------------------------------------
(* The client                                                              *)

\* A sequence without repetitions, and without the element at a position
LEMMA RemoveAtFacts ==
    ASSUME NEW S, NEW q \in Seq(S), IsInjective(q), NEW i \in DOMAIN q
    PROVE  /\ RemoveAt(q, i) \in Seq(S) /\ IsInjective(RemoveAt(q, i))
           /\ \A e : Contains(RemoveAt(q, i), e) <=> (Contains(q, e) /\ e /= q[i])
<1> DEFINE r == RemoveAt(q, i)
           n == Len(q)
<1>1. /\ n \in Nat /\ DOMAIN q = 1..n /\ r \in Seq(S) /\ Len(r) = n - 1 /\ DOMAIN r = 1..(n - 1)
      /\ \A j \in 1..(i - 1) : r[j] = q[j]
      /\ \A j \in i..(n - 1) : r[j] = q[j + 1]
  <2> DEFINE a == SubSeq(q, 1, i - 1)
             b == SubSeq(q, i + 1, n)
  <2>1. n \in Nat /\ DOMAIN q = 1..n /\ i \in 1..n
    OBVIOUS
  <2>2. /\ a \in Seq(S) /\ Len(a) = i - 1
        /\ \A j \in 1..(i - 1) : a[j] = q[j]
    BY <2>1
  <2>3. /\ b \in Seq(S) /\ Len(b) = n - i
        /\ \A j \in 1..(n - i) : b[j] = q[i + j]
    BY <2>1
  <2>4. r = a \o b
    BY DEF RemoveAt
  <2> HIDE DEF a, b, r
  <2>5. /\ a \o b \in Seq(S) /\ Len(a \o b) = n - 1
        /\ \A j \in 1..(i - 1) : (a \o b)[j] = a[j]
        /\ \A j \in i..(n - 1) : (a \o b)[j] = b[j - (i - 1)]
    <3>1. /\ a \o b \in Seq(S) /\ Len(a \o b) = Len(a) + Len(b)
          /\ \A j \in 1..(Len(a) + Len(b)) :
                (a \o b)[j] = IF j <= Len(a) THEN a[j] ELSE b[j - Len(a)]
      BY <2>2, <2>3
    <3>2. (i - 1) + (n - i) = n - 1 /\ i - 1 \in Nat /\ n - i \in Nat
      BY <2>1
    <3> QED
      BY <2>1, <2>2, <2>3, <3>1, <3>2
  <2>6. \A j \in i..(n - 1) : b[j - (i - 1)] = q[j + 1]
    <3> SUFFICES ASSUME NEW j \in i..(n - 1) PROVE b[j - (i - 1)] = q[j + 1]
      OBVIOUS
    <3>1. j - (i - 1) \in 1..(n - i) /\ i + (j - (i - 1)) = j + 1
      BY <2>1
    <3> QED
      BY <2>3, <3>1
  <2>7. DOMAIN r = 1..Len(r)
    BY <2>4, <2>5
  <2> QED
    BY <2>1, <2>2, <2>4, <2>5, <2>6, <2>7
<1> HIDE DEF r
<1>2. IsInjective(r)
  <2>0. i \in 1..n /\ \A j, k \in 1..n : q[j] = q[k] => j = k
    BY <1>1 DEF IsInjective
  <2> SUFFICES ASSUME NEW j \in 1..(n - 1), NEW k \in 1..(n - 1), r[j] = r[k]
               PROVE  j = k
    BY <1>1 DEF IsInjective
  <2>1. CASE j < i /\ k < i
    BY <1>1, <2>0, <2>1
  <2>2. CASE j >= i /\ k >= i
    <3>1. q[j + 1] = q[k + 1] /\ j + 1 \in 1..n /\ k + 1 \in 1..n
      BY <1>1, <2>2
    <3> QED
      BY <2>0, <3>1
  <2>3. CASE j < i /\ k >= i
    <3>1. q[j] = q[k + 1] /\ j \in 1..n /\ k + 1 \in 1..n
      BY <1>1, <2>3
    <3> QED
      BY <2>0, <2>3, <3>1
  <2>4. CASE j >= i /\ k < i
    <3>1. q[j + 1] = q[k] /\ j + 1 \in 1..n /\ k \in 1..n
      BY <1>1, <2>4
    <3> QED
      BY <2>0, <2>4, <3>1
  <2> QED
    BY <2>0, <2>1, <2>2, <2>3, <2>4
<1>3. ASSUME NEW e, Contains(r, e)
      PROVE  Contains(q, e) /\ e /= q[i]
  <2>1. PICK j \in 1..(n - 1) : r[j] = e
    BY <1>1, <1>3 DEF Contains
  <2>2. CASE j < i
    BY <1>1, <2>1, <2>2 DEF Contains, IsInjective
  <2>3. CASE j >= i
    <3>1. j + 1 \in 1..n /\ j + 1 /= i /\ q[j + 1] = e
      BY <1>1, <2>1, <2>3
    <3> QED
      BY <1>1, <3>1 DEF Contains, IsInjective
  <2> QED
    BY <1>1, <2>2, <2>3
<1>4. ASSUME NEW e, Contains(q, e), e /= q[i]
      PROVE  Contains(r, e)
  <2>1. PICK j \in 1..n : q[j] = e
    BY <1>1, <1>4 DEF Contains
  <2>2. CASE j < i
    BY <1>1, <2>1, <2>2 DEF Contains
  <2>3. CASE j > i
    <3>1. j - 1 \in 1..(n - 1) /\ j - 1 \in i..(n - 1) /\ (j - 1) + 1 = j
      BY <1>1, <2>1, <2>3
    <3>2. r[j - 1] = e
      BY <1>1, <2>1, <3>1
    <3> QED
      BY <1>1, <3>1, <3>2 DEF Contains
  <2> QED
    BY <1>1, <1>4, <2>1, <2>2, <2>3
<1> QED
  BY <1>1, <1>2, <1>3, <1>4 DEF r

\* In a sequence without repetitions an element is once or not at all.
LEMMA CountInjective ==
    ASSUME NEW S, NEW q \in Seq(S), IsInjective(q), NEW e
    PROVE  Count(q, e) = IF Contains(q, e) THEN 1 ELSE 0
  BY CountOne DEF IsInjective

\* A call that changes is still in one of the states of the client.
LEMMA CallType ==
    ASSUME TypeOK, NEW c \in Calls,
           NEW v \in {"none", "uninitialized", "sent", "unknownChannel", "cancelled"} \cup Results
    PROVE  [call EXCEPT ![c] = v]
              \in [Calls -> {"none", "uninitialized", "sent", "unknownChannel", "cancelled"}
                             \cup Results]
  BY DEF TypeOK

\* requestPromise(): a call is sent, waits for initialization, or was cancelled before.
LEMMA RequestPromiseInv ==
    ASSUME IInv, NEW c \in Calls, RequestPromise(c)
    PROVE  IInv'
<1> USE DEF IInv
<1>1. /\ call[c] = "none" /\ c \in Ids /\ c /= EventId
      /\ UNCHANGED <<state, listening, clientDisposed, toClient, serverVars, boundVars, historyVars>>
  BY QueueTypes DEF RequestPromise
<1>2. UNCHANGED <<PendingIds, Pending>>
  BY <1>1 DEF serverVars, PendingIds, Pending
<1>3. /\ ~OnItsWay(toServer, c) /\ ~OnItsWay(toClient, c) /\ c \notin PendingIds
      /\ execution[c] = "none" /\ c \notin handlers
      /\ ~Contains(toServer, Request(c)) /\ ~Contains(toServer, Dispose(c))
      /\ ~Contains(uninitialized, c)
  BY <1>1, QueueTypes, ContainsOnItsWay DEF UnsentHasNoTrace, UninitializedWaits
<1>4. call \in [Calls -> {"none", "uninitialized", "sent", "unknownChannel", "cancelled"}
                         \cup Results]
  BY DEF TypeOK
<1>5. CASE /\ call' = [call EXCEPT ![c] = "cancelled"]
           /\ UNCHANGED <<handlers, uninitialized, toServer>>
  <2>1. TypeOK'
    <3>1. call' \in [Calls -> {"none", "uninitialized", "sent", "unknownChannel", "cancelled"}
                              \cup Results]
      BY <1>5, CallType
    <3> QED
      BY <1>1, <1>5, <3>1 DEF TypeOK, serverVars, boundVars, historyVars
  <2>2. UnsentHasNoTrace'
    BY <1>1, <1>2, <1>4, <1>5 DEF UnsentHasNoTrace, serverVars
  <2>3. UninitializedWaits'
    BY <1>1, <1>3, <1>4, <1>5 DEF UninitializedWaits
  <2>4. CancelFollows'
    BY <1>1, <1>2, <1>3, <1>4, <1>5 DEF CancelFollows, serverVars, historyVars
  <2> QED
    BY <1>1, <1>5, <2>1, <2>2, <2>3, <2>4, Frame DEF serverVars, boundVars, historyVars
<1>6. CASE /\ ~clientDisposed /\ state = "idle"
           /\ call' = [call EXCEPT ![c] = "sent"]
           /\ handlers' = handlers \cup {c}
           /\ toServer' = Append(toServer, Request(c))
           /\ UNCHANGED uninitialized
  <2>0. /\ toServer \in Seq(ServerMessage) /\ Request(c) \in ServerMessage
        /\ Request(c).id = c /\ Request(c) /= Request(EventId)
        /\ \A d \in Calls : (Request(c) = Request(d) <=> c = d) /\ Request(c) /= Dispose(d)
    BY <1>1, QueueTypes, MessageFacts
  <2>1. TypeOK'
    <3>1. call' \in [Calls -> {"none", "uninitialized", "sent", "unknownChannel", "cancelled"}
                              \cup Results]
      BY <1>6, CallType
    <3>2. toServer' \in Seq(ServerMessage)
      BY <2>0, <1>6
    <3> QED
      BY <1>1, <1>6, <3>1, <3>2 DEF TypeOK, serverVars, boundVars, historyVars, ServerMessage
  <2>2. \A d : OnItsWay(toServer', d) <=> (OnItsWay(toServer, d) \/ d = c)
    BY <1>6, <2>0, OnItsWayAppend
  <2>3. \A e : Contains(toServer', e) <=> (Contains(toServer, e) \/ e = Request(c))
    BY <1>6, <2>0, ContainsAppend
  <2>4. UnsentHasNoTrace'
    BY <1>1, <1>2, <1>4, <1>6, <2>2 DEF UnsentHasNoTrace, serverVars
  <2>5. UninitializedWaits'
    BY <1>1, <1>3, <1>4, <1>6 DEF UninitializedWaits
  <2>6. /\ toServer' = toServer \o <<Request(c)>> /\ <<Request(c)>> \in Seq(ServerMessage)
        /\ \A e : Contains(<<Request(c)>>, e) <=> e = Request(c)
    BY <1>6, <2>0 DEF Contains
  <2>7. RequestedOnce'
    <3>1. ASSUME NEW d \in Calls
          PROVE  AtMostOnce(toServer', Request(d))
      <4>1. AtMostOnce(<<Request(c)>>, Request(d))
        BY DEF AtMostOnce
      <4>2. ~(Contains(toServer, Request(d)) /\ Contains(<<Request(c)>>, Request(d)))
        BY <1>3, <2>0, <2>6
      <4> QED
        BY <2>0, <2>6, <4>1, <4>2, OnceConcat DEF RequestedOnce
    <3> QED
      BY <1>1, <1>2, <1>3, <2>0, <2>3, <3>1 DEF RequestedOnce, serverVars
  <2>8. HandlerIsAwaited'
    BY <1>1, <1>6, <2>3 DEF HandlerIsAwaited, IsAwaited, serverVars
  <2>9. CancelFollows'
    <3>1. ASSUME NEW d \in Calls
          PROVE  InOrder(toServer', Request(d), Dispose(d))
      <4>1. InOrder(<<Request(c)>>, Request(d), Dispose(d))
        BY <2>0, <2>6, NotContained
      <4>2. ~(Contains(toServer, Dispose(d)) /\ Contains(<<Request(c)>>, Request(d)))
        BY <1>3, <2>0, <2>6
      <4> QED
        BY <2>0, <2>6, <4>1, <4>2, OrderConcat DEF CancelFollows
    <3> QED
      BY <1>1, <1>2, <1>3, <1>4, <1>6, <2>0, <2>3, <3>1 DEF CancelFollows, serverVars, historyVars
  <2>10. SubscriptionsCounted'
    <3>1. Count(toServer', Request(EventId)) = Count(toServer, Request(EventId))
      <4>1. Count(toServer, Request(EventId)) \in Nat
        BY <2>0, CountType
      <4> QED
        BY <1>6, <2>0, <4>1, CountAppend
    <3> QED
      BY <1>1, <1>2, <1>6, <3>1 DEF SubscriptionsCounted, serverVars, boundVars
  <2>11. EventsTakeTurns'
    <3>1. Asked' = Asked /\ Asked \in BOOLEAN
      BY <1>1, <1>6 DEF Asked
    <3>2. ~OnItsWay(<<Request(c)>>, EventId)
      BY <1>1, <2>0 DEF OnItsWay
    <3>3. TakeTurns(<<Request(c)>>, Asked, Asked)
      BY <2>6, <3>1, <3>2, TurnsNone
    <3> QED
      BY <1>1, <2>0, <2>6, <3>1, <3>3, ExtendTurns DEF serverVars, historyVars
  <2> QED
    BY <1>1, <1>6, <2>1, <2>4, <2>5, <2>7, <2>8, <2>9, <2>10, <2>11, Frame
       DEF serverVars, boundVars, historyVars
<1>7. CASE /\ ~clientDisposed /\ state = "uninitialized"
           /\ call' = [call EXCEPT ![c] = "uninitialized"]
           /\ uninitialized' = Append(uninitialized, c)
           /\ UNCHANGED <<handlers, toServer>>
  <2>0. uninitialized \in Seq(Ids) /\ IsInjective(uninitialized)
    BY QueueTypes
  <2>1. \A e : Contains(uninitialized', e) <=> (Contains(uninitialized, e) \/ e = c)
    BY <1>1, <1>7, <2>0, ContainsAppend
  <2>2. uninitialized' \in Seq(Ids) /\ IsInjective(uninitialized')
    BY <1>1, <1>3, <1>7, <2>0 DEF IsInjective, Contains
  <2>3. TypeOK'
    <3>1. call' \in [Calls -> {"none", "uninitialized", "sent", "unknownChannel", "cancelled"}
                              \cup Results]
      BY <1>7, CallType
    <3> QED
      BY <1>1, <1>7, <2>2, <3>1 DEF TypeOK, serverVars, boundVars, historyVars
  <2>4. UnsentHasNoTrace'
    BY <1>1, <1>2, <1>3, <1>4, <1>7 DEF UnsentHasNoTrace, serverVars
  <2>5. UninitializedWaits'
    BY <1>1, <1>4, <1>7, <2>1 DEF UninitializedWaits
  <2>6. CancelFollows'
    BY <1>1, <1>2, <1>4, <1>7 DEF CancelFollows, serverVars, historyVars
  <2>7. SubscriptionsCounted'
    <3>1. Count(uninitialized', EventId) = Count(uninitialized, EventId)
      BY <1>1, <2>0, <2>1, <2>2, CountInjective
    <3> QED
      BY <1>1, <1>2, <1>7, <3>1 DEF SubscriptionsCounted, serverVars, boundVars
  <2>8. EventsTakeTurns'
    <3>1. Asked' = Asked
      BY <1>1, <1>7, <2>1 DEF Asked
    <3>2. Heard' = Heard
      BY <1>1, <1>2 DEF Heard, serverVars
    <3> QED
      BY <1>1, <1>2, <1>7, <3>1, <3>2 DEF EventsTakeTurns, serverVars, historyVars
  <2> QED
    BY <1>1, <1>7, <2>3, <2>4, <2>5, <2>6, <2>7, <2>8, Frame DEF serverVars, boundVars, historyVars
<1> QED
  BY <1>5, <1>6, <1>7 DEF RequestPromise

\* Cancellations leave the requests that are on their way alone.
LEMMA ExtendByDisposes ==
    ASSUME toServer \in Seq(ServerMessage), NEW r \in Seq(ServerMessage),
           toServer' = toServer \o r, \A i \in DOMAIN r : \E id \in Ids : r[i] = Dispose(id)
    PROVE  /\ toServer' \in Seq(ServerMessage)
           /\ \A id : OnItsWay(toServer', id) <=> (OnItsWay(toServer, id) \/ OnItsWay(r, id))
           /\ \A id \in Ids :
                 /\ Contains(toServer', Request(id)) <=> Contains(toServer, Request(id))
                 /\ Contains(toServer', Dispose(id))
                       <=> (Contains(toServer, Dispose(id)) \/ Contains(r, Dispose(id)))
                 /\ AtMostOnce(toServer, Request(id)) => AtMostOnce(toServer', Request(id))
                 /\ InOrder(toServer, Request(id), Dispose(id))
                       => InOrder(toServer', Request(id), Dispose(id))
                 /\ Count(toServer', Request(id)) = Count(toServer, Request(id))
<1>1. toServer' \in Seq(ServerMessage)
  OBVIOUS
<1>2. \A id : OnItsWay(toServer', id) <=> (OnItsWay(toServer, id) \/ OnItsWay(r, id))
  BY OnItsWayConcat
<1>3. ASSUME NEW id \in Ids
      PROVE  /\ Contains(toServer', Request(id)) <=> Contains(toServer, Request(id))
             /\ Contains(toServer', Dispose(id))
                   <=> (Contains(toServer, Dispose(id)) \/ Contains(r, Dispose(id)))
             /\ AtMostOnce(toServer, Request(id)) => AtMostOnce(toServer', Request(id))
             /\ InOrder(toServer, Request(id), Dispose(id))
                   => InOrder(toServer', Request(id), Dispose(id))
             /\ Count(toServer', Request(id)) = Count(toServer, Request(id))
  <2>1. ~Contains(r, Request(id))
    <3>1. DOMAIN r = 1..Len(r)
      OBVIOUS
    <3> QED
      BY <3>1, MessageFacts DEF Contains
  <2>2. Count(r, Request(id)) = 0 /\ Count(toServer, Request(id)) \in Nat
    BY <2>1, CountOne, CountType
  <2>3. Count(toServer', Request(id)) = Count(toServer, Request(id)) + Count(r, Request(id))
    BY CountConcat
  <2>4. InOrder(r, Request(id), Dispose(id)) /\ AtMostOnce(r, Request(id))
    BY <2>1, NotContained
  <2>5. AtMostOnce(toServer, Request(id)) => AtMostOnce(toServer', Request(id))
    BY <2>1, <2>4, OnceConcat
  <2>6. InOrder(toServer, Request(id), Dispose(id)) => InOrder(toServer', Request(id), Dispose(id))
    BY <2>1, <2>4, OrderConcat
  <2>7. \A e : Contains(toServer', e) <=> (Contains(toServer, e) \/ Contains(r, e))
    BY ContainsConcat
  <2> QED
    BY <2>1, <2>2, <2>3, <2>5, <2>6, <2>7
<1> QED
  BY <1>1, <1>2, <1>3

\* The cancellation token fires: the client forgets the call and tells the server.
LEMMA CancelCallInv ==
    ASSUME IInv, NEW c \in Calls, CancelCall(c)
    PROVE  IInv'
<1> USE DEF IInv
<1>1. /\ call[c] \in {"uninitialized", "sent"} /\ c \in Ids /\ c /= EventId
      /\ call' = [call EXCEPT ![c] = "cancelled"]
      /\ UNCHANGED <<state, handlers, listening, clientDisposed, toClient, serverVars, boundVars,
                     historyVars>>
  BY QueueTypes DEF CancelCall
<1>2. UNCHANGED <<PendingIds, Pending>>
  BY <1>1 DEF serverVars, PendingIds, Pending
<1>3. /\ call \in [Calls -> {"none", "uninitialized", "sent", "unknownChannel", "cancelled"}
                            \cup Results]
      /\ call' \in [Calls -> {"none", "uninitialized", "sent", "unknownChannel", "cancelled"}
                             \cup Results]
  BY <1>1, CallType DEF TypeOK
<1>4. /\ uninitialized' \in Seq(Ids) /\ IsInjective(uninitialized')
      /\ \A e : Contains(uninitialized', e) <=> (Contains(uninitialized, e) /\ e /= c)
      /\ state = "idle" => uninitialized' = <<>>
  <2>1. CASE call[c] = "uninitialized" /\ RemoveUninitialized(c)
    <3>1. PICK i \in DOMAIN uninitialized : uninitialized[i] = c
                                           /\ uninitialized' = RemoveAt(uninitialized, i)
      BY <2>1 DEF RemoveUninitialized
    <3>2. state /= "idle"
      BY <3>1, QueueTypes DEF UninitializedWaits
    <3> QED
      BY <3>1, <3>2, QueueTypes, RemoveAtFacts
  <2>2. CASE call[c] = "sent" /\ UNCHANGED uninitialized
    BY <1>3, <2>2, QueueTypes DEF UninitializedWaits
  <2> QED
    BY <2>1, <2>2 DEF CancelCall
<1>5. PICK r \in Seq(ServerMessage) :
         /\ toServer' = toServer \o r /\ DOMAIN r /= {}
         /\ \A i \in DOMAIN r : r[i] = Dispose(c)
  <2>1. Dispose(c) \in ServerMessage /\ toServer \in Seq(ServerMessage)
    BY <1>1, MessageFacts, QueueTypes
  <2>2. CASE toServer' = Append(toServer, Dispose(c))
    <3>1. toServer' = toServer \o <<Dispose(c)>> /\ <<Dispose(c)>> \in Seq(ServerMessage)
      BY <2>1, <2>2
    <3> DEFINE s == <<Dispose(c)>>
    <3>2. s \in Seq(ServerMessage) /\ DOMAIN s = {1} /\ s[1] = Dispose(c)
      BY <3>1
    <3>3. toServer' = toServer \o s
      BY <3>1
    <3> HIDE DEF s
    <3> QED
      BY <3>2, <3>3
  <2>3. CASE toServer' = toServer \o <<Dispose(c), Dispose(c)>>
    <3> DEFINE s == <<Dispose(c), Dispose(c)>>
    <3>1. s \in Seq(ServerMessage) /\ DOMAIN s = {1, 2} /\ s[1] = Dispose(c) /\ s[2] = Dispose(c)
      BY <2>1
    <3>2. toServer' = toServer \o s
      BY <2>3
    <3> HIDE DEF s
    <3> QED
      BY <3>1, <3>2
  <2> QED
    BY <2>2, <2>3 DEF CancelCall
<1>6. /\ Contains(r, Dispose(c)) /\ DOMAIN r = 1..Len(r)
      /\ \A id : OnItsWay(r, id) => id = c
  BY <1>1, <1>5, MessageFacts DEF Contains, OnItsWay
<1>7. toServer \in Seq(ServerMessage) /\ \A i \in DOMAIN r : \E id \in Ids : r[i] = Dispose(id)
  BY <1>1, <1>5, QueueTypes
<1>8. TypeOK'
  <2>1. toServer' \in Seq(ServerMessage)
    BY <1>5, <1>7
  <2> QED
    BY <1>1, <1>3, <1>4, <2>1 DEF TypeOK, serverVars, boundVars, historyVars, ServerMessage
<1>9. UnsentHasNoTrace'
  <2>1. \A id : OnItsWay(toServer', id) => (OnItsWay(toServer, id) \/ id = c)
    BY <1>5, <1>6, <1>7, ExtendByDisposes
  <2> QED
    BY <1>1, <1>2, <1>3, <2>1 DEF UnsentHasNoTrace, serverVars
<1>10. UninitializedWaits'
  BY <1>1, <1>3, <1>4 DEF UninitializedWaits
<1>11. RequestedOnce'
  <2>1. \A d \in Calls :
           /\ Contains(toServer', Request(d)) <=> Contains(toServer, Request(d))
           /\ AtMostOnce(toServer, Request(d)) => AtMostOnce(toServer', Request(d))
    BY <1>5, <1>7, ExtendByDisposes, QueueTypes
  <2> QED
    BY <1>1, <1>2, <2>1 DEF RequestedOnce, serverVars
<1>12. HandlerIsAwaited'
  <2>1. \A d \in Calls : Contains(toServer, Request(d)) => Contains(toServer', Request(d))
    BY <1>5, <1>7, ExtendByDisposes, QueueTypes
  <2> QED
    BY <1>1, <2>1 DEF HandlerIsAwaited, IsAwaited, serverVars, TypeOK
<1>13. CancelFollows'
  <2>1. \A d \in Calls :
           /\ Contains(toServer', Request(d)) <=> Contains(toServer, Request(d))
           /\ Contains(toServer, Dispose(d)) => Contains(toServer', Dispose(d))
           /\ InOrder(toServer, Request(d), Dispose(d))
                 => InOrder(toServer', Request(d), Dispose(d))
    BY <1>5, <1>7, ExtendByDisposes, QueueTypes
  <2>2. Contains(toServer', Dispose(c))
    BY <1>1, <1>5, <1>6, <1>7, ExtendByDisposes
  <2> QED
    BY <1>1, <1>2, <1>3, <2>1, <2>2 DEF CancelFollows, serverVars, historyVars
<1>14. SubscriptionsCounted'
  <2>1. Count(toServer', Request(EventId)) = Count(toServer, Request(EventId))
    BY <1>5, <1>7, ExtendByDisposes, QueueTypes
  <2>2. Count(uninitialized', EventId) = Count(uninitialized, EventId)
    BY <1>1, <1>4, QueueTypes, CountInjective
  <2> QED
    BY <1>1, <1>2, <2>1, <2>2 DEF SubscriptionsCounted, serverVars, boundVars
<1>15. EventsTakeTurns'
  <2>1. Asked' = Asked /\ Asked \in BOOLEAN
    BY <1>1, <1>4 DEF Asked
  <2>2. TakeTurns(r, Asked, Asked)
    BY <1>1, <1>6, <2>1, TurnsNone
  <2> QED
    BY <1>1, <1>5, <1>7, <2>1, <2>2, ExtendTurns DEF serverVars, historyVars
<1> QED
  BY <1>1, <1>8, <1>9, <1>10, <1>11, <1>12, <1>13, <1>14, <1>15, Frame
     DEF serverVars, boundVars, historyVars

\* onWillAddFirstListener: the subscription is sent or waits for initialization.
LEMMA AddFirstListenerInv ==
    ASSUME IInv, AddFirstListener
    PROVE  IInv'
<1> USE DEF IInv
<1>1. /\ listens < MaxListens /\ ~listening /\ listens' = listens + 1 /\ listening' = TRUE
      /\ UNCHANGED <<state, call, handlers, clientDisposed, toClient, serverVars, fires,
                     registrations, historyVars>>
      /\ EventId \in Ids /\ EventId \notin Calls
  BY QueueTypes DEF AddFirstListener
<1>2. UNCHANGED <<PendingIds, Pending>>
  BY <1>1 DEF serverVars, PendingIds, Pending
<1>3. ~Contains(uninitialized, EventId) /\ ~Asked
  BY <1>1 DEF UninitializedWaits, Asked
<1>4. listens \in Nat /\ listens' \in 0..MaxListens
  BY <1>1, BoundsAssumption DEF TypeOK
<1>0. /\ subscriptions \in Nat
      /\ Count(Pending, EventId) \in Nat /\ Count(toServer, Request(EventId)) \in Nat
      /\ Count(uninitialized, EventId) \in Nat
  BY CountTypes
<1>5. CASE state = "idle" /\ toServer' = Append(toServer, Request(EventId)) /\ UNCHANGED uninitialized
  <2>0. /\ toServer \in Seq(ServerMessage) /\ Request(EventId) \in ServerMessage
        /\ Request(EventId).id = EventId
        /\ \A d \in Calls : Request(EventId) /= Request(d) /\ Request(EventId) /= Dispose(d)
    BY <1>1, QueueTypes, MessageFacts
  <2>1. TypeOK'
    <3>2. toServer' \in Seq(ServerMessage)
      BY <2>0, <1>5
    <3> QED
      BY <1>1, <1>4, <1>5, <3>2 DEF TypeOK, serverVars, historyVars, ServerMessage
  <2>2. \A d : OnItsWay(toServer', d) <=> (OnItsWay(toServer, d) \/ d = EventId)
    BY <1>5, <2>0, OnItsWayAppend
  <2>3. \A e : Contains(toServer', e) <=> (Contains(toServer, e) \/ e = Request(EventId))
    BY <1>5, <2>0, ContainsAppend
  <2>4. UnsentHasNoTrace'
    BY <1>1, <1>2, <2>2 DEF UnsentHasNoTrace, serverVars
  <2>5. UninitializedWaits'
    BY <1>1, <1>5 DEF UninitializedWaits
  <2>6. /\ toServer' = toServer \o <<Request(EventId)>>
        /\ <<Request(EventId)>> \in Seq(ServerMessage)
        /\ \A e : Contains(<<Request(EventId)>>, e) <=> e = Request(EventId)
    BY <1>5, <2>0 DEF Contains
  <2>7. \A d \in Calls : /\ AtMostOnce(toServer', Request(d))
                         /\ InOrder(toServer', Request(d), Dispose(d))
    <3> SUFFICES ASSUME NEW d \in Calls
                 PROVE  /\ AtMostOnce(toServer', Request(d))
                        /\ InOrder(toServer', Request(d), Dispose(d))
      OBVIOUS
    <3>1. ~Contains(<<Request(EventId)>>, Request(d))
      BY <2>0, <2>6
    <3>2. /\ AtMostOnce(<<Request(EventId)>>, Request(d))
          /\ InOrder(<<Request(EventId)>>, Request(d), Dispose(d))
      BY <2>6, <3>1, NotContained
    <3>3. AtMostOnce(toServer, Request(d)) /\ InOrder(toServer, Request(d), Dispose(d))
      BY DEF RequestedOnce, CancelFollows
    <3> QED
      BY <2>0, <2>6, <3>1, <3>2, <3>3, OnceConcat, OrderConcat
  <2>8. RequestedOnce'
    BY <1>1, <1>2, <2>0, <2>3, <2>7 DEF RequestedOnce, serverVars
  <2>9. HandlerIsAwaited'
    BY <1>1, <2>3 DEF HandlerIsAwaited, IsAwaited, serverVars
  <2>10. CancelFollows'
    BY <1>1, <1>2, <2>0, <2>3, <2>7 DEF CancelFollows, serverVars, historyVars
  <2>11. SubscriptionsCounted'
    <3>1. Count(toServer', Request(EventId)) = Count(toServer, Request(EventId)) + 1
      BY <1>5, <2>0, CountAppend
    <3> QED
      BY <1>0, <1>1, <1>2, <1>4, <1>5, <3>1 DEF SubscriptionsCounted, serverVars
  <2>12. EventsTakeTurns'
    <3>1. Asked' = TRUE /\ Asked = FALSE
      BY <1>1, <1>3, <1>5 DEF Asked
    <3>2. TakeTurns(<<Request(EventId)>>, FALSE, TRUE)
      BY TurnsSingle
    <3> QED
      BY <1>1, <2>0, <2>6, <3>1, <3>2, ExtendTurns DEF serverVars, historyVars
  <2> QED
    BY <1>1, <1>5, <2>1, <2>4, <2>5, <2>8, <2>9, <2>10, <2>11, <2>12, Frame
       DEF serverVars, historyVars
<1>6. CASE state /= "idle" /\ uninitialized' = Append(uninitialized, EventId) /\ UNCHANGED toServer
  <2>0. uninitialized \in Seq(Ids) /\ IsInjective(uninitialized)
    BY QueueTypes
  <2>1. \A e : Contains(uninitialized', e) <=> (Contains(uninitialized, e) \/ e = EventId)
    BY <1>1, <1>6, <2>0, ContainsAppend
  <2>2. uninitialized' \in Seq(Ids) /\ IsInjective(uninitialized')
    BY <1>1, <1>3, <1>6, <2>0 DEF IsInjective, Contains
  <2>3. TypeOK'
    BY <1>1, <1>4, <1>6, <2>2 DEF TypeOK, serverVars, historyVars
  <2>4. UninitializedWaits'
    BY <1>1, <1>6, <2>1 DEF UninitializedWaits
  <2>5. SubscriptionsCounted'
    <3>1. Count(uninitialized', EventId) = Count(uninitialized, EventId) + 1
      BY <1>1, <1>6, <2>0, CountAppend
    <3> QED
      BY <1>0, <1>1, <1>2, <1>4, <1>6, <3>1 DEF SubscriptionsCounted, serverVars
  <2>6. EventsTakeTurns'
    <3>1. Asked' = Asked
      BY <1>3, <2>1 DEF Asked
    <3>2. Heard' = Heard
      BY <1>1, <1>2 DEF Heard, serverVars
    <3> QED
      BY <1>1, <1>2, <1>6, <3>1, <3>2 DEF EventsTakeTurns, serverVars, historyVars
  <2> QED
    BY <1>1, <1>6, <2>3, <2>4, <2>5, <2>6, Frame DEF serverVars, historyVars
<1> QED
  BY <1>5, <1>6 DEF AddFirstListener

\* onDidRemoveLastListener: the subscription is withdrawn or disposed of.
LEMMA RemoveLastListenerInv ==
    ASSUME IInv, RemoveLastListener
    PROVE  IInv'
<1> USE DEF IInv
<1>1. /\ listening /\ ~listening' /\ listening' = FALSE
      /\ UNCHANGED <<state, call, handlers, clientDisposed, toClient, serverVars, boundVars,
                     historyVars>>
      /\ EventId \in Ids /\ EventId \notin Calls
  BY QueueTypes DEF RemoveLastListener
<1>2. UNCHANGED <<PendingIds, Pending>>
  BY <1>1 DEF serverVars, PendingIds, Pending
<1>3. CASE Contains(uninitialized, EventId) /\ RemoveUninitialized(EventId) /\ UNCHANGED toServer
  <2>1. PICK i \in DOMAIN uninitialized : uninitialized[i] = EventId
                                         /\ uninitialized' = RemoveAt(uninitialized, i)
    BY <1>3 DEF RemoveUninitialized
  <2>2. /\ uninitialized' \in Seq(Ids) /\ IsInjective(uninitialized')
        /\ \A e : Contains(uninitialized', e) <=> (Contains(uninitialized, e) /\ e /= EventId)
    BY <2>1, QueueTypes, RemoveAtFacts
  <2>3. state /= "idle"
    BY <2>1, QueueTypes DEF UninitializedWaits
  <2>4. TypeOK'
    BY <1>1, <1>3, <2>2 DEF TypeOK, serverVars, boundVars, historyVars
  <2>5. UninitializedWaits'
    BY <1>1, <2>2, <2>3 DEF UninitializedWaits
  <2>6. SubscriptionsCounted'
    <3>1. Count(uninitialized', EventId) = 0 /\ Count(uninitialized, EventId) = 1
      BY <1>3, <2>2, QueueTypes, CountInjective
    <3>2. listens \in Nat
      BY DEF TypeOK
    <3> QED
      BY <1>1, <1>2, <1>3, <3>1, <3>2, CountTypes DEF SubscriptionsCounted, serverVars, boundVars
  <2>7. EventsTakeTurns'
    <3>1. Asked' = Asked
      BY <1>1, <1>3 DEF Asked
    <3>2. Heard' = Heard
      BY <1>1, <1>2 DEF Heard, serverVars
    <3> QED
      BY <1>1, <1>2, <1>3, <3>1, <3>2 DEF EventsTakeTurns, serverVars, historyVars
  <2> QED
    BY <1>1, <1>3, <2>4, <2>5, <2>6, <2>7, Frame DEF serverVars, boundVars, historyVars
<1>4. CASE /\ ~Contains(uninitialized, EventId) /\ toServer' = Append(toServer, Dispose(EventId))
           /\ UNCHANGED uninitialized
  <2> DEFINE r == <<Dispose(EventId)>>
  <2>1. /\ r \in Seq(ServerMessage) /\ DOMAIN r = {1} /\ r[1] = Dispose(EventId)
        /\ toServer' = toServer \o r /\ toServer \in Seq(ServerMessage)
    BY <1>1, <1>4, MessageFacts, QueueTypes
  <2>2. TakeTurns(r, TRUE, FALSE)
    BY TurnsSingle
  <2> HIDE DEF r
  <2>3. (\A i \in DOMAIN r : \E id \in Ids : r[i] = Dispose(id))
        /\ \A id : OnItsWay(r, id) => id = EventId
    BY <1>1, <2>1, MessageFacts DEF OnItsWay
  <2>4. /\ toServer' \in Seq(ServerMessage)
        /\ \A id : OnItsWay(toServer', id) => (OnItsWay(toServer, id) \/ id = EventId)
        /\ \A d \in Calls :
              /\ Contains(toServer', Request(d)) <=> Contains(toServer, Request(d))
              /\ Contains(toServer, Dispose(d)) => Contains(toServer', Dispose(d))
              /\ AtMostOnce(toServer, Request(d)) => AtMostOnce(toServer', Request(d))
              /\ InOrder(toServer, Request(d), Dispose(d))
                    => InOrder(toServer', Request(d), Dispose(d))
        /\ Count(toServer', Request(EventId)) = Count(toServer, Request(EventId))
    BY <2>1, <2>3, ExtendByDisposes, QueueTypes
  <2>5. TypeOK'
    BY <1>1, <1>4, <2>4 DEF TypeOK, serverVars, boundVars, historyVars, ServerMessage
  <2>6. UnsentHasNoTrace'
    BY <1>1, <1>2, <2>4 DEF UnsentHasNoTrace, serverVars
  <2>7. UninitializedWaits'
    BY <1>1, <1>4 DEF UninitializedWaits
  <2>8. RequestedOnce'
    BY <1>1, <1>2, <2>4 DEF RequestedOnce, serverVars
  <2>9. HandlerIsAwaited'
    BY <1>1, <2>4 DEF HandlerIsAwaited, IsAwaited, serverVars, TypeOK
  <2>10. CancelFollows'
    BY <1>1, <1>2, <2>4 DEF CancelFollows, serverVars, historyVars
  <2>11. SubscriptionsCounted'
    BY <1>1, <1>2, <1>4, <2>4 DEF SubscriptionsCounted, serverVars, boundVars
  <2>12. EventsTakeTurns'
    <3>1. Asked = TRUE /\ Asked' = FALSE
      BY <1>1, <1>4 DEF Asked, TypeOK
    <3> QED
      BY <1>1, <2>1, <2>2, <3>1, ExtendTurns DEF serverVars, historyVars
  <2> QED
    BY <1>1, <2>5, <2>6, <2>7, <2>8, <2>9, <2>10, <2>11, <2>12, Frame
       DEF serverVars, boundVars, historyVars
<1> QED
  BY <1>3, <1>4 DEF RemoveLastListener

\* Initialize: the requests that waited, as messages
LEMMA RequestsOf ==
    ASSUME NEW q \in Seq(Ids), IsInjective(q), NEW r, r = [i \in DOMAIN q |-> Request(q[i])]
    PROVE  /\ r \in Seq(ServerMessage)
           /\ \A id : OnItsWay(r, id) <=> Contains(q, id)
           /\ \A id \in Ids : /\ Contains(r, Request(id)) <=> Contains(q, id)
                              /\ ~Contains(r, Dispose(id))
                              /\ AtMostOnce(r, Request(id))
                              /\ Count(r, Request(id)) = Count(q, id)
<1>1. /\ DOMAIN q = 1..Len(q) /\ Len(q) \in Nat
      /\ \A i \in 1..Len(q) : q[i] \in Ids
  OBVIOUS
<1>2. /\ DOMAIN r = 1..Len(q) /\ r \in Seq(ServerMessage) /\ Len(r) = Len(q)
      /\ \A i \in 1..Len(q) : r[i] = Request(q[i])
  <2>1. \A i \in 1..Len(q) : Request(q[i]) \in ServerMessage
    BY <1>1, MessageFacts
  <2> QED
    BY <1>1, <2>1
<1>3. \A id : OnItsWay(r, id) <=> Contains(q, id)
  BY <1>1, <1>2, MessageFacts DEF OnItsWay, Contains
<1>4. ASSUME NEW id \in Ids
      PROVE  /\ Contains(r, Request(id)) <=> Contains(q, id)
             /\ ~Contains(r, Dispose(id))
             /\ AtMostOnce(r, Request(id))
  BY <1>1, <1>2, MessageFacts DEF Contains, AtMostOnce, IsInjective
<1>5. ASSUME NEW id \in Ids
      PROVE  Count(r, Request(id)) = Count(q, id)
  <2>1. Count(q, id) = IF Contains(q, id) THEN 1 ELSE 0
    BY CountInjective
  <2>2. Count(r, Request(id)) = IF Contains(r, Request(id)) THEN 1 ELSE 0
    BY <1>2, <1>4, CountOne, ZenonT(30) DEF AtMostOnce
  <2> QED
    BY <1>4, <2>1, <2>2
<1> QED
  BY <1>2, <1>3, <1>4, <1>5

EventFire == Response("EventFire", EventId, "none")

\* The client takes the first response.
LEMMA ResponseTaken ==
    ASSUME IInv, toClient /= <<>>, toClient' = Tail(toClient)
    PROVE  /\ toClient' \in Seq(ClientMessage) /\ Head(toClient) \in ClientMessage
           /\ \A c : OnItsWay(toClient', c) => OnItsWay(toClient, c)
           /\ \A c : OnItsWay(toClient, c) => OnItsWay(toClient', c) \/ Head(toClient).id = c
           /\ Count(toClient, EventFire)
                 = Count(toClient', EventFire) + IF Head(toClient) = EventFire THEN 1 ELSE 0
           /\ IF Head(toClient).type \in {"PromiseSuccess", "PromiseError"}
              THEN /\ Head(toClient).id \in Calls
                   /\ \/ Head(toClient).data = "unknownChannel"
                      \/ /\ Head(toClient).data \in Results
                         /\ Head(toClient).data = execution[Head(toClient).id]
              ELSE Head(toClient).id = EventId /\ Head(toClient).data = "none"
           /\ UNCHANGED execution => AnswersAreTrue'
<1>1. toClient \in Seq(ClientMessage)
  BY QueueTypes DEF IInv
<1>2. /\ 1 \in DOMAIN toClient /\ Head(toClient) = toClient[1]
      /\ Tail(toClient) \in Seq(ClientMessage) /\ Head(toClient) \in ClientMessage
      /\ \A i \in DOMAIN Tail(toClient) : i + 1 \in DOMAIN toClient
                                          /\ Tail(toClient)[i] = toClient[i + 1]
  BY <1>1
<1>3. AnswersAreTrue
  BY DEF IInv
<1>4. UNCHANGED execution => AnswersAreTrue'
  BY <1>2, <1>3 DEF AnswersAreTrue
<1>5. Count(toClient, EventFire)
         = Count(Tail(toClient), EventFire) + IF Head(toClient) = EventFire THEN 1 ELSE 0
  BY <1>1, CountTail
<1>6. \A c : OnItsWay(toClient, c) <=> (Head(toClient).id = c \/ OnItsWay(Tail(toClient), c))
  BY <1>1, OnItsWayTail
<1>7. IF Head(toClient).type \in {"PromiseSuccess", "PromiseError"}
      THEN /\ Head(toClient).id \in Calls
           /\ \/ Head(toClient).data = "unknownChannel"
              \/ /\ Head(toClient).data \in Results
                 /\ Head(toClient).data = execution[Head(toClient).id]
      ELSE Head(toClient).id = EventId /\ Head(toClient).data = "none"
  BY <1>2, <1>3 DEF AnswersAreTrue
<1> QED
  BY <1>2, <1>4, <1>5, <1>6, <1>7

\* nothing is heard, or an event is
LEMMA HeardTaken ==
    ASSUME IInv, toClient /= <<>>, toClient' = Tail(toClient), UNCHANGED <<fires, missed>>,
           heard' = heard \/ (heard' = heard + 1 /\ Head(toClient) = EventFire)
    PROVE  HeardAsSent' /\ heard' \in Nat
<1>1. heard \in Nat /\ fires \in Nat
  BY BoundsAssumption DEF IInv, TypeOK
<1>2. /\ Count(toClient', EventFire) \in Nat
      /\ Count(toClient, EventFire)
            = Count(toClient', EventFire) + IF Head(toClient) = EventFire THEN 1 ELSE 0
  BY ResponseTaken, CountType
<1>3. EventId \notin missed => heard + Count(toClient, EventFire) <= fires
  BY DEF IInv, HeardAsSent, EventFire
<1>4. (EventId \notin missed => heard + Count(toClient, EventFire) <= fires)'
  BY <1>1, <1>2, <1>3
<1> QED
  BY <1>1, <1>4 DEF HeardAsSent, EventFire

\* The Initialize message sends what was waiting for it.
LEMMA OnInitializeInv ==
    ASSUME IInv, toClient /= <<>>, toClient' = Tail(toClient), ~clientDisposed,
           Head(toClient).type = "Initialize", OnInitialize,
           UNCHANGED <<listening, clientDisposed, serverVars, boundVars, historyVars>>
    PROVE  IInv'
<1> USE DEF IInv
<1> DEFINE r == [i \in DOMAIN uninitialized |-> Request(uninitialized[i])]
<1>1. /\ r \in Seq(ServerMessage) /\ toServer \in Seq(ServerMessage) /\ toServer' = toServer \o r
      /\ \A id : OnItsWay(r, id) <=> Contains(uninitialized, id)
      /\ \A id \in Ids : /\ Contains(r, Request(id)) <=> Contains(uninitialized, id)
                         /\ ~Contains(r, Dispose(id))
                         /\ AtMostOnce(r, Request(id))
                         /\ Count(r, Request(id)) = Count(uninitialized, id)
  BY QueueTypes, RequestsOf DEF OnInitialize
<1> HIDE DEF r
<1>2. UNCHANGED <<PendingIds, Pending>>
  BY DEF serverVars, PendingIds, Pending
<1>3. /\ \A id : OnItsWay(toServer', id) <=> (OnItsWay(toServer, id) \/ Contains(uninitialized, id))
      /\ \A id \in Ids :
            /\ Contains(toServer', Request(id))
                  <=> (Contains(toServer, Request(id)) \/ Contains(uninitialized, id))
            /\ Contains(toServer', Dispose(id)) <=> Contains(toServer, Dispose(id))
  <2>1. \A id : OnItsWay(toServer', id) <=> (OnItsWay(toServer, id) \/ OnItsWay(r, id))
    BY <1>1, OnItsWayConcat
  <2>2. \A e : Contains(toServer', e) <=> (Contains(toServer, e) \/ Contains(r, e))
    BY <1>1, ContainsConcat
  <2> QED
    BY <1>1, <2>1, <2>2
<1>4. /\ state' = "idle" /\ uninitialized' = <<>> /\ \A id : ~Contains(<<>>, id)
      /\ call' = [c \in Calls |-> IF Contains(uninitialized, c) THEN "sent" ELSE call[c]]
      /\ handlers' = handlers \cup (ToSet(uninitialized) \cap Calls)
      /\ \A c \in Calls : c \in handlers' <=> (c \in handlers \/ Contains(uninitialized, c))
  BY QueueTypes DEF OnInitialize, ToSet, Contains
<1>5. \A c \in Calls : Contains(uninitialized, c) =>
         /\ ~OnItsWay(toServer, c) /\ ~OnItsWay(toClient, c) /\ c \notin PendingIds
         /\ execution[c] = "none" /\ c \notin handlers /\ call[c] = "uninitialized"
         /\ ~Contains(toServer, Request(c)) /\ ~Contains(toServer, Dispose(c))
  BY QueueTypes, ContainsOnItsWay DEF UnsentHasNoTrace, UninitializedWaits
<1>6. Calls \subseteq Ids /\ EventId \in Ids /\ EventId \notin Calls
  BY QueueTypes
<1>7. TypeOK'
  <2>1. call' \in [Calls -> {"none", "uninitialized", "sent", "unknownChannel", "cancelled"}
                            \cup Results]
    BY <1>4 DEF TypeOK
  <2>2. toServer' \in Seq(ServerMessage) /\ toClient' \in Seq(ClientMessage)
    BY <1>1, ResponseTaken
  <2>3. uninitialized' \in Seq(Ids) /\ IsInjective(uninitialized')
    BY <1>4 DEF IsInjective
  <2> QED
    BY <1>4, <2>1, <2>2, <2>3
       DEF TypeOK, serverVars, boundVars, historyVars, ServerMessage, ClientMessage
<1>8. UnsentHasNoTrace'
  <2>1. \A c \in Calls : call'[c] \in {"none", "uninitialized"} =>
           call[c] \in {"none", "uninitialized"} /\ ~Contains(uninitialized, c)
    BY <1>4
  <2>2. \A c : OnItsWay(toClient', c) => OnItsWay(toClient, c)
    BY ResponseTaken
  <2> QED
    BY <1>2, <1>3, <1>4, <2>1, <2>2 DEF UnsentHasNoTrace, serverVars
<1>9. UninitializedWaits'
  BY <1>4 DEF UninitializedWaits
<1>10. \A c \in Calls : /\ AtMostOnce(toServer', Request(c))
                        /\ InOrder(toServer', Request(c), Dispose(c))
  <2> SUFFICES ASSUME NEW c \in Calls
               PROVE  /\ AtMostOnce(toServer', Request(c))
                      /\ InOrder(toServer', Request(c), Dispose(c))
    OBVIOUS
  <2>1. /\ AtMostOnce(toServer, Request(c)) /\ AtMostOnce(r, Request(c))
        /\ InOrder(toServer, Request(c), Dispose(c))
    BY <1>1, <1>6 DEF RequestedOnce, CancelFollows
  <2>2. InOrder(r, Request(c), Dispose(c))
    BY <1>1, <1>6, NotContained
  <2>3. /\ ~(Contains(toServer, Request(c)) /\ Contains(r, Request(c)))
        /\ ~(Contains(toServer, Dispose(c)) /\ Contains(r, Request(c)))
    BY <1>1, <1>5, <1>6
  <2> QED
    BY <1>1, <2>1, <2>2, <2>3, OnceConcat, OrderConcat
<1>11. RequestedOnce'
  BY <1>2, <1>3, <1>5, <1>6, <1>10 DEF RequestedOnce, serverVars
<1>12. AnswersAreTrue'
  BY ResponseTaken DEF serverVars
<1>13. HandlerIsAwaited'
  <2> SUFFICES ASSUME NEW c \in handlers' PROVE IsAwaited(c)'
    BY DEF HandlerIsAwaited
  <2>1. c \in Calls
    BY <1>7 DEF TypeOK
  <2>2. CASE Contains(uninitialized, c)
    BY <1>3, <1>6, <2>1, <2>2 DEF IsAwaited
  <2>3. CASE c \in handlers
    <3>1. IsAwaited(c)
      BY <2>3 DEF HandlerIsAwaited
    <3>2. OnItsWay(toClient, c) => OnItsWay(toClient', c)
      BY <1>6, <2>1, ResponseTaken
    <3> QED
      BY <1>3, <1>6, <2>1, <3>1, <3>2 DEF IsAwaited, serverVars
  <2> QED
    BY <1>4, <2>1, <2>2, <2>3
<1>14. CancelFollows'
  <2>1. \A c \in Calls : call'[c] = "cancelled" =>
           call[c] = "cancelled" /\ ~Contains(uninitialized, c)
    BY <1>4
  <2> QED
    BY <1>2, <1>3, <1>6, <1>10, <2>1 DEF CancelFollows, serverVars, historyVars
<1>15. SubscriptionsCounted'
  <2>1. Count(toServer', Request(EventId))
           = Count(toServer, Request(EventId)) + Count(uninitialized, EventId)
    BY <1>1, <1>6, CountConcat
  <2>2. Count(uninitialized', EventId) = 0
    BY <1>4, CountEmpty
  <2>3. listens \in Nat
    BY DEF TypeOK
  <2> QED
    BY <1>2, <2>1, <2>2, <2>3, CountTypes DEF SubscriptionsCounted, serverVars, boundVars
<1>16. EventsTakeTurns'
  <2>1. TakeTurns(r, Asked, Asked')
    <3>1. CASE Contains(uninitialized, EventId)
      <4>1. Asked = FALSE /\ Asked' = TRUE
        BY <1>4, <3>1 DEF Asked, UninitializedWaits, TypeOK
      <4>2. PICK k \in DOMAIN r : r[k] = Request(EventId)
        <5>1. Contains(r, Request(EventId)) /\ DOMAIN r = 1..Len(r)
          BY <1>1, <1>6, <3>1
        <5> QED
          BY <5>1 DEF Contains
      <4>3. r[k].id = EventId
        BY <1>6, <4>2, MessageFacts
      <4>4. \A i \in DOMAIN r : r[i].id = EventId => i = k
        <5> SUFFICES ASSUME NEW i \in DOMAIN r, r[i].id = EventId PROVE i = k
          OBVIOUS
        <5>1. r[i] = Request(EventId)
          <6>1. i \in DOMAIN uninitialized /\ r[i] = Request(uninitialized[i])
                /\ uninitialized[i] \in Ids
            BY QueueTypes DEF r
          <6> QED
            BY <6>1, MessageFacts
        <5> QED
          BY <1>1, <1>6, <4>2, <5>1 DEF AtMostOnce
      <4>5. TakeTurns(r, ~TRUE, TRUE)
        BY <1>1, <4>2, <4>3, <4>4, TurnsOne
      <4>6. (~TRUE) = FALSE
        OBVIOUS
      <4> QED
        BY <4>1, <4>5, <4>6
    <3>2. CASE ~Contains(uninitialized, EventId)
      <4>1. Asked' = Asked /\ Asked \in BOOLEAN
        BY <1>4, <3>2 DEF Asked
      <4> QED
        BY <1>1, <3>2, <4>1, TurnsNone
    <3> QED
      BY <3>1, <3>2
  <2> QED
    BY <1>1, <2>1, ExtendTurns DEF serverVars, historyVars
<1>17. HeardAsSent'
  BY HeardTaken DEF boundVars, historyVars
<1> QED
  BY <1>7, <1>8, <1>9, <1>11, <1>12, <1>13, <1>14, <1>15, <1>16, <1>17

\* A response settles the promise that is still waiting for it.
LEMMA PromiseResponseInv ==
    ASSUME IInv, toClient /= <<>>, toClient' = Tail(toClient), ~clientDisposed,
           Head(toClient).type \in {"PromiseSuccess", "PromiseError"},
           OnPromiseResponse(Head(toClient)),
           UNCHANGED <<listening, clientDisposed, serverVars, boundVars, historyVars>>
    PROVE  IInv'
<1> USE DEF IInv
<1> DEFINE c == Head(toClient).id
           data == Head(toClient).data
<1>1. /\ c \in Calls /\ c \in Ids /\ c /= EventId
      /\ data \in {"unknownChannel"} \cup Results /\ data /= "cancelled"
      /\ call[c] \notin {"none", "uninitialized"}
  <2>1. c \in Calls /\ data \in {"unknownChannel"} \cup Results
    BY ResponseTaken
  <2>2. OnItsWay(toClient, c)
    BY QueueTypes, OnItsWayTail
  <2> QED
    BY <2>1, <2>2, QueueTypes DEF UnsentHasNoTrace, Results
<1>2. UNCHANGED <<PendingIds, Pending>>
  BY DEF serverVars, PendingIds, Pending
<1>3. /\ toClient' \in Seq(ClientMessage)
      /\ \A d : OnItsWay(toClient', d) => OnItsWay(toClient, d)
      /\ \A d : OnItsWay(toClient, d) => OnItsWay(toClient', d) \/ d = c
      /\ AnswersAreTrue'
  BY ResponseTaken DEF serverVars
<1>4. handlers' = handlers \ {c} /\ UNCHANGED <<state, uninitialized>>
  BY DEF OnPromiseResponse
<1>5. HeardAsSent'
  BY HeardTaken DEF boundVars, historyVars
<1>6. ASSUME NEW r \in Seq(ServerMessage), toServer' = toServer \o r,
             \A i \in DOMAIN r : r[i] = Dispose(c),
             call' = call \/ call' = [call EXCEPT ![c] = data]
      PROVE  IInv'
  <2> HIDE DEF c, data
  <2>1. /\ DOMAIN r = 1..Len(r) /\ \A id : OnItsWay(r, id) => id = c
        /\ \A i \in DOMAIN r : \E id \in Ids : r[i] = Dispose(id)
        /\ toServer \in Seq(ServerMessage)
    BY <1>1, <1>6, MessageFacts, QueueTypes DEF OnItsWay
  <2>2. /\ toServer' \in Seq(ServerMessage)
        /\ \A id : OnItsWay(toServer', id) => (OnItsWay(toServer, id) \/ id = c)
        /\ \A d \in Calls :
              /\ Contains(toServer', Request(d)) <=> Contains(toServer, Request(d))
              /\ Contains(toServer, Dispose(d)) => Contains(toServer', Dispose(d))
              /\ AtMostOnce(toServer, Request(d)) => AtMostOnce(toServer', Request(d))
              /\ InOrder(toServer, Request(d), Dispose(d))
                    => InOrder(toServer', Request(d), Dispose(d))
        /\ Count(toServer', Request(EventId)) = Count(toServer, Request(EventId))
    BY <1>6, <2>1, ExtendByDisposes, QueueTypes
  <2>3. call' \in [Calls -> {"none", "uninitialized", "sent", "unknownChannel", "cancelled"}
                            \cup Results]
    BY <1>1, <1>6, CallType DEF TypeOK
  <2>4. \A d \in Calls : /\ d /= c => call'[d] = call[d]
                         /\ call'[c] \notin {"none", "uninitialized"}
                         /\ call'[d] = "cancelled" => call[d] = "cancelled"
    BY <1>1, <1>6 DEF TypeOK, Results
  <2>5. TypeOK'
    BY <1>3, <1>4, <2>2, <2>3
       DEF TypeOK, serverVars, boundVars, historyVars, ServerMessage, ClientMessage
  <2>6. UnsentHasNoTrace'
    BY <1>2, <1>3, <1>4, <2>2, <2>4 DEF UnsentHasNoTrace, serverVars
  <2>7. UninitializedWaits'
    BY <1>1, <1>4, <2>4 DEF UninitializedWaits
  <2>8. RequestedOnce'
    BY <1>2, <2>2 DEF RequestedOnce, serverVars
  <2>9. HandlerIsAwaited'
    <3> SUFFICES ASSUME NEW d \in handlers' PROVE IsAwaited(d)'
      BY DEF HandlerIsAwaited
    <3>1. d \in handlers /\ d /= c /\ d \in Calls
      BY <1>4 DEF TypeOK
    <3>2. IsAwaited(d)
      BY <3>1 DEF HandlerIsAwaited
    <3> QED
      BY <1>3, <2>2, <3>1, <3>2 DEF IsAwaited, serverVars
  <2>10. CancelFollows'
    BY <1>2, <2>2, <2>4 DEF CancelFollows, serverVars, historyVars
  <2>11. SubscriptionsCounted'
    BY <1>2, <1>4, <2>2 DEF SubscriptionsCounted, serverVars, boundVars
  <2>12. EventsTakeTurns'
    <3>1. Asked' = Asked /\ Asked \in BOOLEAN
      BY <1>4 DEF Asked
    <3>2. TakeTurns(r, Asked, Asked)
      BY <1>1, <2>1, <3>1, TurnsNone
    <3> QED
      BY <1>6, <2>1, <3>1, <3>2, ExtendTurns DEF serverVars, historyVars
  <2> QED
    BY <1>3, <1>5, <2>5, <2>6, <2>7, <2>8, <2>9, <2>10, <2>11, <2>12
<1>7. CASE c \in handlers /\ ~Settled(c)
  <2> DEFINE r == <<Dispose(c)>>
  <2>1. /\ toServer' = Append(toServer, Dispose(c)) /\ call' = [call EXCEPT ![c] = data]
        /\ Dispose(c) \in ServerMessage /\ toServer \in Seq(ServerMessage)
    BY <1>1, <1>7, QueueTypes, MessageFacts DEF OnPromiseResponse
  <2>2. /\ r \in Seq(ServerMessage) /\ DOMAIN r = {1} /\ r[1] = Dispose(c)
        /\ toServer' = toServer \o r
    <3> HIDE DEF c
    <3> QED
      BY <2>1
  <2> HIDE DEF r
  <2> QED
    BY <1>6, <2>1, <2>2
<1>8. CASE ~(c \in handlers /\ ~Settled(c))
  <2> DEFINE r == <<>>
  <2>1. UNCHANGED <<call, toServer>> /\ toServer \in Seq(ServerMessage)
    BY <1>8, QueueTypes DEF OnPromiseResponse
  <2>2. r \in Seq(ServerMessage) /\ DOMAIN r = {} /\ toServer' = toServer \o r
    BY <2>1
  <2> HIDE DEF r
  <2> QED
    BY <1>6, <2>1, <2>2
<1> QED
  BY <1>7, <1>8

\* Every message from the server keeps the invariant.
LEMMA OnResponseInv ==
    ASSUME IInv, OnResponse
    PROVE  IInv'
<1> USE DEF IInv
<1>1. /\ toClient /= <<>> /\ toClient' = Tail(toClient)
      /\ UNCHANGED <<listening, clientDisposed, serverVars, boundVars, missed>>
  BY DEF OnResponse
<1>2. CASE ~clientDisposed /\ Head(toClient).type = "Initialize" /\ OnInitialize /\ UNCHANGED heard
  BY <1>1, <1>2, OnInitializeInv DEF historyVars
<1>3. CASE /\ ~clientDisposed /\ Head(toClient).type \in {"PromiseSuccess", "PromiseError"}
           /\ OnPromiseResponse(Head(toClient)) /\ UNCHANGED heard
  BY <1>1, <1>3, PromiseResponseInv DEF historyVars
<1>4. ASSUME UNCHANGED <<state, call, handlers, uninitialized, toServer>>,
             heard' = heard \/ (heard' = heard + 1 /\ Head(toClient) = EventFire),
             \A d \in Calls : clientDisposed \/ Head(toClient).id /= d
      PROVE  IInv'
  <2>1. /\ toClient' \in Seq(ClientMessage)
        /\ \A d : OnItsWay(toClient', d) => OnItsWay(toClient, d)
        /\ \A d \in Calls : OnItsWay(toClient, d) => OnItsWay(toClient', d) \/ clientDisposed
        /\ AnswersAreTrue'
    BY <1>1, <1>4, ResponseTaken DEF serverVars
  <2>2. HeardAsSent' /\ heard' \in Nat
    BY <1>1, <1>4, HeardTaken DEF boundVars
  <2>3. TypeOK'
    BY <1>1, <1>4, <2>1, <2>2 DEF TypeOK, serverVars, boundVars, ClientMessage
  <2>4. UNCHANGED PendingIds
    BY <1>1 DEF serverVars, PendingIds, Pending
  <2>5. UnsentHasNoTrace'
    BY <1>1, <1>4, <2>1, <2>4 DEF UnsentHasNoTrace, serverVars
  <2>6. HandlerIsAwaited'
    <3> SUFFICES ASSUME NEW d \in handlers' PROVE IsAwaited(d)'
      BY DEF HandlerIsAwaited
    <3>1. d \in handlers /\ d \in Calls /\ IsAwaited(d)
      BY <1>4 DEF TypeOK, HandlerIsAwaited
    <3> QED
      BY <1>1, <1>4, <2>1, <3>1 DEF IsAwaited, serverVars
  <2> QED
    BY <1>1, <1>4, <2>1, <2>2, <2>3, <2>5, <2>6, Frame DEF serverVars, boundVars
<1>5. CASE clientDisposed /\ UNCHANGED <<state, call, handlers, uninitialized, toServer, heard>>
  BY <1>4, <1>5
<1>6. CASE /\ ~clientDisposed /\ Head(toClient).type = "EventFire"
           /\ heard' = (IF listening THEN heard + 1 ELSE heard)
           /\ UNCHANGED <<state, call, handlers, uninitialized, toServer>>
  <2>1. /\ Head(toClient) \in ClientMessage
        /\ Head(toClient).id = EventId /\ Head(toClient).data = "none"
    BY <1>1, <1>6, ResponseTaken
  <2>2. Head(toClient) = EventFire
    BY <1>6, <2>1 DEF ClientMessage, EventFire, Response
  <2>3. heard' = heard \/ heard' = heard + 1
    BY <1>6 DEF TypeOK
  <2>4. \A d \in Calls : Head(toClient).id /= d
    BY <2>1, QueueTypes
  <2> QED
    BY <1>4, <1>6, <2>2, <2>3, <2>4
<1> QED
  BY <1>2, <1>3, <1>5, <1>6 DEF OnResponse

\* A finite set as a sequence
LEMMA SetToSeqFacts ==
    ASSUME NEW S, IsFiniteSet(S)
    PROVE  /\ SetToSeq(S) \in Seq(S) /\ IsInjective(SetToSeq(S))
           /\ \A e : Contains(SetToSeq(S), e) <=> e \in S
<1> DEFINE n == Cardinality(S)
           q == SetToSeq(S)
<1>1. n \in Nat /\ ExistsBijection(1..n, S)
  BY FS_CardinalityType
<1>2. PICK f \in Bijection(1..n, S) : TRUE
  BY <1>1 DEF ExistsBijection
<1>3. f \in [1..n -> S] /\ IsInjective(f)
  BY <1>2, Fun_IsBij DEF Bijection, Injection, IsInjective
<1>4. q \in [1..n -> S] /\ IsInjective(q)
  BY <1>3 DEF SetToSeq
<1> HIDE DEF n, q
<1>5. q \in Injection(1..n, S)
  BY <1>4 DEF Injection, IsInjective
<1>6. Cardinality(1..n) = n
  BY <1>1, FS_Interval
<1>7. Cardinality(1..n) = Cardinality(S)
  BY <1>6 DEF n
<1>8. q \in Surjection(1..n, S)
  BY <1>5, <1>7, FS_Injection
<1>9. q \in Seq(S) /\ Len(q) = n /\ DOMAIN q = 1..n
  BY <1>1, <1>4
<1>10. \A e : Contains(q, e) <=> e \in S
  BY <1>4, <1>8, <1>9 DEF Surjection, Contains
<1> QED
  BY <1>4, <1>9, <1>10 DEF q

\* as cancellations
LEMMA DisposesOf ==
    ASSUME NEW D \in SUBSET Ids, IsFiniteSet(D),
           NEW r, r = [i \in DOMAIN SetToSeq(D) |-> Dispose(SetToSeq(D)[i])]
    PROVE  /\ r \in Seq(ServerMessage)
           /\ \A i \in DOMAIN r : \E id \in Ids : r[i] = Dispose(id)
           /\ \A id : OnItsWay(r, id) <=> id \in D
           /\ \A id \in D : Contains(r, Dispose(id))
           /\ EventId \in D => TakeTurns(r, TRUE, FALSE)
<1> DEFINE q == SetToSeq(D)
<1>1. q \in Seq(D) /\ IsInjective(q) /\ \A e : Contains(q, e) <=> e \in D
  BY SetToSeqFacts
<1> HIDE DEF q
<1>2. /\ DOMAIN q = 1..Len(q) /\ Len(q) \in Nat
      /\ \A i \in 1..Len(q) : q[i] \in Ids
  BY <1>1
<1>3. \A i \in 1..Len(q) : Dispose(q[i]) \in ServerMessage /\ Dispose(q[i]).id = q[i]
  BY <1>2, MessageFacts
<1>4. r = [i \in 1..Len(q) |-> Dispose(q[i])]
  BY <1>2 DEF q
<1>5. r \in Seq(ServerMessage) /\ DOMAIN r = 1..Len(q) /\ \A i \in 1..Len(q) : r[i] = Dispose(q[i])
  BY <1>2, <1>3, <1>4
<1>6. \A id : OnItsWay(r, id) <=> id \in D
  BY <1>1, <1>2, <1>3, <1>5 DEF OnItsWay, Contains
<1>7. \A id \in D : Contains(r, Dispose(id))
  <2>1. \A id \in D : \E i \in 1..Len(q) : q[i] = id
    BY <1>1, <1>2 DEF Contains
  <2>2. Len(r) = Len(q)
    BY <1>2, <1>5
  <2> QED
    BY <1>5, <2>1, <2>2 DEF Contains
<1>8. ASSUME EventId \in D PROVE TakeTurns(r, TRUE, FALSE)
  <2>1. PICK k \in 1..Len(q) : q[k] = EventId
    BY <1>1, <1>2, <1>8 DEF Contains
  <2>2. k \in DOMAIN r /\ r[k].id = EventId /\ r[k] /= Request(EventId)
    BY <1>3, <1>5, <1>8, <2>1, MessageFacts
  <2>3. \A i \in DOMAIN r : r[i].id = EventId => i = k
    BY <1>1, <1>2, <1>3, <1>5, <2>1 DEF IsInjective
  <2>4. TakeTurns(r, ~FALSE, FALSE)
    BY <1>5, <2>2, <2>3, TurnsOne
  <2>5. (~FALSE) = TRUE
    OBVIOUS
  <2> QED
    BY <2>4, <2>5
<1> QED
  BY <1>2, <1>5, <1>6, <1>7, <1>8

\* dispose() of the client rejects what is waiting.
LEMMA ClientDisposeInv ==
    ASSUME IInv, ClientDispose
    PROVE  IInv'
<1> USE DEF IInv
<1> DEFINE D == {c \in DisposedCalls : call[c] = "sent"}
                \cup (IF listening /\ ~Contains(uninitialized, EventId) THEN {EventId} ELSE {})
           r == [i \in DOMAIN SetToSeq(D) |-> Dispose(SetToSeq(D)[i])]
<1>1. /\ clientDisposed' = TRUE /\ uninitialized' = <<>> /\ listening' = FALSE
      /\ call' = [c \in Calls |-> IF c \in DisposedCalls THEN "cancelled" ELSE call[c]]
      /\ toServer' = toServer \o r
      /\ UNCHANGED <<state, handlers, toClient, serverVars, boundVars, historyVars>>
  BY DEF ClientDispose
<1>2. /\ \A c \in Calls : c \in D <=> call[c] = "sent"
      /\ EventId \in D <=> Asked
      /\ D \subseteq Ids
  BY QueueTypes DEF DisposedCalls, Asked
<1>3. IsFiniteSet(D)
  <2>1. IsFiniteSet(Calls \cup {EventId})
    BY CallsAssumption, FS_AddElement
  <2>2. D \in SUBSET (Calls \cup {EventId})
    BY <1>2 DEF Ids
  <2> HIDE DEF D
  <2> QED
    BY <2>1, <2>2, FS_Subset
<1>4. /\ r \in Seq(ServerMessage)
      /\ \A i \in DOMAIN r : \E id \in Ids : r[i] = Dispose(id)
      /\ \A id : OnItsWay(r, id) <=> id \in D
      /\ \A id \in D : Contains(r, Dispose(id))
      /\ EventId \in D => TakeTurns(r, TRUE, FALSE)
  <2> HIDE DEF D
  <2> QED
    BY <1>2, <1>3, DisposesOf
<1> HIDE DEF r, D
<1>5. /\ toServer' \in Seq(ServerMessage) /\ toServer \in Seq(ServerMessage)
      /\ \A id : OnItsWay(toServer', id) => (OnItsWay(toServer, id) \/ id \in D)
      /\ \A d \in Calls :
            /\ Contains(toServer', Request(d)) <=> Contains(toServer, Request(d))
            /\ Contains(toServer', Dispose(d))
                  <=> (Contains(toServer, Dispose(d)) \/ Contains(r, Dispose(d)))
            /\ AtMostOnce(toServer, Request(d)) => AtMostOnce(toServer', Request(d))
            /\ InOrder(toServer, Request(d), Dispose(d))
                  => InOrder(toServer', Request(d), Dispose(d))
      /\ Count(toServer', Request(EventId)) = Count(toServer, Request(EventId))
  BY <1>1, <1>4, ExtendByDisposes, QueueTypes
<1>6. UNCHANGED <<PendingIds, Pending>>
  BY <1>1 DEF serverVars, PendingIds, Pending
<1>7. \A c \in Calls : /\ call'[c] /= "uninitialized"
                       /\ call'[c] = "none" => call[c] = "none"
                       /\ call'[c] = "cancelled" => call[c] \in {"cancelled", "uninitialized", "sent"}
  BY <1>1 DEF DisposedCalls
<1>8. TypeOK'
  <2>1. call' \in [Calls -> {"none", "uninitialized", "sent", "unknownChannel", "cancelled"}
                            \cup Results]
    BY <1>1 DEF TypeOK
  <2>2. uninitialized' \in Seq(Ids) /\ IsInjective(uninitialized')
    BY <1>1 DEF IsInjective
  <2> QED
    BY <1>1, <1>5, <2>1, <2>2 DEF TypeOK, serverVars, boundVars, historyVars, ServerMessage
<1>9. UnsentHasNoTrace'
  BY <1>1, <1>2, <1>5, <1>6, <1>7 DEF UnsentHasNoTrace, serverVars
<1>10. UninitializedWaits'
  <2>1. \A e : ~Contains(<<>>, e)
    BY DEF Contains
  <2> QED
    BY <1>1, <1>7, <2>1 DEF UninitializedWaits
<1>11. RequestedOnce'
  BY <1>1, <1>5, <1>6 DEF RequestedOnce, serverVars
<1>12. HandlerIsAwaited'
  BY <1>1 DEF HandlerIsAwaited, IsAwaited
<1>13. CancelFollows'
  <2>1. \A c \in Calls : call[c] = "uninitialized" =>
           ~Contains(toServer, Request(c)) /\ c \notin PendingIds /\ execution[c] = "none"
    BY QueueTypes, ContainsOnItsWay DEF UnsentHasNoTrace
  <2>2. \A c \in Calls : call[c] = "sent" => Contains(toServer', Dispose(c))
    BY <1>2, <1>4, <1>5
  <2> QED
    BY <1>1, <1>5, <1>6, <1>7, <2>1, <2>2 DEF CancelFollows, serverVars, historyVars
<1>14. SubscriptionsCounted'
  <2>1. Count(uninitialized', EventId) = 0
    BY <1>1, CountEmpty
  <2>2. listens \in Nat
    BY DEF TypeOK
  <2> QED
    BY <1>1, <1>5, <1>6, <2>1, <2>2, CountTypes DEF SubscriptionsCounted, serverVars, boundVars
<1>15. EventsTakeTurns'
  <2>1. Asked' = FALSE /\ Asked \in BOOLEAN
    BY <1>1 DEF Asked
  <2>2. TakeTurns(r, Asked, Asked')
    <3>1. CASE Asked
      BY <1>2, <1>4, <2>1, <3>1
    <3>2. CASE ~Asked
      <4>1. ~OnItsWay(r, EventId) /\ Asked = FALSE
        BY <1>2, <1>4, <2>1, <3>2
      <4> QED
        BY <1>4, <2>1, <4>1, TurnsNone
    <3> QED
      BY <3>1, <3>2
  <2> QED
    BY <1>1, <1>4, <1>5, <2>2, ExtendTurns DEF serverVars, historyVars
<1> QED
  BY <1>1, <1>8, <1>9, <1>10, <1>11, <1>12, <1>13, <1>14, <1>15, Frame
     DEF serverVars, boundVars, historyVars

-----------------------------------------------------------------------------
(* The server                                                              *)

\* The server takes the first message.
LEMMA RequestTaken ==
    ASSUME IInv, toServer /= <<>>, toServer' = Tail(toServer)
    PROVE  /\ toServer' \in Seq(ServerMessage)
           /\ Head(toServer).id \in Ids
           /\ \/ Head(toServer) = Request(Head(toServer).id)
              \/ Head(toServer) = Dispose(Head(toServer).id)
           /\ OnItsWay(toServer, Head(toServer).id)
           /\ \A id : OnItsWay(toServer', id) => OnItsWay(toServer, id)
           /\ \A e : Contains(toServer, e) <=> (Head(toServer) = e \/ Contains(toServer', e))
           /\ \A c \in Calls :
                 /\ AtMostOnce(toServer', Request(c))
                 /\ InOrder(toServer', Request(c), Dispose(c))
                 /\ Head(toServer) \in {Request(c), Dispose(c)}
                       => ~Contains(toServer', Request(c))
           /\ Count(toServer', Request(EventId)) \in Nat
           /\ Count(toServer, Request(EventId))
                 = Count(toServer', Request(EventId))
                   + IF Head(toServer) = Request(EventId) THEN 1 ELSE 0
<1> USE DEF IInv
<1>1. toServer \in Seq(ServerMessage)
  BY QueueTypes
<1>2. Tail(toServer) \in Seq(ServerMessage) /\ Head(toServer) \in ServerMessage
  BY <1>1
<1>3. /\ Head(toServer).id \in Ids
      /\ \/ Head(toServer) = Request(Head(toServer).id)
         \/ Head(toServer) = Dispose(Head(toServer).id)
  <2>1. PICK id \in Ids : Head(toServer) = Request(id) \/ Head(toServer) = Dispose(id)
    BY <1>2 DEF ServerMessage
  <2>2. Head(toServer).id = id
    BY <2>1, MessageFacts
  <2> QED
    BY <2>1, <2>2
<1>4. \A id : OnItsWay(toServer, id) <=> (Head(toServer).id = id \/ OnItsWay(Tail(toServer), id))
  BY <1>1, OnItsWayTail
<1>5. \A e : Contains(toServer, e) <=> (Head(toServer) = e \/ Contains(Tail(toServer), e))
  BY <1>1, ContainsTail
<1>6. ASSUME NEW c \in Calls
      PROVE  /\ AtMostOnce(Tail(toServer), Request(c))
             /\ InOrder(Tail(toServer), Request(c), Dispose(c))
             /\ Head(toServer) \in {Request(c), Dispose(c)}
                   => ~Contains(Tail(toServer), Request(c))
  <2>1. AtMostOnce(toServer, Request(c)) /\ InOrder(toServer, Request(c), Dispose(c))
    BY DEF RequestedOnce, CancelFollows
  <2> QED
    BY <1>1, <2>1, OnceTail, OrderTail
<1>7. /\ Count(Tail(toServer), Request(EventId)) \in Nat
      /\ Count(toServer, Request(EventId))
            = Count(Tail(toServer), Request(EventId))
              + IF Head(toServer) = Request(EventId) THEN 1 ELSE 0
  BY <1>1, <1>2, CountTail, CountType
<1> QED
  BY <1>2, <1>3, <1>4, <1>5, <1>6, <1>7

\* and does in turn what the messages about the event say
LEMMA TurnTaken ==
    ASSUME IInv, toServer /= <<>>, toServer' = Tail(toServer)
    PROVE  \E told, now \in BOOLEAN :
              /\ ~serverDisposed /\ told => Heard
              /\ ~serverDisposed /\ EventId \notin missed => told = Heard
              /\ TakeTurns(toServer', now, Asked)
              /\ Head(toServer).id /= EventId => now = told
              /\ Head(toServer) = Request(EventId) => told = FALSE /\ now = TRUE
              /\ Head(toServer) = Dispose(EventId) => told = TRUE /\ now = FALSE
<1> USE DEF IInv
<1>1. toServer \in Seq(ServerMessage) /\ EventId \in Ids
  BY QueueTypes
<1>2. PICK told \in BOOLEAN : /\ TakeTurns(toServer, told, Asked)
                              /\ ~serverDisposed /\ told => Heard
                              /\ ~serverDisposed /\ EventId \notin missed => told = Heard
  BY DEF EventsTakeTurns
<1>3. Asked \in BOOLEAN
  BY DEF Asked
<1>4. /\ Head(toServer).id /= EventId => TakeTurns(Tail(toServer), told, Asked)
      /\ Head(toServer).id = EventId => /\ (Head(toServer) = Request(EventId)) = ~told
                                        /\ TakeTurns(Tail(toServer), ~told, Asked)
  BY <1>1, <1>2, <1>3, TurnsTail
<1>5. /\ Request(EventId).id = EventId /\ Dispose(EventId).id = EventId
      /\ Request(EventId) /= Dispose(EventId)
  BY <1>1, MessageFacts
<1>6. CASE Head(toServer).id /= EventId
  <2>1. Head(toServer) /= Request(EventId) /\ Head(toServer) /= Dispose(EventId)
    BY <1>5, <1>6
  <2> QED
    BY <1>2, <1>4, <1>6, <2>1
<1>7. CASE Head(toServer).id = EventId
  <2>1. /\ Head(toServer) = Request(EventId) => told = FALSE
        /\ Head(toServer) = Dispose(EventId) => told = TRUE
    BY <1>4, <1>5, <1>7
  <2> DEFINE now == ~told
  <2>2. /\ now \in BOOLEAN /\ TakeTurns(toServer', now, Asked)
        /\ told = FALSE => now = TRUE
        /\ told = TRUE => now = FALSE
    BY <1>4, <1>7
  <2> HIDE DEF now
  <2> QED
    BY <1>2, <1>7, <2>1, <2>2
<1> QED
  BY <1>6, <1>7

\* a disposed server nothing
LEMMA IgnoredMessageInv ==
    ASSUME IInv, toServer /= <<>>, toServer' = Tail(toServer), serverDisposed,
           UNCHANGED <<clientVars, toClient, serverVars, boundVars, historyVars>>
    PROVE  IInv'
<1> USE DEF IInv
<1>1. UNCHANGED <<PendingIds, Pending, Asked>>
  BY DEF clientVars, serverVars, PendingIds, Pending, Asked
<1>2. TypeOK'
  BY RequestTaken DEF TypeOK, clientVars, serverVars, boundVars, historyVars, ServerMessage
<1>3. UnsentHasNoTrace'
  BY <1>1, RequestTaken DEF UnsentHasNoTrace, clientVars, serverVars
<1>4. RequestedOnce'
  BY <1>1, RequestTaken DEF RequestedOnce, serverVars
<1>5. HandlerIsAwaited'
  BY DEF HandlerIsAwaited, IsAwaited, serverVars
<1>6. CancelFollows'
  BY RequestTaken DEF CancelFollows, serverVars
<1>7. SubscriptionsCounted'
  <2>1. listens \in Nat
    BY DEF TypeOK
  <2> QED
    BY <1>1, <2>1, RequestTaken, CountTypes
       DEF SubscriptionsCounted, clientVars, serverVars, boundVars
<1>8. EventsTakeTurns'
  <2>1. PICK now \in BOOLEAN : TakeTurns(toServer', now, Asked)
    BY TurnTaken
  <2> QED
    BY <1>1, <2>1 DEF EventsTakeTurns, serverVars, historyVars
<1> QED
  BY <1>2, <1>3, <1>4, <1>5, <1>6, <1>7, <1>8, Frame
     DEF clientVars, serverVars, boundVars, historyVars

\* A request whose channel is there
LEMMA StartedInv ==
    ASSUME IInv, toServer /= <<>>, toServer' = Tail(toServer), ~serverDisposed,
           NEW id \in Ids, Head(toServer) = Request(id), StartRequests(<<id>>),
           UNCHANGED <<clientVars, toClient, registered, flushDue, pendingRequests, token,
                       serverDisposed, boundVars, historyVars>>
    PROVE  IInv'
<1> USE DEF IInv
<1>1. UNCHANGED <<PendingIds, Pending, Asked>>
  BY DEF clientVars, PendingIds, Pending, Asked
<1>2. /\ execution' = [c \in Calls |-> IF c = id THEN "running" ELSE execution[c]]
      /\ subscriptions' = subscriptions + (IF id = EventId THEN 1 ELSE 0)
      /\ activeRequests' = activeRequests \cup {id}
  <2>1. \A c : Contains(<<id>>, c) <=> c = id
    BY DEF Contains
  <2>2. ToSet(<<id>>) = {id}
    BY DEF ToSet
  <2>3. Count(<<id>>, EventId) = IF id = EventId THEN 1 ELSE 0
    BY CountSingle
  <2> QED
    BY <2>1, <2>2, <2>3 DEF StartRequests
<1>3. /\ Request(id).id = id /\ EventId \in Ids /\ EventId \notin Calls
      /\ \A c \in Calls : /\ Request(id) = Request(c) <=> id = c
                          /\ Request(id) /= Dispose(c)
      /\ Request(id) = Request(EventId) <=> id = EventId
  BY MessageFacts, QueueTypes
<1>4. Contains(toServer, Request(id)) /\ OnItsWay(toServer, id)
  BY <1>3, RequestTaken
<1>5. id \in Calls => /\ call[id] \notin {"none", "uninitialized"} /\ id \notin PendingIds
                      /\ execution[id] = "none" /\ ~Contains(toServer', Request(id))
  BY <1>4, RequestTaken DEF UnsentHasNoTrace, RequestedOnce
<1>6. SubscriptionsCounted' /\ subscriptions' \in 0..MaxListens
  <2>1. listens \in 0..MaxListens /\ MaxListens \in Nat /\ listens \in Nat
    BY BoundsAssumption DEF TypeOK
  <2>2. Count(toServer, Request(EventId))
          = Count(toServer', Request(EventId)) + IF id = EventId THEN 1 ELSE 0
    BY <1>3, RequestTaken
  <2>3. Count(toServer', Request(EventId)) \in Nat
    BY RequestTaken
  <2>4. subscriptions' > 0 \/ (EventId \in activeRequests' => EventId \in activeRequests)
    BY <1>2, CountTypes
  <2>5. UNCHANGED <<uninitialized, listens>>
    BY DEF clientVars, boundVars
  <2>6. /\ subscriptions' + Count(Pending, EventId) + Count(toServer', Request(EventId))
             + Count(uninitialized, EventId) <= listens
        /\ subscriptions' \in Nat /\ subscriptions' >= subscriptions
    BY <1>2, <2>1, <2>2, <2>3, CountTypes, SMTT(30) DEF SubscriptionsCounted
  <2> QED
    BY <1>1, <2>1, <2>3, <2>4, <2>5, <2>6, CountTypes DEF SubscriptionsCounted
<1>7. TypeOK'
  BY <1>2, <1>6, RequestTaken
     DEF TypeOK, clientVars, boundVars, historyVars, ServerMessage
<1>8. UnsentHasNoTrace'
  BY <1>1, <1>2, <1>5, RequestTaken DEF UnsentHasNoTrace, clientVars
<1>9. RequestedOnce'
  BY <1>1, <1>2, <1>5, RequestTaken DEF RequestedOnce
<1>10. AnswersAreTrue'
  BY <1>2, <1>5, QueueTypes DEF AnswersAreTrue, Results
<1>11. HandlerIsAwaited'
  <2> SUFFICES ASSUME NEW c \in handlers PROVE IsAwaited(c)'
    BY DEF HandlerIsAwaited, clientVars
  <2>1. c \in Calls /\ IsAwaited(c)
    BY DEF TypeOK, HandlerIsAwaited
  <2> QED
    BY <1>2, <1>3, <2>1, RequestTaken DEF IsAwaited, clientVars
<1>12. CancelFollows'
  <2> SUFFICES ASSUME NEW c \in Calls
               PROVE  /\ InOrder(toServer', Request(c), Dispose(c))
                      /\ execution'[c] = "running" => c \in activeRequests' \cup token
                      /\ (/\ call[c] = "cancelled" /\ c \notin token \cup missed
                          /\ \/ Contains(toServer', Request(c)) \/ c \in PendingIds
                             \/ execution'[c] = "running")
                         => Contains(toServer', Dispose(c))
    BY <1>1 DEF CancelFollows, clientVars, historyVars
  <2>1. /\ InOrder(toServer', Request(c), Dispose(c))
        /\ Contains(toServer', Request(c)) => Contains(toServer, Request(c))
        /\ Contains(toServer, Dispose(c)) => Contains(toServer', Dispose(c))
    BY <1>3, RequestTaken
  <2> QED
    BY <1>2, <1>4, <2>1 DEF CancelFollows
<1>13. EventsTakeTurns'
  <2>1. PICK told, now \in BOOLEAN :
           /\ ~serverDisposed /\ told => Heard
           /\ ~serverDisposed /\ EventId \notin missed => told = Heard
           /\ TakeTurns(toServer', now, Asked)
           /\ Head(toServer).id /= EventId => now = told
           /\ Head(toServer) = Request(EventId) => told = FALSE /\ now = TRUE
    BY TurnTaken
  <2>2. UNCHANGED <<missed, pendingRequests>>
    BY DEF historyVars
  <2>3. CASE id = EventId
    <3>1. Heard' = TRUE /\ EventId \in activeRequests'
      BY <1>2, <2>3 DEF Heard
    <3>2. EventId \notin missed => EventId \notin activeRequests \cup PendingIds
      BY <2>1, <2>3 DEF Heard
    <3>3. EventId \notin missed => subscriptions' = 1
      BY <1>2, <2>3, <3>2 DEF EventsTakeTurns
    <3>4. \E n \in BOOLEAN : /\ TakeTurns(toServer', n, Asked')
                             /\ ~serverDisposed' /\ n => Heard'
                             /\ ~serverDisposed' /\ EventId \notin missed' => n = Heard'
      BY <1>1, <1>3, <2>1, <2>3, <3>1
    <3>5. EventId \notin missed' =>
             /\ subscriptions' = (IF EventId \in activeRequests' THEN 1 ELSE 0)
             /\ EventId \in activeRequests' => EventId \notin PendingIds'
             /\ AtMostOnce(Pending', EventId)
      BY <1>1, <2>2, <3>1, <3>2, <3>3 DEF EventsTakeTurns
    <3> QED
      BY <3>4, <3>5 DEF EventsTakeTurns
  <2>4. CASE id /= EventId
    <3>1. /\ Heard' = Heard /\ (EventId \in activeRequests' <=> EventId \in activeRequests)
          /\ subscriptions' = subscriptions
      BY <1>1, <1>2, <2>4, CountTypes DEF Heard
    <3>2. now = told
      BY <1>3, <2>1, <2>4
    <3>3. \E n \in BOOLEAN : /\ TakeTurns(toServer', n, Asked')
                             /\ ~serverDisposed' /\ n => Heard'
                             /\ ~serverDisposed' /\ EventId \notin missed' => n = Heard'
      BY <1>1, <2>1, <2>2, <3>1, <3>2
    <3>4. EventId \notin missed' =>
             /\ subscriptions' = (IF EventId \in activeRequests' THEN 1 ELSE 0)
             /\ EventId \in activeRequests' => EventId \notin PendingIds'
             /\ AtMostOnce(Pending', EventId)
      BY <1>1, <2>2, <3>1 DEF EventsTakeTurns
    <3> QED
      BY <3>3, <3>4 DEF EventsTakeTurns
  <2> QED
    BY <2>3, <2>4
<1> QED
  BY <1>6, <1>7, <1>8, <1>9, <1>10, <1>11, <1>12, <1>13, Frame
     DEF clientVars, boundVars, historyVars

\* One request more is pending.
LEMMA PendingAppend ==
    ASSUME TypeOK, NEW id \in Ids,
           pendingRequests' = Append(pendingRequests, [id |-> id, timer |-> TRUE])
    PROVE  /\ pendingRequests' \in Seq(PendingRequest)
           /\ PendingIds' = PendingIds \cup {id}
           /\ Count(Pending', EventId) = Count(Pending, EventId) + IF id = EventId THEN 1 ELSE 0
           /\ AtMostOnce(Pending, EventId) /\ (EventId \notin PendingIds \/ id /= EventId)
                 => AtMostOnce(Pending', EventId)
           /\ \A e : Contains(pendingRequests', e)
                        <=> (Contains(pendingRequests, e) \/ e = [id |-> id, timer |-> TRUE])
<1> DEFINE x == [id |-> id, timer |-> TRUE]
           n == Len(pendingRequests)
           p == Pending'
<1>1. pendingRequests \in Seq(PendingRequest) /\ x \in PendingRequest /\ x.id = id
  BY QueueTypes DEF PendingRequest
<1>2. pendingRequests' = Append(pendingRequests, x)
  OBVIOUS
<1> HIDE DEF x
<1>3. pendingRequests' \in Seq(PendingRequest)
  BY <1>1, <1>2
<1>4. /\ DOMAIN pendingRequests = 1..n /\ n \in Nat /\ DOMAIN pendingRequests' = 1..(n + 1)
      /\ \A i \in 1..n : pendingRequests'[i] = pendingRequests[i] /\ pendingRequests[i].id \in Ids
      /\ pendingRequests'[n + 1] = x
  <2>1. \A y \in PendingRequest : y.id \in Ids
    BY DEF PendingRequest
  <2> QED
    BY <1>1, <1>2, <2>1
<1>5. /\ Pending \in Seq(Ids) /\ Len(Pending) = n /\ DOMAIN Pending = 1..n
      /\ \A i \in 1..n : Pending[i] = pendingRequests[i].id
  <2>1. Pending \in Seq(Ids)
    BY <1>1, PendingFacts
  <2>2. Pending = [i \in 1..n |-> pendingRequests[i].id]
    BY <1>4 DEF Pending
  <2> QED
    BY <1>4, <2>1, <2>2
<1>6. p = [i \in 1..(n + 1) |-> pendingRequests'[i].id]
  BY <1>4 DEF Pending
<1> HIDE DEF p, n
<1>7. \A i \in 1..(n + 1) : pendingRequests'[i].id = Append(Pending, id)[i]
  <2> SUFFICES ASSUME NEW i \in 1..(n + 1) PROVE pendingRequests'[i].id = Append(Pending, id)[i]
    OBVIOUS
  <2>1. CASE i = n + 1
    BY <1>1, <1>4, <1>5, <2>1
  <2>2. CASE i \in 1..n
    BY <1>4, <1>5, <2>2
  <2>3. i = n + 1 \/ i \in 1..n
    BY <1>4
  <2> QED
    BY <2>1, <2>2, <2>3
<1>8. p = Append(Pending, id)
  <2>0. Append(Pending, id) \in [1..(n + 1) -> Ids]
    <3>1. Append(Pending, id) \in Seq(Ids) /\ Len(Append(Pending, id)) = n + 1
      BY <1>4, <1>5
    <3>2. \A q \in Seq(Ids) : q \in [1..Len(q) -> Ids]
      OBVIOUS
    <3> QED
      BY <3>1, <3>2
  <2>1. Append(Pending, id) = [i \in 1..(n + 1) |-> Append(Pending, id)[i]]
    BY <2>0
  <2> QED
    BY <1>6, <1>7, <2>1
<1>9. \A d : d \in PendingIds' <=> (d \in PendingIds \/ d = id)
  <2>1. PendingIds' = ToSet(p) /\ p \in Seq(Ids)
    BY <1>5, <1>8 DEF PendingIds, p
  <2>2. \A d : d \in PendingIds' <=> Contains(p, d)
    BY <2>1 DEF ToSet, Contains
  <2>3. \A d : d \in PendingIds <=> Contains(Pending, d)
    BY <1>1, PendingFacts
  <2>4. \A d : Contains(Append(Pending, id), d) <=> (Contains(Pending, d) \/ id = d)
    BY <1>5, ContainsAppend
  <2> QED
    BY <1>8, <2>2, <2>3, <2>4
<1>10. Count(p, EventId) = Count(Pending, EventId) + IF id = EventId THEN 1 ELSE 0
  BY <1>5, <1>8, CountAppend
<1>11. ASSUME AtMostOnce(Pending, EventId), EventId \notin PendingIds \/ id /= EventId
       PROVE  AtMostOnce(p, EventId)
  <2>1. ~Contains(Pending, EventId) \/ id /= EventId
    BY <1>1, <1>11, PendingFacts
  <2>2. /\ DOMAIN Pending = 1..Len(Pending) /\ Len(Pending) \in Nat
        /\ DOMAIN Append(Pending, id) = 1..(Len(Pending) + 1)
        /\ \A i \in 1..Len(Pending) : Append(Pending, id)[i] = Pending[i]
        /\ Append(Pending, id)[Len(Pending) + 1] = id
    BY <1>5
  <2> QED
    BY <1>8, <1>11, <2>1, <2>2 DEF AtMostOnce, Contains
<1>12. \A e : Contains(pendingRequests', e) <=> (Contains(pendingRequests, e) \/ x = e)
  BY <1>1, <1>2, ContainsAppend
<1> QED
  BY <1>3, <1>9, <1>10, <1>11, <1>12 DEF p, x

\* A request whose channel is not there
LEMMA CollectedInv ==
    ASSUME IInv, toServer /= <<>>, toServer' = Tail(toServer), ~serverDisposed,
           NEW id \in Ids, Head(toServer) = Request(id), CollectPendingRequest(id),
           UNCHANGED <<clientVars, toClient, registered, flushDue, activeRequests, execution,
                       token, subscriptions, serverDisposed, boundVars, historyVars>>
    PROVE  IInv'
<1> USE DEF IInv
<1>1. /\ pendingRequests' \in Seq(PendingRequest)
      /\ PendingIds' = PendingIds \cup {id}
      /\ Count(Pending', EventId) = Count(Pending, EventId) + IF id = EventId THEN 1 ELSE 0
      /\ AtMostOnce(Pending, EventId) /\ (EventId \notin PendingIds \/ id /= EventId)
            => AtMostOnce(Pending', EventId)
      /\ \A e : Contains(pendingRequests', e)
                   <=> (Contains(pendingRequests, e) \/ e = [id |-> id, timer |-> TRUE])
  BY PendingAppend DEF CollectPendingRequest
<1>2. UNCHANGED Asked
  BY DEF clientVars, Asked
<1>3. /\ Request(id).id = id /\ EventId \in Ids /\ EventId \notin Calls
      /\ \A c \in Calls : /\ Request(id) = Request(c) <=> id = c
                          /\ Request(id) /= Dispose(c)
      /\ Request(id) = Request(EventId) <=> id = EventId
  BY MessageFacts, QueueTypes
<1>4. Contains(toServer, Request(id)) /\ OnItsWay(toServer, id)
  BY <1>3, RequestTaken
<1>5. id \in Calls => /\ call[id] \notin {"none", "uninitialized"}
                      /\ execution[id] = "none" /\ ~Contains(toServer', Request(id))
  BY <1>4, RequestTaken DEF UnsentHasNoTrace, RequestedOnce
<1>6. TypeOK'
  BY <1>1, RequestTaken
     DEF TypeOK, clientVars, boundVars, historyVars, ServerMessage, PendingRequest
<1>7. UnsentHasNoTrace'
  BY <1>1, <1>5, RequestTaken DEF UnsentHasNoTrace, clientVars
<1>8. RequestedOnce'
  BY <1>1, <1>5, RequestTaken DEF RequestedOnce
<1>9. HandlerIsAwaited'
  <2> SUFFICES ASSUME NEW c \in handlers PROVE IsAwaited(c)'
    BY DEF HandlerIsAwaited, clientVars
  <2>1. c \in Calls /\ IsAwaited(c)
    BY DEF TypeOK, HandlerIsAwaited
  <2> QED
    BY <1>1, <1>3, <2>1, RequestTaken DEF IsAwaited, clientVars
<1>10. CancelFollows'
  <2> SUFFICES ASSUME NEW c \in Calls
               PROVE  /\ InOrder(toServer', Request(c), Dispose(c))
                      /\ execution[c] = "running" => c \in activeRequests \cup token
                      /\ (/\ call[c] = "cancelled" /\ c \notin token \cup missed
                          /\ \/ Contains(toServer', Request(c)) \/ c \in PendingIds'
                             \/ execution[c] = "running")
                         => Contains(toServer', Dispose(c))
    BY DEF CancelFollows, clientVars, historyVars
  <2>1. /\ InOrder(toServer', Request(c), Dispose(c))
        /\ Contains(toServer', Request(c)) => Contains(toServer, Request(c))
        /\ Contains(toServer, Dispose(c)) => Contains(toServer', Dispose(c))
    BY <1>3, RequestTaken
  <2> QED
    BY <1>1, <1>4, <2>1 DEF CancelFollows
<1>11. SubscriptionsCounted'
  <2>1. listens \in Nat
    BY DEF TypeOK
  <2>2. Count(toServer, Request(EventId))
          = Count(toServer', Request(EventId)) + IF id = EventId THEN 1 ELSE 0
    BY <1>3, RequestTaken
  <2>3. Count(toServer', Request(EventId)) \in Nat
    BY RequestTaken
  <2>4. UNCHANGED <<uninitialized, listens>>
    BY DEF clientVars, boundVars
  <2> QED
    BY <1>1, <2>1, <2>2, <2>3, <2>4, CountTypes DEF SubscriptionsCounted
<1>12. EventsTakeTurns'
  <2>1. PICK told, now \in BOOLEAN :
           /\ ~serverDisposed /\ told => Heard
           /\ ~serverDisposed /\ EventId \notin missed => told = Heard
           /\ TakeTurns(toServer', now, Asked)
           /\ Head(toServer).id /= EventId => now = told
           /\ Head(toServer) = Request(EventId) => told = FALSE /\ now = TRUE
    BY TurnTaken
  <2>2. UNCHANGED missed
    BY DEF historyVars
  <2>3. CASE id = EventId
    <3>1. Heard' = TRUE
      BY <1>1, <2>3 DEF Heard
    <3>2. EventId \notin missed => EventId \notin activeRequests \cup PendingIds
      BY <2>1, <2>3 DEF Heard
    <3>4. \E n \in BOOLEAN : /\ TakeTurns(toServer', n, Asked')
                             /\ ~serverDisposed' /\ n => Heard'
                             /\ ~serverDisposed' /\ EventId \notin missed' => n = Heard'
      BY <1>2, <2>1, <2>3, <3>1
    <3>5. EventId \notin missed' =>
             /\ subscriptions' = (IF EventId \in activeRequests' THEN 1 ELSE 0)
             /\ EventId \in activeRequests' => EventId \notin PendingIds'
             /\ AtMostOnce(Pending', EventId)
      BY <1>1, <2>2, <3>2 DEF EventsTakeTurns
    <3> QED
      BY <3>4, <3>5 DEF EventsTakeTurns
  <2>4. CASE id /= EventId
    <3>1. Heard' = Heard /\ (EventId \in PendingIds' <=> EventId \in PendingIds)
      BY <1>1, <2>4 DEF Heard
    <3>2. now = told
      BY <1>3, <2>1, <2>4
    <3>3. \E n \in BOOLEAN : /\ TakeTurns(toServer', n, Asked')
                             /\ ~serverDisposed' /\ n => Heard'
                             /\ ~serverDisposed' /\ EventId \notin missed' => n = Heard'
      BY <1>2, <2>1, <2>2, <3>1, <3>2
    <3>4. EventId \notin missed' =>
             /\ subscriptions' = (IF EventId \in activeRequests' THEN 1 ELSE 0)
             /\ EventId \in activeRequests' => EventId \notin PendingIds'
             /\ AtMostOnce(Pending', EventId)
      BY <1>1, <2>2, <2>4, <3>1 DEF EventsTakeTurns
    <3> QED
      BY <3>3, <3>4 DEF EventsTakeTurns
  <2> QED
    BY <2>3, <2>4
<1> QED
  BY <1>6, <1>7, <1>8, <1>9, <1>10, <1>11, <1>12, Frame DEF clientVars, boundVars, historyVars

\* A cancellation, or the last listener removed
LEMMA DisposedInv ==
    ASSUME IInv, toServer /= <<>>, toServer' = Tail(toServer), ~serverDisposed,
           NEW id \in Ids, Head(toServer) = Dispose(id), DisposeActiveRequest(id),
           missed' = missed \cup ({id} \cap PendingIds),
           UNCHANGED <<clientVars, toClient, registered, flushDue, pendingRequests, execution,
                       serverDisposed, boundVars, heard>>
    PROVE  IInv'
<1> USE DEF IInv
<1>1. UNCHANGED <<PendingIds, Pending, Asked>>
  BY DEF clientVars, PendingIds, Pending, Asked
<1>2. /\ activeRequests' = activeRequests \ {id}
      /\ token' = token \cup ({id} \cap activeRequests \cap Calls)
      /\ subscriptions' = IF id = EventId /\ id \in activeRequests THEN subscriptions - 1
                          ELSE subscriptions
  BY DEF DisposeActiveRequest
<1>3. /\ Dispose(id).id = id /\ EventId \in Ids /\ EventId \notin Calls
      /\ \A c \in Calls : /\ Dispose(id) = Dispose(c) <=> id = c
                          /\ Dispose(id) /= Request(c)
      /\ Dispose(id) /= Request(EventId)
  BY MessageFacts, QueueTypes
<1>4. SubscriptionsCounted' /\ subscriptions' \in 0..MaxListens
  <2>1. listens \in Nat /\ subscriptions \in 0..MaxListens /\ MaxListens \in Nat
    BY BoundsAssumption DEF TypeOK
  <2>2. Count(toServer, Request(EventId)) = Count(toServer', Request(EventId))
    BY <1>3, RequestTaken
  <2>3. UNCHANGED <<uninitialized, listens>>
    BY DEF clientVars, boundVars
  <2>4. /\ subscriptions' \in 0..MaxListens /\ subscriptions' <= subscriptions
        /\ EventId \in activeRequests' => EventId \in activeRequests /\ subscriptions' = subscriptions
    BY <1>2, <2>1 DEF SubscriptionsCounted
  <2> QED
    BY <1>1, <2>1, <2>2, <2>3, <2>4, CountTypes DEF SubscriptionsCounted
<1>5. TypeOK'
  <2>1. missed' \subseteq Ids /\ token' \subseteq Calls /\ activeRequests' \subseteq Ids
    BY <1>2 DEF TypeOK
  <2> QED
    BY <1>4, <2>1, RequestTaken DEF TypeOK, clientVars, boundVars, ServerMessage
<1>6. UnsentHasNoTrace'
  BY <1>1, RequestTaken DEF UnsentHasNoTrace, clientVars
<1>7. RequestedOnce'
  BY <1>1, RequestTaken DEF RequestedOnce
<1>8. HandlerIsAwaited'
  <2> SUFFICES ASSUME NEW c \in handlers PROVE IsAwaited(c)'
    BY DEF HandlerIsAwaited, clientVars
  <2>1. c \in Calls /\ IsAwaited(c)
    BY DEF TypeOK, HandlerIsAwaited
  <2> QED
    BY <1>3, <2>1, RequestTaken DEF IsAwaited, clientVars
<1>9. CancelFollows'
  <2> SUFFICES ASSUME NEW c \in Calls
               PROVE  /\ InOrder(toServer', Request(c), Dispose(c))
                      /\ execution[c] = "running" => c \in activeRequests' \cup token'
                      /\ (/\ call[c] = "cancelled" /\ c \notin token' \cup missed'
                          /\ \/ Contains(toServer', Request(c)) \/ c \in PendingIds
                             \/ execution[c] = "running")
                         => Contains(toServer', Dispose(c))
    BY <1>1 DEF CancelFollows, clientVars
  <2>1. /\ InOrder(toServer', Request(c), Dispose(c))
        /\ Contains(toServer', Request(c)) => Contains(toServer, Request(c))
        /\ c /= id => (Contains(toServer, Dispose(c)) => Contains(toServer', Dispose(c)))
        /\ c = id => ~Contains(toServer', Request(c))
    BY <1>3, RequestTaken
  <2>2. execution[c] = "running" => c \in activeRequests' \cup token'
    BY <1>2 DEF CancelFollows
  <2>3. CASE c = id
    BY <1>2, <2>1, <2>2, <2>3
  <2>4. CASE c /= id
    BY <1>2, <2>1, <2>2, <2>4 DEF CancelFollows
  <2> QED
    BY <2>3, <2>4
<1>10. EventsTakeTurns'
  <2>1. PICK told, now \in BOOLEAN :
           /\ ~serverDisposed /\ told => Heard
           /\ ~serverDisposed /\ EventId \notin missed => told = Heard
           /\ TakeTurns(toServer', now, Asked)
           /\ Head(toServer).id /= EventId => now = told
           /\ Head(toServer) = Dispose(EventId) => told = TRUE /\ now = FALSE
    BY TurnTaken
  <2>3. CASE id = EventId
    <3>1. EventId \notin missed' => EventId \notin missed /\ EventId \notin PendingIds
      BY <2>3
    <3>2. EventId \notin missed' => EventId \in activeRequests /\ Heard' = FALSE
      BY <1>1, <1>2, <2>1, <2>3, <3>1 DEF Heard
    <3>4. \E n \in BOOLEAN : /\ TakeTurns(toServer', n, Asked')
                             /\ ~serverDisposed' /\ n => Heard'
                             /\ ~serverDisposed' /\ EventId \notin missed' => n = Heard'
      BY <1>1, <2>1, <2>3, <3>2
    <3>5. EventId \notin missed' =>
             /\ subscriptions' = (IF EventId \in activeRequests' THEN 1 ELSE 0)
             /\ EventId \in activeRequests' => EventId \notin PendingIds'
             /\ AtMostOnce(Pending', EventId)
      BY <1>1, <1>2, <2>3, <3>1, <3>2 DEF EventsTakeTurns
    <3> QED
      BY <3>4, <3>5 DEF EventsTakeTurns
  <2>4. CASE id /= EventId
    <3>1. /\ Heard' = Heard /\ (EventId \in activeRequests' <=> EventId \in activeRequests)
          /\ subscriptions' = subscriptions /\ (EventId \in missed' <=> EventId \in missed)
      BY <1>1, <1>2, <2>4 DEF Heard
    <3>2. now = told
      BY <1>3, <2>1, <2>4
    <3>3. \E n \in BOOLEAN : /\ TakeTurns(toServer', n, Asked')
                             /\ ~serverDisposed' /\ n => Heard'
                             /\ ~serverDisposed' /\ EventId \notin missed' => n = Heard'
      BY <1>1, <2>1, <3>1, <3>2
    <3>4. EventId \notin missed' =>
             /\ subscriptions' = (IF EventId \in activeRequests' THEN 1 ELSE 0)
             /\ EventId \in activeRequests' => EventId \notin PendingIds'
             /\ AtMostOnce(Pending', EventId)
      BY <1>1, <3>1 DEF EventsTakeTurns
    <3> QED
      BY <3>3, <3>4 DEF EventsTakeTurns
  <2> QED
    BY <2>3, <2>4
<1>11. HeardAsSent'
  <2>1. EventId \notin missed' => EventId \notin missed
    OBVIOUS
  <2> QED
    BY <2>1 DEF HeardAsSent, boundVars
<1> QED
  BY <1>4, <1>5, <1>6, <1>7, <1>8, <1>9, <1>10, <1>11, Frame DEF clientVars, boundVars

\* Every message from the client keeps the invariant.
LEMMA OnRawMessageInv ==
    ASSUME IInv, OnRawMessage
    PROVE  IInv'
<1> USE DEF IInv
<1> DEFINE request == Head(toServer)
           id == Head(toServer).id
<1>1. /\ toServer /= <<>> /\ toServer' = Tail(toServer)
      /\ UNCHANGED <<clientVars, toClient, registered, flushDue, serverDisposed, boundVars, heard>>
  BY DEF OnRawMessage
<1>2. id \in Ids /\ (request = Request(id) \/ request = Dispose(id))
  BY <1>1, RequestTaken
<1>3. /\ Request(id).type \in {"Promise", "EventListen"}
      /\ Dispose(id).type \in {"PromiseCancel", "EventDispose"}
  <2> HIDE DEF id
  <2> QED
    BY DEF Request, Dispose
<1>4. CASE /\ serverDisposed
           /\ UNCHANGED <<pendingRequests, activeRequests, execution, token, subscriptions, missed>>
  BY <1>1, <1>4, IgnoredMessageInv DEF serverVars, historyVars
<1>5. CASE /\ ~serverDisposed /\ request.type \in {"Promise", "EventListen"}
           /\ OnRequest(id) /\ UNCHANGED <<token, missed>>
  <2>1. request = Request(id)
    BY <1>2, <1>3, <1>5
  <2> HIDE DEF id
  <2>2. CASE registered
    BY <1>1, <1>2, <1>5, <2>1, <2>2, StartedInv DEF OnRequest, historyVars
  <2>3. CASE ~registered
    BY <1>1, <1>2, <1>5, <2>1, <2>3, CollectedInv DEF OnRequest, historyVars
  <2> QED
    BY <2>2, <2>3
<1>6. CASE /\ ~serverDisposed /\ request.type \in {"PromiseCancel", "EventDispose"}
           /\ DisposeActiveRequest(id) /\ missed' = missed \cup ({id} \cap PendingIds)
           /\ UNCHANGED <<pendingRequests, execution>>
  <2>1. request = Dispose(id)
    BY <1>2, <1>3, <1>6
  <2> HIDE DEF id
  <2> QED
    BY <1>1, <1>2, <1>6, <2>1, DisposedInv
<1> QED
  BY <1>4, <1>5, <1>6 DEF OnRawMessage

\* A channel is registered: the requests that wait for it are to be flushed.
LEMMA RegisterChannelInv ==
    ASSUME IInv, RegisterChannel
    PROVE  IInv'
<1> USE DEF IInv
<1>1. TypeOK'
  BY BoundsAssumption DEF RegisterChannel, TypeOK, clientVars, historyVars
<1> QED
  BY <1>1, Frame DEF RegisterChannel, clientVars, historyVars

\* What is there is counted.
LEMMA CountPositive ==
    ASSUME NEW S, NEW q \in Seq(S), NEW e, Contains(q, e)
    PROVE  Count(q, e) > 0
<1> DEFINE P == {i \in DOMAIN q : q[i] = e}
<1>1. IsFiniteSet(P) /\ Count(q, e) = Cardinality(P) /\ Cardinality(P) \in Nat
  BY CountType DEF Count
<1>2. DOMAIN q = 1..Len(q)
  OBVIOUS
<1>3. P /= {}
  BY <1>2 DEF Contains
<1> HIDE DEF P
<1> QED
  BY <1>1, <1>3, FS_EmptySet

\* flushPendingRequests() runs what was collected before the channel was there.
LEMMA FlushPendingRequestsInv ==
    ASSUME IInv, FlushPendingRequests
    PROVE  IInv'
<1> USE DEF IInv
<1>1. /\ flushDue' = FALSE /\ StartRequests(Pending) /\ pendingRequests' = <<>>
      /\ UNCHANGED <<clientVars, toServer, toClient, registered, token, serverDisposed, boundVars,
                     historyVars>>
  BY DEF FlushPendingRequests, FlushedRequests
<1>2. Pending' = <<>> /\ PendingIds' = {} /\ UNCHANGED Asked
  BY <1>1 DEF Pending, PendingIds, ToSet, Asked, clientVars
<1>3. /\ Pending \in Seq(Ids) /\ (\A id : Contains(Pending, id) <=> id \in PendingIds)
      /\ ToSet(Pending) = PendingIds /\ PendingIds \subseteq Ids
  BY QueueTypes, PendingFacts
<1>4. /\ execution' = [c \in Calls |-> IF c \in PendingIds THEN "running" ELSE execution[c]]
      /\ subscriptions' = subscriptions + Count(Pending, EventId)
      /\ activeRequests' = activeRequests \cup PendingIds
  BY <1>1, <1>3 DEF StartRequests
<1>5. \A c \in Calls : c \in PendingIds =>
         /\ call[c] \notin {"none", "uninitialized"} /\ execution[c] = "none"
         /\ ~Contains(toServer, Request(c))
  BY DEF UnsentHasNoTrace, RequestedOnce
<1>6. SubscriptionsCounted' /\ subscriptions' \in 0..MaxListens
  <2>1. listens \in 0..MaxListens /\ MaxListens \in Nat /\ listens \in Nat
    BY BoundsAssumption DEF TypeOK
  <2>2. Count(Pending', EventId) = 0
    BY <1>2, CountEmpty
  <2>3. EventId \in PendingIds => Count(Pending, EventId) > 0
    BY <1>3, CountPositive
  <2>4. UNCHANGED <<uninitialized, listens, toServer>>
    BY <1>1 DEF clientVars, boundVars
  <2>5. /\ subscriptions' + Count(toServer, Request(EventId)) + Count(uninitialized, EventId)
              <= listens
        /\ subscriptions' \in 0..MaxListens
        /\ EventId \in activeRequests' => subscriptions' > 0
    BY <1>4, <2>1, <2>3, CountTypes DEF SubscriptionsCounted
  <2> QED
    BY <2>1, <2>2, <2>4, <2>5, CountTypes DEF SubscriptionsCounted
<1>7. TypeOK'
  <2>1. activeRequests' \subseteq Ids /\ execution' \in [Calls -> {"none", "running"} \cup Results]
    BY <1>3, <1>4 DEF TypeOK
  <2>2. pendingRequests' \in Seq([id : Ids, timer : BOOLEAN])
    BY <1>1
  <2> QED
    BY <1>1, <1>6, <2>1, <2>2 DEF TypeOK, clientVars, boundVars, historyVars
<1>8. UnsentHasNoTrace'
  BY <1>1, <1>2, <1>4, <1>5 DEF UnsentHasNoTrace, clientVars
<1>9. RequestedOnce'
  BY <1>1, <1>2, <1>4, <1>5 DEF RequestedOnce
<1>10. AnswersAreTrue'
  BY <1>1, <1>4, <1>5, QueueTypes DEF AnswersAreTrue, Results
<1>11. HandlerIsAwaited'
  <2> SUFFICES ASSUME NEW c \in handlers PROVE IsAwaited(c)'
    BY <1>1 DEF HandlerIsAwaited, clientVars
  <2>1. c \in Calls /\ IsAwaited(c)
    BY DEF TypeOK, HandlerIsAwaited
  <2>2. Contains(pendingRequests, [id |-> c, timer |-> TRUE]) => c \in PendingIds
    <3>1. \A i \in DOMAIN pendingRequests : pendingRequests[i].id \in PendingIds
      BY DEF PendingIds, Pending, ToSet
    <3>2. DOMAIN pendingRequests = 1..Len(pendingRequests)
      BY QueueTypes
    <3> QED
      BY <3>1, <3>2 DEF Contains
  <2> QED
    BY <1>1, <1>4, <2>1, <2>2 DEF IsAwaited, clientVars
<1>12. CancelFollows'
  BY <1>1, <1>2, <1>4, <1>5 DEF CancelFollows, clientVars, historyVars
<1>13. EventsTakeTurns'
  <2>1. UNCHANGED Heard
    BY <1>2, <1>4 DEF Heard
  <2>2. \E n \in BOOLEAN : /\ TakeTurns(toServer', n, Asked')
                           /\ ~serverDisposed' /\ n => Heard'
                           /\ ~serverDisposed' /\ EventId \notin missed' => n = Heard'
    BY <1>1, <1>2, <2>1 DEF EventsTakeTurns, historyVars
  <2>3. EventId \notin missed =>
           /\ subscriptions = (IF EventId \in activeRequests THEN 1 ELSE 0)
           /\ EventId \in activeRequests => EventId \notin PendingIds
           /\ Count(Pending, EventId) = IF EventId \in PendingIds THEN 1 ELSE 0
    BY <1>3, CountOne DEF EventsTakeTurns, AtMostOnce
  <2>4. AtMostOnce(<<>>, EventId)
    BY DEF AtMostOnce
  <2>5. EventId \notin missed =>
           subscriptions' = (IF EventId \in activeRequests' THEN 1 ELSE 0)
    BY <1>4, <2>3
  <2>6. EventId \notin missed' =>
           /\ subscriptions' = (IF EventId \in activeRequests' THEN 1 ELSE 0)
           /\ EventId \in activeRequests' => EventId \notin PendingIds'
           /\ AtMostOnce(Pending', EventId)
    BY <1>1, <1>2, <2>4, <2>5 DEF historyVars
  <2> QED
    BY <2>2, <2>6 DEF EventsTakeTurns
<1> QED
  BY <1>1, <1>6, <1>7, <1>8, <1>9, <1>10, <1>11, <1>12, <1>13, Frame
     DEF clientVars, boundVars, historyVars

\* The server sends responses: what the parts of the invariant about them need
LEMMA ResponsesSent ==
    ASSUME IInv, NEW r \in Seq(ClientMessage), toClient' = toClient \o r
    PROVE  /\ toClient' \in Seq(ClientMessage)
           /\ \A id : OnItsWay(toClient', id) <=> (OnItsWay(toClient, id) \/ OnItsWay(r, id))
           /\ Count(toClient', EventFire) = Count(toClient, EventFire) + Count(r, EventFire)
           /\ Count(toClient, EventFire) \in Nat /\ Count(r, EventFire) \in Nat
           /\ \A i \in DOMAIN toClient' : \/ \E j \in DOMAIN toClient : toClient'[i] = toClient[j]
                                          \/ \E j \in DOMAIN r : toClient'[i] = r[j]
<1>1. toClient \in Seq(ClientMessage)
  BY QueueTypes DEF IInv
<1>2. /\ DOMAIN toClient = 1..Len(toClient) /\ DOMAIN r = 1..Len(r)
      /\ Len(toClient) \in Nat /\ Len(r) \in Nat
      /\ DOMAIN (toClient \o r) = 1..(Len(toClient) + Len(r))
      /\ \A i \in 1..Len(toClient) : (toClient \o r)[i] = toClient[i]
      /\ \A i \in 1..(Len(toClient) + Len(r)) : i > Len(toClient) =>
            i - Len(toClient) \in 1..Len(r) /\ (toClient \o r)[i] = r[i - Len(toClient)]
  BY <1>1
<1>3. \A i \in DOMAIN toClient' : \/ \E j \in DOMAIN toClient : toClient'[i] = toClient[j]
                                  \/ \E j \in DOMAIN r : toClient'[i] = r[j]
  BY <1>2
<1>4. toClient' \in Seq(ClientMessage)
  BY <1>1
<1>5. \A id : OnItsWay(toClient', id) <=> (OnItsWay(toClient, id) \/ OnItsWay(r, id))
  BY <1>1, OnItsWayConcat
<1>6. Count(toClient', EventFire) = Count(toClient, EventFire) + Count(r, EventFire)
  BY <1>1, CountConcat
<1> QED
  BY <1>1, <1>3, <1>4, <1>5, <1>6, CountType

\* one response
LEMMA OneResponse ==
    ASSUME NEW x \in ClientMessage
    PROVE  /\ <<x>> \in Seq(ClientMessage) /\ DOMAIN <<x>> = {1} /\ <<x>>[1] = x
           /\ \A id : OnItsWay(<<x>>, id) <=> x.id = id
           /\ Count(<<x>>, EventFire) = IF x = EventFire THEN 1 ELSE 0
<1>1. <<x>> \in Seq(ClientMessage) /\ DOMAIN <<x>> = {1} /\ <<x>>[1] = x
  OBVIOUS
<1> QED
  BY <1>1, CountSingle DEF OnItsWay

\* A pending request times out and is answered with an error.
LEMMA PendingRequestTimeoutInv ==
    ASSUME IInv, NEW i \in DOMAIN pendingRequests, PendingRequestTimeout(i)
    PROVE  IInv'
<1> USE DEF IInv
<1> DEFINE id == pendingRequests[i].id
           r == TimeoutResponse(id)
<1>1. /\ pendingRequests' = [pendingRequests EXCEPT ![i].timer = FALSE]
      /\ toClient' = toClient \o r
      /\ UNCHANGED <<clientVars, toServer, registered, flushDue, activeRequests, execution, token,
                     subscriptions, serverDisposed, boundVars, historyVars>>
  BY DEF PendingRequestTimeout
<1>2. /\ pendingRequests \in Seq(PendingRequest) /\ DOMAIN pendingRequests = 1..Len(pendingRequests)
      /\ \A j \in DOMAIN pendingRequests : pendingRequests[j] \in PendingRequest
  BY QueueTypes
<1>3. /\ pendingRequests' \in Seq(PendingRequest)
      /\ DOMAIN pendingRequests' = DOMAIN pendingRequests /\ Len(pendingRequests') = Len(pendingRequests)
      /\ \A j \in DOMAIN pendingRequests : /\ pendingRequests'[j].id = pendingRequests[j].id
                                           /\ j /= i => pendingRequests'[j] = pendingRequests[j]
  <2>1. [pendingRequests[i] EXCEPT !.timer = FALSE] \in PendingRequest
    BY <1>2 DEF PendingRequest
  <2>2. [pendingRequests[i] EXCEPT !.timer = FALSE].id = pendingRequests[i].id
    BY <1>2 DEF PendingRequest
  <2>3. pendingRequests' = [pendingRequests EXCEPT ![i] = [pendingRequests[i] EXCEPT !.timer = FALSE]]
    BY <1>1
  <2> DEFINE y == [pendingRequests[i] EXCEPT !.timer = FALSE]
  <2> HIDE DEF y
  <2>4. y \in PendingRequest /\ y.id = pendingRequests[i].id
        /\ pendingRequests' = [pendingRequests EXCEPT ![i] = y]
    BY <2>1, <2>2, <2>3 DEF y
  <2>5. /\ pendingRequests' \in Seq(PendingRequest)
        /\ DOMAIN pendingRequests' = DOMAIN pendingRequests /\ Len(pendingRequests') = Len(pendingRequests)
    BY <1>2, <2>4
  <2> QED
    BY <1>2, <2>4, <2>5
<1>4. Pending' = Pending
  BY <1>3 DEF Pending
<1>5. UNCHANGED PendingIds
  BY <1>4 DEF PendingIds
<1>6. id \in PendingIds /\ id \in Ids
  BY <1>2 DEF PendingIds, Pending, ToSet, PendingRequest
<1>7. /\ r \in Seq(ClientMessage) /\ Count(r, EventFire) = 0
      /\ \A c \in Calls : OnItsWay(r, c) <=> c = id
      /\ \A j \in DOMAIN r : id \in Calls /\ r[j] = Response("PromiseError", id, "unknownChannel")
  <2> HIDE DEF id
  <2>1. CASE id \in Calls
    <3> DEFINE x == Response("PromiseError", id, "unknownChannel")
    <3>1. x \in ClientMessage /\ x.id = id /\ x /= EventFire
      BY <1>6, <2>1 DEF Response, ClientMessage, EventFire
    <3>2. r = <<x>>
      BY <2>1 DEF TimeoutResponse
    <3> HIDE DEF x, r
    <3>3. /\ <<x>> \in Seq(ClientMessage) /\ DOMAIN <<x>> = {1} /\ <<x>>[1] = x
          /\ (\A d : OnItsWay(<<x>>, d) <=> x.id = d)
          /\ Count(<<x>>, EventFire) = 0
      BY <3>1, OneResponse
    <3>4. \A j \in DOMAIN r : id \in Calls /\ r[j] = x
      BY <2>1, <3>2, <3>3
    <3>5. /\ r \in Seq(ClientMessage) /\ Count(r, EventFire) = 0
          /\ \A c \in Calls : OnItsWay(r, c) <=> c = id
      BY <3>1, <3>2, <3>3
    <3> QED
      BY <3>4, <3>5 DEF x
  <2>2. CASE id \notin Calls
    <3>1. r = <<>> /\ \A c : ~OnItsWay(<<>>, c)
      BY <2>2 DEF TimeoutResponse, OnItsWay
    <3> QED
      BY <2>2, <3>1, CountEmpty
  <2> QED
    BY <2>1, <2>2
<1> HIDE DEF r, id
<1>8. /\ toClient' \in Seq(ClientMessage)
      /\ \A c \in Calls : OnItsWay(toClient', c) <=> (OnItsWay(toClient, c) \/ c = id)
      /\ Count(toClient', EventFire) = Count(toClient, EventFire)
  <2>1. /\ toClient' \in Seq(ClientMessage)
        /\ \A c : OnItsWay(toClient', c) <=> (OnItsWay(toClient, c) \/ OnItsWay(r, c))
        /\ Count(toClient', EventFire) = Count(toClient, EventFire) + Count(r, EventFire)
        /\ Count(toClient, EventFire) \in Nat
    BY <1>1, <1>7, ResponsesSent
  <2> QED
    BY <1>7, <2>1
<1>9. TypeOK'
  BY <1>1, <1>3, <1>8 DEF TypeOK, clientVars, boundVars, historyVars, ClientMessage, PendingRequest
<1>10. UnsentHasNoTrace'
  BY <1>1, <1>5, <1>6, <1>8 DEF UnsentHasNoTrace, clientVars
<1>11. RequestedOnce'
  BY <1>1, <1>5 DEF RequestedOnce
<1>12. AnswersAreTrue'
  <2> SUFFICES ASSUME NEW j \in DOMAIN toClient'
               PROVE  IF toClient'[j].type \in {"PromiseSuccess", "PromiseError"}
                      THEN /\ toClient'[j].id \in Calls
                           /\ \/ toClient'[j].data = "unknownChannel"
                              \/ /\ toClient'[j].data \in Results
                                 /\ toClient'[j].data = execution[toClient'[j].id]
                      ELSE toClient'[j].id = EventId /\ toClient'[j].data = "none"
    BY <1>1 DEF AnswersAreTrue
  <2>1. CASE \E k \in DOMAIN toClient : toClient'[j] = toClient[k]
    BY <2>1 DEF AnswersAreTrue
  <2>2. CASE \E k \in DOMAIN r : toClient'[j] = r[k]
    BY <1>7, <2>2 DEF Response
  <2> QED
    BY <1>1, <1>7, <2>1, <2>2, ResponsesSent
<1>13. HandlerIsAwaited'
  <2> SUFFICES ASSUME NEW c \in handlers PROVE IsAwaited(c)'
    BY <1>1 DEF HandlerIsAwaited, clientVars
  <2>1. c \in Calls /\ IsAwaited(c)
    BY DEF TypeOK, HandlerIsAwaited
  <2>2. ASSUME Contains(pendingRequests, [id |-> c, timer |-> TRUE]), c /= id
        PROVE  Contains(pendingRequests', [id |-> c, timer |-> TRUE])
    <3>1. PICK j \in DOMAIN pendingRequests : pendingRequests[j] = [id |-> c, timer |-> TRUE]
      BY <1>2, <2>2 DEF Contains
    <3>2. j /= i
      BY <2>2, <3>1 DEF id
    <3> QED
      BY <1>2, <1>3, <3>1, <3>2 DEF Contains
  <2> QED
    BY <1>1, <1>8, <2>1, <2>2 DEF IsAwaited, clientVars
<1>14. CancelFollows'
  BY <1>1, <1>5 DEF CancelFollows, clientVars, historyVars
<1>15. SubscriptionsCounted'
  BY <1>1, <1>4 DEF SubscriptionsCounted, clientVars, boundVars
<1>16. EventsTakeTurns'
  <2>1. UNCHANGED <<Asked, Heard>>
    BY <1>1, <1>5 DEF Asked, Heard, clientVars
  <2> QED
    BY <1>1, <1>4, <1>5, <2>1 DEF EventsTakeTurns, historyVars
<1>17. HeardAsSent'
  BY <1>1, <1>8 DEF HeardAsSent, EventFire, boundVars, historyVars
<1> QED
  BY <1>1, <1>9, <1>10, <1>11, <1>12, <1>13, <1>14, <1>15, <1>16, <1>17, Frame DEF clientVars

\* A handler ends and its answer is sent, if the call is still active.
LEMMA CallEndsInv ==
    ASSUME IInv, NEW c \in Calls, NEW result \in Results, CallEnds(c, result)
    PROVE  IInv'
<1> USE DEF IInv
<1> DEFINE x == Response(IF result = "data" THEN "PromiseSuccess" ELSE "PromiseError", c, result)
           r == <<x>>
<1>1. /\ execution[c] = "running" /\ execution' = [execution EXCEPT ![c] = result]
      /\ activeRequests' = activeRequests \ {c} /\ toClient' = toClient \o r
      /\ UNCHANGED <<clientVars, toServer, registered, flushDue, pendingRequests, token,
                     subscriptions, serverDisposed, boundVars, historyVars>>
  BY DEF CallEnds, CallResponse
<1>2. /\ x \in ClientMessage /\ x.id = c /\ x.data = result /\ x /= EventFire
      /\ x.type \in {"PromiseSuccess", "PromiseError"}
  BY QueueTypes DEF Response, ClientMessage, EventFire, Results
<1> HIDE DEF x
<1>3. /\ r \in Seq(ClientMessage) /\ DOMAIN r = {1} /\ r[1] = x
      /\ (\A d : OnItsWay(r, d) <=> d = c) /\ Count(r, EventFire) = 0
  BY <1>2, OneResponse
<1> HIDE DEF r
<1>4. /\ toClient' \in Seq(ClientMessage)
      /\ \A d : OnItsWay(toClient', d) <=> (OnItsWay(toClient, d) \/ d = c)
      /\ Count(toClient', EventFire) = Count(toClient, EventFire)
  BY <1>1, <1>3, ResponsesSent
<1>5. UNCHANGED <<Pending, PendingIds, Asked>>
  BY <1>1 DEF Pending, PendingIds, Asked, clientVars
<1>6. /\ execution' \in [Calls -> {"none", "running"} \cup Results] /\ execution'[c] = result
      /\ \A d \in Calls : d /= c => execution'[d] = execution[d]
      /\ result \notin {"none", "running"}
  BY <1>1 DEF TypeOK, Results
<1>7. /\ call[c] \notin {"none", "uninitialized"}
      /\ ~Contains(toServer, Request(c)) /\ c \notin PendingIds
  BY <1>1 DEF UnsentHasNoTrace, RequestedOnce
<1>8. EventId \notin Calls
  BY QueueTypes
<1>9. TypeOK'
  BY <1>1, <1>4, <1>6 DEF TypeOK, clientVars, boundVars, historyVars, ClientMessage
<1>10. UnsentHasNoTrace'
  BY <1>1, <1>4, <1>5, <1>6, <1>7 DEF UnsentHasNoTrace, clientVars
<1>11. RequestedOnce'
  BY <1>1, <1>5, <1>6, <1>7 DEF RequestedOnce
<1>12. AnswersAreTrue'
  <2> SUFFICES ASSUME NEW j \in DOMAIN toClient'
               PROVE  IF toClient'[j].type \in {"PromiseSuccess", "PromiseError"}
                      THEN /\ toClient'[j].id \in Calls
                           /\ \/ toClient'[j].data = "unknownChannel"
                              \/ /\ toClient'[j].data \in Results
                                 /\ toClient'[j].data = execution'[toClient'[j].id]
                      ELSE toClient'[j].id = EventId /\ toClient'[j].data = "none"
    BY DEF AnswersAreTrue
  <2>1. CASE \E k \in DOMAIN toClient : toClient'[j] = toClient[k]
    <3>1. PICK k \in DOMAIN toClient : toClient'[j] = toClient[k]
      BY <2>1
    <3>2. toClient[k].id = c => ~(toClient[k].data \in Results /\ toClient[k].data = execution[c])
      BY <1>1 DEF Results
    <3> QED
      BY <1>6, <3>1, <3>2 DEF AnswersAreTrue
  <2>2. CASE \E k \in DOMAIN r : toClient'[j] = r[k]
    BY <1>2, <1>3, <1>6, <2>2
  <2> QED
    BY <1>1, <1>3, <2>1, <2>2, ResponsesSent
<1>13. HandlerIsAwaited'
  <2> SUFFICES ASSUME NEW d \in handlers PROVE IsAwaited(d)'
    BY <1>1 DEF HandlerIsAwaited, clientVars
  <2>1. d \in Calls /\ IsAwaited(d)
    BY DEF TypeOK, HandlerIsAwaited
  <2> QED
    BY <1>1, <1>4, <1>6, <2>1 DEF IsAwaited, clientVars
<1>14. CancelFollows'
  BY <1>1, <1>5, <1>6, <1>7 DEF CancelFollows, clientVars, historyVars
<1>15. SubscriptionsCounted'
  BY <1>1, <1>5, <1>8 DEF SubscriptionsCounted, clientVars, boundVars
<1>16. EventsTakeTurns'
  <2>1. UNCHANGED Heard /\ (EventId \in activeRequests' <=> EventId \in activeRequests)
    BY <1>1, <1>5, <1>8 DEF Heard
  <2> QED
    BY <1>1, <1>5, <2>1 DEF EventsTakeTurns, historyVars
<1>17. HeardAsSent'
  BY <1>1, <1>4 DEF HeardAsSent, EventFire, boundVars, historyVars
<1> QED
  BY <1>1, <1>9, <1>10, <1>11, <1>12, <1>13, <1>14, <1>15, <1>16, <1>17, Frame DEF clientVars

\* An event is sent to the subscription that is in force.
LEMMA EventFiresInv ==
    ASSUME IInv, EventFires
    PROVE  IInv'
<1> USE DEF IInv
<1> DEFINE r == [i \in 1..subscriptions |-> EventFire]
<1>1. /\ fires < MaxFires /\ subscriptions > 0 /\ fires' = fires + 1 /\ toClient' = toClient \o r
      /\ UNCHANGED <<clientVars, toServer, serverVars, listens, registrations, historyVars>>
  BY DEF EventFires, EventFire
<1>2. /\ fires \in Nat /\ fires' \in 0..MaxFires /\ heard \in Nat /\ subscriptions \in Nat
  BY <1>1, BoundsAssumption DEF TypeOK
<1>3. /\ EventFire \in ClientMessage /\ EventFire.id = EventId /\ EventFire.data = "none"
      /\ EventFire.type = "EventFire"
  BY QueueTypes DEF EventFire, Response, ClientMessage
<1>4. /\ r \in Seq(ClientMessage) /\ DOMAIN r = 1..subscriptions
      /\ \A i \in DOMAIN r : r[i] = EventFire
  BY <1>2, <1>3
<1> HIDE DEF r
<1>5. \A id : OnItsWay(r, id) => id = EventId
  BY <1>3, <1>4 DEF OnItsWay
<1>6. subscriptions = 1 => Count(r, EventFire) = 1
  <2>1. subscriptions = 1 => Contains(r, EventFire) /\ \A i, j \in DOMAIN r : i = j
    BY <1>4 DEF Contains
  <2> QED
    BY <1>4, <2>1, CountOne
<1>7. /\ toClient' \in Seq(ClientMessage)
      /\ \A id : OnItsWay(toClient', id) <=> (OnItsWay(toClient, id) \/ OnItsWay(r, id))
      /\ Count(toClient', EventFire) = Count(toClient, EventFire) + Count(r, EventFire)
      /\ Count(toClient, EventFire) \in Nat
  BY <1>1, <1>4, ResponsesSent
<1>8. UNCHANGED PendingIds /\ EventId \notin Calls
  BY <1>1, QueueTypes DEF PendingIds, Pending, serverVars
<1>9. TypeOK'
  BY <1>1, <1>2, <1>7 DEF TypeOK, clientVars, serverVars, historyVars, ClientMessage
<1>10. UnsentHasNoTrace'
  BY <1>1, <1>5, <1>7, <1>8 DEF UnsentHasNoTrace, clientVars, serverVars
<1>11. AnswersAreTrue'
  <2> SUFFICES ASSUME NEW j \in DOMAIN toClient'
               PROVE  IF toClient'[j].type \in {"PromiseSuccess", "PromiseError"}
                      THEN /\ toClient'[j].id \in Calls
                           /\ \/ toClient'[j].data = "unknownChannel"
                              \/ /\ toClient'[j].data \in Results
                                 /\ toClient'[j].data = execution[toClient'[j].id]
                      ELSE toClient'[j].id = EventId /\ toClient'[j].data = "none"
    BY <1>1 DEF AnswersAreTrue, serverVars
  <2>1. CASE \E k \in DOMAIN toClient : toClient'[j] = toClient[k]
    BY <2>1 DEF AnswersAreTrue
  <2>2. CASE \E k \in DOMAIN r : toClient'[j] = r[k]
    BY <1>3, <1>4, <2>2
  <2> QED
    BY <1>1, <1>4, <2>1, <2>2, ResponsesSent
<1>12. HandlerIsAwaited'
  <2> SUFFICES ASSUME NEW d \in handlers PROVE IsAwaited(d)'
    BY <1>1 DEF HandlerIsAwaited, clientVars
  <2>1. IsAwaited(d)
    BY DEF HandlerIsAwaited
  <2> QED
    BY <1>1, <1>7, <2>1 DEF IsAwaited, clientVars, serverVars
<1>13. HeardAsSent'
  <2>1. EventId \notin missed => subscriptions = 1
    BY <1>1 DEF EventsTakeTurns
  <2>2. EventId \notin missed => heard + Count(toClient, EventFire) <= fires
    BY DEF HeardAsSent, EventFire
  <2>3. EventId \notin missed => heard + Count(toClient', EventFire) <= fires'
    BY <1>1, <1>2, <1>6, <1>7, <2>1, <2>2
  <2> QED
    BY <1>1, <2>3 DEF HeardAsSent, EventFire, historyVars
<1> QED
  BY <1>1, <1>9, <1>10, <1>11, <1>12, <1>13, Frame DEF clientVars, serverVars, historyVars

\* dispose() of the server stops what is active.
LEMMA ServerDisposeInv ==
    ASSUME IInv, ServerDispose
    PROVE  IInv'
<1> USE DEF IInv
<1>1. /\ serverDisposed' = TRUE /\ token' = token \cup (activeRequests \cap Calls)
      /\ subscriptions' = (IF EventId \in activeRequests THEN subscriptions - 1 ELSE subscriptions)
      /\ activeRequests' = {}
      /\ UNCHANGED <<clientVars, toServer, toClient, registered, flushDue, pendingRequests,
                     execution, boundVars, historyVars>>
  BY DEF ServerDispose
<1>2. UNCHANGED <<Pending, PendingIds, Asked>>
  BY <1>1 DEF Pending, PendingIds, Asked, clientVars
<1>3. subscriptions' \in 0..MaxListens /\ subscriptions' <= subscriptions
  BY <1>1, BoundsAssumption DEF TypeOK, SubscriptionsCounted
<1>4. TypeOK'
  BY <1>1, <1>3 DEF TypeOK, clientVars, boundVars, historyVars
<1>5. HandlerIsAwaited'
  BY <1>1 DEF HandlerIsAwaited, IsAwaited
<1>6. CancelFollows'
  BY <1>1 DEF CancelFollows
<1>7. SubscriptionsCounted'
  <2>1. listens \in Nat /\ subscriptions' \in Nat /\ UNCHANGED <<listens, uninitialized>>
    BY <1>1, <1>3, BoundsAssumption DEF TypeOK, boundVars, clientVars
  <2> QED
    BY <1>1, <1>2, <1>3, <2>1, CountTypes DEF SubscriptionsCounted
<1>8. EventsTakeTurns'
  BY <1>1, <1>2 DEF EventsTakeTurns, historyVars
<1> QED
  BY <1>1, <1>4, <1>5, <1>6, <1>7, <1>8, Frame DEF clientVars, boundVars, historyVars

-----------------------------------------------------------------------------
(* The theorems                                                            *)

\* The invariant holds initially.
LEMMA InitIInv ==
    ASSUME Init
    PROVE  IInv
<1> DEFINE x == Initialize
           r == <<x>>
<1>1. x \in ClientMessage /\ x.id = EventId /\ x.data = "none" /\ x.type = "Initialize" /\ x /= EventFire
  BY CallsAssumption DEF Initialize, Response, ClientMessage, EventFire, Ids
<1>2. toClient = r
  BY DEF Init
<1> HIDE DEF x
<1>3. /\ r \in Seq(ClientMessage) /\ DOMAIN r = {1} /\ r[1] = x
      /\ (\A d : OnItsWay(r, d) <=> d = EventId) /\ Count(r, EventFire) = 0
  BY <1>1, OneResponse
<1> HIDE DEF r
<1>4. Pending = <<>> /\ PendingIds = {}
  BY DEF Init, Pending, PendingIds, ToSet
<1>5. /\ (\A e : ~Contains(<<>>, e)) /\ (\A d : ~OnItsWay(<<>>, d))
      /\ (\A e : AtMostOnce(<<>>, e)) /\ (\A e, f : InOrder(<<>>, e, f))
      /\ <<>> \in Seq(Ids) /\ <<>> \in Seq(ServerMessage) /\ IsInjective(<<>>)
  BY DEF Contains, OnItsWay, AtMostOnce, InOrder, IsInjective
<1>6. EventId \notin Calls /\ 0 \in 0..MaxListens /\ 0 \in 0..MaxFires /\ 0 \in 0..MaxRegistrations
  BY CallsAssumption, BoundsAssumption
<1>7. TypeOK
  <2>1. <<>> \in Seq([id : Ids, timer : BOOLEAN])
    OBVIOUS
  <2> QED
    BY <1>2, <1>3, <1>5, <1>6, <2>1 DEF Init, TypeOK, ServerMessage, ClientMessage
<1>8. UnsentHasNoTrace /\ UninitializedWaits /\ RequestedOnce /\ CancelFollows
  BY <1>2, <1>3, <1>4, <1>5, <1>6
     DEF Init, UnsentHasNoTrace, UninitializedWaits, RequestedOnce, CancelFollows
<1>9. AnswersAreTrue
  BY <1>1, <1>2, <1>3 DEF AnswersAreTrue
<1>10. HandlerIsAwaited
  BY DEF Init, HandlerIsAwaited
<1>11. SubscriptionsCounted
  BY <1>4, CountEmpty DEF Init, SubscriptionsCounted
<1>12. EventsTakeTurns
  <2>1. Asked = FALSE /\ Heard = FALSE
    BY <1>4 DEF Init, Asked, Heard
  <2>2. TakeTurns(<<>>, FALSE, FALSE)
    BY <1>5, TurnsNone
  <2> QED
    BY <1>4, <1>5, <2>1, <2>2 DEF Init, EventsTakeTurns
<1>13. HeardAsSent
  BY <1>2, <1>3 DEF Init, HeardAsSent, EventFire
<1> QED
  BY <1>7, <1>8, <1>9, <1>10, <1>11, <1>12, <1>13 DEF IInv

\* Every step keeps the invariant.
LEMMA NextIInv ==
    ASSUME IInv, [Next]_vars
    PROVE  IInv'
<1>1. CASE UNCHANGED vars
  <2>1. TypeOK'
    BY <1>1 DEF IInv, TypeOK, vars, clientVars, serverVars, boundVars, historyVars
  <2> QED
    BY <1>1, <2>1, Frame DEF IInv, vars, clientVars, serverVars, boundVars, historyVars
<1>2. ASSUME NEW c \in Calls, RequestPromise(c) \/ CancelCall(c) PROVE IInv'
  BY <1>2, RequestPromiseInv, CancelCallInv
<1>3. CASE AddFirstListener \/ RemoveLastListener
  BY <1>3, AddFirstListenerInv, RemoveLastListenerInv
<1>4. CASE OnResponse \/ ClientDispose
  BY <1>4, OnResponseInv, ClientDisposeInv
<1>5. CASE OnRawMessage \/ RegisterChannel \/ FlushPendingRequests
  BY <1>5, OnRawMessageInv, RegisterChannelInv, FlushPendingRequestsInv
<1>6. ASSUME NEW i \in DOMAIN pendingRequests, PendingRequestTimeout(i) PROVE IInv'
  BY <1>6, PendingRequestTimeoutInv
<1>7. ASSUME NEW c \in Calls, NEW result \in Results, CallEnds(c, result) PROVE IInv'
  BY <1>7, CallEndsInv
<1>8. CASE EventFires \/ ServerDispose
  BY <1>8, EventFiresInv, ServerDisposeInv
<1> QED
  BY <1>1, <1>2, <1>3, <1>4, <1>5, <1>6, <1>7, <1>8 DEF Next

\* The invariant is inductive: ChannelClient and ChannelServer agree on where each
\* request is, on what the answers on their way say, and on who listens to the
\* event, whatever the order of messages, registrations, timers and disposals.
THEOREM ChannelsInvariant == Spec => []IInv
<1>1. Init => IInv
  BY InitIInv
<1>2. IInv /\ [Next]_vars => IInv'
  BY NextIInv
<1> QED
  BY <1>1, <1>2, PTL DEF Spec

\* No handler of ChannelClient waits for an answer that nobody will send: not when
\* its call was cancelled, nor when the request waited for a channel or timed out.
THEOREM HandlersAreAwaited == Spec => []HandlerIsAwaited
<1>1. IInv => HandlerIsAwaited
  BY DEF IInv
<1> QED
  BY <1>1, ChannelsInvariant, PTL

\* The token of a call that was cancelled and runs is cancelled, once the
\* cancellation has arrived and did not come while the request was pending.
THEOREM CancellationsAreTold == Spec => []CancelIsTold
<1>1. IInv => CancelIsTold
  <2> SUFFICES ASSUME IInv, NEW c \in Calls, call[c] = "cancelled", execution[c] = "running",
                      ~serverDisposed, ~OnItsWay(toServer, c), c \notin missed
               PROVE  c \in token
    BY DEF CancelIsTold
  <2>1. ~Contains(toServer, Dispose(c))
    BY QueueTypes, ContainsOnItsWay DEF IInv
  <2> QED
    BY <2>1 DEF IInv, CancelFollows
<1> QED
  BY <1>1, ChannelsInvariant, PTL

\* However often the event's listener comes and goes, the server has one
\* subscription while the client listens and none otherwise, and no event is
\* heard twice, unless a dispose arrived while the request was pending.
THEOREM SubscriptionsMatch == Spec => []SubscriptionMatches
<1>1. IInv => ListensTogether
  <2> SUFFICES ASSUME IInv, state = "idle", ~OnItsWay(toServer, EventId),
                      EventId \notin PendingIds, ~serverDisposed
               PROVE  /\ listening => EventId \in activeRequests
                      /\ EventId \in missed \/ subscriptions = (IF listening THEN 1 ELSE 0)
    BY DEF ListensTogether
  <2>1. PICK told \in BOOLEAN : /\ TakeTurns(toServer, told, Asked)
                                /\ ~serverDisposed /\ told => Heard
                                /\ ~serverDisposed /\ EventId \notin missed => told = Heard
    BY DEF IInv, EventsTakeTurns
  <2>2. NoEventMessage(toServer, 1, Len(toServer))
    BY DEF NoEventMessage, IsEventMessage, OnItsWay
  <2>3. told = Asked
    BY <2>1, <2>2 DEF TakeTurns
  <2>4. Asked = listening
    <3>1. uninitialized = <<>> /\ listening \in BOOLEAN
      BY DEF IInv, UninitializedWaits, TypeOK
    <3> QED
      BY <3>1 DEF Asked, Contains
  <2>5. Heard <=> EventId \in activeRequests
    BY DEF Heard
  <2>6. EventId \notin missed => subscriptions = (IF EventId \in activeRequests THEN 1 ELSE 0)
    BY DEF IInv, EventsTakeTurns
  <2> QED
    BY <2>1, <2>3, <2>4, <2>5, <2>6
<1>2. IInv => HeardOnce
  <2> SUFFICES ASSUME IInv, EventId \notin missed PROVE heard <= fires
    BY DEF HeardOnce
  <2>1. heard \in Nat /\ fires \in Nat /\ toClient \in Seq(ClientMessage)
    BY BoundsAssumption, QueueTypes DEF IInv, TypeOK
  <2>2. Count(toClient, EventFire) \in Nat
    BY <2>1, CountType
  <2>3. heard + Count(toClient, EventFire) <= fires
    BY DEF IInv, HeardAsSent, EventFire
  <2> QED
    BY <2>1, <2>2, <2>3
<1>3. IInv => SubscriptionMatches
  BY <1>1, <1>2 DEF SubscriptionMatches
<1> QED
  BY <1>3, ChannelsInvariant, PTL

-----------------------------------------------------------------------------
(* Client and server implement remote calls                                *)

\* What the caller knows changes with the promise of a call.
LEMMA CallerFacts ==
    ASSUME IInv
    PROVE  /\ \A c \in Calls : /\ Caller[c] = "waiting" <=> call[c] \in {"uninitialized", "sent"}
                               /\ Caller[c] = "none" <=> call[c] = "none"
           /\ UNCHANGED call => UNCHANGED Caller
           /\ \A c \in Calls : \A v : call' = [call EXCEPT ![c] = v] =>
                 Caller' = [Caller EXCEPT ![c] = IF v \in {"uninitialized", "sent"} THEN "waiting"
                                                 ELSE v]
<1>1. call \in [Calls -> {"none", "uninitialized", "sent", "unknownChannel", "cancelled"}
                          \cup Results]
  BY DEF IInv, TypeOK
<1>2. \A c \in Calls : /\ Caller[c] = "waiting" <=> call[c] \in {"uninitialized", "sent"}
                       /\ Caller[c] = "none" <=> call[c] = "none"
  BY <1>1 DEF Caller, Results
<1>3. UNCHANGED call => UNCHANGED Caller
  BY DEF Caller
<1>4. ASSUME NEW c \in Calls, NEW v, call' = [call EXCEPT ![c] = v]
      PROVE  Caller' = [Caller EXCEPT ![c] = IF v \in {"uninitialized", "sent"} THEN "waiting"
                                             ELSE v]
  BY <1>1, <1>4 DEF Caller
<1> QED
  BY <1>2, <1>3, <1>4

\* Requests that are started, once each
LEMMA StartRefines ==
    ASSUME IInv, UNCHANGED call, NEW cs \in SUBSET Calls,
           execution' = [c \in Calls |-> IF c \in cs THEN "running" ELSE execution[c]],
           \A c \in cs : call[c] /= "none" /\ execution[c] = "none"
    PROVE  Remote!Next
<1>1. Remote!Start(cs)
  BY CallerFacts DEF Remote!Start
<1> QED
  BY <1>1 DEF Remote!Next

\* Steps of the client are steps of remote calls, or nothing to them.
LEMMA ClientRefines ==
    ASSUME IInv,
           \/ \E c \in Calls : RequestPromise(c) \/ CancelCall(c)
           \/ AddFirstListener \/ RemoveLastListener \/ OnResponse \/ ClientDispose
    PROVE  Remote!Next \/ UNCHANGED Remote!vars
<1>0. call \in [Calls -> {"none", "uninitialized", "sent", "unknownChannel", "cancelled"}
                          \cup Results]
  BY DEF IInv, TypeOK
<1>1. ASSUME NEW c \in Calls, RequestPromise(c)
      PROVE  Remote!Next
  <2>1. /\ call[c] = "none" /\ UNCHANGED execution
        /\ \E v \in {"cancelled", "sent", "uninitialized"} : call' = [call EXCEPT ![c] = v]
    BY <1>1 DEF RequestPromise, serverVars
  <2>2. /\ Caller[c] = "none"
        /\ \E s \in {"waiting", "cancelled"} : Caller' = [Caller EXCEPT ![c] = s]
    BY <2>1, CallerFacts, ZenonT(30)
  <2>3. Remote!Call(c)
    BY <2>1, <2>2 DEF Remote!Call
  <2> QED
    BY <2>3 DEF Remote!Next
<1>2. ASSUME NEW c \in Calls, CancelCall(c)
      PROVE  Remote!Next
  <2>1. /\ call[c] \in {"uninitialized", "sent"} /\ UNCHANGED execution
        /\ call' = [call EXCEPT ![c] = "cancelled"]
    BY <1>2 DEF CancelCall, serverVars
  <2>2. /\ Caller[c] = "waiting"
        /\ Caller' = [d \in Calls |-> IF d \in {c} THEN "cancelled" ELSE Caller[d]]
    <3>1. Caller[c] = "waiting" /\ Caller' = [Caller EXCEPT ![c] = "cancelled"]
      BY <2>1, CallerFacts
    <3>2. Caller = [d \in Calls |-> Caller[d]]
      BY DEF Caller
    <3> QED
      BY <3>1, <3>2
  <2>3. Remote!Cancel({c}) /\ {c} \in SUBSET Remote!Waiting
    BY <2>1, <2>2 DEF Remote!Cancel, Remote!Waiting
  <2> QED
    BY <2>3 DEF Remote!Next
<1>3. CASE AddFirstListener \/ RemoveLastListener
  <2>1. UNCHANGED <<call, execution>>
    BY <1>3 DEF AddFirstListener, RemoveLastListener, serverVars
  <2> QED
    BY <2>1, CallerFacts DEF Remote!vars
<1>4. CASE ClientDispose
  <2>1. /\ UNCHANGED execution
        /\ call' = [c \in Calls |-> IF c \in DisposedCalls THEN "cancelled" ELSE call[c]]
    BY <1>4 DEF ClientDispose, serverVars
  <2>2. Caller' = [c \in Calls |-> IF c \in DisposedCalls THEN "cancelled" ELSE Caller[c]]
    BY <2>1 DEF Caller, DisposedCalls
  <2>3. DisposedCalls \in SUBSET Remote!Waiting
    BY CallerFacts DEF DisposedCalls, Remote!Waiting
  <2>4. Remote!Cancel(DisposedCalls)
    BY <2>1, <2>2 DEF Remote!Cancel
  <2> QED
    BY <2>3, <2>4 DEF Remote!Next
<1>5. CASE OnResponse
  <2>1. toClient /= <<>> /\ toClient' = Tail(toClient) /\ UNCHANGED execution
    BY <1>5 DEF OnResponse, serverVars
  <2>2. CASE UNCHANGED call
    BY <2>1, <2>2, CallerFacts DEF Remote!vars
  <2>3. CASE OnInitialize
    <3>1. \A c \in Calls : call[c] = "uninitialized" <=> Contains(uninitialized, c)
      BY DEF IInv, UninitializedWaits
    <3>2. UNCHANGED Caller
      BY <1>0, <2>3, <3>1 DEF OnInitialize, Caller
    <3> QED
      BY <2>1, <3>2 DEF Remote!vars
  <2>4. CASE /\ Head(toClient).type \in {"PromiseSuccess", "PromiseError"}
             /\ OnPromiseResponse(Head(toClient)) /\ ~UNCHANGED call
    <3> DEFINE c == Head(toClient).id
               data == Head(toClient).data
    <3>1. /\ c \in Calls
          /\ data = "unknownChannel" \/ (data \in Results /\ data = execution[c])
          /\ c \in handlers /\ ~Settled(c) /\ call' = [call EXCEPT ![c] = data]
      BY <2>1, <2>4, ResponseTaken DEF OnPromiseResponse
    <3> HIDE DEF c, data
    <3>2. call[c] \in {"uninitialized", "sent"}
      BY <3>1 DEF Settled, IInv, UnsentHasNoTrace
    <3>3. c \in Remote!Waiting /\ Caller' = [Caller EXCEPT ![c] = data]
      BY <3>1, <3>2, CallerFacts DEF Remote!Waiting, Results
    <3>4. CASE data = "unknownChannel"
      <4>1. Remote!Refuse(c)
        BY <2>1, <3>3, <3>4 DEF Remote!Refuse
      <4> QED
        BY <3>1, <4>1 DEF Remote!Next
    <3>5. CASE data \in Results /\ data = execution[c]
      <4>1. Remote!Return(c)
        BY <2>1, <3>3, <3>5 DEF Remote!Return, Remote!Results, Results
      <4> QED
        BY <3>1, <4>1 DEF Remote!Next
    <3> QED
      BY <3>1, <3>4, <3>5
  <2> QED
    BY <1>5, <2>2, <2>3, <2>4 DEF OnResponse
<1> QED
  BY <1>1, <1>2, <1>3, <1>4, <1>5

\* Steps of the server are steps of remote calls, or nothing to them.
LEMMA ServerRefines ==
    ASSUME IInv,
           \/ OnRawMessage \/ RegisterChannel \/ FlushPendingRequests
           \/ \E i \in DOMAIN pendingRequests : PendingRequestTimeout(i)
           \/ \E c \in Calls, result \in Results : CallEnds(c, result)
           \/ EventFires \/ ServerDispose
    PROVE  Remote!Next \/ UNCHANGED Remote!vars
<1>0. execution \in [Calls -> {"none", "running"} \cup Results] /\ EventId \notin Calls
  BY CallsAssumption DEF IInv, TypeOK
<1>1. CASE UNCHANGED <<call, execution>>
  BY <1>1, CallerFacts DEF Remote!vars
<1>2. CASE OnRawMessage
  <2> DEFINE request == Head(toServer)
             id == Head(toServer).id
  <2>1. toServer /= <<>> /\ toServer' = Tail(toServer) /\ UNCHANGED call
    BY <1>2 DEF OnRawMessage, clientVars
  <2>2. id \in Ids /\ (request = Request(id) \/ request = Dispose(id)) /\ OnItsWay(toServer, id)
        /\ \A e : request = e => Contains(toServer, e)
    BY <2>1, RequestTaken
  <2>3. /\ Request(id).type \in {"Promise", "EventListen"}
        /\ Dispose(id).type \in {"PromiseCancel", "EventDispose"}
    <3> HIDE DEF id
    <3> QED
      BY DEF Request, Dispose
  <2>4. CASE request.type \in {"Promise", "EventListen"} /\ StartRequests(<<id>>)
    <3>1. Contains(toServer, Request(id))
      BY <2>2, <2>3, <2>4
    <3> HIDE DEF id, request
    <3>2. execution' = [c \in Calls |-> IF c \in {id} \cap Calls THEN "running" ELSE execution[c]]
      BY <2>4 DEF StartRequests, Contains
    <3>3. \A c \in {id} \cap Calls : call[c] /= "none" /\ execution[c] = "none"
      BY <2>2, <3>1 DEF IInv, UnsentHasNoTrace, RequestedOnce
    <3> QED
      BY <2>1, <3>2, <3>3, StartRefines
  <2>5. CASE UNCHANGED execution
    BY <1>1, <2>1, <2>5
  <2> QED
    BY <1>2, <2>4, <2>5 DEF OnRawMessage, OnRequest
<1>3. CASE FlushPendingRequests
  <2>1. StartRequests(Pending) /\ UNCHANGED call
    BY <1>3 DEF FlushPendingRequests, clientVars
  <2>2. \A c : Contains(Pending, c) <=> c \in PendingIds
    BY QueueTypes, PendingFacts DEF IInv
  <2>3. execution' = [c \in Calls |-> IF c \in PendingIds \cap Calls THEN "running" ELSE execution[c]]
    BY <2>1, <2>2 DEF StartRequests
  <2>4. \A c \in PendingIds \cap Calls : call[c] /= "none" /\ execution[c] = "none"
    BY DEF IInv, UnsentHasNoTrace, RequestedOnce
  <2> QED
    BY <2>1, <2>3, <2>4, StartRefines
<1>4. ASSUME NEW c \in Calls, NEW result \in Results, CallEnds(c, result)
      PROVE  Remote!Next
  <2>1. /\ execution[c] = "running" /\ execution' = [execution EXCEPT ![c] = result]
        /\ UNCHANGED Caller
    BY <1>4, CallerFacts DEF CallEnds, clientVars
  <2>2. Remote!Finish(c)
    BY <2>1 DEF Remote!Finish, Remote!Results, Results
  <2> QED
    BY <2>2 DEF Remote!Next
<1>5. CASE RegisterChannel \/ EventFires \/ ServerDispose
  BY <1>1, <1>5 DEF RegisterChannel, EventFires, ServerDispose, clientVars, serverVars
<1>6. ASSUME NEW i \in DOMAIN pendingRequests, PendingRequestTimeout(i)
      PROVE  UNCHANGED <<call, execution>>
  BY <1>6 DEF PendingRequestTimeout, clientVars
<1> QED
  BY <1>1, <1>2, <1>3, <1>4, <1>5, <1>6

\* Calls over channels are remote calls: the server runs each at most once and only
\* after it was made, its promise is settled once, and a call that returns gives
\* what its own run gave.
THEOREM ChannelsImplementRemoteCalls == Spec => ImplementsRemoteCalls
<1>1. Init => Remote!Init
  BY DEF Init, Remote!Init, Caller
<1>2. IInv /\ [Next]_vars => [Remote!Next]_(Remote!vars)
  <2> SUFFICES ASSUME IInv, [Next]_vars
               PROVE  Remote!Next \/ UNCHANGED Remote!vars
    OBVIOUS
  <2>1. CASE UNCHANGED vars
    BY <2>1, CallerFacts DEF vars, clientVars, serverVars, Remote!vars
  <2>2. CASE \/ \E c \in Calls : RequestPromise(c) \/ CancelCall(c)
             \/ AddFirstListener \/ RemoveLastListener \/ OnResponse \/ ClientDispose
    BY <2>2, ClientRefines
  <2>3. CASE \/ OnRawMessage \/ RegisterChannel \/ FlushPendingRequests
             \/ \E i \in DOMAIN pendingRequests : PendingRequestTimeout(i)
             \/ \E c \in Calls, result \in Results : CallEnds(c, result)
             \/ EventFires \/ ServerDispose
    BY <2>3, ServerRefines
  <2> QED
    BY <2>1, <2>2, <2>3 DEF Next
<1> QED
  BY <1>1, <1>2, ChannelsInvariant, PTL DEF Spec, ImplementsRemoteCalls, Remote!Spec
=============================================================================
