---------------------- MODULE WorkingCopyBackup_proofs ----------------------
(***************************************************************************)
(* The inductive invariant of WorkingCopyBackup, for any number of working  *)
(* copies and all bounds, and from it: what the service says it has backed  *)
(* up is in the file, backups do not outlive their reason, the ones that    *)
(* were not restored are kept, and closing the window loses no edit.        *)
(***************************************************************************)
EXTENDS WorkingCopyBackup, TLAPS

\* No one waits for an operation of this queue
Quiet(queue) == \A i \in 1..Len(queue) : queue[i].by \notin {"tracker", "shutdown"}

-----------------------------------------------------------------------------
(* Queues of file operations                                               *)

\* The fields of a file operation
LEMMA OperationType ==
    ASSUME NEW q \in Seq(IoOperation), NEW i \in 1..Len(q)
    PROVE  /\ q[i] \in IoOperation
           /\ q[i].op \in {"write", "delete"}
           /\ q[i].text \in Texts \cup {NoBackup}
           /\ q[i].version \in Versions \cup {NoEntry}
           /\ q[i].by \in {"tracker", "shutdown", "discards", "cancelled"}
<1>1. q[i] \in IoOperation
  OBVIOUS
<1> QED
  BY <1>1 DEF IoOperation

\* A write of a backup is an operation of the queue.
LEMMA WriteType ==
    ASSUME NEW text \in Texts, NEW version \in Versions,
           NEW by \in {"tracker", "shutdown", "discards", "cancelled"}
    PROVE  /\ Write(text, version, by) \in IoOperation
           /\ Write(text, version, by).op = "write"
           /\ Write(text, version, by).text = text
           /\ Write(text, version, by).version = version
           /\ Write(text, version, by).by = by
  BY DEF Write, IoOperation

\* So is a delete.
LEMMA DeleteType ==
    ASSUME NEW by \in {"tracker", "shutdown", "discards", "cancelled"}
    PROVE  /\ Delete(by) \in IoOperation
           /\ Delete(by).op = "delete"
           /\ Delete(by).text = NoBackup
           /\ Delete(by).version = NoEntry
           /\ Delete(by).by = by
  BY DEF Delete, IoOperation

\* The versions and the texts are numbers
LEMMA Numbers ==
    /\ NoEntry \in Int /\ NoBackup \in Int /\ Corrupt \in Int
    /\ NoBackup \notin Texts /\ Corrupt \notin Texts /\ NoEntry \notin Versions
    /\ Versions \subseteq Nat /\ Texts \subseteq Nat /\ NoEntry < 0
    /\ 0 \in Texts /\ 0 \in Versions
    /\ \A v \in Versions \cup {NoEntry} : v \in Int
    /\ \A v \in Versions : v \in Nat
  BY BoundsAssumption DEF NoEntry, NoBackup, Corrupt, Texts, Versions

\* What is left of a queue after a cancellation
LEMMA CancelledIs ==
    ASSUME NEW q \in Seq(IoOperation), NEW who \in {"tracker", "shutdown"}
    PROVE  /\ Cancelled(q, who) \in Seq(IoOperation)
           /\ Len(Cancelled(q, who)) <= Len(q)
           /\ \A i \in 1..Len(Cancelled(q, who)) :
                 /\ i \in 1..Len(q)
                 /\ Cancelled(q, who)[i].op = q[i].op
                 /\ Cancelled(q, who)[i].text = q[i].text
                 /\ Cancelled(q, who)[i].version = q[i].version
                 /\ i = Len(q) => Cancelled(q, who)[i].by /= who
                 /\ Cancelled(q, who)[i].by \in {q[i].by, "cancelled"}
           /\ (Len(q) = 0 \/ q[Len(q)].by /= who) => Cancelled(q, who) = q
<1> DEFINE n == Len(q)
<1>0. n \in Nat
  OBVIOUS
<1>1. CASE n = 0 \/ q[n].by /= who
  <2>1. Cancelled(q, who) = q
    BY <1>1 DEF Cancelled
  <2> QED
    BY <2>1, <1>1, <1>0
<1>2. CASE n = 1 /\ q[n].by = who
  <2> DEFINE t == [q[1] EXCEPT !.by = "cancelled"]
  <2>1. Cancelled(q, who) = <<t>>
    BY <1>2 DEF Cancelled
  <2>2. q[1] \in IoOperation
    BY <1>2
  <2>3. t \in IoOperation /\ t.op = q[1].op /\ t.text = q[1].text /\ t.version = q[1].version
        /\ t.by = "cancelled"
    BY <2>2 DEF IoOperation
  <2> HIDE DEF t
  <2> QED
    BY <2>1, <2>3, <1>2
<1>3. CASE n > 1 /\ q[n].by = who
  <2>1. Cancelled(q, who) = SubSeq(q, 1, n - 1)
    BY <1>3 DEF Cancelled
  <2>2. /\ SubSeq(q, 1, n - 1) \in Seq(IoOperation)
        /\ Len(SubSeq(q, 1, n - 1)) = n - 1
        /\ \A i \in 1..(n - 1) : SubSeq(q, 1, n - 1)[i] = q[i]
    BY <1>3
  <2> QED
    BY <2>1, <2>2, <1>3
<1>4. \/ n = 0 \/ q[n].by /= who
      \/ n = 1 /\ q[n].by = who
      \/ n > 1 /\ q[n].by = who
  BY <1>0
<1> QED
  BY <1>1, <1>2, <1>3, <1>4, Zenon

\* A queue nobody waits for suits every phase
LEMMA QuietQueue ==
    ASSUME NEW q \in Seq(IoOperation), NEW p, NEW ph, QueueOK(q, p, ph), Quiet(q),
           NEW p2, p2 /= "queued", NEW ph2
    PROVE  QueueOK(q, p2, ph2)
  BY DEF QueueOK, Quiet

\* Without a queued backup, and no backups before a shutdown, nobody waits for the queue.
LEMMA IsQuiet ==
    ASSUME NEW q \in Seq(IoOperation), NEW p, NEW ph, QueueOK(q, p, ph),
           p /= "queued", ph /= "backups"
    PROVE  Quiet(q)
  BY DEF QueueOK, Quiet

\* The tracker cancels when no shutdown waits, and the other way round: nobody
\* waits any more
LEMMA CancelledIsQuiet ==
    ASSUME NEW q \in Seq(IoOperation), NEW p, NEW ph, QueueOK(q, p, ph),
           NEW who \in {"tracker", "shutdown"},
           who = "tracker" => ph /= "backups", who = "shutdown" => p /= "queued"
    PROVE  /\ Quiet(Cancelled(q, who))
           /\ \A p2, ph2 : p2 /= "queued" => QueueOK(Cancelled(q, who), p2, ph2)
<1> DEFINE c == Cancelled(q, who)
<1>1. /\ c \in Seq(IoOperation) /\ Len(c) <= Len(q)
      /\ \A i \in 1..Len(c) : /\ i \in 1..Len(q) /\ c[i].op = q[i].op
                              /\ c[i].text = q[i].text /\ c[i].version = q[i].version
                              /\ i = Len(q) => c[i].by /= who
                              /\ c[i].by \in {q[i].by, "cancelled"}
  BY CancelledIs
<1> HIDE DEF c
<1>2. Quiet(c)
  BY <1>1 DEF QueueOK, Quiet
<1>3. \A i \in 1..Len(c) :
         /\ c[i].op = "write" => c[i].text \in Texts /\ c[i].version \in Versions
         /\ c[i].op = "delete" => c[i].text = NoBackup /\ c[i].version = NoEntry
  BY <1>1 DEF QueueOK
<1>4. \A p2, ph2 : p2 /= "queued" => QueueOK(c, p2, ph2)
  BY <1>2, <1>3 DEF QueueOK, Quiet
<1> QED
  BY <1>2, <1>4 DEF c

\* An operation is queued
LEMMA AppendOK ==
    ASSUME NEW q \in Seq(IoOperation), NEW p, NEW ph, QueueOK(q, p, ph), Quiet(q),
           NEW t \in IoOperation, NEW p2, NEW ph2,
           t.by = "tracker" <=> p2 = "queued",
           t.by = "shutdown" => t.op = "write" /\ ph2 = "backups",
           t.op = "write" => t.text \in Texts /\ t.version \in Versions,
           t.op = "delete" => t.text = NoBackup /\ t.version = NoEntry
    PROVE  QueueOK(Append(q, t), p2, ph2)
<1> DEFINE a == Append(q, t)
<1>0. a \in Seq(IoOperation)
  OBVIOUS
<1>1. /\ Len(a) = Len(q) + 1 /\ a[Len(a)] = t /\ Len(q) \in Nat
      /\ \A i \in 1..Len(q) : a[i] = q[i]
  OBVIOUS
<1>4. a /= <<>>
  BY <1>0, <1>1
<1> HIDE DEF a
<1>2. \A i \in 1..Len(a) : i = Len(a) \/ i \in 1..Len(q)
  BY <1>1
<1>3. QueueOK(a, p2, ph2)
  BY <1>1, <1>2, <1>4 DEF QueueOK, Quiet
<1> QED
  BY <1>3 DEF a

\* The operation at the head is done
LEMMA TailIs ==
    ASSUME NEW q \in Seq(IoOperation), q /= <<>>
    PROVE  /\ Tail(q) \in Seq(IoOperation) /\ Len(Tail(q)) = Len(q) - 1 /\ Len(q) \in Nat
           /\ Len(q) > 0 /\ Head(q) = q[1] /\ 1 \in 1..Len(q)
           /\ \A i \in 1..Len(Tail(q)) : i + 1 \in 1..Len(q) /\ Tail(q)[i] = q[i + 1]
           /\ (Tail(q) = <<>>) <=> (Len(q) = 1)
<1>1. /\ Tail(q) \in Seq(IoOperation) /\ Len(Tail(q)) = Len(q) - 1 /\ Len(q) \in Nat
      /\ Len(q) > 0 /\ Head(q) = q[1] /\ 1 \in 1..Len(q)
  OBVIOUS
<1>2. \A i \in 1..Len(Tail(q)) : i + 1 \in 1..Len(q) /\ Tail(q)[i] = q[i + 1]
  OBVIOUS
<1>3. \A c \in Seq(IoOperation) : (c = <<>>) <=> (Len(c) = 0)
  OBVIOUS
<1>4. (Tail(q) = <<>>) <=> (Len(Tail(q)) = 0)
  BY <1>1, <1>3
<1> QED
  BY <1>1, <1>2, <1>4

\* The queue without its first operation is in order.
LEMMA TailOK ==
    ASSUME NEW q \in Seq(IoOperation), q /= <<>>, NEW p, NEW ph, QueueOK(q, p, ph)
    PROVE  QueueOK(Tail(q), IF Head(q).by = "tracker" THEN "none" ELSE p, ph)
<1> DEFINE c == Tail(q)
<1>1. /\ Len(c) = Len(q) - 1 /\ Len(q) \in Nat /\ Len(q) > 0 /\ Head(q) = q[1] /\ 1 \in 1..Len(q)
      /\ \A i \in 1..Len(c) : i + 1 \in 1..Len(q) /\ c[i] = q[i + 1]
      /\ (c = <<>>) <=> (Len(q) = 1)
  BY TailIs
<1> HIDE DEF c
<1>2. CASE Head(q).by = "tracker"
  <2>1. Len(q) = 1 /\ Len(c) = 0
    BY <1>1, <1>2 DEF QueueOK
  <2>2. QueueOK(c, "none", ph)
    BY <2>1 DEF QueueOK
  <2> QED
    BY <2>2, <1>2 DEF c
<1>3. CASE Head(q).by /= "tracker"
  <2>1. p = "queued" => c /= <<>>
    BY <1>1, <1>3 DEF QueueOK
  <2>2. \A i \in 1..Len(c) : (i = Len(c)) <=> (i + 1 = Len(q))
    BY <1>1
  <2>3. QueueOK(c, p, ph)
    BY <1>1, <2>1, <2>2 DEF QueueOK
  <2> QED
    BY <2>3, <1>3 DEF c
<1> QED
  BY <1>2, <1>3

-----------------------------------------------------------------------------
(* What the invariant says of queues, under the operations on them          *)

\* A prefix keeps what is said of each operation
LEMMA CancelledKeeps ==
    ASSUME NEW q \in Seq(IoOperation), NEW who \in {"tracker", "shutdown"}
    PROVE  /\ OnlyDeletes(q) => OnlyDeletes(Cancelled(q, who))
           /\ \A e, v : NotFuture(q, e, v) => NotFuture(Cancelled(q, who), e, v)
           /\ \A e, v, b, x : CurrentIs(q, e, v, b, x) => CurrentIs(Cancelled(q, who), e, v, b, x)
           /\ q = <<>> => Cancelled(q, who) = <<>>
<1> DEFINE c == Cancelled(q, who)
<1>1. /\ c \in Seq(IoOperation) /\ Len(c) <= Len(q)
      /\ \A i \in 1..Len(c) : /\ i \in 1..Len(q) /\ c[i].op = q[i].op
                              /\ c[i].text = q[i].text /\ c[i].version = q[i].version
      /\ Len(q) = 0 => c = q
  BY CancelledIs
<1>2. Len(c) \in Nat /\ Len(q) \in Nat
  BY <1>1
<1> HIDE DEF c
<1>3. OnlyDeletes(q) => OnlyDeletes(c)
  BY <1>1 DEF OnlyDeletes
<1>4. \A e, v : NotFuture(q, e, v) => NotFuture(c, e, v)
  BY <1>1 DEF NotFuture
<1>5. ASSUME NEW e, NEW v, NEW b, NEW x, CurrentIs(q, e, v, b, x)
      PROVE  CurrentIs(c, e, v, b, x)
  <2>1. e = v => b = x /\ \A i \in 1..Len(c) : c[i].version = v
    BY <1>1, <1>5 DEF CurrentIs
  <2>2. ASSUME NEW i \in 1..Len(c), c[i].version = v
        PROVE  c[i].text = x /\ \A j \in i..Len(c) : c[j].version = v
    <3>1. q[i].version = v /\ i \in 1..Len(q)
      BY <1>1, <2>2
    <3>2. q[i].text = x /\ \A j \in i..Len(q) : q[j].version = v
      BY <1>5, <3>1 DEF CurrentIs
    <3>3. \A j \in i..Len(c) : j \in 1..Len(c) /\ j \in i..Len(q)
      BY <1>1, <1>2
    <3> QED
      BY <1>1, <3>2, <3>3
  <2> QED
    BY <2>1, <2>2 DEF CurrentIs
<1>6. q = <<>> => c = <<>>
  BY <1>1
<1> QED
  BY <1>3, <1>4, <1>5, <1>6 DEF c

\* The elements of a queue with one more operation
LEMMA AppendIs ==
    ASSUME NEW q \in Seq(IoOperation), NEW t \in IoOperation
    PROVE  /\ Append(q, t) \in Seq(IoOperation) /\ Append(q, t) /= <<>>
           /\ Len(Append(q, t)) = Len(q) + 1 /\ Len(q) \in Nat
           /\ Append(q, t)[Len(Append(q, t))] = t
           /\ \A i \in 1..Len(q) : Append(q, t)[i] = q[i] /\ i \in 1..Len(Append(q, t))
           /\ \A i \in 1..Len(Append(q, t)) : i \in 1..Len(q) \/ i = Len(Append(q, t))
<1> DEFINE a == Append(q, t)
<1>1. a \in Seq(IoOperation) /\ Len(a) = Len(q) + 1 /\ Len(q) \in Nat
  OBVIOUS
<1>2. a[Len(a)] = t
  OBVIOUS
<1>3. \A i \in 1..Len(q) : a[i] = q[i]
  OBVIOUS
<1> HIDE DEF a
<1>4. a /= <<>>
  BY <1>1
<1>5. \A i \in 1..Len(a) : i \in 1..Len(q) \/ i = Len(a)
  BY <1>1
<1>6. \A i \in 1..Len(q) : i \in 1..Len(a)
  BY <1>1
<1> QED
  BY <1>1, <1>2, <1>3, <1>4, <1>5, <1>6 DEF a

\* What one more operation keeps of a queue
LEMMA AppendKeeps ==
    ASSUME NEW q \in Seq(IoOperation), NEW t \in IoOperation
    PROVE  /\ OnlyDeletes(q) /\ t.op = "delete" => OnlyDeletes(Append(q, t))
           /\ \A e, v : NotFuture(q, e, v) /\ t.version <= v => NotFuture(Append(q, t), e, v)
           /\ \A e, v, b, x :
                 CurrentIs(q, e, v, b, x) /\ t.version = v /\ t.text = x
                 => CurrentIs(Append(q, t), e, v, b, x)
           /\ t.op = "delete" => \A b : WillBeGone(Append(q, t), b)
<1> DEFINE a == Append(q, t)
<1>1. /\ a \in Seq(IoOperation) /\ a /= <<>> /\ Len(a) = Len(q) + 1 /\ Len(q) \in Nat
      /\ a[Len(a)] = t
      /\ \A i \in 1..Len(q) : a[i] = q[i] /\ i \in 1..Len(a)
      /\ \A i \in 1..Len(a) : i \in 1..Len(q) \/ i = Len(a)
  BY AppendIs
<1> HIDE DEF a
<1>2. OnlyDeletes(q) /\ t.op = "delete" => OnlyDeletes(a)
  BY <1>1 DEF OnlyDeletes
<1>3. \A e, v : NotFuture(q, e, v) /\ t.version <= v => NotFuture(a, e, v)
  BY <1>1 DEF NotFuture
<1>4. ASSUME NEW e, NEW v, NEW b, NEW x, CurrentIs(q, e, v, b, x), t.version = v, t.text = x
      PROVE  CurrentIs(a, e, v, b, x)
  <2>1. e = v => b = x /\ \A i \in 1..Len(a) : a[i].version = v
    BY <1>1, <1>4 DEF CurrentIs
  <2>2. ASSUME NEW i \in 1..Len(a), a[i].version = v
        PROVE  a[i].text = x /\ \A j \in i..Len(a) : a[j].version = v
    <3>1. CASE i = Len(a)
      <4>1. \A j \in i..Len(a) : j = Len(a)
        BY <3>1, <1>1
      <4> QED
        BY <3>1, <4>1, <1>1, <1>4
    <3>2. CASE i \in 1..Len(q)
      <4>1. q[i].text = x /\ \A j \in i..Len(q) : q[j].version = v
        BY <3>2, <2>2, <1>1, <1>4 DEF CurrentIs
      <4>2. \A j \in i..Len(a) : (j \in i..Len(q) /\ j \in 1..Len(q)) \/ j = Len(a)
        BY <1>1
      <4> QED
        BY <4>1, <4>2, <3>2, <1>1, <1>4
    <3> QED
      BY <3>1, <3>2, <1>1
  <2> QED
    BY <2>1, <2>2 DEF CurrentIs
<1>5. t.op = "delete" => \A b : WillBeGone(a, b)
  BY <1>1 DEF WillBeGone
<1> QED
  BY <1>2, <1>3, <1>4, <1>5 DEF a

\* The head of the queue is done
LEMMA TailKeeps ==
    ASSUME NEW q \in Seq(IoOperation), q /= <<>>
    PROVE  /\ OnlyDeletes(q) => Head(q).op = "delete" /\ OnlyDeletes(Tail(q))
           /\ \A e, v : NotFuture(q, e, v) =>
                 NotFuture(Tail(q), e, v) /\ NotFuture(Tail(q), Head(q).version, v)
           /\ \A e, v, b, x : CurrentIs(q, e, v, b, x) =>
                 /\ CurrentIs(Tail(q), e, v, b, x)
                 /\ CurrentIs(Tail(q), Head(q).version, v, Head(q).text, x)
                 /\ e = v => Head(q).version = v
           /\ \A v : ShutdownWrites(q, v) =>
                 /\ ShutdownWrites(Tail(q), v)
                 /\ Head(q).by = "shutdown" => Head(q).version = v
<1> DEFINE c == Tail(q)
<1>1. /\ Len(c) = Len(q) - 1 /\ Len(q) \in Nat /\ Len(q) > 0 /\ Head(q) = q[1] /\ 1 \in 1..Len(q)
      /\ \A i \in 1..Len(c) : i + 1 \in 1..Len(q) /\ c[i] = q[i + 1]
  BY TailIs
<1> HIDE DEF c
<1>2. OnlyDeletes(q) => Head(q).op = "delete" /\ OnlyDeletes(c)
  BY <1>1 DEF OnlyDeletes
<1>3. \A e, v : NotFuture(q, e, v) => NotFuture(c, e, v) /\ NotFuture(c, Head(q).version, v)
  BY <1>1 DEF NotFuture
<1>4. ASSUME NEW e, NEW v, NEW b, NEW x, CurrentIs(q, e, v, b, x)
      PROVE  /\ CurrentIs(c, e, v, b, x)
             /\ CurrentIs(c, Head(q).version, v, Head(q).text, x)
             /\ e = v => Head(q).version = v
  <2>1. e = v => b = x /\ Head(q).version = v /\ \A i \in 1..Len(c) : c[i].version = v
    BY <1>1, <1>4 DEF CurrentIs
  <2>2. ASSUME NEW i \in 1..Len(c), c[i].version = v
        PROVE  c[i].text = x /\ \A j \in i..Len(c) : c[j].version = v
    <3>1. q[i + 1].version = v /\ i + 1 \in 1..Len(q)
      BY <1>1, <2>2
    <3>2. q[i + 1].text = x /\ \A j \in (i + 1)..Len(q) : q[j].version = v
      BY <1>4, <3>1 DEF CurrentIs
    <3>3. \A j \in i..Len(c) : j \in 1..Len(c) /\ j + 1 \in (i + 1)..Len(q)
      BY <1>1
    <3> QED
      BY <1>1, <3>2, <3>3
  <2>3. Head(q).version = v =>
           Head(q).text = x /\ \A i \in 1..Len(c) : c[i].version = v
    <3>1. Head(q).version = v => q[1].text = x /\ \A j \in 1..Len(q) : q[j].version = v
      BY <1>1, <1>4 DEF CurrentIs
    <3> QED
      BY <1>1, <3>1
  <2> QED
    BY <2>1, <2>2, <2>3 DEF CurrentIs
<1>5. \A v : ShutdownWrites(q, v) =>
         ShutdownWrites(c, v) /\ (Head(q).by = "shutdown" => Head(q).version = v)
  BY <1>1 DEF ShutdownWrites
<1> QED
  BY <1>2, <1>3, <1>4, <1>5 DEF c

\* When the last operation that is queued is a delete, or there is nothing to
\* delete, this stays so
LEMMA TailWillBeGone ==
    ASSUME NEW q \in Seq(IoOperation), q /= <<>>, NEW b, WillBeGone(q, b)
    PROVE  /\ Head(q).op = "delete" => WillBeGone(Tail(q), NoBackup)
           /\ \A b2 : Head(q).op = "write" => WillBeGone(Tail(q), b2)
<1> DEFINE c == Tail(q)
<1>1. /\ Len(c) = Len(q) - 1 /\ Len(q) \in Nat /\ Len(q) > 0 /\ Head(q) = q[1] /\ 1 \in 1..Len(q)
      /\ \A i \in 1..Len(c) : i + 1 \in 1..Len(q) /\ c[i] = q[i + 1]
      /\ (c = <<>>) <=> (Len(q) = 1)
  BY TailIs
<1> HIDE DEF c
<1>2. NoBackup \notin Texts
  BY Numbers
<1>3. CASE q[Len(q)].op = "delete" /\ Len(q) = 1
  <2>1. Len(c) = 0 /\ Head(q).op = "delete"
    BY <1>1, <1>3
  <2>2. OnlyDeletes(c)
    BY <2>1 DEF OnlyDeletes
  <2>3. WillBeGone(c, NoBackup)
    BY <2>2, <1>2 DEF WillBeGone
  <2> QED
    BY <2>1, <2>3 DEF c
<1>4. CASE q[Len(q)].op = "delete" /\ Len(q) > 1
  <2>1. c[Len(c)].op = "delete" /\ c /= <<>>
    BY <1>1, <1>4
  <2> QED
    BY <2>1 DEF WillBeGone, c
<1>5. CASE OnlyDeletes(q)
  <2>1. Head(q).op = "delete" /\ OnlyDeletes(c)
    BY <1>1, <1>5 DEF OnlyDeletes
  <2> QED
    BY <2>1, <1>2 DEF WillBeGone, c
<1> QED
  BY <1>1, <1>3, <1>4, <1>5 DEF WillBeGone

\* A cancelled write of the shutdown is not what takes a backup away
LEMMA CancelledWillBeGone ==
    ASSUME NEW q \in Seq(IoOperation), NEW p, NEW ph, QueueOK(q, p, ph),
           NEW b, WillBeGone(q, b)
    PROVE  /\ WillBeGone(Cancelled(q, "shutdown"), b)
           /\ p /= "queued" => WillBeGone(Cancelled(q, "tracker"), b)
<1>0. Len(q) \in Nat /\ (Len(q) = 0 \/ Len(q) \in 1..Len(q))
  OBVIOUS
<1>1. Len(q) = 0 \/ q[Len(q)].by /= "shutdown"
  <2> SUFFICES ASSUME Len(q) /= 0, q[Len(q)].by = "shutdown"
               PROVE  FALSE
    OBVIOUS
  <2>1. q[Len(q)].op = "write"
    BY <1>0 DEF QueueOK
  <2> QED
    BY <1>0, <2>1 DEF WillBeGone, OnlyDeletes
<1>2. p /= "queued" => Len(q) = 0 \/ q[Len(q)].by /= "tracker"
  BY <1>0 DEF QueueOK
<1> QED
  BY <1>1, <1>2, CancelledIs

-----------------------------------------------------------------------------
(* Working copies that a step leaves alone                                  *)

SameCopy(n) ==
    /\ content'[n] = content[n] /\ dirty'[n] = dirty[n]
    /\ mapWorkingCopyToContentVersion'[n] = mapWorkingCopyToContentVersion[n]
    /\ pendingBackupOperations'[n] = pendingBackupOperations[n]
    /\ snapshot'[n] = snapshot[n] /\ model'[n] = model[n] /\ disk'[n] = disk[n]
    /\ ioOperationQueues'[n] = ioOperationQueues[n]
    /\ (n \in registered') <=> (n \in registered)
    /\ (n \in closed') <=> (n \in closed)
    /\ (n \in stale') <=> (n \in stale)
    /\ (n \in disturbed) => (n \in disturbed')
    /\ edits \in Nat /\ edits' \in Nat /\ edits <= edits'

SameShutdown(n) ==
    /\ phase' = phase /\ suspended' = suspended /\ isReady' = isReady
    /\ modifiedWorkingCopies' = modifiedWorkingCopies
    /\ (n \in unrestoredBackups') <=> (n \in unrestoredBackups)
    /\ (n \in backups') <=> (n \in backups)
    /\ (n \in editedLate') <=> (n \in editedLate)

\* The parts that do not look at the shutdown
LEMMA CopyKept ==
    ASSUME NEW n \in WorkingCopies, CopyOK(n), SameCopy(n), TypeOK
    PROVE  /\ DiskOK(n)' /\ CleanOK(n)'
           /\ VersionsOK(n)'
<1>1. (n \in Modified') <=> (n \in Modified)
  BY DEF Modified, SameCopy
<1>2. DiskOK(n)'
  <2>1. mapWorkingCopyToContentVersion[n] \in Nat
    BY Numbers DEF TypeOK
  <2>2. \A k, a, b \in Nat : a <= b /\ k <= 2 * a => k <= 2 * b
    OBVIOUS
  <2>3. CASE dirty[n]
    <3>1. mapWorkingCopyToContentVersion[n] + 1 <= 2 * edits
      BY <2>3 DEF CopyOK, DiskOK
    <3>2. mapWorkingCopyToContentVersion[n] + 1 <= 2 * edits'
      BY <3>1, <2>1, <2>2 DEF SameCopy
    <3> QED
      BY <3>2, <2>3 DEF CopyOK, DiskOK, SameCopy
  <2>4. CASE ~dirty[n]
    <3>1. mapWorkingCopyToContentVersion[n] <= 2 * edits
      BY <2>4, <2>1 DEF CopyOK, DiskOK
    <3>2. mapWorkingCopyToContentVersion[n] + 0 <= 2 * edits'
      BY <3>1, <2>1, <2>2 DEF SameCopy
    <3> QED
      BY <3>2, <2>4 DEF CopyOK, DiskOK, SameCopy
  <2> QED
    BY <2>3, <2>4
<1>3. CleanOK(n)'
  BY <1>1 DEF CopyOK, CleanOK, SameCopy
<1>4. VersionsOK(n)'
  <2>1. OwnVersion(n)' = OwnVersion(n)
    BY DEF OwnVersion, SameCopy
  <2> QED
    BY <1>1, <2>1 DEF CopyOK, VersionsOK, SameCopy
<1> QED
  BY <1>2, <1>3, <1>4

\* All of it
LEMMA Kept ==
    ASSUME NEW n \in WorkingCopies, CopyOK(n), SameCopy(n), SameShutdown(n), TypeOK
    PROVE  CopyOK(n)'
<1>1. (n \in Modified') <=> (n \in Modified)
  BY DEF Modified, SameCopy
<1>2. QueueOK(ioOperationQueues[n], pendingBackupOperations[n], phase)'
  BY DEF CopyOK, SameCopy, SameShutdown
<1>3. PendingOK(n)'
  BY <1>1 DEF CopyOK, PendingOK, SameCopy, SameShutdown
<1>4. UnopenedOK(n)'
  BY DEF CopyOK, UnopenedOK, SameCopy, SameShutdown
<1>5. ShutdownOK(n)'
  BY <1>1 DEF CopyOK, ShutdownOK, Has, SameCopy, SameShutdown
<1> QED
  BY <1>2, <1>3, <1>4, <1>5, CopyKept DEF CopyOK

\* Steps that change nothing
LEMMA StutterOK == IInv /\ UNCHANGED vars => IInv'
<1> SUFFICES ASSUME IInv, UNCHANGED vars PROVE IInv'
  OBVIOUS
<1>1. TypeOK'
  BY DEF vars, IInv, TypeOK
<1>2. edits \in Nat
  BY BoundsAssumption DEF IInv, TypeOK
<1>3. ASSUME NEW n \in WorkingCopies PROVE CopyOK(n)'
  BY <1>2, Kept DEF IInv, SameCopy, SameShutdown, vars
<1> QED
  BY <1>1, <1>3 DEF IInv, vars

-----------------------------------------------------------------------------
(* The tracker                                                             *)

\* The types of what a step reads of one copy
LEMMA TypeFacts ==
    ASSUME TypeOK, NEW n \in WorkingCopies
    PROVE  /\ content[n] \in Texts /\ dirty[n] \in BOOLEAN /\ file[n] \in Texts
           /\ mapWorkingCopyToContentVersion[n] \in Versions
           /\ mapWorkingCopyToContentVersion[n] \in Nat
           /\ pendingBackupOperations[n] \in {"none", "scheduled", "snapshot", "queued"}
           /\ snapshot[n] \in Texts
           /\ model[n] \in Versions \cup {NoEntry} /\ model[n] \in Int
           /\ OwnVersion(n) \in {model[n], NoEntry} /\ OwnVersion(n) \in Int
           /\ ioOperationQueues[n] \in Seq(IoOperation)
           /\ disk[n] \in Texts \cup {NoBackup, Corrupt}
           /\ edits \in Nat /\ MaxEdits \in Nat
<1>1. /\ mapWorkingCopyToContentVersion[n] \in Versions
      /\ model[n] \in Versions \cup {NoEntry}
  BY DEF TypeOK
<1>2. mapWorkingCopyToContentVersion[n] \in Nat /\ model[n] \in Int
  BY <1>1, Numbers
<1>3. edits \in Nat /\ MaxEdits \in Nat
  BY BoundsAssumption DEF TypeOK
<1>4. OwnVersion(n) \in {model[n], NoEntry} /\ OwnVersion(n) \in Int
  BY <1>2, Numbers DEF OwnVersion
<1> QED
  BY <1>1, <1>2, <1>3, <1>4 DEF TypeOK

\* A version that nothing has yet
LEMMA NewVersion ==
    ASSUME NEW q \in Seq(IoOperation), NEW e \in Int, NEW v \in Nat, NotFuture(q, e, v)
    PROVE  /\ NotFuture(q, e, v + 1)
           /\ \A b, x : CurrentIs(q, e, v + 1, b, x)
<1>1. \A i \in 1..Len(q) : q[i].version \in Int
  <2>1. \A i \in 1..Len(q) : q[i].version \in Versions \cup {NoEntry}
    BY OperationType
  <2> QED
    BY <2>1, Numbers
<1>2. e <= v /\ \A i \in 1..Len(q) : q[i].version <= v
  BY DEF NotFuture
<1>3. e <= v + 1 /\ e /= v + 1
  BY <1>2
<1>4. \A i \in 1..Len(q) : q[i].version <= v + 1 /\ q[i].version /= v + 1
  BY <1>1, <1>2
<1> QED
  BY <1>3, <1>4 DEF NotFuture, CurrentIs

\* What scheduleBackup() does to the copy and leaves of the others
LEMMA ScheduleBackupIs ==
    ASSUME TypeOK, NEW w \in WorkingCopies, ScheduleBackup(w)
    PROVE  /\ pendingBackupOperations' \in
                 [WorkingCopies -> {"none", "scheduled", "snapshot", "queued"}]
           /\ snapshot' \in [WorkingCopies -> Texts]
           /\ ioOperationQueues' \in [WorkingCopies -> Seq(IoOperation)]
           /\ disturbed' \subseteq WorkingCopies
           /\ pendingBackupOperations'[w] = "scheduled" /\ snapshot'[w] = 0
           /\ ioOperationQueues'[w] = Cancelled(ioOperationQueues[w], "tracker")
           /\ \A n \in WorkingCopies \ {w} :
                 /\ pendingBackupOperations'[n] = pendingBackupOperations[n]
                 /\ snapshot'[n] = snapshot[n]
                 /\ ioOperationQueues'[n] = ioOperationQueues[n]
                 /\ (n \in disturbed') <=> (n \in disturbed)
<1>1. Cancelled(ioOperationQueues[w], "tracker") \in Seq(IoOperation)
  BY TypeFacts, CancelledIs
<1>2. 0 \in Texts
  BY Numbers
<1>3. pendingBackupOperations \in [WorkingCopies -> {"none", "scheduled", "snapshot", "queued"}]
      /\ snapshot \in [WorkingCopies -> Texts]
      /\ ioOperationQueues \in [WorkingCopies -> Seq(IoOperation)]
      /\ disturbed \subseteq WorkingCopies
  BY DEF TypeOK
<1> QED
  BY <1>1, <1>2, <1>3 DEF ScheduleBackup

\* What discardBackup() does to the copy and leaves of the others
LEMMA DiscardBackupIs ==
    ASSUME TypeOK, NEW w \in WorkingCopies, DiscardBackup(w)
    PROVE  /\ pendingBackupOperations' \in
                 [WorkingCopies -> {"none", "scheduled", "snapshot", "queued"}]
           /\ snapshot' \in [WorkingCopies -> Texts]
           /\ ioOperationQueues' \in [WorkingCopies -> Seq(IoOperation)]
           /\ disturbed' \subseteq WorkingCopies
           /\ pendingBackupOperations'[w] = "queued" /\ snapshot'[w] = 0
           /\ ioOperationQueues'[w] =
                 Append(Cancelled(ioOperationQueues[w], "tracker"), Delete("tracker"))
           /\ \A n \in WorkingCopies \ {w} :
                 /\ pendingBackupOperations'[n] = pendingBackupOperations[n]
                 /\ snapshot'[n] = snapshot[n]
                 /\ ioOperationQueues'[n] = ioOperationQueues[n]
                 /\ (n \in disturbed') <=> (n \in disturbed)
<1>1. Append(Cancelled(ioOperationQueues[w], "tracker"), Delete("tracker")) \in Seq(IoOperation)
  BY TypeFacts, CancelledIs, DeleteType
<1>2. 0 \in Texts
  BY Numbers
<1>3. pendingBackupOperations \in [WorkingCopies -> {"none", "scheduled", "snapshot", "queued"}]
      /\ snapshot \in [WorkingCopies -> Texts]
      /\ ioOperationQueues \in [WorkingCopies -> Seq(IoOperation)]
      /\ disturbed \subseteq WorkingCopies
  BY DEF TypeOK
<1> QED
  BY <1>1, <1>2, <1>3 DEF DiscardBackup

\* What is queued after a delete was queued
LEMMA DiscardedQueue ==
    ASSUME TypeOK, NEW w \in WorkingCopies, CopyOK(w), DiscardBackup(w), phase /= "backups"
    PROVE  /\ \A ph : QueueOK(ioOperationQueues'[w], "queued", ph)
           /\ OnlyDeletes(ioOperationQueues[w]) => OnlyDeletes(ioOperationQueues'[w])
           /\ \A e, v : NotFuture(ioOperationQueues[w], e, v) /\ NoEntry <= v
                        => NotFuture(ioOperationQueues'[w], e, v)
           /\ \A b : WillBeGone(ioOperationQueues'[w], b)
<1> DEFINE q == ioOperationQueues[w]
           c == Cancelled(q, "tracker")
           t == Delete("tracker")
<1>1. q \in Seq(IoOperation)
  BY TypeFacts
<1>2. c \in Seq(IoOperation)
  BY <1>1, CancelledIs
<1>3. ioOperationQueues'[w] = Append(c, t)
  BY DiscardBackupIs
<1>4. t \in IoOperation /\ t.op = "delete" /\ t.text = NoBackup /\ t.version = NoEntry
      /\ t.by = "tracker"
  BY DeleteType
<1>5. Quiet(c) /\ \A p2, ph2 : p2 /= "queued" => QueueOK(c, p2, ph2)
  BY <1>1, CancelledIsQuiet DEF CopyOK
<1>6. /\ OnlyDeletes(q) => OnlyDeletes(c)
      /\ \A e, v : NotFuture(q, e, v) => NotFuture(c, e, v)
  BY <1>1, CancelledKeeps
<1> HIDE DEF c, t, q
<1>7. ASSUME NEW ph PROVE QueueOK(Append(c, t), "queued", ph)
  <2>1. QueueOK(c, "none", "none")
    BY <1>5
  <2> QED
    BY <1>2, <1>4, <1>5, <2>1, AppendOK
<1>8. /\ OnlyDeletes(c) => OnlyDeletes(Append(c, t))
      /\ \A e, v : NotFuture(c, e, v) /\ t.version <= v => NotFuture(Append(c, t), e, v)
      /\ \A b : WillBeGone(Append(c, t), b)
  BY <1>2, <1>4, AppendKeeps
<1>9. OnlyDeletes(q) => OnlyDeletes(ioOperationQueues'[w])
  BY <1>3, <1>6, <1>8
<1>10. \A e, v : NotFuture(q, e, v) /\ NoEntry <= v => NotFuture(ioOperationQueues'[w], e, v)
  BY <1>3, <1>4, <1>6, <1>8
<1> QED
  BY <1>3, <1>7, <1>8, <1>9, <1>10 DEF q

\* The others, when the tracker handles an event of w
LEMMA OthersKept ==
    ASSUME IInv, NEW w \in WorkingCopies, NEW n \in WorkingCopies \ {w},
           content'[n] = content[n], dirty'[n] = dirty[n],
           mapWorkingCopyToContentVersion'[n] = mapWorkingCopyToContentVersion[n],
           pendingBackupOperations'[n] = pendingBackupOperations[n],
           snapshot'[n] = snapshot[n],
           ioOperationQueues'[n] = ioOperationQueues[n],
           model'[n] = model[n], disk'[n] = disk[n],
           (n \in registered') <=> (n \in registered),
           (n \in closed') <=> (n \in closed), (n \in stale') <=> (n \in stale),
           (n \in disturbed) => (n \in disturbed'),
           (n \in editedLate') <=> (n \in editedLate),
           (n \in unrestoredBackups') <=> (n \in unrestoredBackups),
           (n \in backups') <=> (n \in backups),
           edits' \in {edits, edits + 1}, UNCHANGED <<phase, suspended, isReady, modifiedWorkingCopies>>
    PROVE  CopyOK(n)'
<1>1. edits \in Nat /\ edits' \in Nat /\ edits <= edits'
  BY BoundsAssumption DEF IInv, TypeOK
<1>2. SameCopy(n) /\ SameShutdown(n)
  BY <1>1 DEF SameCopy, SameShutdown
<1> QED
  BY <1>2, Kept DEF IInv

\* An edit schedules a backup of the new version.
LEMMA EditOK ==
    ASSUME IInv, NEW w \in WorkingCopies, Edit(w)
    PROVE  IInv'
<1> DEFINE q == ioOperationQueues[w]
           v == mapWorkingCopyToContentVersion[w]
<1>0. TypeOK /\ CopyOK(w)
  BY DEF IInv
<1>1. w \in registered /\ edits < MaxEdits /\ edits' = edits + 1
  BY DEF Edit
<1>2. /\ content' = [content EXCEPT ![w] = edits + 1]
      /\ dirty' = [dirty EXCEPT ![w] = TRUE]
      /\ mapWorkingCopyToContentVersion' = [mapWorkingCopyToContentVersion EXCEPT ![w] = @ + 1]
  BY DEF Edit
<1>3. /\ UNCHANGED <<registered, file, suspended, isReady, unrestoredBackups, model, disk>>
      /\ UNCHANGED <<phase, modifiedWorkingCopies, hotExit, backups, backupError>>
      /\ UNCHANGED <<faults, closes, shutdowns, closed, stale>>
      /\ editedLate' = IF phase = "none" THEN editedLate ELSE editedLate \cup {w}
  BY DEF Edit, shutdownVars
<1>4. /\ q \in Seq(IoOperation) /\ v \in Nat /\ v \in Versions /\ edits \in Nat /\ MaxEdits \in Nat
      /\ OwnVersion(w) \in Int
  BY <1>0, TypeFacts
<1>5. v <= 2 * edits
  <2>1. v + (IF dirty[w] THEN 1 ELSE 0) <= 2 * edits
    BY <1>0 DEF CopyOK, DiskOK
  <2> QED
    BY <2>1, <1>4
<1>6. edits + 1 \in Texts /\ v + 1 \in Versions /\ edits + 1 \in 0..MaxEdits
  BY <1>1, <1>4, <1>5 DEF Texts, Versions
<1>7. /\ pendingBackupOperations' \in
            [WorkingCopies -> {"none", "scheduled", "snapshot", "queued"}]
      /\ snapshot' \in [WorkingCopies -> Texts]
      /\ ioOperationQueues' \in [WorkingCopies -> Seq(IoOperation)]
      /\ disturbed' \subseteq WorkingCopies
      /\ \A n \in WorkingCopies \ {w} :
            /\ pendingBackupOperations'[n] = pendingBackupOperations[n]
            /\ snapshot'[n] = snapshot[n]
            /\ ioOperationQueues'[n] = ioOperationQueues[n]
            /\ (n \in disturbed) => (n \in disturbed')
  <2>1. CASE suspended
    BY <2>1, <1>0 DEF Edit, Ignored, TypeOK
  <2>2. CASE ~suspended
    BY <2>2, <1>0, ScheduleBackupIs DEF Edit
  <2> QED
    BY <2>1, <2>2
<1>8. TypeOK'
  <2>1. content' \in [WorkingCopies -> Texts]
    BY <1>0, <1>2, <1>6 DEF TypeOK
  <2>2. dirty' \in [WorkingCopies -> BOOLEAN]
    BY <1>0, <1>2 DEF TypeOK
  <2>3. mapWorkingCopyToContentVersion' \in [WorkingCopies -> Versions]
    BY <1>0, <1>2, <1>6 DEF TypeOK
  <2> QED
    BY <2>1, <2>2, <2>3, <1>0, <1>1, <1>3, <1>6, <1>7 DEF TypeOK
<1>9. ASSUME NEW n \in WorkingCopies \ {w} PROVE CopyOK(n)'
  <2>1. /\ content'[n] = content[n] /\ dirty'[n] = dirty[n]
        /\ mapWorkingCopyToContentVersion'[n] = mapWorkingCopyToContentVersion[n]
    BY <1>2, <1>0 DEF TypeOK
  <2> QED
    BY <2>1, <1>1, <1>3, <1>7, OthersKept
<1>10. CopyOK(w)'
  <2>1. /\ content'[w] = edits + 1 /\ dirty'[w] = TRUE
        /\ mapWorkingCopyToContentVersion'[w] = v + 1
    BY <1>2, <1>0 DEF TypeOK
  <2>2. w \in Modified'
    BY <2>1, <1>1, <1>3 DEF Modified
  <2>3. \/ suspended /\ ioOperationQueues' = ioOperationQueues
           /\ pendingBackupOperations' = pendingBackupOperations
        \/ ~suspended /\ ioOperationQueues'[w] = Cancelled(q, "tracker")
           /\ pendingBackupOperations'[w] = "scheduled"
    BY <1>0, ScheduleBackupIs DEF Edit, Ignored
  <2>4. ~suspended => phase \notin {"backups"}
    BY DEF IInv
  <2>5. QueueOK(ioOperationQueues[w], pendingBackupOperations[w], phase)'
    <3>1. CASE suspended
      BY <2>3, <3>1, <1>0, <1>3 DEF CopyOK
    <3>2. CASE ~suspended
      <4>1. QueueOK(q, pendingBackupOperations[w], phase)
        BY <1>0 DEF CopyOK
      <4>2. QueueOK(Cancelled(q, "tracker"), "scheduled", phase)
        BY <4>1, <3>2, <2>4, <1>4, CancelledIsQuiet
      <4> QED
        BY <4>2, <3>2, <2>3, <1>3
    <3> QED
      BY <3>1, <3>2
  <2>6. PendingOK(w)'
    BY <2>2, <2>3, <1>0, <1>3 DEF CopyOK, PendingOK
  <2>7. DiskOK(w)'
    <3>1. (v + 1) + 1 <= 2 * (edits + 1)
      BY <1>4, <1>5
    <3> QED
      BY <3>1, <2>1, <1>0, <1>1, <1>3, <1>4 DEF CopyOK, DiskOK
  <2>8. UnopenedOK(w)'
    BY <1>1, <1>3 DEF UnopenedOK
  <2>9. CleanOK(w)'
    BY <2>2 DEF CleanOK
  <2>10. VersionsOK(w)'
    <3>1. NotFuture(q, OwnVersion(w), v)
      BY <1>0, <1>1 DEF CopyOK, VersionsOK
    <3>2. NotFuture(q, OwnVersion(w), v + 1) /\ CurrentIs(q, OwnVersion(w), v + 1, disk[w], edits + 1)
      BY <3>1, <1>4, NewVersion
    <3>3. /\ NotFuture(Cancelled(q, "tracker"), OwnVersion(w), v + 1)
          /\ CurrentIs(Cancelled(q, "tracker"), OwnVersion(w), v + 1, disk[w], edits + 1)
      BY <3>2, <1>4, CancelledKeeps
    <3>4. OwnVersion(w)' = OwnVersion(w)
      BY <1>3 DEF OwnVersion
    <3> HIDE DEF q, v
    <3> QED
      BY <3>2, <3>3, <3>4, <2>1, <2>3, <1>3 DEF VersionsOK, q
  <2>11. ShutdownOK(w)'
    <3>1. phase = "none" \/ w \in editedLate'
      BY <1>3
    <3> QED
      BY <3>1, <1>3 DEF ShutdownOK
  <2> QED
    BY <2>5, <2>6, <2>7, <2>8, <2>9, <2>10, <2>11 DEF CopyOK
<1> QED
  BY <1>3, <1>8, <1>9, <1>10 DEF IInv

\* Saving and reverting: the working copy is not dirty, its backup is discarded
LEMMA CleanedOK ==
    ASSUME IInv, NEW w \in WorkingCopies, w \in registered, phase \in {"none", "ok"},
           dirty' = [dirty EXCEPT ![w] = FALSE], OnDidChangeDirty(w),
           NEW k \in {0, 1}, dirty[w],
           mapWorkingCopyToContentVersion' = [mapWorkingCopyToContentVersion EXCEPT ![w] = @ + k],
           content' \in [WorkingCopies -> Texts], file' \in [WorkingCopies -> Texts],
           \A n \in WorkingCopies \ {w} : content'[n] = content[n],
           UNCHANGED <<registered, suspended, isReady, unrestoredBackups, model, disk>>,
           UNCHANGED <<phase, modifiedWorkingCopies, hotExit, backups, backupError>>,
           UNCHANGED <<edits, faults, closes, shutdowns, closed, stale, editedLate>>
    PROVE  IInv'
<1> DEFINE q == ioOperationQueues[w]
           v == mapWorkingCopyToContentVersion[w]
<1>0. TypeOK /\ CopyOK(w) /\ ~suspended
  BY DEF IInv
<1>1. DiscardBackup(w)
  BY <1>0 DEF OnDidChangeDirty
<1>2. /\ q \in Seq(IoOperation) /\ v \in Nat /\ v \in Versions /\ edits \in Nat /\ MaxEdits \in Nat
      /\ OwnVersion(w) \in Int /\ NoEntry \in Int /\ NoEntry < 0
  BY <1>0, TypeFacts, Numbers
<1>3. v + k <= 2 * edits /\ v + k \in Versions /\ v + k \in Nat
  <2>1. v + (IF dirty[w] THEN 1 ELSE 0) <= 2 * edits
    BY <1>0 DEF CopyOK, DiskOK
  <2>2. edits <= MaxEdits
    BY <1>0 DEF TypeOK
  <2>3. v + k <= 2 * edits
    BY <2>1, <1>2
  <2> QED
    BY <2>2, <2>3, <1>2 DEF Versions
<1>4. TypeOK'
  <2>1. dirty' \in [WorkingCopies -> BOOLEAN]
    BY <1>0 DEF TypeOK
  <2>2. mapWorkingCopyToContentVersion' \in [WorkingCopies -> Versions]
    BY <1>0, <1>3 DEF TypeOK
  <2> QED
    BY <2>1, <2>2, <1>0, <1>1, DiscardBackupIs DEF TypeOK
<1>5. ASSUME NEW n \in WorkingCopies \ {w} PROVE CopyOK(n)'
  <2>1. /\ content'[n] = content[n] /\ dirty'[n] = dirty[n]
        /\ mapWorkingCopyToContentVersion'[n] = mapWorkingCopyToContentVersion[n]
    BY <1>0 DEF TypeOK
  <2>2. /\ pendingBackupOperations'[n] = pendingBackupOperations[n]
        /\ snapshot'[n] = snapshot[n]
        /\ ioOperationQueues'[n] = ioOperationQueues[n]
        /\ (n \in disturbed') <=> (n \in disturbed)
    BY <1>0, <1>1, DiscardBackupIs
  <2> QED
    BY <2>1, <2>2, OthersKept
<1>6. CopyOK(w)'
  <2>1. dirty'[w] = FALSE /\ mapWorkingCopyToContentVersion'[w] = v + k
    BY <1>0 DEF TypeOK
  <2>2. w \notin Modified'
    BY <2>1 DEF Modified
  <2>3. pendingBackupOperations'[w] = "queued"
    BY <1>0, <1>1, DiscardBackupIs
  <2>4. /\ \A ph : QueueOK(ioOperationQueues'[w], "queued", ph)
        /\ OnlyDeletes(q) => OnlyDeletes(ioOperationQueues'[w])
        /\ \A e, u : NotFuture(q, e, u) /\ NoEntry <= u => NotFuture(ioOperationQueues'[w], e, u)
        /\ \A b : WillBeGone(ioOperationQueues'[w], b)
    BY <1>0, <1>1, DiscardedQueue
  <2>5. QueueOK(ioOperationQueues[w], pendingBackupOperations[w], phase)'
    BY <2>3, <2>4
  <2>6. PendingOK(w)'
    BY <2>3, <1>0 DEF PendingOK
  <2>7. DiskOK(w)'
    <3>1. (v + k) + 0 <= 2 * edits
      BY <1>2, <1>3
    <3> QED
      BY <3>1, <2>1, <2>4, <1>0 DEF CopyOK, DiskOK
  <2>8. UnopenedOK(w)'
    BY DEF UnopenedOK
  <2>9. CleanOK(w)'
    BY <2>4 DEF CleanOK
  <2>10. VersionsOK(w)'
    <3>1. NotFuture(q, OwnVersion(w), v)
      BY <1>0 DEF CopyOK, VersionsOK
    <3>2. NotFuture(q, OwnVersion(w), v + k)
      <4>1. CASE k = 0
        BY <4>1, <3>1, <1>2
      <4>2. CASE k = 1
        BY <4>2, <3>1, <1>2, NewVersion
      <4> QED
        BY <4>1, <4>2
    <3>3. NoEntry <= v + k
      BY <1>2, <1>3
    <3>4. NotFuture(ioOperationQueues'[w], OwnVersion(w), v + k)
      BY <3>2, <3>3, <2>4
    <3>5. OwnVersion(w)' = OwnVersion(w)
      BY DEF OwnVersion
    <3> QED
      BY <3>4, <3>5, <2>1, <2>2 DEF VersionsOK
  <2>11. ShutdownOK(w)'
    BY <2>2 DEF ShutdownOK
  <2> QED
    BY <2>5, <2>6, <2>7, <2>8, <2>9, <2>10, <2>11 DEF CopyOK
<1> QED
  BY <1>4, <1>5, <1>6 DEF IInv

\* A save discards the backup.
LEMMA SaveOK ==
    ASSUME IInv, NEW w \in WorkingCopies, Save(w)
    PROVE  IInv'
<1>1. TypeOK
  BY DEF IInv
<1>2. w \in registered /\ dirty[w]
  BY DEF Save, Modified
<1>3. content' \in [WorkingCopies -> Texts] /\ file' \in [WorkingCopies -> Texts]
  BY <1>1 DEF Save, TypeOK
<1>4. mapWorkingCopyToContentVersion' = [mapWorkingCopyToContentVersion EXCEPT ![w] = @ + 0]
  <2>1. mapWorkingCopyToContentVersion[w] + 0 = mapWorkingCopyToContentVersion[w]
    BY <1>1, TypeFacts
  <2>2. mapWorkingCopyToContentVersion' = mapWorkingCopyToContentVersion
    BY DEF Save
  <2> QED
    BY <2>1, <2>2, <1>1 DEF TypeOK
<1> QED
  BY <1>2, <1>3, <1>4, CleanedOK DEF Save, shutdownVars

\* A revert discards the backup.
LEMMA RevertOK ==
    ASSUME IInv, NEW w \in WorkingCopies, Revert(w)
    PROVE  IInv'
<1>1. TypeOK
  BY DEF IInv
<1>2. w \in registered /\ dirty[w]
  BY DEF Revert, Modified
<1>3. content' \in [WorkingCopies -> Texts] /\ file' \in [WorkingCopies -> Texts]
  BY <1>1 DEF Revert, TypeOK
<1>4. \A n \in WorkingCopies \ {w} : content'[n] = content[n]
  BY <1>1 DEF Revert, TypeOK
<1> QED
  BY <1>2, <1>3, <1>4, CleanedOK DEF Revert, shutdownVars

\* A copy that is closed discards its backup.
LEMMA CloseOK ==
    ASSUME IInv, NEW w \in WorkingCopies, Close(w)
    PROVE  IInv'
<1> DEFINE q == ioOperationQueues[w]
<1>0. TypeOK /\ CopyOK(w) /\ ~suspended /\ w \in registered /\ ~dirty[w]
  BY DEF IInv, Close
<1>1. DiscardBackup(w) /\ phase = "none"
  BY DEF Close
<1>2. /\ UNCHANGED <<content, dirty, file, suspended, isReady, unrestoredBackups, model, disk>>
      /\ UNCHANGED <<phase, modifiedWorkingCopies, hotExit, backups, backupError>>
      /\ UNCHANGED <<edits, faults, shutdowns, editedLate>>
      /\ registered' = registered \ {w} /\ closed' = closed \cup {w} /\ stale' = stale \ {w}
      /\ closes < MaxCloses /\ closes' = closes + 1
      /\ mapWorkingCopyToContentVersion' = [mapWorkingCopyToContentVersion EXCEPT ![w] = 0]
  BY DEF Close, shutdownVars
<1>3. edits \in Nat /\ 0 \in Versions
  BY <1>0, TypeFacts, Numbers
<1>4. TypeOK'
  <2>1. mapWorkingCopyToContentVersion' \in [WorkingCopies -> Versions]
    BY <1>0, <1>2, <1>3 DEF TypeOK
  <2>2. closes' \in 0..MaxCloses
    BY <1>0, <1>2, BoundsAssumption DEF TypeOK
  <2> QED
    BY <2>1, <2>2, <1>0, <1>1, <1>2, DiscardBackupIs DEF TypeOK
<1>5. ASSUME NEW n \in WorkingCopies \ {w} PROVE CopyOK(n)'
  <2>1. mapWorkingCopyToContentVersion'[n] = mapWorkingCopyToContentVersion[n]
    BY <1>0, <1>2 DEF TypeOK
  <2>2. /\ pendingBackupOperations'[n] = pendingBackupOperations[n]
        /\ snapshot'[n] = snapshot[n]
        /\ ioOperationQueues'[n] = ioOperationQueues[n]
        /\ (n \in disturbed') <=> (n \in disturbed)
    BY <1>0, <1>1, DiscardBackupIs
  <2> QED
    BY <2>1, <2>2, <1>2, OthersKept
<1>6. CopyOK(w)'
  <2>1. mapWorkingCopyToContentVersion'[w] = 0 /\ w \notin registered' /\ w \in closed'
    BY <1>0, <1>2 DEF TypeOK
  <2>2. w \notin Modified'
    BY <2>1 DEF Modified
  <2>3. pendingBackupOperations'[w] = "queued"
    BY <1>0, <1>1, DiscardBackupIs
  <2>4. /\ \A ph : QueueOK(ioOperationQueues'[w], "queued", ph)
        /\ OnlyDeletes(q) => OnlyDeletes(ioOperationQueues'[w])
    BY <1>0, <1>1, DiscardedQueue
  <2>5. QueueOK(ioOperationQueues[w], pendingBackupOperations[w], phase)'
    BY <2>3, <2>4
  <2>6. PendingOK(w)'
    BY <2>3, <1>0, <1>2 DEF PendingOK
  <2>7. DiskOK(w)'
    <3>1. 0 + 0 <= 2 * edits
      BY <1>3
    <3> QED
      BY <3>1, <2>1, <2>4, <1>0, <1>2 DEF CopyOK, DiskOK
  <2>8. UnopenedOK(w)' /\ CleanOK(w)' /\ VersionsOK(w)' /\ ShutdownOK(w)'
    BY <2>1, <2>2 DEF UnopenedOK, CleanOK, VersionsOK, ShutdownOK
  <2> QED
    BY <2>5, <2>6, <2>7, <2>8 DEF CopyOK
<1> QED
  BY <1>2, <1>4, <1>5, <1>6 DEF IInv

\* A working copy is opened, in a step that may count its backup as restored
LEMMA ResolveOK ==
    ASSUME IInv, NEW w \in WorkingCopies, Resolve(w), phase = "none",
           unrestoredBackups' \in {unrestoredBackups, unrestoredBackups \ {w}},
           UNCHANGED <<mapWorkingCopyToContentVersion, suspended, isReady, model, disk>>,
           UNCHANGED <<phase, modifiedWorkingCopies, hotExit, backups, backupError>>,
           UNCHANGED <<edits, faults, closes, shutdowns, editedLate>>
    PROVE  IInv'
<1> DEFINE q == ioOperationQueues[w]
           v == mapWorkingCopyToContentVersion[w]
<1>0. TypeOK /\ CopyOK(w) /\ ~suspended
  BY DEF IInv
<1>1. /\ w \notin registered /\ q = <<>>
      /\ stale' = IF model[w] > 0 THEN stale \cup {w} ELSE stale
      /\ registered' = registered \cup {w} /\ UNCHANGED <<file, closed>>
      /\ content' = [content EXCEPT ![w] = IF IsValidBackup(w) THEN disk[w] ELSE file[w]]
      /\ dirty' = [dirty EXCEPT ![w] = IsValidBackup(w)]
      /\ IF IsValidBackup(w) THEN ScheduleBackup(w)
         ELSE UNCHANGED <<pendingBackupOperations, snapshot, ioOperationQueues, disturbed>>
  BY DEF Resolve
<1>2. /\ q \in Seq(IoOperation) /\ edits \in Nat /\ model[w] \in Int /\ file[w] \in Texts
      /\ NoEntry \in Int /\ NoEntry < 0
  BY <1>0, TypeFacts, Numbers
<1>3. v = 0 /\ ~dirty[w] /\ (~IsValidBackup(w) => disk[w] \notin Texts)
      /\ (IsValidBackup(w) => disk[w] \in Texts /\ edits > 0)
  BY <1>0, <1>1, <1>2 DEF CopyOK, DiskOK, IsValidBackup
<1>4. /\ pendingBackupOperations' \in
            [WorkingCopies -> {"none", "scheduled", "snapshot", "queued"}]
      /\ snapshot' \in [WorkingCopies -> Texts]
      /\ ioOperationQueues' \in [WorkingCopies -> Seq(IoOperation)]
      /\ disturbed' \subseteq WorkingCopies
      /\ \A n \in WorkingCopies \ {w} :
            /\ pendingBackupOperations'[n] = pendingBackupOperations[n]
            /\ snapshot'[n] = snapshot[n]
            /\ ioOperationQueues'[n] = ioOperationQueues[n]
            /\ (n \in disturbed) => (n \in disturbed')
  <2>1. CASE ~IsValidBackup(w)
    BY <2>1, <1>0, <1>1 DEF TypeOK
  <2>2. CASE IsValidBackup(w)
    BY <2>2, <1>0, <1>1, ScheduleBackupIs
  <2> QED
    BY <2>1, <2>2
<1>5. TypeOK'
  <2>0. (IF IsValidBackup(w) THEN disk[w] ELSE file[w]) \in Texts /\ IsValidBackup(w) \in BOOLEAN
    BY <1>2, <1>3 DEF IsValidBackup
  <2>1. content' \in [WorkingCopies -> Texts]
    BY <2>0, <1>0, <1>1 DEF TypeOK
  <2>2. dirty' \in [WorkingCopies -> BOOLEAN]
    BY <2>0, <1>0, <1>1 DEF TypeOK
  <2> QED
    BY <2>1, <2>2, <1>0, <1>1, <1>4 DEF TypeOK
<1>6. ASSUME NEW n \in WorkingCopies \ {w} PROVE CopyOK(n)'
  <2>1. content'[n] = content[n] /\ dirty'[n] = dirty[n]
    BY <1>0, <1>1 DEF TypeOK
  <2> QED
    BY <2>1, <1>1, <1>4, OthersKept
<1>7. CopyOK(w)'
  <2>1. /\ content'[w] = IF IsValidBackup(w) THEN disk[w] ELSE file[w]
        /\ dirty'[w] = IsValidBackup(w)
    BY <1>0, <1>1 DEF TypeOK
  <2>2. (w \in Modified') <=> IsValidBackup(w)
    BY <2>1, <1>1 DEF Modified
  <2>3. /\ ioOperationQueues'[w] = <<>>
        /\ IF IsValidBackup(w) THEN pendingBackupOperations'[w] = "scheduled"
           ELSE pendingBackupOperations'[w] = pendingBackupOperations[w]
    <3>1. Cancelled(q, "tracker") = <<>>
      BY <1>1, <1>2, CancelledKeeps
    <3> QED
      BY <3>1, <1>0, <1>1, ScheduleBackupIs
  <2>4. pendingBackupOperations[w] \notin {"scheduled", "snapshot", "queued"}
    BY <1>0, <1>1 DEF CopyOK, PendingOK, Modified, QueueOK
  <2>5. QueueOK(ioOperationQueues[w], pendingBackupOperations[w], phase)'
    BY <2>3, <2>4 DEF QueueOK
  <2>6. PendingOK(w)'
    BY <2>2, <2>3, <2>4, <1>0 DEF PendingOK
  <2>7. DiskOK(w)'
    <3>1. IsValidBackup(w) => 0 + 1 <= 2 * edits
      BY <1>2, <1>3
    <3>2. 0 + 0 <= 2 * edits
      BY <1>2
    <3>3. OnlyDeletes(ioOperationQueues'[w])
      BY <2>3 DEF OnlyDeletes
    <3>4. w \in registered'
      BY <1>1
    <3> QED
      BY <3>1, <3>2, <3>3, <3>4, <2>1, <1>0, <1>2, <1>3 DEF CopyOK, DiskOK
  <2>8. UnopenedOK(w)'
    BY <1>1 DEF UnopenedOK
  <2>9. CleanOK(w)'
    BY <2>2, <2>3, <1>3 DEF CleanOK, WillBeGone, OnlyDeletes
  <2>10. VersionsOK(w)'
    <3>1. OwnVersion(w)' <= 0
      BY <1>1, <1>2 DEF OwnVersion
    <3>2. NotFuture(<<>>, OwnVersion(w)', 0)
      BY <3>1 DEF NotFuture
    <3>3. CurrentIs(<<>>, OwnVersion(w)', 0, disk[w], disk[w])
      BY DEF CurrentIs
    <3> QED
      BY <3>2, <3>3, <2>1, <2>2, <2>3, <1>3 DEF VersionsOK
  <2>11. ShutdownOK(w)'
    BY DEF ShutdownOK
  <2> QED
    BY <2>5, <2>6, <2>7, <2>8, <2>9, <2>10, <2>11 DEF CopyOK
<1> QED
  BY <1>1, <1>5, <1>6, <1>7 DEF IInv

\* The user opens a copy, from its backup if there is one.
LEMMA OpenOK ==
    ASSUME IInv, NEW w \in WorkingCopies, Open(w)
    PROVE  IInv'
  BY ResolveOK DEF Open, shutdownVars

\* The tracker opens a copy from its backup.
LEMMA RestoreBackupOK ==
    ASSUME IInv, NEW w \in WorkingCopies, RestoreBackup(w)
    PROVE  IInv'
<1>1. /\ phase = "none" /\ unrestoredBackups' = unrestoredBackups \ {w}
      /\ UNCHANGED <<mapWorkingCopyToContentVersion, suspended, isReady, model, disk>>
      /\ UNCHANGED <<phase, modifiedWorkingCopies, hotExit, backups, backupError>>
      /\ UNCHANGED <<edits, faults, closes, shutdowns, editedLate>>
  BY DEF RestoreBackup, shutdownVars
<1>2. CASE Resolve(w)
  BY <1>1, <1>2, ResolveOK
<1>3. CASE /\ w \in registered
           /\ UNCHANGED <<registered, content, dirty, file>>
           /\ UNCHANGED <<pendingBackupOperations, snapshot, ioOperationQueues>>
           /\ UNCHANGED <<closed, stale, disturbed>>
  <2>1. TypeOK'
    BY <1>1, <1>3 DEF IInv, TypeOK
  <2>2. ASSUME NEW n \in WorkingCopies \ {w} PROVE CopyOK(n)'
    BY <1>1, <1>3, OthersKept
  <2>3. CopyOK(w)'
    <3>1. SameCopy(w)
      BY <1>1, <1>3, BoundsAssumption DEF SameCopy, IInv, TypeOK
    <3>2. CopyOK(w) /\ TypeOK
      BY DEF IInv
    <3>3. (w \in Modified') <=> (w \in Modified)
      BY <1>3 DEF Modified
    <3>4. QueueOK(ioOperationQueues[w], pendingBackupOperations[w], phase)' /\ PendingOK(w)'
      BY <1>1, <1>3, <3>2, <3>3 DEF CopyOK, PendingOK
    <3>5. UnopenedOK(w)' /\ ShutdownOK(w)'
      BY <1>1, <1>3 DEF UnopenedOK, ShutdownOK
    <3> QED
      BY <3>1, <3>2, <3>4, <3>5, CopyKept DEF CopyOK
  <2> QED
    BY <2>1, <2>2, <2>3, <1>1, <1>3 DEF IInv
<1> QED
  BY <1>2, <1>3 DEF RestoreBackup, copyVars

\* The timer of a scheduled backup takes the snapshot.
LEMMA BackupTimerOK ==
    ASSUME IInv, NEW w \in WorkingCopies, BackupTimer(w)
    PROVE  IInv'
<1>0. TypeOK /\ CopyOK(w) /\ pendingBackupOperations[w] = "scheduled"
  BY DEF IInv, BackupTimer
<1>1. /\ UNCHANGED <<registered, content, dirty, file, mapWorkingCopyToContentVersion>>
      /\ UNCHANGED <<suspended, isReady, unrestoredBackups, model, ioOperationQueues, disk>>
      /\ UNCHANGED <<phase, modifiedWorkingCopies, hotExit, backups, backupError>>
      /\ UNCHANGED <<edits, faults, closes, shutdowns, closed, stale, editedLate, disturbed>>
      /\ pendingBackupOperations' = [pendingBackupOperations EXCEPT ![w] = "snapshot"]
      /\ snapshot' = [snapshot EXCEPT ![w] = content[w]]
  BY DEF BackupTimer, copyVars, serviceVars, shutdownVars, historyVars
<1>2. TypeOK'
  <2>1. /\ pendingBackupOperations' \in
              [WorkingCopies -> {"none", "scheduled", "snapshot", "queued"}]
        /\ snapshot' \in [WorkingCopies -> Texts]
    BY <1>0, <1>1 DEF TypeOK
  <2> QED
    BY <2>1, <1>0, <1>1 DEF TypeOK
<1>3. ASSUME NEW n \in WorkingCopies \ {w} PROVE CopyOK(n)'
  <2>1. pendingBackupOperations'[n] = pendingBackupOperations[n] /\ snapshot'[n] = snapshot[n]
    BY <1>0, <1>1 DEF TypeOK
  <2> QED
    BY <2>1, <1>1, OthersKept
<1>4. CopyOK(w)'
  <2>1. pendingBackupOperations'[w] = "snapshot" /\ snapshot'[w] = content[w]
    BY <1>0, <1>1 DEF TypeOK
  <2>2. w \in Modified /\ ~suspended
    BY <1>0 DEF CopyOK, PendingOK
  <2>3. w \in Modified' /\ w \in registered'
    BY <1>1, <2>2 DEF Modified
  <2>4. QueueOK(ioOperationQueues[w], pendingBackupOperations[w], phase)'
    BY <1>0, <1>1, <2>1 DEF CopyOK, QueueOK
  <2>5. PendingOK(w)' /\ CleanOK(w)' /\ UnopenedOK(w)'
    BY <2>1, <2>2, <2>3, <1>1 DEF PendingOK, CleanOK, UnopenedOK
  <2>6. DiskOK(w)'
    BY <1>0, <1>1 DEF CopyOK, DiskOK
  <2>7. VersionsOK(w)' /\ ShutdownOK(w)'
    BY <1>0, <1>1, <2>2, <2>3 DEF CopyOK, VersionsOK, OwnVersion, ShutdownOK, Has
  <2> QED
    BY <2>4, <2>5, <2>6, <2>7 DEF CopyOK
<1> QED
  BY <1>1, <1>2, <1>3, <1>4 DEF IInv

\* The snapshot is handed to the backup service, or came too late.
LEMMA StoreBackupOK ==
    ASSUME IInv, NEW w \in WorkingCopies, StoreBackup(w)
    PROVE  IInv'
<1> DEFINE q == ioOperationQueues[w]
           v == mapWorkingCopyToContentVersion[w]
           t == Write(content[w], v, "tracker")
<1>0. TypeOK /\ CopyOK(w) /\ pendingBackupOperations[w] = "snapshot"
  BY DEF IInv, StoreBackup
<1>1. /\ UNCHANGED <<registered, content, dirty, file, mapWorkingCopyToContentVersion>>
      /\ UNCHANGED <<suspended, isReady, unrestoredBackups, model, disk>>
      /\ UNCHANGED <<phase, modifiedWorkingCopies, hotExit, backups, backupError>>
      /\ UNCHANGED <<edits, faults, closes, shutdowns, closed, stale, editedLate, disturbed>>
      /\ snapshot' = [snapshot EXCEPT ![w] = 0]
  BY DEF StoreBackup, copyVars, shutdownVars, historyVars
<1>2. w \in Modified /\ ~suspended /\ snapshot[w] = content[w] /\ phase \in {"none", "ok"}
  BY <1>0 DEF CopyOK, PendingOK, IInv
<1>3. \/ /\ pendingBackupOperations' = [pendingBackupOperations EXCEPT ![w] = "none"]
         /\ ioOperationQueues' = ioOperationQueues
      \/ /\ pendingBackupOperations' = [pendingBackupOperations EXCEPT ![w] = "queued"]
         /\ ioOperationQueues' = [ioOperationQueues EXCEPT ![w] = Append(@, t)]
  BY <1>2 DEF StoreBackup
<1>4. /\ q \in Seq(IoOperation) /\ v \in Versions /\ v \in Nat /\ content[w] \in Texts
      /\ 0 \in Texts
  BY <1>0, TypeFacts, Numbers
<1>5. t \in IoOperation /\ t.op = "write" /\ t.text = content[w] /\ t.version = v
      /\ t.by = "tracker"
  BY <1>4, WriteType
<1>6. Append(q, t) \in Seq(IoOperation)
  BY <1>4, <1>5
<1> HIDE DEF t
<1>7. TypeOK'
  <2>1. /\ pendingBackupOperations' \in
              [WorkingCopies -> {"none", "scheduled", "snapshot", "queued"}]
        /\ snapshot' \in [WorkingCopies -> Texts]
    BY <1>0, <1>1, <1>3, <1>4 DEF TypeOK
  <2>2. ioOperationQueues' \in [WorkingCopies -> Seq(IoOperation)]
    BY <1>0, <1>3, <1>6, ZenonT(30) DEF TypeOK
  <2> QED
    BY <2>1, <2>2, <1>0, <1>1 DEF TypeOK
<1>8. ASSUME NEW n \in WorkingCopies \ {w} PROVE CopyOK(n)'
  <2>1. /\ pendingBackupOperations'[n] = pendingBackupOperations[n] /\ snapshot'[n] = snapshot[n]
        /\ ioOperationQueues'[n] = ioOperationQueues[n]
    BY <1>0, <1>1, <1>3 DEF TypeOK
  <2> QED
    BY <2>1, <1>1, OthersKept
<1>9. CopyOK(w)'
  <2>1. \/ pendingBackupOperations'[w] = "none" /\ ioOperationQueues'[w] = q
        \/ pendingBackupOperations'[w] = "queued" /\ ioOperationQueues'[w] = Append(q, t)
    BY <1>0, <1>3 DEF TypeOK
  <2>2. w \in Modified' /\ w \in registered' /\ w \in registered /\ dirty[w]
    BY <1>1, <1>2 DEF Modified
  <2>3. QueueOK(ioOperationQueues[w], pendingBackupOperations[w], phase)'
    <3>1. QueueOK(q, pendingBackupOperations[w], phase)
      BY <1>0 DEF CopyOK
    <3>2. Quiet(q)
      BY <3>1, <1>0, <1>2, <1>4, IsQuiet
    <3>3. QueueOK(q, "none", phase)
      BY <3>1, <3>2, <1>4, QuietQueue
    <3>4. QueueOK(Append(q, t), "queued", phase)
      BY <3>1, <3>2, <1>4, <1>5, AppendOK
    <3> QED
      BY <3>3, <3>4, <2>1, <1>1
  <2>4. PendingOK(w)' /\ UnopenedOK(w)' /\ CleanOK(w)'
    BY <2>1, <2>2, <1>1, <1>2 DEF PendingOK, UnopenedOK, CleanOK
  <2>5. DiskOK(w)'
    BY <2>2, <1>0, <1>1 DEF CopyOK, DiskOK
  <2>6. VersionsOK(w)' /\ ShutdownOK(w)'
    <3>1. NotFuture(q, OwnVersion(w), v) /\ CurrentIs(q, OwnVersion(w), v, disk[w], content[w])
      BY <2>2, <1>0, <1>2 DEF CopyOK, VersionsOK
    <3>2. v <= v
      BY <1>4
    <3>3. /\ NotFuture(Append(q, t), OwnVersion(w), v)
          /\ CurrentIs(Append(q, t), OwnVersion(w), v, disk[w], content[w])
      BY <3>1, <3>2, <1>4, <1>5, AppendKeeps
    <3>4. OwnVersion(w)' = OwnVersion(w)
      BY <1>1 DEF OwnVersion
    <3>5. VersionsOK(w)'
      BY <3>1, <3>3, <3>4, <2>1, <1>1 DEF VersionsOK
    <3>6. ShutdownOK(w)'
      BY <1>0, <1>1, <1>2, <2>2 DEF CopyOK, ShutdownOK, Has
    <3> QED
      BY <3>5, <3>6
  <2> QED
    BY <2>3, <2>4, <2>5, <2>6 DEF CopyOK
<1> QED
  BY <1>1, <1>7, <1>8, <1>9 DEF IInv

\* The operation at the head: its fields, and that one with the version that is
\* there does nothing, unless that is a stale one
LEMMA HeadIs ==
    ASSUME TypeOK, NEW w \in WorkingCopies, CopyOK(w), ioOperationQueues[w] /= <<>>
    PROVE  LET t == Head(ioOperationQueues[w])
               v == mapWorkingCopyToContentVersion[w]
           IN  /\ t \in IoOperation /\ t.op \in {"write", "delete"}
               /\ t.text \in Texts \cup {NoBackup} /\ t.version \in Versions \cup {NoEntry}
               /\ t.op = "write" => t.text \in Texts /\ t.version \in Versions
               /\ t.op = "delete" => t.text = NoBackup /\ t.version = NoEntry
               /\ (w \in Modified \ stale /\ Has(w, v)) => IsDone(w, t)
<1> DEFINE q == ioOperationQueues[w]
           t == Head(q)
           v == mapWorkingCopyToContentVersion[w]
<1>1. q \in Seq(IoOperation) /\ v \in Versions /\ NoEntry \notin Versions
  BY TypeFacts, Numbers
<1>2. 1 \in 1..Len(q) /\ t = q[1]
  BY <1>1, TailIs
<1>3. /\ t \in IoOperation /\ t.op \in {"write", "delete"}
      /\ t.text \in Texts \cup {NoBackup} /\ t.version \in Versions \cup {NoEntry}
  BY <1>1, <1>2, OperationType
<1>4. /\ t.op = "write" => t.text \in Texts /\ t.version \in Versions
      /\ t.op = "delete" => t.text = NoBackup /\ t.version = NoEntry
  BY <1>2 DEF CopyOK, QueueOK
<1>5. ASSUME w \in Modified \ stale, Has(w, v) PROVE IsDone(w, t)
  <2>1. CurrentIs(q, OwnVersion(w), v, disk[w], content[w])
    BY <1>5 DEF CopyOK, VersionsOK
  <2>2. t.version = v
    BY <2>1, <1>2, <1>5 DEF CurrentIs, OwnVersion, Has
  <2>3. t.op = "write"
    BY <2>2, <1>1, <1>3, <1>4
  <2> QED
    BY <2>2, <2>3, <1>5 DEF IsDone, Has
<1> QED
  BY <1>3, <1>4, <1>5

\* An operation of the queue is done on disk.
LEMMA IoOperationEndsOK ==
    ASSUME IInv, NEW w \in WorkingCopies, IoOperationEnds(w)
    PROVE  IInv'
<1> DEFINE q == ioOperationQueues[w]
           v == mapWorkingCopyToContentVersion[w]
           t == Head(q)
           p == pendingBackupOperations[w]
<1>0. TypeOK /\ CopyOK(w) /\ q /= <<>>
  BY DEF IInv, IoOperationEnds
<1>1. /\ UNCHANGED <<registered, content, dirty, file, mapWorkingCopyToContentVersion>>
      /\ UNCHANGED <<snapshot, suspended, isReady, unrestoredBackups>>
      /\ UNCHANGED <<phase, modifiedWorkingCopies, hotExit, backupError>>
      /\ UNCHANGED <<edits, faults, closes, shutdowns, closed, editedLate, disturbed>>
      /\ stale' = IF t.by = "tracker" /\ ~IsDone(w, t) /\ phase = "none"
                  THEN stale \ {w} ELSE stale
      /\ ioOperationQueues' = [ioOperationQueues EXCEPT ![w] = Tail(@)]
      /\ backups' = IF t.by = "shutdown" THEN backups \cup {w} ELSE backups
      /\ IF IsDone(w, t) THEN UNCHANGED <<disk, model>>
         ELSE disk' = [disk EXCEPT ![w] = t.text] /\ model' = [model EXCEPT ![w] = t.version]
      /\ pendingBackupOperations' =
            IF t.by = "tracker" THEN [pendingBackupOperations EXCEPT ![w] = "none"]
            ELSE pendingBackupOperations
  BY DEF IoOperationEnds, copyVars, BackupVersion, ClearPending
<1>2. /\ q \in Seq(IoOperation) /\ v \in Versions /\ NoEntry \notin Versions /\ NoBackup \notin Texts
      /\ p \in {"none", "scheduled", "snapshot", "queued"}
  BY <1>0, TypeFacts, Numbers
<1>3. /\ t.op \in {"write", "delete"}
      /\ t.text \in Texts \cup {NoBackup} /\ t.version \in Versions \cup {NoEntry}
      /\ t.op = "write" => t.text \in Texts /\ t.version \in Versions
      /\ t.op = "delete" => t.text = NoBackup /\ t.version = NoEntry
      /\ (w \in Modified \ stale /\ Has(w, v)) => IsDone(w, t)
  BY <1>0, HeadIs
<1>4. Tail(q) \in Seq(IoOperation)
  BY <1>0, <1>2, TailIs
<1> HIDE DEF t
<1>5. TypeOK'
  <2>1. pendingBackupOperations' \in
              [WorkingCopies -> {"none", "scheduled", "snapshot", "queued"}]
    BY <1>0, <1>1 DEF TypeOK
  <2>2. disk' \in [WorkingCopies -> Texts \cup {NoBackup, Corrupt}]
        /\ model' \in [WorkingCopies -> Versions \cup {NoEntry}]
    BY <1>0, <1>1, <1>3 DEF TypeOK
  <2>3. ioOperationQueues' \in [WorkingCopies -> Seq(IoOperation)]
    BY <1>0, <1>1, <1>4 DEF TypeOK
  <2>4. backups' \subseteq WorkingCopies
    BY <1>0, <1>1 DEF TypeOK
  <2> QED
    BY <2>1, <2>2, <2>3, <2>4, <1>0, <1>1 DEF TypeOK
<1>6. ASSUME NEW n \in WorkingCopies \ {w} PROVE CopyOK(n)'
  <2>1. /\ pendingBackupOperations'[n] = pendingBackupOperations[n]
        /\ ioOperationQueues'[n] = ioOperationQueues[n]
        /\ model'[n] = model[n] /\ disk'[n] = disk[n]
        /\ (n \in backups') <=> (n \in backups)
        /\ (n \in stale') <=> (n \in stale)
    BY <1>0, <1>1 DEF TypeOK
  <2> QED
    BY <2>1, <1>1, OthersKept
<1>7. CopyOK(w)'
  <2>1. /\ ioOperationQueues'[w] = Tail(q)
        /\ pendingBackupOperations'[w] = IF t.by = "tracker" THEN "none" ELSE p
    BY <1>0, <1>1 DEF TypeOK
  <2>2. \/ IsDone(w, t) /\ disk'[w] = disk[w] /\ model'[w] = model[w]
        \/ ~IsDone(w, t) /\ disk'[w] = t.text /\ model'[w] = t.version
    BY <1>0, <1>1 DEF TypeOK
  <2>3. (w \in Modified') <=> (w \in Modified)
    BY <1>1 DEF Modified
  <2>4. QueueOK(ioOperationQueues[w], pendingBackupOperations[w], phase)'
    <3>1. QueueOK(q, p, phase)
      BY <1>0 DEF CopyOK
    <3>2. QueueOK(Tail(q), IF t.by = "tracker" THEN "none" ELSE p, phase)
      BY <3>1, <1>0, <1>2, TailOK DEF t
    <3> QED
      BY <3>2, <2>1, <1>1
  <2>5. PendingOK(w)'
    BY <2>1, <2>3, <1>0, <1>1 DEF CopyOK, PendingOK
  <2>6. t.op = "delete" => ~IsDone(w, t) /\ disk'[w] = NoBackup /\ model'[w] = NoEntry
    BY <1>3, <2>2 DEF IsDone
  <2>7. OnlyDeletes(q) => t.op = "delete" /\ OnlyDeletes(Tail(q))
    BY <1>0, <1>2, TailKeeps DEF t
  <2>8. DiskOK(w)'
    <3>1. model'[w] = NoEntry => disk'[w] \notin Texts
      BY <2>2, <2>6, <1>0, <1>2, <1>3 DEF CopyOK, DiskOK
    <3>2. edits = 0 => disk'[w] \notin Texts /\ OnlyDeletes(Tail(q))
      BY <2>6, <2>7, <1>0, <1>2 DEF CopyOK, DiskOK
    <3> QED
      BY <3>1, <3>2, <2>1, <1>0, <1>1 DEF CopyOK, DiskOK
  <2>9. UnopenedOK(w)'
    <3>1. w \notin registered \cup closed => p = "none" /\ OnlyDeletes(q)
      BY <1>0 DEF CopyOK, UnopenedOK
    <3> QED
      BY <3>1, <2>1, <2>6, <2>7, <1>1, <1>2 DEF UnopenedOK
  <2>10. CleanOK(w)'
    <3> SUFFICES ASSUME w \in registered \ (Modified \cup disturbed)
                 PROVE  WillBeGone(Tail(q), disk'[w])
      BY <2>1, <2>3, <1>1 DEF CleanOK
    <3>1. WillBeGone(q, disk[w])
      BY <1>0 DEF CopyOK, CleanOK
    <3>2. /\ t.op = "delete" => WillBeGone(Tail(q), NoBackup)
          /\ \A b2 : t.op = "write" => WillBeGone(Tail(q), b2)
      BY <3>1, <1>0, <1>2, TailWillBeGone DEF t
    <3> QED
      BY <3>2, <2>6, <1>3
  <2>11. VersionsOK(w)'
    <3>1. \/ OwnVersion(w)' = OwnVersion(w) /\ (OwnVersion(w) = NoEntry \/ disk'[w] = disk[w])
          \/ OwnVersion(w)' = t.version /\ disk'[w] = t.text
      BY <2>2, <1>1 DEF OwnVersion
    <3>2. w \in registered => NotFuture(Tail(q), OwnVersion(w)', v)
      BY <3>1, <1>0, <1>2, TailKeeps DEF t, CopyOK, VersionsOK
    <3>3. ASSUME w \in Modified
          PROVE  CurrentIs(Tail(q), OwnVersion(w)', v, disk'[w], content[w])
      <4>1. /\ CurrentIs(Tail(q), OwnVersion(w), v, disk[w], content[w])
            /\ CurrentIs(Tail(q), t.version, v, t.text, content[w])
        BY <3>3, <1>0, <1>2, TailKeeps DEF t, CopyOK, VersionsOK
      <4>2. OwnVersion(w) = NoEntry => CurrentIs(Tail(q), OwnVersion(w), v, disk'[w], content[w])
        BY <4>1, <1>2 DEF CurrentIs
      <4> QED
        BY <3>1, <4>1, <4>2
    <3> QED
      BY <3>2, <3>3, <2>1, <2>3, <1>1 DEF VersionsOK
  <2>12. ShutdownOK(w)'
    <3> SUFFICES ASSUME w \in Modified \ (editedLate \cup stale)
                 PROVE  ShutdownOK(w)'
      <4>1. phase = "none" \/ stale' = stale
        BY <1>1
      <4> QED
        BY <4>1, <2>3, <1>1 DEF ShutdownOK
    <3>0. ShutdownOK(w)
      BY <1>0 DEF CopyOK
    <3>1. model[w] = v => model'[w] = v
      BY <2>2, <1>3 DEF Has
    <3>2. ASSUME phase = "backups"
          PROVE  /\ w \in backups' => model'[w] = v
                 /\ ShutdownWrites(Tail(q), v)
      <4>1. ShutdownWrites(q, v) /\ (w \in backups => model[w] = v)
        BY <3>0, <3>2 DEF ShutdownOK, Has
      <4>2. ShutdownWrites(Tail(q), v) /\ (t.by = "shutdown" => t.version = v)
        BY <4>1, <1>0, <1>2, TailKeeps DEF t
      <4>3. t.by = "shutdown" => model'[w] = v
        BY <4>2, <2>2 DEF IsDone, Has
      <4> QED
        BY <4>1, <4>2, <4>3, <3>1, <1>1
    <3> QED
      BY <3>0, <3>1, <3>2, <2>1, <1>1 DEF ShutdownOK, Has
  <2> QED
    BY <2>4, <2>5, <2>8, <2>9, <2>10, <2>11, <2>12 DEF CopyOK
<1> QED
  BY <1>1, <1>5, <1>6, <1>7 DEF IInv

\* An operation of the queue fails; a write may have truncated the file.
LEMMA IoOperationFailsOK ==
    ASSUME IInv, NEW w \in WorkingCopies, IoOperationFails(w)
    PROVE  IInv'
<1> DEFINE q == ioOperationQueues[w]
           v == mapWorkingCopyToContentVersion[w]
           t == Head(q)
           p == pendingBackupOperations[w]
<1>0. TypeOK /\ CopyOK(w) /\ q /= <<>> /\ faults < MaxFaults /\ ~IsDone(w, t)
  BY DEF IInv, IoOperationFails
<1>1. /\ UNCHANGED <<registered, content, dirty, file, mapWorkingCopyToContentVersion>>
      /\ UNCHANGED <<snapshot, suspended, isReady, unrestoredBackups, model>>
      /\ UNCHANGED <<phase, modifiedWorkingCopies, hotExit, backups>>
      /\ UNCHANGED <<edits, closes, shutdowns, closed, stale, editedLate>>
      /\ disturbed' = disturbed \cup {w} /\ faults' = faults + 1
      /\ ioOperationQueues' = [ioOperationQueues EXCEPT ![w] = Tail(@)]
      /\ backupError' = (backupError \/ t.by = "shutdown")
      /\ pendingBackupOperations' =
            IF t.by = "tracker" THEN [pendingBackupOperations EXCEPT ![w] = "none"]
            ELSE pendingBackupOperations
  BY DEF IoOperationFails, copyVars, ClearPending
<1>a. PICK left \in {disk[w], Corrupt} :
         (t.op = "delete" => left = disk[w]) /\ disk' = [disk EXCEPT ![w] = left]
  BY DEF IoOperationFails
<1>2. /\ q \in Seq(IoOperation) /\ v \in Versions /\ Corrupt \notin Texts
      /\ p \in {"none", "scheduled", "snapshot", "queued"}
      /\ disk[w] \in Texts \cup {NoBackup, Corrupt}
  BY <1>0, TypeFacts, Numbers
<1>3. w \in Modified => OwnVersion(w) /= v
  BY <1>0, <1>2, HeadIs, Numbers DEF OwnVersion, Has
<1>4. Tail(q) \in Seq(IoOperation)
  BY <1>0, <1>2, TailIs
<1> HIDE DEF t
<1>5. TypeOK'
  <2>1. pendingBackupOperations' \in
              [WorkingCopies -> {"none", "scheduled", "snapshot", "queued"}]
    BY <1>0, <1>1 DEF TypeOK
  <2>2. disk' \in [WorkingCopies -> Texts \cup {NoBackup, Corrupt}]
    BY <1>0, <1>a, <1>2 DEF TypeOK
  <2>3. ioOperationQueues' \in [WorkingCopies -> Seq(IoOperation)]
    BY <1>0, <1>1, <1>4 DEF TypeOK
  <2>4. faults' \in 0..MaxFaults
    BY <1>0, <1>1, BoundsAssumption DEF TypeOK
  <2>5. backupError' \in BOOLEAN
    BY <1>0, <1>1 DEF TypeOK
  <2>6. disturbed' \subseteq WorkingCopies
    BY <1>0, <1>1 DEF TypeOK
  <2> QED
    BY <2>1, <2>2, <2>3, <2>4, <2>5, <2>6, <1>0, <1>1 DEF TypeOK
<1>6. ASSUME NEW n \in WorkingCopies \ {w} PROVE CopyOK(n)'
  <2>1. /\ pendingBackupOperations'[n] = pendingBackupOperations[n]
        /\ ioOperationQueues'[n] = ioOperationQueues[n]
        /\ disk'[n] = disk[n]
        /\ (n \in disturbed) => (n \in disturbed')
    BY <1>0, <1>1, <1>a DEF TypeOK
  <2> QED
    BY <2>1, <1>1, OthersKept
<1>7. CopyOK(w)'
  <2>1. /\ ioOperationQueues'[w] = Tail(q) /\ disk'[w] = left
        /\ pendingBackupOperations'[w] = IF t.by = "tracker" THEN "none" ELSE p
    BY <1>0, <1>1, <1>a DEF TypeOK
  <2>2. disk'[w] \in Texts => disk'[w] = disk[w]
    BY <2>1, <1>2
  <2>3. (w \in Modified') <=> (w \in Modified)
    BY <1>1 DEF Modified
  <2>4. QueueOK(ioOperationQueues[w], pendingBackupOperations[w], phase)'
    <3>1. QueueOK(q, p, phase)
      BY <1>0 DEF CopyOK
    <3>2. QueueOK(Tail(q), IF t.by = "tracker" THEN "none" ELSE p, phase)
      BY <3>1, <1>0, <1>2, TailOK DEF t
    <3> QED
      BY <3>2, <2>1, <1>1
  <2>5. PendingOK(w)'
    BY <2>1, <2>3, <1>0, <1>1 DEF CopyOK, PendingOK
  <2>6. OnlyDeletes(q) => OnlyDeletes(Tail(q))
    BY <1>0, <1>2, TailKeeps DEF t
  <2>7. DiskOK(w)'
    BY <2>1, <2>2, <2>6, <1>0, <1>1 DEF CopyOK, DiskOK
  <2>8. UnopenedOK(w)'
    <3>1. w \notin registered \cup closed =>
             /\ p = "none" /\ OnlyDeletes(q) /\ model[w] \in {NoEntry, 0}
             /\ disk[w] \notin Texts \/ EmptyWindow
      BY <1>0 DEF CopyOK, UnopenedOK
    <3>2. EmptyWindow \in BOOLEAN
      BY KindsAssumption
    <3> QED
      BY <3>1, <3>2, <2>1, <2>2, <2>6, <1>1 DEF UnopenedOK
  <2>9. CleanOK(w)'
    BY <1>1 DEF CleanOK
  <2>10. VersionsOK(w)'
    <3>1. w \in registered => NotFuture(Tail(q), OwnVersion(w), v)
      BY <1>0, <1>2, TailKeeps DEF CopyOK, VersionsOK
    <3>2. w \in Modified => CurrentIs(Tail(q), OwnVersion(w), v, disk[w], content[w])
      BY <1>0, <1>2, TailKeeps DEF CopyOK, VersionsOK
    <3>3. w \in Modified => CurrentIs(Tail(q), OwnVersion(w), v, left, content[w])
      BY <3>2, <1>3 DEF CurrentIs
    <3>4. OwnVersion(w)' = OwnVersion(w)
      BY <1>1 DEF OwnVersion
    <3> QED
      BY <3>1, <3>3, <3>4, <2>1, <2>3, <1>1 DEF VersionsOK
  <2>11. ShutdownOK(w)'
    <3>1. ShutdownOK(w)
      BY <1>0 DEF CopyOK
    <3>2. \A u : ShutdownWrites(q, u) => ShutdownWrites(Tail(q), u)
      BY <1>0, <1>2, TailKeeps
    <3> QED
      BY <3>1, <3>2, <2>1, <2>3, <1>1 DEF ShutdownOK, Has
  <2> QED
    BY <2>4, <2>5, <2>7, <2>8, <2>9, <2>10, <2>11 DEF CopyOK
<1> QED
  BY <1>1, <1>5, <1>6, <1>7 DEF IInv

\* The tracker learns which backups there are.
LEMMA ResolveBackupsToRestoreOK ==
    ASSUME IInv, ResolveBackupsToRestore
    PROVE  IInv'
<1>1. /\ UNCHANGED <<registered, content, dirty, file, mapWorkingCopyToContentVersion>>
      /\ UNCHANGED <<pendingBackupOperations, snapshot, suspended, model, ioOperationQueues, disk>>
      /\ UNCHANGED <<phase, modifiedWorkingCopies, hotExit, backups, backupError>>
      /\ UNCHANGED <<edits, faults, closes, shutdowns, closed, stale, editedLate, disturbed>>
      /\ isReady' = TRUE
      /\ unrestoredBackups' = {w \in WorkingCopies : model[w] /= NoEntry /\ disk[w] /= Corrupt}
  BY DEF ResolveBackupsToRestore, copyVars, serviceVars, shutdownVars, historyVars
<1>2. TypeOK'
  BY <1>1 DEF IInv, TypeOK
<1>3. ASSUME NEW n \in WorkingCopies PROVE CopyOK(n)'
  <2>1. CopyOK(n) /\ TypeOK
    BY DEF IInv
  <2>2. SameCopy(n)
    BY <1>1, <2>1, TypeFacts DEF SameCopy
  <2>3. (n \in Modified') <=> (n \in Modified)
    BY <1>1 DEF Modified
  <2>4. QueueOK(ioOperationQueues[n], pendingBackupOperations[n], phase)' /\ PendingOK(n)'
    BY <1>1, <2>1, <2>3 DEF CopyOK, PendingOK
  <2>5. UnopenedOK(n)'
    <3>1. disk[n] \in Texts => n \in unrestoredBackups'
      BY <1>1, <2>1, Numbers DEF CopyOK, DiskOK
    <3> QED
      BY <3>1, <2>1, <1>1 DEF CopyOK, UnopenedOK
  <2>6. ShutdownOK(n)'
    BY <1>1, <2>1, <2>3 DEF CopyOK, ShutdownOK, Has
  <2> QED
    BY <2>1, <2>2, <2>4, <2>5, <2>6, CopyKept DEF CopyOK
<1> QED
  BY <1>1, <1>2, <1>3 DEF IInv

-----------------------------------------------------------------------------
(* The shutdown: steps that end a phase and leave the files alone            *)

\* A step of the shutdown that concerns no copy
LEMMA PhaseChange ==
    ASSUME IInv,
           UNCHANGED <<registered, content, dirty, file, mapWorkingCopyToContentVersion>>,
           UNCHANGED <<pendingBackupOperations, snapshot, isReady, unrestoredBackups>>,
           UNCHANGED <<model, ioOperationQueues, disk>>,
           UNCHANGED <<edits, closes, shutdowns, closed, stale, editedLate, disturbed>>,
           faults' \in 0..MaxFaults,
           phase' \in {"none", "confirm", "ok"}, suspended' = (phase' = "confirm"),
           modifiedWorkingCopies' \subseteq modifiedWorkingCopies,
           hotExit' \in {"none", "scratchpads", "all"}, backups' \subseteq WorkingCopies,
           backupError' \in BOOLEAN,
           phase = "backups" => ShutdownOperationsDone,
           phase' = "confirm" => suspended,
           \A n \in WorkingCopies : ShutdownOK(n)'
    PROVE  IInv'
<1>1. TypeOK'
  <2>1. /\ modifiedWorkingCopies' \subseteq WorkingCopies /\ suspended' \in BOOLEAN
        /\ phase' \in {"none", "saving", "backups", "confirm", "discards", "wipe", "ok", "closing"}
    BY DEF IInv, TypeOK
  <2> QED
    BY <2>1 DEF IInv, TypeOK
<1>2. ASSUME NEW n \in WorkingCopies PROVE CopyOK(n)'
  <2> DEFINE q == ioOperationQueues[n]
             p == pendingBackupOperations[n]
  <2>1. CopyOK(n) /\ TypeOK
    BY DEF IInv
  <2>2. SameCopy(n)
    BY <2>1, TypeFacts DEF SameCopy
  <2>3. (n \in Modified') <=> (n \in Modified)
    BY DEF Modified
  <2>4. QueueOK(q, p, phase')
    <3>1. \A i \in 1..Len(q) : q[i].by /= "shutdown"
      BY <2>1 DEF CopyOK, QueueOK, ShutdownOperationsDone
    <3> QED
      BY <3>1, <2>1 DEF CopyOK, QueueOK
  <2>5. PendingOK(n)'
    BY <2>1, <2>3 DEF CopyOK, PendingOK
  <2>6. UnopenedOK(n)'
    BY <2>1 DEF CopyOK, UnopenedOK
  <2> QED
    BY <2>1, <2>2, <2>4, <2>5, <2>6, CopyKept DEF CopyOK
<1>3. modifiedWorkingCopies' \subseteq registered' \cup closed'
  BY DEF IInv
<1>4. suspended' <=> phase' \notin {"none", "ok"}
  OBVIOUS
<1> QED
  BY <1>1, <1>2, <1>3, <1>4 DEF IInv

\* The backups before the shutdown are done.
LEMMA BackupsDoneOK ==
    ASSUME IInv, BackupsDone
    PROVE  IInv'
<1>1. /\ UNCHANGED <<registered, content, dirty, file, mapWorkingCopyToContentVersion>>
      /\ UNCHANGED <<pendingBackupOperations, snapshot, isReady, unrestoredBackups>>
      /\ UNCHANGED <<model, ioOperationQueues, disk>>
      /\ UNCHANGED <<edits, faults, closes, shutdowns, closed, stale, editedLate, disturbed>>
      /\ phase = "backups" /\ ShutdownOperationsDone
  BY DEF BackupsDone, copyVars, serviceVars, historyVars
<1>2. faults' \in 0..MaxFaults /\ suspended = TRUE /\ backups \subseteq WorkingCopies
      /\ hotExit \in {"none", "scratchpads", "all"}
  BY <1>1 DEF IInv, TypeOK
<1>3. \A n \in WorkingCopies : (n \in Modified') <=> (n \in Modified)
  BY <1>1 DEF Modified
<1>4. ASSUME NEW n \in Modified \ (editedLate \cup stale)
      PROVE  n \in modifiedWorkingCopies /\ (n \in backups => Has(n, mapWorkingCopyToContentVersion[n]))
  <2>1. n \in WorkingCopies
    BY DEF Modified, IInv, TypeOK
  <2> QED
    BY <1>1, <1>4, <2>1 DEF IInv, CopyOK, ShutdownOK
<1>5. CASE backups = modifiedWorkingCopies \/ backupError
  <2>1. Return(IsVeto)
    BY <1>5 DEF BackupsDone
  <2>2. /\ phase' = (IF IsVeto THEN "none" ELSE "ok") /\ suspended' = FALSE
        /\ modifiedWorkingCopies' = {} /\ backups' = {} /\ backupError' = FALSE /\ hotExit' = "none"
    BY <2>1 DEF Return
  <2>3. ASSUME NEW n \in WorkingCopies PROVE ShutdownOK(n)'
    <3>1. CASE IsVeto
      BY <3>1, <2>2 DEF ShutdownOK
    <3>2. CASE ~IsVeto
      <4>1. phase' = "ok" /\ backups = modifiedWorkingCopies
        BY <3>2, <2>2 DEF IsVeto
      <4>2. n \in Modified \ (editedLate \cup stale) => Has(n, mapWorkingCopyToContentVersion[n])
        BY <4>1, <1>4, <2>3
      <4> QED
        BY <4>1, <4>2, <1>1, <1>3 DEF ShutdownOK, Has
    <3> QED
      BY <3>1, <3>2
  <2>4. phase' \in {"none", "ok"}
    BY <2>2
  <2> QED
    BY <1>1, <1>2, <2>2, <2>3, <2>4, PhaseChange
<1>6. CASE ~(backups = modifiedWorkingCopies \/ backupError)
  <2>1. ConfirmBeforeShutdown
    BY <1>6 DEF BackupsDone
  <2>2. /\ phase' = "confirm" /\ suspended' = suspended /\ hotExit' = hotExit /\ backups' = backups
        /\ modifiedWorkingCopies' = modifiedWorkingCopies \ backups /\ backupError' = FALSE
    BY <2>1 DEF ConfirmBeforeShutdown
  <2>3. ASSUME NEW n \in WorkingCopies PROVE ShutdownOK(n)'
    BY <1>1, <1>3, <1>4, <2>2, <2>3 DEF ShutdownOK, Has
  <2> QED
    BY <1>1, <1>2, <2>2, <2>3, PhaseChange
<1> QED
  BY <1>5, <1>6

\* The user cancels the shutdown.
LEMMA ConfirmCancelOK ==
    ASSUME IInv, ConfirmCancel
    PROVE  IInv'
<1>1. /\ UNCHANGED <<registered, content, dirty, file, mapWorkingCopyToContentVersion>>
      /\ UNCHANGED <<pendingBackupOperations, snapshot, isReady, unrestoredBackups>>
      /\ UNCHANGED <<model, ioOperationQueues, disk>>
      /\ UNCHANGED <<edits, faults, closes, shutdowns, closed, stale, editedLate, disturbed>>
      /\ phase = "confirm" /\ phase' = "none" /\ suspended' = FALSE
      /\ modifiedWorkingCopies' = {} /\ backups' = {} /\ backupError' = FALSE /\ hotExit' = "none"
  BY DEF ConfirmCancel, Return, copyVars, serviceVars, historyVars
<1>2. faults' \in 0..MaxFaults
  BY <1>1 DEF IInv, TypeOK
<1>3. \A n \in WorkingCopies : ShutdownOK(n)'
  BY <1>1 DEF ShutdownOK
<1> QED
  BY <1>1, <1>2, <1>3, PhaseChange

\* The discards of the shutdown are done.
LEMMA DiscardsDoneOK ==
    ASSUME IInv, DiscardsDone
    PROVE  IInv'
<1>1. /\ UNCHANGED <<registered, content, dirty, file, mapWorkingCopyToContentVersion>>
      /\ UNCHANGED <<pendingBackupOperations, snapshot, isReady, unrestoredBackups>>
      /\ UNCHANGED <<model, ioOperationQueues, disk>>
      /\ UNCHANGED <<edits, faults, closes, shutdowns, closed, stale, editedLate, disturbed>>
      /\ phase = "discards" /\ phase' = "ok" /\ suspended' = FALSE
      /\ modifiedWorkingCopies' = {} /\ backups' = {} /\ backupError' = FALSE /\ hotExit' = "none"
  BY DEF DiscardsDone, Return, copyVars, serviceVars, historyVars
<1>2. faults' \in 0..MaxFaults
  BY <1>1 DEF IInv, TypeOK
<1>3. ASSUME NEW n \in WorkingCopies PROVE ShutdownOK(n)'
  <2>1. ShutdownOK(n)
    BY <1>3 DEF IInv, CopyOK
  <2>2. (n \in Modified') <=> (n \in Modified)
    BY <1>1 DEF Modified
  <2> QED
    BY <1>1, <2>1, <2>2 DEF ShutdownOK, Has
<1> QED
  BY <1>1, <1>2, <1>3, PhaseChange

\* Another participant vetoes the shutdown.
LEMMA ShutdownVetoedOK ==
    ASSUME IInv, ShutdownVetoed
    PROVE  IInv'
<1>1. /\ UNCHANGED <<registered, content, dirty, file, mapWorkingCopyToContentVersion>>
      /\ UNCHANGED <<pendingBackupOperations, snapshot, isReady, unrestoredBackups, suspended>>
      /\ UNCHANGED <<model, ioOperationQueues, disk>>
      /\ UNCHANGED <<edits, faults, closes, shutdowns, closed, stale, editedLate, disturbed>>
      /\ UNCHANGED <<modifiedWorkingCopies, hotExit, backups, backupError>>
      /\ phase = "ok" /\ phase' = "none"
  BY DEF ShutdownVetoed, copyVars, trackerVars, serviceVars, historyVars
<1>2. /\ faults' \in 0..MaxFaults /\ suspended = FALSE /\ backups' \subseteq WorkingCopies
      /\ hotExit' \in {"none", "scratchpads", "all"} /\ backupError' \in BOOLEAN
  BY <1>1 DEF IInv, TypeOK
<1>3. \A n \in WorkingCopies : ShutdownOK(n)'
  BY <1>1 DEF ShutdownOK
<1> QED
  BY <1>1, <1>2, <1>3, PhaseChange

\* The folder of all backups is deleted, or that fails.
LEMMA WipeEndsOK ==
    ASSUME IInv, NEW succeeds \in BOOLEAN, WipeEnds(succeeds)
    PROVE  IInv'
<1>1. /\ UNCHANGED <<registered, content, dirty, file, mapWorkingCopyToContentVersion>>
      /\ UNCHANGED <<pendingBackupOperations, snapshot, isReady, unrestoredBackups>>
      /\ UNCHANGED ioOperationQueues
      /\ UNCHANGED <<edits, closes, shutdowns, closed, stale, editedLate, disturbed>>
      /\ phase = "wipe" /\ phase' = "ok" /\ suspended' = FALSE
      /\ modifiedWorkingCopies' = {} /\ backups' = {} /\ backupError' = FALSE /\ hotExit' = "none"
  BY DEF WipeEnds, Return, copyVars
<1>2. faults' \in 0..MaxFaults
  BY BoundsAssumption DEF IInv, TypeOK, WipeEnds
<1>3. ASSUME NEW n \in WorkingCopies PROVE n \notin Modified \ (editedLate \cup stale) /\ ShutdownOK(n)'
  <2>1. ShutdownOK(n)
    BY <1>3 DEF IInv, CopyOK
  <2>2. (n \in Modified') <=> (n \in Modified)
    BY <1>1 DEF Modified
  <2>3. n \notin Modified \ (editedLate \cup stale)
    BY <1>1, <2>1 DEF ShutdownOK
  <2> QED
    BY <1>1, <2>2, <2>3 DEF ShutdownOK
<1>4. CASE ~succeeds
  <2>1. UNCHANGED <<model, disk>>
    BY <1>4 DEF WipeEnds
  <2> QED
    BY <1>1, <1>2, <1>3, <2>1, PhaseChange
<1>5. CASE succeeds
  <2>1. /\ disk' = [w \in WorkingCopies |-> NoBackup]
        /\ model' = [w \in WorkingCopies |-> NoEntry]
    BY <1>5 DEF WipeEnds
  <2>2. TypeOK'
    BY <1>1, <1>2, <2>1 DEF IInv, TypeOK
  <2>3. ASSUME NEW n \in WorkingCopies PROVE CopyOK(n)'
    <3> DEFINE q == ioOperationQueues[n]
               p == pendingBackupOperations[n]
               v == mapWorkingCopyToContentVersion[n]
    <3>1. /\ CopyOK(n) /\ disk'[n] = NoBackup /\ model'[n] = NoEntry /\ NoBackup \notin Texts
          /\ v \in Nat /\ NoEntry \in Int /\ NoEntry < 0
      BY <2>1, Numbers, TypeFacts DEF IInv
    <3>2. (n \in Modified') <=> (n \in Modified)
      BY <1>1 DEF Modified
    <3>3. QueueOK(q, p, "ok")
      BY <3>1, <1>1 DEF CopyOK, QueueOK
    <3>4. PendingOK(n)' /\ DiskOK(n)' /\ UnopenedOK(n)'
      BY <3>1, <3>2, <1>1 DEF CopyOK, PendingOK, DiskOK, UnopenedOK
    <3>5. CleanOK(n)'
      BY <3>1, <3>2, <1>1 DEF CopyOK, CleanOK, WillBeGone
    <3>6. VersionsOK(n)'
      <4>1. NoEntry <= v /\ NoEntry /= v
        BY <3>1
      <4>2. n \in registered => NotFuture(q, NoEntry, v)
        BY <3>1, <4>1 DEF CopyOK, VersionsOK, NotFuture
      <4>3. n \in Modified => CurrentIs(q, NoEntry, v, NoBackup, content[n])
        BY <3>1, <4>1 DEF CopyOK, VersionsOK, CurrentIs
      <4>4. OwnVersion(n)' = NoEntry
        BY <3>1 DEF OwnVersion
      <4> QED
        BY <4>2, <4>3, <4>4, <3>1, <3>2, <1>1 DEF VersionsOK
    <3> QED
      BY <3>3, <3>4, <3>5, <3>6, <1>1, <1>3 DEF CopyOK
  <2> QED
    BY <2>2, <2>3, <1>1 DEF IInv
<1> QED
  BY <1>4, <1>5

-----------------------------------------------------------------------------
(* The shutdown: steps that queue operations                                 *)

\* A queue of n that nobody waits for, while these are disturbed
QueueReady(n, queue, ds) ==
    /\ queue \in Seq(IoOperation) /\ Quiet(queue) /\ QueueOK(queue, "none", "none")
    /\ edits = 0 => OnlyDeletes(queue)
    /\ n \notin registered \cup closed =>
          /\ OnlyDeletes(queue)
          /\ (disk[n] \in Texts /\ ~EmptyWindow) => queue = <<>>
    /\ n \in registered \ (Modified \cup ds) => WillBeGone(queue, disk[n])
    /\ n \in registered => NotFuture(queue, OwnVersion(n), mapWorkingCopyToContentVersion[n])
    /\ n \in Modified =>
          CurrentIs(queue, OwnVersion(n), mapWorkingCopyToContentVersion[n], disk[n], content[n])

\* What the steps of the shutdown have in common
ShutdownKeeps ==
    /\ UNCHANGED <<registered, content, mapWorkingCopyToContentVersion, isReady>>
    /\ UNCHANGED <<unrestoredBackups, model, disk, edits, faults, closes, closed, stale>>
    /\ pendingBackupOperations' = [w \in WorkingCopies |-> "none"]
    /\ snapshot' \in [WorkingCopies -> Texts] /\ file' \in [WorkingCopies -> Texts]
    /\ dirty' \in [WorkingCopies -> BOOLEAN]
    /\ disturbed' \subseteq WorkingCopies /\ editedLate' \subseteq WorkingCopies
    /\ shutdowns' \in 0..MaxShutdowns
    /\ \A n \in WorkingCopies :
          /\ dirty'[n] => dirty[n]
          /\ n \in registered /\ dirty[n] /\ ~dirty'[n] => n \in disturbed'

\* The operations of the tracker are cancelled
LEMMA CancelledReady ==
    ASSUME IInv, NEW n \in WorkingCopies, phase \in {"none", "ok"},
           NEW ds, pendingBackupOperations[n] /= "none" => n \in ds, disturbed \subseteq ds
    PROVE  QueueReady(n, Cancelled(ioOperationQueues[n], "tracker"), ds)
<1> DEFINE q == ioOperationQueues[n]
           c == Cancelled(q, "tracker")
<1>1. CopyOK(n) /\ q \in Seq(IoOperation)
  BY TypeFacts DEF IInv
<1>2. c \in Seq(IoOperation)
  BY <1>1, CancelledIs
<1>3. Quiet(c) /\ QueueOK(c, "none", "none")
  BY <1>1, CancelledIsQuiet DEF CopyOK
<1>4. /\ OnlyDeletes(q) => OnlyDeletes(c)
      /\ \A e, v : NotFuture(q, e, v) => NotFuture(c, e, v)
      /\ \A e, v, b, x : CurrentIs(q, e, v, b, x) => CurrentIs(c, e, v, b, x)
      /\ q = <<>> => c = <<>>
  BY <1>1, CancelledKeeps
<1>5. n \in registered \ (Modified \cup ds) => WillBeGone(c, disk[n])
  <2>1. n \in registered \ (Modified \cup ds) =>
           WillBeGone(q, disk[n]) /\ pendingBackupOperations[n] = "none"
    BY <1>1 DEF CopyOK, CleanOK
  <2> QED
    BY <2>1, <1>1, CancelledWillBeGone DEF CopyOK
<1> HIDE DEF c
<1>6. /\ edits = 0 => OnlyDeletes(c)
      /\ n \notin registered \cup closed =>
            OnlyDeletes(c) /\ ((disk[n] \in Texts /\ ~EmptyWindow) => c = <<>>)
  BY <1>1, <1>4 DEF CopyOK, DiskOK, UnopenedOK
<1>7. /\ n \in registered => NotFuture(c, OwnVersion(n), mapWorkingCopyToContentVersion[n])
      /\ n \in Modified =>
            CurrentIs(c, OwnVersion(n), mapWorkingCopyToContentVersion[n], disk[n], content[n])
  BY <1>1, <1>4 DEF CopyOK, VersionsOK
<1> QED
  BY <1>2, <1>3, <1>5, <1>6, <1>7 DEF QueueReady, c

\* They were already, and the shutdown waits for none
LEMMA StillReady ==
    ASSUME IInv, NEW n \in WorkingCopies, phase \in {"saving", "confirm"},
           NEW ds, disturbed \subseteq ds
    PROVE  QueueReady(n, ioOperationQueues[n], ds) /\ pendingBackupOperations[n] = "none"
<1> DEFINE q == ioOperationQueues[n]
<1>1. CopyOK(n) /\ q \in Seq(IoOperation)
  BY TypeFacts DEF IInv
<1>2. pendingBackupOperations[n] = "none"
  BY <1>1 DEF IInv, CopyOK, PendingOK
<1>3. Quiet(q)
  BY <1>1, <1>2, IsQuiet DEF CopyOK
<1>4. QueueOK(q, "none", "none")
  BY <1>1, <1>3, QuietQueue DEF CopyOK
<1>5. /\ n \in registered \ (Modified \cup ds) => WillBeGone(q, disk[n])
      /\ edits = 0 => OnlyDeletes(q)
      /\ n \notin registered \cup closed =>
            OnlyDeletes(q) /\ ((disk[n] \in Texts /\ ~EmptyWindow) => q = <<>>)
  BY <1>1 DEF CopyOK, CleanOK, DiskOK, UnopenedOK
<1>6. /\ n \in registered => NotFuture(q, OwnVersion(n), mapWorkingCopyToContentVersion[n])
      /\ n \in Modified =>
            CurrentIs(q, OwnVersion(n), mapWorkingCopyToContentVersion[n], disk[n], content[n])
  BY <1>1 DEF CopyOK, VersionsOK
<1> QED
  BY <1>1, <1>2, <1>3, <1>4, <1>5, <1>6 DEF QueueReady

\* What the shutdown queues for a working copy, and the parts of the invariant
\* that are not about the shutdown
LEMMA ShutdownCopyOK ==
    ASSUME IInv, ShutdownKeeps, NEW n \in WorkingCopies, NEW queue,
           QueueReady(n, queue, disturbed'),
           \/ ioOperationQueues'[n] = queue
           \/ /\ ioOperationQueues'[n] = Append(queue, Delete("discards"))
              /\ ~dirty'[n]
              /\ n \in registered \cup closed \/ disk[n] \notin Texts \/ EmptyWindow
           \/ /\ ioOperationQueues'[n] =
                    Append(queue, Write(content[n], mapWorkingCopyToContentVersion[n], "shutdown"))
              /\ n \in registered /\ dirty'[n] /\ phase' = "backups",
           phase' = "wipe" => n \in registered \cup closed \/ disk[n] \notin Texts \/ EmptyWindow
    PROVE  /\ QueueOK(ioOperationQueues[n], pendingBackupOperations[n], phase)'
           /\ PendingOK(n)' /\ DiskOK(n)' /\ UnopenedOK(n)' /\ CleanOK(n)'
           /\ VersionsOK(n)'
           /\ ioOperationQueues'[n] \in Seq(IoOperation)
           /\ ShutdownWrites(ioOperationQueues'[n], mapWorkingCopyToContentVersion[n])
<1> DEFINE v == mapWorkingCopyToContentVersion[n]
           q2 == ioOperationQueues'[n]
           d == Delete("discards")
           t == Write(content[n], v, "shutdown")
<1>0. TypeOK /\ CopyOK(n)
  BY DEF IInv
<1>1. /\ v \in Versions /\ v \in Nat /\ content[n] \in Texts /\ edits \in Nat
      /\ OwnVersion(n) \in Int /\ NoEntry \in Int /\ NoEntry < 0
  BY <1>0, TypeFacts, Numbers
<1>2. /\ UNCHANGED <<registered, content, mapWorkingCopyToContentVersion, isReady>>
      /\ UNCHANGED <<unrestoredBackups, model, disk, edits, closed, stale>>
      /\ pendingBackupOperations'[n] = "none" /\ (dirty'[n] => dirty[n])
      /\ (n \in registered /\ dirty[n] /\ ~dirty'[n] => n \in disturbed')
      /\ dirty'[n] \in BOOLEAN /\ EmptyWindow \in BOOLEAN
  BY KindsAssumption DEF ShutdownKeeps
<1>3. d \in IoOperation /\ d.op = "delete" /\ d.text = NoBackup /\ d.version = NoEntry
      /\ d.by = "discards"
  BY DeleteType
<1>4. t \in IoOperation /\ t.op = "write" /\ t.text = content[n] /\ t.version = v
      /\ t.by = "shutdown"
  BY <1>1, WriteType
<1>5. queue \in Seq(IoOperation) /\ Quiet(queue) /\ QueueOK(queue, "none", "none")
  BY DEF QueueReady
<1> HIDE DEF d, t, q2
<1>6. \/ q2 = queue
      \/ /\ q2 = Append(queue, d) /\ ~dirty'[n]
         /\ n \in registered \cup closed \/ disk[n] \notin Texts \/ EmptyWindow
      \/ q2 = Append(queue, t) /\ n \in registered /\ dirty'[n] /\ phase' = "backups"
  BY DEF d, t, q2
<1>7. q2 \in Seq(IoOperation)
  BY <1>3, <1>4, <1>5, <1>6
<1>8. QueueOK(q2, "none", phase')
  <2>1. QueueOK(queue, "none", phase')
    BY <1>5, QuietQueue
  <2>2. QueueOK(Append(queue, d), "none", phase')
    BY <1>3, <1>5, AppendOK
  <2>3. phase' = "backups" => QueueOK(Append(queue, t), "none", phase')
    BY <1>1, <1>4, <1>5, AppendOK
  <2> QED
    BY <1>6, <2>1, <2>2, <2>3
<1>9. (n \in Modified') <=> (n \in registered /\ dirty'[n])
  BY <1>2 DEF Modified
<1>10. (n \in Modified) <=> (n \in registered /\ dirty[n])
  BY DEF Modified
<1>11. /\ OnlyDeletes(queue) => OnlyDeletes(Append(queue, d))
       /\ \A e, u : NotFuture(queue, e, u) /\ NoEntry <= u => NotFuture(Append(queue, d), e, u)
       /\ \A b : WillBeGone(Append(queue, d), b)
  BY <1>3, <1>5, AppendKeeps
<1>12. /\ \A e, u : NotFuture(queue, e, u) /\ v <= u => NotFuture(Append(queue, t), e, u)
       /\ \A e, b : CurrentIs(queue, e, v, b, content[n]) =>
             CurrentIs(Append(queue, t), e, v, b, content[n])
  BY <1>4, <1>5, AppendKeeps
<1>13. PendingOK(n)'
  BY <1>2 DEF PendingOK
<1>14. DiskOK(n)'
  <2>1. edits = 0 => OnlyDeletes(q2)
    <3>1. edits = 0 => OnlyDeletes(queue) /\ ~dirty[n]
      BY <1>0 DEF QueueReady, CopyOK, DiskOK
    <3> QED
      BY <3>1, <1>2, <1>6, <1>11
  <2>2. v + (IF dirty'[n] THEN 1 ELSE 0) <= 2 * edits
    <3>1. v + (IF dirty[n] THEN 1 ELSE 0) <= 2 * edits
      BY <1>0 DEF CopyOK, DiskOK
    <3>2. CASE dirty'[n]
      BY <3>1, <3>2, <1>2
    <3>3. CASE ~dirty'[n]
      BY <3>1, <3>3, <1>1
    <3> QED
      BY <3>2, <3>3, <1>2
  <2> QED
    BY <2>1, <2>2, <1>0, <1>2 DEF CopyOK, DiskOK, q2
<1>15. UnopenedOK(n)'
  <2>1. n \notin registered \cup closed =>
           /\ OnlyDeletes(q2)
           /\ (disk[n] \in Texts /\ ~EmptyWindow) => q2 = <<>>
    BY <1>6, <1>11 DEF QueueReady
  <2> QED
    BY <2>1, <1>0, <1>2 DEF CopyOK, UnopenedOK, q2
<1>16. CleanOK(n)'
  <2> SUFFICES ASSUME n \in registered' \ (Modified' \cup disturbed')
               PROVE  WillBeGone(q2, disk'[n])
    BY DEF CleanOK, q2
  <2>1. n \in registered \ (Modified \cup disturbed')
    BY <1>2, <1>9, <1>10
  <2>2. WillBeGone(queue, disk[n])
    BY <2>1 DEF QueueReady
  <2> QED
    BY <2>1, <2>2, <1>2, <1>6, <1>9, <1>10, <1>11
<1>17. VersionsOK(n)'
  <2>1. NoEntry <= v /\ v <= v
    BY <1>1
  <2>2. n \in registered => NotFuture(q2, OwnVersion(n), v)
    BY <2>1, <1>6, <1>11, <1>12 DEF QueueReady
  <2>3. n \in Modified' => CurrentIs(q2, OwnVersion(n), v, disk[n], content[n])
    <3>1. n \in Modified' => CurrentIs(queue, OwnVersion(n), v, disk[n], content[n])
      BY <1>2, <1>9, <1>10 DEF QueueReady
    <3> QED
      BY <3>1, <1>6, <1>9, <1>12
  <2>4. OwnVersion(n)' = OwnVersion(n)
    BY <1>2 DEF OwnVersion
  <2> QED
    BY <2>2, <2>3, <2>4, <1>2 DEF VersionsOK, q2
<1>18. ShutdownWrites(q2, v)
  <2>1. ShutdownWrites(queue, v)
    BY <1>5 DEF Quiet, ShutdownWrites
  <2>2. ASSUME NEW x \in IoOperation, x.by = "shutdown" => x.version = v
        PROVE  ShutdownWrites(Append(queue, x), v)
    BY <2>1, <2>2, <1>5, AppendIs DEF ShutdownWrites
  <2> QED
    BY <2>1, <2>2, <1>3, <1>4, <1>6
<1> QED
  BY <1>2, <1>7, <1>8, <1>13, <1>14, <1>15, <1>16, <1>17, <1>18 DEF q2

\* A step of the shutdown keeps the types.
LEMMA ShutdownTypeOK ==
    ASSUME TypeOK, ShutdownKeeps,
           ioOperationQueues' \in [WorkingCopies -> Seq(IoOperation)],
           phase' \in {"none", "saving", "backups", "confirm", "discards", "wipe", "ok", "closing"},
           suspended' \in BOOLEAN, modifiedWorkingCopies' \subseteq WorkingCopies,
           hotExit' \in {"none", "scratchpads", "all"}, backups' \subseteq WorkingCopies,
           backupError' \in BOOLEAN
    PROVE  TypeOK'
<1>1. pendingBackupOperations' \in [WorkingCopies -> {"none", "scheduled", "snapshot", "queued"}]
  BY DEF ShutdownKeeps
<1> QED
  BY <1>1 DEF TypeOK, ShutdownKeeps

\* No veto: the backups of these are discarded, or the shutdown goes on
LEMMA NoVetoOK ==
    ASSUME IInv, ShutdownKeeps, NEW ws \in SUBSET WorkingCopies,
           NEW queues \in [WorkingCopies -> Seq(IoOperation)], NoVeto(ws, queues),
           \A n \in WorkingCopies : QueueReady(n, queues[n], disturbed'),
           \A n \in ws : /\ ~dirty'[n]
                         /\ isReady => \/ n \in registered \cup closed
                                       \/ disk[n] \notin Texts \/ EmptyWindow,
           \A n \in Modified' \ (editedLate' \cup stale') : Has(n, mapWorkingCopyToContentVersion[n])
    PROVE  IInv'
<1>0. TypeOK
  BY DEF IInv
<1>1. /\ UNCHANGED <<registered, content, mapWorkingCopyToContentVersion, closed, model>>
      /\ Delete("discards") \in IoOperation
  BY DeleteType DEF ShutdownKeeps
<1>2. \/ /\ isReady /\ phase' = "discards" /\ suspended' = TRUE
         /\ ioOperationQueues' = [w \in WorkingCopies |->
               IF w \in ws THEN Append(queues[w], Delete("discards")) ELSE queues[w]]
         /\ UNCHANGED <<modifiedWorkingCopies, hotExit, backups, backupError>>
      \/ /\ phase' = "ok" /\ suspended' = FALSE /\ ioOperationQueues' = queues
         /\ modifiedWorkingCopies' = {} /\ backups' = {} /\ backupError' = FALSE
         /\ hotExit' = "none"
  BY DEF NoVeto, MayDiscard, Return
<1>3. \A w \in WorkingCopies : Append(queues[w], Delete("discards")) \in Seq(IoOperation)
  BY <1>1
<1>4. ioOperationQueues' \in [WorkingCopies -> Seq(IoOperation)]
  BY <1>2, <1>3
<1>5. /\ phase' \in {"none", "saving", "backups", "confirm", "discards", "wipe", "ok", "closing"}
      /\ suspended' \in BOOLEAN /\ modifiedWorkingCopies' \subseteq WorkingCopies
      /\ hotExit' \in {"none", "scratchpads", "all"} /\ backups' \subseteq WorkingCopies
      /\ backupError' \in BOOLEAN
  BY <1>0, <1>2 DEF TypeOK
<1>6. TypeOK'
  BY <1>0, <1>4, <1>5, ShutdownTypeOK
<1>7. ASSUME NEW n \in WorkingCopies PROVE CopyOK(n)'
  <2>1. \/ ioOperationQueues'[n] = queues[n]
        \/ /\ ioOperationQueues'[n] = Append(queues[n], Delete("discards")) /\ ~dirty'[n]
           /\ n \in registered \cup closed \/ disk[n] \notin Texts \/ EmptyWindow
    BY <1>2
  <2>2. phase' /= "wipe"
    BY <1>2
  <2>3. /\ QueueOK(ioOperationQueues[n], pendingBackupOperations[n], phase)'
        /\ PendingOK(n)' /\ DiskOK(n)' /\ UnopenedOK(n)' /\ CleanOK(n)'
        /\ VersionsOK(n)'
    BY <2>1, <2>2, ShutdownCopyOK
  <2>4. ShutdownOK(n)'
    BY <1>1, <1>2 DEF ShutdownOK, Has
  <2> QED
    BY <2>3, <2>4 DEF CopyOK
<1>8. modifiedWorkingCopies' \subseteq registered' \cup closed'
  BY <1>1, <1>2 DEF IInv
<1>9. suspended' <=> phase' \notin {"none", "ok"}
  BY <1>2
<1> QED
  BY <1>6, <1>7, <1>8, <1>9 DEF IInv

\* The modified working copies are backed up, or the user is asked
LEMMA HandleModifiedOK ==
    ASSUME IInv, ShutdownKeeps, NEW ws \in SUBSET WorkingCopies,
           NEW hot \in {"none", "scratchpads", "all"},
           NEW queues \in [WorkingCopies -> Seq(IoOperation)], HandleModified(ws, hot, queues),
           \A n \in WorkingCopies : QueueReady(n, queues[n], disturbed'),
           ws = Modified'
    PROVE  IInv'
<1> DEFINE toBackup == ShouldBackup(hot, ws)
           there == {w \in toBackup : Has(w, mapWorkingCopyToContentVersion[w])}
           t(w) == Write(content[w], mapWorkingCopyToContentVersion[w], "shutdown")
<1>0. TypeOK
  BY DEF IInv
<1>1. UNCHANGED <<registered, content, mapWorkingCopyToContentVersion, closed, model>>
  BY DEF ShutdownKeeps
<1>2. toBackup \subseteq ws /\ there \subseteq toBackup
  BY DEF ShouldBackup
<1>3. /\ modifiedWorkingCopies' = ws /\ hotExit' = hot
      /\ phase' = (IF toBackup = {} THEN "confirm" ELSE "backups")
      /\ backups' = there /\ backupError' = FALSE /\ suspended' = TRUE
      /\ ioOperationQueues' = [w \in WorkingCopies |->
            IF w \in toBackup \ there THEN Append(queues[w], t(w)) ELSE queues[w]]
  BY <1>1 DEF HandleModified
<1>4. \A w \in WorkingCopies : t(w) \in IoOperation
  BY <1>0, TypeFacts, WriteType
<1>5. \A w \in WorkingCopies : Append(queues[w], t(w)) \in Seq(IoOperation)
  BY <1>4
<1>6. there = {w \in toBackup : Has(w, mapWorkingCopyToContentVersion[w])}
  OBVIOUS
<1> HIDE DEF toBackup, there
<1>7. ioOperationQueues' \in [WorkingCopies -> Seq(IoOperation)]
  BY <1>3, <1>5
<1>8. TypeOK'
  BY <1>0, <1>2, <1>3, <1>7, ShutdownTypeOK
<1>9. ASSUME NEW n \in WorkingCopies PROVE CopyOK(n)'
  <2>1. \/ ioOperationQueues'[n] = queues[n]
        \/ /\ ioOperationQueues'[n] = Append(queues[n], t(n))
           /\ n \in registered /\ dirty'[n] /\ phase' = "backups"
    <3>1. n \in toBackup => n \in registered /\ dirty'[n] /\ phase' = "backups"
      BY <1>1, <1>2, <1>3 DEF Modified
    <3> QED
      BY <3>1, <1>3
  <2>2. phase' /= "wipe"
    BY <1>3
  <2>3. /\ QueueOK(ioOperationQueues[n], pendingBackupOperations[n], phase)'
        /\ PendingOK(n)' /\ DiskOK(n)' /\ UnopenedOK(n)' /\ CleanOK(n)'
        /\ VersionsOK(n)'
        /\ ShutdownWrites(ioOperationQueues'[n], mapWorkingCopyToContentVersion[n])
    BY <2>1, <2>2, ShutdownCopyOK
  <2>4. n \in there => model[n] = mapWorkingCopyToContentVersion[n]
    BY <1>6 DEF Has
  <2>5. ShutdownOK(n)'
    BY <1>1, <1>3, <2>3, <2>4 DEF ShutdownOK, Has
  <2> QED
    BY <2>3, <2>5 DEF CopyOK
<1>10. modifiedWorkingCopies' \subseteq registered' \cup closed'
  BY <1>3 DEF Modified
<1>11. suspended' <=> phase' \notin {"none", "ok"}
  BY <1>3
<1> QED
  BY <1>8, <1>9, <1>10, <1>11 DEF IInv

\* onFinalBeforeShutdown(): the pending backups are cancelled and the tracker is suspended.
LEMMA OnFinalBeforeShutdownOK ==
    ASSUME IInv, NEW hot \in {"none", "scratchpads", "all"}, NEW auto \in BOOLEAN,
           OnFinalBeforeShutdown(hot, auto)
    PROVE  IInv'
<1> DEFINE queues == [w \in WorkingCopies |-> Cancelled(ioOperationQueues[w], "tracker")]
<1>0. TypeOK /\ phase = "none" /\ shutdowns < MaxShutdowns
  BY DEF IInv, OnFinalBeforeShutdown
<1>1. /\ UNCHANGED <<registered, content, dirty, file>>
      /\ UNCHANGED <<mapWorkingCopyToContentVersion, isReady, unrestoredBackups, model, disk>>
      /\ UNCHANGED <<edits, faults, closes, closed, stale>>
      /\ pendingBackupOperations' = [w \in WorkingCopies |-> "none"]
      /\ snapshot' = [w \in WorkingCopies |-> 0]
      /\ disturbed' = disturbed \cup {w \in WorkingCopies : pendingBackupOperations[w] /= "none"}
      /\ editedLate' = {} /\ shutdowns' = shutdowns + 1
  BY DEF OnFinalBeforeShutdown, CancelBackupOperations, copyVars
<1>2. \A w \in WorkingCopies : Cancelled(ioOperationQueues[w], "tracker") \in Seq(IoOperation)
  BY <1>0, TypeFacts, CancelledIs
<1>3. queues \in [WorkingCopies -> Seq(IoOperation)]
  BY <1>2
<1>4. ShutdownKeeps
  <2>1. snapshot' \in [WorkingCopies -> Texts] /\ shutdowns' \in 0..MaxShutdowns
    BY <1>0, <1>1, Numbers, BoundsAssumption DEF TypeOK
  <2>2. disturbed' \subseteq WorkingCopies
    BY <1>0, <1>1 DEF TypeOK
  <2> QED
    BY <2>1, <2>2, <1>0, <1>1 DEF ShutdownKeeps, TypeOK
<1>5. ASSUME NEW n \in WorkingCopies PROVE QueueReady(n, queues[n], disturbed')
  BY <1>0, <1>1, CancelledReady
<1>6. Modified' = Modified /\ Modified \subseteq WorkingCopies
  BY <1>0, <1>1 DEF Modified, TypeOK
<1>7. \/ Modified = {} /\ DiscardBackups(queues)
      \/ HandleModified(Modified, hot, queues)
      \/ /\ phase' = "saving" /\ suspended' = TRUE
         /\ modifiedWorkingCopies' = Modified /\ hotExit' = hot
         /\ ioOperationQueues' = queues /\ UNCHANGED <<backups, backupError>>
  BY DEF OnFinalBeforeShutdown
<1> HIDE DEF queues
<1>8. CASE HandleModified(Modified, hot, queues)
  BY <1>3, <1>4, <1>5, <1>6, <1>8, HandleModifiedOK
<1>9. CASE /\ phase' = "saving" /\ suspended' = TRUE
           /\ modifiedWorkingCopies' = Modified /\ hotExit' = hot
           /\ ioOperationQueues' = queues /\ UNCHANGED <<backups, backupError>>
  <2>1. TypeOK'
    <3>1. /\ suspended' \in BOOLEAN /\ backups' \subseteq WorkingCopies /\ backupError' \in BOOLEAN
      BY <1>0, <1>9 DEF TypeOK
    <3> QED
      BY <3>1, <1>0, <1>3, <1>4, <1>6, <1>9, ShutdownTypeOK
  <2>2. ASSUME NEW n \in WorkingCopies PROVE CopyOK(n)'
    <3>1. /\ QueueOK(ioOperationQueues[n], pendingBackupOperations[n], phase)'
          /\ PendingOK(n)' /\ DiskOK(n)' /\ UnopenedOK(n)' /\ CleanOK(n)'
          /\ VersionsOK(n)'
      BY <1>4, <1>5, <1>9, ShutdownCopyOK
    <3>2. ShutdownOK(n)'
      BY <1>6, <1>9 DEF ShutdownOK
    <3> QED
      BY <3>1, <3>2 DEF CopyOK
  <2>3. modifiedWorkingCopies' \subseteq registered' \cup closed'
    BY <1>1, <1>9 DEF Modified
  <2> QED
    BY <2>1, <2>2, <2>3, <1>9 DEF IInv
<1>10. CASE Modified = {} /\ DiscardBackups(queues)
  <2> DEFINE known == {w \in WorkingCopies : model[w] /= NoEntry}
             except == IF EmptyWindow THEN {} ELSE unrestoredBackups
  <2>0. \A n \in WorkingCopies : ~(n \in registered /\ dirty[n])
    BY <1>10 DEF Modified
  <2>1. \A n \in WorkingCopies : ~dirty'[n]
    BY <2>0, <1>1 DEF IInv, CopyOK, DiskOK
  <2>2. ASSUME NEW n \in WorkingCopies, isReady, n \notin except
        PROVE  n \in registered \cup closed \/ disk[n] \notin Texts \/ EmptyWindow
    BY <2>2 DEF IInv, CopyOK, UnopenedOK
  <2>3. CASE isReady /\ except = {}
    <3>1. /\ phase' = "wipe" /\ suspended' = TRUE /\ ioOperationQueues' = queues
          /\ UNCHANGED <<modifiedWorkingCopies, hotExit, backups, backupError>>
      BY <1>10, <2>3 DEF DiscardBackups, MayDiscard
    <3>2. TypeOK'
      <4>1. /\ suspended' \in BOOLEAN /\ backups' \subseteq WorkingCopies
            /\ backupError' \in BOOLEAN /\ modifiedWorkingCopies' \subseteq WorkingCopies
            /\ hotExit' \in {"none", "scratchpads", "all"}
        BY <1>0, <3>1 DEF TypeOK
      <4> QED
        BY <4>1, <3>1, <1>0, <1>3, <1>4, ShutdownTypeOK
    <3>3. ASSUME NEW n \in WorkingCopies PROVE CopyOK(n)'
      <4>1. n \in registered \cup closed \/ disk[n] \notin Texts \/ EmptyWindow
        BY <2>2, <2>3
      <4>2. /\ QueueOK(ioOperationQueues[n], pendingBackupOperations[n], phase)'
            /\ PendingOK(n)' /\ DiskOK(n)' /\ UnopenedOK(n)' /\ CleanOK(n)'
            /\ VersionsOK(n)'
        BY <4>1, <1>4, <1>5, <3>1, ShutdownCopyOK
      <4>3. ShutdownOK(n)'
        BY <1>6, <1>10 DEF ShutdownOK
      <4> QED
        BY <4>2, <4>3 DEF CopyOK
    <3>4. modifiedWorkingCopies' \subseteq registered' \cup closed'
      BY <1>1, <3>1 DEF IInv
    <3> QED
      BY <3>1, <3>2, <3>3, <3>4 DEF IInv
  <2>4. CASE ~(isReady /\ except = {})
    <3>1. NoVeto(known \ except, queues)
      BY <1>10, <2>4 DEF DiscardBackups, MayDiscard
    <3>2. known \ except \in SUBSET WorkingCopies
      OBVIOUS
    <3>3. \A n \in known \ except :
             ~dirty'[n] /\ (isReady => \/ n \in registered \cup closed
                                       \/ disk[n] \notin Texts \/ EmptyWindow)
      BY <2>1, <2>2
    <3> HIDE DEF known, except
    <3> QED
      BY <3>1, <3>2, <3>3, <1>3, <1>4, <1>5, <1>6, <1>10, NoVetoOK
  <2> QED
    BY <2>3, <2>4
<1> QED
  BY <1>7, <1>8, <1>9, <1>10

\* The working copies that lose their dirty flag are disturbed; nothing is pending
LEMMA NothingPending ==
    ASSUME IInv, phase \in {"saving", "confirm"}, UNCHANGED pendingBackupOperations
    PROVE  pendingBackupOperations' = [w \in WorkingCopies |-> "none"]
<1>1. \A n \in WorkingCopies : pendingBackupOperations[n] = "none"
  BY DEF IInv, CopyOK, PendingOK
<1> QED
  BY <1>1 DEF IInv, TypeOK

\* What saving the copies in ws leaves as it was
LEMMA SaveAllKeeps ==
    ASSUME IInv, phase \in {"saving", "confirm"}, NEW ws \in SUBSET WorkingCopies, SaveAll(ws),
           UNCHANGED <<mapWorkingCopyToContentVersion, pendingBackupOperations, snapshot>>,
           UNCHANGED <<isReady, unrestoredBackups, model, disk, edits, faults, closes>>,
           UNCHANGED <<shutdowns, closed, stale, editedLate>>
    PROVE  ShutdownKeeps /\ Modified' = Modified \ ws /\ \A n \in ws : ~dirty'[n]
<1>1. TypeOK
  BY DEF IInv
<1>2. /\ file' \in [WorkingCopies -> Texts] /\ dirty' \in [WorkingCopies -> BOOLEAN]
      /\ disturbed' \subseteq WorkingCopies
  BY <1>1 DEF SaveAll, TypeOK
<1>3. \A n \in WorkingCopies :
         /\ dirty'[n] => dirty[n]
         /\ n \in registered /\ dirty[n] /\ ~dirty'[n] => n \in disturbed'
  BY <1>1 DEF SaveAll, TypeOK
<1>4. ShutdownKeeps
  BY <1>1, <1>2, <1>3, NothingPending DEF ShutdownKeeps, SaveAll, TypeOK
<1>5. Modified' = Modified \ ws
  BY <1>1 DEF Modified, SaveAll, TypeOK
<1>6. \A n \in ws : ~dirty'[n]
  BY DEF SaveAll
<1> QED
  BY <1>4, <1>5, <1>6

\* The copies with auto save are saved before the shutdown.
LEMMA AutoSavedOK ==
    ASSUME IInv, NEW ws \in SUBSET WorkingCopies, AutoSaved(ws)
    PROVE  IInv'
<1>0. /\ TypeOK /\ phase = "saving" /\ ws \subseteq modifiedWorkingCopies
      /\ modifiedWorkingCopies \in SUBSET WorkingCopies
      /\ hotExit \in {"none", "scratchpads", "all"}
      /\ ioOperationQueues \in [WorkingCopies -> Seq(IoOperation)]
      /\ Modified \ ws \in SUBSET WorkingCopies
  BY DEF IInv, AutoSaved, TypeOK, Modified
<1>1. ShutdownKeeps /\ Modified' = Modified \ ws /\ \A n \in ws : ~dirty'[n]
  BY <1>0, SaveAllKeeps DEF AutoSaved
<1>2. disturbed \subseteq disturbed'
  BY DEF AutoSaved, SaveAll
<1>3. \A n \in WorkingCopies : QueueReady(n, ioOperationQueues[n], disturbed')
  BY <1>0, <1>2, StillReady
<1>4. CASE Modified \subseteq ws
  <2>1. NoVeto(modifiedWorkingCopies, ioOperationQueues)
    BY <1>4 DEF AutoSaved
  <2>2. \A n \in modifiedWorkingCopies :
           ~dirty'[n] /\ (isReady => n \in registered \cup closed
                                     \/ disk[n] \notin Texts \/ EmptyWindow)
    <3> SUFFICES ASSUME NEW n \in modifiedWorkingCopies
                 PROVE  ~dirty'[n] /\ n \in registered \cup closed
      OBVIOUS
    <3>1. n \in WorkingCopies /\ n \in registered \cup closed
      BY <1>0 DEF IInv
    <3>2. CASE n \in ws
      BY <1>1, <3>1, <3>2
    <3>3. CASE n \notin ws
      <4>1. n \notin Modified
        BY <1>4, <3>3
      <4>2. n \notin registered => ~dirty[n]
        BY <3>1 DEF IInv, CopyOK, DiskOK
      <4>3. ~dirty[n]
        BY <4>1, <4>2 DEF Modified
      <4> QED
        BY <4>3, <3>1, <1>1 DEF ShutdownKeeps
    <3> QED
      BY <3>2, <3>3
  <2>3. Modified' = {}
    BY <1>1, <1>4
  <2> QED
    BY <2>1, <2>2, <2>3, <1>0, <1>1, <1>3, NoVetoOK
<1>5. CASE ~(Modified \subseteq ws)
  <2>1. HandleModified(Modified \ ws, hotExit, ioOperationQueues)
    BY <1>5 DEF AutoSaved
  <2> QED
    BY <2>1, <1>0, <1>1, <1>3, HandleModifiedOK
<1> QED
  BY <1>4, <1>5

\* After the user was asked: what is modified and not among the ones asked about
\* has its backup
LEMMA OthersAreThere ==
    ASSUME IInv, phase = "confirm", NEW n \in Modified \ (editedLate \cup stale),
           n \notin modifiedWorkingCopies
    PROVE  Has(n, mapWorkingCopyToContentVersion[n])
<1>1. n \in WorkingCopies
  BY DEF Modified, IInv, TypeOK
<1> QED
  BY <1>1 DEF IInv, CopyOK, ShutdownOK

\* The user saves all.
LEMMA ConfirmSaveOK ==
    ASSUME IInv, NEW ws \in SUBSET WorkingCopies, ConfirmSave(ws)
    PROVE  IInv'
<1>0. /\ TypeOK /\ phase = "confirm" /\ ws \subseteq modifiedWorkingCopies
      /\ ioOperationQueues \in [WorkingCopies -> Seq(IoOperation)]
      /\ modifiedWorkingCopies \subseteq registered \cup closed
      /\ UNCHANGED <<stale, editedLate>>
  BY DEF IInv, ConfirmSave, TypeOK
<1>1. ShutdownKeeps /\ Modified' = Modified \ ws /\ \A n \in ws : ~dirty'[n]
  BY <1>0, SaveAllKeeps DEF ConfirmSave
<1>2. disturbed \subseteq disturbed'
  BY DEF ConfirmSave, SaveAll
<1>3. \A n \in WorkingCopies : QueueReady(n, ioOperationQueues[n], disturbed')
  BY <1>0, <1>2, StillReady
<1>4. CASE ws = modifiedWorkingCopies
  <2>1. NoVeto(ws, ioOperationQueues)
    BY <1>4 DEF ConfirmSave
  <2>2. \A n \in ws :
           ~dirty'[n] /\ (isReady => n \in registered \cup closed
                                     \/ disk[n] \notin Texts \/ EmptyWindow)
    BY <1>0, <1>1
  <2>3. \A n \in Modified' \ (editedLate' \cup stale') : Has(n, mapWorkingCopyToContentVersion[n])
    BY <1>0, <1>1, <1>4, OthersAreThere
  <2> QED
    BY <2>1, <2>2, <2>3, <1>0, <1>1, <1>3, NoVetoOK
<1>5. CASE ws /= modifiedWorkingCopies
  <2>1. /\ phase' = "none" /\ suspended' = FALSE /\ ioOperationQueues' = ioOperationQueues
        /\ modifiedWorkingCopies' = {} /\ backups' = {} /\ backupError' = FALSE
        /\ hotExit' = "none"
    BY <1>5 DEF ConfirmSave, Return
  <2>2. TypeOK'
    BY <2>1, <1>0, <1>1, ShutdownTypeOK
  <2>3. ASSUME NEW n \in WorkingCopies PROVE CopyOK(n)'
    <3>1. /\ QueueOK(ioOperationQueues[n], pendingBackupOperations[n], phase)'
          /\ PendingOK(n)' /\ DiskOK(n)' /\ UnopenedOK(n)' /\ CleanOK(n)'
          /\ VersionsOK(n)'
      BY <2>1, <1>1, <1>3, ShutdownCopyOK
    <3>2. ShutdownOK(n)'
      BY <2>1 DEF ShutdownOK
    <3> QED
      BY <3>1, <3>2 DEF CopyOK
  <2> QED
    BY <2>1, <2>2, <2>3 DEF IInv
<1> QED
  BY <1>4, <1>5

\* The user saves nothing: the copies are reverted.
LEMMA ConfirmDontSaveOK ==
    ASSUME IInv, ConfirmDontSave
    PROVE  IInv'
<1> DEFINE ws == modifiedWorkingCopies
<1>0. /\ TypeOK /\ phase = "confirm" /\ ws \in SUBSET WorkingCopies
      /\ ioOperationQueues \in [WorkingCopies -> Seq(IoOperation)]
      /\ ws \subseteq registered \cup closed
  BY DEF IInv, ConfirmDontSave, TypeOK
<1>1. /\ UNCHANGED <<registered, content, file, mapWorkingCopyToContentVersion>>
      /\ UNCHANGED <<pendingBackupOperations, snapshot, isReady, unrestoredBackups, model, disk>>
      /\ UNCHANGED <<edits, faults, closes, shutdowns, closed, stale, editedLate>>
      /\ dirty' = [w \in WorkingCopies |-> dirty[w] /\ w \notin ws]
      /\ disturbed' = disturbed \cup ws
      /\ NoVeto(ws, ioOperationQueues)
  BY DEF ConfirmDontSave
<1>2. ShutdownKeeps
  <2>1. dirty' \in [WorkingCopies -> BOOLEAN] /\ disturbed' \subseteq WorkingCopies
    BY <1>0, <1>1 DEF TypeOK
  <2>2. \A n \in WorkingCopies :
           /\ dirty'[n] => dirty[n]
           /\ n \in registered /\ dirty[n] /\ ~dirty'[n] => n \in disturbed'
    BY <1>0, <1>1 DEF TypeOK
  <2> QED
    BY <2>1, <2>2, <1>0, <1>1, NothingPending DEF ShutdownKeeps, TypeOK
<1>3. Modified' = Modified \ ws /\ \A n \in ws : ~dirty'[n]
  BY <1>0, <1>1 DEF Modified, TypeOK
<1>4. \A n \in WorkingCopies : QueueReady(n, ioOperationQueues[n], disturbed')
  BY <1>0, <1>1, StillReady
<1>5. \A n \in Modified' \ (editedLate' \cup stale') : Has(n, mapWorkingCopyToContentVersion[n])
  BY <1>0, <1>1, <1>3, OthersAreThere
<1> QED
  BY <1>0, <1>1, <1>2, <1>3, <1>4, <1>5, NoVetoOK

\* The backup before the shutdown is cancelled.
LEMMA CancelBackupBeforeShutdownOK ==
    ASSUME IInv, CancelBackupBeforeShutdown
    PROVE  IInv'
<1>0. TypeOK /\ phase = "backups" /\ suspended
  BY DEF IInv, CancelBackupBeforeShutdown
<1>1. /\ UNCHANGED <<registered, content, dirty, file, mapWorkingCopyToContentVersion>>
      /\ UNCHANGED <<pendingBackupOperations, snapshot, isReady, unrestoredBackups, model, disk>>
      /\ UNCHANGED <<edits, faults, closes, shutdowns, closed, stale, editedLate, disturbed>>
      /\ UNCHANGED <<suspended, hotExit, backups>>
      /\ phase' = "confirm" /\ backupError' = FALSE
      /\ modifiedWorkingCopies' = modifiedWorkingCopies \ backups
      /\ ioOperationQueues' =
            [w \in WorkingCopies |-> Cancelled(ioOperationQueues[w], "shutdown")]
  BY DEF CancelBackupBeforeShutdown, ConfirmBeforeShutdown, copyVars, historyVars
<1>2. \A w \in WorkingCopies : Cancelled(ioOperationQueues[w], "shutdown") \in Seq(IoOperation)
  BY <1>0, TypeFacts, CancelledIs
<1>3. TypeOK'
  <2>1. ioOperationQueues' \in [WorkingCopies -> Seq(IoOperation)]
    BY <1>1, <1>2
  <2>2. modifiedWorkingCopies' \subseteq WorkingCopies
    BY <1>0, <1>1 DEF TypeOK
  <2> QED
    BY <2>1, <2>2, <1>0, <1>1 DEF TypeOK
<1>4. ASSUME NEW n \in WorkingCopies PROVE CopyOK(n)'
  <2> DEFINE q == ioOperationQueues[n]
             c == Cancelled(q, "shutdown")
             v == mapWorkingCopyToContentVersion[n]
  <2>1. /\ CopyOK(n) /\ q \in Seq(IoOperation) /\ ioOperationQueues'[n] = c
        /\ pendingBackupOperations[n] = "none"
    BY <1>0, <1>1, TypeFacts DEF IInv, CopyOK, PendingOK
  <2>2. QueueOK(c, "none", phase')
    BY <2>1, CancelledIsQuiet DEF CopyOK
  <2>3. /\ OnlyDeletes(q) => OnlyDeletes(c)
        /\ \A e, u : NotFuture(q, e, u) => NotFuture(c, e, u)
        /\ \A e, u, b, x : CurrentIs(q, e, u, b, x) => CurrentIs(c, e, u, b, x)
        /\ q = <<>> => c = <<>>
    BY <2>1, CancelledKeeps
  <2>4. \A b : WillBeGone(q, b) => WillBeGone(c, b)
    BY <2>1, CancelledWillBeGone DEF CopyOK
  <2> HIDE DEF c
  <2>5. (n \in Modified') <=> (n \in Modified)
    BY <1>1 DEF Modified
  <2>6. PendingOK(n)'
    BY <2>1, <1>1 DEF PendingOK
  <2>7. DiskOK(n)' /\ UnopenedOK(n)'
    BY <2>1, <2>3, <1>1 DEF CopyOK, DiskOK, UnopenedOK
  <2>8. CleanOK(n)'
    BY <2>1, <2>4, <2>5, <1>1 DEF CopyOK, CleanOK
  <2>9. VersionsOK(n)'
    BY <2>1, <2>3, <2>5, <1>1 DEF CopyOK, VersionsOK, OwnVersion
  <2>10. ShutdownOK(n)'
    BY <2>1, <2>5, <1>0, <1>1 DEF CopyOK, ShutdownOK, Has
  <2> QED
    BY <2>1, <2>2, <2>6, <2>7, <2>8, <2>9, <2>10, <1>1 DEF CopyOK
<1>5. modifiedWorkingCopies' \subseteq registered' \cup closed'
  BY <1>1 DEF IInv
<1> QED
  BY <1>0, <1>1, <1>3, <1>4, <1>5 DEF IInv

\* onWillShutdown
LEMMA OnWillShutdownOK ==
    ASSUME IInv, OnWillShutdown
    PROVE  IInv'
<1>0. TypeOK /\ phase = "ok"
  BY DEF IInv, OnWillShutdown
<1>1. /\ UNCHANGED <<registered, content, dirty, file, mapWorkingCopyToContentVersion>>
      /\ UNCHANGED <<isReady, unrestoredBackups, model, disk>>
      /\ UNCHANGED <<edits, faults, closes, shutdowns, closed, stale, editedLate>>
      /\ UNCHANGED <<modifiedWorkingCopies, hotExit, backups, backupError>>
      /\ phase' = "closing" /\ suspended' = TRUE
      /\ pendingBackupOperations' = [w \in WorkingCopies |-> "none"]
      /\ snapshot' = [w \in WorkingCopies |-> 0]
      /\ disturbed' = disturbed \cup {w \in WorkingCopies : pendingBackupOperations[w] /= "none"}
      /\ ioOperationQueues' =
            [w \in WorkingCopies |-> Cancelled(ioOperationQueues[w], "tracker")]
  BY DEF OnWillShutdown, CancelBackupOperations, copyVars
<1>2. \A w \in WorkingCopies : Cancelled(ioOperationQueues[w], "tracker") \in Seq(IoOperation)
  BY <1>0, TypeFacts, CancelledIs
<1>3. ioOperationQueues' \in [WorkingCopies -> Seq(IoOperation)]
  BY <1>1, <1>2
<1>4. ShutdownKeeps
  <2>1. snapshot' \in [WorkingCopies -> Texts] /\ disturbed' \subseteq WorkingCopies
    BY <1>0, <1>1, Numbers DEF TypeOK
  <2> QED
    BY <2>1, <1>0, <1>1 DEF ShutdownKeeps, TypeOK
<1>5. TypeOK'
  <2>1. /\ modifiedWorkingCopies' \subseteq WorkingCopies /\ backups' \subseteq WorkingCopies
        /\ hotExit' \in {"none", "scratchpads", "all"} /\ backupError' \in BOOLEAN
    BY <1>0, <1>1 DEF TypeOK
  <2> QED
    BY <2>1, <1>0, <1>1, <1>3, <1>4, ShutdownTypeOK
<1>6. ASSUME NEW n \in WorkingCopies PROVE CopyOK(n)'
  <2> DEFINE c == Cancelled(ioOperationQueues[n], "tracker")
  <2>1. QueueReady(n, c, disturbed') /\ ioOperationQueues'[n] = c
    BY <1>0, <1>1, CancelledReady
  <2> HIDE DEF c
  <2>2. /\ QueueOK(ioOperationQueues[n], pendingBackupOperations[n], phase)'
        /\ PendingOK(n)' /\ DiskOK(n)' /\ UnopenedOK(n)' /\ CleanOK(n)'
        /\ VersionsOK(n)'
    BY <2>1, <1>1, <1>4, ShutdownCopyOK
  <2>3. (n \in Modified') <=> (n \in Modified)
    BY <1>1 DEF Modified
  <2>4. ShutdownOK(n)'
    BY <2>3, <1>0, <1>1 DEF IInv, CopyOK, ShutdownOK, Has
  <2> QED
    BY <2>2, <2>4 DEF CopyOK
<1>7. modifiedWorkingCopies' \subseteq registered' \cup closed'
  BY <1>1 DEF IInv
<1> QED
  BY <1>1, <1>5, <1>6, <1>7 DEF IInv

-----------------------------------------------------------------------------
(* The end of a session                                                    *)

\* A file that no operation touches, or whose operation is done, stays as it is
LEMMA TornIs ==
    ASSUME IInv, NEW n \in WorkingCopies
    PROVE  /\ ioOperationQueues[n] = <<>> => Torn(n) = {disk[n]}
           /\ OnlyDeletes(ioOperationQueues[n]) => Torn(n) \subseteq {disk[n], NoBackup}
           /\ (n \in Modified \ stale /\ Has(n, mapWorkingCopyToContentVersion[n]))
              => Torn(n) = {disk[n]}
<1> DEFINE q == ioOperationQueues[n]
<1>1. TypeOK /\ CopyOK(n) /\ q \in Seq(IoOperation)
  BY TypeFacts DEF IInv
<1>2. CASE q = <<>>
  BY <1>2 DEF Torn
<1>3. CASE q /= <<>>
  <2>1. OnlyDeletes(q) => Head(q).op = "delete"
    BY <1>1, <1>3, TailKeeps
  <2>2. (n \in Modified \ stale /\ Has(n, mapWorkingCopyToContentVersion[n])) => IsDone(n, Head(q))
    BY <1>1, <1>3, HeadIs
  <2>3. Head(q).op = "delete" => Torn(n) \subseteq {disk[n], NoBackup}
    BY <1>3 DEF Torn
  <2>4. IsDone(n, Head(q)) => Torn(n) = {disk[n]}
    BY <1>3 DEF Torn
  <2> QED
    BY <1>3, <2>1, <2>2, <2>3, <2>4
<1> QED
  BY <1>2, <1>3

\* The next session begins with what is on disk.
LEMMA NewSessionOK ==
    ASSUME IInv, NewSession, faults' \in 0..MaxFaults
    PROVE  IInv'
<1>0. TypeOK /\ 0 \in Texts /\ 0 \in Versions /\ NoBackup \notin Texts /\ NoEntry /= 0
  BY Numbers DEF IInv
<1>1. /\ disk' \in [WorkingCopies -> Texts \cup {NoBackup, Corrupt}]
      /\ \A w \in WorkingCopies : disk'[w] \in Torn(w)
      /\ model' = [w \in WorkingCopies |-> IF disk'[w] = NoBackup THEN NoEntry ELSE 0]
      /\ registered' = {} /\ content' = file
      /\ dirty' = [w \in WorkingCopies |-> FALSE]
      /\ mapWorkingCopyToContentVersion' = [w \in WorkingCopies |-> 0]
      /\ pendingBackupOperations' = [w \in WorkingCopies |-> "none"]
      /\ snapshot' = [w \in WorkingCopies |-> 0]
      /\ suspended' = FALSE /\ isReady' = FALSE /\ unrestoredBackups' = {}
      /\ ioOperationQueues' = [w \in WorkingCopies |-> <<>>]
      /\ phase' = "none" /\ modifiedWorkingCopies' = {} /\ hotExit' = "none"
      /\ backups' = {} /\ backupError' = FALSE
      /\ closed' = {} /\ stale' = {} /\ editedLate' = {} /\ disturbed' = {}
      /\ UNCHANGED <<file, edits, closes, shutdowns>>
  BY DEF NewSession, CancelBackupOperations
<1>2. TypeOK'
  <2>1. ioOperationQueues' \in [WorkingCopies -> Seq(IoOperation)]
    BY <1>1
  <2>2. model' \in [WorkingCopies -> Versions \cup {NoEntry}]
    BY <1>0, <1>1
  <2> QED
    BY <2>1, <2>2, <1>0, <1>1 DEF TypeOK
<1>3. ASSUME NEW n \in WorkingCopies PROVE CopyOK(n)'
  <2>1. /\ ioOperationQueues'[n] = <<>> /\ pendingBackupOperations'[n] = "none"
        /\ model'[n] = (IF disk'[n] = NoBackup THEN NoEntry ELSE 0) /\ dirty'[n] = FALSE
        /\ mapWorkingCopyToContentVersion'[n] = 0
    BY <1>1
  <2>2. n \notin Modified'
    BY <1>1 DEF Modified
  <2>3. QueueOK(ioOperationQueues[n], pendingBackupOperations[n], phase)'
    BY <2>1 DEF QueueOK
  <2>4. PendingOK(n)' /\ CleanOK(n)' /\ VersionsOK(n)' /\ ShutdownOK(n)'
    BY <2>1, <2>2, <1>1 DEF PendingOK, CleanOK, VersionsOK, ShutdownOK
  <2>5. OnlyDeletes(ioOperationQueues'[n])
    BY <2>1 DEF OnlyDeletes
  <2>6. DiskOK(n)'
    <3>1. edits = 0 => disk'[n] \notin Texts
      <4>1. edits = 0 => disk[n] \notin Texts /\ OnlyDeletes(ioOperationQueues[n])
        BY DEF IInv, CopyOK, DiskOK
      <4> QED
        BY <4>1, <1>0, <1>1, TornIs
    <3>2. edits \in Nat /\ 0 + 0 <= 2 * edits
      BY <1>0, TypeFacts
    <3> QED
      BY <3>1, <3>2, <2>1, <2>5, <1>0, <1>1 DEF DiskOK
  <2>7. UnopenedOK(n)'
    BY <2>1, <2>5, <1>1 DEF UnopenedOK
  <2> QED
    BY <2>3, <2>4, <2>6, <2>7 DEF CopyOK
<1> QED
  BY <1>1, <1>2, <1>3 DEF IInv

\* The window goes, by a shutdown or by a crash.
LEMMA ExitOK ==
    ASSUME IInv, Exit \/ Crash
    PROVE  IInv'
<1>1. NewSession
  BY DEF Exit, Crash
<1>2. faults' \in 0..MaxFaults
  BY BoundsAssumption DEF Exit, Crash, IInv, TypeOK
<1> QED
  BY <1>1, <1>2, NewSessionOK

-----------------------------------------------------------------------------
(* The invariant                                                           *)

\* The invariant holds initially.
LEMMA InitOK == Init => IInv
<1> SUFFICES ASSUME Init PROVE IInv
  OBVIOUS
<1>0. 0 \in Texts /\ 0 \in Versions /\ NoBackup \notin Texts /\ NoEntry /= 0
      /\ NoEntry \in Int /\ NoEntry < 0
  BY Numbers
<1>1. TypeOK
  <2>1. /\ edits \in 0..MaxEdits /\ faults \in 0..MaxFaults
        /\ shutdowns \in 0..MaxShutdowns /\ closes \in 0..MaxCloses
    BY BoundsAssumption DEF Init
  <2>2. /\ ioOperationQueues \in [WorkingCopies -> Seq(IoOperation)]
        /\ pendingBackupOperations \in
              [WorkingCopies -> {"none", "scheduled", "snapshot", "queued"}]
    BY DEF Init
  <2> QED
    BY <2>1, <2>2, <1>0 DEF Init, TypeOK
<1>2. ASSUME NEW n \in WorkingCopies PROVE CopyOK(n)
  <2>1. /\ ioOperationQueues[n] = <<>> /\ pendingBackupOperations[n] = "none"
        /\ model[n] = NoEntry /\ disk[n] = NoBackup /\ dirty[n] = FALSE
        /\ mapWorkingCopyToContentVersion[n] = 0 /\ n \in registered /\ edits = 0
        /\ phase = "none" /\ suspended = FALSE
    BY <1>2 DEF Init
  <2>2. n \notin Modified
    BY <2>1 DEF Modified
  <2>3. QueueOK(ioOperationQueues[n], pendingBackupOperations[n], phase)
    BY <2>1 DEF QueueOK
  <2>4. OnlyDeletes(ioOperationQueues[n])
    BY <2>1 DEF OnlyDeletes
  <2>5. PendingOK(n) /\ UnopenedOK(n) /\ ShutdownOK(n) /\ DiskOK(n)
    BY <2>1, <2>2, <2>4, <1>0 DEF PendingOK, UnopenedOK, ShutdownOK, DiskOK
  <2>6. CleanOK(n)
    BY <2>1, <2>4, <1>0 DEF CleanOK, WillBeGone
  <2>7. VersionsOK(n)
    BY <2>1, <2>2, <1>0 DEF VersionsOK, OwnVersion, NotFuture
  <2> QED
    BY <2>3, <2>5, <2>6, <2>7 DEF CopyOK
<1>3. /\ suspended <=> phase \notin {"none", "ok"}
      /\ modifiedWorkingCopies \subseteq registered \cup closed
  BY DEF Init
<1> QED
  BY <1>1, <1>2, <1>3 DEF IInv

\* Every step keeps the invariant.
LEMMA NextOK == IInv /\ [Next]_vars => IInv'
<1> SUFFICES ASSUME IInv, [Next]_vars PROVE IInv'
  OBVIOUS
<1>1. ASSUME NEW w \in WorkingCopies,
             \/ Edit(w) \/ Save(w) \/ Revert(w) \/ Close(w)
             \/ Open(w) \/ RestoreBackup(w)
             \/ BackupTimer(w) \/ StoreBackup(w)
             \/ IoOperationEnds(w) \/ IoOperationFails(w)
      PROVE  IInv'
  BY <1>1, EditOK, SaveOK, RevertOK, CloseOK, OpenOK, RestoreBackupOK, BackupTimerOK,
     StoreBackupOK, IoOperationEndsOK, IoOperationFailsOK
<1>2. ASSUME ResolveBackupsToRestore PROVE IInv'
  BY <1>2, ResolveBackupsToRestoreOK
<1>3. ASSUME NEW hot \in {"none", "scratchpads", "all"}, NEW auto \in BOOLEAN,
             OnFinalBeforeShutdown(hot, auto)
      PROVE  IInv'
  BY <1>3, OnFinalBeforeShutdownOK
<1>4. ASSUME NEW ws \in SUBSET WorkingCopies, AutoSaved(ws) \/ ConfirmSave(ws) PROVE IInv'
  BY <1>4, AutoSavedOK, ConfirmSaveOK
<1>5. ASSUME \/ BackupsDone \/ CancelBackupBeforeShutdown
             \/ ConfirmDontSave \/ ConfirmCancel \/ DiscardsDone
             \/ ShutdownVetoed \/ OnWillShutdown \/ Exit \/ Crash
      PROVE  IInv'
  BY <1>5, BackupsDoneOK, CancelBackupBeforeShutdownOK, ConfirmDontSaveOK, ConfirmCancelOK,
     DiscardsDoneOK, ShutdownVetoedOK, OnWillShutdownOK, ExitOK
<1>6. ASSUME NEW succeeds \in BOOLEAN, WipeEnds(succeeds) PROVE IInv'
  BY <1>6, WipeEndsOK
<1>7. CASE UNCHANGED vars
  BY <1>7, StutterOK
<1> QED
  BY <1>1, <1>2, <1>3, <1>4, <1>5, <1>6, <1>7 DEF Next

\* IInv is an invariant, for any number of working copies and all bounds.
THEOREM HotExitInvariant == Spec => []IInv
<1>1. Init => IInv
  BY InitOK
<1>2. IInv /\ [Next]_vars => IInv'
  BY NextOK
<1> QED
  BY <1>1, <1>2, PTL DEF Spec

\* A saved or reverted working copy has no backup that the next session would
\* restore, once nothing is pending for it.
THEOREM CleanCopiesHaveNoBackup == Spec => []CleanHasNoBackup
<1>1. IInv => CleanHasNoBackup
  <2> SUFFICES ASSUME IInv, NEW w \in registered \ (Modified \cup disturbed),
                      ioOperationQueues[w] = <<>>
               PROVE  disk[w] \notin Texts
    BY DEF CleanHasNoBackup
  <2>1. w \in WorkingCopies
    BY DEF IInv, TypeOK
  <2>2. WillBeGone(ioOperationQueues[w], disk[w])
    BY <2>1 DEF IInv, CopyOK, CleanOK
  <2> QED
    BY <2>2 DEF WillBeGone
<1> QED
  BY <1>1, HotExitInvariant, PTL

\* What the model of the backup service says is there is there, and stays.  It is
\* not said of a working copy that was closed and opened again while the model
\* still knew its old backup, whose delete had failed or had been cancelled.
THEOREM BackupsAreCurrent == Spec => []BackupIsCurrent
<1>1. IInv => BackupIsCurrent
  <2> SUFFICES ASSUME IInv, NEW w \in Modified \ stale,
                      Has(w, mapWorkingCopyToContentVersion[w])
               PROVE  /\ disk[w] = content[w]
                      /\ \A i \in 1..Len(ioOperationQueues[w]) : IsDone(w, ioOperationQueues[w][i])
    BY DEF BackupIsCurrent
  <2> DEFINE q == ioOperationQueues[w]
             v == mapWorkingCopyToContentVersion[w]
  <2>1. w \in WorkingCopies
    BY DEF Modified, IInv, TypeOK
  <2>2. CopyOK(w) /\ q \in Seq(IoOperation) /\ v \in Versions /\ NoEntry \notin Versions
    BY <2>1, TypeFacts, Numbers DEF IInv
  <2>3. CurrentIs(q, OwnVersion(w), v, disk[w], content[w])
        /\ model[w] = v /\ OwnVersion(w) = v
    BY <2>2 DEF CopyOK, VersionsOK, OwnVersion, Has
  <2>4. disk[w] = content[w] /\ \A i \in 1..Len(q) : q[i].version = v
    BY <2>3 DEF CurrentIs
  <2>5. \A i \in 1..Len(q) : q[i].op \in {"write", "delete"}
    BY <2>2, OperationType
  <2>6. \A i \in 1..Len(q) : q[i].op = "delete" => q[i].version = NoEntry
    BY <2>2 DEF CopyOK, QueueOK
  <2>7. \A i \in 1..Len(q) : q[i].op = "write"
    BY <2>2, <2>4, <2>5, <2>6
  <2> QED
    BY <2>3, <2>4, <2>7 DEF IsDone, Has
<1> QED
  BY <1>1, HotExitInvariant, PTL

\* Closing the window without a veto loses no edit made before the shutdown
\* began, again but for working copies with the version of an old backup.
THEOREM ExitIsSafe == Spec => ExitKeepsEdits
<1>1. IInv /\ [Next]_vars
      => [Exit => \A w \in Modified \ (editedLate \cup stale) : disk'[w] = content[w]]_vars
  <2> SUFFICES ASSUME IInv, Exit, NEW w \in Modified \ (editedLate \cup stale)
               PROVE  disk'[w] = content[w]
    OBVIOUS
  <2>1. w \in WorkingCopies /\ phase = "closing"
    BY DEF Modified, IInv, TypeOK, Exit
  <2>2. Has(w, mapWorkingCopyToContentVersion[w])
    BY <2>1 DEF IInv, CopyOK, ShutdownOK
  <2>3. disk[w] = content[w]
    BY <2>1, <2>2 DEF IInv, CopyOK, VersionsOK, OwnVersion, CurrentIs, Has
  <2>4. disk'[w] \in Torn(w)
    BY <2>1 DEF Exit, NewSession
  <2> QED
    BY <2>1, <2>2, <2>3, <2>4, TornIs
<1> QED
  BY <1>1, HotExitInvariant, PTL DEF Spec, ExitKeepsEdits

\* No step of any session touches the backup of a working copy that was not
\* opened in it, unless the window is an empty one.
THEOREM UnrestoredBackupsAreKept == Spec => UnrestoredBackupsKept
<1> DEFINE A == \A w \in WorkingCopies :
                   (w \notin registered \cup closed /\ disk[w] \in Texts /\ ~EmptyWindow)
                   => disk'[w] = disk[w]
<1>1. IInv /\ [Next]_vars => [A]_vars
  <2> SUFFICES ASSUME IInv, Next, NEW w \in WorkingCopies,
                      w \notin registered \cup closed, disk[w] \in Texts, ~EmptyWindow
               PROVE  disk'[w] = disk[w]
    OBVIOUS
  <2>1. ioOperationQueues[w] = <<>> /\ phase /= "wipe"
    BY DEF IInv, CopyOK, UnopenedOK
  <2>2. ASSUME NEW u \in WorkingCopies, IoOperationEnds(u) \/ IoOperationFails(u)
        PROVE  disk'[w] = disk[w]
    <3>1. u /= w
      BY <2>1, <2>2 DEF IoOperationEnds, IoOperationFails
    <3> QED
      BY <3>1, <2>2 DEF IoOperationEnds, IoOperationFails, IInv, TypeOK
  <2>3. ASSUME Exit \/ Crash PROVE disk'[w] = disk[w]
    <3>1. disk'[w] \in Torn(w)
      BY <2>3 DEF Exit, Crash, NewSession
    <3> QED
      BY <3>1, <2>1, TornIs
  <2>4. ASSUME NEW succeeds \in BOOLEAN, WipeEnds(succeeds) PROVE disk'[w] = disk[w]
    BY <2>1, <2>4 DEF WipeEnds
  <2>5. ASSUME NEW u \in WorkingCopies,
               \/ Edit(u) \/ Save(u) \/ Revert(u) \/ Close(u)
               \/ Open(u) \/ RestoreBackup(u) \/ BackupTimer(u) \/ StoreBackup(u)
        PROVE  disk' = disk
    BY <2>5 DEF Edit, Save, Revert, Close, Open, RestoreBackup, BackupTimer, StoreBackup,
                serviceVars
  <2>6. ASSUME NEW ws \in SUBSET WorkingCopies, AutoSaved(ws) \/ ConfirmSave(ws)
        PROVE  disk' = disk
    BY <2>6 DEF AutoSaved, ConfirmSave
  <2>7. ASSUME NEW hot, NEW auto, OnFinalBeforeShutdown(hot, auto) PROVE disk' = disk
    BY <2>7 DEF OnFinalBeforeShutdown
  <2>8. ASSUME \/ ResolveBackupsToRestore \/ BackupsDone \/ CancelBackupBeforeShutdown
               \/ ConfirmDontSave \/ ConfirmCancel \/ DiscardsDone
               \/ ShutdownVetoed \/ OnWillShutdown
        PROVE  disk' = disk
    BY <2>8 DEF ResolveBackupsToRestore, BackupsDone, CancelBackupBeforeShutdown,
                ConfirmDontSave, ConfirmCancel, DiscardsDone, ShutdownVetoed, OnWillShutdown,
                serviceVars
  <2> QED
    BY <2>2, <2>3, <2>4, <2>5, <2>6, <2>7, <2>8 DEF Next
<1> QED
  BY <1>1, HotExitInvariant, PTL DEF Spec, UnrestoredBackupsKept
=============================================================================
