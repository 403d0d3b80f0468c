------------------------- MODULE KafkaProducer_proofs -------------------------
(***************************************************************************)
(* KafkaProducer, for any threads, partitions, settings and bounds:        *)
(* buffers and batches are accounted for, no record is sent too often, and *)
(* what keeps the order keeps it.                                          *)
(***************************************************************************)
EXTENDS KafkaProducer, FiniteSetTheorems, SequenceTheorems, TLAPS

-----------------------------------------------------------------------------
\* A sequence lists nothing twice; it rises.
Once(q)  == \A i, j \in 1..Len(q) : q[i] = q[j] => i = j
Rises(q) == \A i, j \in 1..Len(q) : i < j => q[i] < q[j]

Batches  == [part : Partitions, recs : Seq(Records), attempts : Nat, open : BOOLEAN]
Results  == [kind : {"pending", "failed", "acked"}, at : Nat]
Verdicts == [kind : {"sent", "retriable", "fatal", "acked"}, at : Nat]
Requests == UNION {[ids -> Verdicts] : ids \in SUBSET Nat}

UserTyped ==
  /\ config \in Configs /\ sends \in 0..MaxSends
  /\ pc \in [Threads -> {"idle", "begun", "alloc", "wait", "append", "flush", "closing", "join"}]
  /\ rec \in [Threads -> 0..MaxSends] /\ part \in [Threads -> Partitions]
  /\ awaited \in [Threads -> SUBSET Nat] /\ \A t \in Threads : awaited[t] \subseteq BatchIds
  /\ free \in Nat /\ lost \in Nat /\ waiters \in Seq(Records) /\ muted \subseteq Partitions
  /\ running \in BOOLEAN /\ closed \in BOOLEAN /\ force \in BOOLEAN
  /\ sender \in {"run", "abort", "clear", "ended"}
  /\ up \in BOOLEAN /\ faults \in 0..MaxFaults

BatchTyped ==
  /\ batch \in Seq(Batches) /\ result \in Seq(Results) /\ Len(result) = Len(batch)
  /\ dq \in [Partitions -> Seq(Nat)]
  /\ incomplete \subseteq BatchIds
  /\ flight \in Seq(Requests) /\ late \in Seq(Requests)
  /\ log \in [Partitions -> Seq(Records)]

\* The batches of a partition and of a request; a batch the broker has not come to.
Queued(p)  == Range(dq[p])
Flying(i)  == DOMAIN flight[i]
Waits(b)   == \E p \in Partitions : b \in Queued(p)
Flies(b)   == \E i \in 1..Len(flight) : b \in Flying(i)
Sending(b) == \E i \in 1..Len(flight) : b \in Flying(i) /\ flight[i][b] = Sent

\* A batch is in one queue, that of its partition, or in one request, or completed;
\* a request has one of each partition, closed.
QueuesPlaced ==
  \A p \in Partitions : /\ Once(dq[p])
                         /\ \A b \in Queued(p) : b \in BatchIds /\ batch[b].part = p
FlightsPlaced ==
  \A i \in 1..Len(flight) :
    /\ \A b \in Flying(i) : b \in BatchIds /\ ~batch[b].open
    /\ \A b, c \in Flying(i) : batch[b].part = batch[c].part => b = c
    /\ \A p \in Partitions : Queued(p) \cap Flying(i) = {}
    /\ \A j \in 1..Len(flight) : j # i => Flying(i) \cap Flying(j) = {}
LatesPlaced ==
  \A i \in 1..Len(late) : \A b \in DOMAIN late[i] : b \in BatchIds /\ ~batch[b].open
PendingPlaced ==
  /\ \A b \in incomplete : Waits(b) \/ Flies(b)
  /\ sender = "run" => \A b \in BatchIds : Waits(b) \/ Flies(b) => b \in incomplete
  /\ \A b \in BatchIds : result[b] = Pending <=> b \in incomplete

Placed == QueuesPlaced /\ FlightsPlaced /\ LatesPlaced /\ PendingPlaced

\* The broker handles whole requests, in their order.
InTurn ==
  /\ \A i \in 1..Len(flight) :
       Unhandled(flight[i]) => \A b \in Flying(i) : flight[i][b] = Sent
  /\ \A i, j \in 1..Len(flight) :
       i < j /\ Unhandled(flight[i]) => Unhandled(flight[j])

\* A record is with the thread that sends it, or in one batch.
Recorded ==
  /\ \A t \in Appending : /\ rec[t] \in 1..sends
                          /\ \A b \in BatchIds : rec[t] \notin Range(batch[b].recs)
  /\ \A t, u \in Appending : rec[t] = rec[u] => t = u
  /\ \A b \in BatchIds : Once(batch[b].recs) /\ Range(batch[b].recs) \subseteq 1..sends
  /\ \A b, c \in BatchIds : b # c => Range(batch[b].recs) \cap Range(batch[c].recs) = {}

\* The copies of a record in a log, and the requests that may yet add one.
Occurs(s, r)    == Cardinality({i \in 1..Len(s) : s[i] = r})
Requested(q, b) == Cardinality({i \in 1..Len(q) : b \in DOMAIN q[i]})
Copies(p, r) == Occurs(log[p], r)
Lates(b)     == Requested(late, b)

\* What is in a log was sent, with a batch that is closed.  A batch is sent once more
\* than it was put back, unless it waits to be sent.
Gathered == \A p \in Partitions : \A r \in Range(log[p]) :
              \E b \in BatchIds : ~batch[b].open /\ r \in Range(batch[b].recs)
Tried    == \A b \in BatchIds : batch[b].attempts <= config.retries
Counted  == \A p \in Partitions : \A b \in BatchIds : \A r \in Range(batch[b].recs) :
              Copies(p, r) + Lates(b) + (IF Sending(b) THEN 1 ELSE 0)
                <= batch[b].attempts + (IF Waits(b) THEN 0 ELSE 1)

Logged == Gathered /\ Tried /\ Counted

Buffered == IsFiniteSet(Holding) /\ BuffersAccounted

\* What is said to be taken of a batch is at its offset.
Taken(b) ==
  {v \in {result[b]} \union {flight[i][b] : i \in {j \in 1..Len(flight) : b \in Flying(j)}} :
     v.kind = "acked"}

Settled ==
  \A b \in BatchIds : \A v \in Taken(b) :
    /\ ~batch[b].open
    /\ v.at + Len(batch[b].recs) <= Len(log[batch[b].part])
    /\ SubSeq(log[batch[b].part], v.at + 1, v.at + Len(batch[b].recs)) = batch[b].recs

InOrder == Ordered \/ config.retries = 0

\* Batches are opened, sent, and taken in one order: the batches of a queue, those
\* of the requests, those sent before those not sent, those taken before those that
\* may yet be.
QueuesSorted  == \A p \in Partitions : Rises(dq[p])
FlightsSorted ==
  \A i, j \in 1..Len(flight) : \A b \in Flying(i), c \in Flying(j) :
    batch[b].part = batch[c].part /\ i < j => b < c
SentFirst ==
  \A i \in 1..Len(flight) : \A b \in Flying(i) : \A c \in Queued(batch[b].part) : b < c
AckedFirst ==
  \A b, c \in BatchIds :
    result[b].kind = "acked" /\ (Waits(c) \/ Flies(c)) /\ batch[b].part = batch[c].part => b < c
OffsetsSorted ==
  \A b, c \in BatchIds : \A v \in Taken(b), w \in Taken(c) :
    b < c /\ batch[b].part = batch[c].part => v.at + Len(batch[b].recs) <= w.at

Sorted ==
  InOrder => QueuesSorted /\ FlightsSorted /\ SentFirst /\ AckedFirst /\ OffsetsSorted
               /\ (Ordered => Len(flight) <= 1)

IInv == UserTyped /\ BatchTyped /\ Placed /\ InTurn /\ Recorded /\ Logged /\ Buffered
          /\ Settled /\ Sorted
-----------------------------------------------------------------------------
(* Queues. *)

LEMMA RangeIs ==
  ASSUME NEW S, NEW q \in Seq(S)
  PROVE  Range(q) = {q[i] : i \in 1..Len(q)}
BY LenProperties DEF Range

LEMMA EmptyRange == /\ Range(<<>>) = {} /\ Len(<<>>) = 0 /\ 1..0 = {}
                    /\ Once(<<>>) /\ Rises(<<>>)
<1>1. <<>> \in Seq(Nat) /\ Len(<<>>) = 0 /\ 1..0 = {}
  OBVIOUS
<1>2. Range(<<>>) = {<<>>[i] : i \in 1..0}
  BY <1>1, RangeIs, Zenon
<1> QED BY <1>1, <1>2 DEF Once, Rises

\* A new batch goes to the end of a queue.
LEMMA QueueAppends ==
  ASSUME NEW S, NEW q \in Seq(S), NEW x \in S
  PROVE  /\ Append(q, x) \in Seq(S) /\ Range(Append(q, x)) = Range(q) \union {x}
         /\ Once(q) /\ x \notin Range(q) => Once(Append(q, x))
         /\ S \subseteq Nat /\ Rises(q) /\ (\A y \in Range(q) : y < x) => Rises(Append(q, x))
<1>1. /\ Append(q, x) \in Seq(S) /\ Len(Append(q, x)) = Len(q) + 1
      /\ \A i \in 1..Len(q) : Append(q, x)[i] = q[i]
      /\ Append(q, x)[Len(q) + 1] = x /\ Len(q) \in Nat
  BY AppendProperties, LenProperties
<1>2. /\ Range(q) = {q[i] : i \in 1..Len(q)}
      /\ Range(Append(q, x)) = {Append(q, x)[i] : i \in 1..(Len(q) + 1)}
  BY RangeIs, <1>1
<1>3. 1..(Len(q) + 1) = 1..Len(q) \union {Len(q) + 1}
  BY <1>1
<1>4. Range(Append(q, x)) = Range(q) \union {x}
  BY <1>1, <1>2, <1>3
<1>5. ASSUME Once(q), x \notin Range(q) PROVE Once(Append(q, x))
  BY <1>1, <1>2, <1>5 DEF Once
<1>6. ASSUME S \subseteq Nat, Rises(q), \A y \in Range(q) : y < x PROVE Rises(Append(q, x))
  BY <1>1, <1>2, <1>6 DEF Rises
<1> QED BY <1>1, <1>4, <1>5, <1>6

\* A batch put back goes to the front of it.
LEMMA QueueFronts ==
  ASSUME NEW S, NEW q \in Seq(S), NEW x \in S
  PROVE  /\ <<x>> \o q \in Seq(S) /\ Range(<<x>> \o q) = Range(q) \union {x}
         /\ Once(q) /\ x \notin Range(q) => Once(<<x>> \o q)
         /\ S \subseteq Nat /\ Rises(q) /\ (\A y \in Range(q) : x < y) => Rises(<<x>> \o q)
<1> DEFINE r == <<x>> \o q
<1>0. <<x>> \in Seq(S) /\ Len(<<x>>) = 1 /\ <<x>>[1] = x /\ Len(q) \in Nat
  BY LenProperties
<1>1. /\ r \in Seq(S) /\ Len(r) = 1 + Len(q)
      /\ \A i \in 1..(1 + Len(q)) : r[i] = IF i <= 1 THEN <<x>>[i] ELSE q[i - 1]
  BY <1>0, ConcatProperties
<1> HIDE DEF r
<1>2. r[1] = x /\ \A i \in 1..Len(q) : r[i + 1] = q[i]
  BY <1>0, <1>1
<1>3. \A i \in 1..Len(r) : i = 1 \/ (i - 1 \in 1..Len(q) /\ r[i] = q[i - 1])
  BY <1>0, <1>1
<1>4. Range(q) = {q[i] : i \in 1..Len(q)} /\ Range(r) = {r[i] : i \in 1..Len(r)}
  BY RangeIs, <1>1
<1>5. Range(r) = Range(q) \union {x}
  <2>1. \A i \in 1..Len(q) : i + 1 \in 1..Len(r)
    BY <1>0, <1>1
  <2>2. 1 \in 1..Len(r)
    BY <1>0, <1>1
  <2>3. ASSUME NEW y \in Range(r) PROVE y = x \/ y \in Range(q)
    <3>1. PICK i \in 1..Len(r) : y = r[i]
      BY <1>4
    <3> QED BY <1>2, <1>3, <1>4, <3>1
  <2>4. ASSUME NEW y \in Range(q) PROVE y \in Range(r)
    <3>1. PICK i \in 1..Len(q) : y = q[i]
      BY <1>4
    <3> QED BY <1>2, <1>4, <2>1, <3>1
  <2>5. x \in Range(r)
    BY <1>2, <1>4, <2>2
  <2> QED BY <2>3, <2>4, <2>5
<1>6. ASSUME Once(q), x \notin Range(q) PROVE Once(r)
  <2> SUFFICES ASSUME NEW i \in 1..Len(r), NEW j \in 1..Len(r), r[i] = r[j] PROVE i = j
    BY DEF Once
  <2>1. \A k \in 1..Len(q) : q[k] # x
    BY <1>4, <1>6
  <2>2. CASE i = 1 \/ j = 1
    BY <1>2, <1>3, <2>1, <2>2
  <2>3. CASE i # 1 /\ j # 1
    <3>1. i - 1 \in 1..Len(q) /\ j - 1 \in 1..Len(q) /\ q[i - 1] = q[j - 1]
      BY <1>3, <2>3
    <3>2. i - 1 = j - 1
      BY <1>6, <3>1 DEF Once
    <3> QED BY <1>0, <1>1, <3>2
  <2> QED BY <2>2, <2>3
<1>7. ASSUME S \subseteq Nat, Rises(q), \A y \in Range(q) : x < y PROVE Rises(r)
  <2> SUFFICES ASSUME NEW i \in 1..Len(r), NEW j \in 1..Len(r), i < j PROVE r[i] < r[j]
    BY DEF Rises
  <2>1. j - 1 \in 1..Len(q) /\ r[j] = q[j - 1]
    BY <1>0, <1>1, <1>3
  <2>2. CASE i = 1
    BY <1>2, <1>4, <1>7, <2>1, <2>2
  <2>3. CASE i # 1
    <3>1. i - 1 \in 1..Len(q) /\ r[i] = q[i - 1] /\ i - 1 < j - 1
      BY <1>0, <1>1, <1>3, <2>3
    <3> QED BY <1>7, <2>1, <3>1 DEF Rises
  <2> QED BY <2>2, <2>3
<1> QED BY <1>1, <1>5, <1>6, <1>7 DEF r

\* Its first n batches leave a queue.
LEMMA QueueDrops ==
  ASSUME NEW S, NEW q \in Seq(S), Once(q), NEW n \in 1..Len(q)
  PROVE  /\ SubSeq(q, n + 1, Len(q)) \in Seq(S)
         /\ Once(SubSeq(q, n + 1, Len(q)))
         /\ Range(SubSeq(q, n + 1, Len(q))) = Range(q) \ {q[i] : i \in 1..n}
         /\ {q[i] : i \in 1..n} \subseteq Range(q)
         /\ Rises(q) => Rises(SubSeq(q, n + 1, Len(q)))
<1> DEFINE r == SubSeq(q, n + 1, Len(q))
<1>0. Len(q) \in Nat
  BY LenProperties
<1>1. r \in Seq(S)
  BY <1>0, SubSeqProperties
<1>2. Len(r) = Len(q) - n /\ \A i \in 1..(Len(q) - n) : r[i] = q[n + i]
  BY <1>0, SubSeqProperties
<1>3. Range(q) = {q[i] : i \in 1..Len(q)} /\ Range(r) = {r[i] : i \in 1..Len(r)}
  BY RangeIs, <1>1
<1> HIDE DEF r
<1>4. Once(r)
  BY <1>0, <1>2 DEF Once
<1>5. ASSUME NEW x \in Range(r) PROVE x \in Range(q) \ {q[i] : i \in 1..n}
  <2>1. PICK i \in 1..Len(r) : x = r[i]
    BY <1>3
  <2>2. x = q[n + i] /\ n + i \in 1..Len(q)
    BY <2>1, <1>2, <1>0
  <2>3. \A j \in 1..n : q[j] # x
    BY <2>1, <2>2, <1>0 DEF Once
  <2> QED BY <2>2, <2>3, <1>3
<1>6. ASSUME NEW x \in Range(q), x \notin {q[i] : i \in 1..n} PROVE x \in Range(r)
  <2>1. PICK i \in 1..Len(q) : x = q[i]
    BY <1>3
  <2>2. i > n
    BY <2>1, <1>6, <1>0
  <2>3. i - n \in 1..Len(r) /\ r[i - n] = q[i]
    BY <2>2, <1>0, <1>2
  <2> QED BY <2>1, <2>3, <1>3
<1>7. {q[i] : i \in 1..n} \subseteq Range(q)
  BY <1>0, <1>3
<1>8. ASSUME Rises(q) PROVE Rises(r)
  <2> SUFFICES ASSUME NEW i \in 1..Len(r), NEW j \in 1..Len(r), i < j PROVE r[i] < r[j]
    BY DEF Rises
  <2>1. /\ n + i \in 1..Len(q) /\ n + j \in 1..Len(q) /\ n + i < n + j
        /\ r[i] = q[n + i] /\ r[j] = q[n + j]
    BY <1>0, <1>2
  <2> QED BY <1>8, <2>1 DEF Rises
<1> QED BY <1>1, <1>4, <1>5, <1>6, <1>7, <1>8 DEF r

\* Its first batch leaves a queue.
LEMMA QueueTails ==
  ASSUME NEW S, NEW q \in Seq(S), Once(q), q # <<>>
  PROVE  /\ Tail(q) \in Seq(S) /\ Head(q) \in Range(q) /\ Head(q) \in S
         /\ Once(Tail(q)) /\ Range(Tail(q)) = Range(q) \ {Head(q)}
         /\ Rises(q) => Rises(Tail(q))
         /\ Rises(q) => \A x \in Range(Tail(q)) : Head(q) < x
<1>1. /\ 1 \in 1..Len(q) /\ Len(q) \in Nat
      /\ Head(q) = q[1] /\ Head(q) \in S
  BY HeadTailProperties, LenProperties, EmptySeq
<1>2. Tail(q) = SubSeq(q, 1 + 1, Len(q))
  BY TailIsSubSeq
<1>3. {q[i] : i \in 1..1} = {Head(q)}
  BY <1>1
<1>4. Head(q) \in Range(q)
  BY <1>1, RangeIs
<1>5. ASSUME Rises(q), NEW x \in Range(Tail(q)) PROVE Head(q) < x
  <2>0. Tail(q) \in Seq(S)
    BY HeadTailProperties
  <2>1. PICK i \in 1..Len(Tail(q)) : x = Tail(q)[i]
    BY <2>0, RangeIs
  <2>2. x = q[i + 1] /\ i + 1 \in 1..Len(q) /\ 1 < i + 1
    BY <1>1, <2>1, HeadTailProperties
  <2> QED BY <1>1, <1>5, <2>2 DEF Rises
<1>6. /\ Tail(q) \in Seq(S) /\ Once(Tail(q)) /\ Range(Tail(q)) = Range(q) \ {q[i] : i \in 1..1}
      /\ Rises(q) => Rises(Tail(q))
  BY <1>1, <1>2, QueueDrops
<1> QED BY <1>1, <1>3, <1>4, <1>5, <1>6

LEMMA QueueLast ==
  ASSUME NEW S, NEW q \in Seq(S), q # <<>>
  PROVE  Last(q) \in Range(q)
<1>1. Len(q) \in 1..Len(q) /\ Last(q) = q[Len(q)]
  BY EmptySeq DEF Last
<1> QED BY <1>1, RangeIs

-----------------------------------------------------------------------------
(* Counting. *)

LEMMA AtMostOneMore ==
  ASSUME NEW A, IsFiniteSet(A), NEW B, NEW x, B \subseteq A \union {x}
  PROVE  IsFiniteSet(B) /\ Cardinality(B) \in Nat /\ Cardinality(A) \in Nat
         /\ Cardinality(B) <= Cardinality(A) + 1
<1>1. /\ IsFiniteSet(A \union {x})
      /\ Cardinality(A \union {x}) = IF x \in A THEN Cardinality(A) ELSE Cardinality(A) + 1
  BY FS_AddElement
<1>2. IsFiniteSet(B) /\ Cardinality(B) <= Cardinality(A \union {x})
  BY <1>1, FS_Subset
<1>3. Cardinality(A) \in Nat /\ Cardinality(B) \in Nat
  BY <1>2, FS_CardinalityType
<1> QED BY <1>1, <1>2, <1>3

LEMMA PositionsCount ==
  ASSUME NEW n \in Nat, NEW A, A \subseteq 1..n
  PROVE  IsFiniteSet(A) /\ Cardinality(A) \in Nat
<1>1. IsFiniteSet(1..n)
  BY FS_Interval
<1>2. IsFiniteSet(A)
  BY <1>1, FS_Subset
<1> QED BY <1>2, FS_CardinalityType

\* Positions that move down by one, over the first.
LEMMA ShiftCounts ==
  ASSUME NEW n \in Nat, NEW A, A \subseteq 1..n,
         NEW B, B \subseteq 1..n, \A i \in B : i + 1 \in A
  PROVE  Cardinality(B) <= Cardinality(A) - (IF 1 \in A THEN 1 ELSE 0)
<1>0. IsFiniteSet(A) /\ Cardinality(A) \in Nat
  BY PositionsCount
<1> DEFINE up1 == [i \in B |-> i + 1]
<1>1. up1 \in [B -> A \ {1}]
  BY SMT
<1>2. \A i, j \in B : up1[i] = up1[j] => i = j
  BY SMT
<1>3. up1 \in Injection(B, A \ {1})
  BY <1>1, <1>2 DEF Injection, IsInjective
<1>4. /\ IsFiniteSet(A \ {1})
      /\ Cardinality(A \ {1}) = IF 1 \in A THEN Cardinality(A) - 1 ELSE Cardinality(A)
  BY <1>0, FS_RemoveElement
<1>5. Cardinality(B) <= Cardinality(A \ {1})
  BY <1>3, <1>4, FS_Injection, Zenon
<1> QED BY <1>0, <1>4, <1>5

\* The records of a batch, each in it once, are appended to a log.
LEMMA OccursMore ==
  ASSUME NEW S, NEW s \in Seq(S), NEW t \in Seq(S), Once(t), NEW r
  PROVE  /\ Occurs(s, r) \in Nat /\ Occurs(s \o t, r) \in Nat
         /\ Occurs(s \o t, r) <= Occurs(s, r) + (IF r \in Range(t) THEN 1 ELSE 0)
<1> DEFINE A == {i \in 1..Len(s) : s[i] = r}
           B == {i \in 1..Len(s \o t) : (s \o t)[i] = r}
<1>0. Len(s) \in Nat /\ Len(t) \in Nat /\ Range(t) = {t[i] : i \in 1..Len(t)}
  BY LenProperties, RangeIs
<1>1. /\ Len(s \o t) = Len(s) + Len(t)
      /\ \A i \in 1..(Len(s) + Len(t)) : (s \o t)[i] = IF i <= Len(s) THEN s[i] ELSE t[i - Len(s)]
  BY ConcatProperties
<1>2. \A i \in B : i \in A \/ (i - Len(s) \in 1..Len(t) /\ t[i - Len(s)] = r /\ i \in Int)
  BY <1>0, <1>1
<1>3. IsFiniteSet(A) /\ Cardinality(A) \in Nat /\ IsFiniteSet(B) /\ Cardinality(B) \in Nat
  <2>1. A \subseteq 1..Len(s) /\ B \subseteq 1..Len(s \o t) /\ Len(s \o t) \in Nat
    BY <1>0, <1>1
  <2> HIDE DEF A, B
  <2> QED BY <1>0, <2>1, PositionsCount
<1> HIDE DEF A, B
<1>4. CASE r \in Range(t)
  <2>1. PICK k \in 1..Len(t) : t[k] = r
    BY <1>0, <1>4
  <2>2. \A i \in B : i \in A \union {Len(s) + k}
    <3> SUFFICES ASSUME NEW i \in B, i \notin A PROVE i = Len(s) + k
      OBVIOUS
    <3>1. i - Len(s) = k /\ i \in Int
      BY <1>2, <2>1 DEF Once
    <3> QED BY <1>0, <3>1
  <2>3. Cardinality(B) <= Cardinality(A) + 1
    BY <1>3, <2>2, AtMostOneMore
  <2> QED BY <1>3, <1>4, <2>3 DEF Occurs, A, B
<1>5. CASE r \notin Range(t)
  <2>1. B \subseteq A
    BY <1>0, <1>2, <1>5
  <2>2. Cardinality(B) <= Cardinality(A)
    BY <1>3, <2>1, FS_Subset
  <2>3. Cardinality(B) <= Cardinality(A) + (IF r \in Range(t) THEN 1 ELSE 0)
    BY <1>3, <1>5, <2>2
  <2> QED BY <1>3, <2>3 DEF Occurs, A, B
<1> QED BY <1>4, <1>5

LEMMA OccursNot ==
  ASSUME NEW S, NEW s \in Seq(S), NEW r
  PROVE  Occurs(s, r) \in Nat /\ (r \notin Range(s) => Occurs(s, r) = 0)
<1>1. Len(s) \in Nat /\ Range(s) = {s[i] : i \in 1..Len(s)}
  BY LenProperties, RangeIs
<1>2. Occurs(s, r) \in Nat
  BY <1>1, PositionsCount DEF Occurs
<1>3. ASSUME r \notin Range(s) PROVE Occurs(s, r) = 0
  <2>1. {i \in 1..Len(s) : s[i] = r} = {}
    BY <1>1, <1>3
  <2> QED BY <2>1, FS_EmptySet DEF Occurs
<1> QED BY <1>2, <1>3

LEMMA RequestedIs ==
  ASSUME NEW S, NEW q \in Seq(S), NEW b
  PROVE  Requested(q, b) \in Nat /\ IsFiniteSet({i \in 1..Len(q) : b \in DOMAIN q[i]})
<1>1. Len(q) \in Nat
  BY LenProperties
<1> QED BY <1>1, PositionsCount DEF Requested

\* Requests are added, of which one at most has batch b.
LEMMA RequestedMore ==
  ASSUME NEW S, NEW q \in Seq(S), NEW s \in Seq(S), NEW b,
         \A i, j \in 1..Len(s) : b \in DOMAIN s[i] /\ b \in DOMAIN s[j] => i = j
  PROVE  Requested(q \o s, b)
           <= Requested(q, b) + (IF \E i \in 1..Len(s) : b \in DOMAIN s[i] THEN 1 ELSE 0)
<1> DEFINE A == {i \in 1..Len(q) : b \in DOMAIN q[i]}
           B == {i \in 1..Len(q \o s) : b \in DOMAIN (q \o s)[i]}
<1>0. Len(q) \in Nat /\ Len(s) \in Nat /\ q \o s \in Seq(S)
  BY LenProperties, ConcatProperties
<1>1. /\ Len(q \o s) = Len(q) + Len(s)
      /\ \A i \in 1..(Len(q) + Len(s)) : (q \o s)[i] = IF i <= Len(q) THEN q[i] ELSE s[i - Len(q)]
  BY ConcatProperties
<1>2. \A i \in B : i \in A \/ (i - Len(q) \in 1..Len(s) /\ b \in DOMAIN s[i - Len(q)] /\ i \in Int)
  BY <1>0, <1>1
<1>3. IsFiniteSet(A) /\ Cardinality(A) \in Nat /\ IsFiniteSet(B) /\ Cardinality(B) \in Nat
  BY <1>0, RequestedIs DEF Requested
<1> HIDE DEF A, B
<1>4. ASSUME NEW k \in 1..Len(s), b \in DOMAIN s[k] PROVE Cardinality(B) <= Cardinality(A) + 1
  <2>1. \A i \in B : i \in A \union {Len(q) + k}
    <3> SUFFICES ASSUME NEW i \in B, i \notin A PROVE i = Len(q) + k
      OBVIOUS
    <3>1. i - Len(q) = k /\ i \in Int
      BY <1>2, <1>4
    <3> QED BY <1>0, <3>1
  <2> QED BY <1>3, <2>1, AtMostOneMore
<1>5. ASSUME ~\E i \in 1..Len(s) : b \in DOMAIN s[i] PROVE Cardinality(B) <= Cardinality(A)
  <2>1. B \subseteq A
    BY <1>0, <1>2, <1>5
  <2> QED BY <1>3, <2>1, FS_Subset
<1>6. Cardinality(B) <= Cardinality(A) + (IF \E i \in 1..Len(s) : b \in DOMAIN s[i] THEN 1 ELSE 0)
  BY <1>3, <1>4, <1>5
<1> QED BY <1>6 DEF Requested, A, B

LEMMA RequestedAppend ==
  ASSUME NEW S, NEW q \in Seq(S), NEW x \in S, NEW b
  PROVE  Requested(Append(q, x), b) <= Requested(q, b) + (IF b \in DOMAIN x THEN 1 ELSE 0)
<1> DEFINE s == <<x>>
<1>1. s \in Seq(S) /\ Len(s) = 1 /\ s[1] = x
  OBVIOUS
<1>2. Append(q, x) = q \o s
  BY AppendIsConcat
<1> HIDE DEF s
<1>3. \A i, j \in 1..Len(s) : i = j
  BY <1>1
<1>4. Requested(q \o s, b)
        <= Requested(q, b) + (IF \E i \in 1..Len(s) : b \in DOMAIN s[i] THEN 1 ELSE 0)
  BY <1>1, <1>3, RequestedMore
<1>5. (\E i \in 1..Len(s) : b \in DOMAIN s[i]) <=> b \in DOMAIN x
  BY <1>1
<1> QED BY <1>2, <1>4, <1>5

LEMMA RequestedTail ==
  ASSUME NEW S, NEW q \in Seq(S), q # <<>>, NEW b
  PROVE  Requested(Tail(q), b) <= Requested(q, b) - (IF b \in DOMAIN Head(q) THEN 1 ELSE 0)
<1> DEFINE A == {i \in 1..Len(q) : b \in DOMAIN q[i]}
           B == {i \in 1..Len(Tail(q)) : b \in DOMAIN Tail(q)[i]}
<1>1. /\ Len(q) \in Nat /\ 1 \in 1..Len(q) /\ Head(q) = q[1]
      /\ Tail(q) \in Seq(S) /\ Len(Tail(q)) = Len(q) - 1
      /\ \A i \in 1..Len(Tail(q)) : Tail(q)[i] = q[i + 1]
  BY HeadTailProperties, LenProperties, EmptySeq
<1>2. A \subseteq 1..Len(q) /\ B \subseteq 1..Len(q) /\ \A i \in B : i + 1 \in A
  BY <1>1
<1>3. 1 \in A <=> b \in DOMAIN Head(q)
  BY <1>1
<1> HIDE DEF A, B
<1>4. Cardinality(B) <= Cardinality(A) - (IF 1 \in A THEN 1 ELSE 0)
  BY <1>1, <1>2, ShiftCounts
<1> QED BY <1>3, <1>4 DEF Requested, A, B

LEMMA RequestIs ==
  ASSUME NEW f \in Requests
  PROVE  /\ DOMAIN f \subseteq Nat /\ \A b \in DOMAIN f : f[b] \in Verdicts
         /\ f \in [DOMAIN f -> Verdicts]
BY DEF Requests

LEMMA IsRequest ==
  ASSUME NEW ids, ids \subseteq Nat, NEW f \in [ids -> Verdicts]
  PROVE  f \in Requests
BY DEF Requests

-----------------------------------------------------------------------------
(* Batches. *)

LEMMA FunSeq ==
  ASSUME NEW S, NEW n \in Nat, NEW f \in [1..n -> S]
  PROVE  f \in Seq(S) /\ Len(f) = n
<1>1. f \in Seq(S)
  BY SeqDef
<1>2. DOMAIN f = 1..n /\ DOMAIN f = 1..Len(f) /\ Len(f) \in Nat
  BY <1>1, LenProperties
<1> QED BY <1>1, <1>2

LEMMA IdsAre == BatchTyped =>
  /\ BatchIds = 1..Len(batch) /\ Len(batch) \in Nat /\ DOMAIN result = BatchIds
  /\ \A b \in BatchIds : batch[b] \in Batches /\ result[b] \in Results
  /\ batch \in [1..Len(batch) -> Batches] /\ result \in [1..Len(batch) -> Results]
BY LenProperties, ElementOfSeq DEF BatchTyped, BatchIds

LEMMA ShutIs ==
  ASSUME BatchTyped, NEW ids
  PROVE  /\ Shut(ids) \in Seq(Batches) /\ DOMAIN Shut(ids) = BatchIds
         /\ Len(Shut(ids)) = Len(batch)
         /\ \A b \in BatchIds :
              /\ Shut(ids)[b].part = batch[b].part /\ Shut(ids)[b].recs = batch[b].recs
              /\ Shut(ids)[b].attempts = batch[b].attempts
              /\ Shut(ids)[b].open = (batch[b].open /\ b \notin ids)
<1>1. /\ BatchIds = 1..Len(batch) /\ Len(batch) \in Nat
      /\ \A b \in BatchIds : batch[b] \in Batches
  BY IdsAre
<1>2. \A b \in BatchIds : [batch[b] EXCEPT !.open = FALSE] \in Batches
  BY <1>1 DEF Batches
<1>3. Shut(ids) \in [1..Len(batch) -> Batches] /\ DOMAIN Shut(ids) = BatchIds
  BY <1>1, <1>2 DEF Shut
<1>4. ASSUME NEW b \in BatchIds
      PROVE  /\ Shut(ids)[b].part = batch[b].part /\ Shut(ids)[b].recs = batch[b].recs
             /\ Shut(ids)[b].attempts = batch[b].attempts
             /\ Shut(ids)[b].open = (batch[b].open /\ b \notin ids)
  <2>1. batch[b] \in Batches
    BY <1>1
  <2>2. CASE b \in ids
    BY <2>1, <2>2 DEF Shut, Batches
  <2>3. CASE b \notin ids
    BY <2>1, <2>3 DEF Shut, Batches
  <2> QED BY <2>2, <2>3
<1> QED BY <1>1, <1>3, <1>4, FunSeq

LEMMA RetryIs ==
  ASSUME BatchTyped, NEW ids
  PROVE  /\ Retry(ids) \in Seq(Batches) /\ DOMAIN Retry(ids) = BatchIds
         /\ Len(Retry(ids)) = Len(batch)
         /\ \A b \in BatchIds :
              /\ Retry(ids)[b].part = batch[b].part /\ Retry(ids)[b].recs = batch[b].recs
              /\ Retry(ids)[b].attempts = batch[b].attempts + (IF b \in ids THEN 1 ELSE 0)
              /\ Retry(ids)[b].open = batch[b].open
<1>1. /\ BatchIds = 1..Len(batch) /\ Len(batch) \in Nat
      /\ \A b \in BatchIds : batch[b] \in Batches
  BY IdsAre
<1>2. \A b \in BatchIds : [batch[b] EXCEPT !.attempts = @ + 1] \in Batches
  BY <1>1 DEF Batches
<1>3. Retry(ids) \in [1..Len(batch) -> Batches] /\ DOMAIN Retry(ids) = BatchIds
  BY <1>1, <1>2 DEF Retry
<1>4. ASSUME NEW b \in BatchIds
      PROVE  /\ Retry(ids)[b].part = batch[b].part /\ Retry(ids)[b].recs = batch[b].recs
             /\ Retry(ids)[b].attempts = batch[b].attempts + (IF b \in ids THEN 1 ELSE 0)
             /\ Retry(ids)[b].open = batch[b].open
  <2>1. batch[b] \in Batches
    BY <1>1
  <2>2. CASE b \in ids
    BY <2>1, <2>2 DEF Retry, Batches
  <2>3. CASE b \notin ids
    BY <2>1, <2>3 DEF Retry, Batches
  <2> QED BY <2>2, <2>3
<1> QED BY <1>1, <1>3, <1>4, FunSeq

LEMMA AllFailIs ==
  ASSUME BatchTyped, NEW ids
  PROVE  /\ AllFail(ids) \in Seq(Results) /\ Len(AllFail(ids)) = Len(batch)
         /\ \A b \in BatchIds : AllFail(ids)[b] = IF b \in ids THEN Failed ELSE result[b]
<1>1. /\ BatchIds = 1..Len(batch) /\ Len(batch) \in Nat
      /\ \A b \in BatchIds : result[b] \in Results
  BY IdsAre
<1>2. AllFail(ids) \in [1..Len(batch) -> Results]
  BY <1>1 DEF AllFail, Failed, Results
<1> QED BY <1>1, <1>2, FunSeq DEF AllFail

-----------------------------------------------------------------------------
(* The steps, as the invariant sees them. *)

\* The initial states satisfy the invariant.
LEMMA InitInv == Init => IInv
<1> SUFFICES ASSUME Init PROVE IInv
  OBVIOUS
<1>0. /\ batch = <<>> /\ result = <<>> /\ flight = <<>> /\ late = <<>> /\ incomplete = {}
      /\ \A p \in Partitions : dq[p] = <<>> /\ log[p] = <<>>
      /\ pc = [t \in Threads |-> "idle"]
  BY DEF Init
<1>1. /\ BatchIds = {} /\ DOMAIN batch = {} /\ 1..Len(flight) = {} /\ 1..Len(late) = {}
      /\ Len(batch) = 0 /\ Len(result) = 0 /\ Len(flight) = 0
  <2>1. DOMAIN <<>> = {} /\ Len(<<>>) = 0 /\ 1..0 = {}
    OBVIOUS
  <2> QED BY <1>0, <2>1 DEF BatchIds
<1>2. UserTyped
  <2>1. /\ config \in Configs /\ config.buffers \in Nat
    BY ProducerAssumption DEF Init
  <2>2. MaxSends \in Nat /\ MaxFaults \in Nat
    BY ProducerAssumption
  <2>3. /\ sends \in 0..MaxSends /\ faults \in 0..MaxFaults
        /\ rec \in [Threads -> 0..MaxSends]
    BY <2>2 DEF Init
  <2>4. /\ pc \in [Threads -> {"idle", "begun", "alloc", "wait", "append", "flush", "closing", "join"}]
        /\ part \in [Threads -> Partitions]
        /\ awaited \in [Threads -> SUBSET Nat] /\ \A t \in Threads : awaited[t] \subseteq BatchIds
    BY DEF Init
  <2>5. /\ free \in Nat /\ lost \in Nat /\ waiters \in Seq(Records)
        /\ running \in BOOLEAN /\ closed \in BOOLEAN /\ force \in BOOLEAN
        /\ sender \in {"run", "abort", "clear", "ended"} /\ up \in BOOLEAN
        /\ muted \subseteq Partitions
    BY <2>1, EmptySeq DEF Init
  <2> QED BY <2>1, <2>3, <2>4, <2>5 DEF UserTyped
<1>3. BatchTyped
  <2>1. /\ batch \in Seq(Batches) /\ result \in Seq(Results) /\ Len(result) = Len(batch)
        /\ flight \in Seq(Requests) /\ late \in Seq(Requests)
    BY <1>0, EmptySeq
  <2>2. dq \in [Partitions -> Seq(Nat)] /\ log \in [Partitions -> Seq(Records)]
    BY EmptySeq DEF Init
  <2> QED BY <1>0, <2>1, <2>2 DEF BatchTyped, Init
<1>4. Placed
  BY <1>0, <1>1, EmptyRange
  DEF Placed, QueuesPlaced, FlightsPlaced, LatesPlaced, PendingPlaced, Queued
<1>5. InTurn
  BY <1>1 DEF InTurn
<1>6. Appending = {} /\ Holding = {}
  BY <1>0 DEF Appending, Holding
<1>7. Recorded
  BY <1>1, <1>6 DEF Recorded
<1>8. Logged
  BY <1>0, <1>1, EmptyRange DEF Logged, Gathered, Tried, Counted
<1>9. Buffered
  <2>1. config.buffers \in Nat
    BY ProducerAssumption DEF Init
  <2> QED BY <1>0, <1>6, <2>1, FS_EmptySet DEF Buffered, BuffersAccounted, Init
<1>10. Settled
  BY <1>1 DEF Settled
<1>11. Sorted
  <2>1. QueuesSorted
    BY <1>0, EmptyRange DEF QueuesSorted
  <2> QED BY <1>1, <2>1 DEF Sorted, FlightsSorted, SentFirst, AckedFirst, OffsetsSorted
<1> QED BY <1>2, <1>3, <1>4, <1>5, <1>7, <1>8, <1>9, <1>10, <1>11 DEF IInv

\* Neither batches nor requests nor logs change.
Still ==
  /\ UNCHANGED <<config, batch, result, dq, incomplete, flight, late, log>>
  /\ sender' = "run" => sender = "run"

\* A record joins the last batch of its partition; it opens one.
Joining(t) ==
  /\ pc[t] \in {"begun", "append"} /\ dq[part[t]] # <<>> /\ HasRoom(LastOf(part[t]))
  /\ Joins(t) /\ Leaves(t)
  /\ UNCHANGED <<config, sends, part, awaited, senderVars, netVars>>

Opening(t) ==
  /\ pc[t] = "append" /\ Opens(t) /\ Leaves(t)
  /\ UNCHANGED <<config, sends, part, awaited, poolVars, senderVars, netVars>>

\* The oldest request is answered, or failed with its connection.
Ending(verdicts, retried) ==
  /\ sender = "run" /\ flight # <<>>
  /\ retried \subseteq DOMAIN Head(flight) /\ \A b \in retried : CanRetry(b)
  /\ DOMAIN verdicts = DOMAIN Head(flight) \ retried
  /\ \A b \in DOMAIN verdicts : \/ verdicts[b] = Failed
                                \/ verdicts[b] = Head(flight)[b] /\ verdicts[b].kind = "acked"
  /\ Complete(verdicts, retried)
  /\ flight' = Tail(flight)
  /\ \/ ~Unhandled(Head(flight)) /\ late' = late
     \/ Unhandled(Head(flight)) /\ late' = Append(late, Head(flight))
  /\ UNCHANGED <<config, userVars, senderVars, up, log, faults>>

LEMMA NextCases == [Next]_vars =>
  \/ \E t \in Threads : \/ \E p \in Partitions : SendBegins(t, p)
                        \/ FirstTry(t) \/ Allocate(t) \/ WakeInTurn(t) \/ WakeOutOfTurn(t)
                        \/ WakeForNothing(t) \/ SecondTry(t)
                        \/ FlushBegins(t) \/ FlushReturns(t)
                        \/ \E atOnce \in BOOLEAN : CloseBegins(t, atOnce)
                        \/ ClosesAccumulator(t) \/ JoinTimesOut(t) \/ JoinReturns(t)
  \/ \E S \in SUBSET Partitions : Drain(S)
  \/ \E p \in Partitions : \E n \in 1..Len(dq[p]) : Expire(p, n)
  \/ Respond \/ ConnectionLost \/ FailsOldest \/ Connect
  \/ SenderEnds \/ Abort \/ Clear
  \/ \E i \in DOMAIN flight : BrokerHandles(i)
  \/ BrokerHandlesLate
  \/ UNCHANGED vars
BY Zenon DEF Next, User, Send, Close, SenderStep, Broker

LEMMA EndsCases ==
  /\ Respond => \E verdicts, retried : Ending(verdicts, retried)
  /\ FailsOldest => \E verdicts, retried : Ending(verdicts, retried)
<1>1. ASSUME Respond PROVE \E verdicts, retried : Ending(verdicts, retried)
  <2> DEFINE retried == {b \in DOMAIN Head(flight) : Head(flight)[b] = Again /\ CanRetry(b)}
             verdicts == [b \in DOMAIN Head(flight) \ retried |->
                            IF Head(flight)[b].kind = "acked" THEN Head(flight)[b] ELSE Failed]
  <2>1. /\ Complete(verdicts, retried) /\ flight' = Tail(flight)
        /\ ~Unhandled(Head(flight)) /\ late' = late /\ sender = "run" /\ flight # <<>>
        /\ UNCHANGED <<config, userVars, senderVars, up, log, faults>>
    BY <1>1, Zenon DEF Respond
  <2>2. /\ retried \subseteq DOMAIN Head(flight) /\ \A b \in retried : CanRetry(b)
        /\ DOMAIN verdicts = DOMAIN Head(flight) \ retried
        /\ \A b \in DOMAIN verdicts : \/ verdicts[b] = Failed
                                      \/ verdicts[b] = Head(flight)[b] /\ verdicts[b].kind = "acked"
    OBVIOUS
  <2> HIDE DEF retried, verdicts
  <2>3. Ending(verdicts, retried)
    BY <2>1, <2>2, Zenon DEF Ending
  <2> QED BY <2>3, Zenon
<1>2. ASSUME FailsOldest PROVE \E verdicts, retried : Ending(verdicts, retried)
  <2> DEFINE retried == {b \in DOMAIN Head(flight) : CanRetry(b)}
             verdicts == [b \in DOMAIN Head(flight) \ retried |-> Failed]
  <2>1. /\ Complete(verdicts, retried) /\ flight' = Tail(flight)
        /\ late' = IF Unhandled(Head(flight)) THEN Append(late, Head(flight)) ELSE late
        /\ sender = "run" /\ flight # <<>>
        /\ UNCHANGED <<config, userVars, senderVars, up, log, faults>>
    BY <1>2, Zenon DEF FailsOldest
  <2>2. /\ retried \subseteq DOMAIN Head(flight) /\ \A b \in retried : CanRetry(b)
        /\ DOMAIN verdicts = DOMAIN Head(flight) \ retried
        /\ \A b \in DOMAIN verdicts : verdicts[b] = Failed
    OBVIOUS
  <2> HIDE DEF retried, verdicts
  <2>3. \/ ~Unhandled(Head(flight)) /\ late' = late
        \/ Unhandled(Head(flight)) /\ late' = Append(late, Head(flight))
    BY <2>1
  <2>4. Ending(verdicts, retried)
    BY <2>1, <2>2, <2>3, Zenon DEF Ending
  <2> QED BY <2>4, Zenon
<1> QED BY <1>1, <1>2

LEMMA StepCases == [Next]_vars =>
  \/ Still
  \/ \E t \in Threads : Joining(t) \/ Opening(t)
  \/ \E S \in SUBSET Partitions : Drain(S)
  \/ \E p \in Partitions : \E n \in 1..Len(dq[p]) : Expire(p, n)
  \/ \E verdicts, retried : Ending(verdicts, retried)
  \/ Abort \/ Clear
  \/ \E i \in DOMAIN flight : BrokerHandles(i)
  \/ BrokerHandlesLate
<1> SUFFICES ASSUME [Next]_vars
             PROVE  \/ Still
                    \/ \E t \in Threads : Joining(t) \/ Opening(t)
                    \/ \E S \in SUBSET Partitions : Drain(S)
                    \/ \E p \in Partitions : \E n \in 1..Len(dq[p]) : Expire(p, n)
                    \/ \E verdicts, retried : Ending(verdicts, retried)
                    \/ Abort \/ Clear
                    \/ \E i \in DOMAIN flight : BrokerHandles(i)
                    \/ BrokerHandlesLate
  OBVIOUS
<1> DEFINE Rest == UNCHANGED <<config, batchVars, flight, late, log>> /\ (sender' = "run" => sender = "run")
<1>s. Rest => Still
  BY Zenon DEF Still, batchVars
<1>1. ASSUME NEW t \in Threads, FirstTry(t) PROVE Still \/ Joining(t)
  <2>1. CASE UNCHANGED batchVars
    BY <1>1, <1>s, <2>1, Zenon DEF FirstTry, senderVars, netVars
  <2>2. CASE ~UNCHANGED batchVars
    BY <1>1, <2>2, Zenon DEF FirstTry, Joining
  <2> QED BY <2>1, <2>2
<1>2. ASSUME NEW t \in Threads, SecondTry(t) PROVE Still \/ Joining(t) \/ Opening(t)
  <2>1. CASE UNCHANGED batchVars
    BY <1>2, <1>s, <2>1, Zenon DEF SecondTry, senderVars, netVars
  <2>2. CASE ~UNCHANGED batchVars
    BY <1>2, <2>2, Zenon DEF SecondTry, Joining, Opening, LosesBuffer
  <2> QED BY <2>1, <2>2
<1>3. ASSUME NEW t \in Threads,
             \/ \E p \in Partitions : SendBegins(t, p)
             \/ Allocate(t) \/ WakeInTurn(t) \/ WakeOutOfTurn(t) \/ WakeForNothing(t)
             \/ FlushBegins(t) \/ FlushReturns(t)
             \/ \E atOnce \in BOOLEAN : CloseBegins(t, atOnce)
             \/ ClosesAccumulator(t) \/ JoinTimesOut(t) \/ JoinReturns(t)
      PROVE  Still
  BY <1>3, <1>s, Zenon DEF SendBegins, Allocate, WakeInTurn, WakeOutOfTurn, WakeForNothing,
       FlushBegins, FlushReturns, CloseBegins, ClosesAccumulator, JoinTimesOut, JoinReturns,
       senderVars, netVars
<1>4. ASSUME ConnectionLost \/ Connect \/ SenderEnds \/ UNCHANGED vars PROVE Still
  <2>1. CASE ConnectionLost
    BY <1>s, <2>1, Zenon DEF ConnectionLost, senderVars
  <2>2. CASE Connect
    BY <1>s, <2>2, Zenon DEF Connect, senderVars
  <2>3. CASE SenderEnds
    <3>1. sender' # "run"
      BY <2>3 DEF SenderEnds
    <3> QED BY <1>s, <2>3, <3>1, Zenon DEF SenderEnds
  <2>4. CASE UNCHANGED vars
    BY <1>s, <2>4, Zenon DEF vars, senderVars, netVars
  <2> QED BY <1>4, <2>1, <2>2, <2>3, <2>4
<1> QED BY <1>1, <1>2, <1>3, <1>4, NextCases, EndsCases, Zenon

-----------------------------------------------------------------------------
(* What the steps do. *)

LEMMA StillKeeps == Still /\ BatchTyped /\ Placed /\ InTurn /\ Logged /\ Settled /\ Sorted
  => BatchTyped' /\ Placed' /\ InTurn' /\ Logged' /\ Settled' /\ Sorted'
<1> SUFFICES ASSUME Still, BatchTyped, Placed, InTurn, Logged, Settled, Sorted
             PROVE  BatchTyped' /\ Placed' /\ InTurn' /\ Logged' /\ Settled' /\ Sorted'
  OBVIOUS
<1>0. /\ config' = config /\ batch' = batch /\ result' = result /\ dq' = dq
      /\ incomplete' = incomplete /\ flight' = flight /\ late' = late /\ log' = log
      /\ (sender' = "run" => sender = "run")
  BY Zenon DEF Still
<1>1. BatchTyped'
  BY <1>0 DEF BatchTyped, BatchIds
<1>5. InTurn'
  BY <1>0 DEF InTurn, Flying
<1>2. Placed'
  BY <1>0, Zenon
  DEF Placed, QueuesPlaced, FlightsPlaced, LatesPlaced, PendingPlaced, BatchIds, Queued, Flying,
      Waits, Flies
<1>3. Logged'
  BY <1>0, Zenon DEF Logged, Gathered, Tried, Counted, Copies, Lates, Sending, Waits, BatchIds, Queued, Flying
<1>6. \A b : Taken(b)' = Taken(b)
  BY <1>0 DEF Taken, Flying
<1>7. Settled'
  BY <1>0, <1>6 DEF Settled, BatchIds
<1>8. Sorted'
  <2>1. QueuesSorted' = QueuesSorted /\ FlightsSorted' = FlightsSorted /\ SentFirst' = SentFirst
    BY <1>0 DEF QueuesSorted, FlightsSorted, SentFirst, Flying, Queued
  <2>2. AckedFirst' = AckedFirst
    BY <1>0 DEF AckedFirst, BatchIds, Waits, Flies, Flying, Queued
  <2>3. OffsetsSorted' = OffsetsSorted
    BY <1>0, <1>6 DEF OffsetsSorted, BatchIds
  <2>4. InOrder' = InOrder /\ Ordered' = Ordered /\ flight' = flight
    BY <1>0 DEF InOrder, Ordered
  <2> QED BY <2>1, <2>2, <2>3, <2>4 DEF Sorted
<1> QED BY <1>1, <1>2, <1>3, <1>5, <1>7, <1>8

\* Batches are what they were, but for being closed or sent once more.
Same ==
  /\ BatchIds' = BatchIds
  /\ \A b \in BatchIds : /\ batch'[b].part = batch[b].part /\ batch'[b].recs = batch[b].recs
                         /\ batch'[b].open => batch[b].open

\* The batches gone leave their queues.
Shrinks(gone) ==
  \A p \in Partitions :
    /\ dq'[p] \in Seq(Nat) /\ Once(dq'[p])
    /\ Range(dq'[p]) = Range(dq[p]) \ gone
    /\ Rises(dq[p]) => Rises(dq'[p])

LEMMA TypedIs == BatchTyped /\ Placed =>
  /\ \A p \in Partitions : dq[p] \in Seq(Nat) /\ Once(dq[p])
  /\ Len(flight) \in Nat /\ Len(late) \in Nat /\ DOMAIN flight = 1..Len(flight)
  /\ \A i \in 1..Len(flight) : flight[i] \in Requests
  /\ \A i \in 1..Len(late) : late[i] \in Requests
<1> SUFFICES ASSUME BatchTyped, Placed
             PROVE  /\ \A p \in Partitions : dq[p] \in Seq(Nat) /\ Once(dq[p])
                    /\ Len(flight) \in Nat /\ Len(late) \in Nat /\ DOMAIN flight = 1..Len(flight)
                    /\ \A i \in 1..Len(flight) : flight[i] \in Requests
                    /\ \A i \in 1..Len(late) : late[i] \in Requests
  OBVIOUS
<1>1. flight \in Seq(Requests) /\ late \in Seq(Requests)
  BY DEF BatchTyped
<1>2. \A p \in Partitions : dq[p] \in Seq(Nat) /\ Once(dq[p])
  BY DEF BatchTyped, Placed, QueuesPlaced
<1> QED BY <1>1, <1>2, LenProperties, ElementOfSeq

\* The first batches of the partitions of S; the first n of p.
Heads(S) == {Head(dq[p]) : p \in S}
Firsts(p, n) == {dq[p][i] : i \in 1..n}

\* A drained request.
LEMMA DrainDoes ==
  ASSUME BatchTyped, Placed, NEW S \in SUBSET Partitions, Drain(S),
         NEW heads, heads = Heads(S)
  PROVE  /\ BatchTyped' /\ Same /\ Shrinks(heads)
         /\ heads # {} /\ heads \subseteq BatchIds
         /\ \A h \in heads : /\ batch[h].part \in Partitions /\ h \in Queued(batch[h].part)
                             /\ ~batch'[h].open
                             /\ Rises(dq[batch[h].part]) =>
                                  \A x \in Queued(batch[h].part) \ heads : h < x
         /\ \A h, k \in heads : batch[h].part = batch[k].part => h = k
         /\ \A b \in BatchIds : batch'[b].attempts = batch[b].attempts
         /\ Len(flight') = Len(flight) + 1 /\ Len(flight) < config.inFlight
         /\ \A i \in 1..Len(flight) : flight'[i] = flight[i]
         /\ flight'[Len(flight) + 1] = [b \in heads |-> Sent]
         /\ UNCHANGED <<config, result, incomplete, sender, late, log>>
<1>d. heads = {Head(dq[p]) : p \in S}
  BY DEF Heads
<1>0. /\ flight' = Append(flight, [b \in heads |-> Sent]) /\ batch' = Shut(heads)
      /\ dq' = [p \in Partitions |-> IF p \in S THEN Tail(dq[p]) ELSE dq[p]]
      /\ S # {} /\ S \subseteq Ready
      /\ Len(flight) < config.inFlight
      /\ UNCHANGED <<config, result, incomplete, sender, late, log>>
  BY <1>d, Zenon DEF Drain, senderVars
<1>1. \A p \in S : p \in Partitions /\ dq[p] \in Seq(Nat) /\ dq[p] # <<>> /\ Once(dq[p])
  BY <1>0, TypedIs DEF Ready
<1>2. \A p \in S : /\ Tail(dq[p]) \in Seq(Nat) /\ Head(dq[p]) \in Range(dq[p])
                   /\ Once(Tail(dq[p])) /\ Range(Tail(dq[p])) = Range(dq[p]) \ {Head(dq[p])}
                   /\ Rises(dq[p]) => Rises(Tail(dq[p]))
                   /\ Rises(dq[p]) => \A x \in Range(Tail(dq[p])) : Head(dq[p]) < x
  <2> SUFFICES ASSUME NEW p \in S
               PROVE  /\ Tail(dq[p]) \in Seq(Nat) /\ Head(dq[p]) \in Range(dq[p])
                      /\ Once(Tail(dq[p])) /\ Range(Tail(dq[p])) = Range(dq[p]) \ {Head(dq[p])}
                      /\ Rises(dq[p]) => Rises(Tail(dq[p]))
                      /\ Rises(dq[p]) => \A x \in Range(Tail(dq[p])) : Head(dq[p]) < x
    OBVIOUS
  <2>1. dq[p] \in Seq(Nat) /\ dq[p] # <<>> /\ Once(dq[p])
    BY <1>1
  <2> QED BY <2>1, QueueTails
<1>3. \A p \in Partitions : \A b \in Range(dq[p]) : b \in BatchIds /\ batch[b].part = p
  BY DEF Placed, QueuesPlaced, Queued
<1>4. \A h \in heads : \E p \in S : h = Head(dq[p]) /\ h \in Range(dq[p]) /\ batch[h].part = p
  BY <1>d, <1>1, <1>2, <1>3
<1>5. heads # {} /\ heads \subseteq BatchIds
  <2>1. PICK p \in S : p \in Partitions
    BY <1>0
  <2>2. Head(dq[p]) \in heads
    BY <1>d, <2>1
  <2>3. \A h \in heads : h \in BatchIds
    BY <1>1, <1>3, <1>4
  <2> QED BY <2>2, <2>3
<1>6. \A h, k \in heads : batch[h].part = batch[k].part => h = k
  BY <1>4
<1>7. \A p \in S : Range(dq[p]) \ heads = Range(dq[p]) \ {Head(dq[p])}
  <2> SUFFICES ASSUME NEW p \in S PROVE Range(dq[p]) \ heads = Range(dq[p]) \ {Head(dq[p])}
    OBVIOUS
  <2>1. Head(dq[p]) \in heads /\ p \in Partitions
    BY <1>d, <1>1
  <2>2. \A h \in heads : h \in Range(dq[p]) => h = Head(dq[p])
    <3> SUFFICES ASSUME NEW h \in heads, h \in Range(dq[p]) PROVE h = Head(dq[p])
      OBVIOUS
    <3>1. batch[h].part = p
      BY <1>3, <2>1
    <3> QED BY <1>4, <3>1
  <2> QED BY <2>1, <2>2
<1>8. \A p \in Partitions \ S : Range(dq[p]) \ heads = Range(dq[p])
  BY <1>1, <1>3, <1>4
<1>9. Shrinks(heads)
  <2> SUFFICES ASSUME NEW p \in Partitions
               PROVE  /\ dq'[p] \in Seq(Nat) /\ Once(dq'[p])
                      /\ Range(dq'[p]) = Range(dq[p]) \ heads
                      /\ Rises(dq[p]) => Rises(dq'[p])
    BY DEF Shrinks
  <2>1. CASE p \in S
    BY <1>0, <1>2, <1>7, <2>1
  <2>2. CASE p \notin S
    BY <1>0, <1>8, <2>2, TypedIs
  <2> QED BY <2>1, <2>2
<1>10. /\ Shut(heads) \in Seq(Batches) /\ DOMAIN Shut(heads) = BatchIds
       /\ Len(Shut(heads)) = Len(batch)
       /\ \A b \in BatchIds :
            /\ Shut(heads)[b].part = batch[b].part /\ Shut(heads)[b].recs = batch[b].recs
            /\ Shut(heads)[b].attempts = batch[b].attempts
            /\ Shut(heads)[b].open = (batch[b].open /\ b \notin heads)
  BY ShutIs
<1>11. BatchIds' = BatchIds
  BY <1>0, <1>10 DEF BatchIds
<1>12. Same
  BY <1>0, <1>10, <1>11 DEF Same
<1>13. [b \in heads |-> Sent] \in Requests
  <2>1. heads \subseteq Nat
    BY <1>5, IdsAre
  <2>2. [b \in heads |-> Sent] \in [heads -> Verdicts]
    BY DEF Sent, Verdicts
  <2> QED BY <2>1, <2>2, IsRequest
<1>14. flight \in Seq(Requests)
  BY DEF BatchTyped
<1>15. /\ flight' \in Seq(Requests) /\ Len(flight') = Len(flight) + 1
       /\ \A i \in 1..Len(flight) : flight'[i] = flight[i]
       /\ flight'[Len(flight) + 1] = [b \in heads |-> Sent]
  BY <1>0, <1>13, <1>14, AppendProperties
<1>16. BatchTyped'
  <2>1. dq' \in [Partitions -> Seq(Nat)]
    BY <1>0, <1>9 DEF Shrinks
  <2>2. batch' \in Seq(Batches) /\ result' \in Seq(Results) /\ Len(result') = Len(batch')
    BY <1>0, <1>10 DEF BatchTyped
  <2>3. incomplete' \subseteq BatchIds'
    BY <1>0, <1>11 DEF BatchTyped
  <2>4. late' \in Seq(Requests) /\ log' \in [Partitions -> Seq(Records)]
    BY <1>0 DEF BatchTyped
  <2> QED BY <1>15, <2>1, <2>2, <2>3, <2>4 DEF BatchTyped
<1>17. \A h \in heads : /\ batch[h].part \in Partitions /\ h \in Queued(batch[h].part)
                        /\ ~batch'[h].open
                        /\ Rises(dq[batch[h].part]) =>
                             \A x \in Queued(batch[h].part) \ heads : h < x
  <2> SUFFICES ASSUME NEW h \in heads
               PROVE  /\ batch[h].part \in Partitions /\ h \in Queued(batch[h].part)
                      /\ ~batch'[h].open
                      /\ Rises(dq[batch[h].part]) =>
                           \A x \in Queued(batch[h].part) \ heads : h < x
    OBVIOUS
  <2>1. PICK p \in S : h = Head(dq[p]) /\ h \in Range(dq[p]) /\ batch[h].part = p
    BY <1>4
  <2>2. ~batch'[h].open
    BY <1>0, <1>5, <1>10
  <2>3. Rises(dq[p]) => \A x \in Range(dq[p]) \ heads : h < x
    BY <1>2, <1>7, <2>1
  <2> QED BY <1>1, <2>1, <2>2, <2>3 DEF Queued
<1> QED BY <1>0, <1>5, <1>6, <1>9, <1>10, <1>12, <1>15, <1>16, <1>17

\* Batches that have waited too long.
LEMMA ExpireDoes ==
  ASSUME BatchTyped, Placed, NEW p \in Partitions, NEW n \in 1..Len(dq[p]), Expire(p, n),
         NEW gone, gone = Firsts(p, n)
  PROVE  /\ BatchTyped' /\ Same /\ Shrinks(gone)
         /\ gone \subseteq BatchIds /\ gone \subseteq Queued(p)
         /\ \A b \in BatchIds : batch'[b].attempts = batch[b].attempts
         /\ \A b \in BatchIds : result'[b] = IF b \in gone THEN Failed ELSE result[b]
         /\ incomplete' = incomplete \ gone
         /\ UNCHANGED <<config, flight, sender, late, log>>
<1>d. gone = {dq[p][i] : i \in 1..n}
  BY DEF Firsts
<1>0. /\ result' = AllFail(gone) /\ incomplete' = incomplete \ gone /\ batch' = Shut(gone)
      /\ dq' = [dq EXCEPT ![p] = SubSeq(@, n + 1, Len(@))]
      /\ UNCHANGED <<config, flight, sender, late, log>>
  BY <1>d, Zenon DEF Expire, senderVars
<1>1. dq[p] \in Seq(Nat) /\ Once(dq[p]) /\ Len(dq[p]) \in Nat
  BY TypedIs, LenProperties
<1>2. /\ SubSeq(dq[p], n + 1, Len(dq[p])) \in Seq(Nat)
      /\ Once(SubSeq(dq[p], n + 1, Len(dq[p])))
      /\ Range(SubSeq(dq[p], n + 1, Len(dq[p]))) = Range(dq[p]) \ gone
      /\ gone \subseteq Range(dq[p])
      /\ Rises(dq[p]) => Rises(SubSeq(dq[p], n + 1, Len(dq[p])))
  BY <1>d, <1>1, QueueDrops
<1>3. \A q \in Partitions : \A b \in Range(dq[q]) : b \in BatchIds /\ batch[b].part = q
  BY DEF Placed, QueuesPlaced, Queued
<1>4. gone \subseteq BatchIds /\ \A b \in gone : batch[b].part = p
  BY <1>2, <1>3
<1>5. dq \in [Partitions -> Seq(Nat)]
  BY DEF BatchTyped
<1>6. Shrinks(gone)
  <2> SUFFICES ASSUME NEW q \in Partitions
               PROVE  /\ dq'[q] \in Seq(Nat) /\ Once(dq'[q])
                      /\ Range(dq'[q]) = Range(dq[q]) \ gone
                      /\ Rises(dq[q]) => Rises(dq'[q])
    BY DEF Shrinks
  <2>1. CASE q = p
    BY <1>0, <1>2, <1>5, <2>1
  <2>2. CASE q # p
    <3>1. dq'[q] = dq[q] /\ dq[q] \in Seq(Nat) /\ Once(dq[q])
      BY <1>0, <1>5, <2>2, TypedIs
    <3>2. Range(dq[q]) \ gone = Range(dq[q])
      BY <1>3, <1>4, <2>2
    <3> QED BY <3>1, <3>2
  <2> QED BY <2>1, <2>2
<1>7. /\ Shut(gone) \in Seq(Batches) /\ DOMAIN Shut(gone) = BatchIds
      /\ Len(Shut(gone)) = Len(batch)
      /\ \A b \in BatchIds :
           /\ Shut(gone)[b].part = batch[b].part /\ Shut(gone)[b].recs = batch[b].recs
           /\ Shut(gone)[b].attempts = batch[b].attempts
           /\ Shut(gone)[b].open = (batch[b].open /\ b \notin gone)
  BY ShutIs
<1>8. /\ AllFail(gone) \in Seq(Results) /\ Len(AllFail(gone)) = Len(batch)
      /\ \A b \in BatchIds : AllFail(gone)[b] = IF b \in gone THEN Failed ELSE result[b]
  BY AllFailIs
<1>9. BatchIds' = BatchIds
  BY <1>0, <1>7 DEF BatchIds
<1>10. Same
  BY <1>0, <1>7, <1>9 DEF Same
<1>11. BatchTyped'
  <2>1. dq' \in [Partitions -> Seq(Nat)]
    BY <1>0, <1>2, <1>5
  <2>2. batch' \in Seq(Batches) /\ result' \in Seq(Results) /\ Len(result') = Len(batch')
    BY <1>0, <1>7, <1>8
  <2>3. incomplete' \subseteq BatchIds'
    BY <1>0, <1>9 DEF BatchTyped
  <2>4. flight' \in Seq(Requests) /\ late' \in Seq(Requests) /\ log' \in [Partitions -> Seq(Records)]
    BY <1>0 DEF BatchTyped
  <2> QED BY <2>1, <2>2, <2>3, <2>4 DEF BatchTyped
<1> QED BY <1>0, <1>2, <1>4, <1>6, <1>7, <1>8, <1>10, <1>11 DEF Queued

\* Of these batches, those of partition p.
Of(ids, p) == {b \in ids : batch[b].part = p}

\* The batches retried go in front of their queues.
Refills(retried) ==
  \A p \in Partitions :
    /\ dq'[p] \in Seq(Nat) /\ Once(dq'[p])
    /\ Range(dq'[p]) = Range(dq[p]) \union Of(retried, p)
    /\ Rises(dq[p]) /\ (\A b \in Of(retried, p) : \A x \in Range(dq[p]) : b < x)
         => Rises(dq'[p])

\* The end of the oldest request.
LEMMA EndingDoes ==
  ASSUME BatchTyped, Placed, NEW verdicts, NEW retried, Ending(verdicts, retried)
  PROVE  /\ BatchTyped' /\ Same
         /\ 1 \in 1..Len(flight) /\ Head(flight) = flight[1] /\ flight[1] \in Requests
         /\ retried \subseteq Flying(1) /\ DOMAIN verdicts = Flying(1) \ retried
         /\ Flying(1) \subseteq BatchIds
         /\ \A b \in retried : batch[b].attempts < config.retries
         /\ \A b \in BatchIds :
              /\ batch'[b].attempts = batch[b].attempts + (IF b \in retried THEN 1 ELSE 0)
              /\ batch'[b].open = batch[b].open
         /\ \A b \in BatchIds :
              result'[b] = IF b \in DOMAIN verdicts THEN verdicts[b] ELSE result[b]
         /\ incomplete' = incomplete \ DOMAIN verdicts
         /\ Len(flight') = Len(flight) - 1
         /\ \A i \in 1..Len(flight') : flight'[i] = flight[i + 1] /\ i + 1 \in 1..Len(flight)
         /\ Refills(retried)
         /\ \A b \in DOMAIN verdicts : \/ verdicts[b] = Failed
                                       \/ verdicts[b] = flight[1][b] /\ verdicts[b].kind = "acked"
         /\ \/ ~Unhandled(flight[1]) /\ late' = late
            \/ Unhandled(flight[1]) /\ late' = Append(late, flight[1])
         /\ sender = "run" /\ UNCHANGED <<config, sender, log>>
<1>0. /\ flight # <<>> /\ flight' = Tail(flight)
      /\ retried \subseteq DOMAIN Head(flight) /\ \A b \in retried : CanRetry(b)
      /\ DOMAIN verdicts = DOMAIN Head(flight) \ retried
      /\ \A b \in DOMAIN verdicts : \/ verdicts[b] = Failed
                                    \/ verdicts[b] = Head(flight)[b] /\ verdicts[b].kind = "acked"
      /\ result' = [b \in BatchIds |-> IF b \in DOMAIN verdicts THEN verdicts[b] ELSE result[b]]
      /\ incomplete' = incomplete \ DOMAIN verdicts
      /\ batch' = Retry(retried) /\ dq' = PutBack(retried)
      /\ \/ ~Unhandled(Head(flight)) /\ late' = late
         \/ Unhandled(Head(flight)) /\ late' = Append(late, Head(flight))
      /\ sender = "run" /\ UNCHANGED <<config, sender, log>>
  BY Zenon DEF Ending, Complete, senderVars
<1>1. /\ flight \in Seq(Requests) /\ late \in Seq(Requests)
      /\ dq \in [Partitions -> Seq(Nat)] /\ log \in [Partitions -> Seq(Records)]
      /\ incomplete \subseteq BatchIds
  BY DEF BatchTyped
<1>2. /\ 1 \in 1..Len(flight) /\ Head(flight) = flight[1] /\ flight[1] \in Requests
      /\ Tail(flight) \in Seq(Requests) /\ Len(Tail(flight)) = Len(flight) - 1
      /\ Len(flight) \in Nat
      /\ \A i \in 1..Len(Tail(flight)) : Tail(flight)[i] = flight[i + 1]
  <2>1. Len(flight) \in Nat \ {0}
    BY <1>0, <1>1, EmptySeq
  <2>2. 1 \in 1..Len(flight) /\ Head(flight) = flight[1]
    BY <2>1
  <2> QED BY <1>0, <1>1, <2>1, <2>2, HeadTailProperties
<1>3. \A i \in 1..Len(flight') : flight'[i] = flight[i + 1] /\ i + 1 \in 1..Len(flight)
  BY <1>0, <1>2
<1>4. /\ \A b \in DOMAIN flight[1] : b \in BatchIds
      /\ \A b, c \in DOMAIN flight[1] : batch[b].part = batch[c].part => b = c
      /\ \A p \in Partitions : Range(dq[p]) \cap DOMAIN flight[1] = {}
  BY <1>2 DEF Placed, FlightsPlaced, QueuesPlaced, Flying, Queued
<1>5. /\ Retry(retried) \in Seq(Batches) /\ DOMAIN Retry(retried) = BatchIds
      /\ Len(Retry(retried)) = Len(batch)
      /\ \A b \in BatchIds :
           /\ Retry(retried)[b].part = batch[b].part /\ Retry(retried)[b].recs = batch[b].recs
           /\ Retry(retried)[b].attempts = batch[b].attempts + (IF b \in retried THEN 1 ELSE 0)
           /\ Retry(retried)[b].open = batch[b].open
  BY RetryIs
<1>6. BatchIds' = BatchIds
  BY <1>0, <1>5 DEF BatchIds
<1>7. Same
  BY <1>0, <1>5, <1>6 DEF Same
<1>8. /\ BatchIds = 1..Len(batch) /\ Len(batch) \in Nat
      /\ \A b \in BatchIds : result[b] \in Results
  BY IdsAre
<1>9. result' \in Seq(Results) /\ Len(result') = Len(batch)
  <2>1. \A b \in DOMAIN verdicts : verdicts[b] \in Results
    <3> SUFFICES ASSUME NEW b \in DOMAIN verdicts PROVE verdicts[b] \in Results
      OBVIOUS
    <3>1. Failed \in Results
      BY DEF Failed, Results
    <3>2. ASSUME verdicts[b] = Head(flight)[b], verdicts[b].kind = "acked" PROVE verdicts[b] \in Results
      <4>1. b \in DOMAIN flight[1]
        BY <1>0, <1>2
      <4>2. verdicts[b] \in Verdicts
        BY <1>2, <3>2, <4>1, RequestIs
      <4> QED BY <3>2, <4>2 DEF Verdicts, Results
    <3> QED BY <1>0, <3>1, <3>2
  <2>2. result' \in [1..Len(batch) -> Results]
    BY <1>0, <1>8, <2>1
  <2> QED BY <1>8, <2>2, FunSeq
<1>r. ASSUME NEW p \in Partitions
       PROVE  /\ dq'[p] \in Seq(Nat) /\ Once(dq'[p])
              /\ Range(dq'[p]) = Range(dq[p]) \union Of(retried, p)
              /\ Rises(dq[p]) /\ (\A b \in Of(retried, p) : \A x \in Range(dq[p]) : b < x)
                   => Rises(dq'[p])
  <2>0. dq[p] \in Seq(Nat) /\ Once(dq[p])
    BY TypedIs
  <2>1. CASE Has(retried, p)
    <3>1. TheOne(retried, p) \in retried /\ batch[TheOne(retried, p)].part = p
      BY <2>1 DEF Has, TheOne
    <3> DEFINE x == TheOne(retried, p)
    <3>2. dq'[p] = <<x>> \o dq[p]
      BY <1>0, <2>1 DEF PutBack
    <3> HIDE DEF x
    <3>3. x \in DOMAIN flight[1] /\ x \in Nat
      BY <1>0, <1>2, <1>4, <1>8, <3>1 DEF x
    <3>4. x \notin Range(dq[p]) /\ Of(retried, p) = {x}
      BY <1>0, <1>2, <1>4, <3>1, <3>3 DEF x, Of
    <3>5. /\ <<x>> \o dq[p] \in Seq(Nat) /\ Range(<<x>> \o dq[p]) = Range(dq[p]) \union {x}
          /\ Once(<<x>> \o dq[p])
          /\ Rises(dq[p]) /\ (\A y \in Range(dq[p]) : x < y) => Rises(<<x>> \o dq[p])
      BY <2>0, <3>3, <3>4, QueueFronts
    <3> QED BY <3>1, <3>2, <3>4, <3>5 DEF x
  <2>2. CASE ~Has(retried, p)
    <3>1. dq'[p] = dq[p]
      BY <1>0, <2>2 DEF PutBack
    <3>2. Of(retried, p) = {}
      BY <2>2 DEF Has, Of
    <3> QED BY <2>0, <3>1, <3>2
  <2> QED BY <2>1, <2>2
<1>10. Refills(retried)
  BY <1>r DEF Refills
<1>11. BatchTyped'
  <2>1. dq' \in [Partitions -> Seq(Nat)]
    <3>1. dq' = [p \in Partitions |-> dq'[p]]
      BY <1>0 DEF PutBack
    <3> QED BY <1>r, <3>1
  <2>2. batch' \in Seq(Batches) /\ result' \in Seq(Results) /\ Len(result') = Len(batch')
    BY <1>0, <1>5, <1>9
  <2>3. incomplete' \subseteq BatchIds'
    BY <1>0, <1>1, <1>6
  <2>4. flight' \in Seq(Requests) /\ log' \in [Partitions -> Seq(Records)]
    BY <1>0, <1>1, <1>2
  <2>5. late' \in Seq(Requests)
    <3>1. Append(late, Head(flight)) \in Seq(Requests)
      BY <1>1, <1>2, AppendProperties
    <3> QED BY <1>0, <1>1, <3>1
  <2> QED BY <2>1, <2>2, <2>3, <2>4, <2>5 DEF BatchTyped
<1>12. \A b \in retried : batch[b].attempts < config.retries
  BY <1>0 DEF CanRetry
<1>13. \A b \in BatchIds : result'[b] = IF b \in DOMAIN verdicts THEN verdicts[b] ELSE result[b]
  BY <1>0
<1>14. retried \subseteq Flying(1) /\ DOMAIN verdicts = Flying(1) \ retried /\ Flying(1) \subseteq BatchIds
  BY <1>0, <1>2, <1>4 DEF Flying
<1>15. \A b \in BatchIds :
         /\ batch'[b].attempts = batch[b].attempts + (IF b \in retried THEN 1 ELSE 0)
         /\ batch'[b].open = batch[b].open
  BY <1>0, <1>5
<1>16. /\ incomplete' = incomplete \ DOMAIN verdicts /\ Len(flight') = Len(flight) - 1
       /\ UNCHANGED <<config, sender, log>>
  BY <1>0, <1>2
<1>17. /\ \A b \in DOMAIN verdicts : \/ verdicts[b] = Failed
                                     \/ verdicts[b] = flight[1][b] /\ verdicts[b].kind = "acked"
       /\ \/ ~Unhandled(flight[1]) /\ late' = late
          \/ Unhandled(flight[1]) /\ late' = Append(late, flight[1])
       /\ sender = "run"
  <2>1. Head(flight) = flight[1]
    BY <1>2
  <2>2. \A b \in DOMAIN verdicts : \/ verdicts[b] = Failed
                                   \/ verdicts[b] = flight[1][b] /\ verdicts[b].kind = "acked"
    BY <1>0, <2>1
  <2>3. Unhandled(flight[1]) = Unhandled(Head(flight))
    BY <2>1
  <2>4. \/ ~Unhandled(flight[1]) /\ late' = late
        \/ Unhandled(flight[1]) /\ late' = Append(late, flight[1])
    <3>1. ASSUME Unhandled(Head(flight)) PROVE late' = Append(late, flight[1])
      BY <1>0, <2>1, <3>1
    <3>2. ASSUME ~Unhandled(Head(flight)) PROVE late' = late
      BY <1>0, <3>2
    <3> QED BY <2>3, <3>1, <3>2, Zenon
  <2>5. sender = "run"
    BY <1>0
  <2> QED BY <2>2, <2>4, <2>5, Zenon
<1> QED BY <1>17, <1>2, <1>3, <1>7, <1>10, <1>11, <1>12, <1>13, <1>14, <1>15, <1>16

\* Every batch not completed fails.
LEMMA FailIncompleteDoes ==
  ASSUME BatchTyped, Placed, FailIncomplete
  PROVE  /\ batch' \in Seq(Batches) /\ result' \in Seq(Results) /\ Len(result') = Len(batch')
         /\ Same
         /\ \A b \in BatchIds : batch'[b].attempts = batch[b].attempts
         /\ \A b \in BatchIds : result'[b] = IF b \in incomplete THEN Failed ELSE result[b]
         /\ incomplete' = {} /\ incomplete \subseteq BatchIds
<1>0. result' = AllFail(incomplete) /\ incomplete' = {} /\ batch' = Shut(incomplete)
  BY DEF FailIncomplete
<1>1. /\ Shut(incomplete) \in Seq(Batches) /\ DOMAIN Shut(incomplete) = BatchIds
      /\ Len(Shut(incomplete)) = Len(batch)
      /\ \A b \in BatchIds :
           /\ Shut(incomplete)[b].part = batch[b].part /\ Shut(incomplete)[b].recs = batch[b].recs
           /\ Shut(incomplete)[b].attempts = batch[b].attempts
           /\ Shut(incomplete)[b].open = (batch[b].open /\ b \notin incomplete)
  BY ShutIs
<1>2. /\ AllFail(incomplete) \in Seq(Results) /\ Len(AllFail(incomplete)) = Len(batch)
      /\ \A b \in BatchIds : AllFail(incomplete)[b] = IF b \in incomplete THEN Failed ELSE result[b]
  BY AllFailIs
<1>3. BatchIds' = BatchIds
  BY <1>0, <1>1 DEF BatchIds
<1>4. Same
  BY <1>0, <1>1, <1>3 DEF Same
<1>5. incomplete \subseteq BatchIds
  BY DEF BatchTyped
<1> QED BY <1>0, <1>1, <1>2, <1>4, <1>5

\* The sender aborts.
LEMMA AbortDoes ==
  ASSUME BatchTyped, Placed, Abort
  PROVE  /\ BatchTyped' /\ FailIncomplete
         /\ sender' # "run"
         /\ UNCHANGED <<config, dq, flight, late, log>>
<1>0. /\ FailIncomplete /\ sender' # "run" /\ UNCHANGED <<config, dq, flight, late, log>>
  BY Zenon DEF Abort, netVars
<1>1. /\ batch' \in Seq(Batches) /\ result' \in Seq(Results) /\ Len(result') = Len(batch')
      /\ incomplete' = {}
  BY <1>0, FailIncompleteDoes
<1>2. dq' = dq /\ flight' = flight /\ late' = late /\ log' = log
  BY <1>0
<1> QED BY <1>0, <1>1, <1>2 DEF BatchTyped, BatchIds

\* The requests that are left when the sender ends may come late.
LEMMA ClearDoes ==
  ASSUME BatchTyped, Placed, Clear
  PROVE  /\ BatchTyped' /\ FailIncomplete
         /\ sender' # "run" /\ flight' = <<>> /\ \A p \in Partitions : dq'[p] = <<>>
         /\ UNCHANGED <<config, log>>
         /\ \E rest \in Seq(Requests) :
              /\ late' = late \o rest
              /\ \A j \in 1..Len(rest) : \E i \in 1..Len(flight) :
                   rest[j] = flight[i] /\ Unhandled(flight[i])
              /\ \A b : \A j, k \in 1..Len(rest) :
                   b \in DOMAIN rest[j] /\ b \in DOMAIN rest[k] => j = k
<1>0. /\ FailIncomplete /\ sender' # "run" /\ flight' = <<>>
      /\ dq' = [p \in Partitions |-> <<>>]
      /\ UNCHANGED <<config, log>>
  BY Zenon DEF Clear
<1>1. /\ batch' \in Seq(Batches) /\ result' \in Seq(Results) /\ Len(result') = Len(batch')
      /\ incomplete' = {}
  BY <1>0, FailIncompleteDoes
<1>2. PICK n \in 0..Len(flight) :
        /\ \A i \in DOMAIN flight : Unhandled(flight[i]) <=> i > n
        /\ late' = late \o SubSeq(flight, n + 1, Len(flight))
  BY DEF Clear
<1>3. /\ Len(flight) \in Nat /\ DOMAIN flight = 1..Len(flight)
      /\ flight \in Seq(Requests) /\ late \in Seq(Requests)
  BY TypedIs DEF BatchTyped
<1> DEFINE rest == SubSeq(flight, n + 1, Len(flight))
<1>4. /\ rest \in Seq(Requests) /\ Len(rest) = Len(flight) - n
      /\ \A i \in 1..(Len(flight) - n) : rest[i] = flight[n + i]
  <2>1. /\ n + 1 \in Int /\ Len(flight) \in Int /\ n \in Nat /\ n <= Len(flight)
        /\ \A i \in (n + 1)..Len(flight) : flight[i] \in Requests
    <3>1. \A i \in (n + 1)..Len(flight) : i \in 1..Len(flight)
      BY <1>3
    <3> QED BY <1>3, <3>1, TypedIs
  <2>2. /\ rest \in Seq(Requests)
        /\ Len(rest) = IF n + 1 <= Len(flight) THEN Len(flight) - (n + 1) + 1 ELSE 0
        /\ \A i \in 1..(Len(flight) - (n + 1) + 1) : rest[i] = flight[(n + 1) + i - 1]
    BY <2>1, SubSeqProperties
  <2> HIDE DEF rest
  <2>3. Len(rest) = Len(flight) - n
    <3>1. CASE n = Len(flight)
      BY <2>1, <2>2, <3>1
    <3>2. CASE n # Len(flight)
      BY <2>1, <2>2, <3>2
    <3> QED BY <3>1, <3>2
  <2>4. ASSUME NEW i \in 1..(Len(flight) - n) PROVE rest[i] = flight[n + i]
    <3>1. i \in 1..(Len(flight) - (n + 1) + 1) /\ (n + 1) + i - 1 = n + i
      BY <1>3, <2>1
    <3>2. rest[i] = flight[(n + 1) + i - 1]
      BY <2>2, <3>1
    <3> QED BY <3>1, <3>2
  <2> QED BY <2>2, <2>3, <2>4
<1>5. late' = late \o rest
  BY <1>2
<1> HIDE DEF rest
<1>6. \A j \in 1..Len(rest) : /\ n + j \in 1..Len(flight) /\ rest[j] = flight[n + j]
                              /\ Unhandled(flight[n + j])
  BY <1>2, <1>3, <1>4
<1>7. BatchTyped'
  <2>1. late' \in Seq(Requests) /\ flight' \in Seq(Requests)
    BY <1>0, <1>3, <1>4, <1>5, ConcatProperties, EmptySeq
  <2>2. dq' \in [Partitions -> Seq(Nat)]
    BY <1>0, EmptySeq
  <2>3. log' \in [Partitions -> Seq(Records)]
    BY <1>0 DEF BatchTyped
  <2> QED BY <1>1, <2>1, <2>2, <2>3 DEF BatchTyped
<1>8. ASSUME NEW b, NEW j \in 1..Len(rest), NEW k \in 1..Len(rest),
             b \in DOMAIN rest[j], b \in DOMAIN rest[k]
      PROVE  j = k
  <2>1. /\ n + j \in 1..Len(flight) /\ b \in Flying(n + j)
        /\ n + k \in 1..Len(flight) /\ b \in Flying(n + k)
    BY <1>6, <1>8 DEF Flying
  <2>2. n + j = n + k
    BY <2>1 DEF Placed, FlightsPlaced
  <2> QED BY <1>3, <1>4, <2>2
<1> QED BY <1>0, <1>4, <1>5, <1>6, <1>7, <1>8

\* The logs grow, a partition by the records of one of these batches at most.
Grows(taken) ==
  \A p \in Partitions :
    \/ ~Has(taken, p) /\ log'[p] = log[p]
    \/ \E b \in taken : batch[b].part = p /\ log'[p] = log[p] \o batch[b].recs

LEMMA StoredIs ==
  ASSUME BatchTyped, NEW taken, taken \subseteq BatchIds, log' = Stored(taken)
  PROVE  log' \in [Partitions -> Seq(Records)] /\ Grows(taken)
<1>1. ASSUME NEW p \in Partitions
      PROVE  /\ log'[p] \in Seq(Records)
             /\ \/ ~Has(taken, p) /\ log'[p] = log[p]
                \/ \E b \in taken : batch[b].part = p /\ log'[p] = log[p] \o batch[b].recs
  <2>0. log[p] \in Seq(Records)
    BY DEF BatchTyped
  <2>1. CASE Has(taken, p)
    <3>1. TheOne(taken, p) \in taken /\ batch[TheOne(taken, p)].part = p
      BY <2>1 DEF Has, TheOne
    <3>2. batch[TheOne(taken, p)].recs \in Seq(Records)
      BY <3>1, IdsAre DEF Batches
    <3>3. log[p] \o batch[TheOne(taken, p)].recs \in Seq(Records)
      BY <2>0, <3>2, ConcatProperties
    <3>4. log'[p] = log[p] \o batch[TheOne(taken, p)].recs
      BY <2>1 DEF Stored
    <3> QED BY <2>1, <3>1, <3>3, <3>4
  <2>2. CASE ~Has(taken, p)
    BY <2>0, <2>2 DEF Stored
  <2> QED BY <2>1, <2>2
<1>2. log' = [p \in Partitions |-> log'[p]]
  BY DEF Stored
<1> QED BY <1>1, <1>2 DEF Grows

\* The broker answers request i: the batches taken, and the others with an error.
Answers(i, taken, error) ==
  /\ Len(flight') = Len(flight)
  /\ \A j \in 1..Len(flight) : j # i => flight'[j] = flight[j]
  /\ DOMAIN flight'[i] = Flying(i)
  /\ \A b \in Flying(i) :
       flight'[i][b] = IF b \in taken THEN Acked(Len(log[batch[b].part])) ELSE error

LEMMA HandlesDoes ==
  ASSUME BatchTyped, Placed, NEW i \in DOMAIN flight, BrokerHandles(i)
  PROVE  \E taken \in SUBSET Flying(i), error \in {Again, Refused} :
           /\ BatchTyped' /\ Grows(taken)
           /\ i \in 1..Len(flight) /\ Unhandled(flight[i]) /\ Flying(i) \subseteq BatchIds
           /\ \A j \in 1..Len(flight) : j < i => ~Unhandled(flight[j])
           /\ Answers(i, taken, error)
           /\ UNCHANGED <<config, batch, result, dq, incomplete, sender, late>>
<1>0. /\ DOMAIN flight = 1..Len(flight) /\ Len(flight) \in Nat /\ flight[i] \in Requests
      /\ flight \in Seq(Requests) /\ log \in [Partitions -> Seq(Records)]
  BY TypedIs DEF BatchTyped
<1>1. PICK taken \in SUBSET DOMAIN flight[i], error \in {Again, Refused} :
        /\ log' = Stored(taken)
        /\ flight' = [flight EXCEPT ![i] =
                        [b \in DOMAIN flight[i] |->
                           IF b \in taken THEN Acked(Len(log[batch[b].part])) ELSE error]]
  BY Zenon DEF BrokerHandles
<1>2. /\ Unhandled(flight[i]) /\ \A j \in 1..(i - 1) : ~Unhandled(flight[j])
      /\ UNCHANGED <<config, batch, result, dq, incomplete, sender, late>>
  BY Zenon DEF BrokerHandles, batchVars, senderVars
<1> DEFINE answer == [b \in DOMAIN flight[i] |->
                        IF b \in taken THEN Acked(Len(log[batch[b].part])) ELSE error]
<1>3. flight' = [flight EXCEPT ![i] = answer]
  BY <1>1
<1>4. Flying(i) \subseteq BatchIds /\ Flying(i) = DOMAIN flight[i]
  BY <1>0 DEF Placed, FlightsPlaced, Flying
<1>5. \A b \in DOMAIN flight[i] : batch[b].part \in Partitions
  BY <1>4, IdsAre DEF Batches
<1>6. answer \in Requests
  <2>1. \A b \in DOMAIN flight[i] : Len(log[batch[b].part]) \in Nat
    BY <1>0, <1>5, LenProperties
  <2>2. answer \in [DOMAIN flight[i] -> Verdicts]
    BY <2>1 DEF Acked, Again, Refused, Verdicts
  <2>3. DOMAIN flight[i] \subseteq Nat
    BY <1>0, RequestIs
  <2> QED BY <2>2, <2>3, IsRequest
<1>7. \A b \in Flying(i) :
        answer[b] = IF b \in taken THEN Acked(Len(log[batch[b].part])) ELSE error
  BY <1>4
<1>8. DOMAIN answer = Flying(i)
  BY <1>4
<1> HIDE DEF answer
<1>9. /\ flight' \in Seq(Requests) /\ Len(flight') = Len(flight) /\ flight'[i] = answer
      /\ \A j \in 1..Len(flight) : j # i => flight'[j] = flight[j]
  BY <1>0, <1>3, <1>6, ExceptSeq
<1>10. taken \subseteq BatchIds
  BY <1>1, <1>4
<1>11. log' \in [Partitions -> Seq(Records)] /\ Grows(taken)
  BY <1>1, <1>10, StoredIs
<1>12. BatchTyped'
  <2>1. BatchIds' = BatchIds
    BY <1>2 DEF BatchIds
  <2> QED BY <1>2, <1>9, <1>11, <2>1 DEF BatchTyped
<1>13. \A j \in 1..Len(flight) : j < i => ~Unhandled(flight[j])
  BY <1>0, <1>2
<1>14. taken \in SUBSET Flying(i)
  BY <1>1, <1>4
<1>15. Answers(i, taken, error)
  BY <1>7, <1>8, <1>9 DEF Answers
<1> QED BY <1>0, <1>1, <1>2, <1>4, <1>11, <1>12, <1>13, <1>14, <1>15

LEMMA LateDoes ==
  ASSUME BatchTyped, Placed, BrokerHandlesLate
  PROVE  /\ BatchTyped' /\ late # <<>> /\ 1 \in 1..Len(late) /\ Head(late) = late[1]
         /\ DOMAIN Head(late) \subseteq BatchIds /\ \A b \in DOMAIN Head(late) : ~batch[b].open
         /\ Grows(DOMAIN Head(late)) /\ late' = Tail(late)
         /\ Len(late') = Len(late) - 1 /\ \A j \in 1..Len(late') : late'[j] = late[j + 1]
         /\ UNCHANGED <<config, batch, result, dq, incomplete, sender, flight>>
<1>0. /\ late # <<>> /\ late' = Tail(late) /\ log' = Stored(DOMAIN Head(late))
      /\ UNCHANGED <<config, batch, result, dq, incomplete, sender, flight>>
  BY Zenon DEF BrokerHandlesLate, batchVars, senderVars
<1>1. late \in Seq(Requests) /\ Len(late) \in Nat
  BY TypedIs DEF BatchTyped
<1>2. /\ 1 \in 1..Len(late) /\ Head(late) = late[1]
      /\ Tail(late) \in Seq(Requests) /\ Len(Tail(late)) = Len(late) - 1
      /\ \A j \in 1..Len(Tail(late)) : Tail(late)[j] = late[j + 1]
  <2>1. Len(late) \in Nat \ {0}
    BY <1>0, <1>1, EmptySeq
  <2>2. 1 \in 1..Len(late) /\ Head(late) = late[1]
    BY <2>1
  <2> QED BY <1>0, <1>1, <2>1, <2>2, HeadTailProperties
<1>3. DOMAIN Head(late) \subseteq BatchIds /\ \A b \in DOMAIN Head(late) : ~batch[b].open
  BY <1>2 DEF Placed, LatesPlaced
<1>4. log' \in [Partitions -> Seq(Records)] /\ Grows(DOMAIN Head(late))
  BY <1>0, <1>3, StoredIs
<1>5. BatchTyped'
  <2>1. BatchIds' = BatchIds
    BY <1>0 DEF BatchIds
  <2> QED BY <1>0, <1>2, <1>4, <2>1 DEF BatchTyped
<1> QED BY <1>0, <1>2, <1>3, <1>4, <1>5

\* A record joins the last batch of its partition, which is open.
LEMMA JoiningDoes ==
  ASSUME UserTyped, BatchTyped, Placed, Recorded, NEW t \in Threads, Joining(t),
         NEW x, x = LastOf(part[t])
  PROVE  /\ BatchTyped' /\ BatchIds' = BatchIds
         /\ x \in BatchIds /\ x \in Queued(part[t]) /\ part[t] \in Partitions /\ batch[x].open
         /\ t \in Appending /\ rec[t] \in Records
         /\ \A b \in BatchIds :
              /\ batch'[b].part = batch[b].part /\ batch'[b].attempts = batch[b].attempts
              /\ batch'[b].open = batch[b].open
              /\ b # x => batch'[b].recs = batch[b].recs
         /\ batch'[x].recs = Append(batch[x].recs, rec[t])
         /\ UNCHANGED <<config, sends, result, dq, incomplete, sender, flight, late, log>>
<1>0. /\ pc[t] \in {"begun", "append"} /\ dq[part[t]] # <<>> /\ batch[x].open
      /\ batch' = [batch EXCEPT ![x].recs = Append(@, rec[t])]
      /\ UNCHANGED <<config, sends, result, dq, incomplete, sender, flight, late, log>>
  BY Zenon DEF Joining, Joins, HasRoom, senderVars, netVars
<1>1. t \in Appending /\ part[t] \in Partitions /\ MaxSends \in Nat /\ sends \in 0..MaxSends
  BY <1>0, ProducerAssumption DEF Appending, UserTyped
<1>2. rec[t] \in Records
  <2>1. rec[t] \in 1..sends
    BY <1>1 DEF Recorded
  <2> QED BY <1>1, <2>1 DEF Records
<1>3. x \in Queued(part[t])
  BY <1>0, <1>1, TypedIs, QueueLast DEF LastOf, Queued
<1>4. x \in BatchIds
  BY <1>1, <1>3 DEF Placed, QueuesPlaced
<1>5. /\ BatchIds = 1..Len(batch) /\ Len(batch) \in Nat
      /\ batch \in [1..Len(batch) -> Batches]
      /\ \A b \in BatchIds : batch[b] \in Batches
  BY IdsAre
<1> DEFINE new == [batch[x] EXCEPT !.recs = Append(@, rec[t])]
<1>6. batch[x] \in Batches /\ batch[x].recs \in Seq(Records)
  BY <1>4, <1>5 DEF Batches
<1>7. /\ new \in Batches /\ new.part = batch[x].part /\ new.attempts = batch[x].attempts
      /\ new.open = batch[x].open /\ new.recs = Append(batch[x].recs, rec[t])
  <2>1. Append(batch[x].recs, rec[t]) \in Seq(Records)
    BY <1>2, <1>6, AppendProperties
  <2> QED BY <1>6, <2>1 DEF Batches
<1>8. batch' = [batch EXCEPT ![x] = new]
  BY <1>0, <1>4
<1> HIDE DEF new
<1>9. batch' \in [1..Len(batch) -> Batches]
  BY <1>5, <1>7, <1>8
<1>10. batch' \in Seq(Batches) /\ Len(batch') = Len(batch)
  BY <1>5, <1>9, FunSeq
<1>11. BatchIds' = BatchIds
  BY <1>5, <1>9 DEF BatchIds
<1>12. BatchTyped'
  BY <1>0, <1>10, <1>11 DEF BatchTyped
<1>13. batch'[x] = new /\ \A b \in BatchIds : b # x => batch'[b] = batch[b]
  BY <1>4, <1>5, <1>8
<1> QED BY <1>0, <1>1, <1>2, <1>3, <1>4, <1>7, <1>11, <1>12, <1>13

\* A record opens a batch, the last of all.
LEMMA OpeningDoes ==
  ASSUME UserTyped, BatchTyped, Placed, Recorded, NEW t \in Threads, Opening(t),
         NEW n, n = Len(batch) + 1
  PROVE  /\ BatchTyped' /\ n \in Nat /\ BatchIds' = BatchIds \union {n} /\ n \notin BatchIds
         /\ BatchIds \subseteq Nat /\ \A b \in BatchIds : b < n
         /\ t \in Appending /\ rec[t] \in Records /\ part[t] \in Partitions
         /\ \A b \in BatchIds : batch'[b] = batch[b] /\ result'[b] = result[b]
         /\ batch'[n] = [part |-> part[t], recs |-> <<rec[t]>>, attempts |-> 0, open |-> TRUE]
         /\ result'[n] = Pending
         /\ dq'[part[t]] \in Seq(Nat) /\ Once(dq'[part[t]])
         /\ Range(dq'[part[t]]) = Range(dq[part[t]]) \union {n}
         /\ Rises(dq[part[t]]) => Rises(dq'[part[t]])
         /\ \A p \in Partitions : p # part[t] => dq'[p] = dq[p]
         /\ incomplete' = incomplete \union {n}
         /\ UNCHANGED <<config, sends, sender, flight, late, log>>
<1> DEFINE new == [part |-> part[t], recs |-> <<rec[t]>>, attempts |-> 0, open |-> TRUE]
<1>0. /\ pc[t] = "append" /\ batch' = Append(batch, new) /\ result' = Append(result, Pending)
      /\ dq' = [dq EXCEPT ![part[t]] = Append(@, n)] /\ incomplete' = incomplete \union {n}
      /\ UNCHANGED <<config, sends, sender, flight, late, log>>
  BY Zenon DEF Opening, Opens, senderVars, netVars
<1>1. t \in Appending /\ part[t] \in Partitions /\ MaxSends \in Nat /\ sends \in 0..MaxSends
  BY <1>0, ProducerAssumption DEF Appending, UserTyped
<1>2. rec[t] \in Records
  <2>1. rec[t] \in 1..sends
    BY <1>1 DEF Recorded
  <2> QED BY <1>1, <2>1 DEF Records
<1>3. new \in Batches
  BY <1>1, <1>2 DEF Batches
<1> HIDE DEF new
<1>4. /\ BatchIds = 1..Len(batch) /\ Len(batch) \in Nat
      /\ batch \in Seq(Batches) /\ result \in Seq(Results) /\ Len(result) = Len(batch)
      /\ dq \in [Partitions -> Seq(Nat)] /\ incomplete \subseteq BatchIds
  BY IdsAre DEF BatchTyped
<1>5. /\ batch' \in Seq(Batches) /\ Len(batch') = n /\ batch'[n] = new
      /\ \A b \in BatchIds : batch'[b] = batch[b]
  BY <1>0, <1>3, <1>4, AppendProperties
<1>6. /\ result' \in Seq(Results) /\ Len(result') = n /\ result'[n] = Pending
      /\ \A b \in BatchIds : result'[b] = result[b]
  <2>1. Pending \in Results
    BY DEF Pending, Results
  <2> QED BY <1>0, <1>4, <2>1, AppendProperties
<1>7. n \in Nat /\ n \notin BatchIds /\ BatchIds \subseteq Nat /\ \A b \in BatchIds : b < n
  BY <1>4
<1>8. BatchIds' = BatchIds \union {n}
  <2>1. DOMAIN batch' = 1..n
    BY <1>5, LenProperties
  <2> QED BY <1>4, <2>1 DEF BatchIds
<1> DEFINE p == part[t]
<1>9. dq[p] \in Seq(Nat) /\ Once(dq[p]) /\ Range(dq[p]) \subseteq BatchIds
  BY <1>1, TypedIs DEF Placed, QueuesPlaced, Queued
<1>10. dq'[p] = Append(dq[p], n) /\ \A q \in Partitions : q # p => dq'[q] = dq[q]
  BY <1>0, <1>1, <1>4
<1> HIDE DEF p
<1>11. /\ dq'[p] \in Seq(Nat) /\ Once(dq'[p]) /\ Range(dq'[p]) = Range(dq[p]) \union {n}
       /\ Rises(dq[p]) => Rises(dq'[p])
  <2>1. n \notin Range(dq[p]) /\ \A y \in Range(dq[p]) : y < n
    BY <1>7, <1>9
  <2> QED BY <1>7, <1>9, <1>10, <2>1, QueueAppends
<1>12. BatchTyped'
  <2>1. dq' \in [Partitions -> Seq(Nat)]
    BY <1>0, <1>4, <1>7, AppendProperties
  <2> QED BY <1>0, <1>4, <1>5, <1>6, <1>8, <2>1 DEF BatchTyped
<1> QED BY <1>0, <1>1, <1>2, <1>5, <1>6, <1>7, <1>8, <1>10, <1>11, <1>12 DEF p, new

-----------------------------------------------------------------------------
(* The places of batches. *)

\* A batch waits in the queue of its partition only, and neither waits nor is sent
\* otherwise when a request has it.
LEMMA PlacesApart == BatchTyped /\ Placed =>
  /\ \A p \in Partitions : \A b \in Queued(p) : b \in BatchIds /\ batch[b].part = p
  /\ \A i \in 1..Len(flight) : \A b \in Flying(i) : b \in BatchIds /\ ~batch[b].open /\ ~Waits(b)
  /\ \A i, j \in 1..Len(flight) : \A b : b \in Flying(i) /\ b \in Flying(j) => i = j
  /\ \A i \in 1..Len(flight) : \A b, c \in Flying(i) : batch[b].part = batch[c].part => b = c
  /\ \A b : Waits(b) \/ Flies(b) => b \in BatchIds
  /\ \A b : Sending(b) => Flies(b)
  /\ \A b \in BatchIds : batch[b].part \in Partitions /\ b \in Nat
<1> SUFFICES ASSUME BatchTyped, Placed
             PROVE  /\ \A p \in Partitions : \A b \in Queued(p) : b \in BatchIds /\ batch[b].part = p
                    /\ \A i \in 1..Len(flight) :
                         \A b \in Flying(i) : b \in BatchIds /\ ~batch[b].open /\ ~Waits(b)
                    /\ \A i, j \in 1..Len(flight) : \A b : b \in Flying(i) /\ b \in Flying(j) => i = j
                    /\ \A i \in 1..Len(flight) :
                         \A b, c \in Flying(i) : batch[b].part = batch[c].part => b = c
                    /\ \A b : Waits(b) \/ Flies(b) => b \in BatchIds
                    /\ \A b : Sending(b) => Flies(b)
                    /\ \A b \in BatchIds : batch[b].part \in Partitions /\ b \in Nat
  OBVIOUS
<1>1. \A p \in Partitions : \A b \in Queued(p) : b \in BatchIds /\ batch[b].part = p
  BY DEF Placed, QueuesPlaced
<1>2. \A i \in 1..Len(flight) : \A b \in Flying(i) : b \in BatchIds /\ ~batch[b].open /\ ~Waits(b)
  BY DEF Placed, FlightsPlaced, Waits
<1>3. \A i, j \in 1..Len(flight) : \A b : b \in Flying(i) /\ b \in Flying(j) => i = j
  BY DEF Placed, FlightsPlaced
<1>4. \A i \in 1..Len(flight) : \A b, c \in Flying(i) : batch[b].part = batch[c].part => b = c
  BY DEF Placed, FlightsPlaced
<1>5. \A b : Waits(b) \/ Flies(b) => b \in BatchIds
  BY <1>1, <1>2 DEF Waits, Flies
<1>6. \A b : Sending(b) => Flies(b)
  BY DEF Sending, Flies
<1>7. \A b \in BatchIds : batch[b].part \in Partitions /\ b \in Nat
  BY IdsAre DEF Batches
<1> QED BY <1>1, <1>2, <1>3, <1>4, <1>5, <1>6, <1>7

LEMMA PlacedDrain ==
  ASSUME BatchTyped, Placed, NEW S \in SUBSET Partitions, Drain(S)
  PROVE  Placed'
<1>h. PICK heads, n : heads = Heads(S) /\ n = Len(flight) + 1
  OBVIOUS
<1>1. /\ Same /\ Shrinks(heads) /\ heads \subseteq BatchIds
      /\ \A h \in heads : batch[h].part \in Partitions /\ h \in Queued(batch[h].part) /\ ~batch'[h].open
      /\ \A h, k \in heads : batch[h].part = batch[k].part => h = k
      /\ Len(flight') = n
      /\ \A i \in 1..Len(flight) : flight'[i] = flight[i]
      /\ flight'[n] = [b \in heads |-> Sent]
      /\ UNCHANGED <<config, result, incomplete, sender, late, log>>
  BY <1>h, DrainDoes
<1>2. /\ Len(flight) \in Nat /\ \A i \in 1..n : i \in 1..Len(flight) \/ i = n
      /\ \A i \in 1..Len(flight) : i \in 1..n /\ i # n
      /\ n \in 1..n
  BY <1>h, TypedIs
<1>3. Flying(n)' = heads /\ \A i \in 1..Len(flight) : Flying(i)' = Flying(i)
  BY <1>1 DEF Flying
<1>4. \A p \in Partitions : Queued(p)' = Queued(p) \ heads
  BY <1>1 DEF Shrinks, Queued
<1>5. QueuesPlaced'
  BY <1>1, <1>4 DEF Placed, QueuesPlaced, Shrinks, Same
<1>6. FlightsPlaced'
  <2> SUFFICES ASSUME NEW i \in 1..n
               PROVE  /\ \A b \in Flying(i)' : b \in BatchIds' /\ ~batch'[b].open
                      /\ \A b, c \in Flying(i)' : batch'[b].part = batch'[c].part => b = c
                      /\ \A p \in Partitions : Queued(p)' \cap Flying(i)' = {}
                      /\ \A j \in 1..n : j # i => Flying(i)' \cap Flying(j)' = {}
    BY <1>1 DEF FlightsPlaced
  <2>1. \A j \in 1..Len(flight) : Flying(j) \cap heads = {}
    BY <1>1, PlacesApart DEF Waits
  <2>2. CASE i = n
    BY <1>1, <1>2, <1>3, <1>4, <2>1, <2>2 DEF Same
  <2>3. CASE i \in 1..Len(flight)
    <3>1. /\ \A b \in Flying(i) : b \in BatchIds /\ ~batch[b].open
          /\ \A b, c \in Flying(i) : batch[b].part = batch[c].part => b = c
          /\ \A p \in Partitions : Queued(p) \cap Flying(i) = {}
          /\ \A j \in 1..Len(flight) : j # i => Flying(i) \cap Flying(j) = {}
      BY <2>3 DEF Placed, FlightsPlaced
    <3>2. \A j \in 1..n : j # i => Flying(i) \cap Flying(j)' = {}
      BY <1>2, <1>3, <2>1, <2>3, <3>1
    <3> QED BY <1>1, <1>3, <1>4, <2>3, <3>1, <3>2 DEF Same
  <2> QED BY <1>2, <2>2, <2>3
<1>7. LatesPlaced'
  BY <1>1 DEF Placed, LatesPlaced, Same
<1>8. \A b : Waits(b)' \/ Flies(b)' <=> Waits(b) \/ Flies(b)
  <2> SUFFICES ASSUME NEW b PROVE Waits(b)' \/ Flies(b)' <=> Waits(b) \/ Flies(b)
    OBVIOUS
  <2>1. Waits(b)' <=> Waits(b) /\ b \notin heads
    BY <1>4 DEF Waits
  <2>2. Flies(b)' <=> Flies(b) \/ b \in heads
    BY <1>1, <1>2, <1>3 DEF Flies
  <2>3. b \in heads => Waits(b)
    BY <1>1 DEF Waits
  <2> QED BY <2>1, <2>2, <2>3
<1>9. PendingPlaced'
  BY <1>1, <1>8 DEF Placed, PendingPlaced, Same
<1> QED BY <1>5, <1>6, <1>7, <1>9 DEF Placed

LEMMA PlacedExpire ==
  ASSUME BatchTyped, Placed, NEW p \in Partitions, NEW n \in 1..Len(dq[p]), Expire(p, n)
  PROVE  Placed'
<1>g. PICK gone : gone = Firsts(p, n)
  OBVIOUS
<1>1. /\ Same /\ Shrinks(gone)
      /\ gone \subseteq BatchIds /\ gone \subseteq Queued(p)
      /\ \A b \in BatchIds : result'[b] = IF b \in gone THEN Failed ELSE result[b]
      /\ incomplete' = incomplete \ gone
      /\ UNCHANGED <<config, flight, sender, late, log>>
  BY <1>g, ExpireDoes
<1>2. \A q \in Partitions : Queued(q)' = Queued(q) \ gone
  BY <1>1 DEF Shrinks, Queued
<1>3. \A i : Flying(i)' = Flying(i)
  BY <1>1 DEF Flying
<1>4. QueuesPlaced'
  BY <1>1, <1>2 DEF Placed, QueuesPlaced, Shrinks, Same
<1>5. FlightsPlaced'
  BY <1>1, <1>2, <1>3 DEF Placed, FlightsPlaced, Same
<1>6. LatesPlaced'
  BY <1>1 DEF Placed, LatesPlaced, Same
<1>7. \A b : Waits(b)' <=> Waits(b) /\ b \notin gone
  BY <1>2 DEF Waits
<1>8. \A b : (Flies(b)' <=> Flies(b)) /\ (b \in gone => ~Flies(b))
  <2>1. \A b \in gone : Waits(b)
    BY <1>1 DEF Waits
  <2> QED BY <1>1, <1>3, <2>1, PlacesApart DEF Flies
<1>9. PendingPlaced'
  <2>1. Failed # Pending
    BY DEF Failed, Pending
  <2> QED BY <1>1, <1>7, <1>8, <2>1 DEF Placed, PendingPlaced, Same
<1> QED BY <1>4, <1>5, <1>6, <1>9 DEF Placed

LEMMA PlacedEnding ==
  ASSUME BatchTyped, Placed, NEW verdicts, NEW retried, Ending(verdicts, retried)
  PROVE  Placed'
<1>a. /\ Same
      /\ 1 \in 1..Len(flight)
      /\ retried \subseteq Flying(1) /\ DOMAIN verdicts = Flying(1) \ retried
      /\ Flying(1) \subseteq BatchIds
      /\ \A b \in BatchIds : batch'[b].open = batch[b].open
      /\ \A b \in BatchIds :
           result'[b] = IF b \in DOMAIN verdicts THEN verdicts[b] ELSE result[b]
      /\ incomplete' = incomplete \ DOMAIN verdicts
      /\ Len(flight') = Len(flight) - 1
      /\ \A i \in 1..Len(flight') : flight'[i] = flight[i + 1] /\ i + 1 \in 1..Len(flight)
  BY EndingDoes
<1>c. /\ \A b \in DOMAIN verdicts : \/ verdicts[b] = Failed
                                    \/ verdicts[b] = flight[1][b] /\ verdicts[b].kind = "acked"
      /\ late' = late \/ late' = Append(late, flight[1])
      /\ sender = "run" /\ UNCHANGED <<config, sender, log>>
      /\ flight[1] \in Requests /\ Refills(retried)
  BY EndingDoes, Zenon
<1>1. /\ Same
      /\ 1 \in 1..Len(flight)
      /\ retried \subseteq Flying(1) /\ DOMAIN verdicts = Flying(1) \ retried
      /\ Flying(1) \subseteq BatchIds
      /\ \A b \in BatchIds : batch'[b].open = batch[b].open
      /\ \A b \in BatchIds :
           result'[b] = IF b \in DOMAIN verdicts THEN verdicts[b] ELSE result[b]
      /\ incomplete' = incomplete \ DOMAIN verdicts
      /\ Len(flight') = Len(flight) - 1
      /\ \A i \in 1..Len(flight') : flight'[i] = flight[i + 1] /\ i + 1 \in 1..Len(flight)
      /\ Refills(retried)
      /\ \A b \in DOMAIN verdicts : \/ verdicts[b] = Failed
                                    \/ verdicts[b] = flight[1][b] /\ verdicts[b].kind = "acked"
      /\ late' = late \/ late' = Append(late, flight[1])
      /\ sender = "run" /\ UNCHANGED <<config, sender, log>>
      /\ flight[1] \in Requests
  BY <1>a, <1>c, Zenon
<1>2. \A p \in Partitions : Queued(p)' = Queued(p) \union Of(retried, p)
  BY <1>1 DEF Queued, Refills
<1>3. \A i \in 1..Len(flight') : Flying(i)' = Flying(i + 1)
  BY <1>1 DEF Flying
<1>4. QueuesPlaced'
  BY <1>1, <1>2 DEF Placed, QueuesPlaced, Same, Of, Refills
<1>5. /\ \A i \in 1..Len(flight') : i \in Int /\ i + 1 # 1
      /\ \A i \in 1..Len(flight) : i # 1 => i - 1 \in 1..Len(flight') /\ (i - 1) + 1 = i
  BY <1>1, TypedIs
<1>6. FlightsPlaced'
  <2> SUFFICES ASSUME NEW i \in 1..Len(flight')
               PROVE  /\ \A b \in Flying(i)' : b \in BatchIds' /\ ~batch'[b].open
                      /\ \A b, c \in Flying(i)' : batch'[b].part = batch'[c].part => b = c
                      /\ \A p \in Partitions : Queued(p)' \cap Flying(i)' = {}
                      /\ \A j \in 1..Len(flight') : j # i => Flying(i)' \cap Flying(j)' = {}
    BY DEF FlightsPlaced
  <2>1. /\ \A b \in Flying(i + 1) : b \in BatchIds /\ ~batch[b].open
        /\ \A b, c \in Flying(i + 1) : batch[b].part = batch[c].part => b = c
        /\ \A p \in Partitions : Queued(p) \cap Flying(i + 1) = {}
        /\ \A j \in 1..Len(flight) : j # i + 1 => Flying(i + 1) \cap Flying(j) = {}
    BY <1>1 DEF Placed, FlightsPlaced
  <2>2. Flying(i + 1) \cap retried = {}
    BY <1>1, <1>5, <2>1
  <2>3. \A j \in 1..Len(flight') : j # i => Flying(i)' \cap Flying(j)' = {}
    <3> SUFFICES ASSUME NEW j \in 1..Len(flight'), j # i PROVE Flying(i)' \cap Flying(j)' = {}
      OBVIOUS
    <3>1. j + 1 # i + 1 /\ j + 1 \in 1..Len(flight)
      BY <1>1, <1>5
    <3> QED BY <1>3, <2>1, <3>1
  <2> QED BY <1>1, <1>2, <1>3, <2>1, <2>2, <2>3 DEF Same, Of
<1>7. LatesPlaced'
  <2>1. late \in Seq(Requests)
    BY DEF BatchTyped
  <2>2. \A b \in DOMAIN flight[1] : b \in BatchIds /\ ~batch[b].open
    BY <1>1 DEF Placed, FlightsPlaced, Flying
  <2>3. \A i \in 1..Len(late') : late'[i] = flight[1] \/ (i \in 1..Len(late) /\ late'[i] = late[i])
    <3>1. CASE late' = late
      BY <3>1
    <3>2. CASE late' = Append(late, flight[1])
      <4>1. /\ Len(late') = Len(late) + 1 /\ late'[Len(late) + 1] = flight[1] /\ Len(late) \in Nat
            /\ \A i \in 1..Len(late) : late'[i] = late[i]
        BY <1>1, <2>1, <3>2, AppendProperties, LenProperties
      <4> QED BY <4>1
    <3> QED BY <1>1, <3>1, <3>2
  <2>4. \A i \in 1..Len(late) : \A b \in DOMAIN late[i] : b \in BatchIds /\ ~batch[b].open
    BY DEF Placed, LatesPlaced
  <2> QED BY <1>1, <2>2, <2>3, <2>4 DEF LatesPlaced, Same
<1>8. \A b : Waits(b)' <=> Waits(b) \/ b \in retried
  <2>1. \A b \in retried : batch[b].part \in Partitions
    BY <1>1, PlacesApart
  <2> QED BY <1>2, <2>1 DEF Waits, Of
<1>9. \A b : Flies(b) <=> Flies(b)' \/ b \in Flying(1)
  <2> SUFFICES ASSUME NEW b PROVE Flies(b) <=> Flies(b)' \/ b \in Flying(1)
    OBVIOUS
  <2>1. ASSUME Flies(b), b \notin Flying(1) PROVE Flies(b)'
    <3>1. PICK i \in 1..Len(flight) : b \in Flying(i)
      BY <2>1 DEF Flies
    <3>2. i - 1 \in 1..Len(flight') /\ b \in Flying(i - 1)'
      BY <1>3, <1>5, <2>1, <3>1
    <3> QED BY <3>2 DEF Flies
  <2>2. ASSUME Flies(b)' PROVE Flies(b)
    <3>1. PICK i \in 1..Len(flight') : b \in Flying(i)'
      BY <2>2 DEF Flies
    <3> QED BY <1>1, <1>3, <3>1 DEF Flies
  <2>3. b \in Flying(1) => Flies(b)
    BY <1>1 DEF Flies
  <2> QED BY <2>1, <2>2, <2>3
<1>10. \A b : b \in Flying(1) => ~Flies(b)' /\ ~Waits(b)
  <2> SUFFICES ASSUME NEW b \in Flying(1) PROVE ~Flies(b)' /\ ~Waits(b)
    OBVIOUS
  <2>1. \A i \in 1..Len(flight') : b \notin Flying(i)'
    BY <1>1, <1>3, <1>5, PlacesApart
  <2>2. ~Waits(b)
    BY <1>1, PlacesApart
  <2> QED BY <2>1, <2>2 DEF Flies
<1>11. PendingPlaced'
  <2>1. \A b \in DOMAIN verdicts : verdicts[b] # Pending
    BY <1>1 DEF Failed, Pending
  <2>2. /\ \A b \in incomplete : Waits(b) \/ Flies(b)
        /\ \A b \in BatchIds : Waits(b) \/ Flies(b) => b \in incomplete
        /\ \A b \in BatchIds : result[b] = Pending <=> b \in incomplete
    BY <1>1 DEF Placed, PendingPlaced
  <2>3. \A b \in incomplete' : Waits(b)' \/ Flies(b)'
    BY <1>1, <1>8, <1>9, <2>2
  <2>4. \A b \in BatchIds : Waits(b)' \/ Flies(b)' => b \in incomplete'
    BY <1>1, <1>8, <1>9, <1>10, <2>2
  <2>5. \A b \in BatchIds : result'[b] = Pending <=> b \in incomplete'
    BY <1>1, <2>1, <2>2
  <2> QED BY <1>1, <2>3, <2>4, <2>5 DEF PendingPlaced, Same
<1> QED BY <1>4, <1>6, <1>7, <1>11 DEF Placed

LEMMA PlacedAbort ==
  ASSUME BatchTyped, Placed, Abort \/ Clear
  PROVE  Placed'
<1>1. /\ FailIncomplete /\ sender' # "run"
      /\ Abort => UNCHANGED <<dq, flight, late>>
      /\ Clear => /\ flight' = <<>> /\ \A p \in Partitions : dq'[p] = <<>>
                  /\ \E rest \in Seq(Requests) :
                       /\ late' = late \o rest
                       /\ \A j \in 1..Len(rest) : \E i \in 1..Len(flight) :
                            rest[j] = flight[i] /\ Unhandled(flight[i])
  <2>1. CASE Abort
    BY <2>1, AbortDoes DEF Abort, Clear
  <2>2. CASE Clear
    BY <2>2, ClearDoes DEF Abort, Clear
  <2> QED BY <2>1, <2>2
<1>2. /\ Same
      /\ \A b \in BatchIds : result'[b] = IF b \in incomplete THEN Failed ELSE result[b]
      /\ incomplete' = {} /\ incomplete \subseteq BatchIds
  BY <1>1, FailIncompleteDoes
<1>3. PendingPlaced'
  <2>1. Failed # Pending
    BY DEF Failed, Pending
  <2> QED BY <1>1, <1>2, <2>1 DEF Placed, PendingPlaced, Same
<1>4. CASE Abort
  <2>1. /\ \A p : Queued(p)' = Queued(p)
        /\ \A i : Flying(i)' = Flying(i)
        /\ dq' = dq /\ flight' = flight /\ late' = late
    BY <1>1, <1>4 DEF Queued, Flying
  <2>2. QueuesPlaced' /\ FlightsPlaced' /\ LatesPlaced'
    BY <1>2, <2>1 DEF Placed, QueuesPlaced, FlightsPlaced, LatesPlaced, Same
  <2> QED BY <1>3, <2>2 DEF Placed
<1>5. CASE Clear
  <2>1. QueuesPlaced' /\ FlightsPlaced'
    BY <1>1, <1>5, EmptyRange DEF QueuesPlaced, FlightsPlaced, Queued
  <2>2. PICK rest \in Seq(Requests) :
          /\ late' = late \o rest
          /\ \A j \in 1..Len(rest) : \E i \in 1..Len(flight) :
               rest[j] = flight[i] /\ Unhandled(flight[i])
    BY <1>1, <1>5
  <2>3. \A i \in 1..Len(late') : \/ i \in 1..Len(late) /\ late'[i] = late[i]
                                 \/ \E j \in 1..Len(flight) : late'[i] = flight[j]
    <3>1. /\ Len(late') = Len(late) + Len(rest) /\ Len(late) \in Nat /\ Len(rest) \in Nat
          /\ \A i \in 1..(Len(late) + Len(rest)) :
               late'[i] = IF i <= Len(late) THEN late[i] ELSE rest[i - Len(late)]
      BY <2>2, ConcatProperties, LenProperties DEF BatchTyped
    <3> SUFFICES ASSUME NEW i \in 1..Len(late'), i \notin 1..Len(late)
                 PROVE  \E j \in 1..Len(flight) : late'[i] = flight[j]
      BY <3>1
    <3>2. i - Len(late) \in 1..Len(rest) /\ late'[i] = rest[i - Len(late)]
      BY <3>1
    <3> QED BY <2>2, <3>2
  <2>4. \A i \in 1..Len(late) : \A b \in DOMAIN late[i] : b \in BatchIds /\ ~batch[b].open
    BY DEF Placed, LatesPlaced
  <2>5. \A i \in 1..Len(flight) : \A b \in DOMAIN flight[i] : b \in BatchIds /\ ~batch[b].open
    BY DEF Placed, FlightsPlaced, Flying
  <2>6. LatesPlaced'
    BY <1>2, <2>3, <2>4, <2>5 DEF LatesPlaced, Same
  <2> QED BY <1>3, <2>1, <2>6 DEF Placed
<1> QED BY <1>4, <1>5

LEMMA PlacedBroker ==
  ASSUME BatchTyped, Placed,
         BrokerHandlesLate \/ \E i \in DOMAIN flight : BrokerHandles(i)
  PROVE  Placed'
<1>1. ASSUME NEW i \in DOMAIN flight, BrokerHandles(i)
      PROVE  /\ UNCHANGED <<batch, result, dq, incomplete, sender, late>>
             /\ Len(flight') = Len(flight)
             /\ \A j \in 1..Len(flight) : Flying(j)' = Flying(j)
  <2>1. PICK taken, error : /\ Answers(i, taken, error)
                            /\ UNCHANGED <<batch, result, dq, incomplete, sender, late>>
    BY <1>1, HandlesDoes
  <2> QED BY <2>1 DEF Flying, Answers
<1>2. ASSUME BrokerHandlesLate
      PROVE  /\ UNCHANGED <<batch, result, dq, incomplete, sender, flight>>
             /\ Len(late') = Len(late) - 1 /\ \A j \in 1..Len(late') : late'[j] = late[j + 1]
  BY <1>2, LateDoes
<1>3. /\ UNCHANGED <<batch, result, dq, incomplete, sender>>
      /\ Len(flight') = Len(flight)
      /\ \A j \in 1..Len(flight) : Flying(j)' = Flying(j)
  BY <1>1, <1>2 DEF Flying
<1>4. \A p : Queued(p)' = Queued(p)
  BY <1>3 DEF Queued
<1>5. QueuesPlaced' /\ FlightsPlaced'
  BY <1>3, <1>4 DEF Placed, QueuesPlaced, FlightsPlaced, BatchIds
<1>6. \A b : (Waits(b)' <=> Waits(b)) /\ (Flies(b)' <=> Flies(b))
  BY <1>3, <1>4 DEF Waits, Flies
<1>7. PendingPlaced'
  BY <1>3, <1>6 DEF Placed, PendingPlaced, BatchIds
<1>8. LatesPlaced'
  <2>1. ASSUME NEW i \in DOMAIN flight, BrokerHandles(i) PROVE LatesPlaced'
    BY <1>1, <2>1 DEF Placed, LatesPlaced, BatchIds
  <2>2. ASSUME BrokerHandlesLate PROVE LatesPlaced'
    <3>1. Len(late) \in Nat
      BY TypedIs
    <3> QED BY <1>2, <1>3, <2>2, <3>1 DEF Placed, LatesPlaced, BatchIds
  <2> QED BY <2>1, <2>2
<1> QED BY <1>5, <1>7, <1>8 DEF Placed

LEMMA PlacedJoining ==
  ASSUME UserTyped, BatchTyped, Placed, Recorded, NEW t \in Threads, Joining(t)
  PROVE  Placed'
<1>x. PICK x : x = LastOf(part[t])
  OBVIOUS
<1>1. /\ BatchIds' = BatchIds
      /\ \A b \in BatchIds : batch'[b].part = batch[b].part /\ batch'[b].open = batch[b].open
      /\ UNCHANGED <<result, dq, incomplete, sender, flight, late>>
  BY <1>x, JoiningDoes
<1>2. /\ \A p : Queued(p)' = Queued(p)
      /\ \A i : Flying(i)' = Flying(i)
      /\ dq' = dq /\ flight' = flight /\ late' = late
  BY <1>1 DEF Queued, Flying
<1>3. QueuesPlaced' /\ FlightsPlaced' /\ LatesPlaced'
  BY <1>1, <1>2 DEF Placed, QueuesPlaced, FlightsPlaced, LatesPlaced
<1>4. \A b : (Waits(b)' <=> Waits(b)) /\ (Flies(b)' <=> Flies(b))
  BY <1>2 DEF Waits, Flies
<1>5. PendingPlaced'
  BY <1>1, <1>4 DEF Placed, PendingPlaced
<1> QED BY <1>3, <1>5 DEF Placed

LEMMA PlacedOpening ==
  ASSUME UserTyped, BatchTyped, Placed, Recorded, NEW t \in Threads, Opening(t)
  PROVE  Placed'
<1>n. PICK n, q : n = Len(batch) + 1 /\ q = part[t]
  OBVIOUS
<1>1. /\ BatchIds' = BatchIds \union {n} /\ n \notin BatchIds
      /\ q \in Partitions
      /\ \A b \in BatchIds : batch'[b] = batch[b] /\ result'[b] = result[b]
      /\ batch'[n].part = q
      /\ result'[n] = Pending
      /\ Once(dq'[q])
      /\ Range(dq'[q]) = Range(dq[q]) \union {n}
      /\ \A p \in Partitions : p # q => dq'[p] = dq[p]
      /\ incomplete' = incomplete \union {n}
      /\ UNCHANGED <<sender, flight, late>>
  <2>1. batch'[n] = [part |-> part[t], recs |-> <<rec[t]>>, attempts |-> 0, open |-> TRUE]
    BY <1>n, OpeningDoes
  <2>2. batch'[n].part = q
    BY <1>n, <2>1
  <2> QED BY <1>n, <2>2, OpeningDoes
<1>2. /\ \A i : Flying(i)' = Flying(i)
      /\ flight' = flight /\ late' = late
      /\ Queued(q)' = Queued(q) \union {n}
      /\ \A p \in Partitions : p # q => Queued(p)' = Queued(p)
  BY <1>1 DEF Queued, Flying
<1>3. QueuesPlaced'
  <2> SUFFICES ASSUME NEW p \in Partitions
               PROVE  Once(dq'[p]) /\ \A b \in Queued(p)' : b \in BatchIds' /\ batch'[b].part = p
    BY DEF QueuesPlaced
  <2>1. Once(dq[p]) /\ \A b \in Queued(p) : b \in BatchIds /\ batch[b].part = p
    BY DEF Placed, QueuesPlaced
  <2>2. CASE p = q
    BY <1>1, <1>2, <2>1, <2>2
  <2>3. CASE p # q
    BY <1>1, <1>2, <2>1, <2>3
  <2> QED BY <2>2, <2>3
<1>4. FlightsPlaced'
  <2> SUFFICES ASSUME NEW i \in 1..Len(flight)
               PROVE  /\ \A b \in Flying(i)' : b \in BatchIds' /\ ~batch'[b].open
                      /\ \A b, c \in Flying(i)' : batch'[b].part = batch'[c].part => b = c
                      /\ \A p \in Partitions : Queued(p)' \cap Flying(i)' = {}
                      /\ \A j \in 1..Len(flight) : j # i => Flying(i)' \cap Flying(j)' = {}
    BY <1>2 DEF FlightsPlaced
  <2>1. /\ \A b \in Flying(i) : b \in BatchIds /\ ~batch[b].open
        /\ \A b, c \in Flying(i) : batch[b].part = batch[c].part => b = c
        /\ \A p \in Partitions : Queued(p) \cap Flying(i) = {}
        /\ \A j \in 1..Len(flight) : j # i => Flying(i) \cap Flying(j) = {}
    BY DEF Placed, FlightsPlaced
  <2>2. n \notin Flying(i)
    BY <1>1, <2>1
  <2>3. \A p \in Partitions : Queued(p)' \cap Flying(i)' = {}
    BY <1>2, <2>1, <2>2
  <2> QED BY <1>1, <1>2, <2>1, <2>3
<1>5. LatesPlaced'
  BY <1>1, <1>2 DEF Placed, LatesPlaced
<1>6. \A b : (Waits(b)' <=> Waits(b) \/ b = n) /\ (Flies(b)' <=> Flies(b))
  <2>1. \A b : Flies(b)' <=> Flies(b)
    BY <1>2 DEF Flies
  <2>2. \A b : Waits(b)' <=> Waits(b) \/ b = n
    BY <1>1, <1>2 DEF Waits
  <2> QED BY <2>1, <2>2
<1>7. PendingPlaced'
  BY <1>1, <1>6 DEF Placed, PendingPlaced
<1> QED BY <1>3, <1>4, <1>5, <1>7 DEF Placed

LEMMA PlacedKeeps == UserTyped /\ BatchTyped /\ Placed /\ Recorded /\ InTurn /\ Logged
                       /\ Settled /\ Sorted /\ [Next]_vars => BatchTyped' /\ Placed'
<1> SUFFICES ASSUME UserTyped, BatchTyped, Placed, Recorded, InTurn, Logged, Settled, Sorted, [Next]_vars
             PROVE  BatchTyped' /\ Placed'
  OBVIOUS
<1>1. CASE Still
  BY <1>1, StillKeeps
<1>2. ASSUME NEW t \in Threads, Joining(t) \/ Opening(t) PROVE BatchTyped' /\ Placed'
  <2>1. PICK x, n : x = LastOf(part[t]) /\ n = Len(batch) + 1
    OBVIOUS
  <2>2. BatchTyped'
    BY <1>2, <2>1, JoiningDoes, OpeningDoes
  <2> QED BY <1>2, <2>2, PlacedJoining, PlacedOpening
<1>3. ASSUME NEW S \in SUBSET Partitions, Drain(S) PROVE BatchTyped' /\ Placed'
  <2>1. PICK heads : heads = Heads(S)
    OBVIOUS
  <2> QED BY <1>3, <2>1, DrainDoes, PlacedDrain
<1>4. ASSUME NEW p \in Partitions, NEW n \in 1..Len(dq[p]), Expire(p, n) PROVE BatchTyped' /\ Placed'
  <2>1. PICK gone : gone = Firsts(p, n)
    OBVIOUS
  <2> QED BY <1>4, <2>1, ExpireDoes, PlacedExpire
<1>5. ASSUME NEW verdicts, NEW retried, Ending(verdicts, retried) PROVE BatchTyped' /\ Placed'
  BY <1>5, EndingDoes, PlacedEnding
<1>6. CASE Abort \/ Clear
  BY <1>6, AbortDoes, ClearDoes, PlacedAbort
<1>7. CASE BrokerHandlesLate \/ \E i \in DOMAIN flight : BrokerHandles(i)
  BY <1>7, HandlesDoes, LateDoes, PlacedBroker
<1> QED BY <1>1, <1>2, <1>3, <1>4, <1>5, <1>6, <1>7, StepCases, Zenon

-----------------------------------------------------------------------------
(* The order of the broker's answers. *)

LEMMA InTurnKeeps == UserTyped /\ BatchTyped /\ Placed /\ Recorded /\ InTurn /\ Logged
                       /\ Settled /\ Sorted /\ [Next]_vars => InTurn'
<1> SUFFICES ASSUME UserTyped, BatchTyped, Placed, Recorded, InTurn, Logged, Settled, Sorted, [Next]_vars
             PROVE  InTurn'
  OBVIOUS
<1>a. /\ \A i \in 1..Len(flight) : Unhandled(flight[i]) => \A b \in Flying(i) : flight[i][b] = Sent
      /\ \A i, j \in 1..Len(flight) : i < j /\ Unhandled(flight[i]) => Unhandled(flight[j])
      /\ Len(flight) \in Nat
  BY TypedIs DEF InTurn
<1>b. ASSUME flight' = flight PROVE InTurn'
  BY <1>b DEF InTurn, Flying
<1>1. CASE Still
  BY <1>1, StillKeeps
<1>2. ASSUME NEW t \in Threads, Joining(t) \/ Opening(t) PROVE InTurn'
  <2>1. flight' = flight
    BY <1>2, Zenon DEF Joining, Opening, netVars
  <2> QED BY <1>b, <2>1
<1>3. ASSUME NEW S \in SUBSET Partitions, Drain(S) PROVE InTurn'
  <2>h. PICK heads, n : heads = Heads(S) /\ n = Len(flight) + 1
    OBVIOUS
  <2>1. /\ heads # {} /\ Len(flight') = n
        /\ \A i \in 1..Len(flight) : flight'[i] = flight[i]
        /\ flight'[n] = [b \in heads |-> Sent]
    BY <1>3, <2>h, DrainDoes
  <2>2. \A i \in 1..n : i \in 1..Len(flight) \/ i = n
    BY <1>a, <2>h
  <2>3. Unhandled(flight'[n]) /\ \A b \in DOMAIN flight'[n] : flight'[n][b] = Sent
    BY <2>1 DEF Unhandled
  <2>4. \A i \in 1..Len(flight') : Unhandled(flight'[i]) => \A b \in DOMAIN flight'[i] : flight'[i][b] = Sent
    BY <1>a, <2>1, <2>2, <2>3 DEF Flying
  <2>5. \A i, j \in 1..Len(flight') : i < j /\ Unhandled(flight'[i]) => Unhandled(flight'[j])
    <3> SUFFICES ASSUME NEW i \in 1..n, NEW j \in 1..n, i < j, Unhandled(flight'[i])
                 PROVE  Unhandled(flight'[j])
      BY <2>1
    <3>1. i \in 1..Len(flight)
      BY <1>a, <2>h
    <3>2. CASE j = n
      BY <2>3, <3>2
    <3>3. CASE j \in 1..Len(flight)
      BY <1>a, <2>1, <3>1, <3>3
    <3> QED BY <2>2, <3>2, <3>3
  <2> QED BY <2>4, <2>5 DEF InTurn, Flying
<1>4. ASSUME NEW p \in Partitions, NEW n \in 1..Len(dq[p]), Expire(p, n) PROVE InTurn'
  <2>1. flight' = flight
    BY <1>4, Zenon DEF Expire
  <2> QED BY <1>b, <2>1
<1>5. ASSUME NEW verdicts, NEW retried, Ending(verdicts, retried) PROVE InTurn'
  <2>1. /\ Len(flight') = Len(flight) - 1
        /\ \A i \in 1..Len(flight') : flight'[i] = flight[i + 1] /\ i + 1 \in 1..Len(flight)
    BY <1>5, EndingDoes
  <2>2. \A i \in 1..Len(flight') : Unhandled(flight'[i]) => \A b \in DOMAIN flight'[i] : flight'[i][b] = Sent
    BY <1>a, <2>1 DEF Flying
  <2>3. \A i, j \in 1..Len(flight') : i < j /\ Unhandled(flight'[i]) => Unhandled(flight'[j])
    <3> SUFFICES ASSUME NEW i \in 1..Len(flight'), NEW j \in 1..Len(flight'), i < j, Unhandled(flight'[i])
                 PROVE  Unhandled(flight'[j])
      OBVIOUS
    <3>1. i + 1 < j + 1 /\ i + 1 \in 1..Len(flight) /\ j + 1 \in 1..Len(flight)
      BY <1>a, <2>1
    <3> QED BY <1>a, <2>1, <3>1
  <2> QED BY <2>2, <2>3 DEF InTurn, Flying
<1>6. CASE Abort \/ Clear
  <2>1. CASE Abort
    BY <1>b, <2>1, AbortDoes
  <2>2. CASE Clear
    BY <2>2, ClearDoes, EmptyRange DEF InTurn
  <2> QED BY <1>6, <2>1, <2>2
<1>7. ASSUME NEW i \in DOMAIN flight, BrokerHandles(i) PROVE InTurn'
  <2>1. PICK taken \in SUBSET Flying(i), error \in {Again, Refused} :
          /\ Answers(i, taken, error)
          /\ i \in 1..Len(flight) /\ \A j \in 1..Len(flight) : j < i => ~Unhandled(flight[j])
    BY <1>7, HandlesDoes
  <2>2. ~Unhandled(flight'[i])
    <3>1. error # Sent /\ \A k : Acked(k) # Sent
      BY DEF Acked, Again, Refused, Sent
    <3> QED BY <2>1, <3>1 DEF Answers, Unhandled
  <2>3. \A j \in 1..Len(flight') : Unhandled(flight'[j]) => \A b \in DOMAIN flight'[j] : flight'[j][b] = Sent
    BY <1>a, <2>1, <2>2 DEF Answers, Flying
  <2>4. \A j, k \in 1..Len(flight') : j < k /\ Unhandled(flight'[j]) => Unhandled(flight'[k])
    BY <1>a, <2>1, <2>2 DEF Answers
  <2> QED BY <2>3, <2>4 DEF InTurn, Flying
<1>8. CASE BrokerHandlesLate
  BY <1>b, <1>8, LateDoes
<1> QED BY <1>1, <1>2, <1>3, <1>4, <1>5, <1>6, <1>7, <1>8, StepCases, Zenon

-----------------------------------------------------------------------------
(* Copies of records. *)

LEMMA CountsTyped == UserTyped /\ BatchTyped =>
  /\ \A p \in Partitions : log[p] \in Seq(Records)
  /\ \A p \in Partitions : \A r : Copies(p, r) \in Nat
  /\ \A b : Lates(b) \in Nat
  /\ \A b \in BatchIds : batch[b].attempts \in Nat /\ batch[b].recs \in Seq(Records)
  /\ config.retries \in Nat /\ config.inFlight \in Nat
<1> SUFFICES ASSUME UserTyped, BatchTyped
             PROVE  /\ \A p \in Partitions : log[p] \in Seq(Records)
                    /\ \A p \in Partitions : \A r : Copies(p, r) \in Nat
                    /\ \A b : Lates(b) \in Nat
                    /\ \A b \in BatchIds : batch[b].attempts \in Nat /\ batch[b].recs \in Seq(Records)
                    /\ config.retries \in Nat /\ config.inFlight \in Nat
  OBVIOUS
<1>1. \A p \in Partitions : log[p] \in Seq(Records)
  BY DEF BatchTyped
<1>2. \A p \in Partitions : \A r : Copies(p, r) \in Nat
  BY <1>1, OccursNot DEF Copies
<1>3. \A b : Lates(b) \in Nat
  BY RequestedIs DEF Lates, BatchTyped
<1>4. \A b \in BatchIds : batch[b].attempts \in Nat /\ batch[b].recs \in Seq(Records)
  BY IdsAre DEF Batches
<1>5. config.retries \in Nat /\ config.inFlight \in Nat
  BY ProducerAssumption DEF UserTyped
<1> QED BY <1>1, <1>2, <1>3, <1>4, <1>5

\* A batch that is open, or not there, is in no request that may come late.
LEMMA NoLates ==
  ASSUME BatchTyped, Placed, NEW b, b \notin BatchIds \/ batch[b].open
  PROVE  Lates(b) = 0 /\ ~Sending(b)
<1>1. {i \in 1..Len(late) : b \in DOMAIN late[i]} = {}
  BY DEF Placed, LatesPlaced
<1>2. ~Sending(b)
  BY PlacesApart DEF Sending
<1> QED BY <1>1, <1>2, FS_EmptySet DEF Lates, Requested

\* A record being sent is in no log.
LEMMA NoCopies ==
  ASSUME BatchTyped, Recorded, Logged, NEW t \in Appending, NEW p \in Partitions
  PROVE  Copies(p, rec[t]) = 0
<1>1. \A b \in BatchIds : rec[t] \notin Range(batch[b].recs)
  BY DEF Recorded
<1>2. rec[t] \notin Range(log[p])
  BY <1>1 DEF Logged, Gathered
<1>3. log[p] \in Seq(Records)
  BY DEF BatchTyped
<1> QED BY <1>2, <1>3, OccursNot DEF Copies

LEMMA GrowsCounts ==
  ASSUME UserTyped, BatchTyped, Recorded, NEW taken, taken \subseteq BatchIds, Grows(taken),
         NEW p \in Partitions, NEW b \in BatchIds, NEW r \in Range(batch[b].recs)
  PROVE  Copies(p, r)' <= Copies(p, r) + (IF b \in taken THEN 1 ELSE 0) /\ Copies(p, r)' \in Nat
<1>0. Copies(p, r) \in Nat /\ log[p] \in Seq(Records)
  BY CountsTyped
<1>1. CASE log'[p] = log[p]
  BY <1>0, <1>1 DEF Copies
<1>2. ASSUME NEW c \in taken, log'[p] = log[p] \o batch[c].recs
      PROVE  Copies(p, r)' <= Copies(p, r) + (IF b \in taken THEN 1 ELSE 0) /\ Copies(p, r)' \in Nat
  <2>1. batch[c].recs \in Seq(Records) /\ Once(batch[c].recs)
    BY CountsTyped DEF Recorded
  <2>2. /\ Occurs(log[p] \o batch[c].recs, r) \in Nat
        /\ Occurs(log[p] \o batch[c].recs, r)
             <= Occurs(log[p], r) + (IF r \in Range(batch[c].recs) THEN 1 ELSE 0)
    BY <1>0, <2>1, OccursMore
  <2>3. r \in Range(batch[c].recs) => b = c
    BY DEF Recorded
  <2>4. /\ Copies(p, r)' \in Nat
        /\ Copies(p, r)' <= Copies(p, r) + (IF r \in Range(batch[c].recs) THEN 1 ELSE 0)
    BY <1>2, <2>2 DEF Copies
  <2> QED BY <1>0, <1>2, <2>3, <2>4
<1> QED BY <1>1, <1>2 DEF Grows

LEMMA GrowsGathers ==
  ASSUME UserTyped, BatchTyped, Recorded, Logged, NEW taken, taken \subseteq BatchIds, Grows(taken),
         \A b \in taken : ~batch[b].open, batch' = batch
  PROVE  Gathered'
<1> SUFFICES ASSUME NEW p \in Partitions, NEW r \in Range(log'[p])
             PROVE  \E b \in BatchIds : ~batch[b].open /\ r \in Range(batch[b].recs)
  BY DEF Gathered, BatchIds
<1>1. CASE log'[p] = log[p]
  BY <1>1 DEF Logged, Gathered
<1>2. ASSUME NEW c \in taken, log'[p] = log[p] \o batch[c].recs
      PROVE  \E b \in BatchIds : ~batch[b].open /\ r \in Range(batch[b].recs)
  <2>1. log[p] \in Seq(Records) /\ batch[c].recs \in Seq(Records)
    BY CountsTyped
  <2>2. Range(log[p] \o batch[c].recs) = Range(log[p]) \union Range(batch[c].recs)
    BY <2>1, RangeConcatenation
  <2>3. CASE r \in Range(log[p])
    BY <2>3 DEF Logged, Gathered
  <2>4. CASE r \in Range(batch[c].recs)
    BY <2>4
  <2> QED BY <1>2, <2>2, <2>3, <2>4
<1> QED BY <1>1, <1>2 DEF Grows

\* Nothing is counted more than before, where nothing more is sent.
LEMMA LoggedFrom ==
  ASSUME UserTyped, BatchTyped, Logged, Same, UNCHANGED <<config, log>>,
         \A b \in BatchIds : /\ batch'[b].attempts \in Nat /\ batch'[b].attempts <= config.retries
                             /\ Lates(b)' \in Nat
                             /\ Lates(b)' + (IF Sending(b)' THEN 1 ELSE 0)
                                  - (batch'[b].attempts + (IF Waits(b)' THEN 0 ELSE 1))
                                <= Lates(b) + (IF Sending(b) THEN 1 ELSE 0)
                                     - (batch[b].attempts + (IF Waits(b) THEN 0 ELSE 1))
  PROVE  Logged'
<1>1. Gathered'
  BY DEF Logged, Gathered, Same
<1>2. Tried'
  BY DEF Tried, Same
<1>3. Counted'
  <2> SUFFICES ASSUME NEW p \in Partitions, NEW b \in BatchIds, NEW r \in Range(batch[b].recs)
               PROVE  Copies(p, r)' + Lates(b)' + (IF Sending(b)' THEN 1 ELSE 0)
                        <= batch'[b].attempts + (IF Waits(b)' THEN 0 ELSE 1)
    BY DEF Counted, Same
  <2>1. Copies(p, r) + Lates(b) + (IF Sending(b) THEN 1 ELSE 0)
          <= batch[b].attempts + (IF Waits(b) THEN 0 ELSE 1)
    BY DEF Logged, Counted
  <2>2. Copies(p, r)' = Copies(p, r)
    BY DEF Copies
  <2>3. Copies(p, r) \in Nat /\ Lates(b) \in Nat /\ batch[b].attempts \in Nat
    BY CountsTyped
  <2> QED BY <2>1, <2>2, <2>3
<1> QED BY <1>1, <1>2, <1>3 DEF Logged

LEMMA LoggedDrain ==
  ASSUME UserTyped, BatchTyped, Placed, Logged, NEW S \in SUBSET Partitions, Drain(S)
  PROVE  Logged'
<1>h. PICK heads, n : heads = Heads(S) /\ n = Len(flight) + 1
  OBVIOUS
<1>1. /\ Same /\ Shrinks(heads) /\ heads \subseteq BatchIds
      /\ \A h \in heads : batch[h].part \in Partitions /\ h \in Queued(batch[h].part)
      /\ \A b \in BatchIds : batch'[b].attempts = batch[b].attempts
      /\ Len(flight') = n
      /\ \A i \in 1..Len(flight) : flight'[i] = flight[i]
      /\ flight'[n] = [b \in heads |-> Sent]
      /\ UNCHANGED <<config, late, log>>
  BY <1>h, DrainDoes
<1>2. /\ Len(flight) \in Nat /\ \A i \in 1..n : i \in 1..Len(flight) \/ i = n
      /\ \A i \in 1..Len(flight) : i \in 1..n
      /\ n \in 1..n
  BY <1>h, TypedIs
<1>3. \A b : Waits(b)' <=> Waits(b) /\ b \notin heads
  BY <1>1 DEF Shrinks, Waits, Queued
<1>4. \A b : Sending(b)' <=> Sending(b) \/ b \in heads
  <2> SUFFICES ASSUME NEW b PROVE Sending(b)' <=> Sending(b) \/ b \in heads
    OBVIOUS
  <2>1. \A i \in 1..Len(flight) : Flying(i)' = Flying(i)
    BY <1>1 DEF Flying
  <2>2. b \in Flying(n)' /\ flight'[n][b] = Sent <=> b \in heads
    <3>1. DOMAIN flight'[n] = heads /\ \A c \in heads : flight'[n][c] = Sent
      BY <1>1
    <3> QED BY <3>1 DEF Flying
  <2> QED BY <1>1, <1>2, <2>1, <2>2 DEF Sending
<1>5. \A b \in heads : Waits(b) /\ ~Sending(b)
  <2>1. \A b \in heads : Waits(b)
    BY <1>1 DEF Waits
  <2>2. \A b : Waits(b) => ~Sending(b)
    BY PlacesApart DEF Sending
  <2> QED BY <2>1, <2>2
<1>6. \A b : Lates(b)' = Lates(b)
  BY <1>1 DEF Lates
<1>7. /\ \A b \in BatchIds : batch[b].attempts \in Nat /\ Lates(b) \in Nat
      /\ \A b \in BatchIds : batch[b].attempts <= config.retries
  BY CountsTyped DEF Logged, Tried
<1> QED BY <1>1, <1>3, <1>4, <1>5, <1>6, <1>7, LoggedFrom

LEMMA LoggedExpire ==
  ASSUME UserTyped, BatchTyped, Placed, Logged,
         NEW p \in Partitions, NEW n \in 1..Len(dq[p]), Expire(p, n)
  PROVE  Logged'
<1>g. PICK gone : gone = Firsts(p, n)
  OBVIOUS
<1>1. /\ Same /\ Shrinks(gone)
      /\ \A b \in BatchIds : batch'[b].attempts = batch[b].attempts
      /\ UNCHANGED <<config, flight, late, log>>
  BY <1>g, ExpireDoes
<1>2. \A b : /\ Waits(b)' => Waits(b)
             /\ Sending(b)' = Sending(b)
             /\ Lates(b)' = Lates(b)
  BY <1>1 DEF Shrinks, Waits, Queued, Sending, Flying, Lates
<1>3. /\ \A b \in BatchIds : batch[b].attempts \in Nat /\ Lates(b) \in Nat
      /\ \A b \in BatchIds : batch[b].attempts <= config.retries
  BY CountsTyped DEF Logged, Tried
<1> QED BY <1>1, <1>2, <1>3, LoggedFrom

LEMMA LoggedEnding ==
  ASSUME UserTyped, BatchTyped, Placed, InTurn, Logged,
         NEW verdicts, NEW retried, Ending(verdicts, retried)
  PROVE  Logged'
<1>1. /\ Same
      /\ 1 \in 1..Len(flight) /\ retried \subseteq Flying(1) /\ Flying(1) \subseteq BatchIds
      /\ \A b \in retried : batch[b].attempts < config.retries
      /\ \A b \in BatchIds :
           batch'[b].attempts = batch[b].attempts + (IF b \in retried THEN 1 ELSE 0)
      /\ Len(flight') = Len(flight) - 1
      /\ \A i \in 1..Len(flight') : flight'[i] = flight[i + 1] /\ i + 1 \in 1..Len(flight)
  BY EndingDoes
<1>2. /\ Refills(retried) /\ flight[1] \in Requests
      /\ \/ ~Unhandled(flight[1]) /\ late' = late
         \/ Unhandled(flight[1]) /\ late' = Append(late, flight[1])
      /\ UNCHANGED <<config, log>>
  BY EndingDoes, Zenon
<1>3. \A b : Waits(b)' <=> Waits(b) \/ b \in retried
  <2>1. \A b \in retried : batch[b].part \in Partitions
    BY <1>1, PlacesApart
  <2> QED BY <1>2, <2>1 DEF Waits, Queued, Refills, Of
<1>4. \A b : Sending(b)' => Sending(b)
  BY <1>1 DEF Sending, Flying
<1>5. \A b \in Flying(1) : ~Waits(b) /\ ~Sending(b)'
  <2> SUFFICES ASSUME NEW b \in Flying(1) PROVE ~Waits(b) /\ ~Sending(b)'
    OBVIOUS
  <2>1. \A i \in 1..Len(flight') : i + 1 # 1
    BY <1>1, TypedIs
  <2>2. \A i \in 1..Len(flight') : b \notin Flying(i)'
    <3>1. \A i \in 1..Len(flight') : Flying(i)' = Flying(i + 1)
      BY <1>1 DEF Flying
    <3> QED BY <1>1, <2>1, <3>1, PlacesApart
  <2>3. ~Waits(b)
    BY <1>1, PlacesApart
  <2> QED BY <2>2, <2>3 DEF Sending
<1>6. \A b : /\ Lates(b)' \in Nat
             /\ b \notin Flying(1) => Lates(b)' <= Lates(b)
             /\ b \in Flying(1) => Lates(b)' <= Lates(b) + (IF Sending(b) THEN 1 ELSE 0)
  <2> SUFFICES ASSUME NEW b
               PROVE  /\ Lates(b)' \in Nat
                      /\ b \notin Flying(1) => Lates(b)' <= Lates(b)
                      /\ b \in Flying(1) => Lates(b)' <= Lates(b) + (IF Sending(b) THEN 1 ELSE 0)
    OBVIOUS
  <2>1. Lates(b) \in Nat /\ late \in Seq(Requests)
    BY CountsTyped DEF BatchTyped
  <2>2. CASE ~Unhandled(flight[1]) /\ late' = late
    <3>1. Lates(b)' = Lates(b)
      BY <2>2 DEF Lates
    <3> QED BY <2>1, <3>1
  <2>3. CASE Unhandled(flight[1]) /\ late' = Append(late, flight[1])
    <3>1. Append(late, flight[1]) \in Seq(Requests)
      BY <1>2, <2>1, AppendProperties
    <3>2. Lates(b)' \in Nat
      BY <2>3, <3>1, RequestedIs DEF Lates
    <3>3. Lates(b)' <= Lates(b) + (IF b \in Flying(1) THEN 1 ELSE 0)
      BY <1>2, <2>1, <2>3, RequestedAppend DEF Lates, Flying
    <3>4. b \in Flying(1) => Sending(b)
      BY <1>1, <2>3 DEF InTurn, Sending
    <3> QED BY <2>1, <3>2, <3>3, <3>4
  <2> QED BY <1>2, <2>2, <2>3
<1>7. /\ \A b \in BatchIds : batch[b].attempts \in Nat /\ Lates(b) \in Nat
      /\ \A b \in BatchIds : batch[b].attempts <= config.retries
      /\ config.retries \in Nat
  BY CountsTyped DEF Logged, Tried
<1>8. ASSUME NEW b \in BatchIds
      PROVE  /\ batch'[b].attempts \in Nat /\ batch'[b].attempts <= config.retries
             /\ Lates(b)' \in Nat
             /\ Lates(b)' + (IF Sending(b)' THEN 1 ELSE 0)
                  - (batch'[b].attempts + (IF Waits(b)' THEN 0 ELSE 1))
                <= Lates(b) + (IF Sending(b) THEN 1 ELSE 0)
                     - (batch[b].attempts + (IF Waits(b) THEN 0 ELSE 1))
  <2>1. CASE b \in Flying(1)
    BY <1>1, <1>3, <1>5, <1>6, <1>7, <2>1
  <2>2. CASE b \notin Flying(1)
    BY <1>1, <1>3, <1>4, <1>6, <1>7, <2>2
  <2> QED BY <2>1, <2>2
<1> QED BY <1>1, <1>2, <1>8, LoggedFrom

LEMMA LoggedAbort ==
  ASSUME UserTyped, BatchTyped, Placed, InTurn, Logged, Abort \/ Clear
  PROVE  Logged'
<1>1. FailIncomplete /\ UNCHANGED <<config, log>>
  BY AbortDoes, ClearDoes
<1>2. Same /\ \A b \in BatchIds : batch'[b].attempts = batch[b].attempts
  BY <1>1, FailIncompleteDoes
<1>3. /\ \A b \in BatchIds : batch[b].attempts \in Nat /\ Lates(b) \in Nat
      /\ \A b \in BatchIds : batch[b].attempts <= config.retries
  BY CountsTyped DEF Logged, Tried
<1>4. CASE Abort
  <2>1. UNCHANGED <<dq, flight, late>>
    BY <1>4, AbortDoes
  <2>2. \A b : Waits(b)' = Waits(b) /\ Sending(b)' = Sending(b) /\ Lates(b)' = Lates(b)
    BY <2>1 DEF Waits, Queued, Sending, Flying, Lates
  <2> QED BY <1>1, <1>2, <1>3, <2>2, LoggedFrom
<1>5. CASE Clear
  <2>1. /\ flight' = <<>> /\ \A p \in Partitions : dq'[p] = <<>>
        /\ \E rest \in Seq(Requests) :
              /\ late' = late \o rest
              /\ \A j \in 1..Len(rest) : \E i \in 1..Len(flight) :
                   rest[j] = flight[i] /\ Unhandled(flight[i])
              /\ \A b : \A j, k \in 1..Len(rest) :
                   b \in DOMAIN rest[j] /\ b \in DOMAIN rest[k] => j = k
    BY <1>5, ClearDoes
  <2>2. PICK rest \in Seq(Requests) :
              /\ late' = late \o rest
              /\ \A j \in 1..Len(rest) : \E i \in 1..Len(flight) :
                   rest[j] = flight[i] /\ Unhandled(flight[i])
              /\ \A b : \A j, k \in 1..Len(rest) :
                   b \in DOMAIN rest[j] /\ b \in DOMAIN rest[k] => j = k
    BY <2>1
  <2>3. \A b : ~Waits(b)' /\ ~Sending(b)'
    BY <2>1, EmptyRange DEF Waits, Queued, Sending
  <2>4. late \in Seq(Requests) /\ late \o rest \in Seq(Requests)
    BY ConcatProperties DEF BatchTyped
  <2>5. ASSUME NEW b
        PROVE  Lates(b)' \in Nat /\ Lates(b)' <= Lates(b) + (IF Sending(b) THEN 1 ELSE 0)
    <3>1. Lates(b)' \in Nat
      BY <2>2, <2>4, RequestedIs DEF Lates
    <3>2. Lates(b) \in Nat
      BY CountsTyped
    <3>3. (\E j \in 1..Len(rest) : b \in DOMAIN rest[j]) => Sending(b)
      BY <2>2 DEF InTurn, Sending, Flying
    <3>4. \A j, k \in 1..Len(rest) : b \in DOMAIN rest[j] /\ b \in DOMAIN rest[k] => j = k
      BY <2>2
    <3>5. Requested(late \o rest, b)
            <= Requested(late, b) + (IF \E j \in 1..Len(rest) : b \in DOMAIN rest[j] THEN 1 ELSE 0)
      BY <2>4, <3>4, RequestedMore
    <3>6. Lates(b)' <= Lates(b) + (IF \E j \in 1..Len(rest) : b \in DOMAIN rest[j] THEN 1 ELSE 0)
      BY <2>2, <3>5 DEF Lates
    <3> QED BY <3>1, <3>2, <3>3, <3>6
  <2>6. ASSUME NEW b \in BatchIds
        PROVE  /\ batch'[b].attempts \in Nat /\ batch'[b].attempts <= config.retries
               /\ Lates(b)' \in Nat
               /\ Lates(b)' + (IF Sending(b)' THEN 1 ELSE 0)
                    - (batch'[b].attempts + (IF Waits(b)' THEN 0 ELSE 1))
                  <= Lates(b) + (IF Sending(b) THEN 1 ELSE 0)
                       - (batch[b].attempts + (IF Waits(b) THEN 0 ELSE 1))
    BY <1>2, <1>3, <2>3, <2>5
  <2> QED BY <1>1, <1>2, <2>6, LoggedFrom
<1> QED BY <1>4, <1>5

\* The broker takes batches that were sent, in flight or late.
LEMMA LoggedBroker ==
  ASSUME UserTyped, BatchTyped, Placed, InTurn, Recorded, Logged,
         BrokerHandlesLate \/ \E i \in DOMAIN flight : BrokerHandles(i)
  PROVE  Logged'
<1>t. /\ \A b \in BatchIds : batch[b].attempts \in Nat
      /\ \A p \in Partitions : \A r : Copies(p, r) \in Nat
      /\ \A b : Lates(b) \in Nat
  BY CountsTyped
<1>0. ASSUME NEW taken, taken \subseteq BatchIds, Grows(taken), \A b \in taken : ~batch[b].open,
             UNCHANGED <<config, batch, dq>>,
             \A b \in BatchIds : /\ Lates(b)' \in Nat
                                 /\ Lates(b)' + (IF Sending(b)' THEN 1 ELSE 0)
                                      + (IF b \in taken THEN 1 ELSE 0)
                                    <= Lates(b) + (IF Sending(b) THEN 1 ELSE 0)
      PROVE  Logged'
  <2>1. Gathered'
    BY <1>0, GrowsGathers
  <2>2. Tried'
    BY <1>0 DEF Logged, Tried, BatchIds
  <2>3. Counted'
    <3> SUFFICES ASSUME NEW p \in Partitions, NEW b \in BatchIds, NEW r \in Range(batch[b].recs)
                 PROVE  Copies(p, r)' + Lates(b)' + (IF Sending(b)' THEN 1 ELSE 0)
                          <= batch[b].attempts + (IF Waits(b)' THEN 0 ELSE 1)
      BY <1>0 DEF Counted, BatchIds
    <3>1. Copies(p, r) + Lates(b) + (IF Sending(b) THEN 1 ELSE 0)
            <= batch[b].attempts + (IF Waits(b) THEN 0 ELSE 1)
      BY DEF Logged, Counted
    <3>2. Waits(b)' = Waits(b)
      BY <1>0 DEF Waits, Queued
    <3>3. /\ Copies(p, r)' <= Copies(p, r) + (IF b \in taken THEN 1 ELSE 0)
          /\ Copies(p, r)' \in Nat
      BY <1>0, GrowsCounts
    <3>4. /\ Lates(b)' \in Nat
          /\ Lates(b)' + (IF Sending(b)' THEN 1 ELSE 0) + (IF b \in taken THEN 1 ELSE 0)
               <= Lates(b) + (IF Sending(b) THEN 1 ELSE 0)
      BY <1>0
    <3> QED BY <1>t, <3>1, <3>2, <3>3, <3>4
  <2> QED BY <2>1, <2>2, <2>3 DEF Logged
<1>1. ASSUME NEW i \in DOMAIN flight, BrokerHandles(i) PROVE Logged'
  <2>1. PICK taken \in SUBSET Flying(i), error \in {Again, Refused} :
          /\ Grows(taken) /\ Answers(i, taken, error)
          /\ i \in 1..Len(flight) /\ Unhandled(flight[i]) /\ Flying(i) \subseteq BatchIds
          /\ UNCHANGED <<config, batch, dq, late>>
    BY <1>1, HandlesDoes
  <2>2. \A b \in Flying(i) : ~Sending(b)' /\ Sending(b)
    <3> SUFFICES ASSUME NEW b \in Flying(i) PROVE ~Sending(b)' /\ Sending(b)
      OBVIOUS
    <3>1. Sending(b)
      BY <2>1 DEF InTurn, Sending
    <3>2. error # Sent /\ \A k : Acked(k) # Sent
      BY DEF Acked, Again, Refused, Sent
    <3>3. flight'[i][b] # Sent
      BY <2>1, <3>2 DEF Answers
    <3>4. \A j \in 1..Len(flight) : j # i => b \notin Flying(j)
      BY <2>1, PlacesApart
    <3>5. \A j \in 1..Len(flight) : Flying(j)' = Flying(j)
      BY <2>1 DEF Answers, Flying
    <3>6. ~Sending(b)'
      BY <2>1, <3>3, <3>4, <3>5 DEF Sending, Answers
    <3> QED BY <3>1, <3>6
  <2>3. \A b : Sending(b)' => Sending(b)
    <3> SUFFICES ASSUME NEW b, Sending(b)', b \notin Flying(i) PROVE Sending(b)
      BY <2>2
    <3>1. PICK j \in 1..Len(flight) : b \in DOMAIN flight'[j] /\ flight'[j][b] = Sent
      BY <2>1 DEF Sending, Flying, Answers
    <3>2. j # i
      BY <2>1, <3>1 DEF Answers
    <3> QED BY <2>1, <3>1, <3>2 DEF Sending, Flying, Answers
  <2>4. \A b : Lates(b)' = Lates(b)
    BY <2>1 DEF Lates
  <2>5. \A b \in taken : b \in BatchIds /\ ~batch[b].open
    BY <2>1, PlacesApart
  <2>6. ASSUME NEW b \in BatchIds
        PROVE  /\ Lates(b)' \in Nat
               /\ Lates(b)' + (IF Sending(b)' THEN 1 ELSE 0) + (IF b \in taken THEN 1 ELSE 0)
                    <= Lates(b) + (IF Sending(b) THEN 1 ELSE 0)
    <3>1. Lates(b) \in Nat /\ Lates(b)' = Lates(b)
      BY <1>t, <2>4
    <3>2. CASE b \in Flying(i)
      BY <2>2, <3>1, <3>2
    <3>3. CASE b \notin Flying(i)
      BY <2>3, <3>1, <3>3
    <3> QED BY <3>2, <3>3
  <2> QED BY <1>0, <2>1, <2>5, <2>6
<1>2. ASSUME BrokerHandlesLate PROVE Logged'
  <2> DEFINE taken == DOMAIN Head(late)
  <2>1. /\ late # <<>> /\ taken \subseteq BatchIds /\ \A b \in taken : ~batch[b].open
        /\ Grows(taken) /\ late' = Tail(late)
        /\ UNCHANGED <<config, batch, dq, flight>>
    BY <1>2, LateDoes
  <2>2. late \in Seq(Requests) /\ Tail(late) \in Seq(Requests)
    BY <2>1, HeadTailProperties DEF BatchTyped
  <2>3. \A b : Sending(b)' = Sending(b)
    BY <2>1 DEF Sending, Flying
  <2>4. ASSUME NEW b \in BatchIds
        PROVE  /\ Lates(b)' \in Nat
               /\ Lates(b)' + (IF Sending(b)' THEN 1 ELSE 0) + (IF b \in taken THEN 1 ELSE 0)
                    <= Lates(b) + (IF Sending(b) THEN 1 ELSE 0)
    <3>1. Requested(Tail(late), b) <= Requested(late, b) - (IF b \in taken THEN 1 ELSE 0)
      BY <2>1, <2>2, RequestedTail
    <3>2. Requested(Tail(late), b) \in Nat
      BY <2>2, RequestedIs
    <3>3. Lates(b)' = Requested(Tail(late), b) /\ Lates(b) = Requested(late, b) /\ Lates(b) \in Nat
      BY <1>t, <2>1 DEF Lates
    <3> HIDE DEF taken
    <3> QED BY <2>3, <3>1, <3>2, <3>3
  <2>5. PICK ids : ids = taken
    OBVIOUS
  <2> HIDE DEF taken
  <2> QED BY <1>0, <2>1, <2>4, <2>5
<1> QED BY <1>1, <1>2

LEMMA LoggedJoining ==
  ASSUME UserTyped, BatchTyped, Placed, Recorded, Logged, NEW t \in Threads, Joining(t)
  PROVE  Logged'
<1>x. PICK x, s : x = LastOf(part[t]) /\ s = rec[t]
  OBVIOUS
<1>1. /\ BatchIds' = BatchIds /\ x \in BatchIds /\ batch[x].open
      /\ x \in Queued(part[t]) /\ part[t] \in Partitions /\ t \in Appending /\ s \in Records
      /\ \A b \in BatchIds :
              /\ batch'[b].attempts = batch[b].attempts /\ batch'[b].open = batch[b].open
              /\ b # x => batch'[b].recs = batch[b].recs
      /\ batch'[x].recs = Append(batch[x].recs, s)
      /\ UNCHANGED <<config, dq, flight, late, log>>
  BY <1>x, JoiningDoes
<1>2. \A b : Waits(b)' = Waits(b) /\ Sending(b)' = Sending(b) /\ Lates(b)' = Lates(b)
  BY <1>1 DEF Waits, Queued, Sending, Flying, Lates
<1>3. \A p \in Partitions : \A r : Copies(p, r)' = Copies(p, r)
  BY <1>1 DEF Copies
<1>4. Range(batch'[x].recs) = Range(batch[x].recs) \union {s}
  BY <1>1, CountsTyped, QueueAppends
<1>5. Waits(x) /\ Lates(x) = 0 /\ ~Sending(x)
  BY <1>1, NoLates DEF Waits
<1>6. \A p \in Partitions : Copies(p, s) = 0
  BY <1>x, <1>1, NoCopies
<1>7. Gathered'
  <2> SUFFICES ASSUME NEW p \in Partitions, NEW r \in Range(log[p])
               PROVE  \E b \in BatchIds : ~batch'[b].open /\ r \in Range(batch'[b].recs)
    BY <1>1 DEF Gathered
  <2>1. PICK b \in BatchIds : ~batch[b].open /\ r \in Range(batch[b].recs)
    BY DEF Logged, Gathered
  <2>2. b # x
    BY <1>1, <2>1
  <2> QED BY <1>1, <2>1, <2>2
<1>8. Tried'
  BY <1>1 DEF Logged, Tried
<1>9. Counted'
  <2> SUFFICES ASSUME NEW p \in Partitions, NEW b \in BatchIds, NEW r \in Range(batch'[b].recs)
               PROVE  Copies(p, r) + Lates(b) + (IF Sending(b) THEN 1 ELSE 0)
                        <= batch[b].attempts + (IF Waits(b) THEN 0 ELSE 1)
    BY <1>1, <1>2, <1>3 DEF Counted
  <2>1. CASE r \in Range(batch[b].recs)
    BY <2>1 DEF Logged, Counted
  <2>2. CASE r \notin Range(batch[b].recs)
    <3>0. b = x
      BY <1>1, <2>2
    <3>1. b = x /\ r = s
      BY <1>4, <2>2, <3>0
    <3>2. batch[x].attempts \in Nat
      BY <1>1, CountsTyped
    <3> QED BY <1>5, <1>6, <3>1, <3>2
  <2> QED BY <2>1, <2>2
<1> QED BY <1>7, <1>8, <1>9 DEF Logged

LEMMA LoggedOpening ==
  ASSUME UserTyped, BatchTyped, Placed, Recorded, Logged, NEW t \in Threads, Opening(t)
  PROVE  Logged'
<1>n. PICK n, s, q : n = Len(batch) + 1 /\ s = rec[t] /\ q = part[t]
  OBVIOUS
<1>1. /\ BatchIds' = BatchIds \union {n} /\ n \notin BatchIds /\ t \in Appending
      /\ q \in Partitions /\ s \in Records
      /\ \A b \in BatchIds : batch'[b] = batch[b]
      /\ batch'[n] = [part |-> part[t], recs |-> <<rec[t]>>, attempts |-> 0, open |-> TRUE]
      /\ Range(dq'[q]) = Range(dq[q]) \union {n}
      /\ \A p \in Partitions : p # q => dq'[p] = dq[p]
      /\ UNCHANGED <<config, flight, late, log>>
  BY <1>n, OpeningDoes
<1>2. batch'[n].attempts = 0 /\ batch'[n].recs = <<s>>
  BY <1>n, <1>1
<1>3. \A b : (Waits(b)' <=> Waits(b) \/ b = n) /\ Sending(b)' = Sending(b) /\ Lates(b)' = Lates(b)
  <2>1. \A b : Sending(b)' = Sending(b) /\ Lates(b)' = Lates(b)
    BY <1>1 DEF Sending, Flying, Lates
  <2>2. Queued(q)' = Queued(q) \union {n} /\ \A p \in Partitions : p # q => Queued(p)' = Queued(p)
    BY <1>1 DEF Queued
  <2>3. \A b : Waits(b)' <=> Waits(b) \/ b = n
    BY <1>1, <2>2 DEF Waits
  <2> QED BY <2>1, <2>3
<1>4. \A p \in Partitions : \A r : Copies(p, r)' = Copies(p, r)
  BY <1>1 DEF Copies
<1>5. Lates(n) = 0 /\ ~Sending(n)
  BY <1>1, NoLates
<1>6. \A p \in Partitions : Copies(p, s) = 0
  BY <1>n, <1>1, NoCopies
<1>7. Gathered'
  BY <1>1 DEF Logged, Gathered
<1>8. config.retries \in Nat
  BY CountsTyped
<1>9. Tried'
  BY <1>1, <1>2, <1>8 DEF Logged, Tried
<1>10. Counted'
  <2> SUFFICES ASSUME NEW p \in Partitions, NEW b \in BatchIds', NEW r \in Range(batch'[b].recs)
               PROVE  Copies(p, r) + Lates(b) + (IF Sending(b) THEN 1 ELSE 0)
                        <= batch'[b].attempts + (IF Waits(b)' THEN 0 ELSE 1)
    BY <1>3, <1>4 DEF Counted
  <2>1. CASE b \in BatchIds
    <3>1. ~(b = n)
      BY <1>1, <2>1
    <3>2. Copies(p, r) + Lates(b) + (IF Sending(b) THEN 1 ELSE 0)
            <= batch[b].attempts + (IF Waits(b) THEN 0 ELSE 1)
      BY <1>1, <2>1 DEF Logged, Counted
    <3> QED BY <1>1, <1>3, <2>1, <3>1, <3>2
  <2>2. CASE b = n
    <3>1. r = s
      <4>1. Range(<<s>>) = {s}
        BY <1>1 DEF Range
      <4> QED BY <1>2, <2>2, <4>1
    <3> QED BY <1>2, <1>3, <1>5, <1>6, <2>2, <3>1
  <2> QED BY <1>1, <2>1, <2>2
<1> QED BY <1>7, <1>9, <1>10 DEF Logged

LEMMA LoggedKeeps == UserTyped /\ BatchTyped /\ Placed /\ Recorded /\ InTurn /\ Logged
                       /\ Settled /\ Sorted /\ [Next]_vars => Logged'
BY StillKeeps, LoggedDrain, LoggedExpire, LoggedEnding, LoggedAbort, LoggedBroker,
   LoggedJoining, LoggedOpening, StepCases, Zenon

-----------------------------------------------------------------------------
(* Records. *)

\* The steps after which a record is where it was.
Quiet ==
  /\ BatchIds' = BatchIds /\ \A b \in BatchIds : batch'[b].recs = batch[b].recs
  /\ sends' = sends
  /\ \A t \in Appending' : t \in Appending /\ rec'[t] = rec[t]

LEMMA LeavesIs ==
  ASSUME UserTyped, NEW t \in Threads, Leaves(t)
  PROVE  \A u \in Appending' : u \in Appending /\ u # t /\ rec'[u] = rec[u]
<1>1. pc' = [pc EXCEPT ![t] = "idle"] /\ rec' = [rec EXCEPT ![t] = 0]
  BY DEF Leaves
<1>2. pc \in [Threads -> {"idle", "begun", "alloc", "wait", "append", "flush", "closing", "join"}]
      /\ rec \in [Threads -> 0..MaxSends]
  BY DEF UserTyped
<1> QED BY <1>1, <1>2 DEF Appending

LEMMA GoesIs ==
  ASSUME UserTyped, NEW t \in Threads, NEW where, Goes(t, where),
         t \in Appending \/ where \notin {"begun", "alloc", "wait", "append"}
  PROVE  \A u \in Appending' : u \in Appending /\ rec'[u] = rec[u]
<1>1. pc' = [pc EXCEPT ![t] = where] /\ rec' = rec
  BY DEF Goes
<1>2. pc \in [Threads -> {"idle", "begun", "alloc", "wait", "append", "flush", "closing", "join"}]
  BY DEF UserTyped
<1> QED BY <1>1, <1>2 DEF Appending

LEMMA RecordCases == UserTyped /\ BatchTyped /\ Placed /\ [Next]_vars =>
  \/ Quiet
  \/ \E t \in Threads : \/ \E p \in Partitions : SendBegins(t, p)
                        \/ Joining(t) \/ Opening(t)
<1> SUFFICES ASSUME UserTyped, BatchTyped, Placed, [Next]_vars
             PROVE  \/ Quiet
                    \/ \E t \in Threads : \/ \E p \in Partitions : SendBegins(t, p)
                                          \/ Joining(t) \/ Opening(t)
  OBVIOUS
<1>a. ASSUME Same, UNCHANGED userVars PROVE Quiet
  <2>1. pc' = pc /\ rec' = rec /\ sends' = sends
    BY <1>a, Zenon DEF userVars
  <2> QED BY <1>a, <2>1 DEF Quiet, Same, Appending
<1>b. ASSUME UNCHANGED <<batch, sends>>, \A t \in Appending' : t \in Appending /\ rec'[t] = rec[t]
      PROVE  Quiet
  BY <1>b DEF Quiet, BatchIds
<1>c. ASSUME UNCHANGED <<batch, userVars>> PROVE Quiet
  <2>1. Same
    BY <1>c DEF Same, BatchIds
  <2> QED BY <1>a, <1>c, <2>1
<1>1. ASSUME NEW t \in Threads, FirstTry(t) PROVE Quiet \/ Joining(t)
  <2>1. CASE UNCHANGED batchVars
    <3>1. batch' = batch /\ sends' = sends
      BY <1>1, <2>1, Zenon DEF FirstTry, batchVars
    <3>2. Leaves(t) \/ (Goes(t, "alloc") /\ t \in Appending)
      BY <1>1, <2>1 DEF FirstTry, Appending
    <3>3. \A u \in Appending' : u \in Appending /\ rec'[u] = rec[u]
      BY <3>2, LeavesIs, GoesIs
    <3> QED BY <1>b, <3>1, <3>3
  <2>2. CASE ~UNCHANGED batchVars
    BY <1>1, <2>2, Zenon DEF FirstTry, Joining
  <2> QED BY <2>1, <2>2
<1>2. ASSUME NEW t \in Threads, SecondTry(t) PROVE Quiet \/ Joining(t) \/ Opening(t)
  <2>1. CASE UNCHANGED batchVars
    <3>1. batch' = batch /\ sends' = sends /\ Leaves(t)
      BY <1>2, <2>1, Zenon DEF SecondTry, batchVars
    <3> QED BY <1>b, <3>1, LeavesIs
  <2>2. CASE ~UNCHANGED batchVars
    BY <1>2, <2>2, Zenon DEF SecondTry, Joining, Opening, LosesBuffer
  <2> QED BY <2>1, <2>2
<1>3. ASSUME NEW t \in Threads,
             \/ Allocate(t) \/ WakeInTurn(t) \/ WakeOutOfTurn(t) \/ WakeForNothing(t)
             \/ FlushBegins(t) \/ FlushReturns(t)
             \/ \E atOnce \in BOOLEAN : CloseBegins(t, atOnce)
             \/ ClosesAccumulator(t) \/ JoinReturns(t)
      PROVE  Quiet
  <2>1. batch' = batch /\ sends' = sends
    BY <1>3, Zenon DEF Allocate, WakeInTurn, WakeOutOfTurn, WakeForNothing, FlushBegins,
         FlushReturns, CloseBegins, ClosesAccumulator, JoinReturns, batchVars
  <2>2. \/ Leaves(t)
        \/ \E where \in {"append", "wait"} : Goes(t, where) /\ t \in Appending
        \/ \E where \in {"flush", "closing", "join"} : Goes(t, where)
    BY <1>3 DEF Allocate, WakeInTurn, WakeOutOfTurn, WakeForNothing, FlushBegins,
         FlushReturns, CloseBegins, ClosesAccumulator, JoinReturns, Appending
  <2>3. \A u \in Appending' : u \in Appending /\ rec'[u] = rec[u]
    <3>1. CASE Leaves(t)
      BY <3>1, LeavesIs
    <3>2. ASSUME NEW where \in {"append", "wait"}, Goes(t, where), t \in Appending
          PROVE  \A u \in Appending' : u \in Appending /\ rec'[u] = rec[u]
      BY <3>2, GoesIs
    <3>3. ASSUME NEW where \in {"flush", "closing", "join"}, Goes(t, where)
          PROVE  \A u \in Appending' : u \in Appending /\ rec'[u] = rec[u]
      <4>1. where \notin {"begun", "alloc", "wait", "append"}
        BY <3>3
      <4> QED BY <3>3, <4>1, GoesIs
    <3> QED BY <2>2, <3>1, <3>2, <3>3
  <2> QED BY <1>b, <2>1, <2>3
<1>4. ASSUME NEW t \in Threads, JoinTimesOut(t) PROVE Quiet
  <2>1. UNCHANGED <<batch, userVars>>
    BY <1>4, Zenon DEF JoinTimesOut, batchVars
  <2> QED BY <1>c, <2>1
<1>5. ASSUME NEW S \in SUBSET Partitions, Drain(S) PROVE Quiet
  <2>1. PICK heads : heads = Heads(S)
    OBVIOUS
  <2>2. Same
    BY <1>5, <2>1, DrainDoes
  <2>3. UNCHANGED userVars
    BY <1>5, Zenon DEF Drain
  <2> QED BY <1>a, <2>2, <2>3
<1>6. ASSUME NEW p \in Partitions, NEW n \in 1..Len(dq[p]), Expire(p, n) PROVE Quiet
  <2>1. PICK gone : gone = Firsts(p, n)
    OBVIOUS
  <2>2. Same
    BY <1>6, <2>1, ExpireDoes
  <2>3. UNCHANGED userVars
    BY <1>6, Zenon DEF Expire
  <2> QED BY <1>a, <2>2, <2>3
<1>7. ASSUME NEW verdicts, NEW retried, Ending(verdicts, retried) PROVE Quiet
  <2>1. Same
    BY <1>7, EndingDoes
  <2>2. UNCHANGED userVars
    BY <1>7, Zenon DEF Ending
  <2> QED BY <1>a, <2>1, <2>2
<1>8. CASE Abort \/ Clear
  <2>1. Same
    BY <1>8, AbortDoes, ClearDoes, FailIncompleteDoes
  <2>2. UNCHANGED userVars
    BY <1>8, Zenon DEF Abort, Clear
  <2> QED BY <1>a, <2>1, <2>2
<1>9. CASE \/ ConnectionLost \/ Connect \/ SenderEnds \/ BrokerHandlesLate \/ UNCHANGED vars
           \/ \E i \in DOMAIN flight : BrokerHandles(i)
  <2>1. UNCHANGED <<batch, userVars>>
    BY <1>9, Zenon DEF ConnectionLost, Connect, SenderEnds, BrokerHandlesLate, BrokerHandles,
         vars, batchVars
  <2> QED BY <1>c, <2>1
<1> QED BY <1>1, <1>2, <1>3, <1>4, <1>5, <1>6, <1>7, <1>8, <1>9, NextCases, EndsCases, Zenon

LEMMA RecordedKeeps == UserTyped /\ BatchTyped /\ Placed /\ Recorded /\ [Next]_vars => Recorded'
<1> SUFFICES ASSUME UserTyped, BatchTyped, Placed, Recorded, [Next]_vars
             PROVE  Recorded'
  OBVIOUS
<1>0. /\ \A t \in Appending : /\ rec[t] \in 1..sends
                              /\ \A b \in BatchIds : rec[t] \notin Range(batch[b].recs)
      /\ \A t, u \in Appending : rec[t] = rec[u] => t = u
      /\ \A b \in BatchIds : Once(batch[b].recs) /\ Range(batch[b].recs) \subseteq 1..sends
      /\ \A b, c \in BatchIds : b # c => Range(batch[b].recs) \cap Range(batch[c].recs) = {}
  BY DEF Recorded
<1>s. sends \in Nat
  BY ProducerAssumption DEF UserTyped
<1>1. CASE Quiet
  BY <1>0, <1>1 DEF Quiet, Recorded
<1>2. ASSUME NEW t \in Threads, NEW p \in Partitions, SendBegins(t, p) PROVE Recorded'
  <2>1. /\ pc[t] = "idle" /\ sends' = sends + 1 /\ batch' = batch
        /\ rec' = [rec EXCEPT ![t] = sends + 1] /\ pc' = [pc EXCEPT ![t] = "begun"]
    BY <1>2, Zenon DEF SendBegins, batchVars
  <2>2. /\ t \notin Appending /\ rec'[t] = sends + 1
        /\ \A u \in Appending' : u = t \/ (u # t /\ u \in Appending /\ rec'[u] = rec[u])
    BY <2>1 DEF UserTyped, Appending
  <2>3. \A b \in BatchIds : sends + 1 \notin Range(batch[b].recs)
    BY <1>0, <1>s
  <2>4. \A u \in Appending' : /\ rec'[u] \in 1..(sends + 1)
                              /\ \A b \in BatchIds : rec'[u] \notin Range(batch[b].recs)
    BY <1>0, <1>s, <2>2, <2>3
  <2>5. \A u, v \in Appending' : rec'[u] = rec'[v] => u = v
    BY <1>0, <1>s, <2>2
  <2>6. \A b \in BatchIds : Once(batch[b].recs) /\ Range(batch[b].recs) \subseteq 1..(sends + 1)
    BY <1>0, <1>s
  <2> QED BY <1>0, <2>1, <2>4, <2>5, <2>6 DEF Recorded, BatchIds
<1>3. ASSUME NEW t \in Threads, Joining(t) PROVE Recorded'
  <2>x. PICK x, s : x = LastOf(part[t]) /\ s = rec[t]
    OBVIOUS
  <2>1. /\ BatchIds' = BatchIds /\ x \in BatchIds /\ t \in Appending /\ s \in Records
        /\ \A b \in BatchIds : b # x => batch'[b].recs = batch[b].recs
        /\ batch'[x].recs = Append(batch[x].recs, s)
        /\ sends' = sends
    BY <1>3, <2>x, JoiningDoes
  <2>2. \A u \in Appending' : u \in Appending /\ u # t /\ rec'[u] = rec[u]
    <3>1. Leaves(t)
      BY <1>3 DEF Joining
    <3> QED BY <3>1, LeavesIs
  <2>3. s \in 1..sends /\ \A b \in BatchIds : s \notin Range(batch[b].recs)
    BY <1>0, <2>x, <2>1
  <2>4. Range(batch'[x].recs) = Range(batch[x].recs) \union {s} /\ Once(batch'[x].recs)
    <3>1. batch[x].recs \in Seq(Records) /\ Once(batch[x].recs) /\ s \notin Range(batch[x].recs)
      BY <1>0, <2>1, <2>3, IdsAre DEF Batches
    <3> QED BY <2>1, <3>1, QueueAppends
  <2>5. \A b \in BatchIds : Once(batch'[b].recs) /\ Range(batch'[b].recs) \subseteq 1..sends
    BY <1>0, <2>1, <2>3, <2>4
  <2>6. \A b \in BatchIds : Range(batch'[b].recs) \subseteq Range(batch[b].recs) \union {s}
    BY <2>1, <2>4
  <2>7. \A u \in Appending' : /\ rec'[u] \in 1..sends
                              /\ \A b \in BatchIds : rec'[u] \notin Range(batch'[b].recs)
    <3> SUFFICES ASSUME NEW u \in Appending'
                 PROVE  rec[u] \in 1..sends /\ \A b \in BatchIds : rec[u] \notin Range(batch'[b].recs)
      BY <2>2
    <3>1. u \in Appending /\ rec[u] # s
      BY <1>0, <2>x, <2>1, <2>2
    <3> QED BY <1>0, <2>6, <3>1
  <2>8. \A b, c \in BatchIds : b # c => Range(batch'[b].recs) \cap Range(batch'[c].recs) = {}
    <3> SUFFICES ASSUME NEW b \in BatchIds, NEW c \in BatchIds, b # c,
                        NEW r \in Range(batch'[b].recs), r \in Range(batch'[c].recs)
                 PROVE  FALSE
      OBVIOUS
    <3>1. CASE r = s
      <4>1. \A d \in BatchIds : d # x => s \notin Range(batch'[d].recs)
        BY <2>1, <2>3
      <4> QED BY <3>1, <4>1
    <3>2. CASE r # s
      <4>1. r \in Range(batch[b].recs) /\ r \in Range(batch[c].recs)
        BY <2>6, <3>2
      <4> QED BY <1>0, <4>1
    <3> QED BY <3>1, <3>2
  <2> QED BY <1>0, <2>1, <2>2, <2>5, <2>7, <2>8 DEF Recorded
<1>4. ASSUME NEW t \in Threads, Opening(t) PROVE Recorded'
  <2>n. PICK n, s : n = Len(batch) + 1 /\ s = rec[t]
    OBVIOUS
  <2>1. /\ BatchIds' = BatchIds \union {n} /\ n \notin BatchIds /\ t \in Appending
        /\ s \in Records
        /\ \A b \in BatchIds : batch'[b] = batch[b]
        /\ batch'[n] = [part |-> part[t], recs |-> <<rec[t]>>, attempts |-> 0, open |-> TRUE]
        /\ sends' = sends
    BY <1>4, <2>n, OpeningDoes
  <2>2. \A u \in Appending' : u \in Appending /\ u # t /\ rec'[u] = rec[u]
    <3>1. Leaves(t)
      BY <1>4 DEF Opening
    <3> QED BY <3>1, LeavesIs
  <2>3. s \in 1..sends /\ \A b \in BatchIds : s \notin Range(batch[b].recs)
    BY <1>0, <2>n, <2>1
  <2>4. Range(batch'[n].recs) = {s} /\ Once(batch'[n].recs)
    <3>1. batch'[n].recs = <<s>>
      BY <2>n, <2>1
    <3>2. Range(<<s>>) = {s} /\ Once(<<s>>)
      BY <2>1 DEF Range, Once
    <3> QED BY <3>1, <3>2
  <2>5. \A b \in BatchIds' : Once(batch'[b].recs) /\ Range(batch'[b].recs) \subseteq 1..sends
    BY <1>0, <2>1, <2>3, <2>4
  <2>7. \A u \in Appending' : /\ rec'[u] \in 1..sends
                              /\ \A b \in BatchIds' : rec'[u] \notin Range(batch'[b].recs)
    <3> SUFFICES ASSUME NEW u \in Appending'
                 PROVE  rec[u] \in 1..sends /\ \A b \in BatchIds' : rec[u] \notin Range(batch'[b].recs)
      BY <2>2
    <3>1. u \in Appending /\ rec[u] # s
      BY <1>0, <2>n, <2>1, <2>2
    <3> QED BY <1>0, <2>1, <2>4, <3>1
  <2>8. \A b, c \in BatchIds' : b # c => Range(batch'[b].recs) \cap Range(batch'[c].recs) = {}
    <3>1. \A b \in BatchIds : Range(batch'[b].recs) \cap Range(batch'[n].recs) = {}
      BY <2>1, <2>3, <2>4
    <3> QED BY <1>0, <2>1, <3>1
  <2> QED BY <1>0, <2>1, <2>2, <2>5, <2>7, <2>8 DEF Recorded
<1> QED BY <1>1, <1>2, <1>3, <1>4, RecordCases, Zenon

-----------------------------------------------------------------------------
(* The users and the pool. *)

\* Taking the waiting thread out of the line.
LEMMA WaitersTyped ==
  ASSUME waiters \in Seq(Records)
  PROVE  /\ waiters # <<>> => Tail(waiters) \in Seq(Records)
         /\ \A r \in Records : Append(waiters, r) \in Seq(Records)
         /\ \A r : r \in Range(waiters) =>
              RemoveAt(waiters, CHOOSE i \in DOMAIN waiters : waiters[i] = r) \in Seq(Records)
<1>1. Len(waiters) \in Nat /\ DOMAIN waiters = 1..Len(waiters)
  BY LenProperties
<1>2. ASSUME NEW r, r \in Range(waiters)
      PROVE  RemoveAt(waiters, CHOOSE i \in DOMAIN waiters : waiters[i] = r) \in Seq(Records)
  <2>1. PICK k : k = CHOOSE i \in DOMAIN waiters : waiters[i] = r
    OBVIOUS
  <2>2. \E i \in DOMAIN waiters : waiters[i] = r
    BY <1>1, <1>2, RangeIs
  <2>3. k \in 1..Len(waiters)
    BY <1>1, <2>1, <2>2
  <2>4. \A i \in 1..Len(waiters) : waiters[i] \in Records
    BY ElementOfSeq
  <2>5. SubSeq(waiters, 1, k - 1) \in Seq(Records)
    <3>1. k - 1 \in Int /\ \A i \in 1..(k - 1) : waiters[i] \in Records
      BY <1>1, <2>3, <2>4
    <3> QED BY <3>1, SubSeqProperties
  <2>6. SubSeq(waiters, k + 1, Len(waiters)) \in Seq(Records)
    <3>1. k + 1 \in Int /\ Len(waiters) \in Int /\ \A i \in (k + 1)..Len(waiters) : waiters[i] \in Records
      BY <1>1, <2>3, <2>4
    <3> QED BY <3>1, SubSeqProperties
  <2>7. RemoveAt(waiters, k) \in Seq(Records)
    BY <2>5, <2>6, ConcatProperties DEF RemoveAt
  <2> QED BY <2>1, <2>7
<1>3. waiters # <<>> => Tail(waiters) \in Seq(Records)
  BY HeadTailProperties
<1>4. \A r \in Records : Append(waiters, r) \in Seq(Records)
  BY AppendProperties
<1> QED BY <1>2, <1>3, <1>4

\* The threads' part of UserTyped, and the rest.
ThreadsTyped ==
  /\ pc \in [Threads -> {"idle", "begun", "alloc", "wait", "append", "flush", "closing", "join"}]
  /\ rec \in [Threads -> 0..MaxSends]
PoolTyped == free \in Nat /\ lost \in Nat /\ waiters \in Seq(Records)
FlagsTyped ==
  /\ running \in BOOLEAN /\ closed \in BOOLEAN /\ force \in BOOLEAN
  /\ sender \in {"run", "abort", "clear", "ended"} /\ up \in BOOLEAN
  /\ muted \subseteq Partitions /\ faults \in 0..MaxFaults
ArgsTyped ==
  /\ config \in Configs /\ sends \in 0..MaxSends /\ part \in [Threads -> Partitions]
  /\ awaited \in [Threads -> SUBSET Nat]

LEMMA PartsTyped == UserTyped =>
  /\ ThreadsTyped /\ PoolTyped /\ FlagsTyped /\ ArgsTyped
  /\ \A t \in Threads : awaited[t] \subseteq BatchIds
BY DEF UserTyped, ThreadsTyped, PoolTyped, FlagsTyped, ArgsTyped

LEMMA PartsTypedAgain ==
  ThreadsTyped' /\ PoolTyped' /\ FlagsTyped' /\ ArgsTyped'
    /\ (\A t \in Threads : awaited'[t] \subseteq BatchIds') => UserTyped'
BY DEF UserTyped, ThreadsTyped, PoolTyped, FlagsTyped, ArgsTyped

LEMMA ThreadsKeep ==
  /\ ThreadsTyped /\ UNCHANGED <<pc, rec>> => ThreadsTyped'
  /\ \A t \in Threads : ThreadsTyped /\ Leaves(t) => ThreadsTyped'
  /\ \A t \in Threads : \A where \in {"alloc", "wait", "append", "flush", "closing", "join"} :
       ThreadsTyped /\ Goes(t, where) => ThreadsTyped'
<1>1. MaxSends \in Nat
  BY ProducerAssumption
<1>2. 0 \in 0..MaxSends
  BY <1>1
<1> QED BY <1>2 DEF ThreadsTyped, Leaves, Goes

LEMMA RestKeep ==
  /\ PoolTyped /\ UNCHANGED poolVars => PoolTyped'
  /\ \A n \in Nat : PoolTyped /\ GiveBack(n) => PoolTyped'
  /\ FlagsTyped /\ UNCHANGED <<muted, senderVars, up, faults>> => FlagsTyped'
  /\ ArgsTyped /\ UNCHANGED <<config, sends, part, awaited>> => ArgsTyped'
BY DEF PoolTyped, FlagsTyped, ArgsTyped, poolVars, senderVars, GiveBack

LEMMA UserMoves ==
  ASSUME UserTyped, BatchTyped, Recorded, NEW t \in Threads,
         \/ \E p \in Partitions : SendBegins(t, p)
         \/ FirstTry(t) \/ Allocate(t) \/ WakeInTurn(t) \/ WakeOutOfTurn(t)
         \/ WakeForNothing(t) \/ SecondTry(t)
  PROVE  ThreadsTyped' /\ PoolTyped' /\ FlagsTyped' /\ ArgsTyped' /\ awaited' = awaited
<1>0. ThreadsTyped /\ PoolTyped /\ FlagsTyped /\ ArgsTyped
  BY PartsTyped
<1>m. MaxSends \in Nat
  BY ProducerAssumption
<1>1. ASSUME NEW p \in Partitions, SendBegins(t, p)
      PROVE  ThreadsTyped' /\ PoolTyped' /\ FlagsTyped' /\ ArgsTyped' /\ awaited' = awaited
  <2>1. /\ sends < MaxSends /\ sends' = sends + 1
        /\ rec' = [rec EXCEPT ![t] = sends + 1] /\ part' = [part EXCEPT ![t] = p]
        /\ pc' = [pc EXCEPT ![t] = "begun"]
        /\ UNCHANGED <<config, awaited>> /\ UNCHANGED poolVars
        /\ UNCHANGED <<muted, senderVars, up, faults>>
    BY <1>1, Zenon DEF SendBegins, batchVars, netVars
  <2>2. sends + 1 \in 0..MaxSends
    BY <1>0, <1>m, <2>1 DEF ArgsTyped
  <2>3. ThreadsTyped'
    BY <1>0, <2>1, <2>2 DEF ThreadsTyped
  <2>4. ArgsTyped'
    BY <1>0, <2>1, <2>2 DEF ArgsTyped
  <2> QED BY <1>0, <2>1, <2>3, <2>4, RestKeep
<1>2. ASSUME \/ FirstTry(t) \/ Allocate(t) \/ WakeInTurn(t) \/ WakeOutOfTurn(t)
             \/ WakeForNothing(t) \/ SecondTry(t)
      PROVE  ThreadsTyped' /\ FlagsTyped' /\ ArgsTyped' /\ awaited' = awaited
  <2>1. /\ UNCHANGED <<config, sends, part, awaited>>
        /\ UNCHANGED <<muted, senderVars, up, faults>>
    BY <1>2, Zenon DEF FirstTry, Allocate, WakeInTurn, WakeOutOfTurn, WakeForNothing, SecondTry,
         batchVars, netVars, Joins, Opens, LosesBuffer
  <2>2. Leaves(t) \/ \E where \in {"alloc", "wait", "append"} : Goes(t, where)
    BY <1>2, Zenon DEF FirstTry, Allocate, WakeInTurn, WakeOutOfTurn, WakeForNothing, SecondTry
  <2>3. ThreadsTyped'
    BY <1>0, <2>2, ThreadsKeep
  <2> QED BY <1>0, <2>1, <2>3, RestKeep
<1>3. ASSUME FirstTry(t) PROVE PoolTyped'
  BY <1>0, <1>3, RestKeep DEF FirstTry
<1>4. ASSUME Allocate(t) PROVE PoolTyped'
  <2>1. /\ pc[t] = "alloc" /\ lost' = lost
        /\ \/ free > 0 /\ free' = free - 1 /\ waiters' = waiters
           \/ free' = free /\ waiters' = Append(waiters, rec[t])
    BY <1>4, Zenon DEF Allocate
  <2>2. rec[t] \in Records
    <3>1. t \in Appending
      BY <2>1 DEF Appending
    <3>2. rec[t] \in 1..sends /\ sends \in 0..MaxSends
      BY <3>1 DEF Recorded, UserTyped
    <3> QED BY <1>m, <3>2 DEF Records
  <2> QED BY <1>0, <2>1, <2>2, WaitersTyped DEF PoolTyped
<1>5. ASSUME WakeInTurn(t) PROVE PoolTyped'
  <2>1. free > 0 /\ free' = free - 1 /\ waiters # <<>> /\ waiters' = Tail(waiters) /\ lost' = lost
    BY <1>5, Zenon DEF WakeInTurn
  <2> QED BY <1>0, <2>1, WaitersTyped DEF PoolTyped
<1>6. ASSUME WakeOutOfTurn(t) PROVE PoolTyped'
  <2>1. /\ free > 0 /\ free' = free - 1 /\ lost' = lost + 1
        /\ waiters' = IF waiters = <<>> THEN <<>> ELSE Tail(waiters)
    BY <1>6, Zenon DEF WakeOutOfTurn
  <2>2. waiters' \in Seq(Records)
    BY <1>0, <2>1, WaitersTyped DEF PoolTyped
  <2> QED BY <1>0, <2>1, <2>2 DEF PoolTyped
<1>7. ASSUME WakeForNothing(t) PROVE PoolTyped'
  <2>1. /\ free' = free /\ lost' = lost
        /\ waiters' = IF rec[t] \in Range(waiters)
                  THEN RemoveAt(waiters, CHOOSE i \in DOMAIN waiters : waiters[i] = rec[t])
                  ELSE waiters
    BY <1>7, Zenon DEF WakeForNothing
  <2>2. waiters' \in Seq(Records)
    BY <1>0, <2>1, WaitersTyped DEF PoolTyped
  <2> QED BY <1>0, <2>1, <2>2 DEF PoolTyped
<1>8. ASSUME SecondTry(t) PROVE PoolTyped'
  <2>1. \/ lost' = lost + 1 /\ UNCHANGED <<free, waiters>>
        \/ GiveBack(1) \/ UNCHANGED poolVars
    BY <1>8, Zenon DEF SecondTry, LosesBuffer
  <2> QED BY <1>0, <2>1, RestKeep DEF PoolTyped
<1> QED BY <1>1, <1>2, <1>3, <1>4, <1>5, <1>6, <1>7, <1>8

LEMMA IncompleteIs == BatchTyped => /\ IsFiniteSet(incomplete) /\ Cardinality(incomplete) \in Nat
                                    /\ incomplete \subseteq Nat
<1> SUFFICES ASSUME BatchTyped
             PROVE  /\ IsFiniteSet(incomplete) /\ Cardinality(incomplete) \in Nat
                    /\ incomplete \subseteq Nat
  OBVIOUS
<1>1. Len(batch) \in Nat /\ incomplete \subseteq 1..Len(batch)
  BY IdsAre DEF BatchTyped
<1>2. IsFiniteSet(incomplete) /\ Cardinality(incomplete) \in Nat
  BY <1>1, PositionsCount
<1> QED BY <1>1, <1>2

LEMMA CallsMove ==
  ASSUME UserTyped, BatchTyped, NEW t \in Threads,
         \/ FlushBegins(t) \/ FlushReturns(t)
         \/ \E atOnce \in BOOLEAN : CloseBegins(t, atOnce)
         \/ ClosesAccumulator(t) \/ JoinTimesOut(t) \/ JoinReturns(t)
  PROVE  /\ ThreadsTyped' /\ PoolTyped' /\ FlagsTyped' /\ ArgsTyped' /\ batch' = batch
         /\ \A u \in Threads : awaited'[u] \subseteq awaited[u] \union incomplete
<1>0. ThreadsTyped /\ PoolTyped /\ FlagsTyped /\ ArgsTyped
  BY PartsTyped
<1>1. UNCHANGED poolVars /\ batch' = batch /\ UNCHANGED <<config, sends, part>>
  BY Zenon DEF FlushBegins, FlushReturns, CloseBegins, ClosesAccumulator, JoinTimesOut, JoinReturns,
     batchVars, userVars
<1>2. UNCHANGED <<pc, rec>> \/ Leaves(t)
      \/ \E where \in {"flush", "closing", "join"} : Goes(t, where)
  BY DEF FlushBegins, FlushReturns, CloseBegins, ClosesAccumulator, JoinTimesOut, JoinReturns,
     userVars
<1>3. ThreadsTyped'
  BY <1>0, <1>2, ThreadsKeep
<1>4. awaited' \in [Threads -> SUBSET Nat]
      /\ \A u \in Threads : awaited'[u] \subseteq awaited[u] \union incomplete
  <2>1. \/ awaited' = awaited
        \/ awaited' = [awaited EXCEPT ![t] = incomplete]
        \/ awaited' = [awaited EXCEPT ![t] = {}]
    BY Zenon DEF FlushBegins, FlushReturns, CloseBegins, ClosesAccumulator, JoinTimesOut, JoinReturns,
       userVars
  <2>2. awaited \in [Threads -> SUBSET Nat] /\ incomplete \subseteq Nat
    BY <1>0, IncompleteIs DEF ArgsTyped
  <2> QED BY <2>1, <2>2
<1>5. ArgsTyped'
  BY <1>0, <1>1, <1>4 DEF ArgsTyped
<1>6. FlagsTyped'
  <2>1. /\ muted' = muted /\ up' = up /\ faults' = faults /\ sender' = sender
        /\ running' \in {running, FALSE} /\ closed' \in {closed, TRUE}
        /\ force' \in {force, TRUE, FALSE}
    BY DEF FlushBegins, FlushReturns, CloseBegins, ClosesAccumulator, JoinTimesOut, JoinReturns,
       batchVars, netVars, senderVars
  <2> QED BY <1>0, <2>1 DEF FlagsTyped
<1> QED BY <1>0, <1>1, <1>3, <1>4, <1>5, <1>6, RestKeep

LEMMA SenderMoves ==
  ASSUME UserTyped, BatchTyped, Placed,
         \/ \E S \in SUBSET Partitions : Drain(S)
         \/ \E p \in Partitions : \E n \in 1..Len(dq[p]) : Expire(p, n)
         \/ \E verdicts, retried : Ending(verdicts, retried)
         \/ ConnectionLost \/ Connect \/ SenderEnds \/ Abort \/ Clear
         \/ BrokerHandlesLate \/ UNCHANGED vars
         \/ \E i \in DOMAIN flight : BrokerHandles(i)
  PROVE  ThreadsTyped' /\ PoolTyped' /\ FlagsTyped' /\ ArgsTyped' /\ awaited' = awaited
<1>0. ThreadsTyped /\ PoolTyped /\ FlagsTyped /\ ArgsTyped
  BY PartsTyped
<1>m. MaxFaults \in Nat
  BY ProducerAssumption
<1>1. UNCHANGED <<config, userVars>>
  BY Zenon DEF Drain, Expire, Ending, ConnectionLost, Connect, SenderEnds, Abort, Clear,
     BrokerHandlesLate, BrokerHandles, vars
<1>2. ThreadsTyped' /\ ArgsTyped' /\ awaited' = awaited
  <2>1. UNCHANGED <<pc, rec>> /\ UNCHANGED <<config, sends, part, awaited>>
    BY <1>1, Zenon DEF userVars
  <2> QED BY <1>0, <2>1, ThreadsKeep, RestKeep
<1>3. PoolTyped'
  <2>1. ASSUME NEW p \in Partitions, NEW n \in 1..Len(dq[p]), Expire(p, n) PROVE PoolTyped'
    <3>1. n \in Nat /\ GiveBack(n)
      <4>1. GiveBack(n)
        BY <2>1, Zenon DEF Expire
      <4>2. Len(dq[p]) \in Nat
        BY TypedIs, LenProperties
      <4> QED BY <4>1, <4>2
    <3> QED BY <1>0, <3>1, RestKeep
  <2>2. ASSUME NEW verdicts, NEW retried, Ending(verdicts, retried) PROVE PoolTyped'
    <3>1. GiveBack(Cardinality(DOMAIN verdicts))
      BY <2>2, Zenon DEF Ending, Complete
    <3>2. DOMAIN verdicts \subseteq 1..Len(batch) /\ Len(batch) \in Nat
      <4>1. DOMAIN verdicts = Flying(1) \ retried /\ Flying(1) \subseteq BatchIds
        BY <2>2, EndingDoes
      <4> QED BY <4>1, IdsAre
    <3>3. Cardinality(DOMAIN verdicts) \in Nat
      BY <3>2, PositionsCount
    <3> QED BY <1>0, <3>1, <3>3, RestKeep
  <2>3. ASSUME Abort \/ Clear PROVE PoolTyped'
    <3>1. GiveBack(Cardinality(incomplete))
      BY <2>3, Zenon DEF Abort, Clear, FailIncomplete
    <3> QED BY <1>0, <3>1, IncompleteIs, RestKeep
  <2>4. ASSUME \/ \E S \in SUBSET Partitions : Drain(S)
               \/ ConnectionLost \/ Connect \/ SenderEnds \/ BrokerHandlesLate \/ UNCHANGED vars
               \/ \E i \in DOMAIN flight : BrokerHandles(i)
        PROVE  PoolTyped'
    <3>1. UNCHANGED poolVars
      BY <2>4, Zenon DEF Drain, ConnectionLost, Connect, SenderEnds, BrokerHandlesLate, BrokerHandles,
         vars
    <3> QED BY <1>0, <3>1, RestKeep
  <2> QED BY <2>1, <2>2, <2>3, <2>4
<1>4. FlagsTyped'
  <2>1. muted' \subseteq Partitions
    <3>1. \/ muted' = muted
          \/ \E S \in SUBSET Partitions : muted' = IF Ordered THEN muted \union S ELSE muted
          \/ \E ids, retried : muted' = Unmute(ids, retried)
      BY Zenon DEF Drain, Expire, Ending, Complete, ConnectionLost, Connect, SenderEnds, Abort,
         Clear, BrokerHandlesLate, BrokerHandles, vars, batchVars
    <3> QED BY <1>0, <3>1 DEF FlagsTyped, Unmute
  <2>2. running' = running /\ closed' = closed /\ force' = force
    BY Zenon DEF Drain, Expire, Ending, ConnectionLost, Connect, SenderEnds, Abort, Clear,
       BrokerHandlesLate, BrokerHandles, vars, senderVars
  <2>3. sender' = sender \/ sender' \in {"ended", "clear", "abort"}
    BY DEF Drain, Expire, Ending, ConnectionLost, Connect, SenderEnds, Abort, Clear,
       BrokerHandlesLate, BrokerHandles, vars, senderVars
  <2>4. up' = up \/ up' = TRUE \/ up' = FALSE
    BY Zenon DEF Drain, Expire, Ending, ConnectionLost, Connect, SenderEnds, Abort, Clear,
       BrokerHandlesLate, BrokerHandles, vars, netVars
  <2>5. faults' = faults \/ (faults < MaxFaults /\ faults' = faults + 1)
    BY Zenon DEF Drain, Expire, Ending, ConnectionLost, Connect, SenderEnds, Abort, Clear,
       BrokerHandlesLate, BrokerHandles, vars, netVars
  <2>6. faults' \in 0..MaxFaults
    BY <1>0, <1>m, <2>5 DEF FlagsTyped
  <2>7. up' \in BOOLEAN
    BY <1>0, <2>4 DEF FlagsTyped
  <2>8. sender' \in {"run", "abort", "clear", "ended"}
    BY <1>0, <2>3 DEF FlagsTyped
  <2>9. running' \in BOOLEAN /\ closed' \in BOOLEAN /\ force' \in BOOLEAN
    BY <1>0, <2>2 DEF FlagsTyped
  <2> QED BY <2>1, <2>6, <2>7, <2>8, <2>9 DEF FlagsTyped
<1> QED BY <1>2, <1>3, <1>4

LEMMA UserKeeps == UserTyped /\ BatchTyped /\ Placed /\ Recorded /\ BatchIds \subseteq BatchIds'
                     /\ [Next]_vars => UserTyped'
<1> SUFFICES ASSUME UserTyped, BatchTyped, Placed, Recorded, BatchIds \subseteq BatchIds', [Next]_vars
             PROVE  UserTyped'
  OBVIOUS
<1>0. \A t \in Threads : awaited[t] \subseteq BatchIds
  BY PartsTyped
<1>1. ASSUME NEW t \in Threads,
             \/ \E p \in Partitions : SendBegins(t, p)
             \/ FirstTry(t) \/ Allocate(t) \/ WakeInTurn(t) \/ WakeOutOfTurn(t)
             \/ WakeForNothing(t) \/ SecondTry(t)
      PROVE  UserTyped'
  BY <1>0, <1>1, UserMoves, PartsTypedAgain
<1>2. ASSUME NEW t \in Threads,
             \/ FlushBegins(t) \/ FlushReturns(t)
             \/ \E atOnce \in BOOLEAN : CloseBegins(t, atOnce)
             \/ ClosesAccumulator(t) \/ JoinTimesOut(t) \/ JoinReturns(t)
      PROVE  UserTyped'
  <2>1. /\ ThreadsTyped' /\ PoolTyped' /\ FlagsTyped' /\ ArgsTyped' /\ batch' = batch
        /\ \A u \in Threads : awaited'[u] \subseteq awaited[u] \union incomplete
    BY <1>2, CallsMove
  <2>2. incomplete \subseteq BatchIds
    BY DEF BatchTyped
  <2> QED BY <1>0, <2>1, <2>2, PartsTypedAgain
<1>3. ASSUME \/ \E S \in SUBSET Partitions : Drain(S)
             \/ \E p \in Partitions : \E n \in 1..Len(dq[p]) : Expire(p, n)
             \/ \E verdicts, retried : Ending(verdicts, retried)
             \/ ConnectionLost \/ Connect \/ SenderEnds \/ Abort \/ Clear
             \/ BrokerHandlesLate \/ UNCHANGED vars
             \/ \E i \in DOMAIN flight : BrokerHandles(i)
      PROVE  UserTyped'
  BY <1>0, <1>3, SenderMoves, PartsTypedAgain
<1> QED BY <1>1, <1>2, <1>3, NextCases, EndsCases, Zenon

\* A sequence without repetition has as many values as positions.
LEMMA FirstsCount ==
  ASSUME NEW S, NEW q \in Seq(S), Once(q), NEW n \in 1..Len(q)
  PROVE  /\ IsFiniteSet({q[i] : i \in 1..n}) /\ Cardinality({q[i] : i \in 1..n}) = n
<1> DEFINE f == [i \in 1..n |-> q[i]]
           T == {q[i] : i \in 1..n}
<1>0. Len(q) \in Nat /\ n \in Nat /\ 1..n \subseteq 1..Len(q)
  BY LenProperties
<1>1. f \in [1..n -> T]
  OBVIOUS
<1>2. \A i, j \in 1..n : f[i] = f[j] => i = j
  BY <1>0 DEF Once
<1>3. \A x \in T : \E i \in 1..n : f[i] = x
  OBVIOUS
<1> HIDE DEF f, T
<1>4. f \in Bijection(1..n, T)
  BY <1>1, <1>2, <1>3 DEF Bijection, Injection, Surjection, IsInjective
<1>5. IsFiniteSet(1..n) /\ Cardinality(1..n) = n
  BY <1>0, FS_Interval
<1>6. IsFiniteSet(T) /\ Cardinality(T) = n
  BY <1>4, <1>5, FS_Bijection DEF ExistsBijection
<1> QED BY <1>6 DEF T

\* Batches complete: their buffers come back.
LEMMA CompletesKeep ==
  ASSUME UserTyped, BatchTyped, Buffered, NEW ids, ids \subseteq incomplete,
         NEW n, n = Cardinality(ids), GiveBack(n), incomplete' = incomplete \ ids,
         UNCHANGED <<config, pc>>
  PROVE  Buffered'
<1>1. /\ IsFiniteSet(incomplete) /\ Cardinality(incomplete) \in Nat
      /\ IsFiniteSet(Holding) /\ Cardinality(Holding) \in Nat
      /\ free + Cardinality(incomplete) + Cardinality(Holding) + lost = config.buffers
      /\ free \in Nat /\ lost \in Nat
  BY IncompleteIs, FS_CardinalityType DEF Buffered, BuffersAccounted, UserTyped
<1>2. incomplete \cap ids = ids
  OBVIOUS
<1>3. /\ IsFiniteSet(ids) /\ n \in Nat
      /\ Cardinality(incomplete \ ids) = Cardinality(incomplete) - n
  <2>1. IsFiniteSet(ids)
    BY <1>1, FS_Subset
  <2>2. n \in Nat
    BY <2>1, FS_CardinalityType
  <2>3. Cardinality(incomplete \ ids) = Cardinality(incomplete) - Cardinality(incomplete \cap ids)
    BY <1>1, <2>1, FS_Difference
  <2> QED BY <1>2, <2>1, <2>2, <2>3
<1>4. Holding' = Holding
  BY DEF Holding
<1>5. free' = free + n /\ lost' = lost
  BY DEF GiveBack
<1>6. free' + Cardinality(incomplete \ ids) + Cardinality(Holding) + lost' = config.buffers
  BY <1>1, <1>3, <1>5
<1> QED BY <1>1, <1>4, <1>6 DEF Buffered, BuffersAccounted

\* The threads that hold a buffer.
LEMMA HoldingIs ==
  ASSUME UserTyped, IsFiniteSet(Holding), NEW t \in Threads
  PROVE  /\ Leaves(t) => Holding' = Holding \ {t}
         /\ Goes(t, "append") => Holding' = Holding \union {t}
         /\ \A where : Goes(t, where) /\ where # "append" => Holding' = Holding \ {t}
         /\ Cardinality(Holding) \in Nat
         /\ IsFiniteSet(Holding \ {t}) /\ IsFiniteSet(Holding \union {t})
         /\ pc[t] = "append" => Cardinality(Holding \ {t}) = Cardinality(Holding) - 1
         /\ pc[t] # "append" => /\ Cardinality(Holding \union {t}) = Cardinality(Holding) + 1
                                /\ Holding \ {t} = Holding
<1>1. pc \in [Threads -> {"idle", "begun", "alloc", "wait", "append", "flush", "closing", "join"}]
  BY DEF UserTyped
<1>2. pc[t] = "append" <=> t \in Holding
  BY DEF Holding
<1>3. /\ Leaves(t) => Holding' = Holding \ {t}
      /\ Goes(t, "append") => Holding' = Holding \union {t}
      /\ \A where : Goes(t, where) /\ where # "append" => Holding' = Holding \ {t}
  BY <1>1 DEF Holding, Leaves, Goes
<1>4. /\ IsFiniteSet(Holding \ {t}) /\ IsFiniteSet(Holding \union {t})
      /\ Cardinality(Holding \ {t}) = IF t \in Holding THEN Cardinality(Holding) - 1 ELSE Cardinality(Holding)
      /\ Cardinality(Holding \union {t}) = IF t \in Holding THEN Cardinality(Holding) ELSE Cardinality(Holding) + 1
      /\ Cardinality(Holding) \in Nat
  BY FS_AddElement, FS_RemoveElement, FS_CardinalityType
<1>5. pc[t] = "append" => Cardinality(Holding \ {t}) = Cardinality(Holding) - 1
  BY <1>2, <1>4
<1>6. pc[t] # "append" => Cardinality(Holding \union {t}) = Cardinality(Holding) + 1
  BY <1>2, <1>4
<1>7. pc[t] # "append" => Holding \ {t} = Holding
  BY <1>2
<1> QED BY <1>3, <1>4, <1>5, <1>6, <1>7

LEMMA BufferedUser ==
  ASSUME UserTyped, BatchTyped, Buffered, Placed, NEW t \in Threads,
         \/ \E p \in Partitions : SendBegins(t, p)
         \/ FirstTry(t) \/ Allocate(t) \/ WakeInTurn(t) \/ WakeOutOfTurn(t)
         \/ WakeForNothing(t) \/ SecondTry(t)
         \/ FlushBegins(t) \/ FlushReturns(t)
         \/ \E atOnce \in BOOLEAN : CloseBegins(t, atOnce)
         \/ ClosesAccumulator(t) \/ JoinTimesOut(t) \/ JoinReturns(t)
  PROVE  Buffered'
<1>1. /\ IsFiniteSet(incomplete) /\ Cardinality(incomplete) \in Nat
      /\ IsFiniteSet(Holding)
      /\ free + Cardinality(incomplete) + Cardinality(Holding) + lost = config.buffers
      /\ free \in Nat /\ lost \in Nat
  BY IncompleteIs DEF Buffered, BuffersAccounted, UserTyped
<1>2. /\ Leaves(t) => Holding' = Holding \ {t}
      /\ Goes(t, "append") => Holding' = Holding \union {t}
      /\ \A where : Goes(t, where) /\ where # "append" => Holding' = Holding \ {t}
      /\ Cardinality(Holding) \in Nat
      /\ IsFiniteSet(Holding \ {t}) /\ IsFiniteSet(Holding \union {t})
      /\ pc[t] = "append" => Cardinality(Holding \ {t}) = Cardinality(Holding) - 1
      /\ pc[t] # "append" => /\ Cardinality(Holding \union {t}) = Cardinality(Holding) + 1
                             /\ Holding \ {t} = Holding
  BY <1>1, HoldingIs
<1>a. ASSUME UNCHANGED <<config, incomplete, free, lost>>, Holding' = Holding PROVE Buffered'
  BY <1>1, <1>a DEF Buffered, BuffersAccounted
<1>3. ASSUME \/ \E p \in Partitions : SendBegins(t, p)
             \/ FirstTry(t) \/ WakeForNothing(t)
             \/ FlushBegins(t) \/ FlushReturns(t)
             \/ \E atOnce \in BOOLEAN : CloseBegins(t, atOnce)
             \/ ClosesAccumulator(t) \/ JoinTimesOut(t) \/ JoinReturns(t)
      PROVE  Buffered'
  <2>1. UNCHANGED <<config, incomplete, free, lost>>
    BY <1>3, Zenon DEF SendBegins, FirstTry, WakeForNothing, FlushBegins, FlushReturns, CloseBegins,
         ClosesAccumulator, JoinTimesOut, JoinReturns, Joins, batchVars, poolVars
  <2>2. Holding' = Holding
    <3>1. CASE \E p \in Partitions : SendBegins(t, p)
      <4>1. pc[t] = "idle" /\ pc' = [pc EXCEPT ![t] = "begun"]
        BY <3>1, Zenon DEF SendBegins
      <4> QED BY <4>1 DEF Holding, UserTyped
    <3>2. CASE JoinTimesOut(t)
      BY <3>2 DEF JoinTimesOut, userVars, Holding
    <3>3. CASE \/ FirstTry(t) \/ WakeForNothing(t) \/ FlushBegins(t) \/ FlushReturns(t)
               \/ \E atOnce \in BOOLEAN : CloseBegins(t, atOnce)
               \/ ClosesAccumulator(t) \/ JoinReturns(t)
      <4>1. pc[t] # "append"
        BY <3>3 DEF FirstTry, WakeForNothing, FlushBegins, FlushReturns, CloseBegins,
             ClosesAccumulator, JoinReturns
      <4>2. Leaves(t) \/ \E where \in {"alloc", "flush", "closing", "join"} : Goes(t, where)
        BY <3>3, Zenon DEF FirstTry, WakeForNothing, FlushBegins, FlushReturns, CloseBegins,
             ClosesAccumulator, JoinReturns
      <4> QED BY <1>2, <4>1, <4>2
    <3> QED BY <1>3, <3>1, <3>2, <3>3
  <2> QED BY <1>a, <2>1, <2>2
<1>4. ASSUME Allocate(t) \/ WakeInTurn(t) PROVE Buffered'
  <2>1. /\ pc[t] # "append" /\ UNCHANGED <<config, incomplete, lost>>
        /\ \/ free > 0 /\ free' = free - 1 /\ Goes(t, "append")
           \/ free' = free /\ Goes(t, "wait")
    BY <1>4 DEF Allocate, WakeInTurn, batchVars
  <2>2. CASE free > 0 /\ free' = free - 1 /\ Goes(t, "append")
    <3>1. Holding' = Holding \union {t} /\ Cardinality(Holding \union {t}) = Cardinality(Holding) + 1
      BY <1>2, <2>1, <2>2
    <3>2. free' + Cardinality(incomplete) + Cardinality(Holding \union {t}) + lost = config.buffers
      BY <1>1, <1>2, <2>2, <3>1
    <3> QED BY <1>2, <2>1, <3>1, <3>2 DEF Buffered, BuffersAccounted
  <2>3. CASE free' = free /\ Goes(t, "wait")
    BY <1>a, <1>2, <2>1, <2>3
  <2> QED BY <2>1, <2>2, <2>3
<1>5. ASSUME WakeOutOfTurn(t) PROVE Buffered'
  <2>1. /\ pc[t] # "append" /\ UNCHANGED <<config, incomplete>>
        /\ free > 0 /\ free' = free - 1 /\ lost' = lost + 1 /\ Leaves(t)
    BY <1>5 DEF WakeOutOfTurn, batchVars
  <2>2. Holding' = Holding
    BY <1>2, <2>1
  <2>3. free' + Cardinality(incomplete) + Cardinality(Holding) + lost' = config.buffers
    BY <1>1, <1>2, <2>1
  <2> QED BY <1>1, <2>1, <2>2, <2>3 DEF Buffered, BuffersAccounted
<1>6. ASSUME SecondTry(t) PROVE Buffered'
  <2>1. /\ pc[t] = "append" /\ Leaves(t) /\ config' = config
        /\ \/ LosesBuffer(t) \/ (Joins(t) /\ GiveBack(1)) \/ (Opens(t) /\ UNCHANGED poolVars)
    BY <1>6, Zenon DEF SecondTry
  <2>2. /\ \/ free' = free /\ lost' = lost + 1 /\ incomplete' = incomplete
           \/ free' = free + 1 /\ lost' = lost /\ incomplete' = incomplete
           \/ free' = free /\ lost' = lost /\ incomplete' = incomplete \union {Len(batch) + 1}
    BY <2>1, Zenon DEF LosesBuffer, Joins, Opens, GiveBack, poolVars, batchVars
  <2>3. Holding' = Holding \ {t} /\ Cardinality(Holding \ {t}) = Cardinality(Holding) - 1
    BY <1>2, <2>1
  <2>4. Cardinality(incomplete \union {Len(batch) + 1}) = Cardinality(incomplete) + 1
    <3>1. Len(batch) + 1 \notin incomplete
      BY IdsAre DEF BatchTyped
    <3> QED BY <1>1, <3>1, FS_AddElement
  <2>5. free' + Cardinality(incomplete') + Cardinality(Holding \ {t}) + lost' = config.buffers
    <3>1. CASE free' = free /\ lost' = lost + 1 /\ incomplete' = incomplete
      <4>1. Cardinality(incomplete') = Cardinality(incomplete)
        BY <3>1
      <4> QED BY <1>1, <1>2, <2>3, <3>1, <4>1
    <3>2. CASE free' = free + 1 /\ lost' = lost /\ incomplete' = incomplete
      <4>1. Cardinality(incomplete') = Cardinality(incomplete)
        BY <3>2
      <4> QED BY <1>1, <1>2, <2>3, <3>2, <4>1
    <3>3. CASE free' = free /\ lost' = lost /\ incomplete' = incomplete \union {Len(batch) + 1}
      <4>1. Cardinality(incomplete') = Cardinality(incomplete) + 1
        BY <2>4, <3>3
      <4> QED BY <1>1, <1>2, <2>3, <3>3, <4>1
    <3> QED BY <2>2, <3>1, <3>2, <3>3
  <2> QED BY <1>2, <2>1, <2>3, <2>5 DEF Buffered, BuffersAccounted
<1> QED BY <1>3, <1>4, <1>5, <1>6

LEMMA BufferedKeeps == UserTyped /\ BatchTyped /\ Placed /\ Buffered /\ [Next]_vars => Buffered'
<1> SUFFICES ASSUME UserTyped, BatchTyped, Placed, Buffered, [Next]_vars
             PROVE  Buffered'
  OBVIOUS
<1>0. sender = "run" => \A b \in BatchIds : Waits(b) \/ Flies(b) => b \in incomplete
  BY DEF Placed, PendingPlaced
<1>1. ASSUME NEW p \in Partitions, NEW n \in 1..Len(dq[p]), Expire(p, n) PROVE Buffered'
  <2>g. PICK gone : gone = Firsts(p, n)
    OBVIOUS
  <2>1. /\ gone \subseteq BatchIds /\ gone \subseteq Queued(p) /\ incomplete' = incomplete \ gone
    BY <1>1, <2>g, ExpireDoes
  <2>2. GiveBack(n) /\ sender = "run" /\ UNCHANGED <<config, pc>>
    BY <1>1, Zenon DEF Expire, Looping, userVars
  <2>3. n = Cardinality(gone)
    <3>1. dq[p] \in Seq(Nat) /\ Once(dq[p])
      BY TypedIs
    <3>2. Cardinality({dq[p][i] : i \in 1..n}) = n
      BY <3>1, FirstsCount
    <3> QED BY <2>g, <3>2 DEF Firsts
  <2>4. gone \subseteq incomplete
    BY <1>0, <2>1, <2>2 DEF Waits
  <2> QED BY <2>1, <2>2, <2>3, <2>4, CompletesKeep
<1>2. ASSUME NEW verdicts, NEW retried, Ending(verdicts, retried) PROVE Buffered'
  <2>1. /\ DOMAIN verdicts = Flying(1) \ retried /\ Flying(1) \subseteq BatchIds
        /\ incomplete' = incomplete \ DOMAIN verdicts
        /\ 1 \in 1..Len(flight)
    BY <1>2, EndingDoes
  <2>2. GiveBack(Cardinality(DOMAIN verdicts)) /\ sender = "run" /\ UNCHANGED <<config, pc>>
    BY <1>2, Zenon DEF Ending, Complete, userVars
  <2>3. DOMAIN verdicts \subseteq incomplete
    BY <1>0, <2>1, <2>2 DEF Flies
  <2>4. PICK n : n = Cardinality(DOMAIN verdicts)
    OBVIOUS
  <2> QED BY <2>1, <2>2, <2>3, <2>4, CompletesKeep
<1>3. ASSUME Abort \/ Clear PROVE Buffered'
  <2>1. /\ GiveBack(Cardinality(incomplete)) /\ incomplete' = {}
        /\ UNCHANGED <<config, pc>>
    BY <1>3, Zenon DEF Abort, Clear, FailIncomplete, userVars
  <2>2. PICK n : n = Cardinality(incomplete)
    OBVIOUS
  <2>3. incomplete' = incomplete \ incomplete
    BY <2>1
  <2> QED BY <2>1, <2>2, <2>3, CompletesKeep
<1>4. ASSUME \/ \E S \in SUBSET Partitions : Drain(S)
             \/ ConnectionLost \/ Connect \/ SenderEnds \/ BrokerHandlesLate \/ UNCHANGED vars
             \/ \E i \in DOMAIN flight : BrokerHandles(i)
      PROVE  Buffered'
  <2>1. UNCHANGED <<config, incomplete, free, lost, pc>>
    BY <1>4, Zenon DEF Drain, ConnectionLost, Connect, SenderEnds, BrokerHandlesLate, BrokerHandles,
         vars, userVars, poolVars, batchVars
  <2> QED BY <2>1 DEF Buffered, BuffersAccounted, Holding
<1> QED BY <1>1, <1>2, <1>3, <1>4, BufferedUser, NextCases, EndsCases, Zenon

-----------------------------------------------------------------------------
(* What is said to be taken is at its offset. *)

LEMMA TakenIs ==
  /\ \A b, v : v \in Taken(b) <=>
       /\ v.kind = "acked"
       /\ v = result[b] \/ \E j \in 1..Len(flight) : b \in Flying(j) /\ v = flight[j][b]
  /\ \A b, v : v \in Taken(b)' <=>
       /\ v.kind = "acked"
       /\ v = result'[b] \/ \E j \in 1..Len(flight') : b \in Flying(j)' /\ v = flight'[j][b]
BY DEF Taken, Flying

LEMMA TakenTyped ==
  ASSUME BatchTyped, Placed, NEW b \in BatchIds, NEW v \in Taken(b)
  PROVE  v.at \in Nat
<1>1. CASE v = result[b]
  BY <1>1, IdsAre DEF Results
<1>2. CASE \E j \in 1..Len(flight) : b \in Flying(j) /\ v = flight[j][b]
  <2>1. PICK j \in 1..Len(flight) : b \in Flying(j) /\ v = flight[j][b]
    BY <1>2
  <2>2. flight[j] \in Requests
    BY TypedIs
  <2>3. v \in Verdicts
    BY <2>1, <2>2, RequestIs DEF Flying
  <2> QED BY <2>3 DEF Verdicts
<1> QED BY <1>1, <1>2, TakenIs

\* Of no batch more is said to be taken, and those of which something is are as
\* they were.
TakenKept ==
  \A b \in BatchIds' : \A v \in Taken(b)' :
    /\ b \in BatchIds /\ v \in Taken(b)
    /\ batch'[b].part = batch[b].part /\ batch'[b].recs = batch[b].recs
    /\ batch'[b].open => batch[b].open

LEMMA TakenDrain ==
  ASSUME BatchTyped, Placed, NEW S \in SUBSET Partitions, Drain(S)
  PROVE  TakenKept
<1>h. PICK heads, n : heads = Heads(S) /\ n = Len(flight) + 1
  OBVIOUS
<1>1. /\ Same /\ result' = result /\ Len(flight') = n
      /\ \A i \in 1..Len(flight) : flight'[i] = flight[i]
      /\ flight'[n] = [b \in heads |-> Sent]
  BY <1>h, DrainDoes
<1>2. /\ \A i \in 1..n : i \in 1..Len(flight) \/ i = n
      /\ \A b \in heads : [c \in heads |-> Sent][b].kind # "acked"
  BY <1>h, TypedIs DEF Sent
<1>3. ASSUME NEW b \in BatchIds, NEW v \in Taken(b)' PROVE v \in Taken(b)
  <2>0. v.kind = "acked"
    BY TakenIs
  <2>1. CASE v = result'[b]
    BY <1>1, <2>0, <2>1, TakenIs
  <2>2. CASE \E j \in 1..n : b \in Flying(j)' /\ v = flight'[j][b]
    <3>1. PICK j \in 1..n : b \in Flying(j)' /\ v = flight'[j][b]
      BY <2>2
    <3>2. j # n
      BY <1>1, <1>2, <2>0, <3>1 DEF Flying
    <3>3. j \in 1..Len(flight) /\ b \in Flying(j) /\ v = flight[j][b]
      BY <1>1, <1>2, <3>1, <3>2 DEF Flying
    <3> QED BY <2>0, <3>3, TakenIs
  <2> QED BY <1>1, <2>1, <2>2, TakenIs
<1> QED BY <1>1, <1>3 DEF TakenKept, Same

LEMMA TakenFails ==
  ASSUME BatchTyped, Placed, Same, NEW ids,
         \A b \in BatchIds : result'[b] = IF b \in ids THEN Failed ELSE result[b],
         flight' = flight \/ flight' = <<>>
  PROVE  TakenKept
<1>1. ASSUME NEW b \in BatchIds, NEW v \in Taken(b)' PROVE v \in Taken(b)
  <2>0. v.kind = "acked"
    BY TakenIs
  <2>1. CASE v = result'[b]
    <3>1. v = result[b]
      BY <2>0, <2>1 DEF Failed
    <3> QED BY <2>0, <3>1, TakenIs
  <2>2. CASE \E j \in 1..Len(flight') : b \in Flying(j)' /\ v = flight'[j][b]
    <3>1. flight' = flight
      BY <2>2, EmptyRange
    <3>2. \E j \in 1..Len(flight) : b \in Flying(j) /\ v = flight[j][b]
      BY <2>2, <3>1 DEF Flying
    <3> QED BY <2>0, <3>2, TakenIs
  <2> QED BY <2>1, <2>2, TakenIs
<1> QED BY <1>1 DEF TakenKept, Same

LEMMA TakenEnding ==
  ASSUME BatchTyped, Placed, NEW verdicts, NEW retried, Ending(verdicts, retried)
  PROVE  TakenKept
<1>a. /\ Same /\ 1 \in 1..Len(flight)
      /\ retried \subseteq Flying(1) /\ DOMAIN verdicts = Flying(1) \ retried
      /\ \A b \in BatchIds :
           result'[b] = IF b \in DOMAIN verdicts THEN verdicts[b] ELSE result[b]
      /\ \A i \in 1..Len(flight') : flight'[i] = flight[i + 1] /\ i + 1 \in 1..Len(flight)
  BY EndingDoes
<1>c. \A b \in DOMAIN verdicts : \/ verdicts[b] = Failed
                                 \/ verdicts[b] = flight[1][b] /\ verdicts[b].kind = "acked"
  BY EndingDoes, Zenon
<1>1. /\ Same /\ 1 \in 1..Len(flight)
      /\ DOMAIN verdicts \subseteq Flying(1)
      /\ \A b \in BatchIds :
           result'[b] = IF b \in DOMAIN verdicts THEN verdicts[b] ELSE result[b]
      /\ \A i \in 1..Len(flight') : flight'[i] = flight[i + 1] /\ i + 1 \in 1..Len(flight)
      /\ \A b \in DOMAIN verdicts : \/ verdicts[b] = Failed
                                    \/ verdicts[b] = flight[1][b] /\ verdicts[b].kind = "acked"
  BY <1>a, <1>c
<1>2. ASSUME NEW b \in BatchIds, NEW v \in Taken(b)' PROVE v \in Taken(b)
  <2>0. v.kind = "acked"
    BY TakenIs
  <2>1. CASE v = result'[b]
    <3>1. v = result[b] \/ (b \in Flying(1) /\ v = flight[1][b])
      BY <1>1, <2>0, <2>1 DEF Failed
    <3> QED BY <1>1, <2>0, <3>1, TakenIs
  <2>2. CASE \E j \in 1..Len(flight') : b \in Flying(j)' /\ v = flight'[j][b]
    <3>1. PICK j \in 1..Len(flight') : b \in Flying(j)' /\ v = flight'[j][b]
      BY <2>2
    <3>2. j + 1 \in 1..Len(flight) /\ b \in Flying(j + 1) /\ v = flight[j + 1][b]
      BY <1>1, <3>1 DEF Flying
    <3> QED BY <2>0, <3>2, TakenIs
  <2> QED BY <2>1, <2>2, TakenIs
<1> QED BY <1>1, <1>2 DEF TakenKept, Same

LEMMA TakenSame ==
  ASSUME BatchTyped, UNCHANGED <<batch, result, flight>>
  PROVE  TakenKept
<1>1. ASSUME NEW b, NEW v \in Taken(b)' PROVE v \in Taken(b)
  BY TakenIs DEF Flying
<1> QED BY <1>1 DEF TakenKept, BatchIds

LEMMA TakenJoining ==
  ASSUME UserTyped, BatchTyped, Placed, Recorded, Settled, NEW t \in Threads, Joining(t)
  PROVE  TakenKept
<1>x. PICK x : x = LastOf(part[t])
  OBVIOUS
<1>1. /\ BatchIds' = BatchIds /\ x \in BatchIds /\ batch[x].open
      /\ \A b \in BatchIds :
           /\ batch'[b].part = batch[b].part /\ batch'[b].open = batch[b].open
           /\ b # x => batch'[b].recs = batch[b].recs
      /\ UNCHANGED <<result, flight>>
  BY <1>x, JoiningDoes
<1>2. ASSUME NEW b, NEW v \in Taken(b)' PROVE v \in Taken(b)
  BY <1>1, TakenIs DEF Flying
<1>3. \A v \in Taken(x) : FALSE
  BY <1>1 DEF Settled
<1> QED BY <1>1, <1>2, <1>3 DEF TakenKept

LEMMA TakenOpening ==
  ASSUME UserTyped, BatchTyped, Placed, Recorded, NEW t \in Threads, Opening(t)
  PROVE  TakenKept
<1>n. PICK n : n = Len(batch) + 1
  OBVIOUS
<1>1. /\ BatchIds' = BatchIds \union {n} /\ n \notin BatchIds
      /\ \A b \in BatchIds : batch'[b] = batch[b] /\ result'[b] = result[b]
      /\ result'[n] = Pending /\ flight' = flight
  BY <1>n, OpeningDoes
<1>2. \A j \in 1..Len(flight) : n \notin Flying(j)
  BY <1>1, PlacesApart
<1>3. ASSUME NEW b \in BatchIds', NEW v \in Taken(b)' PROVE b \in BatchIds /\ v \in Taken(b)
  <2>0. v.kind = "acked"
    BY TakenIs
  <2>1. CASE v = result'[b]
    <3>1. b # n
      BY <1>1, <2>0, <2>1 DEF Pending
    <3> QED BY <1>1, <2>0, <2>1, <3>1, TakenIs
  <2>2. CASE \E j \in 1..Len(flight') : b \in Flying(j)' /\ v = flight'[j][b]
    <3>1. \E j \in 1..Len(flight) : b \in Flying(j) /\ v = flight[j][b]
      BY <1>1, <2>2 DEF Flying
    <3>2. b # n
      BY <1>2, <3>1
    <3> QED BY <1>1, <2>0, <3>1, <3>2, TakenIs
  <2> QED BY <2>1, <2>2, TakenIs
<1> QED BY <1>1, <1>3 DEF TakenKept

\* The logs only grow.
LogsGrow == \A p \in Partitions : log'[p] = log[p] \/ \E s \in Seq(Records) : log'[p] = log[p] \o s

\* What a prefix holds, and what is added behind it.
LEMMA PrefixKept ==
  ASSUME NEW S, NEW q \in Seq(S), NEW s \in Seq(S)
  PROVE  /\ Len(q \o s) = Len(q) + Len(s) /\ Len(q) \in Nat /\ Len(s) \in Nat
         /\ SubSeq(q \o s, Len(q) + 1, Len(q) + Len(s)) = s
         /\ \A m \in Nat, n \in 0..Len(q) : SubSeq(q \o s, m + 1, n) = SubSeq(q, m + 1, n)
<1> DEFINE r == q \o s
<1>0. /\ r \in Seq(S) /\ Len(r) = Len(q) + Len(s)
      /\ \A i \in 1..(Len(q) + Len(s)) : r[i] = IF i <= Len(q) THEN q[i] ELSE s[i - Len(q)]
      /\ Len(q) \in Nat /\ Len(s) \in Nat
  BY ConcatProperties, LenProperties
<1> HIDE DEF r
<1>1. SubSeq(r, Len(q) + 1, Len(q) + Len(s)) = s
  <2> DEFINE u == SubSeq(r, Len(q) + 1, Len(q) + Len(s))
  <2>1. /\ u \in Seq(S) /\ Len(u) = Len(s)
        /\ \A i \in 1..Len(s) : u[i] = r[(Len(q) + 1) + i - 1]
    BY <1>0, SubSeqProperties
  <2>2. ASSUME NEW i \in 1..Len(s) PROVE u[i] = s[i]
    <3> DEFINE k == (Len(q) + 1) + i - 1
    <3>1. k \in 1..(Len(q) + Len(s)) /\ ~(k <= Len(q)) /\ k - Len(q) = i
      BY <1>0
    <3>2. u[i] = r[k]
      BY <2>1
    <3> HIDE DEF k
    <3> QED BY <1>0, <3>1, <3>2
  <2> HIDE DEF u
  <2>3. u = s
    BY <2>1, <2>2, SeqEqual
  <2> QED BY <2>3 DEF u
<1>2. ASSUME NEW m \in Nat, NEW n \in 0..Len(q)
      PROVE  SubSeq(r, m + 1, n) = SubSeq(q, m + 1, n)
  <2> DEFINE u == SubSeq(r, m + 1, n)
             v == SubSeq(q, m + 1, n)
             k == IF m + 1 <= n THEN n - m ELSE 0
  <2>1. /\ u \in Seq(S) /\ Len(u) = k /\ \A i \in 1..k : u[i] = r[(m + 1) + i - 1]
    BY <1>0, SubSeqProperties
  <2>2. /\ v \in Seq(S) /\ Len(v) = k /\ \A i \in 1..k : v[i] = q[(m + 1) + i - 1]
    BY <1>0, SubSeqProperties
  <2>3. ASSUME NEW i \in 1..k PROVE r[(m + 1) + i - 1] = q[(m + 1) + i - 1]
    <3> DEFINE j == (m + 1) + i - 1
    <3>1. j \in 1..(Len(q) + Len(s)) /\ j <= Len(q)
      BY <1>0
    <3> HIDE DEF j
    <3>2. r[j] = q[j]
      BY <1>0, <3>1
    <3> QED BY <3>2 DEF j
  <2> HIDE DEF u, v, k
  <2>4. u = v
    BY <2>1, <2>2, <2>3, SeqEqual
  <2> QED BY <2>4 DEF u, v
<1> QED BY <1>0, <1>1, <1>2 DEF r

LEMMA SettledFrom ==
  ASSUME BatchTyped, Placed, Settled, LogsGrow,
         NEW b \in BatchIds', NEW v \in Taken(b)',
         b \in BatchIds, v \in Taken(b),
         batch'[b].part = batch[b].part, batch'[b].recs = batch[b].recs,
         batch'[b].open => batch[b].open
  PROVE  /\ ~batch'[b].open
         /\ v.at + Len(batch'[b].recs) <= Len(log'[batch'[b].part])
         /\ SubSeq(log'[batch'[b].part], v.at + 1, v.at + Len(batch'[b].recs)) = batch'[b].recs
<1>p. PICK p, q, m, n : p = batch[b].part /\ q = log[p] /\ m = v.at /\ n = v.at + Len(batch[b].recs)
  OBVIOUS
<1>1. /\ p \in Partitions /\ q \in Seq(Records) /\ Len(q) \in Nat /\ Len(batch[b].recs) \in Nat
      /\ m \in Nat
  BY <1>p, IdsAre, TakenTyped, LenProperties DEF Batches, BatchTyped
<1>2. ~batch[b].open /\ n <= Len(q) /\ SubSeq(q, m + 1, n) = batch[b].recs
  BY <1>p DEF Settled
<1>3. n \in 0..Len(q)
  BY <1>p, <1>1, <1>2
<1>4. CASE log'[p] = log[p]
  BY <1>p, <1>2, <1>4
<1>5. CASE \E s \in Seq(Records) : log'[p] = log[p] \o s
  <2>1. PICK s \in Seq(Records) : log'[p] = q \o s
    BY <1>p, <1>5
  <2>2. Len(q \o s) = Len(q) + Len(s) /\ Len(s) \in Nat /\ SubSeq(q \o s, m + 1, n) = SubSeq(q, m + 1, n)
    BY <1>1, <1>3, PrefixKept
  <2>3. n <= Len(q \o s)
    BY <1>1, <1>3, <2>2
  <2> QED BY <1>p, <1>2, <2>1, <2>2, <2>3
<1> QED BY <1>1, <1>4, <1>5 DEF LogsGrow

\* The batches the broker takes are said to be at the ends of the logs.
LEMMA TakenHandles ==
  ASSUME BatchTyped, Placed, NEW i \in DOMAIN flight, BrokerHandles(i)
  PROVE  \E taken \in SUBSET Flying(i) :
           /\ Grows(taken) /\ i \in 1..Len(flight) /\ Unhandled(flight[i])
           /\ \A j \in 1..Len(flight) : j < i => ~Unhandled(flight[j])
           /\ UNCHANGED <<config, batch, result, dq>>
           /\ Len(flight') = Len(flight) /\ \A j \in 1..Len(flight) : Flying(j)' = Flying(j)
           /\ \A b \in BatchIds : \A v \in Taken(b)' :
                \/ v \in Taken(b)
                \/ b \in taken /\ v = Acked(Len(log[batch[b].part]))
<1>1. PICK taken \in SUBSET Flying(i), error \in {Again, Refused} :
        /\ Grows(taken)
        /\ i \in 1..Len(flight) /\ Unhandled(flight[i])
        /\ \A j \in 1..Len(flight) : j < i => ~Unhandled(flight[j])
        /\ Answers(i, taken, error)
        /\ UNCHANGED <<config, batch, result, dq>>
  BY HandlesDoes
<1>2. Len(flight') = Len(flight) /\ \A j \in 1..Len(flight) : Flying(j)' = Flying(j)
  BY <1>1 DEF Answers, Flying
<1>3. ASSUME NEW b \in BatchIds, NEW v \in Taken(b)'
      PROVE  v \in Taken(b) \/ (b \in taken /\ v = Acked(Len(log[batch[b].part])))
  <2>0. v.kind = "acked"
    BY TakenIs
  <2>1. CASE v = result'[b]
    BY <1>1, <2>0, <2>1, TakenIs
  <2>2. CASE \E j \in 1..Len(flight') : b \in Flying(j)' /\ v = flight'[j][b]
    <3>1. PICK j \in 1..Len(flight) : b \in Flying(j) /\ v = flight'[j][b]
      BY <1>2, <2>2
    <3>2. CASE j # i
      <4>1. flight'[j] = flight[j]
        BY <1>1, <3>2 DEF Answers
      <4> QED BY <2>0, <3>1, <4>1, TakenIs
    <3>3. CASE j = i
      <4>1. v = IF b \in taken THEN Acked(Len(log[batch[b].part])) ELSE error
        BY <1>1, <3>1, <3>3 DEF Answers
      <4>2. error.kind # "acked"
        BY <1>1 DEF Again, Refused
      <4> QED BY <2>0, <4>1, <4>2
    <3> QED BY <3>2, <3>3
  <2> QED BY <2>1, <2>2, TakenIs
<1> QED BY <1>1, <1>2, <1>3

LEMMA GrowsLogs ==
  ASSUME BatchTyped, NEW taken, taken \subseteq BatchIds, Grows(taken)
  PROVE  LogsGrow
<1>1. \A b \in taken : batch[b].recs \in Seq(Records)
  BY IdsAre DEF Batches
<1> QED BY <1>1 DEF Grows, LogsGrow

LEMMA SettledHandles ==
  ASSUME BatchTyped, Placed, Settled, NEW i \in DOMAIN flight, BrokerHandles(i)
  PROVE  Settled'
<1>1. PICK taken \in SUBSET Flying(i) :
           /\ Grows(taken) /\ i \in 1..Len(flight)
           /\ UNCHANGED <<config, batch, result, dq>>
           /\ \A b \in BatchIds : \A v \in Taken(b)' :
                \/ v \in Taken(b)
                \/ b \in taken /\ v = Acked(Len(log[batch[b].part]))
  BY TakenHandles
<1>2. /\ Flying(i) \subseteq BatchIds /\ \A b \in Flying(i) : ~batch[b].open
      /\ \A b, c \in Flying(i) : batch[b].part = batch[c].part => b = c
  BY <1>1, PlacesApart
<1>3. LogsGrow /\ batch' = batch /\ BatchIds' = BatchIds
  BY <1>1, <1>2, GrowsLogs DEF BatchIds
<1>4. ASSUME NEW b \in BatchIds, NEW v \in Taken(b)'
      PROVE  /\ ~batch[b].open
             /\ v.at + Len(batch[b].recs) <= Len(log'[batch[b].part])
             /\ SubSeq(log'[batch[b].part], v.at + 1, v.at + Len(batch[b].recs)) = batch[b].recs
  <2>1. CASE v \in Taken(b)
    BY <1>3, <1>4, <2>1, SettledFrom
  <2>2. CASE b \in taken /\ v = Acked(Len(log[batch[b].part]))
    <3>p. PICK p, q, s : p = batch[b].part /\ q = log[p] /\ s = batch[b].recs
      OBVIOUS
    <3>1. p \in Partitions /\ q \in Seq(Records) /\ s \in Seq(Records)
      BY <3>p, IdsAre DEF Batches, BatchTyped
    <3>2. PICK c \in taken : batch[c].part = p /\ log'[p] = log[p] \o batch[c].recs
      BY <1>1, <2>2, <3>p, <3>1 DEF Grows, Has
    <3>3. c = b
      BY <1>1, <1>2, <2>2, <3>p, <3>2
    <3>4. log'[p] = q \o s /\ v.at = Len(q)
      BY <2>2, <3>p, <3>2, <3>3 DEF Acked
    <3>5. /\ Len(q \o s) = Len(q) + Len(s) /\ Len(q) \in Nat /\ Len(s) \in Nat
          /\ SubSeq(q \o s, Len(q) + 1, Len(q) + Len(s)) = s
      BY <3>1, PrefixKept
    <3>6. v.at + Len(s) <= Len(log'[p]) /\ SubSeq(log'[p], v.at + 1, v.at + Len(s)) = s
      BY <3>4, <3>5
    <3> QED BY <1>1, <1>2, <2>2, <3>p, <3>6
  <2> QED BY <1>1, <2>1, <2>2
<1> QED BY <1>3, <1>4 DEF Settled

LEMMA SettledKeeps == UserTyped /\ BatchTyped /\ Placed /\ InTurn /\ Recorded /\ Logged /\ Settled
                        /\ Sorted /\ [Next]_vars => Settled'
<1> SUFFICES ASSUME UserTyped, BatchTyped, Placed, InTurn, Recorded, Logged, Settled, Sorted, [Next]_vars
             PROVE  Settled'
  OBVIOUS
<1>0. ASSUME TakenKept, LogsGrow PROVE Settled'
  BY <1>0, SettledFrom DEF Settled, TakenKept
<1>1. ASSUME log' = log PROVE LogsGrow
  BY <1>1 DEF LogsGrow
<1>2. ASSUME NEW S \in SUBSET Partitions, Drain(S) PROVE Settled'
  <2>1. log' = log
    BY <1>2 DEF Drain
  <2> QED BY <1>0, <1>1, <1>2, <2>1, TakenDrain
<1>3. ASSUME NEW p \in Partitions, NEW n \in 1..Len(dq[p]), Expire(p, n) PROVE Settled'
  <2>g. PICK gone : gone = Firsts(p, n)
    OBVIOUS
  <2>1. /\ Same /\ flight' = flight /\ log' = log
        /\ \A b \in BatchIds : result'[b] = IF b \in gone THEN Failed ELSE result[b]
    BY <1>3, <2>g, ExpireDoes
  <2> QED BY <1>0, <1>1, <2>1, TakenFails
<1>4. ASSUME NEW verdicts, NEW retried, Ending(verdicts, retried) PROVE Settled'
  <2>1. log' = log
    BY <1>4, Zenon DEF Ending
  <2> QED BY <1>0, <1>1, <1>4, <2>1, TakenEnding
<1>5. ASSUME Abort \/ Clear PROVE Settled'
  <2>1. /\ FailIncomplete /\ log' = log
        /\ flight' = flight \/ flight' = <<>>
    BY <1>5, Zenon DEF Abort, Clear, netVars
  <2>2. /\ Same
        /\ \A b \in BatchIds : result'[b] = IF b \in incomplete THEN Failed ELSE result[b]
    BY <2>1, FailIncompleteDoes
  <2> QED BY <1>0, <1>1, <2>1, <2>2, TakenFails
<1>6. ASSUME BrokerHandlesLate PROVE Settled'
  <2>1. /\ DOMAIN Head(late) \subseteq BatchIds /\ Grows(DOMAIN Head(late))
        /\ UNCHANGED <<batch, result, flight>>
    BY <1>6, LateDoes
  <2> QED BY <1>0, <2>1, GrowsLogs, TakenSame
<1>7. ASSUME NEW t \in Threads, Joining(t) \/ Opening(t) PROVE Settled'
  <2>1. log' = log
    BY <1>7, Zenon DEF Joining, Opening, netVars
  <2> QED BY <1>0, <1>1, <1>7, <2>1, TakenJoining, TakenOpening
<1> QED BY <1>2, <1>3, <1>4, <1>5, <1>6, <1>7, SettledHandles, StillKeeps, StepCases, Zenon

-----------------------------------------------------------------------------
(* Order. *)

LEMMA SortedIs == Sorted /\ InOrder =>
  /\ QueuesSorted /\ FlightsSorted /\ SentFirst /\ AckedFirst /\ OffsetsSorted
  /\ Ordered => Len(flight) <= 1
BY DEF Sorted

LEMMA SortedIf ==
  ASSUME config' = config,
         InOrder => /\ QueuesSorted' /\ FlightsSorted' /\ SentFirst' /\ AckedFirst' /\ OffsetsSorted'
                    /\ Ordered => Len(flight') <= 1
  PROVE  Sorted'
<1>1. InOrder' = InOrder /\ Ordered' = Ordered
  BY DEF InOrder, Ordered
<1> QED BY <1>1 DEF Sorted

LEMMA OffsetsKept ==
  ASSUME OffsetsSorted, TakenKept
  PROVE  OffsetsSorted'
<1> SUFFICES ASSUME NEW b \in BatchIds', NEW c \in BatchIds', NEW v \in Taken(b)', NEW w \in Taken(c)',
                    b < c, batch'[b].part = batch'[c].part
             PROVE  v.at + Len(batch'[b].recs) <= w.at
  BY DEF OffsetsSorted
<1>1. /\ b \in BatchIds /\ v \in Taken(b) /\ batch'[b].part = batch[b].part
      /\ batch'[b].recs = batch[b].recs
      /\ c \in BatchIds /\ w \in Taken(c) /\ batch'[c].part = batch[c].part
  BY DEF TakenKept
<1> QED BY <1>1 DEF OffsetsSorted

\* Batches leave queues, and fail; at most, every request goes.
LEMMA SortedLess ==
  ASSUME BatchTyped, Placed, Sorted, config' = config, TakenKept, Same,
         \A p \in Partitions : Queued(p)' \subseteq Queued(p) /\ (Rises(dq[p]) => Rises(dq'[p])),
         flight' = flight \/ flight' = <<>>,
         \A b \in BatchIds : result'[b].kind = "acked" => result[b].kind = "acked"
  PROVE  Sorted'
<1>0. /\ Len(flight') = Len(flight) \/ Len(flight') = 0
      /\ Len(flight) \in Nat /\ 1..0 = {}
      /\ \A i \in 1..Len(flight') : i \in 1..Len(flight) /\ Flying(i)' = Flying(i)
      /\ \A b : Waits(b)' \/ Flies(b)' => Waits(b) \/ Flies(b)
  <2>1. Len(flight) \in Nat /\ Len(<<>>) = 0 /\ 1..0 = {}
    BY TypedIs, EmptyRange
  <2>2. Len(flight') = Len(flight) \/ Len(flight') = 0
    BY <2>1
  <2>3. \A i \in 1..Len(flight') : i \in 1..Len(flight) /\ Flying(i)' = Flying(i)
    BY <2>1 DEF Flying
  <2> QED BY <2>1, <2>2, <2>3 DEF Waits, Flies
<1>1. /\ BatchIds' = BatchIds
      /\ \A b \in BatchIds : batch'[b].part = batch[b].part
  BY DEF Same
<1> SUFFICES ASSUME InOrder
             PROVE  /\ QueuesSorted' /\ FlightsSorted' /\ SentFirst' /\ AckedFirst' /\ OffsetsSorted'
                    /\ Ordered => Len(flight') <= 1
  BY SortedIf
<1>2. /\ QueuesSorted /\ FlightsSorted /\ SentFirst /\ AckedFirst /\ OffsetsSorted
      /\ Ordered => Len(flight) <= 1
  BY SortedIs
<1>3. \A i \in 1..Len(flight) : \A b \in Flying(i) : b \in BatchIds /\ batch[b].part \in Partitions
  BY PlacesApart
<1>4. QueuesSorted'
  BY <1>2 DEF QueuesSorted
<1>5. FlightsSorted'
  BY <1>0, <1>1, <1>2, <1>3 DEF FlightsSorted
<1>6. SentFirst'
  BY <1>0, <1>1, <1>2, <1>3 DEF SentFirst
<1>7. AckedFirst'
  BY <1>0, <1>1, <1>2 DEF AckedFirst
<1>8. Ordered => Len(flight') <= 1
  BY <1>0, <1>2
<1> QED BY <1>2, <1>4, <1>5, <1>6, <1>7, <1>8, OffsetsKept

LEMMA SortedDrain ==
  ASSUME UserTyped, BatchTyped, Placed, Sorted, NEW S \in SUBSET Partitions, Drain(S)
  PROVE  Sorted'
<1>h. PICK heads, n : heads = Heads(S) /\ n = Len(flight) + 1
  OBVIOUS
<1>1. /\ Same /\ Shrinks(heads) /\ heads \subseteq BatchIds
      /\ \A h \in heads : /\ batch[h].part \in Partitions /\ h \in Queued(batch[h].part)
                          /\ ~batch'[h].open
                          /\ Rises(dq[batch[h].part]) =>
                               \A x \in Queued(batch[h].part) \ heads : h < x
      /\ Len(flight') = n /\ Len(flight) < config.inFlight
      /\ \A i \in 1..Len(flight) : flight'[i] = flight[i]
      /\ flight'[n] = [b \in heads |-> Sent]
      /\ UNCHANGED <<config, result>>
  BY <1>h, DrainDoes
<1>2. /\ Len(flight) \in Nat /\ \A i \in 1..n : i \in 1..Len(flight) \/ i = n
      /\ \A i \in 1..Len(flight) : i < n
  BY <1>h, TypedIs
<1>3. Flying(n)' = heads /\ \A i \in 1..Len(flight) : Flying(i)' = Flying(i)
  BY <1>1 DEF Flying
<1>4. \A p \in Partitions : Queued(p)' = Queued(p) \ heads /\ (Rises(dq[p]) => Rises(dq'[p]))
  BY <1>1 DEF Shrinks, Queued
<1>q. \A p \in Partitions : Range(dq'[p]) = Queued(p) \ heads
  BY <1>1 DEF Shrinks, Queued
<1>5. /\ BatchIds' = BatchIds /\ BatchIds \subseteq Nat
      /\ \A b \in BatchIds : batch'[b].part = batch[b].part
  BY <1>1, IdsAre DEF Same
<1> SUFFICES ASSUME InOrder
             PROVE  /\ QueuesSorted' /\ FlightsSorted' /\ SentFirst' /\ AckedFirst' /\ OffsetsSorted'
                    /\ Ordered => Len(flight') <= 1
  BY <1>1, SortedIf
<1>6. /\ QueuesSorted /\ FlightsSorted /\ SentFirst /\ AckedFirst /\ OffsetsSorted
      /\ Ordered => Len(flight) <= 1
  BY SortedIs
<1>7. \A i \in 1..Len(flight) : \A b \in Flying(i) : b \in BatchIds /\ batch[b].part \in Partitions
  BY PlacesApart
<1>8. QueuesSorted'
  BY <1>4, <1>6 DEF QueuesSorted
<1>9. FlightsSorted'
  <2> SUFFICES ASSUME NEW i \in 1..n, NEW j \in 1..n, NEW b \in Flying(i)', NEW c \in Flying(j)',
                      batch'[b].part = batch'[c].part, i < j
               PROVE  b < c
    BY <1>1 DEF FlightsSorted
  <2>1. i \in 1..Len(flight) /\ b \in Flying(i) /\ b \in BatchIds
    BY <1>2, <1>3, <1>7
  <2>2. CASE j \in 1..Len(flight)
    BY <1>3, <1>5, <1>6, <1>7, <2>1, <2>2 DEF FlightsSorted
  <2>3. CASE j = n
    <3>1. c \in heads /\ c \in BatchIds /\ c \in Queued(batch[c].part)
      BY <1>1, <1>3, <2>3
    <3>2. batch[b].part = batch[c].part
      BY <1>5, <2>1, <3>1
    <3> QED BY <1>6, <2>1, <3>1, <3>2 DEF SentFirst
  <2> QED BY <1>2, <2>2, <2>3
<1>10. SentFirst'
  <2> SUFFICES ASSUME NEW i \in 1..n, NEW b \in Flying(i)', NEW c \in Range(dq'[batch'[b].part])
               PROVE  b < c
    BY <1>1 DEF SentFirst, Queued
  <2>1. CASE i \in 1..Len(flight)
    <3>1. b \in Flying(i) /\ batch'[b].part = batch[b].part /\ batch[b].part \in Partitions
      BY <1>3, <1>5, <1>7, <2>1
    <3>2. c \in Queued(batch[b].part)
      BY <1>q, <3>1
    <3> QED BY <1>6, <2>1, <3>1, <3>2 DEF SentFirst
  <2>2. CASE i = n
    <3>1. b \in heads /\ batch'[b].part = batch[b].part /\ batch[b].part \in Partitions
      BY <1>1, <1>3, <1>5, <2>2
    <3>2. c \in Queued(batch[b].part) \ heads
      BY <1>q, <3>1
    <3> QED BY <1>1, <1>6, <3>1, <3>2 DEF QueuesSorted
  <2> QED BY <1>2, <2>1, <2>2
<1>11. \A b : Waits(b)' \/ Flies(b)' => Waits(b) \/ Flies(b)
  <2>1. \A b : Waits(b)' => Waits(b)
    BY <1>4 DEF Waits
  <2>2. \A b \in heads : Waits(b)
    BY <1>1 DEF Waits
  <2>3. \A b : Flies(b)' => Flies(b) \/ b \in heads
    BY <1>1, <1>2, <1>3 DEF Flies
  <2> QED BY <2>1, <2>2, <2>3
<1>12. AckedFirst'
  BY <1>1, <1>5, <1>6, <1>11 DEF AckedFirst
<1>13. OffsetsSorted'
  BY <1>6, OffsetsKept, TakenDrain
<1>14. Ordered => Len(flight') <= 1
  BY <1>h, <1>1, <1>2 DEF Ordered
<1> QED BY <1>8, <1>9, <1>10, <1>12, <1>13, <1>14

LEMMA SortedEnding ==
  ASSUME UserTyped, BatchTyped, Placed, Sorted, NEW verdicts, NEW retried, Ending(verdicts, retried)
  PROVE  Sorted'
<1>1. /\ Same /\ 1 \in 1..Len(flight)
      /\ retried \subseteq Flying(1) /\ DOMAIN verdicts = Flying(1) \ retried
      /\ Flying(1) \subseteq BatchIds
      /\ \A b \in retried : batch[b].attempts < config.retries
      /\ \A b \in BatchIds :
           result'[b] = IF b \in DOMAIN verdicts THEN verdicts[b] ELSE result[b]
      /\ Len(flight') = Len(flight) - 1
      /\ \A i \in 1..Len(flight') : flight'[i] = flight[i + 1] /\ i + 1 \in 1..Len(flight)
  BY EndingDoes
<1>2. Refills(retried) /\ config' = config
  BY EndingDoes, Zenon
<1>3. \A p \in Partitions : Queued(p)' = Queued(p) \union Of(retried, p)
  BY <1>2 DEF Refills, Queued
<1>q. \A p \in Partitions : Range(dq'[p]) = Queued(p) \union Of(retried, p)
  BY <1>2 DEF Refills, Queued
<1>4. \A i \in 1..Len(flight') : /\ Flying(i)' = Flying(i + 1) /\ i + 1 \in 1..Len(flight)
                                 /\ 1 < i + 1
  BY <1>1, TypedIs DEF Flying
<1>5. /\ BatchIds' = BatchIds /\ BatchIds \subseteq Nat
      /\ \A b \in BatchIds : batch'[b].part = batch[b].part
  BY <1>1, IdsAre DEF Same
<1> SUFFICES ASSUME InOrder
             PROVE  /\ QueuesSorted' /\ FlightsSorted' /\ SentFirst' /\ AckedFirst' /\ OffsetsSorted'
                    /\ Ordered => Len(flight') <= 1
  BY <1>2, SortedIf
<1>6. /\ QueuesSorted /\ FlightsSorted /\ SentFirst /\ AckedFirst /\ OffsetsSorted
      /\ Ordered => Len(flight) <= 1
  BY SortedIs
<1>7. \A i \in 1..Len(flight) : \A b \in Flying(i) : b \in BatchIds /\ batch[b].part \in Partitions
  BY PlacesApart
<1>8. retried = {} \/ 1..Len(flight') = {}
  <2>1. CASE config.retries = 0
    <3>1. \A b \in retried : batch[b].attempts \in Nat
      BY <1>1, IdsAre DEF Batches
    <3> QED BY <1>1, <2>1, <3>1
  <2>2. CASE Ordered
    <3>1. Len(flight) \in Nat
      BY TypedIs
    <3>2. Len(flight') = 0
      BY <1>1, <1>6, <2>2, <3>1
    <3> QED BY <3>2, EmptyRange
  <2> QED BY <2>1, <2>2 DEF InOrder
<1>9. QueuesSorted'
  <2> SUFFICES ASSUME NEW p \in Partitions PROVE Rises(dq'[p])
    BY DEF QueuesSorted
  <2>1. \A b \in Of(retried, p) : \A x \in Range(dq[p]) : b < x
    BY <1>1, <1>6 DEF SentFirst, Of, Queued
  <2> QED BY <1>2, <1>6, <2>1 DEF Refills, QueuesSorted
<1>10. FlightsSorted'
  <2> SUFFICES ASSUME NEW i \in 1..Len(flight'), NEW j \in 1..Len(flight'),
                      NEW b \in Flying(i)', NEW c \in Flying(j)',
                      batch'[b].part = batch'[c].part, i < j
               PROVE  b < c
    BY DEF FlightsSorted
  <2>1. /\ i + 1 \in 1..Len(flight) /\ j + 1 \in 1..Len(flight) /\ i + 1 < j + 1
        /\ b \in Flying(i + 1) /\ c \in Flying(j + 1)
    BY <1>4
  <2>2. batch[b].part = batch[c].part
    BY <1>5, <1>7, <2>1
  <2> QED BY <1>6, <2>1, <2>2 DEF FlightsSorted
<1>11. SentFirst'
  <2> SUFFICES ASSUME NEW i \in 1..Len(flight'), NEW b \in Flying(i)', NEW c \in Range(dq'[batch'[b].part])
               PROVE  b < c
    BY DEF SentFirst, Queued
  <2>1. i + 1 \in 1..Len(flight) /\ b \in Flying(i + 1)
    BY <1>4
  <2>2. batch'[b].part = batch[b].part /\ batch[b].part \in Partitions
    BY <1>5, <1>7, <2>1
  <2>3. c \in Queued(batch[b].part)
    BY <1>q, <1>8, <2>2 DEF Of
  <2> QED BY <1>6, <2>1, <2>3 DEF SentFirst
<1>12. AckedFirst'
  <2> SUFFICES ASSUME NEW b \in BatchIds, NEW c \in BatchIds,
                      result'[b].kind = "acked", Waits(c)' \/ Flies(c)', batch[b].part = batch[c].part
               PROVE  b < c
    BY <1>5 DEF AckedFirst
  <2>p. batch[c].part \in Partitions
    BY PlacesApart
  <2>1. c \in Queued(batch[c].part) \/ c \in retried \/ \E i \in 1..Len(flight') : c \in Flying(i + 1)
    <3>1. ASSUME NEW p \in Partitions, c \in Queued(p)' PROVE c \in Queued(batch[c].part) \/ c \in retried
      BY <1>3, <3>1, PlacesApart DEF Of
    <3> QED BY <1>4, <3>1 DEF Waits, Flies
  <2>2. Waits(c) \/ Flies(c)
    BY <1>1, <1>4, <2>1, <2>p DEF Waits, Flies
  <2>3. CASE b \notin DOMAIN verdicts
    <3>1. result[b].kind = "acked"
      BY <1>1, <2>3
    <3> QED BY <1>6, <2>2, <3>1 DEF AckedFirst
  <2>4. CASE b \in DOMAIN verdicts
    <3>1. b \in Flying(1) /\ b \notin retried
      BY <1>1, <2>4
    <3>2. CASE c \in Queued(batch[c].part)
      BY <1>1, <1>6, <3>1, <3>2 DEF SentFirst
    <3>3. CASE c \in retried
      <4>1. c \in Flying(1) /\ c # b
        BY <1>1, <3>1, <3>3
      <4> QED BY <1>1, <3>1, <4>1, PlacesApart
    <3>4. CASE \E i \in 1..Len(flight') : c \in Flying(i + 1)
      BY <1>1, <1>4, <1>6, <3>1, <3>4 DEF FlightsSorted
    <3> QED BY <2>1, <3>2, <3>3, <3>4
  <2> QED BY <2>3, <2>4
<1>13. OffsetsSorted'
  BY <1>6, OffsetsKept, TakenEnding
<1>14. Ordered => Len(flight') <= 1
  BY <1>1, <1>6, TypedIs
<1> QED BY <1>9, <1>10, <1>11, <1>12, <1>13, <1>14

LEMMA SortedHandles ==
  ASSUME BatchTyped, Placed, InTurn, Settled, Sorted, NEW i \in DOMAIN flight, BrokerHandles(i)
  PROVE  Sorted'
<1>1. PICK taken \in SUBSET Flying(i) :
           /\ i \in 1..Len(flight) /\ Unhandled(flight[i])
           /\ \A j \in 1..Len(flight) : j < i => ~Unhandled(flight[j])
           /\ UNCHANGED <<config, batch, result, dq>>
           /\ Len(flight') = Len(flight) /\ \A j \in 1..Len(flight) : Flying(j)' = Flying(j)
           /\ \A b \in BatchIds : \A v \in Taken(b)' :
                \/ v \in Taken(b)
                \/ b \in taken /\ v = Acked(Len(log[batch[b].part]))
  BY TakenHandles
<1>2. BatchIds' = BatchIds /\ BatchIds \subseteq Nat
  BY <1>1, IdsAre DEF BatchIds
<1> SUFFICES ASSUME InOrder
             PROVE  /\ QueuesSorted' /\ FlightsSorted' /\ SentFirst' /\ AckedFirst' /\ OffsetsSorted'
                    /\ Ordered => Len(flight') <= 1
  BY <1>1, SortedIf
<1>3. /\ QueuesSorted /\ FlightsSorted /\ SentFirst /\ AckedFirst /\ OffsetsSorted
      /\ Ordered => Len(flight) <= 1
  BY SortedIs
<1>4. QueuesSorted' /\ FlightsSorted' /\ SentFirst' /\ (Ordered => Len(flight') <= 1)
  BY <1>1, <1>3 DEF QueuesSorted, FlightsSorted, SentFirst, Queued
<1>5. AckedFirst'
  <2>1. \A b : (Waits(b)' <=> Waits(b)) /\ (Flies(b)' <=> Flies(b))
    BY <1>1 DEF Waits, Flies, Queued
  <2> QED BY <1>1, <1>2, <1>3, <2>1 DEF AckedFirst
<1>6. ASSUME NEW b \in BatchIds, NEW c \in BatchIds, NEW v \in Taken(b)', NEW w \in Taken(c)',
             b < c, batch[b].part = batch[c].part
      PROVE  v.at + Len(batch[b].recs) <= w.at
  <2>1. CASE v \in Taken(b) /\ w \in Taken(c)
    BY <1>3, <1>6, <2>1 DEF OffsetsSorted
  <2>2. CASE v \in Taken(b) /\ w = Acked(Len(log[batch[c].part]))
    BY <1>6, <2>2 DEF Settled, Acked
  <2>3. CASE b \in taken /\ w \in Taken(c)
    <3>1. b \in Flying(i) /\ Flies(b)
      BY <1>1, <2>3 DEF Flies
    <3>2. CASE w = result[c]
      <4>1. c < b
        BY <1>3, <1>6, <2>3, <3>1, <3>2, TakenIs DEF AckedFirst
      <4> QED BY <1>2, <1>6, <4>1
    <3>3. CASE \E j \in 1..Len(flight) : c \in Flying(j) /\ w = flight[j][c]
      <4>1. PICK j \in 1..Len(flight) : c \in Flying(j) /\ w = flight[j][c]
        BY <3>3
      <4>2. w # Sent
        BY <2>3, TakenIs DEF Sent
      <4>3. ~Unhandled(flight[j])
        BY <4>1, <4>2 DEF InTurn
      <4>4. j # i /\ ~(i < j)
        BY <1>1, <4>1, <4>3 DEF InTurn
      <4>5. j < i
        BY <1>1, <4>1, <4>4
      <4>6. c < b
        BY <1>1, <1>3, <1>6, <3>1, <4>1, <4>5 DEF FlightsSorted
      <4> QED BY <1>2, <1>6, <4>6
    <3> QED BY <2>3, <3>2, <3>3, TakenIs
  <2>4. CASE b \in taken /\ c \in taken
    <3>1. b = c
      BY <1>1, <1>6, <2>4, PlacesApart
    <3> QED BY <1>2, <1>6, <3>1
  <2> QED BY <1>1, <2>1, <2>2, <2>3, <2>4
<1>7. OffsetsSorted'
  BY <1>1, <1>2, <1>6 DEF OffsetsSorted
<1> QED BY <1>4, <1>5, <1>7

LEMMA SortedJoining ==
  ASSUME UserTyped, BatchTyped, Placed, Recorded, Settled, Sorted, NEW t \in Threads, Joining(t)
  PROVE  Sorted'
<1>x. PICK x : x = LastOf(part[t])
  OBVIOUS
<1>1. /\ BatchIds' = BatchIds
      /\ \A b \in BatchIds :
           /\ batch'[b].part = batch[b].part /\ batch'[b].attempts = batch[b].attempts
           /\ batch'[b].open = batch[b].open
           /\ b # x => batch'[b].recs = batch[b].recs
      /\ UNCHANGED <<config, result, dq, flight>>
  BY <1>x, JoiningDoes
<1> SUFFICES ASSUME InOrder
             PROVE  /\ QueuesSorted' /\ FlightsSorted' /\ SentFirst' /\ AckedFirst' /\ OffsetsSorted'
                    /\ Ordered => Len(flight') <= 1
  BY <1>1, SortedIf
<1>2. /\ QueuesSorted /\ FlightsSorted /\ SentFirst /\ AckedFirst /\ OffsetsSorted
      /\ Ordered => Len(flight) <= 1
  BY SortedIs
<1>3. \A i \in 1..Len(flight) : \A b \in Flying(i) : b \in BatchIds
  BY PlacesApart
<1>4. QueuesSorted' /\ FlightsSorted' /\ SentFirst' /\ (Ordered => Len(flight') <= 1)
  BY <1>1, <1>2, <1>3 DEF QueuesSorted, FlightsSorted, SentFirst, Queued, Flying
<1>5. AckedFirst'
  <2>1. \A b : (Waits(b)' <=> Waits(b)) /\ (Flies(b)' <=> Flies(b))
    BY <1>1 DEF Waits, Flies, Queued, Flying
  <2> QED BY <1>1, <1>2, <2>1 DEF AckedFirst
<1> QED BY <1>2, <1>4, <1>5, OffsetsKept, TakenJoining

LEMMA SortedOpening ==
  ASSUME UserTyped, BatchTyped, Placed, Recorded, Sorted, NEW t \in Threads, Opening(t)
  PROVE  Sorted'
<1>n. PICK n : n = Len(batch) + 1
  OBVIOUS
<1>1. /\ n \in Nat /\ BatchIds' = BatchIds \union {n} /\ n \notin BatchIds
      /\ BatchIds \subseteq Nat /\ \A b \in BatchIds : b < n
      /\ \A b \in BatchIds : batch'[b] = batch[b] /\ result'[b] = result[b]
      /\ batch'[n] = [part |-> part[t], recs |-> <<rec[t]>>, attempts |-> 0, open |-> TRUE]
      /\ result'[n] = Pending
      /\ Range(dq'[part[t]]) = Range(dq[part[t]]) \union {n}
      /\ Rises(dq[part[t]]) => Rises(dq'[part[t]])
      /\ \A p \in Partitions : p # part[t] => dq'[p] = dq[p]
      /\ UNCHANGED <<config, flight>>
  BY <1>n, OpeningDoes
<1> SUFFICES ASSUME InOrder
             PROVE  /\ QueuesSorted' /\ FlightsSorted' /\ SentFirst' /\ AckedFirst' /\ OffsetsSorted'
                    /\ Ordered => Len(flight') <= 1
  BY <1>1, SortedIf
<1>2. /\ QueuesSorted /\ FlightsSorted /\ SentFirst /\ AckedFirst /\ OffsetsSorted
      /\ Ordered => Len(flight) <= 1
  BY SortedIs
<1>3. /\ \A i \in 1..Len(flight) : \A b \in Flying(i) : b \in BatchIds /\ batch[b].part \in Partitions
      /\ Len(flight') = Len(flight) /\ \A i : Flying(i)' = Flying(i)
  BY <1>1, PlacesApart DEF Flying
<1>q. \A p \in Partitions : \A c \in Range(dq'[p]) : c \in Queued(p) \/ c = n
  BY <1>1 DEF Queued
<1>4. QueuesSorted'
  BY <1>1, <1>2 DEF QueuesSorted
<1>5. FlightsSorted'
  <2> SUFFICES ASSUME NEW i \in 1..Len(flight), NEW j \in 1..Len(flight),
                      NEW b \in Flying(i), NEW c \in Flying(j),
                      batch'[b].part = batch'[c].part, i < j
               PROVE  b < c
    BY <1>3 DEF FlightsSorted
  <2>1. batch[b].part = batch[c].part
    BY <1>1, <1>3
  <2> QED BY <1>2, <2>1 DEF FlightsSorted
<1>6. SentFirst'
  <2> SUFFICES ASSUME NEW i \in 1..Len(flight), NEW b \in Flying(i), NEW c \in Range(dq'[batch'[b].part])
               PROVE  b < c
    BY <1>3 DEF SentFirst, Queued
  <2>1. b \in BatchIds /\ batch'[b].part = batch[b].part /\ batch[b].part \in Partitions
    BY <1>1, <1>3
  <2>2. c \in Queued(batch[b].part) \/ c = n
    BY <1>q, <2>1
  <2> QED BY <1>1, <1>2, <2>1, <2>2 DEF SentFirst
<1>7. AckedFirst'
  <2> SUFFICES ASSUME NEW b \in BatchIds', NEW c \in BatchIds', result'[b].kind = "acked",
                      Waits(c)' \/ Flies(c)', batch'[b].part = batch'[c].part
               PROVE  b < c
    BY DEF AckedFirst
  <2>1. b \in BatchIds /\ result[b].kind = "acked"
    <3>1. b # n
      BY <1>1 DEF Pending
    <3>2. b \in BatchIds
      BY <1>1, <3>1
    <3> QED BY <1>1, <3>2
  <2>2. CASE c = n
    BY <1>1, <2>1, <2>2
  <2>3. CASE c # n
    <3>1. c \in BatchIds /\ batch[b].part = batch[c].part
      BY <1>1, <2>1, <2>3
    <3>2. Waits(c) \/ Flies(c)
      BY <1>3, <1>q, <2>3 DEF Waits, Flies, Queued
    <3> QED BY <1>2, <2>1, <3>1, <3>2 DEF AckedFirst
  <2> QED BY <2>2, <2>3
<1> QED BY <1>1, <1>2, <1>4, <1>5, <1>6, <1>7, OffsetsKept, TakenOpening

LEMMA SortedKeeps == UserTyped /\ BatchTyped /\ Placed /\ InTurn /\ Recorded /\ Logged /\ Settled
                       /\ Sorted /\ [Next]_vars => Sorted'
<1> SUFFICES ASSUME UserTyped, BatchTyped, Placed, InTurn, Recorded, Logged, Settled, Sorted, [Next]_vars
             PROVE  Sorted'
  OBVIOUS
<1>1. ASSUME NEW p \in Partitions, NEW n \in 1..Len(dq[p]), Expire(p, n) PROVE Sorted'
  <2>g. PICK gone : gone = Firsts(p, n)
    OBVIOUS
  <2>1. /\ Same /\ Shrinks(gone) /\ flight' = flight /\ config' = config
        /\ \A b \in BatchIds : result'[b] = IF b \in gone THEN Failed ELSE result[b]
    BY <1>1, <2>g, ExpireDoes
  <2>2. \A q \in Partitions : Queued(q)' \subseteq Queued(q) /\ (Rises(dq[q]) => Rises(dq'[q]))
    BY <2>1 DEF Shrinks, Queued
  <2>3. \A b \in BatchIds : result'[b].kind = "acked" => result[b].kind = "acked"
    BY <2>1 DEF Failed
  <2>4. TakenKept
    BY <2>1, TakenFails
  <2> QED BY <2>1, <2>2, <2>3, <2>4, SortedLess
<1>2. ASSUME Abort \/ Clear PROVE Sorted'
  <2>1. /\ FailIncomplete /\ config' = config
        /\ flight' = flight \/ flight' = <<>>
        /\ dq' = dq \/ dq' = [p \in Partitions |-> <<>>]
    BY <1>2, Zenon DEF Abort, Clear, netVars
  <2>2. /\ Same
        /\ \A b \in BatchIds : result'[b] = IF b \in incomplete THEN Failed ELSE result[b]
    BY <2>1, FailIncompleteDoes
  <2>3. \A q \in Partitions : Queued(q)' \subseteq Queued(q) /\ (Rises(dq[q]) => Rises(dq'[q]))
    BY <2>1, EmptyRange DEF Queued
  <2>4. \A b \in BatchIds : result'[b].kind = "acked" => result[b].kind = "acked"
    BY <2>2 DEF Failed
  <2>5. TakenKept
    BY <2>1, <2>2, TakenFails
  <2> QED BY <2>1, <2>2, <2>3, <2>4, <2>5, SortedLess
<1>3. ASSUME BrokerHandlesLate PROVE Sorted'
  <2>1. UNCHANGED <<config, batch, result, dq, flight>>
    BY <1>3, LateDoes
  <2>2. Same
    BY <2>1 DEF Same, BatchIds
  <2>3. \A q \in Partitions : Queued(q)' \subseteq Queued(q) /\ (Rises(dq[q]) => Rises(dq'[q]))
    BY <2>1 DEF Queued
  <2> QED BY <2>1, <2>2, <2>3, TakenSame, SortedLess
<1> QED BY <1>1, <1>2, <1>3, SortedDrain, SortedEnding, SortedHandles, SortedJoining, SortedOpening,
          StillKeeps, StepCases, Zenon

-----------------------------------------------------------------------------
(* The invariant, and what it says. *)

\* Every step keeps the invariant.
LEMMA InductiveStep == IInv /\ [Next]_vars => IInv'
<1> SUFFICES ASSUME IInv, [Next]_vars PROVE IInv'
  OBVIOUS
<1>1. /\ UserTyped /\ BatchTyped /\ Placed /\ InTurn /\ Recorded /\ Logged /\ Buffered
      /\ Settled /\ Sorted
  BY DEF IInv
<1>2. BatchIds \subseteq BatchIds'
  <2>1. Still => BatchIds' = BatchIds
    BY DEF Still, BatchIds
  <2>2. ASSUME NEW t \in Threads, Joining(t) \/ Opening(t) PROVE BatchIds \subseteq BatchIds'
    <3>1. PICK x, n : x = LastOf(part[t]) /\ n = Len(batch) + 1
      OBVIOUS
    <3>2. Joining(t) => BatchIds' = BatchIds
      BY <1>1, <3>1, JoiningDoes
    <3>3. Opening(t) => BatchIds' = BatchIds \union {n}
      BY <1>1, <3>1, OpeningDoes
    <3> QED BY <2>2, <3>2, <3>3
  <2>3. ASSUME NEW S \in SUBSET Partitions, Drain(S) PROVE Same
    <3>1. PICK heads : heads = Heads(S)
      OBVIOUS
    <3> QED BY <1>1, <2>3, <3>1, DrainDoes
  <2>4. ASSUME NEW p \in Partitions, NEW n \in 1..Len(dq[p]), Expire(p, n) PROVE Same
    <3>1. PICK gone : gone = Firsts(p, n)
      OBVIOUS
    <3> QED BY <1>1, <2>4, <3>1, ExpireDoes
  <2>5. ASSUME NEW verdicts, NEW retried, Ending(verdicts, retried) PROVE Same
    BY <1>1, <2>5, EndingDoes
  <2>6. Abort \/ Clear => Same
    BY <1>1, FailIncompleteDoes, Zenon DEF Abort, Clear
  <2>7. ASSUME BrokerHandlesLate \/ \E i \in DOMAIN flight : BrokerHandles(i) PROVE BatchIds' = BatchIds
    <3>1. batch' = batch
      BY <2>7, Zenon DEF BrokerHandlesLate, BrokerHandles, batchVars
    <3> QED BY <3>1 DEF BatchIds
  <2>8. Same => BatchIds' = BatchIds
    BY DEF Same
  <2>9. BatchIds' = BatchIds => BatchIds \subseteq BatchIds'
    OBVIOUS
  <2> QED BY <2>1, <2>2, <2>3, <2>4, <2>5, <2>6, <2>7, <2>8, <2>9, StepCases, Zenon
<1>3. UserTyped'
  BY <1>1, <1>2, UserKeeps
<1>4. BatchTyped' /\ Placed'
  BY <1>1, PlacedKeeps
<1>5. InTurn' /\ Recorded' /\ Logged' /\ Buffered'
  BY <1>1, InTurnKeeps, RecordedKeeps, LoggedKeeps, BufferedKeeps
<1>6. Settled' /\ Sorted'
  BY <1>1, SettledKeeps, SortedKeeps
<1> QED BY <1>3, <1>4, <1>5, <1>6 DEF IInv

LEMMA InvType == IInv => TypeOK
<1> SUFFICES ASSUME IInv PROVE TypeOK
  OBVIOUS
<1>1. UserTyped /\ BatchTyped /\ Placed
  BY DEF IInv
<1>2. dq \in [Partitions -> Seq(BatchIds)]
  <2>1. ASSUME NEW p \in Partitions PROVE dq[p] \in Seq(BatchIds)
    <3>1. dq[p] \in Seq(Nat) /\ Range(dq[p]) \subseteq BatchIds
      BY <1>1 DEF BatchTyped, Placed, QueuesPlaced, Queued
    <3>2. \A i \in 1..Len(dq[p]) : dq[p][i] \in BatchIds
      BY <3>1, RangeIs
    <3>3. dq[p] \in [1..Len(dq[p]) -> BatchIds] /\ Len(dq[p]) \in Nat
      BY <3>1, <3>2, LenProperties
    <3> QED BY <3>3, FunSeq
  <2>2. dq \in [Partitions -> Seq(Nat)]
    BY <1>1 DEF BatchTyped
  <2> QED BY <2>1, <2>2
<1>3. awaited \in [Threads -> SUBSET BatchIds]
  BY <1>1 DEF UserTyped
<1> QED BY <1>1, <1>2, <1>3 DEF TypeOK, UserTyped, BatchTyped, Batches, Results

\* A batch that is not completed is in one place.
LEMMA OnePlace ==
  ASSUME BatchTyped, Placed, NEW b \in incomplete
  PROVE  Cardinality(Places(b)) = 1
<1> DEFINE Queues == UNION {{<<"queue", p, i>> : i \in {j \in DOMAIN dq[p] : dq[p][j] = b}} : p \in Partitions}
           Flights == {<<"flight", i>> : i \in {j \in DOMAIN flight : b \in DOMAIN flight[j]}}
<1>1. /\ \A p \in Partitions : /\ DOMAIN dq[p] = 1..Len(dq[p]) /\ Once(dq[p])
                               /\ Range(dq[p]) = {dq[p][i] : i \in 1..Len(dq[p])}
      /\ DOMAIN flight = 1..Len(flight)
  BY TypedIs, LenProperties, RangeIs
<1>2. ASSUME NEW x \in Queues
      PROVE  \E p \in Partitions : \E i \in 1..Len(dq[p]) : dq[p][i] = b /\ x = <<"queue", p, i>>
  BY <1>1
<1>3. ASSUME NEW p \in Partitions, NEW i \in 1..Len(dq[p]), dq[p][i] = b
      PROVE  <<"queue", p, i>> \in Queues
  BY <1>1, <1>3
<1>4. ASSUME NEW x \in Flights
      PROVE  \E i \in 1..Len(flight) : b \in Flying(i) /\ x = <<"flight", i>>
  BY <1>1 DEF Flying
<1>5. ASSUME NEW i \in 1..Len(flight), b \in Flying(i)
      PROVE  <<"flight", i>> \in Flights
  BY <1>1, <1>5 DEF Flying
<1>6. Places(b) = Queues \union Flights
  BY DEF Places
<1> HIDE DEF Queues, Flights
<1>7. CASE Waits(b)
  <2>1. PICK p \in Partitions : b \in Queued(p)
    BY <1>7 DEF Waits
  <2>2. PICK i \in 1..Len(dq[p]) : dq[p][i] = b
    BY <1>1, <2>1 DEF Queued
  <2>3. \A j \in 1..Len(flight) : b \notin Flying(j)
    BY <1>7, PlacesApart
  <2>4. ASSUME NEW x \in Queues PROVE x = <<"queue", p, i>>
    <3>1. PICK q \in Partitions : \E j \in 1..Len(dq[q]) : dq[q][j] = b /\ x = <<"queue", q, j>>
      BY <1>2
    <3>2. PICK j \in 1..Len(dq[q]) : dq[q][j] = b /\ x = <<"queue", q, j>>
      BY <3>1
    <3>3. b \in Queued(q)
      BY <1>1, <3>2 DEF Queued
    <3>4. q = p
      BY <2>1, <3>3, PlacesApart
    <3>5. j = i
      BY <1>1, <2>2, <3>2, <3>4 DEF Once
    <3> QED BY <3>2, <3>4, <3>5
  <2>5. \A x \in Flights : FALSE
    BY <1>4, <2>3
  <2>6. <<"queue", p, i>> \in Queues
    BY <1>3, <2>2
  <2>7. Places(b) = {<<"queue", p, i>>}
    BY <1>6, <2>4, <2>5, <2>6
  <2> QED BY <2>7, FS_Singleton
<1>8. CASE ~Waits(b)
  <2>1. PICK i \in 1..Len(flight) : b \in Flying(i)
    BY <1>8 DEF Placed, PendingPlaced, Flies
  <2>2. \A x \in Queues : FALSE
    <3> SUFFICES ASSUME NEW x \in Queues PROVE FALSE
      OBVIOUS
    <3>1. PICK q \in Partitions : \E j \in 1..Len(dq[q]) : dq[q][j] = b
      BY <1>2
    <3>2. b \in Queued(q)
      BY <1>1, <3>1 DEF Queued
    <3> QED BY <1>8, <3>2 DEF Waits
  <2>3. ASSUME NEW x \in Flights PROVE x = <<"flight", i>>
    <3>1. PICK j \in 1..Len(flight) : b \in Flying(j) /\ x = <<"flight", j>>
      BY <1>4
    <3>2. j = i
      BY <2>1, <3>1, PlacesApart
    <3> QED BY <3>1, <3>2
  <2>4. <<"flight", i>> \in Flights
    BY <1>5, <2>1
  <2>5. Places(b) = {<<"flight", i>>}
    BY <1>6, <2>2, <2>3, <2>4
  <2> QED BY <2>5, FS_Singleton
<1> QED BY <1>7, <1>8

LEMMA InvForgotten == IInv => NothingForgotten
<1> SUFFICES ASSUME IInv PROVE NothingForgotten
  OBVIOUS
<1>1. BatchTyped /\ Placed
  BY DEF IInv
<1> QED BY <1>1, OnePlace DEF NothingForgotten, Placed, PendingPlaced

LEMMA InvCopies == IInv => CopiesBounded
<1> SUFFICES ASSUME IInv, NEW p \in Partitions, NEW r \in Records
             PROVE  Cardinality({i \in DOMAIN log[p] : log[p][i] = r}) <= config.retries + 1
  BY DEF CopiesBounded
<1>1. UserTyped /\ BatchTyped /\ Placed /\ Logged
  BY DEF IInv
<1>2. config.retries \in Nat /\ log[p] \in Seq(Records) /\ DOMAIN log[p] = 1..Len(log[p])
  BY <1>1, ProducerAssumption, LenProperties DEF UserTyped, BatchTyped
<1>3. CASE r \in Range(log[p])
  <2>1. PICK b \in BatchIds : r \in Range(batch[b].recs)
    BY <1>1, <1>3 DEF Logged, Gathered
  <2>2. /\ Copies(p, r) + Lates(b) + (IF Sending(b) THEN 1 ELSE 0)
             <= batch[b].attempts + (IF Waits(b) THEN 0 ELSE 1)
        /\ batch[b].attempts <= config.retries /\ batch[b].attempts \in Nat
    BY <1>1, <2>1, IdsAre DEF Logged, Counted, Tried, Batches
  <2>3. Copies(p, r) \in Nat /\ Lates(b) \in Nat
    BY <1>1, CountsTyped
  <2>4. Copies(p, r) <= config.retries + 1
    BY <1>2, <2>2, <2>3
  <2> QED BY <1>2, <2>4 DEF Copies, Occurs
<1>4. CASE r \notin Range(log[p])
  <2>1. Copies(p, r) = 0
    BY <1>2, <1>4, OccursNot DEF Copies
  <2> QED BY <1>2, <2>1 DEF Copies, Occurs
<1> QED BY <1>3, <1>4

LEMMA InvOrder == IInv => AckedInOrder
<1> SUFFICES ASSUME IInv, Ordered \/ config.retries = 0, NEW b \in BatchIds, NEW c \in BatchIds,
                    result[b].kind = "acked", result[c].kind = "acked", batch[b].part = batch[c].part
             PROVE  /\ SubSeq(log[batch[b].part], result[b].at + 1, result[b].at + Len(batch[b].recs))
                         = batch[b].recs
                    /\ b < c => result[b].at + Len(batch[b].recs) <= result[c].at
  BY DEF AckedInOrder
<1>1. Settled /\ OffsetsSorted
  BY DEF IInv, Sorted, InOrder
<1>2. result[b] \in Taken(b) /\ result[c] \in Taken(c)
  BY TakenIs
<1> QED BY <1>1, <1>2 DEF Settled, OffsetsSorted

LEMMA Inductive == Spec => []IInv
BY InitInv, InductiveStep, PTL DEF Spec

\* Whatever the threads, the sender and the broker do, for any settings: a buffer is
\* in the pool, under a batch, with a thread or given up by a send that raised; a
\* batch whose future is pending is in one queue or one request, and a flush waits
\* for it; and no record is in a log more often than once and once per retry.
THEOREM ProducerAccounts == Spec => []ProducerSound
<1>1. IInv => ProducerSound
  <2>1. IInv => BuffersAccounted
    BY DEF IInv, Buffered
  <2> QED BY <2>1, InvType, InvForgotten, InvCopies DEF ProducerSound
<1> QED BY <1>1, Inductive, PTL

\* With one request in flight (guarantee_message_order) or without retries, the
\* batches acknowledged are in the log of their partition in the order they were
\* opened, each at the offset its future names, whatever is lost, answered with an
\* error, sent again or handled late.
THEOREM OrderKept == Spec => []AckedInOrder
BY InvOrder, Inductive, PTL
===============================================================================
