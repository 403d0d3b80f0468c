------------------------- MODULE KafkaConsumer_proofs -------------------------
(***************************************************************************)
(* Proofs about the consumers of a group, for any members, partitions,     *)
(* records and faults: what is committed has been dealt with, a generation *)
(* shares the partitions out, and records are handed out in order.  The    *)
(* rounds of fetched_records are taken by induction first; then come the   *)
(* types, what a thread waits for, the offsets, and the generations.       *)
(***************************************************************************)
EXTENDS KafkaConsumer, WellFoundedInduction, FiniteSetTheorems, SequenceTheorems, TLAPS

-----------------------------------------------------------------------------
(* Induction over the numbers, as a fact about sets of them. *)

LEMMA HasLeast ==
  ASSUME NEW T, T \subseteq Nat, T # {}
  PROVE  \E x \in T : \A y \in T : x <= y
<1> DEFINE R == OpToRel(<, Nat)
<1>1. IsWellFoundedOn(R, Nat)
  BY NatLessThanWellFounded
<1>2. \A x, y \in Nat : y < x => <<y, x>> \in R
  BY DEF OpToRel
<1> HIDE DEF R
<1>3. PICK x \in T : \A y \in T : ~ (<<y, x>> \in R)
  BY <1>1, WFMin
<1>4. ASSUME NEW y \in T PROVE x <= y
  <2>1. x \in Nat /\ y \in Nat
    OBVIOUS
  <2>2. ~ (y < x)
    BY <1>2, <1>3, <2>1, Zenon
  <2>3. QED
    BY <2>1, <2>2
<1>5. QED
  BY <1>4

LEMMA Induction ==
  ASSUME NEW P \in SUBSET Nat, 0 \in P, \A n \in P : n + 1 \in P
  PROVE  P = Nat
<1>1. SUFFICES ASSUME Nat \ P # {} PROVE FALSE
  OBVIOUS
<1>2. PICK x \in Nat \ P : \A y \in Nat \ P : x <= y
  BY <1>1, HasLeast
<1>3. x # 0 /\ x - 1 \in Nat /\ x - 1 \in P
  BY <1>2
<1>4. (x - 1) + 1 \in P
  BY <1>3
<1>5. QED
  BY <1>2, <1>4

-----------------------------------------------------------------------------
(* Numbers in order, and the assignment. *)

LEMMA NthIn ==
  ASSUME NEW S \in SUBSET Nat, IsFiniteSet(S), NEW i \in 0..(Cardinality(S) - 1)
  PROVE  Nth(S, i) \in S
<1> DEFINE Below(x) == {y \in S : y < x}
           P == {k \in Nat : k < Cardinality(S) => \E x \in S : Cardinality(Below(x)) = k}
<1>1. Cardinality(S) \in Nat /\ \A y \in S : y \in Nat
  BY FS_CardinalityType
<1>2. 0 \in P
  <2>1. CASE S = {}
    BY <2>1, FS_EmptySet
  <2>2. CASE S # {}
    <3>1. PICK x \in S : \A y \in S : x <= y
      BY <2>2, HasLeast
    <3>2. \A y \in S : ~ (y < x)
      BY <1>1, <3>1
    <3>3. Below(x) = {}
      BY <3>2
    <3>4. QED
      BY <3>3, FS_EmptySet
  <2>3. QED
    BY <2>1, <2>2
<1>3. ASSUME NEW k \in P PROVE k + 1 \in P
  <2>1. SUFFICES ASSUME k + 1 < Cardinality(S)
                 PROVE  \E z \in S : Cardinality(Below(z)) = k + 1
    OBVIOUS
  <2>2. PICK x \in S : Cardinality(Below(x)) = k
    BY <1>1, <2>1
  <2>3. IsFiniteSet(Below(x))
    BY FS_Subset
  <2>4. Cardinality(Below(x) \union {x}) = k + 1
    <3>1. x \notin Below(x)
      BY <1>1
    <3> HIDE DEF Below
    <3>2. QED
      BY <2>2, <2>3, <3>1, FS_AddElement
  <2>5. {y \in S : x < y} # {}
    <3>1. SUFFICES ASSUME {y \in S : x < y} = {} PROVE FALSE
      OBVIOUS
    <3>2. \A y \in S : y < x \/ y = x
      BY <1>1, <3>1
    <3>3. S = Below(x) \union {x}
      BY <3>2
    <3>4. QED
      BY <1>1, <2>1, <2>4, <3>3
  <2>6. PICK z \in {y \in S : x < y} : \A y \in {w \in S : x < w} : z <= y
    BY <2>5, HasLeast
  <2>7. Below(z) = Below(x) \union {x}
    <3>1. \A y \in S : y < z <=> y < x \/ y = x
      BY <1>1, <2>6
    <3>2. QED
      BY <3>1
  <2>8. QED
    BY <2>4, <2>6, <2>7
<1>4. P = Nat
  <2>1. P \in SUBSET Nat
    OBVIOUS
  <2> HIDE DEF P
  <2>2. QED
    BY <1>2, <1>3, <2>1, Induction
<1>5. \E x \in S : Cardinality(Below(x)) = i
  BY <1>1, <1>4
<1>6. QED
  BY <1>5 DEF Nth

LEMMA MinOfTwo ==
  ASSUME NEW a \in Int, NEW b \in Int
  PROVE  Min({a, b}) = IF a <= b THEN a ELSE b
<1> DEFINE m == IF a <= b THEN a ELSE b
<1>1. m \in {a, b} /\ \A y \in {a, b} : m <= y
  OBVIOUS
<1>2. \A x \in {a, b} : (\A y \in {a, b} : x <= y) => x = m
  OBVIOUS
<1>3. QED
  BY <1>1, <1>2 DEF Min

LEMMA MaxOfTwo ==
  ASSUME NEW a \in Int, NEW b \in Int
  PROVE  Max({a, b}) = IF a >= b THEN a ELSE b
<1> DEFINE m == IF a >= b THEN a ELSE b
<1>1. m \in {a, b} /\ \A y \in {a, b} : m >= y
  OBVIOUS
<1>2. \A x \in {a, b} : (\A y \in {a, b} : x >= y) => x = m
  OBVIOUS
<1>3. QED
  BY <1>1, <1>2 DEF Max

LEMMA RangeAssigns ==
  ASSUME NEW ms \in SUBSET Members, ms # {}
  PROVE  RangeAssign(ms) \in [Partitions -> ms]
<1> DEFINE n     == Cardinality(ms)
           all   == Cardinality(Partitions)
           per   == all \div n
           extra == all % n
           Start(i) == per * i + Min({i, extra})
           Length(i) == IF i + 1 > extra THEN per ELSE per + 1
           Covers(p, i) == Start(i) <= p /\ p < Start(i) + Length(i)
<1>1. ms \in SUBSET Nat /\ IsFiniteSet(ms) /\ Cardinality(Members) \in Nat
  <2>1. Cardinality(Members) \in Nat
    BY ConsumerAssumption, FS_CardinalityType
  <2>2. QED
    BY <2>1, ConsumerAssumption, FS_Subset
<1>2. n \in Nat \ {0}
  BY <1>1, FS_CardinalityType, FS_EmptySet
<1>3. all \in Nat /\ Partitions = 0..(all - 1)
  BY ConsumerAssumption, FS_CardinalityType
<1>4. per \in Nat /\ extra \in 0..(n - 1) /\ all = n * per + extra
  <2> HIDE DEF n, all
  <2> QED BY <1>2, <1>3
<1> HIDE DEF n, all, per, extra
<1>5. ASSUME NEW p \in Partitions
      PROVE  Nth(ms, CHOOSE i \in 0..(n - 1) : Covers(p, i)) \in ms
  <2> DEFINE L == {i \in 0..n : p < Start(i)}
  <2>1. \A i \in Nat : Min({i, extra}) = IF i <= extra THEN i ELSE extra
    BY <1>4, MinOfTwo
  <2>2. Start(n) = all /\ Start(0) = 0
    BY <1>2, <1>4, <2>1
  <2>3. n \in L /\ 0 \notin L /\ L \subseteq Nat
    BY <1>2, <1>3, <2>2
  <2>4. PICK j \in L : \A y \in L : j <= y
    <3> HIDE DEF L
    <3> QED BY <2>3, HasLeast
  <2>5. j \in 1..n /\ j - 1 \in 0..(n - 1) /\ j - 1 \notin L
    <3>1. j \in 0..n /\ j # 0
      BY <2>3
    <3> HIDE DEF L
    <3>2. j - 1 \notin L
      BY <2>3, <2>4, <3>1
    <3>3. QED
      BY <1>2, <3>1, <3>2
  <2>6. per * j = per * (j - 1) + per
    BY <1>4, <2>5
  <2>7. Start(j) = Start(j - 1) + Length(j - 1)
    <3>1. per * j \in Int /\ per * (j - 1) \in Int
      BY <1>4, <2>5
    <3>2. QED
      BY <1>4, <2>1, <2>5, <2>6, <3>1
  <2>8. Start(j - 1) \in Int
    BY <1>4, <2>1, <2>5
  <2>9. Covers(p, j - 1)
    <3>1. p < Start(j) /\ ~ (p < Start(j - 1)) /\ p \in Int
      BY <1>2, <1>3, <2>4, <2>5
    <3> HIDE DEF Start, Length
    <3>2. QED
      BY <2>7, <2>8, <3>1
  <2> HIDE DEF Covers
  <2>10. (CHOOSE i \in 0..(n - 1) : Covers(p, i)) \in 0..(n - 1)
    BY <2>5, <2>9
  <2>11. QED
    BY <1>1, <2>10, NthIn DEF n
<1>6. QED
  BY <1>5 DEF RangeAssign, n, all, per, extra

-----------------------------------------------------------------------------
(* The rounds of fetched_records. *)

Calls == [queue : Seq(Segments), current : Segments, position : Offsets,
          out : SUBSET AllRecords, raised : BOOLEAN]

\* What a call of fetched_records has at a position q and may have moved to.
Passed(q, p) ==
  {r \in AllRecords : q[r[1]] # None /\ r[2] \in q[r[1]]..(p[r[1]] - 1)}

\* The call between two rounds: it has taken the records from the positions it found,
\* q, to those it has moved to, of partitions that are assigned, and not too many.
Taking(c, q) ==
  {s \in Calls :
     /\ IsFiniteSet(s.out) /\ Cardinality(s.out) <= MaxRecords
     /\ \A p \in Partitions :
          /\ q[p] <= s.position[p]
          /\ q[p] # s.position[p] => p \in assigned[c] /\ q[p] # None
     /\ s.out = Passed(q, s.position)}

LEMMA SegmentsHave ==
  /\ Nothing \in Segments /\ ~Holds(Nothing)
  /\ \A r \in Segments : r.part \in Partitions /\ r.from \in 0..LogEnd /\ r.to \in Raises..LogEnd
<1>1. 0 \in Partitions
  BY ConsumerAssumption, FS_CardinalityType
<1>2. QED
  BY <1>1, ConsumerAssumption DEF Nothing, Segments, Holds, Raises

\* Records of a partition from one offset to another are as many as the offsets.
LEMMA AsManyBetween ==
  ASSUME NEW p, NEW a \in Nat, NEW b \in Nat, a < b
  PROVE  /\ IsFiniteSet({<<p, o>> : o \in a..(b - 1)})
         /\ Cardinality({<<p, o>> : o \in a..(b - 1)}) = b - a
<1> DEFINE new == {<<p, o>> : o \in a..(b - 1)}
           f   == [o \in a..(b - 1) |-> <<p, o>>]
<1>1. IsFiniteSet(a..(b - 1)) /\ Cardinality(a..(b - 1)) = b - a
  BY FS_Interval
<1>2. f \in Surjection(a..(b - 1), new)
  BY DEF Surjection
<1>3. f \in Injection(a..(b - 1), new)
  BY DEF Injection, IsInjective
<1>4. IsFiniteSet(new) /\ Cardinality(new) <= b - a
  BY <1>1, <1>2, FS_Surjection
<1>5. b - a <= Cardinality(new) /\ Cardinality(new) \in Nat
  BY <1>1, <1>3, <1>4, FS_Injection, FS_CardinalityType
<1> HIDE DEF new
<1>6. Cardinality(new) = b - a
  BY <1>4, <1>5
<1>7. QED
  BY <1>4, <1>6 DEF new

LEMMA RoundKeeps ==
  ASSUME NEW c \in Members, NEW q \in Offsets, NEW s \in Taking(c, q)
  PROVE  Round(c, s) \in Taking(c, q)
<1> DEFINE r    == IF Holds(s.current) THEN s.current ELSE Head(s.queue)
           upto == Min({r.to, r.from + MaxRecords - Cardinality(s.out)})
           stops == s.raised \/ Cardinality(s.out) = MaxRecords
                      \/ (~Holds(s.current) /\ s.queue = <<>>)
           taken == [s EXCEPT !.queue = Tail(@),
                              !.current = IF IsNext(c, s, r) /\ r.to # Raises THEN r ELSE Nothing,
                              !.raised = r.to = Raises /\ r.part \in assigned[c]]
           given == [s EXCEPT !.current = Nothing]
           moved == [s EXCEPT !.out = @ \union {<<r.part, o>> : o \in r.from..(upto - 1)},
                              !.position[r.part] = upto,
                              !.current.from = upto]
<1>1. Round(c, s) = IF stops THEN s ELSE IF ~Holds(s.current) THEN taken
                      ELSE IF ~IsNext(c, s, r) THEN given ELSE moved
  BY DEF Round
<1>2. /\ s \in Calls
      /\ s.queue \in Seq(Segments) /\ s.current \in Segments /\ s.position \in Offsets
      /\ s.out \in SUBSET AllRecords
      /\ IsFiniteSet(s.out) /\ Cardinality(s.out) <= MaxRecords
      /\ \A p \in Partitions :
           /\ q[p] <= s.position[p]
           /\ q[p] # s.position[p] => p \in assigned[c] /\ q[p] # None
      /\ s.out = Passed(q, s.position)
  BY DEF Taking, Calls
<1>3. Cardinality(s.out) \in Nat /\ MaxRecords \in Nat
  BY <1>2, FS_CardinalityType, ConsumerAssumption
<1>4. ASSUME ~stops PROVE r \in Segments
  BY <1>2, <1>4
<1>5. ASSUME ~stops, ~Holds(s.current) PROVE taken \in Taking(c, q)
  <2>1. Tail(s.queue) \in Seq(Segments)
    BY <1>2, <1>5
  <2>2. (IF IsNext(c, s, r) /\ r.to # Raises THEN r ELSE Nothing) \in Segments
    BY <1>4, <1>5, SegmentsHave
  <2>3. taken \in Calls /\ taken.position = s.position /\ taken.out = s.out
    <3>1. PICK t \in Seq(Segments) : t = Tail(s.queue)
      BY <2>1
    <3>2. PICK u \in Segments : u = IF IsNext(c, s, r) /\ r.to # Raises THEN r ELSE Nothing
      BY <2>2
    <3>3. PICK v \in BOOLEAN : v = (r.to = Raises /\ r.part \in assigned[c])
      OBVIOUS
    <3>4. taken = [s EXCEPT !.queue = t, !.current = u, !.raised = v]
      <4> HIDE DEF r
      <4> QED BY <3>1, <3>2, <3>3, Zenon
    <3> HIDE DEF taken
    <3>5. QED
      BY <1>2, <3>4 DEF Calls
  <2> HIDE DEF taken, r
  <2>4. QED
    BY <1>2, <2>3 DEF Taking
<1>6. given \in Taking(c, q)
  <2>1. given \in Calls /\ given.position = s.position /\ given.out = s.out
    BY <1>2, SegmentsHave DEF Calls
  <2> HIDE DEF given
  <2>2. QED
    BY <1>2, <2>1 DEF Taking
<1>7. ASSUME ~stops, Holds(s.current), IsNext(c, s, r) PROVE moved \in Taking(c, q)
  <2> DEFINE new == {<<r.part, o>> : o \in r.from..(upto - 1)}
             n == MaxRecords - Cardinality(s.out)
             pos == [s.position EXCEPT ![r.part] = upto]
  <2>1. /\ r \in Segments /\ r.part \in Partitions /\ r.from \in 0..LogEnd
        /\ r.to \in Raises..LogEnd /\ r.from < r.to /\ r = s.current
        /\ r.part \in assigned[c] /\ s.position[r.part] = r.from
    BY <1>4, <1>7, SegmentsHave DEF Holds, IsNext
  <2>2. n \in Nat \ {0} /\ LogEnd \in Nat
    BY <1>2, <1>3, <1>7, ConsumerAssumption
  <2> HIDE DEF r, n
  <2>3. upto = IF r.to <= r.from + n THEN r.to ELSE r.from + n
    <3>1. r.to \in Int /\ r.from + n \in Int
      BY <2>1, <2>2 DEF Raises
    <3>2. r.from + n = r.from + MaxRecords - Cardinality(s.out)
      BY <1>3, <2>1 DEF n
    <3>3. QED
      BY <3>1, <3>2, MinOfTwo
  <2> HIDE DEF upto
  <2>4. upto \in Nat /\ r.from < upto /\ upto <= LogEnd /\ upto - r.from <= n /\ upto <= r.to
    BY <2>1, <2>2, <2>3 DEF Raises
  <2>5. IsFiniteSet(new) /\ Cardinality(new) = upto - r.from
    <3>1. r.from \in Nat
      BY <2>1
    <3>2. QED
      BY <2>4, <3>1, AsManyBetween
  <2>6. IsFiniteSet(s.out \union new) /\ Cardinality(s.out \union new) <= MaxRecords
    <3>1. IsFiniteSet(s.out \cap new)
      BY <2>5, FS_Subset
    <3>2. /\ Cardinality(new) \in Nat /\ Cardinality(s.out \cap new) \in Nat
          /\ IsFiniteSet(s.out \union new)
          /\ Cardinality(s.out \union new) =
               Cardinality(s.out) + Cardinality(new) - Cardinality(s.out \cap new)
      BY <1>2, <2>5, <3>1, FS_CardinalityType, FS_Union
    <3> HIDE DEF new
    <3>3. n = MaxRecords - Cardinality(s.out)
      BY DEF n
    <3>4. r.from \in Nat
      BY <2>1
    <3>5. QED
      BY <1>3, <2>4, <2>5, <3>2, <3>3, <3>4
  <2>7. new \subseteq AllRecords
    <3>1. \A o \in r.from..(upto - 1) : o \in 0..(LogEnd - 1)
      BY <2>1, <2>2, <2>4
    <3>2. QED
      BY <2>1, <3>1 DEF AllRecords
  <2>8. pos \in Offsets /\ \A p \in Partitions : pos[p] = IF p = r.part THEN upto ELSE s.position[p]
    BY <1>2, <2>1, <2>4 DEF Offsets, None
  <2>9. \A p \in Partitions : q[p] \in Int /\ s.position[p] \in Int
    BY <1>2 DEF Offsets, None
  <2> HIDE DEF pos
  <2>10. \A p \in Partitions : /\ q[p] <= pos[p]
                               /\ q[p] # pos[p] => p \in assigned[c] /\ q[p] # None
    <3>1. q[r.part] # None
      BY <1>2, <2>1, <2>9 DEF None
    <3>2. QED
      BY <1>2, <2>1, <2>4, <2>8, <2>9, <3>1
  <2>11. s.out \union new = Passed(q, pos)
    <3>1. ASSUME NEW x \in AllRecords
          PROVE  x \in s.out \union new <=> x \in Passed(q, pos)
      <4>1. x[1] \in Partitions /\ x[2] \in Nat /\ x = <<x[1], x[2]>>
        BY <3>1, <2>2 DEF AllRecords
      <4>2. x \in new <=> x[1] = r.part /\ x[2] \in r.from..(upto - 1)
        BY <4>1
      <4>3. x \in s.out <=> q[x[1]] # None /\ x[2] \in q[x[1]]..(s.position[x[1]] - 1)
        BY <1>2 DEF Passed
      <4>4. x \in Passed(q, pos) <=> q[x[1]] # None /\ x[2] \in q[x[1]]..(pos[x[1]] - 1)
        BY DEF Passed
      <4>5. CASE x[1] = r.part
        <5>1. q[r.part] # None /\ q[r.part] <= r.from
          BY <1>2, <2>1, <2>9 DEF None
        <5>2. QED
          BY <2>1, <2>4, <2>8, <2>9, <4>1, <4>2, <4>3, <4>4, <4>5, <5>1
      <4>6. CASE x[1] # r.part
        BY <2>8, <4>1, <4>2, <4>3, <4>4, <4>6
      <4>7. QED
        BY <4>5, <4>6
    <3>2. QED
      BY <1>2, <2>7, <3>1 DEF Passed
  <2>12. moved \in Calls /\ moved.position = pos /\ moved.out = s.out \union new
    <3>1. s.out \union new \in SUBSET AllRecords /\ upto \in 0..LogEnd
      BY <1>2, <2>4, <2>7
    <3>2. moved = [s EXCEPT !.out = s.out \union new, !.position[r.part] = upto,
                            !.current.from = upto]
      OBVIOUS
    <3>3. PICK t \in SUBSET AllRecords, u \in 0..LogEnd, p \in Partitions :
            t = s.out \union new /\ u = upto /\ p = r.part
      BY <2>1, <3>1
    <3>4. moved = [s EXCEPT !.out = t, !.position[p] = u, !.current.from = u]
      BY <3>2, <3>3, Zenon
    <3> HIDE DEF moved, new
    <3>5. [s.current EXCEPT !.from = u] \in Segments /\ [s.position EXCEPT ![p] = u] \in Offsets
      <4>1. [s.current EXCEPT !.from = u] \in Segments
        BY <1>2 DEF Segments
      <4>2. u \in None..LogEnd
        BY <2>2 DEF None
      <4>3. [s.position EXCEPT ![p] = u] \in Offsets
        BY <1>2, <4>2 DEF Offsets
      <4>4. QED
        BY <4>1, <4>3
    <3>6. moved \in Calls /\ moved.position = [s.position EXCEPT ![p] = u] /\ moved.out = t
      BY <1>2, <3>4, <3>5 DEF Calls
    <3>7. QED
      BY <3>3, <3>6 DEF pos
  <2> HIDE DEF moved, new
  <2>13. QED
    BY <2>6, <2>10, <2>11, <2>12 DEF Taking
<1> HIDE DEF r, taken, given, moved, stops
<1>8. QED
  BY <1>1, <1>5, <1>6, <1>7

\* The call returns: it has raised an error, has enough, or has nothing left to take.
Returns(s) ==
  s.raised \/ Cardinality(s.out) = MaxRecords \/ (~Holds(s.current) /\ s.queue = <<>>)

\* Rounds that may be left: two for a part in the queue, and one for the part kept.
Left(s) == 2 * Len(s.queue) + (IF Holds(s.current) THEN 1 ELSE 0)

LEMMA LeftIs ==
  ASSUME NEW s, NEW n \in Nat, n = Len(s.queue)
  PROVE  /\ Left(s) \in Nat
         /\ Holds(s.current) => Left(s) = 2 * n + 1
         /\ ~Holds(s.current) => Left(s) = 2 * n
<1>1. CASE Holds(s.current)
  BY <1>1 DEF Left
<1>2. CASE ~Holds(s.current)
  BY <1>2 DEF Left
<1>3. QED
  BY <1>1, <1>2

LEMMA RoundEnds ==
  ASSUME NEW c \in Members, NEW q \in Offsets, NEW s \in Taking(c, q)
  PROVE  IF Returns(s) THEN Round(c, s) = s
           ELSE Returns(Round(c, s)) \/ Left(Round(c, s)) < Left(s)
<1> DEFINE r    == IF Holds(s.current) THEN s.current ELSE Head(s.queue)
           upto == Min({r.to, r.from + MaxRecords - Cardinality(s.out)})
           kept == IF IsNext(c, s, r) /\ r.to # Raises THEN r ELSE Nothing
           taken == [s EXCEPT !.queue = Tail(@), !.current = kept,
                              !.raised = r.to = Raises /\ r.part \in assigned[c]]
           given == [s EXCEPT !.current = Nothing]
           new == {<<r.part, o>> : o \in r.from..(upto - 1)}
           moved == [s EXCEPT !.out = @ \union new, !.position[r.part] = upto,
                              !.current.from = upto]
<1>1. Round(c, s) = IF Returns(s) THEN s ELSE IF ~Holds(s.current) THEN taken
                      ELSE IF ~IsNext(c, s, r) THEN given ELSE moved
  BY DEF Round, Returns
<1>2. /\ s \in Calls /\ s.queue \in Seq(Segments) /\ s.current \in Segments
      /\ s.position \in Offsets /\ s.out \in SUBSET AllRecords
      /\ IsFiniteSet(s.out) /\ Cardinality(s.out) <= MaxRecords
      /\ s.out = Passed(q, s.position)
      /\ MaxRecords \in Nat /\ LogEnd \in Nat
  BY ConsumerAssumption DEF Taking, Calls
<1>3. Len(s.queue) \in Nat /\ Cardinality(s.out) \in Nat
  BY <1>2, FS_CardinalityType
<1>4. ASSUME ~Holds(s.current), ~Returns(s) PROVE Left(taken) < Left(s)
  <2>1. s.queue # <<>>
    BY <1>4 DEF Returns
  <2>2. Len(Tail(s.queue)) = Len(s.queue) - 1
    BY <1>2, <2>1
  <2>3. taken.queue = Tail(s.queue)
    BY <1>2 DEF Calls
  <2> HIDE DEF taken
  <2>4. Left(s) = 2 * Len(s.queue)
    BY <1>3, <1>4, LeftIs
  <2>5. Len(s.queue) - 1 \in Nat /\ Len(taken.queue) = Len(s.queue) - 1
    BY <1>3, <1>2, <2>1, <2>2, <2>3
  <2>6. Left(taken) \in Nat /\ (Left(taken) = 2 * (Len(s.queue) - 1) + 1
                               \/ Left(taken) = 2 * (Len(s.queue) - 1))
    BY <2>5, LeftIs
  <2>7. QED
    BY <1>3, <2>4, <2>6
<1>5. ASSUME Holds(s.current) PROVE Left(given) < Left(s)
  <2>1. given.queue = s.queue /\ given.current = Nothing
    BY <1>2 DEF Calls
  <2> HIDE DEF given
  <2>2. QED
    BY <1>3, <1>5, <2>1, SegmentsHave DEF Left
<1>6. ASSUME Holds(s.current), IsNext(c, s, r), ~Returns(s)
      PROVE  Returns(moved) \/ Left(moved) < Left(s)
  <2>1. /\ r = s.current /\ r \in Segments /\ r.part \in Partitions /\ r.from \in 0..LogEnd
        /\ r.to \in Raises..LogEnd /\ r.from < r.to /\ s.position[r.part] = r.from
    BY <1>2, <1>6, SegmentsHave DEF Holds, IsNext
  <2>2. /\ moved.queue = s.queue /\ moved.out = s.out \union new
        /\ moved.current = [s.current EXCEPT !.from = upto]
    <3> HIDE DEF r, new, upto
    <3> QED BY <1>2 DEF Calls
  <2>3. moved.current.to = r.to /\ moved.current.from = upto
    <3> HIDE DEF r, upto, moved
    <3> QED BY <1>2, <2>1, <2>2 DEF Segments
  <2> DEFINE n == MaxRecords - Cardinality(s.out)
  <2>4. n \in Nat \ {0}
    BY <1>2, <1>3, <1>6 DEF Returns
  <2> HIDE DEF r, moved
  <2>5. upto = IF r.to <= r.from + n THEN r.to ELSE r.from + n
    <3>1. r.to \in Int /\ r.from + n \in Int /\ r.from + n = r.from + MaxRecords - Cardinality(s.out)
      BY <1>2, <1>3, <2>1 DEF Raises
    <3>2. QED
      BY <3>1, MinOfTwo
  <2> HIDE DEF upto
  <2>6. CASE r.to <= r.from + n
    <3>1. upto = r.to
      BY <2>5, <2>6
    <3>2. ~Holds(moved.current)
      BY <2>1, <2>3, <3>1 DEF Holds, Raises
    <3>3. QED
      BY <1>3, <1>6, <2>2, <3>2 DEF Left
  <2>7. CASE ~ (r.to <= r.from + n)
    <3>1. upto = r.from + n /\ r.from \in Nat /\ upto \in Nat /\ r.from < upto
      BY <2>1, <2>4, <2>5, <2>7
    <3>2. IsFiniteSet(new) /\ Cardinality(new) = n
      <4>1. IsFiniteSet(new) /\ Cardinality(new) = upto - r.from
        <5>1. r.from \in Nat /\ upto \in Nat /\ r.from < upto
          BY <3>1
        <5>2. QED
          BY <5>1, AsManyBetween
      <4> HIDE DEF new
      <4>2. QED
        BY <2>4, <3>1, <4>1
    <3>3. s.out \cap new = {}
      <4>1. ASSUME NEW x \in s.out, x \in new PROVE FALSE
        <5>1. x \in AllRecords /\ x[2] \in q[x[1]]..(s.position[x[1]] - 1)
          BY <1>2 DEF Passed
        <5>2. x[1] = r.part /\ x[2] \in r.from..(upto - 1)
          <6>1. PICK o \in r.from..(upto - 1) : x = <<r.part, o>>
            BY <4>1
          <6>2. QED
            BY <6>1
        <5>3. QED
          BY <2>1, <3>1, <5>1, <5>2
      <4>2. QED
        BY <4>1
    <3>4. Cardinality(s.out \union new) = Cardinality(s.out) + Cardinality(new)
      <4>1. Cardinality(s.out \union new) =
              Cardinality(s.out) + Cardinality(new) - Cardinality(s.out \cap new)
        BY <1>2, <3>2, FS_Union
      <4>2. Cardinality(s.out \cap new) = 0
        BY <3>3, FS_EmptySet
      <4> HIDE DEF new, n
      <4>3. QED
        BY <1>3, <2>4, <3>2, <4>1, <4>2
    <3> HIDE DEF new
    <3>5. Cardinality(moved.out) = MaxRecords
      BY <1>2, <1>3, <2>2, <3>2, <3>4 DEF n
    <3>6. QED
      BY <3>5 DEF Returns
  <2>8. QED
    BY <2>6, <2>7
<1> HIDE DEF taken, given, moved, r
<1>7. QED
  BY <1>1, <1>4, <1>5, <1>6

\* A function applied again and again to a value has values to the last.
IteratedFrom(f, x, m, g) == g[0] = x /\ \A n \in 1..m : g[n] = f[g[n - 1]]

LEMMA Iterates ==
  ASSUME NEW S, NEW f \in [S -> S], NEW x \in S, NEW m \in Nat
  PROVE  \E g \in [0..m -> S] : IteratedFrom(f, x, m, g)
<1> DEFINE Fits(g, k) == IteratedFrom(f, x, k, g)
           P == {k \in Nat : \E g \in [0..k -> S] : Fits(g, k)}
<1>1. 0 \in P
  <2>1. [n \in 0..0 |-> x] \in [0..0 -> S] /\ Fits([n \in 0..0 |-> x], 0)
    BY DEF IteratedFrom
  <2> HIDE DEF Fits
  <2>2. QED
    BY <2>1
<1>2. ASSUME NEW k \in P PROVE k + 1 \in P
  <2>1. PICK g \in [0..k -> S] : Fits(g, k)
    OBVIOUS
  <2> DEFINE h == [n \in 0..(k + 1) |-> IF n <= k THEN g[n] ELSE f[g[k]]]
  <2>2. g[k] \in S /\ f[g[k]] \in S
    OBVIOUS
  <2>3. h \in [0..(k + 1) -> S]
    BY <2>2
  <2>4. ASSUME NEW n \in 1..(k + 1) PROVE h[n] = f[h[n - 1]]
    <3>1. CASE n <= k
      <4>1. n \in 1..k /\ h[n] = g[n] /\ h[n - 1] = g[n - 1]
        BY <3>1
      <4>2. QED
        BY <2>1, <4>1 DEF IteratedFrom
    <3>2. CASE n = k + 1
      <4>1. h[n] = f[g[k]] /\ h[n - 1] = g[k]
        BY <3>2
      <4>2. QED
        BY <4>1
    <3>3. QED
      BY <3>1, <3>2
  <2>5. Fits(h, k + 1)
    BY <2>1, <2>4 DEF IteratedFrom
  <2> HIDE DEF h, Fits
  <2>6. QED
    BY <2>3, <2>5
<1>3. P = Nat
  <2>1. P \in SUBSET Nat
    OBVIOUS
  <2> HIDE DEF P
  <2>2. QED
    BY <1>1, <1>2, <2>1, Induction
<1>4. QED
  BY <1>3

LEMMA TakingLeft ==
  ASSUME NEW c \in Members, NEW q \in Offsets, NEW s \in Taking(c, q)
  PROVE  Left(s) \in Nat
<1>1. s.queue \in Seq(Segments)
  BY DEF Taking, Calls
<1>2. Len(s.queue) \in Nat
  BY <1>1
<1>3. QED
  BY <1>2, LeftIs

\* A call of fetched_records takes the records from the positions on that it moves past,
\* and no others; and the rounds given it are enough for it to return.
LEMMA Fetches ==
  ASSUME NEW c \in Members, completed[c] \in Seq(Segments), current[c] \in Segments,
         position[c] \in Offsets
  PROVE  FetchedRecords(c) \in Taking(c, position[c]) /\ Returns(FetchedRecords(c))
<1> DEFINE S == Taking(c, position[c])
           rounds == 2 * Len(completed[c]) + 2
           start == [queue |-> completed[c], current |-> current[c], position |-> position[c],
                     out |-> {}, raised |-> FALSE]
           Body(g) == [n \in 0..rounds |->
                         IF n = 0 THEN start
                           ELSE CHOOSE t \in {Round(c, s) : s \in {g[n - 1]}} : TRUE]
           F == CHOOSE g : g = Body(g)
<1>1. rounds \in Nat
  OBVIOUS
<1>2. start \in S
  <2>1. start \in Calls
    BY DEF Calls
  <2>2. IsFiniteSet({}) /\ Cardinality({}) = 0
    BY FS_EmptySet
  <2>3. MaxRecords \in Nat /\ \A p \in Partitions : position[c][p] \in Int
    BY ConsumerAssumption DEF Offsets, None
  <2>4. {} = Passed(position[c], position[c])
    BY <2>3 DEF Passed, AllRecords
  <2>5. start.out = {} /\ start.position = position[c]
    OBVIOUS
  <2> HIDE DEF start
  <2>6. /\ IsFiniteSet(start.out) /\ Cardinality(start.out) <= MaxRecords
        /\ \A p \in Partitions : position[c][p] <= start.position[p]
        /\ start.out = Passed(position[c], start.position)
    BY <2>2, <2>3, <2>4, <2>5
  <2>7. QED
    BY <2>1, <2>5, <2>6 DEF Taking
<1> HIDE DEF S, rounds, start
<1>3. \A s \in S : Round(c, s) \in S
  BY RoundKeeps DEF S
<1>4. \A x : (CHOOSE t \in {Round(c, s) : s \in {x}} : TRUE) = Round(c, x)
  OBVIOUS
<1>5. \E g : g = Body(g)
  <2>1. PICK f \in [S -> S] : \A s \in S : f[s] = Round(c, s)
    <3>1. [s \in S |-> Round(c, s)] \in [S -> S]
      BY <1>3
    <3>2. QED
      BY <3>1
  <2>2. PICK g \in [0..rounds -> S] :
          g[0] = start /\ \A n \in 1..rounds : g[n] = f[g[n - 1]]
    <3>1. PICK g \in [0..rounds -> S] : IteratedFrom(f, start, rounds, g)
      BY <1>1, <1>2, Iterates
    <3>2. QED
      BY <3>1 DEF IteratedFrom
  <2>3. ASSUME NEW n \in 0..rounds PROVE g[n] = Body(g)[n]
    <3>1. CASE n = 0
      BY <2>2, <3>1
    <3>2. CASE n # 0
      <4>1. n - 1 \in 0..rounds /\ g[n - 1] \in S
        BY <1>1, <3>2
      <4>2. g[n] = Round(c, g[n - 1])
        BY <2>1, <2>2, <3>2, <4>1
      <4>3. QED
        BY <1>4, <3>2, <4>2
    <3>3. QED
      BY <3>1, <3>2
  <2>4. g = Body(g)
    BY <2>3
  <2> HIDE DEF Body
  <2>5. QED
    BY <2>4
<1>6. F = Body(F)
  <2> HIDE DEF Body
  <2> QED BY <1>5
<1> HIDE DEF F
<1>7. F[0] = start /\ \A n \in 1..rounds : F[n] = Round(c, F[n - 1])
  <2>1. \A n \in 0..rounds : F[n] = IF n = 0 THEN start
          ELSE CHOOSE t \in {Round(c, s) : s \in {F[n - 1]}} : TRUE
    BY <1>6
  <2>2. ASSUME NEW n \in 1..rounds PROVE F[n] = Round(c, F[n - 1])
    <3>1. n \in 0..rounds /\ n # 0
      BY <1>1
    <3>2. F[n] = CHOOSE t \in {Round(c, s) : s \in {F[n - 1]}} : TRUE
      BY <2>1, <3>1
    <3>3. QED
      BY <1>4, <3>2
  <2>3. QED
    BY <1>1, <2>1, <2>2
<1>8. \A n \in 0..rounds : F[n] \in S
  <2> DEFINE P == {n \in Nat : n <= rounds => F[n] \in S}
  <2>1. 0 \in P
    BY <1>2, <1>7
  <2>2. ASSUME NEW n \in P PROVE n + 1 \in P
    <3>1. SUFFICES ASSUME n + 1 <= rounds PROVE F[n + 1] \in S
      OBVIOUS
    <3>2. F[n] \in S /\ n + 1 \in 1..rounds /\ (n + 1) - 1 = n
      BY <1>1, <3>1
    <3>3. F[n + 1] = Round(c, F[n])
      BY <1>7, <3>2
    <3>4. QED
      BY <1>3, <3>2, <3>3
  <2>3. P = Nat
    <3>1. P \in SUBSET Nat
      OBVIOUS
    <3> HIDE DEF P
    <3>2. QED
      BY <2>1, <2>2, <3>1, Induction
  <2>4. QED
    BY <1>1, <2>3
<1>9. \A n \in 0..rounds : Returns(F[n]) \/ Left(F[n]) + n < rounds
  <2> DEFINE P == {n \in Nat : n <= rounds => Returns(F[n]) \/ Left(F[n]) + n < rounds}
  <2>1. 0 \in P
    <3>1. start.queue = completed[c] /\ Len(completed[c]) \in Nat
      BY DEF start
    <3>2. Left(start) <= 2 * Len(completed[c]) + 1 /\ Left(start) \in Int
      BY <3>1, LeftIs
    <3>3. Left(start) + 0 < rounds
      BY <3>1, <3>2 DEF rounds
    <3>4. QED
      BY <1>7, <3>3
  <2>2. ASSUME NEW n \in P PROVE n + 1 \in P
    <3>1. SUFFICES ASSUME n + 1 <= rounds
                   PROVE  Returns(F[n + 1]) \/ Left(F[n + 1]) + (n + 1) < rounds
      OBVIOUS
    <3>2. F[n] \in S /\ n + 1 \in 1..rounds /\ (n + 1) - 1 = n /\ n \in Nat /\ n <= rounds
      BY <1>1, <1>8, <3>1
    <3>3. F[n + 1] = Round(c, F[n])
      BY <1>7, <3>2
    <3>4. IF Returns(F[n]) THEN F[n + 1] = F[n]
            ELSE Returns(F[n + 1]) \/ Left(F[n + 1]) < Left(F[n])
      BY <3>2, <3>3, RoundEnds DEF S
    <3>5. F[n + 1] \in S
      BY <1>3, <3>2, <3>3
    <3>6. Left(F[n]) \in Nat /\ Left(F[n + 1]) \in Nat
      BY <3>2, <3>5, TakingLeft DEF S
    <3>7. Returns(F[n]) \/ Left(F[n]) + n < rounds
      BY <3>2
    <3>8. QED
      BY <1>1, <3>2, <3>4, <3>6, <3>7
  <2>3. P = Nat
    <3>1. P \in SUBSET Nat
      OBVIOUS
    <3> HIDE DEF P
    <3>2. QED
      BY <2>1, <2>2, <3>1, Induction
  <2>4. QED
    BY <1>1, <2>3
<1>10. Returns(F[rounds])
  <2>1. F[rounds] \in S /\ rounds \in 0..rounds
    BY <1>1, <1>8
  <2>2. Left(F[rounds]) \in Nat
    BY <2>1, TakingLeft DEF S
  <2>3. Returns(F[rounds]) \/ Left(F[rounds]) + rounds < rounds
    BY <1>9, <2>1
  <2>4. QED
    BY <1>1, <2>2, <2>3
<1>11. FetchedRecords(c) = F[rounds]
  BY DEF FetchedRecords, F, rounds, start
<1>12. QED
  BY <1>1, <1>8, <1>10, <1>11 DEF S

-----------------------------------------------------------------------------
(* Requests in flight. *)

\* What the kinds of requests carry.
Carries(r) ==
  /\ r.kind = "commit" => r.offs \in Offsets
  /\ r.kind = "committed" => r.got \in Offsets
  /\ r.kind = "fetch" => r.offs \in Offsets /\ r.got \in [Partitions -> Raises..LogEnd]
  /\ r.kind = "sync" /\ r.offs # NoOffsets => r.offs \in [Partitions -> Members]

TypeInv == TypeOK /\ \A c \in Members : \A r \in Range(chan[c]) : Carries(r)

LEMMA ValuesHold ==
  /\ Raises..LogEnd \subseteq Values /\ None..LogEnd \subseteq Values
  /\ Members \union {0} \subseteq Values
  /\ \A S : [S -> Raises..LogEnd] \subseteq [S -> Values]
  /\ \A S : [S -> None..LogEnd] \subseteq [S -> Values]
  /\ \A S : [S -> Members \union {0}] \subseteq [S -> Values]
  /\ \A S : [S -> Members] \subseteq [S -> Values]
  /\ NoOffsets \in Offsets /\ LogEnd \in Nat
<1>1. LogEnd \in Nat /\ Cardinality(Members) \in Nat
  BY ConsumerAssumption, FS_CardinalityType
<1>2. Max({LogEnd, Cardinality(Members)}) = IF LogEnd >= Cardinality(Members) THEN LogEnd
                                              ELSE Cardinality(Members)
  BY <1>1, MaxOfTwo
<1>3. Raises..LogEnd \subseteq Values /\ None..LogEnd \subseteq Values
  BY <1>1, <1>2 DEF Values, Raises, None
<1>4. \A x \in Members : x \in 1..Cardinality(Members)
  BY ConsumerAssumption
<1>5. Members \union {0} \subseteq Values
  BY <1>1, <1>2, <1>4 DEF Values, Raises
<1>6. NoOffsets \in Offsets
  BY <1>1 DEF NoOffsets, Offsets, None
<1>7. QED
  BY <1>1, <1>3, <1>5, <1>6

\* A request that is sent is the only new one.
LEMMA SendsAdds ==
  ASSUME TypeOK, NEW c \in Members, NEW r \in Requests, Sends(c, r)
  PROVE  /\ chan' \in [Members -> Seq(Requests)]
         /\ chan'[c] = Append(chan[c], r)
         /\ Range(chan'[c]) = Range(chan[c]) \union {r}
         /\ \A d \in Members : d # c => chan'[d] = chan[d]
<1>1. chan[c] \in Seq(Requests) /\ chan \in [Members -> Seq(Requests)]
  BY DEF TypeOK
<1>2. chan'[c] = Append(chan[c], r) /\ chan' \in [Members -> Seq(Requests)]
      /\ \A d \in Members : d # c => chan'[d] = chan[d]
  BY <1>1 DEF Sends
<1>3. Range(Append(chan[c], r)) = Range(chan[c]) \union {r}
  <2>1. \A x \in Range(Append(chan[c], r)) : x \in Range(chan[c]) \union {r}
    BY <1>1 DEF Range
  <2>2. \A x \in Range(chan[c]) \union {r} : x \in Range(Append(chan[c], r))
    <3>1. ASSUME NEW i \in DOMAIN chan[c]
          PROVE  i \in DOMAIN Append(chan[c], r) /\ Append(chan[c], r)[i] = chan[c][i]
      BY <1>1
    <3>2. Len(chan[c]) + 1 \in DOMAIN Append(chan[c], r)
            /\ Append(chan[c], r)[Len(chan[c]) + 1] = r
      BY <1>1
    <3>3. QED
      BY <3>1, <3>2 DEF Range
  <2>3. QED
    BY <2>1, <2>2
<1>4. QED
  BY <1>2, <1>3

\* An answer that is read is the oldest request, and is gone after it.
LEMMA ReadsTakes ==
  ASSUME TypeOK, NEW c \in Members, chan[c] # <<>>, chan' = [chan EXCEPT ![c] = Tail(@)]
  PROVE  /\ Head(chan[c]) \in Range(chan[c]) /\ Head(chan[c]) \in Requests
         /\ Head(chan[c]) = chan[c][1]
         /\ chan' \in [Members -> Seq(Requests)]
         /\ chan'[c] = Tail(chan[c])
         /\ Range(chan'[c]) \subseteq Range(chan[c])
         /\ \A d \in Members : d # c => chan'[d] = chan[d]
<1>1. chan[c] \in Seq(Requests) /\ chan \in [Members -> Seq(Requests)]
  BY DEF TypeOK
<1>2. Head(chan[c]) = chan[c][1] /\ 1 \in DOMAIN chan[c] /\ chan[c][1] \in Requests
  BY <1>1
<1>3. Tail(chan[c]) \in Seq(Requests)
      /\ \A i \in DOMAIN Tail(chan[c]) : i + 1 \in DOMAIN chan[c] /\ Tail(chan[c])[i] = chan[c][i + 1]
  BY <1>1
<1>4. chan' \in [Members -> Seq(Requests)] /\ chan'[c] = Tail(chan[c])
      /\ \A d \in Members : d # c => chan'[d] = chan[d]
  BY <1>1, <1>3
<1>5. QED
  BY <1>2, <1>3, <1>4 DEF Range

\* The oldest request the broker has not answered.
LEMMA QuestionIs ==
  ASSUME TypeOK, NEW c \in Members, NEW kind, Asked(c, kind)
  PROVE  /\ First(c) \in 1..Len(chan[c]) /\ Question(c) = chan[c][First(c)]
         /\ Question(c) \in Range(chan[c]) /\ Question(c) \in Requests
         /\ Question(c).kind = kind /\ Question(c).reply = "sent"
<1>1. chan[c] \in Seq(Requests)
  BY DEF TypeOK
<1>2. PICK i \in DOMAIN chan[c] :
        /\ chan[c][i].kind = kind /\ chan[c][i].reply = "sent"
        /\ \A j \in 1..(i - 1) : chan[c][j].reply # "sent"
  BY DEF Asked
<1>3. DOMAIN chan[c] = 1..Len(chan[c]) /\ Len(chan[c]) \in Nat
  BY <1>1
<1>4. /\ First(c) \in DOMAIN chan[c]
      /\ chan[c][First(c)].reply = "sent" /\ \A j \in 1..(First(c) - 1) : chan[c][j].reply # "sent"
  BY <1>2 DEF First
<1>5. First(c) = i
  <2>1. First(c) \in Nat /\ i \in Nat /\ First(c) >= 1 /\ i >= 1
    BY <1>2, <1>3, <1>4
  <2>2. ~ (First(c) < i) /\ ~ (i < First(c))
    BY <1>2, <1>4, <2>1
  <2>3. QED
    BY <2>1, <2>2
<1>6. chan[c][i] \in Requests
  BY <1>1, <1>2
<1>7. QED
  BY <1>2, <1>3, <1>5, <1>6 DEF Question, Range

\* An answer changes the request it is to.
Replaces(c, q) ==
  /\ q.gen = Question(c).gen /\ q.offs = Question(c).offs /\ q.who = Question(c).who
  /\ chan' \in [Members -> Seq(Requests)]
  /\ \A d \in Members : Len(chan'[d]) = Len(chan[d])
  /\ \A d \in Members : \A i \in 1..Len(chan[d]) :
       chan'[d][i] = chan[d][i] \/ (d = c /\ i = First(c) /\ chan'[d][i] = q)
  /\ \A d \in Members : \A r \in Range(chan'[d]) : r \in Range(chan[d]) \/ (d = c /\ r = q)

LEMMA AnswerIs ==
  ASSUME TypeOK, NEW c \in Members, NEW kind, Asked(c, kind),
         NEW verdict \in {"ok", "rebalance", "unknown"}, NEW got \in [Partitions -> Values],
         Answer(c, verdict, got)
  PROVE  \E q \in Requests : /\ q.kind = kind /\ q.reply = verdict /\ q.got = got
                             /\ Replaces(c, q)
<1> DEFINE q == [Question(c) EXCEPT !.reply = verdict, !.got = got]
           f == First(c)
<1>1. /\ f \in 1..Len(chan[c]) /\ Question(c) = chan[c][f]
      /\ Question(c) \in Requests /\ Question(c).kind = kind
  BY QuestionIs
<1>2. /\ q \in Requests /\ q.kind = kind /\ q.gen = Question(c).gen /\ q.who = Question(c).who
      /\ q.offs = Question(c).offs /\ q.reply = verdict /\ q.got = got
  BY <1>1 DEF Requests
<1>3. chan' = [chan EXCEPT ![c] = [@ EXCEPT ![f] = q]]
  BY <1>1 DEF Answer
<1>4. chan \in [Members -> Seq(Requests)] /\ chan[c] \in Seq(Requests)
  BY DEF TypeOK
<1> HIDE DEF q, f
<1>5. /\ [chan[c] EXCEPT ![f] = q] \in Seq(Requests)
      /\ Len([chan[c] EXCEPT ![f] = q]) = Len(chan[c])
      /\ \A i \in 1..Len(chan[c]) : [chan[c] EXCEPT ![f] = q][i] = IF i = f THEN q ELSE chan[c][i]
  BY <1>1, <1>2, <1>4
<1>6. /\ chan' \in [Members -> Seq(Requests)]
      /\ chan'[c] = [chan[c] EXCEPT ![f] = q]
      /\ \A d \in Members : d # c => chan'[d] = chan[d]
  BY <1>3, <1>4, <1>5
<1>7. \A d \in Members : Len(chan'[d]) = Len(chan[d])
  BY <1>5, <1>6
<1>8. ASSUME NEW d \in Members, NEW i \in 1..Len(chan[d])
      PROVE  chan'[d][i] = chan[d][i] \/ (d = c /\ i = f /\ chan'[d][i] = q)
  BY <1>5, <1>6
<1>9. ASSUME NEW d \in Members, NEW r \in Range(chan'[d])
      PROVE  r \in Range(chan[d]) \/ (d = c /\ r = q)
  <2>1. chan[d] \in Seq(Requests) /\ chan'[d] \in Seq(Requests)
    BY <1>4, <1>6
  <2>2. PICK i \in 1..Len(chan'[d]) : r = chan'[d][i]
    BY <2>1 DEF Range
  <2>3. i \in 1..Len(chan[d]) /\ i \in DOMAIN chan[d]
    BY <1>7, <2>1, <2>2
  <2>4. QED
    BY <1>8, <2>2, <2>3 DEF Range
<1>10. QED
  <2>1. Replaces(c, q)
    BY <1>2, <1>6, <1>7, <1>8, <1>9 DEF Replaces, f
  <2>2. QED
    BY <1>2, <2>1

ChanInv ==
  chan \in [Members -> Seq(Requests)] /\ \A c \in Members : \A r \in Range(chan[c]) : Carries(r)

LEMMA SendsCarries ==
  ASSUME TypeInv, NEW c \in Members, NEW r \in Requests, Carries(r), Sends(c, r)
  PROVE  ChanInv'
<1>1. /\ chan' \in [Members -> Seq(Requests)]
      /\ Range(chan'[c]) = Range(chan[c]) \union {r}
      /\ \A d \in Members : d # c => chan'[d] = chan[d]
  BY SendsAdds DEF TypeInv
<1>2. QED
  BY <1>1, Zenon DEF TypeInv, ChanInv

LEMMA ReadsCarries ==
  ASSUME TypeInv, NEW c \in Members, chan[c] # <<>>, chan' = [chan EXCEPT ![c] = Tail(@)]
  PROVE  ChanInv' /\ Head(chan[c]) \in Requests /\ Carries(Head(chan[c]))
<1>1. /\ Head(chan[c]) \in Range(chan[c]) /\ Head(chan[c]) \in Requests
      /\ chan' \in [Members -> Seq(Requests)]
      /\ Range(chan'[c]) \subseteq Range(chan[c])
      /\ \A d \in Members : d # c => chan'[d] = chan[d]
  BY ReadsTakes DEF TypeInv
<1>2. QED
  BY <1>1 DEF TypeInv, ChanInv

LEMMA EmptiesCarries ==
  ASSUME TypeInv, NEW c \in Members, chan' = [chan EXCEPT ![c] = <<>>]
  PROVE  ChanInv'
<1>1. chan \in [Members -> Seq(Requests)]
  BY DEF TypeInv, TypeOK
<1>2. Range(<<>>) = {} /\ <<>> \in Seq(Requests)
  BY DEF Range
<1>3. QED
  BY <1>1, <1>2 DEF TypeInv, ChanInv

LEMMA SameCarries ==
  ASSUME TypeInv, UNCHANGED chan
  PROVE  ChanInv'
BY Zenon DEF TypeInv, TypeOK, ChanInv

LEMMA RequestTyped ==
  ASSUME NEW kind \in {"commit", "committed", "fetch", "join", "sync"}, NEW g \in Ages,
         NEW offs \in [Partitions -> Values]
  PROVE  /\ Request(kind, g, offs) \in Requests
         /\ Request(kind, g, offs).kind = kind /\ Request(kind, g, offs).gen = g
         /\ Request(kind, g, offs).offs = offs /\ Request(kind, g, offs).reply = "sent"
         /\ Request(kind, g, offs).got = NoOffsets /\ Request(kind, g, offs).who = {}
<1>1. NoOffsets \in [Partitions -> Values]
  BY ValuesHold DEF Offsets
<1>2. QED
  BY <1>1 DEF Request, Requests

LEMMA AtOnceTyped ==
  ASSUME NEW kind \in {"commit", "committed", "fetch"},
         NEW offs \in [Partitions -> Values], NEW got \in [Partitions -> Values]
  PROVE  /\ AtOnce(kind, offs, got) \in Requests
         /\ AtOnce(kind, offs, got).kind = kind /\ AtOnce(kind, offs, got).gen = "none"
         /\ AtOnce(kind, offs, got).offs = offs /\ AtOnce(kind, offs, got).reply = "ok"
         /\ AtOnce(kind, offs, got).got = got /\ AtOnce(kind, offs, got).who = {}
<1>1. Request(kind, "none", offs) \in Requests
  BY RequestTyped DEF Ages
<1>2. /\ Request(kind, "none", offs).kind = kind /\ Request(kind, "none", offs).gen = "none"
      /\ Request(kind, "none", offs).offs = offs /\ Request(kind, "none", offs).who = {}
  BY RequestTyped DEF Ages
<1> DEFINE q == Request(kind, "none", offs)
<1> HIDE DEF q
<1>3. [q EXCEPT !.reply = "ok", !.got = got] \in Requests
  BY <1>1 DEF q, Requests
<1>4. QED
  BY <1>1, <1>2, <1>3 DEF AtOnce, q, Requests

\* A commit carries the positions.
LEMMA CommitTyped ==
  ASSUME TypeOK, NEW c \in Members
  PROVE  /\ Request("commit", gen[c], Consumed(c)) \in Requests
         /\ Carries(Request("commit", gen[c], Consumed(c)))
         /\ Request("commit", gen[c], Consumed(c)).kind = "commit"
         /\ Request("commit", gen[c], Consumed(c)).offs = position[c]
         /\ Request("commit", gen[c], Consumed(c)).reply = "sent"
<1>1. position[c] \in Offsets /\ position[c] \in [Partitions -> Values] /\ gen[c] \in Ages
  BY ValuesHold DEF TypeOK, Offsets
<1>2. QED
  BY <1>1, RequestTyped DEF Consumed, Carries

\* The question for the committed offsets carries them.
LEMMA AskTyped ==
  ASSUME TypeOK
  PROVE  /\ AtOnce("committed", NoOffsets, committed) \in Requests
         /\ Carries(AtOnce("committed", NoOffsets, committed))
         /\ AtOnce("committed", NoOffsets, committed).kind = "committed"
         /\ AtOnce("committed", NoOffsets, committed).got = committed
<1>1. committed \in Offsets /\ committed \in [Partitions -> Values]
        /\ NoOffsets \in [Partitions -> Values]
  BY ValuesHold DEF TypeOK, Offsets
<1>2. QED
  BY <1>1, AtOnceTyped DEF Carries

-----------------------------------------------------------------------------
\* The positions move past the records that are handed out, or dropped.
Moves(c) ==
  /\ position' \in [Members -> Offsets] /\ drained' \in [Members -> SUBSET AllRecords]
  /\ \A p \in Partitions :
       /\ position[c][p] <= position'[c][p]
       /\ position[c][p] # position'[c][p] => position[c][p] # None
  /\ \/ drained'[c] = Passed(position[c], position'[c]) /\ dropped' = dropped
     \/ drained'[c] = {} /\ dropped' = dropped \union Passed(position[c], position'[c])
  /\ \A d \in Members : d # c => position'[d] = position[d] /\ drained'[d] = drained[d]

LEMMA TakesMoves ==
  ASSUME TypeOK, NEW c \in Members, NEW s, s = FetchedRecords(c), Takes(c, s)
  PROVE  /\ completed' \in [Members -> Seq(Segments)] /\ current' \in [Members -> Segments]
         /\ dropped' \subseteq AllRecords
         /\ Moves(c)
<1>1. completed[c] \in Seq(Segments) /\ current[c] \in Segments /\ position[c] \in Offsets
  BY DEF TypeOK
<1>2. s \in Taking(c, position[c])
  BY <1>1, Fetches
<1>3. /\ s.queue \in Seq(Segments) /\ s.current \in Segments /\ s.position \in Offsets
      /\ s.out \in SUBSET AllRecords /\ s.raised \in BOOLEAN
      /\ s.out = Passed(position[c], s.position)
      /\ \A p \in Partitions :
           /\ position[c][p] <= s.position[p]
           /\ position[c][p] # s.position[p] => position[c][p] # None
  BY <1>2 DEF Taking, Calls
<1>4. (IF Holds(s.current) THEN s.current ELSE Nothing) \in Segments
  BY <1>3, SegmentsHave
<1>5. /\ position' \in [Members -> Offsets] /\ position'[c] = s.position
      /\ \A d \in Members : d # c => position'[d] = position[d]
  BY <1>3 DEF TypeOK, Takes
<1>6. (IF s.raised THEN {} ELSE s.out) \in SUBSET AllRecords
  BY <1>3
<1>7. /\ drained' \in [Members -> SUBSET AllRecords]
      /\ drained'[c] = IF s.raised THEN {} ELSE s.out
      /\ \A d \in Members : d # c => drained'[d] = drained[d]
  BY <1>6 DEF TypeOK, Takes
<1>8. completed' \in [Members -> Seq(Segments)] /\ current' \in [Members -> Segments]
  BY <1>3, <1>4 DEF TypeOK, Takes
<1>9. dropped' = IF s.raised THEN dropped \union s.out ELSE dropped
  BY DEF Takes
<1>10. dropped' \subseteq AllRecords
  BY <1>3, <1>9 DEF TypeOK
<1>11. QED
  BY <1>3, <1>5, <1>7, <1>8, <1>9, <1>10 DEF Moves

LEMMA DrainsMoves ==
  ASSUME TypeOK, NEW c \in Members, Drains(c)
  PROVE  /\ completed' \in [Members -> Seq(Segments)] /\ current' \in [Members -> Segments]
         /\ dropped' \subseteq AllRecords
         /\ Moves(c)
         /\ \E where \in {"app", "send"} : Goes(c, where)
         /\ picked' \in [Members -> SUBSET Partitions]
<1>1. PICK s \in {FetchedRecords(c)} :
        /\ Takes(c, s)
        /\ \E where \in {"app", "send"} : Goes(c, where)
        /\ \E ps \in {{}, Fetchable(c, s)} : picked' = [picked EXCEPT ![c] = ps]
  <2>1. PICK s \in {FetchedRecords(c)} :
          LET returns == s.raised \/ (s.out # {} /\ s.queue # <<>>) IN
          /\ Takes(c, s)
          /\ Goes(c, IF returns THEN "app" ELSE "send")
          /\ picked' = [picked EXCEPT ![c] = IF returns THEN {} ELSE Fetchable(c, s)]
    BY DEF Drains
  <2> DEFINE returns == s.raised \/ (s.out # {} /\ s.queue # <<>>)
  <2>2. (IF returns THEN "app" ELSE "send") \in {"app", "send"}
    OBVIOUS
  <2>3. (IF returns THEN {} ELSE Fetchable(c, s)) \in {{}, Fetchable(c, s)}
    OBVIOUS
  <2>4. QED
    BY <2>1, <2>2, <2>3
<1>2. Fetchable(c, s) \subseteq Partitions
  BY DEF Fetchable, TypeOK
<1>3. picked' \in [Members -> SUBSET Partitions]
  BY <1>1, <1>2 DEF TypeOK
<1>4. s = FetchedRecords(c)
  OBVIOUS
<1>5. QED
  BY <1>1, <1>3, <1>4, TakesMoves

\* The parts of a response.
LEMMA PartsTyped ==
  ASSUME NEW r \in Requests, r.kind = "fetch", Carries(r)
  PROVE  Parts(r) \in Seq(Segments)
<1> DEFINE sought == {p \in Partitions : r.offs[p] # None}
           n == Cardinality(sought)
<1>1. sought \in SUBSET Nat /\ IsFiniteSet(sought) /\ n \in Nat
  <2>1. Cardinality(Partitions) \in Nat
    BY ConsumerAssumption, FS_CardinalityType
  <2>2. QED
    BY <2>1, ConsumerAssumption, FS_Subset, FS_CardinalityType
<1>2. ASSUME NEW i \in 1..n
      PROVE  [part |-> Nth(sought, i - 1), from |-> r.offs[Nth(sought, i - 1)],
              to |-> r.got[Nth(sought, i - 1)]] \in Segments
  <2>1. Nth(sought, i - 1) \in sought
    <3>1. i - 1 \in 0..(n - 1)
      BY <1>1
    <3> HIDE DEF sought
    <3>2. QED
      BY <1>1, <3>1, NthIn
  <2>2. PICK p \in sought : p = Nth(sought, i - 1)
    BY <2>1
  <2>3. p \in Partitions /\ r.offs[p] \in 0..LogEnd /\ r.got[p] \in Raises..LogEnd
    <3>1. r.offs \in [Partitions -> None..LogEnd] /\ r.got \in [Partitions -> Raises..LogEnd]
      BY DEF Carries, Offsets
    <3>2. p \in Partitions /\ r.offs[p] # None
      BY <2>2
    <3>3. LogEnd \in Nat /\ r.offs[p] \in None..LogEnd
      BY <3>1, <3>2, ConsumerAssumption
    <3>4. QED
      BY <3>1, <3>2, <3>3 DEF None
  <2> HIDE DEF sought
  <2>4. QED
    BY <2>2, <2>3 DEF Segments
<1> HIDE DEF n
<1>3. [i \in 1..n |-> [part |-> Nth(sought, i - 1), from |-> r.offs[Nth(sought, i - 1)],
                       to |-> r.got[Nth(sought, i - 1)]]] \in Seq(Segments)
  <2> HIDE DEF sought
  <2> QED BY <1>1, <1>2
<1>4. QED
  BY <1>3 DEF Parts, n

LEMMA TypeBegins == Init => TypeInv
<1>1. SUFFICES ASSUME Init PROVE TypeInv
  OBVIOUS
<1>2. NoOffsets \in Offsets /\ LogEnd \in Nat /\ MaxFaults \in Nat /\ Nothing \in Segments
  BY ValuesHold, SegmentsHave, ConsumerAssumption
<1>3. <<>> \in Seq(Requests) /\ <<>> \in Seq(Segments) /\ Range(<<>>) = {}
  BY DEF Range
<1>4. NoPlan \in [Partitions -> Members \union {0}]
  BY DEF NoPlan
<1>5. \A c \in Members : Range(chan[c]) = {}
  BY <1>1, <1>3 DEF Init
<1>6. TypeOK
  BY <1>1, <1>2, <1>3, <1>4 DEF Init, TypeOK, Ages
<1>7. QED
  BY <1>5, <1>6 DEF TypeInv

\* The state of a member, and of the rest, without what is in flight.
Rest ==
  /\ pc \in [Members -> {"app", "poll", "prepare", "await", "join", "positions", "drain",
                         "send", "wait", "dead"}]
  /\ {found, rejoin, rejoining} \subseteq [Members -> BOOLEAN]
  /\ state \in [Members -> {"unjoined", "rebalancing", "stable"}]
  /\ gen \in [Members -> Ages]
  /\ assigned \in [Members -> SUBSET Partitions] /\ position \in [Members -> Offsets]
  /\ completed \in [Members -> Seq(Segments)] /\ current \in [Members -> Segments]
  /\ picked \in [Members -> SUBSET Partitions] /\ drained \in [Members -> SUBSET AllRecords]
  /\ phase \in {"stable", "join", "sync"}
  /\ members \subseteq Members /\ joined \subseteq Members
  /\ plan \in [Partitions -> Members \union {0}] /\ committed \in Offsets
  /\ late \subseteq [member : Members, gen : Ages, offs : Offsets]
  /\ done \subseteq AllRecords /\ dropped \subseteq AllRecords
  /\ faults \in 0..MaxFaults

LEMMA FaultTyped == ASSUME Rest, NEW c, Fault(c) PROVE faults' \in 0..MaxFaults
BY ConsumerAssumption DEF Rest, Fault

\* What lost connections leave behind.
LEMMA AdriftTyped ==
  ASSUME TypeInv, NEW c \in Members
  PROVE  {[member |-> c, gen |-> r.gen, offs |-> r.offs] : r \in Adrift(c)}
           \subseteq [member : Members, gen : Ages, offs : Offsets]
<1>1. ASSUME NEW r \in Adrift(c)
      PROVE  [member |-> c, gen |-> r.gen, offs |-> r.offs] \in [member : Members, gen : Ages, offs : Offsets]
  <2>1. r \in Range(chan[c]) /\ r.kind = "commit" /\ Carries(r)
    BY DEF Adrift, TypeInv
  <2>2. chan[c] \in Seq(Requests)
    BY DEF TypeInv, TypeOK
  <2>3. r \in Requests
    BY <2>1, <2>2 DEF Range
  <2>4. r.gen \in Ages /\ r.offs \in Offsets
    BY <2>1, <2>3 DEF Carries, Requests
  <2>5. QED
    BY <2>4
<1>2. QED
  BY <1>1

LEMMA OverlayTyped ==
  ASSUME Rest, NEW offs \in Offsets, Overlay(offs)
  PROVE  committed' \in Offsets
BY DEF Rest, Overlay, Offsets

LEMMA AnswerCarries ==
  ASSUME TypeInv, NEW c \in Members, NEW kind \in {"commit", "sync"}, Asked(c, kind),
         NEW verdict \in {"ok", "rebalance", "unknown"}, NEW got \in [Partitions -> Values],
         Answer(c, verdict, got)
  PROVE  ChanInv'
<1>1. TypeOK
  BY DEF TypeInv
<1>2. PICK q \in Requests : /\ q.kind = kind /\ q.reply = verdict /\ q.got = got
                            /\ Replaces(c, q)
  BY <1>1, AnswerIs
<1>3. Question(c) \in Range(chan[c]) /\ Question(c).kind = kind
  BY <1>1, QuestionIs
<1>4. Carries(Question(c))
  BY <1>3 DEF TypeInv
<1>5. Carries(q)
  BY <1>2, <1>3, <1>4 DEF Carries, Replaces
<1>6. QED
  BY <1>2, <1>5 DEF TypeInv, ChanInv, Replaces

LEMMA AgeTyped == \A g \in Ages : Age(g) \in Ages
BY DEF Age, Ages

\* What is in flight when a new generation begins: the answer to a JoinGroup, or the
\* requests there were, of an older one.
LEMMA CompletesAnswers ==
  ASSUME TypeInv, CompletesJoin, NEW c \in Members
  PROVE  /\ chan'[c] \in Seq(Requests)
         /\ Asked(c, "join") =>
              /\ Len(chan'[c]) = 1 /\ chan'[c][1].kind = "join" /\ chan'[c][1].gen = "now"
              /\ chan'[c][1].reply = "ok" /\ chan'[c][1].who \in {{}, joined}
              /\ chan'[c][1].offs = Question(c).offs /\ chan'[c][1].got = Question(c).got
         /\ ~Asked(c, "join") =>
              /\ Len(chan'[c]) = Len(chan[c])
              /\ \A i \in 1..Len(chan[c]) :
                   /\ chan'[c][i].kind = chan[c][i].kind /\ chan'[c][i].offs = chan[c][i].offs
                   /\ chan'[c][i].got = chan[c][i].got /\ chan'[c][i].reply = chan[c][i].reply
                   /\ chan'[c][i].gen = Age(chan[c][i].gen)
<1>1. TypeOK /\ chan[c] \in Seq(Requests) /\ joined \subseteq Members
  BY DEF TypeInv, TypeOK
<1>2. chan'[c] = IF Asked(c, "join")
         THEN <<[Question(c) EXCEPT !.reply = "ok", !.gen = "now",
                                    !.who = IF c = Min(joined) THEN joined ELSE {}]>>
         ELSE [i \in DOMAIN chan[c] |-> [chan[c][i] EXCEPT !.gen = Age(@)]]
  BY DEF CompletesJoin
<1>3. CASE Asked(c, "join")
  <2>1. Question(c) \in Requests /\ Question(c).kind = "join"
    BY <1>1, <1>3, QuestionIs
  <2>2. PICK w \in {{}, joined} : w = IF c = Min(joined) THEN joined ELSE {}
    OBVIOUS
  <2>3. PICK q \in Requests : q = Question(c) /\ q.kind = "join"
    BY <2>1
  <2> DEFINE a == [q EXCEPT !.reply = "ok", !.gen = "now", !.who = w]
  <2>4. /\ a \in Requests /\ a.kind = "join" /\ a.gen = "now" /\ a.reply = "ok" /\ a.who = w
        /\ a.offs = q.offs /\ a.got = q.got
    BY <1>1, <2>2, <2>3 DEF Requests, Ages
  <2>5. chan'[c] = <<a>>
    BY <1>2, <1>3, <2>2, <2>3
  <2> HIDE DEF a
  <2>6. <<a>> \in Seq(Requests) /\ Len(<<a>>) = 1 /\ <<a>>[1] = a
    BY <2>4
  <2>7. QED
    BY <1>3, <2>2, <2>3, <2>4, <2>5, <2>6
<1>4. CASE ~Asked(c, "join")
  <2> DEFINE old(i) == [chan[c][i] EXCEPT !.gen = Age(@)]
  <2>1. ASSUME NEW i \in 1..Len(chan[c])
        PROVE  /\ old(i) \in Requests /\ old(i).kind = chan[c][i].kind
               /\ old(i).offs = chan[c][i].offs /\ old(i).got = chan[c][i].got
               /\ old(i).reply = chan[c][i].reply /\ old(i).gen = Age(chan[c][i].gen)
    <3>1. PICK q \in Requests : q = chan[c][i]
      BY <1>1
    <3>2. Age(q.gen) \in Ages
      BY AgeTyped DEF Requests
    <3>3. [q EXCEPT !.gen = Age(@)] \in Requests
      BY <3>2 DEF Requests
    <3>4. QED
      BY <3>1, <3>2, <3>3 DEF Requests
  <2>2. chan'[c] = [i \in 1..Len(chan[c]) |-> old(i)]
    BY <1>1, <1>2, <1>4
  <2> HIDE DEF old
  <2>3. chan'[c] \in Seq(Requests) /\ Len(chan'[c]) = Len(chan[c])
    BY <1>1, <2>1, <2>2
  <2>4. QED
    BY <1>4, <2>1, <2>2, <2>3
<1>5. QED
  BY <1>3, <1>4

LEMMA CompletesCarries == ASSUME TypeInv, CompletesJoin PROVE ChanInv'
<1>1. chan' \in [Members -> Seq(Requests)]
  <2>1. chan' = [c \in Members |-> chan'[c]]
    BY DEF CompletesJoin
  <2>2. QED
    BY <2>1, CompletesAnswers
<1>2. ASSUME NEW c \in Members, NEW r \in Range(chan'[c]) PROVE Carries(r)
  <2>1. chan'[c] \in Seq(Requests) /\ chan[c] \in Seq(Requests)
    BY <1>1 DEF TypeInv, TypeOK
  <2>2. PICK i \in 1..Len(chan'[c]) : r = chan'[c][i]
    BY <2>1 DEF Range
  <2>3. CASE Asked(c, "join")
    <3>1. Len(chan'[c]) = 1 /\ chan'[c][1].kind = "join"
      BY <2>3, CompletesAnswers
    <3>2. r.kind = "join"
      BY <2>2, <3>1
    <3>3. QED
      BY <3>2 DEF Carries
  <2>4. CASE ~Asked(c, "join")
    <3>1. i \in 1..Len(chan[c])
      BY <2>2, <2>4, CompletesAnswers
    <3>2. r.kind = chan[c][i].kind /\ r.offs = chan[c][i].offs /\ r.got = chan[c][i].got
      BY <2>2, <2>4, <3>1, CompletesAnswers
    <3>3. chan[c][i] \in Range(chan[c])
      BY <2>1, <3>1 DEF Range
    <3>4. Carries(chan[c][i])
      BY <3>3 DEF TypeInv
    <3>5. QED
      BY <3>2, <3>4 DEF Carries
  <2>5. QED
    BY <2>3, <2>4
<1>3. QED
  BY <1>1, <1>2 DEF ChanInv

LEMMA TypeStep == TypeInv /\ [Next]_vars => TypeInv'
<1>1. SUFFICES ASSUME TypeInv, [Next]_vars PROVE Rest' /\ ChanInv'
  BY DEF TypeInv, TypeOK, Rest, ChanInv
<1>2. Rest /\ ChanInv /\ TypeOK
  BY <1>1 DEF TypeInv, TypeOK, Rest, ChanInv
<1> USE <1>1, <1>2
<1>3. ASSUME NEW c \in Members, Finds(c) PROVE Rest' /\ ChanInv'
  BY <1>3, SameCarries DEF Rest, Finds, placeVars, fetchVars, brokerVars, ghostVars
<1>4. ASSUME NEW c \in Members, Prepare(c) PROVE Rest' /\ ChanInv'
  <2>1. done' = done \union drained[c] /\ drained' = [drained EXCEPT ![c] = {}]
    BY <1>4 DEF Prepare, Polls
  <2>2. CASE Sends(c, Request("commit", gen[c], Consumed(c))) /\ Goes(c, "prepare") /\ UNCHANGED rejoining
    <3>1. ChanInv'
      BY <2>2, CommitTyped, SendsCarries
    <3>2. Rest'
      BY <1>4, <2>1, <2>2 DEF Rest, Prepare, placeVars, brokerVars, Goes
    <3>3. QED
      BY <3>1, <3>2
  <2>3. CASE rejoining' = [rejoining EXCEPT ![c] = TRUE] /\ Goes(c, "await") /\ UNCHANGED chan
    BY <1>4, <2>1, <2>3, SameCarries DEF Rest, Prepare, placeVars, brokerVars, Goes
  <2>4. QED
    BY <1>4, <2>2, <2>3 DEF Prepare
<1>5. ASSUME NEW c \in Members, PrepareAgain(c) PROVE Rest' /\ ChanInv'
  <2>2. CASE Sends(c, Request("commit", gen[c], Consumed(c))) /\ UNCHANGED <<pc, rejoining>>
    <3>1. ChanInv'
      BY <2>2, CommitTyped, SendsCarries
    <3>2. Rest'
      BY <1>5, <2>2 DEF Rest, PrepareAgain, placeVars, fetchVars, brokerVars, ghostVars
    <3>3. QED
      BY <3>1, <3>2
  <2>3. CASE rejoining' = [rejoining EXCEPT ![c] = TRUE] /\ Goes(c, "await") /\ UNCHANGED chan
    BY <1>5, <2>3, SameCarries DEF Rest, PrepareAgain, placeVars, fetchVars, brokerVars, ghostVars, Goes
  <2>4. QED
    BY <1>5, <2>2, <2>3 DEF PrepareAgain
<1>6. ASSUME NEW c \in Members, Joins(c) PROVE Rest' /\ ChanInv'
  <2>1. PICK v \in {"sent", "unknown"} :
          Sends(c, [Request("join", gen[c], NoOffsets) EXCEPT !.reply = v])
    <3>1. PICK o \in BOOLEAN :
            Sends(c, [Request("join", gen[c], NoOffsets) EXCEPT !.reply = IF o THEN "unknown" ELSE @])
      BY <1>6 DEF Joins
    <3>2. Request("join", gen[c], NoOffsets).reply = "sent"
      BY DEF Request
    <3>3. CASE o
      BY <3>1, <3>3
    <3>4. CASE ~o
      BY <3>1, <3>2, <3>4
    <3>5. QED
      BY <3>3, <3>4
  <2>2. /\ [Request("join", gen[c], NoOffsets) EXCEPT !.reply = v] \in Requests
        /\ Carries([Request("join", gen[c], NoOffsets) EXCEPT !.reply = v])
    <3>1. NoOffsets \in [Partitions -> Values] /\ gen[c] \in Ages
      BY ValuesHold DEF Offsets, Rest
    <3>2. QED
      BY <3>1 DEF Request, Requests, Carries
  <2>3. ChanInv'
    BY <2>1, <2>2, SendsCarries
  <2>4. joined' \subseteq Members /\ phase' \in {"stable", "join", "sync"}
    BY <1>6 DEF Joins, Rest
  <2>5. Rest'
    BY <1>6, <2>4 DEF Rest, Joins, placeVars, fetchVars, ghostVars, Goes
  <2>6. QED
    BY <2>3, <2>5
<1>7. ASSUME NEW c \in Members, NEW due \in BOOLEAN, AutoCommit(c, due) PROVE Rest' /\ ChanInv'
  <2>1. ChanInv'
    BY <1>7, CommitTyped, SendsCarries, SameCarries DEF AutoCommit
  <2>2. done' \subseteq AllRecords
    BY <1>7 DEF AutoCommit, Polls, Rest
  <2>3. CASE Drains(c)
    <3>1. /\ completed' \in [Members -> Seq(Segments)] /\ current' \in [Members -> Segments]
          /\ dropped' \subseteq AllRecords /\ Moves(c)
          /\ \E where \in {"app", "send"} : Goes(c, where)
          /\ picked' \in [Members -> SUBSET Partitions]
      BY <2>3, DrainsMoves
    <3>2. pc' \in [Members -> {"app", "poll", "prepare", "await", "join", "positions", "drain",
                               "send", "wait", "dead"}]
      BY <3>1 DEF Goes, Rest
    <3>3. QED
      BY <1>7, <2>1, <2>2, <3>1, <3>2 DEF Rest, AutoCommit, Moves, groupVars, brokerVars
  <2>4. CASE /\ Goes(c, "positions") /\ drained' = [drained EXCEPT ![c] = {}]
             /\ UNCHANGED <<position, completed, current, picked, dropped>>
    BY <1>7, <2>1, <2>2, <2>4 DEF Rest, AutoCommit, Goes, groupVars, brokerVars
  <2>5. QED
    BY <1>7, <2>3, <2>4 DEF AutoCommit
<1>8. ASSUME NEW c \in Members, AsksCommitted(c) PROVE Rest' /\ ChanInv'
  <2>1. ChanInv'
    BY <1>8, AskTyped, SendsCarries DEF AsksCommitted
  <2>2. QED
    BY <1>8, <2>1 DEF AsksCommitted, Rest, groupVars, placeVars, fetchVars, brokerVars, ghostVars
<1>9. ASSUME NEW c \in Members, Drain(c) PROVE Rest' /\ ChanInv'
  <2>1. /\ completed' \in [Members -> Seq(Segments)] /\ current' \in [Members -> Segments]
        /\ dropped' \subseteq AllRecords /\ Moves(c)
        /\ \E where \in {"app", "send"} : Goes(c, where)
        /\ picked' \in [Members -> SUBSET Partitions]
    BY <1>9, DrainsMoves DEF Drain
  <2>2. pc' \in [Members -> {"app", "poll", "prepare", "await", "join", "positions", "drain",
                             "send", "wait", "dead"}]
    BY <2>1 DEF Goes, Rest
  <2>3. QED
    BY <1>9, <2>1, <2>2, SameCarries DEF Rest, Drain, Moves, groupVars, brokerVars
<1>10. ASSUME NEW c \in Members, SendsFetch(c) PROVE Rest' /\ ChanInv'
  <2> DEFINE offs == [p \in Partitions |-> IF p \in picked[c] THEN position[c][p] ELSE None]
             ends == [p \in Partitions |-> IF p \in picked[c] THEN LogEnd ELSE None]
  <2>1. offs \in Offsets /\ ends \in [Partitions -> Raises..LogEnd] /\ LogEnd \in Nat
    BY ConsumerAssumption DEF Rest, Offsets, None, Raises
  <2>2. \A p \in Partitions : [ends EXCEPT ![p] = Raises] \in [Partitions -> Raises..LogEnd]
    BY <2>1 DEF Raises
  <2>3. ASSUME NEW got \in [Partitions -> Raises..LogEnd], Sends(c, AtOnce("fetch", offs, got))
        PROVE  ChanInv'
    <3>1. offs \in [Partitions -> Values] /\ got \in [Partitions -> Values]
      BY <2>1, ValuesHold DEF Offsets
    <3> HIDE DEF offs
    <3>2. AtOnce("fetch", offs, got) \in Requests /\ Carries(AtOnce("fetch", offs, got))
      BY <2>1, <3>1, AtOnceTyped DEF Carries
    <3>3. QED
      BY <2>3, <3>2, SendsCarries
  <2>4. ChanInv' /\ faults' \in 0..MaxFaults
    <3>1. \/ Sends(c, AtOnce("fetch", offs, ends)) /\ UNCHANGED faults
          \/ \E p \in picked[c] :
               Sends(c, AtOnce("fetch", offs, [ends EXCEPT ![p] = Raises])) /\ Fault(c)
          \/ UNCHANGED <<chan, faults>>
      BY <1>10 DEF SendsFetch
    <3>2. picked[c] \subseteq Partitions /\ faults \in 0..MaxFaults
      BY DEF Rest
    <3> HIDE DEF offs, ends
    <3>3. CASE Sends(c, AtOnce("fetch", offs, ends)) /\ UNCHANGED faults
      BY <2>1, <2>3, <3>2, <3>3
    <3>4. CASE \E p \in picked[c] :
               Sends(c, AtOnce("fetch", offs, [ends EXCEPT ![p] = Raises])) /\ Fault(c)
      BY <2>2, <2>3, <3>2, <3>4, FaultTyped
    <3>5. CASE UNCHANGED <<chan, faults>>
      BY <3>2, <3>5, SameCarries
    <3>6. QED
      BY <3>1, <3>3, <3>4, <3>5
  <2>5. pc' \in [Members -> {"app", "poll", "prepare", "await", "join", "positions", "drain",
                             "send", "wait", "dead"}]
        /\ picked' \in [Members -> SUBSET Partitions]
    BY <1>10 DEF SendsFetch, Goes, Rest
  <2>6. UNCHANGED <<groupVars, placeVars, completed, current, drained, brokerVars, ghostVars>>
    BY <1>10 DEF SendsFetch
  <2>7. QED
    BY <2>4, <2>5, <2>6 DEF Rest, groupVars, placeVars, brokerVars, ghostVars
<1>11. ASSUME NEW c \in Members, WaitEnds(c) PROVE Rest' /\ ChanInv'
  <2>1. ChanInv'
    BY <1>11, SameCarries DEF WaitEnds
  <2>2. CASE UNCHANGED <<completed, current, position, drained, dropped>>
    BY <1>11, <2>1, <2>2 DEF WaitEnds, Rest, Goes, groupVars, brokerVars
  <2>3. CASE \E s \in {FetchedRecords(c)} : Takes(c, s)
    <3>1. /\ completed' \in [Members -> Seq(Segments)] /\ current' \in [Members -> Segments]
          /\ dropped' \subseteq AllRecords /\ Moves(c)
      BY <2>3, TakesMoves
    <3>2. QED
      BY <1>11, <2>1, <3>1 DEF WaitEnds, Rest, Goes, Moves, groupVars, brokerVars
  <2>4. QED
    BY <1>11, <2>2, <2>3 DEF WaitEnds
<1>12. ASSUME NEW c \in Members, Heartbeat(c) PROVE Rest' /\ ChanInv'
  <2>1. /\ rejoin' \in [Members -> BOOLEAN] /\ gen' \in [Members -> Ages]
        /\ state' \in [Members -> {"unjoined", "rebalancing", "stable"}]
    BY <1>12 DEF Heartbeat, ResetGeneration, Rest, Ages
  <2>2. QED
    BY <1>12, <2>1, SameCarries
    DEF Heartbeat, Rest, placeVars, fetchVars, brokerVars, ghostVars
<1>13. ASSUME NEW c \in Members, Leaves(c) PROVE Rest' /\ ChanInv'
  <2>1. /\ rejoin' \in [Members -> BOOLEAN] /\ gen' \in [Members -> Ages]
        /\ state' \in [Members -> {"unjoined", "rebalancing", "stable"}]
    BY <1>13 DEF Leaves, ResetGeneration, Rest, Ages
  <2>2. members' \subseteq Members /\ joined' \subseteq Members /\ phase' \in {"stable", "join", "sync"}
    BY <1>13 DEF Leaves, Rest
  <2>3. faults' \in 0..MaxFaults
    BY <1>13, FaultTyped DEF Leaves
  <2>4. QED
    BY <1>13, <2>1, <2>2, <2>3, SameCarries DEF Leaves, Rest, placeVars, fetchVars, ghostVars
<1>14. ASSUME NEW c \in Members, HandleCommit(c) PROVE Rest' /\ ChanInv'
  <2>1. ChanInv'
    BY <1>14, ReadsCarries DEF HandleCommit, Reads, Arrived
  <2>2. /\ rejoin' \in [Members -> BOOLEAN] /\ gen' \in [Members -> Ages]
        /\ state' \in [Members -> {"unjoined", "rebalancing", "stable"}]
    BY <1>14 DEF HandleCommit, ResetGeneration, Rest, Ages
  <2>3. /\ rejoining' \in [Members -> BOOLEAN]
        /\ pc' \in [Members -> {"app", "poll", "prepare", "await", "join", "positions", "drain",
                             "send", "wait", "dead"}]
    BY <1>14 DEF HandleCommit, Goes, Rest
  <2>4. QED
    BY <1>14, <2>1, <2>2, <2>3
    DEF HandleCommit, Rest, placeVars, fetchVars, brokerVars, ghostVars
<1>15. ASSUME NEW c \in Members, HandleCommitted(c) PROVE Rest' /\ ChanInv'
  <2>1. ChanInv' /\ Head(chan[c]).got \in Offsets
    BY <1>15, ReadsCarries DEF HandleCommitted, Reads, Arrived, Carries
  <2> DEFINE offs == Head(chan[c]).got
             pos == [p \in Partitions |->
                       IF p \in Missing(c) THEN Max({offs[p], 0}) ELSE position[c][p]]
  <2>2. \A p \in Partitions : Max({offs[p], 0}) \in None..LogEnd
    <3> HIDE DEF offs
    <3>1. \A p \in Partitions : offs[p] \in None..LogEnd /\ offs[p] \in Int
      BY <2>1 DEF Offsets, None, offs
    <3>2. \A p \in Partitions : Max({offs[p], 0}) = IF offs[p] >= 0 THEN offs[p] ELSE 0
      BY <3>1, MaxOfTwo
    <3>3. QED
      BY <3>1, <3>2, ConsumerAssumption DEF None
  <2>3. pos \in Offsets
    BY <2>2 DEF Rest, Offsets
  <2>4. position' = [position EXCEPT ![c] = pos]
    BY <1>15 DEF HandleCommitted
  <2>5. position' \in [Members -> Offsets]
    <3> HIDE DEF pos
    <3> QED BY <2>3, <2>4 DEF Rest
  <2>6. QED
    BY <1>15, <2>1, <2>5 DEF HandleCommitted, Rest, Goes, groupVars, fetchVars, brokerVars, ghostVars
<1>16. ASSUME NEW c \in Members, HandleFetch(c) PROVE Rest' /\ ChanInv'
  <2>1. ChanInv' /\ Parts(Head(chan[c])) \in Seq(Segments)
    BY <1>16, ReadsCarries, PartsTyped DEF HandleFetch, Reads, Arrived
  <2>2. completed' \in [Members -> Seq(Segments)]
    BY <1>16, <2>1 DEF HandleFetch, Rest
  <2>3. QED
    BY <1>16, <2>1, <2>2 DEF HandleFetch, Rest, groupVars, placeVars, brokerVars, ghostVars
<1>17. ASSUME NEW c \in Members, HandleJoin(c) PROVE Rest' /\ ChanInv'
  <2>1. /\ Head(chan[c]) \in Requests /\ chan[c] # <<>>
        /\ Head(chan[c]).gen \in Ages /\ Head(chan[c]).who \in SUBSET Members
    <3>1. chan[c] \in Seq(Requests) /\ chan[c] # <<>>
      BY <1>17 DEF HandleJoin, Arrived, TypeOK
    <3>2. Head(chan[c]) \in Requests
      BY <3>1
    <3>3. QED
      BY <3>1, <3>2 DEF Requests
  <2>2. CASE Head(chan[c]).reply = "ok"
    <3> DEFINE r == Head(chan[c])
               offs == IF r.who = {} THEN NoOffsets ELSE RangeAssign(r.who)
    <3>1. offs \in [Partitions -> Values] /\ (offs # NoOffsets => offs \in [Partitions -> Members])
      <4>1. CASE r.who = {}
        BY <4>1, ValuesHold DEF Offsets
      <4>2. CASE r.who # {}
        <5>1. RangeAssign(r.who) \in [Partitions -> Members]
          BY <2>1, <4>2, RangeAssigns
        <5>2. QED
          BY <4>2, <5>1, ValuesHold
      <4>3. QED
        BY <4>1, <4>2
    <3>2. /\ chan' = [chan EXCEPT ![c] = <<Request("sync", r.gen, offs)>>]
          /\ gen' = [gen EXCEPT ![c] = r.gen] /\ rejoin' = [rejoin EXCEPT ![c] = FALSE]
          /\ UNCHANGED <<pc, state>>
      BY <1>17, <2>2 DEF HandleJoin
    <3> HIDE DEF offs
    <3>3. Request("sync", r.gen, offs) \in Requests /\ Carries(Request("sync", r.gen, offs))
      BY <2>1, <3>1, RequestTyped DEF Carries
    <3>4. ChanInv'
      <4>1. PICK q \in Requests : q = Request("sync", r.gen, offs) /\ Carries(q)
        BY <3>3
      <4>2. chan' = [chan EXCEPT ![c] = <<q>>]
        BY <3>2, <4>1
      <4>3. <<q>> \in Seq(Requests) /\ Range(<<q>>) = {q}
        BY DEF Range
      <4>4. chan \in [Members -> Seq(Requests)]
        BY DEF TypeOK
      <4>5. QED
        BY <4>1, <4>2, <4>3, <4>4 DEF ChanInv
    <3>5. gen' \in [Members -> Ages] /\ rejoin' \in [Members -> BOOLEAN]
      BY <2>1, <3>2 DEF Rest
    <3>6. UNCHANGED <<found, rejoining, placeVars, fetchVars, brokerVars, ghostVars, faults>>
      BY <1>17 DEF HandleJoin
    <3>7. QED
      BY <3>2, <3>4, <3>5, <3>6 DEF Rest, placeVars, fetchVars, brokerVars, ghostVars
  <2>3. CASE Head(chan[c]).reply # "ok"
    <3>1. ResetGeneration(c) /\ chan' = [chan EXCEPT ![c] = Tail(@)] /\ Goes(c, "poll")
      BY <1>17, <2>3 DEF HandleJoin
    <3>2. ChanInv'
      BY <2>1, <3>1, ReadsCarries
    <3>3. /\ rejoin' \in [Members -> BOOLEAN] /\ gen' \in [Members -> Ages]
          /\ state' \in [Members -> {"unjoined", "rebalancing", "stable"}]
      BY <3>1 DEF ResetGeneration, Rest, Ages
    <3>4. UNCHANGED <<found, rejoining, placeVars, fetchVars, brokerVars, ghostVars, faults>>
      BY <1>17 DEF HandleJoin
    <3>5. QED
      BY <3>1, <3>2, <3>3, <3>4 DEF Rest, Goes, placeVars, fetchVars, brokerVars, ghostVars
  <2>4. QED
    BY <2>2, <2>3
<1>18. ASSUME NEW c \in Members, HandleSync(c) PROVE Rest' /\ ChanInv'
  <2>1. ChanInv'
    BY <1>18, ReadsCarries DEF HandleSync, Reads, Arrived
  <2>2. NoOffsets \in Offsets /\ {p \in Partitions : Head(chan[c]).got[p] = c} \in SUBSET Partitions
    BY ValuesHold
  <2>3. /\ assigned' \in [Members -> SUBSET Partitions] /\ position' \in [Members -> Offsets]
    <3>1. \/ Assigns(c)
          \/ UNCHANGED placeVars
      BY <1>18 DEF HandleSync
    <3>2. CASE Assigns(c)
      BY <2>2, <3>2 DEF Assigns, Rest
    <3>3. CASE UNCHANGED placeVars
      BY <3>3 DEF placeVars, Rest
    <3>4. QED
      BY <3>1, <3>2, <3>3
  <2>4. /\ rejoin' \in [Members -> BOOLEAN] /\ gen' \in [Members -> Ages]
        /\ rejoining' \in [Members -> BOOLEAN]
        /\ state' \in [Members -> {"unjoined", "rebalancing", "stable"}]
    BY <1>18 DEF HandleSync, ResetGeneration, Rest, Ages
  <2>5. Goes(c, "poll") /\ UNCHANGED <<found, fetchVars, brokerVars, ghostVars, faults>>
    BY <1>18 DEF HandleSync
  <2>6. QED
    BY <2>1, <2>3, <2>4, <2>5 DEF Rest, Goes, fetchVars, brokerVars, ghostVars
<1>19. ASSUME NEW c \in Members, ConnectionLost(c) PROVE Rest' /\ ChanInv'
  <2>1. ChanInv' /\ faults' \in 0..MaxFaults
    BY <1>19, EmptiesCarries, FaultTyped DEF ConnectionLost
  <2>2. late' \subseteq [member : Members, gen : Ages, offs : Offsets]
    BY <1>19, AdriftTyped DEF ConnectionLost, Rest
  <2>3. /\ state' \in [Members -> {"unjoined", "rebalancing", "stable"}]
        /\ pc' \in [Members -> {"app", "poll", "prepare", "await", "join", "positions", "drain",
                                "send", "wait", "dead"}]
    BY <1>19 DEF ConnectionLost, Goes, Rest
  <2>4. QED
    BY <1>19, <2>1, <2>2, <2>3 DEF ConnectionLost, Rest, placeVars, fetchVars, ghostVars
<1>20. ASSUME NEW c \in Members, Crash(c) PROVE Rest' /\ ChanInv'
  <2>1. ChanInv' /\ faults' \in 0..MaxFaults
    BY <1>20, EmptiesCarries, FaultTyped DEF Crash
  <2>2. late' \subseteq [member : Members, gen : Ages, offs : Offsets]
    BY <1>20, AdriftTyped DEF Crash, Rest
  <2>3. NoOffsets \in Offsets /\ Nothing \in Segments /\ <<>> \in Seq(Segments)
    BY ValuesHold, SegmentsHave
  <2>4. QED
    BY <1>20, <2>1, <2>2, <2>3 DEF Crash, ResetGeneration, Goes, Ages, Rest, ghostVars
<1>21. ASSUME NEW c \in Members, Expires(c) PROVE Rest' /\ ChanInv'
  BY <1>21, SameCarries DEF Expires, Rest, groupVars, placeVars, fetchVars, ghostVars
<1>22. ASSUME NEW r \in late, LateCommit(r) PROVE Rest' /\ ChanInv'
  <2>1. r.offs \in Offsets /\ late' \subseteq [member : Members, gen : Ages, offs : Offsets]
    BY <1>22 DEF Rest, LateCommit
  <2>2. committed' \in Offsets
    BY <1>22, <2>1, OverlayTyped DEF LateCommit, Rest
  <2>3. QED
    BY <1>22, <2>1, <2>2, SameCarries
    DEF LateCommit, Rest, groupVars, placeVars, fetchVars, ghostVars
<1>23. ASSUME NEW c \in Members, AnswersCommit(c) \/ AnswersSync(c) PROVE Rest' /\ ChanInv'
  <2>1. CASE AnswersCommit(c)
    <3> DEFINE v == Verdict(c, Question(c).gen, {"stable", "join"})
    <3>1. v \in {"ok", "rebalance", "unknown"} /\ NoOffsets \in [Partitions -> Values]
      BY ValuesHold DEF Verdict, Offsets
    <3>2. ChanInv'
      BY <2>1, <3>1, AnswerCarries DEF AnswersCommit
    <3>3. Question(c) \in Range(chan[c]) /\ Question(c).kind = "commit"
      BY <2>1, QuestionIs DEF AnswersCommit
    <3>4. Question(c).offs \in Offsets
      BY <3>3 DEF Carries, ChanInv
    <3>5. committed' \in Offsets
      BY <2>1, <3>4, OverlayTyped DEF AnswersCommit, Rest
    <3>6. QED
      BY <2>1, <3>2, <3>5 DEF AnswersCommit, Rest, groupVars, placeVars, fetchVars, ghostVars
  <2>2. CASE AnswersSync(c)
    <3>1. /\ Question(c) \in Range(chan[c]) /\ Question(c).kind = "sync"
          /\ Question(c) \in Requests
      BY <2>2, QuestionIs DEF AnswersSync
    <3>2. CASE /\ Question(c).offs # NoOffsets
               /\ plan' = Question(c).offs /\ phase' = "stable"
               /\ Answer(c, "ok", plan')
      <4>1. plan' \in [Partitions -> Members] /\ plan' \in [Partitions -> Values]
        BY <3>1, <3>2, ValuesHold DEF Carries, ChanInv
      <4>2. ChanInv'
        BY <2>2, <3>2, <4>1, AnswerCarries DEF AnswersSync
      <4>3. QED
        BY <2>2, <3>2, <4>1, <4>2 DEF AnswersSync, Rest, groupVars, placeVars, fetchVars, ghostVars
    <3>3. CASE /\ Answer(c, Verdict(c, Question(c).gen, {"stable"}), plan)
               /\ UNCHANGED <<plan, phase>>
      <4>1. /\ Verdict(c, Question(c).gen, {"stable"}) \in {"ok", "rebalance", "unknown"}
            /\ plan \in [Partitions -> Values]
        BY ValuesHold DEF Verdict, Rest
      <4>2. ChanInv'
        BY <2>2, <3>3, <4>1, AnswerCarries DEF AnswersSync
      <4>3. QED
        BY <2>2, <3>3, <4>2 DEF AnswersSync, Rest, groupVars, placeVars, fetchVars, ghostVars
    <3>4. QED
      BY <2>2, <3>2, <3>3 DEF AnswersSync
  <2>3. QED
    BY <1>23, <2>1, <2>2
<1>24. ASSUME CompletesJoin PROVE Rest' /\ ChanInv'
  <2>1. faults' \in 0..MaxFaults
    BY <1>24, FaultTyped DEF CompletesJoin, Rest
  <2>2. gen' \in [Members -> Ages]
    BY <1>24, AgeTyped DEF CompletesJoin, Rest
  <2>3. NoPlan \in [Partitions -> Members \union {0}]
    BY DEF NoPlan
  <2>4. ChanInv'
    BY <1>24, CompletesCarries
  <2>5. /\ phase' = "sync" /\ plan' = NoPlan /\ members' = joined /\ joined' = {} /\ late' = {}
        /\ UNCHANGED <<pc, found, state, rejoin, rejoining, placeVars, fetchVars, committed, ghostVars>>
    BY <1>24 DEF CompletesJoin
  <2>6. QED
    BY <2>1, <2>2, <2>3, <2>4, <2>5 DEF Rest, placeVars, fetchVars, ghostVars
<1>25. CASE UNCHANGED vars
  BY <1>25, SameCarries DEF vars, Rest, groupVars, placeVars, fetchVars, brokerVars, ghostVars
<1>26. QED
  BY <1>3, <1>4, <1>5, <1>6, <1>7, <1>8, <1>9, <1>10, <1>11, <1>12, <1>13, <1>14, <1>15,
     <1>16, <1>17, <1>18, <1>19, <1>20, <1>21, <1>22, <1>23, <1>24, <1>25
  DEF Next, Thread, Answered, Answers

-----------------------------------------------------------------------------
(* Where the thread is, and what is in flight. *)

\* It waits for one answer at a time of those it stands still for.
PlaceOf(c) ==
  /\ \A i \in 1..Len(chan[c]) :
       /\ chan[c][i].kind = "committed" =>
            /\ pc[c] = "positions"
            /\ \A j \in 1..Len(chan[c]) : chan[c][j].kind = "committed" => j = i
       /\ chan[c][i].kind \in {"join", "sync"} => pc[c] = "join"
  /\ pc[c] = "join" =>
       /\ Len(chan[c]) = 1 /\ chan[c][1].kind \in {"join", "sync"} /\ state[c] = "rebalancing"
       /\ chan[c][1].kind = "sync" => chan[c][1].gen = gen[c]

PlaceInv == \A c \in Members : PlaceOf(c)

\* A thread that goes on: not to wait for a join, and not from the positions.
GoesOn(c) ==
  pc[c] # "join" /\ pc'[c] # "join" /\ (pc[c] = "positions" => pc'[c] = "positions")

\* What a step of one member leaves alone of the others.
Alone(c) ==
  \A d \in Members :
    d # c => /\ pc'[d] = pc[d] /\ state'[d] = state[d] /\ gen'[d] = gen[d]
             /\ chan'[d] = chan[d]

LEMMA PlaceElse ==
  ASSUME PlaceInv, NEW c \in Members, Alone(c), PlaceOf(c)'
  PROVE  PlaceInv'
<1>1. ASSUME NEW d \in Members, d # c PROVE PlaceOf(d)'
  BY <1>1 DEF PlaceInv, PlaceOf, Alone
<1>2. QED
  BY <1>1 DEF PlaceInv

LEMMA PlaceSame ==
  ASSUME NEW c \in Members, PlaceOf(c), chan'[c] = chan[c], GoesOn(c)
  PROVE  PlaceOf(c)'
BY DEF PlaceOf, GoesOn

LEMMA PlaceSends ==
  ASSUME TypeOK, NEW c \in Members, PlaceOf(c), NEW r \in Requests, Sends(c, r), GoesOn(c),
         r.kind \notin {"join", "sync"},
         r.kind = "committed" => pc[c] = "positions" /\ ~InFlight(c, "committed")
  PROVE  PlaceOf(c)'
<1>1. chan[c] \in Seq(Requests) /\ chan'[c] = Append(chan[c], r)
  BY SendsAdds DEF TypeOK
<1> DEFINE n == Len(chan[c])
<1>2. /\ n \in Nat /\ Len(chan'[c]) = n + 1 /\ chan'[c][n + 1] = r
      /\ \A i \in 1..n : chan'[c][i] = chan[c][i]
  BY <1>1
<1>3. DOMAIN chan[c] = 1..n
  BY <1>1
<1>4. r.kind = "committed" => \A i \in 1..n : chan[c][i].kind # "committed"
  BY <1>3 DEF InFlight
<1> HIDE DEF n
<1>5. ASSUME NEW i \in 1..(n + 1)
      PROVE  /\ chan'[c][i].kind = "committed" =>
                  /\ pc'[c] = "positions"
                  /\ \A j \in 1..(n + 1) : chan'[c][j].kind = "committed" => j = i
             /\ chan'[c][i].kind \in {"join", "sync"} => pc'[c] = "join"
  <2>1. CASE i \in 1..n
    <3>1. chan'[c][i] = chan[c][i] /\ chan[c][i].kind \notin {"join", "sync"}
      BY <1>2, <2>1 DEF PlaceOf, GoesOn, n
    <3>2. ASSUME chan[c][i].kind = "committed", NEW j \in 1..(n + 1), chan'[c][j].kind = "committed"
          PROVE  j = i
      <4>1. r.kind # "committed"
        BY <1>4, <2>1, <3>2
      <4>2. j \in 1..n
        BY <1>2, <3>2, <4>1
      <4>3. chan[c][j].kind = "committed"
        BY <1>2, <3>2, <4>2
      <4>4. QED
        BY <2>1, <3>2, <4>2, <4>3 DEF PlaceOf, n
    <3>3. chan[c][i].kind = "committed" => pc'[c] = "positions"
      BY <2>1 DEF PlaceOf, GoesOn, n
    <3>4. QED
      BY <3>1, <3>2, <3>3
  <2>2. CASE i = n + 1
    <3>1. chan'[c][i] = r /\ r.kind \notin {"join", "sync"}
      BY <1>2, <2>2
    <3>2. ASSUME r.kind = "committed", NEW j \in 1..(n + 1), chan'[c][j].kind = "committed"
          PROVE  j = i
      <4>1. j \notin 1..n
        BY <1>2, <1>4, <3>2
      <4>2. QED
        BY <1>2, <2>2, <4>1
    <3>3. r.kind = "committed" => pc'[c] = "positions"
      BY DEF GoesOn
    <3>4. QED
      BY <3>1, <3>2, <3>3
  <2>3. QED
    BY <1>2, <2>1, <2>2
<1>6. QED
  BY <1>2, <1>5 DEF PlaceOf, GoesOn

LEMMA PlaceReads ==
  ASSUME TypeOK, NEW c \in Members, PlaceOf(c), chan[c] # <<>>, chan'[c] = Tail(chan[c]),
         pc'[c] # "join",
         pc[c] = "positions" => pc'[c] = "positions" \/ Head(chan[c]).kind = "committed"
  PROVE  PlaceOf(c)'
<1>1. chan[c] \in Seq(Requests)
  BY DEF TypeOK
<1> DEFINE n == Len(chan[c])
<1>2. /\ n \in Nat \ {0} /\ Head(chan[c]) = chan[c][1] /\ Len(chan'[c]) = n - 1
      /\ \A i \in 1..(n - 1) : chan'[c][i] = chan[c][i + 1]
  BY <1>1
<1>3. pc[c] = "join" => n = 1
  BY DEF PlaceOf
<1> HIDE DEF n
<1>4. ASSUME NEW i \in 1..(n - 1)
      PROVE  /\ chan'[c][i].kind = "committed" =>
                  /\ pc'[c] = "positions"
                  /\ \A j \in 1..(n - 1) : chan'[c][j].kind = "committed" => j = i
             /\ chan'[c][i].kind \in {"join", "sync"} => pc'[c] = "join"
  <2>1. i + 1 \in 1..n /\ i + 1 # 1 /\ pc[c] # "join" /\ 1 \in 1..n
    BY <1>2, <1>3
  <2>2. chan[c][i + 1].kind \notin {"join", "sync"}
    BY <2>1 DEF PlaceOf, n
  <2>3. ASSUME chan[c][i + 1].kind = "committed"
        PROVE  /\ pc'[c] = "positions"
               /\ \A j \in 1..(n - 1) : chan[c][j + 1].kind = "committed" => j = i
    <3>1. pc[c] = "positions" /\ \A j \in 1..n : chan[c][j].kind = "committed" => j = i + 1
      BY <2>1, <2>3 DEF PlaceOf, n
    <3>2. chan[c][1].kind # "committed"
      BY <2>1, <3>1
    <3>3. \A j \in 1..(n - 1) : j + 1 \in 1..n /\ (j + 1 = i + 1 => j = i)
      BY <1>2
    <3>4. QED
      BY <1>2, <3>1, <3>2, <3>3
  <2>4. QED
    BY <1>2, <2>2, <2>3
<1>5. QED
  BY <1>2, <1>4 DEF PlaceOf

LEMMA PlaceEmpties ==
  ASSUME NEW c \in Members, chan'[c] = <<>>, pc'[c] # "join"
  PROVE  PlaceOf(c)'
BY DEF PlaceOf

\* The broker's answers: requests stay of their kind.
LEMMA PlaceAnswered ==
  ASSUME NEW c \in Members, PlaceOf(c), Len(chan'[c]) = Len(chan[c]),
         \A i \in 1..Len(chan[c]) : chan'[c][i].kind = chan[c][i].kind,
         pc'[c] = pc[c], state'[c] = state[c],
         \A i \in 1..Len(chan[c]) : chan[c][i].gen = gen[c] => chan'[c][i].gen = gen'[c]
  PROVE  PlaceOf(c)'
<1>1. ASSUME pc[c] = "join" PROVE 1 \in 1..Len(chan[c])
  BY <1>1 DEF PlaceOf
<1>2. QED
  BY <1>1 DEF PlaceOf

LEMMA PlaceBegins == Init => PlaceInv
BY DEF Init, PlaceInv, PlaceOf

LEMMA AnswerPlaces ==
  ASSUME TypeOK, PlaceInv, NEW c \in Members, NEW kind, Asked(c, kind),
         NEW verdict \in {"ok", "rebalance", "unknown"}, NEW got \in [Partitions -> Values],
         Answer(c, verdict, got), UNCHANGED <<pc, state, gen>>
  PROVE  PlaceInv'
<1>1. PICK q \in Requests : /\ q.kind = kind /\ q.reply = verdict /\ q.got = got
                            /\ Replaces(c, q)
  BY AnswerIs
<1>2. /\ Question(c).kind = kind /\ Question(c) = chan[c][First(c)]
  BY QuestionIs
<1>3. ASSUME NEW d \in Members PROVE PlaceOf(d)'
  <2>1. Len(chan'[d]) = Len(chan[d])
    BY <1>1 DEF Replaces
  <2>2. ASSUME NEW i \in 1..Len(chan[d])
        PROVE  chan'[d][i].kind = chan[d][i].kind /\ chan'[d][i].gen = chan[d][i].gen
    BY <1>1, <1>2 DEF Replaces
  <2>3. PlaceOf(d) /\ pc'[d] = pc[d] /\ state'[d] = state[d] /\ gen'[d] = gen[d]
    BY DEF PlaceInv
  <2>4. QED
    BY <2>1, <2>2, <2>3, PlaceAnswered
<1>4. QED
  BY <1>3 DEF PlaceInv

\* The broker's answers to commits and to SyncGroups.
LEMMA Answerings ==
  ASSUME TypeInv, NEW c \in Members, AnswersCommit(c) \/ AnswersSync(c)
  PROVE  \E kind \in {"commit", "sync"}, verdict \in {"ok", "rebalance", "unknown"},
            got \in [Partitions -> Values] : Asked(c, kind) /\ Answer(c, verdict, got)
<1>1. NoOffsets \in [Partitions -> Values] /\ plan \in [Partitions -> Values]
  BY ValuesHold DEF Offsets, TypeInv, TypeOK
<1>2. \A when : Verdict(c, Question(c).gen, when) \in {"ok", "rebalance", "unknown"}
  BY DEF Verdict
<1>3. CASE AnswersCommit(c)
  BY <1>1, <1>2, <1>3 DEF AnswersCommit
<1>4. CASE AnswersSync(c)
  <2>1. Asked(c, "sync")
    BY <1>4 DEF AnswersSync
  <2>2. Carries(Question(c)) /\ Question(c).kind = "sync"
    BY <2>1, QuestionIs DEF TypeInv
  <2>3. CASE Question(c).offs # NoOffsets /\ Answer(c, "ok", Question(c).offs)
    BY <2>1, <2>2, <2>3, ValuesHold DEF Carries
  <2>4. CASE Answer(c, Verdict(c, Question(c).gen, {"stable"}), plan)
    BY <1>1, <1>2, <2>1, <2>4
  <2>5. QED
    BY <1>4, <2>3, <2>4 DEF AnswersSync, Answer
<1>5. QED
  BY <1>3, <1>4

LEMMA PlaceStep == TypeInv /\ PlaceInv /\ [Next]_vars => PlaceInv'
<1>1. SUFFICES ASSUME TypeInv, PlaceInv, [Next]_vars PROVE PlaceInv'
  OBVIOUS
<1>2. /\ TypeOK
      /\ pc \in [Members -> {"app", "poll", "prepare", "await", "join", "positions", "drain",
                             "send", "wait", "dead"}]
      /\ state \in [Members -> {"unjoined", "rebalancing", "stable"}]
      /\ gen \in [Members -> Ages] /\ chan \in [Members -> Seq(Requests)]
  BY <1>1 DEF TypeInv, TypeOK
<1>3. \A c \in Members : PlaceOf(c)
  BY <1>1 DEF PlaceInv
<1> USE <1>1, <1>2, <1>3
\* A step that sends nothing: the thread goes on.
<1>4. ASSUME NEW c \in Members, UNCHANGED chan, GoesOn(c), Alone(c) PROVE PlaceInv'
  BY <1>4, PlaceSame, PlaceElse
\* One that sends a commit, from the thread.
<1>5. ASSUME NEW c \in Members, Sends(c, Request("commit", gen[c], Consumed(c))), GoesOn(c), Alone(c)
      PROVE  PlaceInv'
  BY <1>5, CommitTyped, PlaceSends, PlaceElse
\* One that reads an answer.
<1>6. ASSUME NEW c \in Members, NEW kind, Reads(c, kind)
      PROVE  /\ Head(chan[c]).kind = kind /\ chan[c] # <<>> /\ chan'[c] = Tail(chan[c])
             /\ chan[c][1] = Head(chan[c]) /\ Len(chan[c]) >= 1
             /\ \A d \in Members : d # c => chan'[d] = chan[d]
             /\ pc[c] = "join" => kind \in {"join", "sync"}
             /\ kind = "committed" => pc[c] = "positions"
             /\ kind \in {"join", "sync"} => pc[c] = "join"
  <2>1. /\ Head(chan[c]).kind = kind /\ chan[c] # <<>>
        /\ chan' = [chan EXCEPT ![c] = Tail(@)]
    BY <1>6 DEF Reads, Arrived
  <2>2. chan'[c] = Tail(chan[c]) /\ \A d \in Members : d # c => chan'[d] = chan[d]
    BY <2>1
  <2>3. chan[c] \in Seq(Requests)
    OBVIOUS
  <2>4. chan[c][1] = Head(chan[c]) /\ 1 \in 1..Len(chan[c]) /\ Len(chan[c]) >= 1
    BY <2>1, <2>3
  <2>5. QED
    BY <2>1, <2>2, <2>4 DEF PlaceOf
<1>7. ASSUME NEW c \in Members, Finds(c) PROVE PlaceInv'
  <2>1. pc[c] # "join"
    BY <1>7 DEF Finds, Beating, Locked
  <2>2. QED
    BY <1>4, <1>7, <2>1 DEF Finds, GoesOn, Alone
<1>8. ASSUME NEW c \in Members, Prepare(c) PROVE PlaceInv'
  <2>1. pc[c] \in {"app", "poll"} /\ UNCHANGED <<state, gen>>
    BY <1>8 DEF Prepare, Polls
  <2>2. CASE Sends(c, Request("commit", gen[c], Consumed(c))) /\ Goes(c, "prepare")
    <3>1. GoesOn(c) /\ Alone(c)
      BY <2>1, <2>2 DEF Goes, GoesOn, Alone, Sends
    <3>2. QED
      BY <1>5, <2>2, <3>1
  <2>3. CASE Goes(c, "await") /\ UNCHANGED chan
    BY <1>4, <2>1, <2>3 DEF Goes, GoesOn, Alone
  <2>4. QED
    BY <1>8, <2>2, <2>3 DEF Prepare
<1>9. ASSUME NEW c \in Members, PrepareAgain(c) PROVE PlaceInv'
  <2>1. pc[c] = "prepare" /\ UNCHANGED <<state, gen>>
    BY <1>9 DEF PrepareAgain
  <2>2. CASE Sends(c, Request("commit", gen[c], Consumed(c))) /\ UNCHANGED pc
    <3>1. GoesOn(c) /\ Alone(c)
      BY <2>1, <2>2 DEF Goes, GoesOn, Alone, Sends
    <3>2. QED
      BY <1>5, <2>2, <3>1
  <2>3. CASE Goes(c, "await") /\ UNCHANGED chan
    BY <1>4, <2>1, <2>3 DEF Goes, GoesOn, Alone
  <2>4. QED
    BY <1>9, <2>2, <2>3 DEF PrepareAgain
<1>10. ASSUME NEW c \in Members, Joins(c) PROVE PlaceInv'
  <2>1. /\ chan[c] = <<>> /\ state' = [state EXCEPT ![c] = "rebalancing"]
        /\ Goes(c, "join") /\ UNCHANGED gen
    BY <1>10 DEF Joins
  <2>2. PICK q : chan' = [chan EXCEPT ![c] = Append(@, q)] /\ q.kind = "join"
    <3> DEFINE q == [Request("join", gen[c], NoOffsets) EXCEPT
                       !.reply = IF gen[c] # "none" /\ c \notin members THEN "unknown" ELSE @]
    <3>1. chan' = [chan EXCEPT ![c] = Append(@, q)]
      BY <1>10 DEF Joins, Sends
    <3>2. q.kind = "join"
      BY DEF Request
    <3> HIDE DEF q
    <3>3. QED
      BY <3>1, <3>2
  <2>3. chan'[c] = <<q>> /\ \A d \in Members : d # c => chan'[d] = chan[d]
    BY <2>1, <2>2
  <2>4. Len(<<q>>) = 1 /\ <<q>>[1] = q
    OBVIOUS
  <2>5. PlaceOf(c)'
    <3>1. pc'[c] = "join" /\ state'[c] = "rebalancing"
      BY <2>1 DEF Goes
    <3>2. \A i \in 1..Len(chan'[c]) : chan'[c][i] = q
      BY <2>3, <2>4
    <3>3. QED
      BY <2>2, <2>3, <2>4, <3>1, <3>2 DEF PlaceOf
  <2>6. Alone(c)
    BY <2>1, <2>3 DEF Alone, Goes
  <2>7. QED
    BY <2>5, <2>6, PlaceElse
<1>11. ASSUME NEW c \in Members, NEW due \in BOOLEAN, AutoCommit(c, due) PROVE PlaceInv'
  <2>1. PICK where \in {"app", "send", "positions"} : Goes(c, where)
    BY <1>11, DrainsMoves DEF AutoCommit
  <2>2. pc[c] \in {"app", "poll"} /\ UNCHANGED <<state, gen>>
    BY <1>11 DEF AutoCommit, Polls, groupVars
  <2>3. GoesOn(c)
    BY <2>1, <2>2 DEF Goes, GoesOn
  <2>4. CASE Sends(c, Request("commit", gen[c], Consumed(c)))
    BY <1>5, <2>1, <2>2, <2>3, <2>4 DEF Goes, Alone, Sends
  <2>5. CASE UNCHANGED chan
    BY <1>4, <2>1, <2>2, <2>3, <2>5 DEF Goes, Alone
  <2>6. QED
    BY <1>11, <2>4, <2>5 DEF AutoCommit
<1>12. ASSUME NEW c \in Members, AsksCommitted(c) PROVE PlaceInv'
  <2>1. /\ pc[c] = "positions" /\ ~InFlight(c, "committed") /\ UNCHANGED <<pc, state, gen>>
        /\ Sends(c, AtOnce("committed", NoOffsets, committed))
    BY <1>12 DEF AsksCommitted, groupVars
  <2>2. PICK q \in Requests : q = AtOnce("committed", NoOffsets, committed) /\ q.kind = "committed"
    BY AskTyped
  <2>3. Sends(c, q) /\ GoesOn(c) /\ Alone(c)
    BY <2>1, <2>2 DEF GoesOn, Alone, Sends
  <2>4. QED
    BY <2>1, <2>2, <2>3, PlaceSends, PlaceElse
<1>13. ASSUME NEW c \in Members, Drain(c) PROVE PlaceInv'
  <2>1. PICK where \in {"app", "send"} : Goes(c, where)
    BY <1>13, DrainsMoves DEF Drain
  <2>2. pc[c] = "drain" /\ UNCHANGED <<state, gen, chan>>
    BY <1>13 DEF Drain, groupVars
  <2>3. QED
    BY <1>4, <2>1, <2>2 DEF Goes, GoesOn, Alone
<1>14. ASSUME NEW c \in Members, SendsFetch(c) PROVE PlaceInv'
  <2>1. /\ pc[c] = "send" /\ UNCHANGED <<state, gen>>
        /\ \E where \in {"app", "wait"} : Goes(c, where)
    BY <1>14 DEF SendsFetch, groupVars
  <2>2. GoesOn(c)
    BY <2>1 DEF Goes, GoesOn
  <2> DEFINE offs == [p \in Partitions |-> IF p \in picked[c] THEN position[c][p] ELSE None]
             ends == [p \in Partitions |-> IF p \in picked[c] THEN LogEnd ELSE None]
  <2>3. UNCHANGED chan \/ \E got \in [Partitions -> Raises..LogEnd] : Sends(c, AtOnce("fetch", offs, got))
    <3>1. LogEnd \in Nat
      BY ConsumerAssumption
    <3>2. ends \in [Partitions -> Raises..LogEnd]
            /\ \A p \in Partitions : [ends EXCEPT ![p] = Raises] \in [Partitions -> Raises..LogEnd]
      BY <3>1 DEF Raises, None
    <3>3. \/ UNCHANGED chan
          \/ Sends(c, AtOnce("fetch", offs, ends))
          \/ \E p \in picked[c] : Sends(c, AtOnce("fetch", offs, [ends EXCEPT ![p] = Raises]))
      BY <1>14 DEF SendsFetch
    <3>4. picked[c] \subseteq Partitions
      BY DEF TypeOK
    <3> HIDE DEF offs, ends
    <3>5. QED
      BY <3>2, <3>3, <3>4
  <2>4. ASSUME NEW got \in [Partitions -> Raises..LogEnd], Sends(c, AtOnce("fetch", offs, got))
        PROVE  PlaceInv'
    <3>1. offs \in Offsets
      BY <1>2, ConsumerAssumption DEF TypeOK, Offsets, None
    <3>2. offs \in [Partitions -> Values] /\ got \in [Partitions -> Values]
      BY <3>1, ValuesHold DEF Offsets
    <3> HIDE DEF offs
    <3>3. PICK q \in Requests : q = AtOnce("fetch", offs, got) /\ q.kind = "fetch"
      BY <3>2, AtOnceTyped
    <3>4. Sends(c, q) /\ Alone(c)
      BY <2>1, <2>4, <3>3 DEF Alone, Goes, Sends
    <3>5. QED
      BY <2>2, <3>3, <3>4, PlaceSends, PlaceElse
  <2>5. CASE UNCHANGED chan
    BY <1>4, <2>1, <2>2, <2>5 DEF Alone, Goes
  <2>6. QED
    BY <2>3, <2>4, <2>5
<1>15. ASSUME NEW c \in Members, WaitEnds(c) PROVE PlaceInv'
  BY <1>4, <1>15 DEF WaitEnds, Goes, groupVars, GoesOn, Alone
<1>16. ASSUME NEW c \in Members, Heartbeat(c) \/ Leaves(c) PROVE PlaceInv'
  <2>1. pc[c] # "join" /\ UNCHANGED <<pc, chan>>
    BY <1>16 DEF Heartbeat, Leaves, Beating, Locked
  <2>2. \A d \in Members : d # c => state'[d] = state[d] /\ gen'[d] = gen[d]
    BY <1>16 DEF Heartbeat, Leaves, ResetGeneration
  <2>3. QED
    BY <1>4, <2>1, <2>2 DEF GoesOn, Alone
<1>17. ASSUME NEW c \in Members, HandleCommit(c) PROVE PlaceInv'
  <2>1. Reads(c, "commit")
    BY <1>17 DEF HandleCommit
  <2>2. /\ pc[c] # "join" /\ chan[c] # <<>> /\ chan'[c] = Tail(chan[c])
        /\ \A d \in Members : d # c => chan'[d] = chan[d]
    BY <1>6, <2>1
  <2>3. \/ UNCHANGED pc
        \/ pc[c] = "prepare" /\ Goes(c, "await")
    BY <1>17 DEF HandleCommit
  <2>4. \A d \in Members : d # c => state'[d] = state[d] /\ gen'[d] = gen[d]
    BY <1>17 DEF HandleCommit, ResetGeneration
  <2>5. Alone(c) /\ GoesOn(c)
    BY <2>2, <2>3, <2>4 DEF Alone, Goes, GoesOn
  <2>6. PlaceOf(c)'
    BY <2>2, <2>5, PlaceReads DEF GoesOn
  <2>7. QED
    BY <2>5, <2>6, PlaceElse
<1>18. ASSUME NEW c \in Members, HandleCommitted(c) PROVE PlaceInv'
  <2>1. Reads(c, "committed") /\ Goes(c, "drain") /\ UNCHANGED <<state, gen>>
    BY <1>18 DEF HandleCommitted, groupVars
  <2>2. /\ Head(chan[c]).kind = "committed" /\ chan[c] # <<>> /\ chan'[c] = Tail(chan[c])
        /\ \A d \in Members : d # c => chan'[d] = chan[d]
    BY <1>6, <2>1
  <2>3. Alone(c) /\ pc'[c] = "drain"
    BY <2>1, <2>2 DEF Alone, Goes
  <2>4. PlaceOf(c)'
    BY <2>2, <2>3, PlaceReads
  <2>5. QED
    BY <2>3, <2>4, PlaceElse
<1>19. ASSUME NEW c \in Members, HandleFetch(c) PROVE PlaceInv'
  <2>1. Reads(c, "fetch") /\ UNCHANGED <<pc, state, gen>>
    BY <1>19 DEF HandleFetch, groupVars
  <2>2. /\ pc[c] # "join" /\ chan[c] # <<>> /\ chan'[c] = Tail(chan[c])
        /\ \A d \in Members : d # c => chan'[d] = chan[d]
    BY <1>6, <2>1
  <2>3. PlaceOf(c)'
    BY <2>1, <2>2, PlaceReads
  <2>4. QED
    BY <2>1, <2>2, <2>3, PlaceElse DEF Alone
<1>20. ASSUME NEW c \in Members, HandleJoin(c) PROVE PlaceInv'
  <2>1. chan[c] # <<>> /\ Head(chan[c]).kind = "join"
    BY <1>20 DEF HandleJoin, Arrived
  <2>2. chan[c] \in Seq(Requests) /\ 1 \in 1..Len(chan[c]) /\ chan[c][1].kind = "join"
    BY <2>1
  <2>3. pc[c] = "join" /\ state[c] = "rebalancing"
    BY <2>2 DEF PlaceOf
  <2>4. CASE Head(chan[c]).reply = "ok"
    <3> DEFINE r == Head(chan[c])
               q == Request("sync", r.gen, IF r.who = {} THEN NoOffsets ELSE RangeAssign(r.who))
    <3>1. /\ chan' = [chan EXCEPT ![c] = <<q>>] /\ gen' = [gen EXCEPT ![c] = r.gen]
          /\ UNCHANGED <<pc, state>>
      BY <1>20, <2>4 DEF HandleJoin
    <3>2. q.kind = "sync" /\ q.gen = r.gen
      BY DEF Request
    <3> HIDE DEF q
    <3>3. chan'[c] = <<q>> /\ Len(<<q>>) = 1 /\ <<q>>[1] = q /\ gen'[c] = r.gen
      BY <3>1
    <3>4. \A i \in 1..Len(chan'[c]) : chan'[c][i] = q
      BY <3>3
    <3>5. PlaceOf(c)'
      BY <2>3, <3>1, <3>2, <3>3, <3>4 DEF PlaceOf
    <3>6. Alone(c)
      BY <3>1 DEF Alone
    <3>7. QED
      BY <3>5, <3>6, PlaceElse
  <2>5. CASE Head(chan[c]).reply # "ok"
    <3>1. ResetGeneration(c) /\ chan' = [chan EXCEPT ![c] = Tail(@)] /\ Goes(c, "poll")
      BY <1>20, <2>5 DEF HandleJoin
    <3>2. /\ chan'[c] = Tail(chan[c]) /\ pc'[c] = "poll" /\ Alone(c)
      BY <3>1 DEF ResetGeneration, Goes, Alone
    <3>3. PlaceOf(c)'
      BY <2>1, <2>3, <3>2, PlaceReads
    <3>4. QED
      BY <3>2, <3>3, PlaceElse
  <2>6. QED
    BY <2>4, <2>5
<1>21. ASSUME NEW c \in Members, HandleSync(c) PROVE PlaceInv'
  <2>1. Reads(c, "sync") /\ Goes(c, "poll")
    BY <1>21 DEF HandleSync
  <2>2. /\ pc[c] = "join" /\ chan[c] # <<>> /\ chan'[c] = Tail(chan[c])
        /\ \A d \in Members : d # c => chan'[d] = chan[d]
    BY <1>6, <2>1
  <2>3. \A d \in Members : d # c => state'[d] = state[d] /\ gen'[d] = gen[d]
    BY <1>21 DEF HandleSync, ResetGeneration
  <2>4. Alone(c) /\ pc'[c] = "poll"
    BY <2>1, <2>2, <2>3 DEF Alone, Goes
  <2>5. PlaceOf(c)'
    BY <2>2, <2>4, PlaceReads
  <2>6. QED
    BY <2>4, <2>5, PlaceElse
<1>22. ASSUME NEW c \in Members, ConnectionLost(c) \/ Crash(c) PROVE PlaceInv'
  <2>1. chan' = [chan EXCEPT ![c] = <<>>]
    BY <1>22 DEF ConnectionLost, Crash
  <2>2. pc'[c] # "join" /\ \A d \in Members : d # c => pc'[d] = pc[d]
    BY <1>22 DEF ConnectionLost, Crash, Goes
  <2>3. \A d \in Members : d # c => state'[d] = state[d] /\ gen'[d] = gen[d]
    BY <1>22 DEF ConnectionLost, Crash, ResetGeneration
  <2>4. Alone(c) /\ PlaceOf(c)'
    BY <2>1, <2>2, <2>3, PlaceEmpties DEF Alone
  <2>5. QED
    BY <2>4, PlaceElse
<1>23. ASSUME NEW c \in Members, AnswersCommit(c) \/ AnswersSync(c) PROVE PlaceInv'
  <2>1. UNCHANGED <<pc, state, gen>>
    BY <1>23 DEF AnswersCommit, AnswersSync, groupVars
  <2>2. QED
    BY <1>23, <2>1, Answerings, AnswerPlaces
<1>24. ASSUME CompletesJoin PROVE PlaceInv'
  <2>1. ASSUME NEW c \in Members PROVE PlaceOf(c)'
    <3>1. /\ pc'[c] = pc[c] /\ state'[c] = state[c] /\ gen'[c] = Age(gen[c])
      BY <1>24 DEF CompletesJoin
    <3>2. CASE Asked(c, "join")
      <4>1. Question(c) \in Range(chan[c]) /\ Question(c).kind = "join" /\ Question(c) = chan[c][First(c)]
            /\ First(c) \in 1..Len(chan[c])
        BY <3>2, QuestionIs
      <4>2. pc[c] = "join" /\ state[c] = "rebalancing"
        BY <4>1 DEF PlaceOf
      <4>3. Len(chan'[c]) = 1 /\ chan'[c][1].kind = "join"
        BY <1>24, <3>2, CompletesAnswers
      <4>4. QED
        BY <3>1, <4>2, <4>3 DEF PlaceOf
    <3>3. CASE ~Asked(c, "join")
      <4>1. /\ Len(chan'[c]) = Len(chan[c])
            /\ \A i \in 1..Len(chan[c]) :
                 chan'[c][i].kind = chan[c][i].kind /\ chan'[c][i].gen = Age(chan[c][i].gen)
        BY <1>24, <3>3, CompletesAnswers
      <4>2. QED
        BY <3>1, <4>1, PlaceAnswered
    <3>4. QED
      BY <3>2, <3>3
  <2>2. QED
    BY <2>1 DEF PlaceInv
<1>25. ASSUME UNCHANGED <<pc, state, gen, chan>> PROVE PlaceInv'
  BY <1>25 DEF PlaceInv, PlaceOf
<1>26. ASSUME NEW c \in Members, Expires(c) PROVE PlaceInv'
  BY <1>25, <1>26 DEF Expires, groupVars
<1>27. ASSUME NEW r \in late, LateCommit(r) PROVE PlaceInv'
  BY <1>25, <1>27 DEF LateCommit, groupVars
<1>28. CASE UNCHANGED vars
  BY <1>25, <1>28 DEF vars, groupVars
<1>29. QED
  BY <1>7, <1>8, <1>9, <1>10, <1>11, <1>12, <1>13, <1>14, <1>15, <1>16, <1>17, <1>18, <1>19,
     <1>20, <1>21, <1>22, <1>23, <1>24, <1>26, <1>27, <1>28
  DEF Next, Thread, Answered, Answers

-----------------------------------------------------------------------------
(* What is behind an offset. *)

\* Records that an application has dealt with, or that a poll dropped.
Dealt == done \union dropped

\* The records before the offsets are among these.
Covered(offs, rs) == \A r \in AllRecords : r[2] < offs[r[1]] => r \in rs

\* What a request says, or is told, of offsets.
Safe(r) ==
  /\ r.kind = "commit" => Covered(r.offs, Dealt)
  /\ r.kind = "committed" => Covered(r.got, Dealt)

\* A member's hands: the records its application has, from before its position.
HandOf(c) ==
  /\ pc[c] \notin {"app", "send"} => drained[c] = {}
  /\ \A r \in drained[c] : r[2] < position[c][r[1]]
  /\ Covered(position[c], Dealt \union drained[c])

SafeOf(c) == \A r \in Range(chan[c]) : Safe(r)

OffsetsInv ==
  /\ Covered(committed, Dealt)
  /\ \A x \in late : Covered(x.offs, Dealt)
  /\ \A c \in Members : HandOf(c) /\ SafeOf(c)

\* Nothing is taken back.
Grows == done \subseteq done' /\ dropped \subseteq dropped'

Untouched(c) ==
  \A d \in Members :
    d # c => /\ pc'[d] = pc[d] /\ drained'[d] = drained[d] /\ position'[d] = position[d]

LEMMA RecordsHave ==
  \A r \in AllRecords : r[1] \in Partitions /\ r[2] \in Nat /\ r = <<r[1], r[2]>>
BY ConsumerAssumption DEF AllRecords

LEMMA NothingCovered == \A rs : Covered(NoOffsets, rs)
<1>1. ASSUME NEW r \in AllRecords PROVE ~ (r[2] < NoOffsets[r[1]])
  BY RecordsHave DEF NoOffsets, None
<1>2. QED
  BY <1>1 DEF Covered

LEMMA SafeGrows == ASSUME Grows, NEW r, Safe(r) PROVE Safe(r)'
BY DEF Safe, Grows, Covered, Dealt

LEMMA HandGrows ==
  ASSUME Grows, NEW c \in Members, HandOf(c),
         pc'[c] = pc[c] \/ drained[c] = {}, drained'[c] = drained[c], position'[c] = position[c]
  PROVE  HandOf(c)'
BY DEF HandOf, Grows, Covered, Dealt

\* The records in hand are dealt with.
LEMMA HandEmpties ==
  ASSUME Grows, NEW c \in Members, HandOf(c), drained'[c] = {}, position'[c] = position[c],
         drained[c] \subseteq done'
  PROVE  HandOf(c)'
BY DEF HandOf, Grows, Covered, Dealt

LEMMA HandMoves ==
  ASSUME TypeOK, Grows, NEW c \in Members, HandOf(c), Moves(c), drained[c] \subseteq done',
         pc'[c] \in {"app", "send"}
  PROVE  HandOf(c)'
<1>1. position[c] \in Offsets /\ position'[c] \in Offsets
  BY DEF TypeOK, Moves
<1>2. \A r \in AllRecords : position[c][r[1]] \in Int /\ position'[c][r[1]] \in Int /\ r[2] \in Nat
  BY <1>1, RecordsHave DEF Offsets, None
<1>3. \A r \in drained'[c] : r[2] < position'[c][r[1]]
  <2>1. ASSUME NEW r \in drained'[c] PROVE r[2] < position'[c][r[1]]
    <3>1. r \in AllRecords /\ r[2] \in position[c][r[1]]..(position'[c][r[1]] - 1)
      BY DEF Moves, Passed
    <3>2. QED
      BY <1>2, <3>1
  <2>2. QED
    BY <2>1
<1>4. ASSUME NEW r \in AllRecords, r[2] < position'[c][r[1]]
      PROVE  r \in Dealt' \union drained'[c]
  <2>1. CASE r[2] < position[c][r[1]]
    BY <2>1 DEF HandOf, Covered, Grows, Dealt
  <2>2. CASE ~ (r[2] < position[c][r[1]])
    <3>1. r[1] \in Partitions
      BY RecordsHave
    <3>2. position[c][r[1]] # position'[c][r[1]]
      BY <1>2, <1>4, <2>2
    <3>3. position[c][r[1]] # None
      BY <3>1, <3>2 DEF Moves
    <3>4. r[2] \in position[c][r[1]]..(position'[c][r[1]] - 1)
      BY <1>2, <1>4, <2>2
    <3>5. r \in Passed(position[c], position'[c])
      BY <3>3, <3>4 DEF Passed
    <3>6. QED
      BY <3>5 DEF Moves, Dealt
  <2>3. QED
    BY <2>1, <2>2
<1>5. QED
  BY <1>3, <1>4 DEF HandOf, Covered

\* A step of a member that changes nothing at the broker.
LEMMA OffsetsElse ==
  ASSUME OffsetsInv, Grows, NEW c \in Members, Untouched(c), UNCHANGED <<committed, late>>,
         HandOf(c)', \A d \in Members : \A r \in Range(chan'[d]) : r \in Range(chan[d]) \/ Safe(r)'
  PROVE  OffsetsInv'
<1>1. Covered(committed, Dealt)' /\ \A x \in late' : Covered(x.offs, Dealt')
  BY DEF OffsetsInv, Grows, Covered, Dealt
<1>2. \A d \in Members : HandOf(d)'
  BY HandGrows DEF OffsetsInv, Untouched
<1>3. \A d \in Members : SafeOf(d)'
  BY SafeGrows DEF OffsetsInv, SafeOf
<1>4. QED
  BY <1>1, <1>2, <1>3 DEF OffsetsInv

\* Offsets that are covered may be committed.
LEMMA OverlayCovered ==
  ASSUME NEW offs, Covered(offs, Dealt), Covered(committed, Dealt), Overlay(offs)
  PROVE  Covered(committed', Dealt)
<1>1. ASSUME NEW r \in AllRecords, r[2] < committed'[r[1]] PROVE r \in Dealt
  <2>1. r[1] \in Partitions
    BY RecordsHave
  <2>2. committed'[r[1]] = IF offs[r[1]] # None THEN offs[r[1]] ELSE committed[r[1]]
    BY <2>1 DEF Overlay
  <2>3. QED
    BY <1>1, <2>2 DEF Covered
<1>2. QED
  BY <1>1 DEF Covered

LEMMA OffsetsBegin == Init => OffsetsInv
<1>1. SUFFICES ASSUME Init PROVE OffsetsInv
  OBVIOUS
<1>2. \A c \in Members : position[c] = NoOffsets /\ drained[c] = {} /\ chan[c] = <<>>
  BY <1>1 DEF Init
<1>3. Range(<<>>) = {}
  BY DEF Range
<1>4. committed = NoOffsets /\ late = {}
  BY <1>1 DEF Init
<1>5. QED
  BY <1>2, <1>3, <1>4, NothingCovered DEF OffsetsInv, HandOf, SafeOf

\* What a connection loses was safe to commit.
LEMMA AdriftCovered ==
  ASSUME NEW c \in Members, SafeOf(c)
  PROVE  \A x \in {[member |-> c, gen |-> r.gen, offs |-> r.offs] : r \in Adrift(c)} :
           Covered(x.offs, Dealt)
<1>1. ASSUME NEW r \in Adrift(c) PROVE Covered(r.offs, Dealt)
  BY DEF Adrift, SafeOf, Safe
<1>2. QED
  BY <1>1

LEMMA SeekTo ==
  ASSUME NEW a \in Int, NEW n \in Nat, n < Max({a, 0})
  PROVE  n < a
<1>1. Max({a, 0}) = IF a >= 0 THEN a ELSE 0
  BY MaxOfTwo
<1>2. QED
  BY <1>1

LEMMA OffsetsStep == TypeInv /\ PlaceInv /\ OffsetsInv /\ [Next]_vars => OffsetsInv'
<1>1. SUFFICES ASSUME TypeInv, PlaceInv, OffsetsInv, [Next]_vars PROVE OffsetsInv'
  OBVIOUS
<1>2. /\ TypeOK
      /\ pc \in [Members -> {"app", "poll", "prepare", "await", "join", "positions", "drain",
                             "send", "wait", "dead"}]
      /\ position \in [Members -> Offsets] /\ drained \in [Members -> SUBSET AllRecords]
      /\ chan \in [Members -> Seq(Requests)]
  BY <1>1 DEF TypeInv, TypeOK
<1>3. /\ Covered(committed, Dealt) /\ \A x \in late : Covered(x.offs, Dealt)
      /\ \A c \in Members : HandOf(c) /\ SafeOf(c) /\ PlaceOf(c)
  BY <1>1 DEF OffsetsInv, PlaceInv
<1> USE <1>1, <1>2, <1>3
\* Requests that are read, or as they were.
<1>4. ASSUME NEW c \in Members, NEW kind, Reads(c, kind)
      PROVE  /\ \A d \in Members : Range(chan'[d]) \subseteq Range(chan[d])
             /\ Head(chan[c]) \in Range(chan[c]) /\ Head(chan[c]).kind = kind
             /\ kind = "committed" => pc[c] = "positions"
             /\ kind \in {"join", "sync"} => pc[c] = "join"
  <2>1. chan[c] # <<>> /\ Head(chan[c]).kind = kind /\ chan' = [chan EXCEPT ![c] = Tail(@)]
    BY <1>4 DEF Reads, Arrived
  <2>2. /\ Head(chan[c]) \in Range(chan[c]) /\ Head(chan[c]) = chan[c][1]
        /\ Range(chan'[c]) \subseteq Range(chan[c])
        /\ \A d \in Members : d # c => chan'[d] = chan[d]
    BY <2>1, ReadsTakes
  <2>3. 1 \in 1..Len(chan[c])
    BY <2>1
  <2>4. QED
    BY <2>1, <2>2, <2>3 DEF PlaceOf
<1>5. ASSUME NEW c \in Members, Sends(c, Request("commit", gen[c], Consumed(c))), Grows,
             drained[c] \subseteq done'
      PROVE  \A d \in Members : \A r \in Range(chan'[d]) : r \in Range(chan[d]) \/ Safe(r)'
  <2>1. PICK q \in Requests : /\ q = Request("commit", gen[c], Consumed(c))
                              /\ q.kind = "commit" /\ q.offs = position[c]
    BY CommitTyped
  <2>2. /\ Range(chan'[c]) = Range(chan[c]) \union {q}
        /\ \A d \in Members : d # c => chan'[d] = chan[d]
    BY <1>5, <2>1, SendsAdds
  <2>3. Covered(position[c], Dealt')
    BY <1>5 DEF HandOf, Covered, Dealt, Grows
  <2>4. Safe(q)'
    BY <2>1, <2>3 DEF Safe
  <2>5. QED
    BY <2>2, <2>4
<1>6. ASSUME NEW c \in Members, Finds(c) \/ Heartbeat(c) PROVE OffsetsInv'
  <2>1. UNCHANGED <<pc, position, drained, chan, committed, late, done, dropped>>
    BY <1>6 DEF Finds, Heartbeat, placeVars, fetchVars, brokerVars, ghostVars
  <2>2. QED
    BY <2>1 DEF OffsetsInv, HandOf, SafeOf, Safe, Dealt
<1>7. ASSUME NEW c \in Members, Prepare(c) PROVE OffsetsInv'
  <2>1. /\ done' = done \union drained[c] /\ drained' = [drained EXCEPT ![c] = {}]
        /\ UNCHANGED <<position, committed, late, dropped>>
    BY <1>7 DEF Prepare, Polls, placeVars, brokerVars
  <2>2. Grows /\ drained[c] \subseteq done'
    BY <2>1 DEF Grows
  <2>3. HandOf(c)'
    BY <2>1, <2>2, HandEmpties
  <2>4. Untouched(c)
    BY <1>7, <2>1 DEF Prepare, Goes, Untouched
  <2>5. \A d \in Members : \A r \in Range(chan'[d]) : r \in Range(chan[d]) \/ Safe(r)'
    BY <1>5, <1>7, <2>2 DEF Prepare
  <2>6. QED
    BY <2>1, <2>2, <2>3, <2>4, <2>5, OffsetsElse
<1>8. ASSUME NEW c \in Members, PrepareAgain(c) PROVE OffsetsInv'
  <2>1. /\ pc[c] = "prepare" /\ drained[c] = {}
        /\ UNCHANGED <<position, drained, committed, late, done, dropped>>
    BY <1>8 DEF PrepareAgain, placeVars, fetchVars, brokerVars, ghostVars, HandOf
  <2>2. Grows /\ drained[c] \subseteq done'
    BY <2>1 DEF Grows
  <2>3. HandOf(c)'
    BY <2>1, <2>2, HandEmpties
  <2>4. Untouched(c)
    BY <1>8, <2>1 DEF PrepareAgain, Goes, Untouched
  <2>5. \A d \in Members : \A r \in Range(chan'[d]) : r \in Range(chan[d]) \/ Safe(r)'
    BY <1>5, <1>8, <2>2 DEF PrepareAgain
  <2>6. QED
    BY <2>1, <2>2, <2>3, <2>4, <2>5, OffsetsElse
<1>9. ASSUME NEW c \in Members, Joins(c) PROVE OffsetsInv'
  <2>1. /\ pc[c] = "await" /\ drained[c] = {} /\ Goes(c, "join")
        /\ UNCHANGED <<position, drained, committed, late, done, dropped>>
    BY <1>9 DEF Joins, placeVars, fetchVars, ghostVars, HandOf
  <2>2. Grows /\ drained[c] \subseteq done'
    BY <2>1 DEF Grows
  <2>3. HandOf(c)' /\ Untouched(c)
    BY <2>1, <2>2, HandEmpties DEF Goes, Untouched
  <2>4. chan[c] = <<>> /\ \E q : q.kind = "join" /\ chan' = [chan EXCEPT ![c] = Append(@, q)]
    <3> DEFINE q == [Request("join", gen[c], NoOffsets) EXCEPT
                       !.reply = IF gen[c] # "none" /\ c \notin members THEN "unknown" ELSE @]
    <3>1. chan[c] = <<>> /\ chan' = [chan EXCEPT ![c] = Append(@, q)]
      BY <1>9 DEF Joins, Sends
    <3>2. q.kind = "join"
      BY DEF Request
    <3> HIDE DEF q
    <3>3. QED
      BY <3>1, <3>2
  <2>5. PICK q : q.kind = "join" /\ chan'[c] = <<q>> /\ \A d \in Members : d # c => chan'[d] = chan[d]
    BY <2>4
  <2>6. Range(<<q>>) = {q}
    BY DEF Range
  <2>7. Safe(q)'
    BY <2>5 DEF Safe
  <2>8. \A d \in Members : \A r \in Range(chan'[d]) : r \in Range(chan[d]) \/ Safe(r)'
    BY <2>5, <2>6, <2>7
  <2>9. QED
    BY <2>1, <2>2, <2>3, <2>8, OffsetsElse
<1>10. ASSUME NEW c \in Members, NEW due \in BOOLEAN, AutoCommit(c, due) PROVE OffsetsInv'
  <2>1. done' = done \union drained[c] /\ UNCHANGED <<committed, late>>
    BY <1>10 DEF AutoCommit, Polls, brokerVars
  <2>2. Grows /\ HandOf(c)' /\ Untouched(c)
    <3>1. CASE Drains(c)
      <4>1. Moves(c) /\ \E where \in {"app", "send"} : Goes(c, where)
        BY <3>1, DrainsMoves
      <4>2. Grows /\ drained[c] \subseteq done' /\ pc'[c] \in {"app", "send"}
        BY <2>1, <4>1 DEF Grows, Moves, Goes
      <4>3. Untouched(c)
        BY <4>1 DEF Moves, Goes, Untouched
      <4>4. QED
        BY <4>1, <4>2, <4>3, HandMoves
    <3>2. CASE /\ Goes(c, "positions") /\ drained' = [drained EXCEPT ![c] = {}]
               /\ UNCHANGED <<position, completed, current, picked, dropped>>
      <4>1. Grows /\ drained[c] \subseteq done' /\ drained'[c] = {} /\ Untouched(c)
        BY <2>1, <3>2 DEF Grows, Goes, Untouched
      <4>2. QED
        BY <3>2, <4>1, HandEmpties
    <3>3. QED
      BY <1>10, <3>1, <3>2 DEF AutoCommit
  <2>3. \A d \in Members : \A r \in Range(chan'[d]) : r \in Range(chan[d]) \/ Safe(r)'
    <3>1. drained[c] \subseteq done'
      BY <2>1
    <3>2. CASE Sends(c, Request("commit", gen[c], Consumed(c)))
      BY <1>5, <2>2, <3>1, <3>2
    <3>3. CASE UNCHANGED chan
      BY <3>3
    <3>4. QED
      BY <1>10, <3>2, <3>3 DEF AutoCommit
  <2>4. QED
    BY <2>1, <2>2, <2>3, OffsetsElse
<1>11. ASSUME NEW c \in Members, AsksCommitted(c) PROVE OffsetsInv'
  <2>1. UNCHANGED <<pc, position, drained, committed, late, done, dropped>>
    BY <1>11 DEF AsksCommitted, placeVars, fetchVars, brokerVars, ghostVars
  <2>2. PICK q \in Requests : /\ q = AtOnce("committed", NoOffsets, committed)
                              /\ q.kind = "committed" /\ q.got = committed
    BY AskTyped
  <2>3. /\ Range(chan'[c]) = Range(chan[c]) \union {q}
        /\ \A d \in Members : d # c => chan'[d] = chan[d]
    BY <1>11, <2>2, SendsAdds DEF AsksCommitted
  <2>4. Grows /\ Untouched(c)
    BY <2>1 DEF Grows, Untouched
  <2>5. Safe(q)
    BY <2>2 DEF Safe
  <2>6. Safe(q)' /\ HandOf(c)'
    BY <2>1, <2>4, <2>5, SafeGrows, HandGrows
  <2>7. QED
    BY <2>1, <2>3, <2>4, <2>6, OffsetsElse
<1>12. ASSUME NEW c \in Members, Drain(c) \/ WaitEnds(c) PROVE OffsetsInv'
  <2>1. /\ pc[c] \in {"drain", "wait"} /\ drained[c] = {}
        /\ UNCHANGED <<chan, committed, late, done>>
    BY <1>12 DEF Drain, WaitEnds, brokerVars, HandOf
  <2>2. CASE Moves(c) /\ \E where \in {"app", "send"} : Goes(c, where)
    <3>1. Grows /\ drained[c] \subseteq done' /\ pc'[c] \in {"app", "send"} /\ Untouched(c)
      BY <2>1, <2>2 DEF Grows, Moves, Goes, Untouched
    <3>2. HandOf(c)'
      BY <2>2, <3>1, HandMoves
    <3>3. QED
      BY <2>1, <3>1, <3>2, OffsetsElse
  <2>3. CASE Goes(c, "app") /\ UNCHANGED <<position, drained, dropped>>
    <3>1. Grows /\ Untouched(c)
      BY <2>1, <2>3 DEF Grows, Goes, Untouched
    <3>2. HandOf(c)'
      BY <2>1, <2>3, <3>1, HandGrows
    <3>3. QED
      BY <2>1, <3>1, <3>2, OffsetsElse
  <2>4. QED
    BY <1>12, <2>2, <2>3, DrainsMoves, TakesMoves DEF Drain, WaitEnds
<1>13. ASSUME NEW c \in Members, SendsFetch(c) PROVE OffsetsInv'
  <2>1. /\ Goes(c, IF drained[c] # {} THEN "app" ELSE "wait")
        /\ UNCHANGED <<position, drained, committed, late, done, dropped>>
    BY <1>13 DEF SendsFetch, placeVars, brokerVars, ghostVars
  <2>2. Grows /\ Untouched(c)
    BY <2>1 DEF Grows, Goes, Untouched
  <2>3. HandOf(c)'
    BY <2>1 DEF HandOf, Goes, Dealt
  <2>4. UNCHANGED chan \/ \E q : q.kind = "fetch" /\ Sends(c, q)
    <3>1. \A offs, got : AtOnce("fetch", offs, got).kind = "fetch"
      BY DEF AtOnce, Request
    <3>2. UNCHANGED chan \/ \E offs, got : Sends(c, AtOnce("fetch", offs, got))
      BY <1>13 DEF SendsFetch
    <3>3. QED
      BY <3>1, <3>2
  <2>5. \A d \in Members : \A r \in Range(chan'[d]) : r \in Range(chan[d]) \/ Safe(r)'
    <3>1. ASSUME NEW q, q.kind = "fetch", Sends(c, q), NEW d \in Members, NEW r \in Range(chan'[d])
          PROVE  r \in Range(chan[d]) \/ Safe(r)'
      <4>1. d # c => chan'[d] = chan[d]
        BY <3>1 DEF Sends
      <4>2. chan'[c] = Append(chan[c], q) /\ chan[c] \in Seq(Requests)
        BY <3>1 DEF Sends
      <4>3. \A i \in DOMAIN Append(chan[c], q) :
              \/ i \in DOMAIN chan[c] /\ Append(chan[c], q)[i] = chan[c][i]
              \/ Append(chan[c], q)[i] = q
        BY <4>2
      <4>4. d = c => r \in Range(chan[c]) \/ r = q
        BY <4>2, <4>3, <3>1 DEF Range
      <4>5. Safe(q)'
        BY <3>1 DEF Safe
      <4>6. QED
        BY <4>1, <4>4, <4>5, <3>1
    <3>2. QED
      BY <2>4, <3>1
  <2>6. QED
    BY <2>1, <2>2, <2>3, <2>5, OffsetsElse
<1>14. ASSUME NEW c \in Members, Leaves(c) \/ Expires(c) PROVE OffsetsInv'
  <2>1. UNCHANGED <<pc, position, drained, chan, committed, late, done, dropped>>
    BY <1>14 DEF Leaves, Expires, placeVars, fetchVars, ghostVars
  <2>2. QED
    BY <2>1 DEF OffsetsInv, HandOf, SafeOf, Safe, Dealt
<1>15. ASSUME NEW c \in Members, HandleCommit(c) \/ HandleFetch(c) PROVE OffsetsInv'
  <2>1. /\ UNCHANGED <<position, drained, committed, late, done, dropped>>
        /\ \/ UNCHANGED pc
           \/ pc[c] = "prepare" /\ Goes(c, "await")
    BY <1>15 DEF HandleCommit, HandleFetch, placeVars, fetchVars, brokerVars, ghostVars
  <2>2. Grows /\ Untouched(c) /\ (pc'[c] = pc[c] \/ drained[c] = {})
    BY <2>1 DEF Grows, Untouched, Goes, HandOf
  <2>3. HandOf(c)'
    BY <2>1, <2>2, HandGrows
  <2>4. \A d \in Members : Range(chan'[d]) \subseteq Range(chan[d])
    BY <1>4, <1>15 DEF HandleCommit, HandleFetch
  <2>5. QED
    BY <2>1, <2>2, <2>3, <2>4, OffsetsElse
<1>16. ASSUME NEW c \in Members, HandleCommitted(c) PROVE OffsetsInv'
  <2> DEFINE offs == Head(chan[c]).got
             pos == [p \in Partitions |->
                       IF p \in Missing(c) THEN Max({offs[p], 0}) ELSE position[c][p]]
  <2>1. /\ Reads(c, "committed") /\ Goes(c, "drain") /\ position' = [position EXCEPT ![c] = pos]
        /\ UNCHANGED <<drained, committed, late, done, dropped>>
    BY <1>16 DEF HandleCommitted, fetchVars, brokerVars, ghostVars
  <2>2. /\ \A d \in Members : Range(chan'[d]) \subseteq Range(chan[d])
        /\ Head(chan[c]) \in Range(chan[c]) /\ Head(chan[c]).kind = "committed"
        /\ pc[c] = "positions"
    BY <1>4, <2>1
  <2>3. Covered(offs, Dealt) /\ offs \in Offsets
    BY <2>2 DEF SafeOf, Safe, TypeInv, Carries
  <2>4. drained[c] = {}
    BY <2>2 DEF HandOf
  <2> HIDE DEF offs
  <2>5. Covered(pos, Dealt)
    <3>1. ASSUME NEW r \in AllRecords, r[2] < pos[r[1]] PROVE r \in Dealt
      <4>1. r[1] \in Partitions /\ r[2] \in Nat
        BY RecordsHave
      <4>2. CASE r[1] \in Missing(c)
        <5>1. pos[r[1]] = Max({offs[r[1]], 0})
          BY <4>1, <4>2
        <5>2. offs[r[1]] \in Int
          BY <2>3, <4>1 DEF Offsets, None
        <5>3. r[2] < Max({offs[r[1]], 0})
          BY <3>1, <5>1
        <5>4. r[2] < offs[r[1]]
          BY <4>1, <5>2, <5>3, SeekTo
        <5>5. QED
          BY <2>3, <5>4 DEF Covered
      <4>3. CASE r[1] \notin Missing(c)
        <5>1. r[2] < position[c][r[1]]
          BY <3>1, <4>1, <4>3
        <5>2. QED
          BY <2>4, <5>1 DEF HandOf, Covered
      <4>4. QED
        BY <4>2, <4>3
    <3>2. QED
      BY <3>1 DEF Covered
  <2> HIDE DEF pos
  <2>6. position'[c] = pos /\ drained'[c] = {}
    BY <2>1, <2>4
  <2>7. HandOf(c)'
    BY <2>1, <2>5, <2>6 DEF HandOf, Covered, Dealt
  <2>8. Grows /\ Untouched(c)
    BY <2>1 DEF Grows, Untouched, Goes
  <2>9. QED
    BY <2>1, <2>2, <2>7, <2>8, OffsetsElse
<1>17. ASSUME NEW c \in Members, HandleJoin(c) PROVE OffsetsInv'
  <2>1. /\ UNCHANGED <<position, drained, committed, late, done, dropped>>
        /\ chan[c] # <<>> /\ Head(chan[c]).kind = "join"
    BY <1>17 DEF HandleJoin, Arrived, placeVars, fetchVars, brokerVars, ghostVars
  <2>2. chan[c] \in Seq(Requests) /\ 1 \in 1..Len(chan[c]) /\ chan[c][1].kind = "join"
    BY <2>1
  <2>3. pc[c] = "join" /\ drained[c] = {}
    BY <2>2 DEF PlaceOf, HandOf
  <2>4. Grows /\ Untouched(c)
    BY <1>17, <2>1 DEF Grows, Untouched, HandleJoin, Goes
  <2>5. HandOf(c)'
    BY <2>1, <2>3, <2>4, HandGrows
  <2>6. CASE chan' = [chan EXCEPT ![c] = Tail(@)]
    <3>1. \A d \in Members : Range(chan'[d]) \subseteq Range(chan[d])
      BY <2>1, <2>6, ReadsTakes
    <3>2. QED
      BY <2>1, <2>4, <2>5, <3>1, OffsetsElse
  <2>7. CASE \E offs, g : chan' = [chan EXCEPT ![c] = <<Request("sync", g, offs)>>]
    <3>1. \A offs, g : Request("sync", g, offs).kind = "sync"
      BY DEF Request
    <3>2. PICK q : q.kind = "sync" /\ chan' = [chan EXCEPT ![c] = <<q>>]
      BY <2>7, <3>1
    <3>3. Range(<<q>>) = {q}
      BY DEF Range
    <3>4. Safe(q)'
      BY <3>2 DEF Safe
    <3>5. \A d \in Members : \A r \in Range(chan'[d]) : r \in Range(chan[d]) \/ Safe(r)'
      BY <3>2, <3>3, <3>4
    <3>6. QED
      BY <2>1, <2>4, <2>5, <3>5, OffsetsElse
  <2>8. QED
    BY <1>17, <2>6, <2>7 DEF HandleJoin
<1>18. ASSUME NEW c \in Members, HandleSync(c) PROVE OffsetsInv'
  <2>1. /\ Reads(c, "sync") /\ Goes(c, "poll")
        /\ UNCHANGED <<drained, committed, late, done, dropped>>
    BY <1>18 DEF HandleSync, fetchVars, brokerVars, ghostVars
  <2>2. pc[c] = "join" /\ \A d \in Members : Range(chan'[d]) \subseteq Range(chan[d])
    BY <1>4, <2>1
  <2>3. drained[c] = {}
    BY <2>2 DEF HandOf
  <2>4. \/ position' = [position EXCEPT ![c] = NoOffsets]
        \/ UNCHANGED position
    BY <1>18 DEF HandleSync, Assigns, placeVars
  <2>5. Grows /\ Untouched(c)
    BY <2>1, <2>4 DEF Grows, Untouched, Goes
  <2>6. HandOf(c)'
    <3>1. CASE UNCHANGED position
      BY <2>1, <2>3, <2>5, <3>1, HandGrows
    <3>2. CASE position' = [position EXCEPT ![c] = NoOffsets]
      <4>1. position'[c] = NoOffsets /\ drained'[c] = {}
        BY <2>1, <2>3, <3>2
      <4>2. QED
        BY <4>1, NothingCovered DEF HandOf
    <3>3. QED
      BY <2>4, <3>1, <3>2
  <2>7. QED
    BY <2>1, <2>2, <2>5, <2>6, OffsetsElse
<1>19. ASSUME NEW c \in Members, ConnectionLost(c) \/ Crash(c) PROVE OffsetsInv'
  <2>1. /\ UNCHANGED <<committed, done, dropped>>
        /\ chan' = [chan EXCEPT ![c] = <<>>]
        /\ late' = late \union {[member |-> c, gen |-> r.gen, offs |-> r.offs] : r \in Adrift(c)}
    BY <1>19 DEF ConnectionLost, Crash, ghostVars
  <2>2. \A x \in late' : Covered(x.offs, Dealt)
    BY <2>1, AdriftCovered
  <2>3. Range(<<>>) = {}
    BY DEF Range
  <2>4. \A d \in Members : Range(chan'[d]) \subseteq Range(chan[d])
    BY <2>1, <2>3
  <2>5. Grows /\ Dealt' = Dealt
    BY <2>1 DEF Grows, Dealt
  <2>6. HandOf(c)' /\ Untouched(c)
    <3>1. CASE ConnectionLost(c)
      <4>1. UNCHANGED <<position, drained>> /\ (UNCHANGED pc \/ (pc[c] = "join" /\ Goes(c, "poll")))
        BY <3>1 DEF ConnectionLost, placeVars, fetchVars
      <4>2. (pc'[c] = pc[c] \/ drained[c] = {}) /\ Untouched(c)
        BY <4>1 DEF Untouched, Goes, HandOf
      <4>3. QED
        BY <2>5, <4>1, <4>2, HandGrows
    <3>2. CASE Crash(c)
      <4>1. position'[c] = NoOffsets /\ drained'[c] = {} /\ Untouched(c)
        BY <3>2 DEF Crash, Untouched, Goes
      <4>2. QED
        BY <4>1, NothingCovered DEF HandOf
    <3>3. QED
      BY <1>19, <3>1, <3>2
  <2>7. \A d \in Members : HandOf(d)'
    BY <2>5, <2>6, HandGrows DEF Untouched
  <2>8. \A d \in Members : SafeOf(d)'
    BY <2>4, <2>5, SafeGrows DEF SafeOf
  <2>9. QED
    BY <2>1, <2>2, <2>5, <2>7, <2>8 DEF OffsetsInv
<1>20. ASSUME NEW c \in Members, AnswersCommit(c) \/ AnswersSync(c) PROVE OffsetsInv'
  <2>1. UNCHANGED <<pc, position, drained, late, done, dropped>>
    BY <1>20 DEF AnswersCommit, AnswersSync, placeVars, fetchVars, ghostVars
  <2>2. Covered(committed', Dealt)
    <3>1. CASE UNCHANGED committed
      BY <3>1
    <3>2. CASE AnswersCommit(c) /\ Overlay(Question(c).offs)
      <4>1. Question(c) \in Range(chan[c]) /\ Question(c).kind = "commit"
        BY <3>2, QuestionIs DEF AnswersCommit
      <4>2. Covered(Question(c).offs, Dealt)
        BY <4>1 DEF SafeOf, Safe
      <4>3. QED
        BY <3>2, <4>2, OverlayCovered
    <3>3. QED
      BY <1>20, <3>1, <3>2 DEF AnswersCommit, AnswersSync
  <2>3. ASSUME NEW kind \in {"commit", "sync"}, NEW verdict \in {"ok", "rebalance", "unknown"},
               NEW got \in [Partitions -> Values], Asked(c, kind), Answer(c, verdict, got)
        PROVE  \A d \in Members : SafeOf(d)'
    <3>1. PICK q \in Requests : /\ q.kind = kind /\ q.reply = verdict /\ q.got = got
                                /\ Replaces(c, q)
      BY <2>3, AnswerIs
    <3>2. Question(c) \in Range(chan[c]) /\ Question(c).kind = kind /\ q.offs = Question(c).offs
      BY <2>3, <3>1, QuestionIs DEF Replaces
    <3>3. Safe(q)
      BY <3>1, <3>2 DEF SafeOf, Safe
    <3>4. \A d \in Members : \A r \in Range(chan'[d]) : r \in Range(chan[d]) \/ r = q
      BY <3>1 DEF Replaces
    <3>5. Grows
      BY <2>1 DEF Grows
    <3>6. QED
      BY <3>3, <3>4, <3>5, SafeGrows DEF SafeOf
  <2>4. \E kind \in {"commit", "sync"}, verdict \in {"ok", "rebalance", "unknown"},
           got \in [Partitions -> Values] : Asked(c, kind) /\ Answer(c, verdict, got)
    BY <1>20, Answerings
  <2>5. \A d \in Members : HandOf(d)'
    BY <2>1 DEF HandOf, Dealt
  <2>6. \A d \in Members : SafeOf(d)'
    BY <2>3, <2>4
  <2>7. QED
    BY <2>1, <2>2, <2>5, <2>6 DEF OffsetsInv, Dealt
<1>21. ASSUME CompletesJoin PROVE OffsetsInv'
  <2>1. UNCHANGED <<pc, position, drained, committed, done, dropped>> /\ late' = {}
    BY <1>21 DEF CompletesJoin, placeVars, fetchVars, ghostVars
  <2>2. ASSUME NEW c \in Members, NEW r \in Range(chan'[c]) PROVE Safe(r)
    <3>1. chan'[c] \in Seq(Requests) /\ chan[c] \in Seq(Requests)
      BY <1>21, CompletesAnswers
    <3>2. PICK i \in 1..Len(chan'[c]) : r = chan'[c][i]
      BY <2>2, <3>1 DEF Range
    <3>3. CASE Asked(c, "join")
      <4>1. r.kind = "join"
        BY <1>21, <3>2, <3>3, CompletesAnswers
      <4>2. QED
        BY <4>1 DEF Safe
    <3>4. CASE ~Asked(c, "join")
      <4>1. i \in 1..Len(chan[c])
        BY <1>21, <3>2, <3>4, CompletesAnswers
      <4>2. r.kind = chan[c][i].kind /\ r.offs = chan[c][i].offs /\ r.got = chan[c][i].got
        BY <1>21, <3>2, <3>4, <4>1, CompletesAnswers
      <4>3. chan[c][i] \in Range(chan[c])
        BY <3>1, <4>1 DEF Range
      <4>4. Safe(chan[c][i])
        BY <4>3 DEF SafeOf
      <4>5. QED
        BY <4>2, <4>4 DEF Safe
    <3>5. QED
      BY <3>3, <3>4
  <2>3. \A c \in Members : HandOf(c)'
    BY <2>1 DEF HandOf, Dealt
  <2>4. Grows
    BY <2>1 DEF Grows
  <2>5. \A c \in Members : SafeOf(c)'
    BY <2>2, <2>4, SafeGrows DEF SafeOf
  <2>6. QED
    BY <2>1, <2>3, <2>5 DEF OffsetsInv, Dealt
<1>22. ASSUME NEW r \in late, LateCommit(r) PROVE OffsetsInv'
  <2>1. UNCHANGED <<pc, position, drained, chan, done, dropped>> /\ late' \subseteq late
    BY <1>22 DEF LateCommit, placeVars, fetchVars, ghostVars
  <2>2. Covered(committed', Dealt)
    BY <1>22, OverlayCovered DEF LateCommit
  <2>3. \A c \in Members : HandOf(c)' /\ SafeOf(c)'
    BY <2>1 DEF HandOf, SafeOf, Safe, Dealt
  <2>4. QED
    BY <2>1, <2>2, <2>3 DEF OffsetsInv, Dealt
<1>23. CASE UNCHANGED vars
  <2>1. UNCHANGED <<pc, position, drained, chan, committed, late, done, dropped>>
    BY <1>23 DEF vars, placeVars, fetchVars, brokerVars, ghostVars
  <2>2. QED
    BY <2>1 DEF OffsetsInv, HandOf, SafeOf, Safe, Dealt
<1>24. QED
  BY <1>6, <1>7, <1>8, <1>9, <1>10, <1>11, <1>12, <1>13, <1>14, <1>15, <1>16, <1>17, <1>18, <1>19,
     <1>20, <1>21, <1>22, <1>23
  DEF Next, Thread, Answered, Answers

-----------------------------------------------------------------------------
(* What a step hands out. *)

InOrder(c) ==
  LET passed == {r \in AllRecords : position[c][r[1]] # None
                   /\ r[2] \in position[c][r[1]]..(position'[c][r[1]] - 1)}
  IN \/ drained'[c] \ drained[c] = passed
     \/ drained'[c] = {} /\ passed \subseteq dropped'

\* Where no position is moved on, nothing is handed out.
LEMMA StandsStill ==
  ASSUME TypeOK, NEW c \in Members, position'[c] \in Offsets, drained'[c] \subseteq drained[c],
         \A p \in Partitions : position[c][p] = None \/ position'[c][p] <= position[c][p]
  PROVE  InOrder(c)
<1>1. \A r \in AllRecords : /\ r[1] \in Partitions /\ r[2] \in Nat
                            /\ position[c][r[1]] \in Int /\ position'[c][r[1]] \in Int
  BY RecordsHave DEF TypeOK, Offsets, None
<1>2. ASSUME NEW r \in AllRecords, position[c][r[1]] # None,
             r[2] \in position[c][r[1]]..(position'[c][r[1]] - 1)
      PROVE  FALSE
  BY <1>1, <1>2
<1>3. QED
  BY <1>2 DEF InOrder

LEMMA MovesOn ==
  ASSUME TypeOK, NEW c \in Members, HandOf(c), Moves(c)
  PROVE  InOrder(c)
<1> DEFINE passed == Passed(position[c], position'[c])
<1>1. ASSUME NEW r \in drained[c], r \in passed PROVE FALSE
  <2>1. r \in AllRecords /\ r[2] \in Nat /\ position[c][r[1]] \in Int /\ position'[c][r[1]] \in Int
    BY RecordsHave DEF TypeOK, Moves, Offsets, None
  <2>2. r[2] < position[c][r[1]]
    BY DEF HandOf
  <2>3. r[2] \in position[c][r[1]]..(position'[c][r[1]] - 1)
    BY <1>1 DEF Passed
  <2>4. QED
    BY <2>1, <2>2, <2>3
<1>2. \/ drained'[c] = passed
      \/ drained'[c] = {} /\ passed \subseteq dropped'
  BY DEF Moves
<1>3. passed = {r \in AllRecords : position[c][r[1]] # None
                   /\ r[2] \in position[c][r[1]]..(position'[c][r[1]] - 1)}
  BY DEF Passed
<1> HIDE DEF passed
<1>4. drained'[c] = passed => drained'[c] \ drained[c] = passed
  BY <1>1
<1>5. QED
  BY <1>2, <1>3, <1>4 DEF InOrder

LEMMA OrderStep ==
  ASSUME TypeInv, PlaceInv, OffsetsInv, Next, NEW c \in Members
  PROVE  InOrder(c)
<1>1. /\ TypeOK
      /\ position \in [Members -> Offsets] /\ drained \in [Members -> SUBSET AllRecords]
      /\ chan \in [Members -> Seq(Requests)]
      /\ \A d \in Members : HandOf(d) /\ PlaceOf(d)
      /\ NoOffsets \in Offsets
      /\ \A d \in Members : \A p \in Partitions : position[d][p] \in None..LogEnd
  BY ValuesHold DEF TypeInv, TypeOK, OffsetsInv, PlaceInv, Offsets
<1> USE <1>1
<1>2. ASSUME UNCHANGED position, drained'[c] \subseteq drained[c] PROVE InOrder(c)
  <2>1. \A p \in Partitions : position'[c][p] <= position[c][p]
    BY <1>2, ConsumerAssumption DEF None
  <2>2. QED
    BY <1>2, <2>1, StandsStill
<1>3. ASSUME NEW d \in Members, Moves(d) PROVE InOrder(c)
  <2>1. CASE d = c
    BY <1>3, <2>1, MovesOn
  <2>2. CASE d # c
    <3>1. position'[c] = position[c] /\ drained'[c] = drained[c]
      BY <1>3, <2>2 DEF Moves
    <3>2. \A p \in Partitions : position'[c][p] <= position[c][p]
      BY <3>1, ConsumerAssumption DEF None
    <3>3. QED
      BY <3>1, <3>2, StandsStill
  <2>3. QED
    BY <2>1, <2>2
\* A step that sets positions back, or sets those that were missing.
<1>4. ASSUME NEW d \in Members, NEW pos \in Offsets, position' = [position EXCEPT ![d] = pos],
             drained'[c] \subseteq drained[c],
             \A p \in Partitions : position[d][p] = None \/ pos[p] <= position[d][p]
      PROVE  InOrder(c)
  <2>1. position'[c] = (IF d = c THEN pos ELSE position[c])
    BY <1>4
  <2>2. \A p \in Partitions : position[c][p] = None \/ position'[c][p] <= position[c][p]
    BY <1>4, <2>1, ConsumerAssumption DEF None
  <2>3. position'[c] \in Offsets
    BY <1>4, <2>1
  <2>4. QED
    BY <1>4, <2>2, <2>3, StandsStill
<1>5. ASSUME NEW d \in Members, position' = [position EXCEPT ![d] = NoOffsets],
             drained'[c] \subseteq drained[c]
      PROVE  InOrder(c)
  <2>1. \A p \in Partitions : NoOffsets[p] <= position[d][p]
    BY ConsumerAssumption DEF NoOffsets, None
  <2>2. QED
    BY <1>4, <1>5, <2>1
<1>6. ASSUME NEW d \in Members, Prepare(d) PROVE InOrder(c)
  BY <1>2, <1>6 DEF Prepare, placeVars
<1>7. ASSUME NEW d \in Members, NEW due \in BOOLEAN, AutoCommit(d, due) PROVE InOrder(c)
  <2>1. CASE Drains(d)
    BY <1>3, <2>1, DrainsMoves
  <2>2. CASE drained' = [drained EXCEPT ![d] = {}] /\ UNCHANGED position
    BY <1>2, <2>2
  <2>3. QED
    BY <1>7, <2>1, <2>2 DEF AutoCommit
<1>8. ASSUME NEW d \in Members, Drain(d) \/ WaitEnds(d) PROVE InOrder(c)
  <2>1. Moves(d) \/ UNCHANGED <<position, drained>>
    BY <1>8, DrainsMoves, TakesMoves DEF Drain, WaitEnds
  <2>2. QED
    BY <1>2, <1>3, <2>1
<1>9. ASSUME NEW d \in Members, HandleCommitted(d) PROVE InOrder(c)
  <2> DEFINE offs == Head(chan[d]).got
             pos == [p \in Partitions |->
                       IF p \in Missing(d) THEN Max({offs[p], 0}) ELSE position[d][p]]
  <2>1. position' = [position EXCEPT ![d] = pos] /\ UNCHANGED drained
    BY <1>9 DEF HandleCommitted, fetchVars
  <2>2. position' \in [Members -> Offsets]
    <3>1. TypeOK'
      BY TypeStep DEF TypeInv
    <3>2. QED
      BY <3>1 DEF TypeOK
  <2>3. \A p \in Partitions : position[d][p] = None \/ pos[p] = position[d][p]
    BY DEF Missing
  <2> HIDE DEF pos
  <2>4. pos \in Offsets
    BY <2>1, <2>2
  <2>5. \A p \in Partitions : position[d][p] = None \/ pos[p] <= position[d][p]
    BY <2>3, ConsumerAssumption DEF None
  <2>6. QED
    BY <1>4, <2>1, <2>4, <2>5
<1>10. ASSUME NEW d \in Members, HandleSync(d) PROVE InOrder(c)
  <2>1. /\ UNCHANGED drained
        /\ UNCHANGED position \/ position' = [position EXCEPT ![d] = NoOffsets]
    BY <1>10 DEF HandleSync, Assigns, placeVars, fetchVars
  <2>2. QED
    BY <1>2, <1>5, <2>1
<1>11. ASSUME NEW d \in Members, Crash(d) PROVE InOrder(c)
  <2>1. drained' = [drained EXCEPT ![d] = {}] /\ position' = [position EXCEPT ![d] = NoOffsets]
    BY <1>11 DEF Crash
  <2>2. QED
    BY <1>5, <2>1
<1>12. ASSUME UNCHANGED <<position, drained>> PROVE InOrder(c)
  BY <1>2, <1>12
<1>13. ASSUME NEW d \in Members,
              \/ Finds(d) \/ PrepareAgain(d) \/ Joins(d) \/ AsksCommitted(d) \/ SendsFetch(d)
              \/ Heartbeat(d) \/ Leaves(d)
       PROVE  UNCHANGED <<position, drained>>
  BY <1>13, Zenon DEF Finds, PrepareAgain, Joins, AsksCommitted, SendsFetch, Heartbeat, Leaves,
     placeVars, fetchVars
<1>14. ASSUME NEW d \in Members,
              \/ HandleCommit(d) \/ HandleFetch(d) \/ HandleJoin(d) \/ AnswersCommit(d)
              \/ AnswersSync(d) \/ ConnectionLost(d) \/ Expires(d)
       PROVE  UNCHANGED <<position, drained>>
  BY <1>14, Zenon DEF HandleCommit, HandleFetch, HandleJoin, AnswersCommit, AnswersSync,
     ConnectionLost, Expires, placeVars, fetchVars
<1>15. CompletesJoin \/ (\E r \in late : LateCommit(r)) => UNCHANGED <<position, drained>>
  BY Zenon DEF CompletesJoin, LateCommit, placeVars, fetchVars
<1>16. QED
  BY <1>6, <1>7, <1>8, <1>9, <1>10, <1>11, <1>12, <1>13, <1>14, <1>15
  DEF Next, Thread, Answered, Answers

-----------------------------------------------------------------------------
(* Generations and their plans. *)

\* A stable member of the present generation has what the plan gives it.
Shares(c) ==
  state[c] = "stable" /\ gen[c] = "now" =>
    assigned[c] = {p \in Partitions : plan[p] = c} /\ phase # "sync"

\* What a request of the present generation brings, or is told.
InStep(r) ==
  r.gen = "now" =>
    /\ r.kind = "sync" /\ r.reply = "ok" => r.got = plan /\ phase # "sync"
    /\ r.kind = "join" /\ r.reply = "ok" /\ phase = "sync" => r.who \in {{}, members}
    /\ r.kind = "sync" /\ phase = "sync" /\ r.offs # NoOffsets =>
         \A p \in Partitions : r.offs[p] \in members

AllShared == phase = "stable" /\ members # {} => \A p \in Partitions : plan[p] \in members

GroupInv ==
  /\ \A c \in Members : Shares(c) /\ \A r \in Range(chan[c]) : InStep(r)
  /\ AllShared

\* The plan stays, or is given up.
Keeps == plan' = plan /\ (UNCHANGED <<phase, members>> \/ phase' = "join")

LEMMA StepKeeps == ASSUME Keeps, NEW r, InStep(r) PROVE InStep(r)'
BY DEF Keeps, InStep

LEMMA GroupElse ==
  ASSUME GroupInv, Keeps, NEW c \in Members, Shares(c)',
         \A d \in Members : d # c => /\ state'[d] = state[d] /\ gen'[d] = gen[d]
                                     /\ assigned'[d] = assigned[d],
         \A d \in Members : \A r \in Range(chan'[d]) : r \in Range(chan[d]) \/ InStep(r)'
  PROVE  GroupInv'
<1>1. \A d \in Members : Shares(d)'
  BY DEF GroupInv, Shares, Keeps
<1>2. \A d \in Members : \A r \in Range(chan'[d]) : InStep(r)'
  BY StepKeeps DEF GroupInv
<1>3. AllShared'
  BY DEF GroupInv, AllShared, Keeps
<1>4. QED
  BY <1>1, <1>2, <1>3 DEF GroupInv

LEMMA GroupBegins == Init => GroupInv
<1>1. SUFFICES ASSUME Init PROVE GroupInv
  OBVIOUS
<1>2. \A c \in Members : state[c] = "unjoined" /\ chan[c] = <<>>
  BY <1>1 DEF Init
<1>3. Range(<<>>) = {} /\ members = {}
  BY <1>1 DEF Range, Init
<1>4. QED
  BY <1>2, <1>3 DEF GroupInv, Shares, AllShared

\* Questions that are no SyncGroups, or have no answer, are in step.
LEMMA OthersInStep ==
  \A r : r.kind \notin {"join", "sync"} \/ (r.kind = "join" /\ r.reply # "ok") => InStep(r)
BY DEF InStep

LEMMA GroupStep == TypeInv /\ PlaceInv /\ GroupInv /\ [Next]_vars => GroupInv'
<1>1. SUFFICES ASSUME TypeInv, PlaceInv, GroupInv, [Next]_vars PROVE GroupInv'
  OBVIOUS
<1>2. /\ TypeOK
      /\ state \in [Members -> {"unjoined", "rebalancing", "stable"}]
      /\ gen \in [Members -> Ages] /\ assigned \in [Members -> SUBSET Partitions]
      /\ chan \in [Members -> Seq(Requests)]
  BY <1>1 DEF TypeInv, TypeOK
<1>3. \A c \in Members : Shares(c) /\ PlaceOf(c) /\ \A r \in Range(chan[c]) : InStep(r)
  BY <1>1 DEF GroupInv, PlaceInv
<1> USE <1>1, <1>2, <1>3
<1>4. ASSUME NEW c \in Members, NEW kind, Reads(c, kind)
      PROVE  /\ \A d \in Members : Range(chan'[d]) \subseteq Range(chan[d])
             /\ Head(chan[c]) \in Range(chan[c]) /\ Head(chan[c]).kind = kind
             /\ kind \in {"join", "sync"} => pc[c] = "join"
             /\ kind = "sync" => Head(chan[c]).gen = gen[c]
  <2>1. chan[c] # <<>> /\ Head(chan[c]).kind = kind /\ chan' = [chan EXCEPT ![c] = Tail(@)]
    BY <1>4 DEF Reads, Arrived
  <2>2. /\ Head(chan[c]) \in Range(chan[c]) /\ Head(chan[c]) = chan[c][1]
        /\ Range(chan'[c]) \subseteq Range(chan[c])
        /\ \A d \in Members : d # c => chan'[d] = chan[d]
    BY <2>1, ReadsTakes
  <2>3. 1 \in 1..Len(chan[c])
    BY <2>1
  <2>4. QED
    BY <2>1, <2>2, <2>3 DEF PlaceOf
\* A step that sends what is no JoinGroup or SyncGroup, or sends nothing.
<1>5. ASSUME NEW c \in Members, NEW q,
             q.kind \notin {"join", "sync"} \/ (q.kind = "join" /\ q.reply # "ok"),
             Sends(c, q)
      PROVE  \A d \in Members : \A r \in Range(chan'[d]) : r \in Range(chan[d]) \/ InStep(r)'
  <2>1. chan'[c] = Append(chan[c], q) /\ chan[c] \in Seq(Requests)
        /\ \A d \in Members : d # c => chan'[d] = chan[d]
    BY <1>5 DEF Sends
  <2>2. \A i \in DOMAIN Append(chan[c], q) :
          \/ i \in DOMAIN chan[c] /\ Append(chan[c], q)[i] = chan[c][i]
          \/ Append(chan[c], q)[i] = q
    BY <2>1
  <2>3. InStep(q)'
    BY <1>5 DEF InStep
  <2>4. QED
    BY <2>1, <2>2, <2>3 DEF Range
<1>6. ASSUME NEW c \in Members, UNCHANGED <<state, gen, assigned, phase, members, plan>>,
             \A d \in Members : \A r \in Range(chan'[d]) : r \in Range(chan[d]) \/ InStep(r)'
      PROVE  GroupInv'
  <2>1. Keeps /\ Shares(c)'
    BY <1>6 DEF Keeps, Shares
  <2>2. QED
    BY <1>6, <2>1, GroupElse
\* A member that is not stable, or falls out of the group.
<1>7. ASSUME NEW c \in Members, Keeps, state'[c] # "stable" \/ gen'[c] = "none",
             \A d \in Members : d # c => /\ state'[d] = state[d] /\ gen'[d] = gen[d]
                                         /\ assigned'[d] = assigned[d],
             \A d \in Members : \A r \in Range(chan'[d]) : r \in Range(chan[d]) \/ InStep(r)'
      PROVE  GroupInv'
  <2>1. Shares(c)'
    BY <1>7 DEF Shares
  <2>2. QED
    BY <1>7, <2>1, GroupElse
<1>8. ASSUME NEW c \in Members, Finds(c) \/ Drain(c) \/ WaitEnds(c) PROVE GroupInv'
  <2>1. UNCHANGED <<state, gen, assigned, phase, members, plan, chan>>
    BY <1>8 DEF Finds, Drain, WaitEnds, groupVars, placeVars, brokerVars
  <2>2. QED
    BY <1>6, <2>1
<1>9. ASSUME NEW c \in Members, NEW due \in BOOLEAN, Prepare(c) \/ PrepareAgain(c) \/ AutoCommit(c, due)
      PROVE  GroupInv'
  <2>1. UNCHANGED <<state, gen, assigned, phase, members, plan>>
    BY <1>9 DEF Prepare, PrepareAgain, AutoCommit, groupVars, placeVars, brokerVars
  <2>2. UNCHANGED chan \/ Sends(c, Request("commit", gen[c], Consumed(c)))
    BY <1>9 DEF Prepare, PrepareAgain, AutoCommit
  <2>3. Request("commit", gen[c], Consumed(c)).kind = "commit"
    BY DEF Request
  <2>4. QED
    BY <1>5, <1>6, <2>1, <2>2, <2>3
<1>10. ASSUME NEW c \in Members, AsksCommitted(c) \/ SendsFetch(c) PROVE GroupInv'
  <2>1. UNCHANGED <<state, gen, assigned, phase, members, plan>>
    BY <1>10 DEF AsksCommitted, SendsFetch, groupVars, placeVars, brokerVars
  <2>2. UNCHANGED chan \/ \E q : q.kind \in {"committed", "fetch"} /\ Sends(c, q)
    <3>1. CASE AsksCommitted(c)
      <4>1. AtOnce("committed", NoOffsets, committed).kind = "committed"
        BY DEF AtOnce, Request
      <4>2. Sends(c, AtOnce("committed", NoOffsets, committed))
        BY <3>1 DEF AsksCommitted
      <4>3. QED
        BY <4>1, <4>2
    <3>2. CASE SendsFetch(c)
      <4>1. \A offs, got : AtOnce("fetch", offs, got).kind = "fetch"
        BY DEF AtOnce, Request
      <4>2. UNCHANGED chan \/ \E offs, got : Sends(c, AtOnce("fetch", offs, got))
        BY <3>2 DEF SendsFetch
      <4>3. QED
        BY <4>1, <4>2
    <3>3. QED
      BY <1>10, <3>1, <3>2
  <2>3. QED
    BY <1>5, <1>6, <2>1, <2>2
<1>11. ASSUME NEW c \in Members, Joins(c) PROVE GroupInv'
  <2>1. /\ state' = [state EXCEPT ![c] = "rebalancing"] /\ UNCHANGED <<gen, assigned, plan, members>>
        /\ phase' = phase \/ phase' = "join"
    BY <1>11 DEF Joins, placeVars
  <2>2. PICK q : q.kind = "join" /\ q.reply # "ok" /\ Sends(c, q)
    <3> DEFINE q == [Request("join", gen[c], NoOffsets) EXCEPT
                       !.reply = IF gen[c] # "none" /\ c \notin members THEN "unknown" ELSE @]
    <3>1. Sends(c, q)
      BY <1>11 DEF Joins
    <3>2. q.kind = "join" /\ q.reply # "ok"
      BY DEF Request
    <3> HIDE DEF q
    <3>3. QED
      BY <3>1, <3>2
  <2>3. Keeps /\ state'[c] # "stable"
    BY <2>1 DEF Keeps
  <2>4. QED
    BY <1>5, <1>7, <2>1, <2>2, <2>3
<1>12. ASSUME NEW c \in Members, Heartbeat(c) PROVE GroupInv'
  <2>1. UNCHANGED <<assigned, phase, members, plan, chan>>
    BY <1>12 DEF Heartbeat, placeVars, brokerVars
  <2>2. CASE UNCHANGED <<state, gen>>
    BY <1>6, <2>1, <2>2
  <2>3. CASE ResetGeneration(c)
    BY <1>7, <2>1, <2>3 DEF ResetGeneration, Keeps
  <2>4. QED
    BY <1>12, <2>2, <2>3 DEF Heartbeat
<1>13. ASSUME NEW c \in Members, Leaves(c) PROVE GroupInv'
  <2>1. /\ UNCHANGED <<assigned, plan, chan>> /\ ResetGeneration(c)
        /\ UNCHANGED <<phase, members>> \/ phase' = "join"
    BY <1>13 DEF Leaves, placeVars
  <2>2. QED
    BY <1>7, <2>1 DEF ResetGeneration, Keeps
<1>14. ASSUME NEW c \in Members, HandleCommit(c) PROVE GroupInv'
  <2>1. UNCHANGED <<assigned, phase, members, plan>> /\ Reads(c, "commit")
        /\ (UNCHANGED <<state, gen>> \/ ResetGeneration(c))
    BY <1>14 DEF HandleCommit, placeVars, brokerVars
  <2>2. \A d \in Members : Range(chan'[d]) \subseteq Range(chan[d])
    BY <1>4, <2>1
  <2>3. CASE UNCHANGED <<state, gen>>
    BY <1>6, <2>1, <2>2, <2>3
  <2>4. CASE ResetGeneration(c)
    BY <1>7, <2>1, <2>2, <2>4 DEF ResetGeneration, Keeps
  <2>5. QED
    BY <2>1, <2>3, <2>4
<1>15. ASSUME NEW c \in Members, HandleCommitted(c) \/ HandleFetch(c) PROVE GroupInv'
  <2>1. UNCHANGED <<state, gen, assigned, phase, members, plan>>
    BY <1>15 DEF HandleCommitted, HandleFetch, groupVars, placeVars, brokerVars
  <2>2. \A d \in Members : Range(chan'[d]) \subseteq Range(chan[d])
    BY <1>4, <1>15 DEF HandleCommitted, HandleFetch
  <2>3. QED
    BY <1>6, <2>1, <2>2
<1>16. ASSUME NEW c \in Members, HandleJoin(c) PROVE GroupInv'
  <2>1. /\ UNCHANGED <<assigned, phase, members, plan>>
        /\ chan[c] # <<>> /\ Head(chan[c]).kind = "join"
    BY <1>16 DEF HandleJoin, Arrived, placeVars, brokerVars
  <2>2. chan[c] \in Seq(Requests) /\ 1 \in 1..Len(chan[c]) /\ chan[c][1] = Head(chan[c])
    BY <2>1
  <2>3. Head(chan[c]) \in Range(chan[c]) /\ Head(chan[c]) \in Requests
    BY <2>2 DEF Range
  <2>4. pc[c] = "join" /\ state[c] = "rebalancing"
    BY <2>1, <2>2 DEF PlaceOf
  <2>5. CASE Head(chan[c]).reply = "ok"
    <3>1. PICK h : h = Head(chan[c])
      OBVIOUS
    <3>2. PICK q : /\ q = Request("sync", h.gen, IF h.who = {} THEN NoOffsets ELSE RangeAssign(h.who))
                   /\ gen' = [gen EXCEPT ![c] = h.gen] /\ UNCHANGED state
                   /\ chan' = [chan EXCEPT ![c] = <<q>>]
      BY <1>16, <2>5, <3>1 DEF HandleJoin
    <3>3. q.kind = "sync" /\ q.reply = "sent" /\ q.gen = h.gen
            /\ q.offs = IF h.who = {} THEN NoOffsets ELSE RangeAssign(h.who)
      BY <3>2 DEF Request
    <3>4. InStep(q)
      <4>1. SUFFICES ASSUME q.gen = "now", phase = "sync", q.offs # NoOffsets
                     PROVE  \A p \in Partitions : q.offs[p] \in members
        BY <3>3 DEF InStep
      <4>2. h.who \in {{}, members} /\ h.who # {}
        BY <2>1, <2>3, <2>5, <3>1, <3>3, <4>1 DEF InStep
      <4>3. h.who \in SUBSET Members /\ q.offs = RangeAssign(h.who)
        BY <2>3, <3>1, <3>3, <4>2 DEF Requests
      <4>4. RangeAssign(h.who) \in [Partitions -> h.who]
        BY <4>2, <4>3, RangeAssigns
      <4>5. QED
        BY <4>2, <4>3, <4>4
    <3>5. Range(<<q>>) = {q} /\ Keeps
      BY <2>1 DEF Range, Keeps
    <3>6. InStep(q)'
      BY <3>4, <3>5, StepKeeps
    <3>7. \A d \in Members : \A r \in Range(chan'[d]) : r \in Range(chan[d]) \/ InStep(r)'
      BY <3>2, <3>5, <3>6
    <3>8. state'[c] # "stable" /\ \A d \in Members : d # c => gen'[d] = gen[d]
      BY <2>4, <3>2
    <3>9. QED
      BY <1>7, <2>1, <3>2, <3>5, <3>7, <3>8
  <2>6. CASE Head(chan[c]).reply # "ok"
    <3>1. ResetGeneration(c) /\ chan' = [chan EXCEPT ![c] = Tail(@)]
      BY <1>16, <2>6 DEF HandleJoin
    <3>2. \A d \in Members : Range(chan'[d]) \subseteq Range(chan[d])
      BY <2>1, <3>1, ReadsTakes
    <3>3. QED
      BY <1>7, <2>1, <3>1, <3>2 DEF ResetGeneration, Keeps
  <2>7. QED
    BY <2>5, <2>6
<1>17. ASSUME NEW c \in Members, HandleSync(c) PROVE GroupInv'
  <2>1. UNCHANGED <<phase, members, plan>> /\ Reads(c, "sync")
    BY <1>17 DEF HandleSync, brokerVars
  <2>2. /\ \A d \in Members : Range(chan'[d]) \subseteq Range(chan[d])
        /\ Head(chan[c]) \in Range(chan[c]) /\ Head(chan[c]).kind = "sync"
        /\ Head(chan[c]).gen = gen[c]
    BY <1>4, <2>1
  <2>3. CASE /\ Reply(c) = "ok"
             /\ state' = [state EXCEPT ![c] = "stable"]
             /\ Assigns(c)
             /\ UNCHANGED gen
    <3>1. assigned' = [assigned EXCEPT ![c] = {p \in Partitions : Head(chan[c]).got[p] = c}]
      BY <2>3 DEF Assigns
    <3>2. gen[c] = "now" => Head(chan[c]).got = plan /\ phase # "sync"
      BY <2>2, <2>3 DEF InStep, Reply
    <3>3. Shares(c)'
      BY <2>1, <2>3, <3>1, <3>2 DEF Shares
    <3>4. Keeps
      BY <2>1 DEF Keeps
    <3>5. \A d \in Members : d # c => /\ state'[d] = state[d] /\ gen'[d] = gen[d]
                                      /\ assigned'[d] = assigned[d]
      BY <2>3, <3>1
    <3>6. QED
      BY <2>2, <3>3, <3>4, <3>5, GroupElse
  <2>4. CASE state' = [state EXCEPT ![c] = "unjoined"] /\ UNCHANGED <<gen, placeVars>>
    BY <1>7, <2>1, <2>2, <2>4 DEF Keeps, placeVars
  <2>5. CASE ResetGeneration(c) /\ UNCHANGED placeVars
    BY <1>7, <2>1, <2>2, <2>5 DEF Keeps, placeVars, ResetGeneration
  <2>6. QED
    BY <1>17, <2>3, <2>4, <2>5 DEF HandleSync
<1>18. ASSUME NEW c \in Members, ConnectionLost(c) \/ Crash(c) PROVE GroupInv'
  <2>1. chan' = [chan EXCEPT ![c] = <<>>] /\ UNCHANGED <<phase, members, plan>>
    BY <1>18 DEF ConnectionLost, Crash
  <2>2. Range(<<>>) = {}
    BY DEF Range
  <2>3. \A d \in Members : Range(chan'[d]) \subseteq Range(chan[d])
    BY <2>1, <2>2
  <2>4. CASE ConnectionLost(c)
    <3>1. UNCHANGED <<gen, assigned>>
          /\ (UNCHANGED state \/ state' = [state EXCEPT ![c] = "unjoined"])
      BY <2>4 DEF ConnectionLost, placeVars
    <3>2. CASE UNCHANGED state
      BY <1>6, <2>1, <2>3, <3>1, <3>2
    <3>3. CASE state' = [state EXCEPT ![c] = "unjoined"]
      BY <1>7, <2>1, <2>3, <3>1, <3>3 DEF Keeps
    <3>4. QED
      BY <3>1, <3>2, <3>3
  <2>5. CASE Crash(c)
    <3>1. ResetGeneration(c) /\ assigned' = [assigned EXCEPT ![c] = {}]
      BY <2>5 DEF Crash
    <3>2. QED
      BY <1>7, <2>1, <2>3, <3>1 DEF ResetGeneration, Keeps
  <2>6. QED
    BY <1>18, <2>4, <2>5
<1>19. ASSUME NEW c \in Members, Expires(c) PROVE GroupInv'
  <2>1. UNCHANGED <<state, gen, assigned, plan, chan>> /\ phase' = "join"
    BY <1>19 DEF Expires, groupVars, placeVars
  <2>2. Keeps /\ Shares(c)'
    BY <2>1 DEF Keeps, Shares
  <2>3. QED
    BY <2>1, <2>2, GroupElse
<1>20. ASSUME NEW c \in Members, NEW kind \in {"commit", "sync"}, NEW q \in Requests,
              Asked(c, kind), q.kind = kind, Replaces(c, q), InStep(q)'
       PROVE  \A d \in Members : \A r \in Range(chan'[d]) : r \in Range(chan[d]) \/ InStep(r)'
  BY <1>20 DEF Replaces
<1>21. ASSUME NEW c \in Members, AnswersCommit(c) PROVE GroupInv'
  <2>1. UNCHANGED <<state, gen, assigned, phase, members, plan>>
    BY <1>21 DEF AnswersCommit, groupVars, placeVars
  <2>2. /\ Verdict(c, Question(c).gen, {"stable", "join"}) \in {"ok", "rebalance", "unknown"}
        /\ NoOffsets \in [Partitions -> Values]
    BY ValuesHold DEF Verdict, Offsets
  <2>3. PICK q \in Requests : q.kind = "commit" /\ Replaces(c, q)
    BY <1>21, <2>2, AnswerIs DEF AnswersCommit
  <2>4. InStep(q)'
    BY <2>3 DEF InStep
  <2>5. QED
    BY <1>6, <2>1, <2>3, <2>4 DEF Replaces
<1>22. ASSUME NEW c \in Members, AnswersSync(c) PROVE GroupInv'
  <2>1. UNCHANGED <<state, gen, assigned, members>> /\ Asked(c, "sync")
    BY <1>22 DEF AnswersSync, groupVars, placeVars
  <2>2. /\ Question(c) \in Range(chan[c]) /\ Question(c).kind = "sync" /\ InStep(Question(c))
        /\ Carries(Question(c))
    BY <2>1, QuestionIs DEF TypeInv
  <2>3. CASE /\ Current(c, Question(c).gen) /\ phase = "sync"
             /\ Question(c).offs # NoOffsets
             /\ plan' = Question(c).offs /\ phase' = "stable"
             /\ Answer(c, "ok", plan')
    <3>1. plan' \in [Partitions -> Values] /\ \A p \in Partitions : plan'[p] \in members
      BY <2>2, <2>3, ValuesHold DEF Carries, InStep, Current
    <3>2. PICK q \in Requests : /\ q.kind = "sync" /\ q.reply = "ok" /\ q.got = plan'
                                /\ Replaces(c, q)
      <4>1. PICK g \in [Partitions -> Values] : g = plan'
        BY <3>1
      <4>2. Answer(c, "ok", g)
        BY <2>3, <4>1
      <4>3. QED
        BY <2>1, <4>1, <4>2, AnswerIs
    <3>3. ASSUME NEW d \in Members PROVE Shares(d)' /\ \A r \in Range(chan'[d]) : InStep(r)'
      <4>1. Shares(d)'
        BY <2>1, <2>3 DEF Shares
      <4>2. InStep(q)'
        BY <2>3, <3>2 DEF InStep
      <4>3. ASSUME NEW r \in Range(chan[d]) PROVE InStep(r)'
        BY <2>3 DEF InStep
      <4>4. QED
        BY <3>2, <4>1, <4>2, <4>3 DEF Replaces
    <3>4. AllShared'
      BY <2>1, <3>1 DEF AllShared
    <3>5. QED
      BY <3>3, <3>4 DEF GroupInv
  <2>4. CASE /\ ~(Current(c, Question(c).gen) /\ phase = "sync")
             /\ Answer(c, Verdict(c, Question(c).gen, {"stable"}), plan)
             /\ UNCHANGED <<plan, phase>>
    <3> DEFINE v == Verdict(c, Question(c).gen, {"stable"})
    <3>1. v \in {"ok", "rebalance", "unknown"} /\ plan \in [Partitions -> Values]
      BY ValuesHold DEF Verdict, TypeOK
    <3>2. PICK q \in Requests : q.kind = "sync" /\ q.reply = v /\ q.got = plan /\ Replaces(c, q)
      <4>1. PICK w \in {"ok", "rebalance", "unknown"}, g \in [Partitions -> Values] : w = v /\ g = plan
        BY <3>1
      <4>2. Answer(c, w, g)
        BY <2>4, <4>1
      <4> HIDE DEF v
      <4>3. QED
        BY <2>1, <4>1, <4>2, AnswerIs
    <3>3. v = "ok" => phase = "stable"
      BY DEF Verdict
    <3>4. InStep(q)
      BY <2>2, <3>2, <3>3 DEF InStep, Replaces
    <3>5. Keeps
      BY <2>1, <2>4 DEF Keeps
    <3>6. InStep(q)'
      BY <3>4, <3>5, StepKeeps
    <3>7. QED
      BY <1>6, <2>1, <2>4, <3>2, <3>6 DEF Replaces
  <2>5. QED
    BY <1>22, <2>3, <2>4 DEF AnswersSync
<1>23. ASSUME CompletesJoin PROVE GroupInv'
  <2>1. /\ phase' = "sync" /\ members' = joined /\ gen' = [c \in Members |-> Age(gen[c])]
    BY <1>23 DEF CompletesJoin
  <2>2. \A g : Age(g) # "now"
    BY DEF Age
  <2>3. ASSUME NEW c \in Members, NEW r \in Range(chan'[c]) PROVE InStep(r)'
    <3>1. chan'[c] \in Seq(Requests)
      BY <1>23, CompletesAnswers
    <3>2. PICK i \in 1..Len(chan'[c]) : r = chan'[c][i]
      BY <2>3, <3>1 DEF Range
    <3>3. CASE Asked(c, "join")
      <4>1. r.kind = "join" /\ r.who \in {{}, joined}
        BY <1>23, <3>2, <3>3, CompletesAnswers
      <4>2. QED
        BY <2>1, <4>1 DEF InStep
    <3>4. CASE ~Asked(c, "join")
      <4>1. i \in 1..Len(chan[c])
        BY <1>23, <3>2, <3>4, CompletesAnswers
      <4>2. r.gen = Age(chan[c][i].gen)
        BY <1>23, <3>2, <3>4, <4>1, CompletesAnswers
      <4>3. QED
        BY <2>2, <4>2 DEF InStep
    <3>5. QED
      BY <3>3, <3>4
  <2>4. \A c \in Members : Shares(c)'
    BY <2>1, <2>2 DEF Shares
  <2>5. QED
    BY <2>1, <2>3, <2>4 DEF GroupInv, AllShared
<1>24. ASSUME UNCHANGED <<state, gen, assigned, phase, members, plan, chan>> PROVE GroupInv'
  BY <1>24 DEF GroupInv, Shares, InStep, AllShared
<1>25. ASSUME NEW r \in late, LateCommit(r) PROVE GroupInv'
  BY <1>24, <1>25 DEF LateCommit, groupVars, placeVars
<1>26. CASE UNCHANGED vars
  BY <1>24, <1>26 DEF vars, groupVars, placeVars, brokerVars
<1>27. QED
  BY <1>8, <1>9, <1>10, <1>11, <1>12, <1>13, <1>14, <1>15, <1>16, <1>17, <1>18, <1>19,
     <1>21, <1>22, <1>23, <1>25, <1>26
  DEF Next, Thread, Answered, Answers

-----------------------------------------------------------------------------
(* The theorems. *)

Inv == TypeInv /\ PlaceInv /\ OffsetsInv /\ GroupInv

\* The four invariants hold together.
LEMMA Invariants == Spec => []Inv
<1>1. Init => Inv
  BY TypeBegins, PlaceBegins, OffsetsBegin, GroupBegins DEF Inv
<1>2. Inv /\ [Next]_vars => Inv'
  BY TypeStep, PlaceStep, OffsetsStep, GroupStep DEF Inv
<1>3. QED
  BY <1>1, <1>2, PTL DEF Spec

\* Members that are stable in one generation read different partitions, and all of
\* them when none is missing; and all is of its types.
THEOREM GroupShares == Spec => []GroupSound
<1>1. Inv => GroupSound
  <2>1. SUFFICES ASSUME Inv PROVE TypeOK /\ GenerationShares
    BY DEF GroupSound
  <2> DEFINE Stable == {c \in Members : state[c] = "stable" /\ gen[c] = "now"}
  <2>2. TypeOK /\ AllShared /\ \A c \in Stable : assigned[c] = {p \in Partitions : plan[p] = c}
    BY <2>1 DEF Inv, TypeInv, GroupInv, Shares
  <2>3. \A c, d \in Stable : c # d => assigned[c] \intersect assigned[d] = {}
    BY <2>2
  <2>4. ASSUME phase = "stable", members # {}, members = Stable
        PROVE  UNION {assigned[c] : c \in Stable} = Partitions
    <3>1. ASSUME NEW p \in Partitions PROVE \E c \in Stable : p \in assigned[c]
      BY <2>2, <2>4 DEF AllShared
    <3> HIDE DEF Stable
    <3>2. QED
      BY <2>2, <3>1
  <2>5. QED
    BY <2>2, <2>3, <2>4 DEF GenerationShares
<1>2. QED
  BY <1>1, Invariants, PTL

\* At least once: a committed offset covers only records that an application has
\* finished with, or that a poll which raised an error had already drained.
THEOREM CommittedDone == Spec => []CommittedIsDone
<1>1. Inv => CommittedIsDone
  BY DEF Inv, OffsetsInv, Covered, Dealt, CommittedIsDone
<1>2. QED
  BY <1>1, Invariants, PTL

\* The rounds the model gives a call of fetched_records are enough: it returns within
\* them, with max_poll_records, an empty queue or an error.
RoundsEnd == \A c \in Members : Returns(FetchedRecords(c))

THEOREM RoundsSuffice == Spec => []RoundsEnd
<1>1. Inv => RoundsEnd
  <2>1. SUFFICES ASSUME Inv, NEW c \in Members PROVE Returns(FetchedRecords(c))
    BY DEF RoundsEnd
  <2>2. completed[c] \in Seq(Segments) /\ current[c] \in Segments /\ position[c] \in Offsets
    BY <2>1 DEF Inv, TypeInv, TypeOK
  <2>3. QED
    BY <2>2, Fetches
<1>2. QED
  BY <1>1, Invariants, PTL

\* A consumer moves its position past the records it hands out, from that position
\* on, each once; and else only past records a poll that raises drops.
THEOREM OrderRead == Spec => ReadsInOrder
<1>1. Inv /\ [Next]_vars =>
        [\A c \in Members :
           LET passed == {r \in AllRecords : position[c][r[1]] # None
                            /\ r[2] \in position[c][r[1]]..(position'[c][r[1]] - 1)}
           IN \/ drained'[c] \ drained[c] = passed
              \/ drained'[c] = {} /\ passed \subseteq dropped']_vars
  BY OrderStep DEF Inv, InOrder
<1>2. QED
  BY <1>1, Invariants, PTL DEF Spec, ReadsInOrder
===============================================================================
