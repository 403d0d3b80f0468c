------------------------- MODULE BatchingBolt_proofs --------------------------
(***************************************************************************)
(* Proofs about BatchingBolt, for any tuples, keyspaces, mappings, ack     *)
(* strategies and any batchMaxSize: the types, that a tuple acked under    *)
(* ACK_ON_WRITE has been applied, that none is applied more often than it  *)
(* was sent, and what ACK_ON_RECEIVE may lose.                             *)
(***************************************************************************)
EXTENDS BatchingBolt, FiniteSetTheorems, SequenceTheorems, TLAPS

\* The inductive strengthening of AckedIsWritten.  While the thread writes, a
\* tuple of its batch is applied unless its keyspace is still to do; when it
\* acks, all of them are.
BatchInv ==
  /\ pc = "write" =>
       \A j \in DOMAIN batch :
         mapToKeyspace[batch[j].id] \notin todo => applied[batch[j].id] > 0
  /\ pc = "ack" => \A j \in DOMAIN batch : applied[batch[j].id] > 0

-----------------------------------------------------------------------------
(* The helpers. *)

\* A batch has a tuple, no more than wait, and at most batchMaxSize + 1 of them.
LEMMA DrainBound ==
  ASSUME TypeOK, queue # <<>>
  PROVE  /\ DrainSize \in 0..(Len(queue) - 1)
         /\ batchMaxSize > 0 => DrainSize <= batchMaxSize
<1> DEFINE n == Len(queue) - 1
<1>1. n \in Nat
  BY EmptySeq DEF TypeOK
<1>2. batchMaxSize \in Int
  BY LimitsAssumption
<1>3. Min({batchMaxSize, n}) \in {batchMaxSize, n} /\ Min({batchMaxSize, n}) <= batchMaxSize
      /\ Min({batchMaxSize, n}) <= n
  <2> DEFINE P(x) == x \in {batchMaxSize, n} /\ \A y \in {batchMaxSize, n} : x <= y
  <2>1. \E x : P(x)
    <3>1. CASE batchMaxSize <= n
      <4>1. P(batchMaxSize)
        BY <1>1, <1>2, <3>1
      <4>2. QED
        BY <4>1
    <3>2. CASE n <= batchMaxSize
      <4>1. P(n)
        BY <1>1, <1>2, <3>2
      <4>2. QED
        BY <4>1
    <3>3. QED
      BY <1>1, <1>2, <3>1, <3>2
  <2>2. P(CHOOSE x \in {batchMaxSize, n} : \A y \in {batchMaxSize, n} : x <= y)
    BY <2>1
  <2>3. QED
    BY <2>2 DEF Min
<1>4. QED
  BY <1>1, <1>2, <1>3 DEF DrainSize

\* A batch holds copies.
LEMMA BatchOfCopies ==
  ASSUME TypeOK, NEW j \in DOMAIN batch
  PROVE  batch[j] \in Copies /\ batch[j].id \in Tuples /\ batch[j].n \in Nat \ {0}
<1>1. batch \in Seq(Copies)
  BY DEF TypeOK
<1>2. batch[j] \in Copies
  BY <1>1, LenProperties, ElementOfSeq
<1>3. QED
  BY <1>2 DEF Copies

\* The tuples of a batch are counted in numbers, and one that is there counts.
LEMMA CountBatch ==
  ASSUME TypeOK, NEW t \in Tuples
  PROVE  LET J == {j \in DOMAIN batch : batch[j].id = t}
         IN  Cardinality(J) \in Nat /\ (J # {} => Cardinality(J) > 0)
<1> DEFINE J == {j \in DOMAIN batch : batch[j].id = t}
<1>1. IsFiniteSet(1..Len(batch))
  BY FS_Interval DEF TypeOK
<1>2. DOMAIN batch = 1..Len(batch)
  BY DEF TypeOK
<1>3. J \subseteq 1..Len(batch)
  BY <1>2
<1>4. IsFiniteSet(J)
  BY <1>1, <1>3, FS_Subset
<1>5. QED
  BY <1>4, FS_CardinalityType, FS_EmptySet

\* A mutation takes nothing back, and applies the batch's tuples of its keyspace.
LEMMA ApplyGrows ==
  ASSUME TypeOK, NEW k \in Keyspaces, Apply(k)
  PROVE  /\ applied' \in [Tuples -> Nat]
         /\ \A t \in Tuples : applied'[t] >= applied[t]
         /\ \A j \in DOMAIN batch :
              mapToKeyspace[batch[j].id] = k => applied'[batch[j].id] > 0
<1>1. \A t \in Tuples :
        LET J == {j \in DOMAIN batch : batch[j].id = t}
        IN  Cardinality(J) \in Nat /\ (J # {} => Cardinality(J) > 0)
  BY CountBatch
<1>2. applied \in [Tuples -> Nat]
  BY DEF TypeOK
<1>3. applied' \in [Tuples -> Nat] /\ \A t \in Tuples : applied'[t] >= applied[t]
  BY <1>1, <1>2 DEF Apply
<1>4. ASSUME NEW j \in DOMAIN batch, mapToKeyspace[batch[j].id] = k
      PROVE  applied'[batch[j].id] > 0
  <2> DEFINE t == batch[j].id
  <2>1. t \in Tuples
    BY BatchOfCopies
  <2>2. {i \in DOMAIN batch : batch[i].id = t} # {}
    OBVIOUS
  <2>3. applied'[t] = applied[t] + Cardinality({i \in DOMAIN batch : batch[i].id = t})
    BY <1>4, <2>1 DEF Apply
  <2>4. Cardinality({i \in DOMAIN batch : batch[i].id = t}) > 0
    BY <1>1, <2>1, <2>2
  <2>5. applied[t] \in Nat /\ Cardinality({i \in DOMAIN batch : batch[i].id = t}) \in Nat
    BY <1>1, <1>2, <2>1
  <2>6. QED
    BY <2>3, <2>4, <2>5
<1>5. QED
  BY <1>3, <1>4

-----------------------------------------------------------------------------
(* Types. *)

\* TakeBatch takes the front of the queue and leaves the rest.
LEMMA TakeTypes ==
  ASSUME TypeOK, TakeBatch
  PROVE  /\ queue' \in Seq(Copies)
         /\ batch' \in Seq(Copies)
         /\ Len(batch') = DrainSize + 1
         /\ batchMaxSize > 0 => Len(batch') <= batchMaxSize + 1
<1>1. queue \in Seq(Copies) /\ queue # <<>>
  BY DEF TypeOK, TakeBatch
<1>2. Len(queue) \in Nat /\ \A i \in 1..Len(queue) : queue[i] \in Copies
  BY <1>1, ElementOfSeq, LenProperties
<1>3. DrainSize \in 0..(Len(queue) - 1) /\ (batchMaxSize > 0 => DrainSize <= batchMaxSize)
  BY <1>1, DrainBound
<1>4. DrainSize + 1 \in Int /\ DrainSize + 2 \in Int
  BY <1>2, <1>3
<1>5. /\ \A i \in 1..(DrainSize + 1) : queue[i] \in Copies
      /\ \A i \in (DrainSize + 2)..Len(queue) : queue[i] \in Copies
  BY <1>2, <1>3
<1>6. /\ SubSeq(queue, 1, DrainSize + 1) \in Seq(Copies)
      /\ Len(SubSeq(queue, 1, DrainSize + 1)) = DrainSize + 1
  BY <1>3, <1>4, <1>5, SubSeqProperties
<1>7. SubSeq(queue, DrainSize + 2, Len(queue)) \in Seq(Copies)
  BY <1>2, <1>4, <1>5, SubSeqProperties
<1>8. batch' = SubSeq(queue, 1, DrainSize + 1) /\ queue' = SubSeq(queue, DrainSize + 2, Len(queue))
  BY DEF TakeBatch
<1>9. QED
  BY <1>2, <1>3, <1>6, <1>7, <1>8, LimitsAssumption

\* An answer is a value of the acker.
LEMMA AnswerTypes ==
  ASSUME TypeOK, Answer("acked") \/ Answer("failed")
  PROVE  acker' \in [Tuples -> {"waiting", "pending", "acked", "failed"}]
<1>1. acker \in [Tuples -> {"waiting", "pending", "acked", "failed"}]
  BY DEF TypeOK
<1>2. CASE Answer("acked")
  BY <1>1, <1>2 DEF Answer
<1>3. CASE Answer("failed")
  BY <1>1, <1>3 DEF Answer
<1>4. QED
  BY <1>2, <1>3

\* A step of the bolt, the spout or a fault keeps every variable in its type.
LEMMA TypeStep == TypeOK /\ [Next]_vars => TypeOK'
<1> SUFFICES ASSUME TypeOK, [Next]_vars PROVE TypeOK'
  OBVIOUS
<1> USE LimitsAssumption
<1>e. <<>> \in Seq(Copies) /\ Len(<<>>) = 0
  BY EmptySeq
<1>1. CASE UNCHANGED vars
  BY <1>1 DEF TypeOK, vars, config, spout, bolt, thread, bounds
<1>2. CASE Prepare
  BY <1>2, <1>e, KeyspacesAssumption DEF TypeOK, Prepare, config, spout, bounds
<1>3. CASE PrepareFails
  BY <1>3 DEF TypeOK, PrepareFails, config, spout, bolt, thread
<1>4. CASE Crash
  BY <1>4, <1>e DEF TypeOK, Crash, config
<1>5. CASE Cleanup
  BY <1>5 DEF TypeOK, Cleanup, config, spout, thread, bounds
<1>6. CASE StopClient
  BY <1>6 DEF TypeOK, StopClient, config, spout, thread, bounds
<1>7. ASSUME NEW t \in Tuples, Execute(t) PROVE TypeOK'
  <2>1. sends[t] + 1 \in Nat \ {0} /\ [id |-> t, n |-> sends[t] + 1] \in Copies
    BY DEF TypeOK, Copies
  <2>2. queue' \in Seq(Copies)
    BY <1>7, <2>1, AppendProperties DEF TypeOK, Execute
  <2>3. sends' \in [Tuples -> Nat] /\ acker' \in [Tuples -> {"waiting", "pending", "acked", "failed"}]
    BY <1>7, <2>1 DEF TypeOK, Execute
  <2>4. UNCHANGED <<config, bolt, thread, applied, bounds>>
    BY <1>7 DEF Execute
  <2>5. QED
    BY <2>2, <2>3, <2>4 DEF TypeOK, config, bolt, thread, bounds
<1>8. ASSUME NEW t \in Tuples, Timeout(t) PROVE TypeOK'
  BY <1>8 DEF TypeOK, Timeout, config, bolt, thread, bounds
<1>9. CASE LoopEnds
  BY <1>9 DEF TypeOK, LoopEnds, config, spout, bolt, bounds
<1>10. CASE TakeBatch
  <2>1. /\ queue' \in Seq(Copies) /\ batch' \in Seq(Copies)
        /\ batchMaxSize > 0 => Len(batch') <= batchMaxSize + 1
    BY <1>10, TakeTypes
  <2>2. PrepareMutations(batch')
    BY <1>10 DEF TakeBatch
  <2>3. pc' \in {"write", "fail"} /\ todo' \subseteq Keyspaces
    BY <2>2, KeyspacesAssumption DEF PrepareMutations, TypeOK
  <2>4. UNCHANGED <<config, spout, bolt, applied, bounds>>
    BY <1>10 DEF TakeBatch
  <2>5. QED
    BY <2>1, <2>3, <2>4 DEF TypeOK, config, spout, bolt, bounds
<1>11. ASSUME NEW k \in Keyspaces, Write(k) PROVE TypeOK'
  <2>1. applied' \in [Tuples -> Nat]
    BY <1>11, ApplyGrows DEF Write
  <2>2. QED
    BY <1>11, <2>1 DEF TypeOK, Write, config, spout, bolt, bounds
<1>12. ASSUME NEW k \in Keyspaces, WriteFails(k) PROVE TypeOK'
  <2>1. applied' \in [Tuples -> Nat]
    <3>1. CASE Apply(k)
      BY <3>1, ApplyGrows
    <3>2. CASE UNCHANGED applied
      BY <3>2 DEF TypeOK
    <3>3. QED
      BY <1>12, <3>1, <3>2 DEF WriteFails
  <2>2. QED
    BY <1>12, <2>1 DEF TypeOK, WriteFails, config, spout, bolt
<1>13. ASSUME NEW k \in Keyspaces, WriteAfterStop(k) PROVE TypeOK'
  BY <1>13 DEF TypeOK, WriteAfterStop, config, spout, bolt, bounds
<1>14. CASE AckBatch \/ FailBatch
  <2>1. Answer("acked") \/ Answer("failed") \/ UNCHANGED acker
    BY <1>14 DEF AckBatch, FailBatch
  <2>2. acker' \in [Tuples -> {"waiting", "pending", "acked", "failed"}]
    BY <2>1, AnswerTypes DEF TypeOK
  <2>3. UNCHANGED <<config, sends, bolt, queue, applied, bounds>> /\ NextBatch
    BY <1>14 DEF AckBatch, FailBatch
  <2>4. QED
    BY <1>e, <2>2, <2>3 DEF TypeOK, NextBatch, config, bolt, bounds
<1>15. QED
  BY <1>1, <1>2, <1>3, <1>4, <1>5, <1>6, <1>7, <1>8, <1>9, <1>10, <1>11, <1>12,
     <1>13, <1>14 DEF Next, BatchThread

LEMMA InitTypes == Init => TypeOK
<1> SUFFICES ASSUME Init PROVE TypeOK
  OBVIOUS
<1>1. /\ queue = <<>> /\ batch = <<>> /\ todo = {} /\ pc = "ended"
      /\ faults = 0 /\ crashes = 0
  BY DEF Init, NoThread
<1>2. <<>> \in Seq(Copies) /\ Len(<<>>) = 0
  BY EmptySeq
<1>3. /\ faults \in Nat /\ crashes \in Nat /\ faults + crashes <= MaxFaults
      /\ batchMaxSize > 0 => Len(batch) <= batchMaxSize + 1
  BY <1>1, <1>2, LimitsAssumption
<1>4. /\ acker \in [Tuples -> {"waiting", "pending", "acked", "failed"}]
      /\ sends \in [Tuples -> Nat] /\ applied \in [Tuples -> Nat]
  BY DEF Init
<1>5. /\ ackStrategy \in Strategies /\ configured \in Configured
      /\ phase = "down" /\ connected = {} /\ stopRequested = FALSE
  BY DEF Init
<1>6. QED
  BY <1>1, <1>2, <1>3, <1>4, <1>5 DEF TypeOK

\* Every reachable state has the types of TypeOK; a batch of BatchThread never
\* exceeds batchMaxSize + 1.
THEOREM TypeCorrect == Spec => []TypeOK
<1>1. QED
  BY InitTypes, TypeStep, PTL DEF Spec

-----------------------------------------------------------------------------
(* What is acked is written. *)

\* No step takes back what Cassandra has applied.
LEMMA AppliedGrows ==
  ASSUME TypeOK, [Next]_vars
  PROVE  \A t \in Tuples : applied'[t] >= applied[t]
<1>1. ASSUME NEW k \in Keyspaces, Write(k) \/ WriteFails(k)
      PROVE  Apply(k) \/ UNCHANGED applied
  BY <1>1 DEF Write, WriteFails
<1>2. (\E k \in Keyspaces : Apply(k)) \/ UNCHANGED applied
  BY <1>1 DEF Next, BatchThread, vars, Prepare, PrepareFails, Crash, Cleanup, StopClient,
     Execute, Timeout, LoopEnds, TakeBatch, WriteAfterStop, AckBatch, FailBatch
<1>3. CASE \E k \in Keyspaces : Apply(k)
  BY <1>3, ApplyGrows
<1>4. CASE UNCHANGED applied
  BY <1>4 DEF TypeOK
<1>5. QED
  BY <1>2, <1>3, <1>4

\* A step that leaves the thread alone, or ends its batch, keeps BatchInv.
LEMMA BatchStep ==
  ASSUME TypeOK, BatchInv, [Next]_vars
  PROVE  BatchInv'
<1>0. \A t \in Tuples : applied[t] \in Nat /\ applied'[t] \in Nat /\ applied'[t] >= applied[t]
  BY AppliedGrows, TypeStep DEF TypeOK
<1>t. \A j \in DOMAIN batch : batch[j].id \in Tuples
  BY BatchOfCopies
<1>1. CASE UNCHANGED thread
  BY <1>0, <1>t, <1>1 DEF BatchInv, thread
<1>2. CASE pc' \notin {"write", "ack"}
  BY <1>2 DEF BatchInv
<1>3. CASE TakeBatch
  <2>1. PrepareMutations(batch')
    BY <1>3 DEF TakeBatch
  <2>2. pc' = "write" => todo' = KeyspacesOf(batch')
    BY <2>1 DEF PrepareMutations
  <2>3. pc' \in {"write", "fail"}
    BY <2>1 DEF PrepareMutations
  <2>4. \A j \in DOMAIN batch' : mapToKeyspace[batch'[j].id] \in KeyspacesOf(batch')
    BY DEF KeyspacesOf
  <2>5. QED
    BY <2>2, <2>3, <2>4 DEF BatchInv
<1>4. ASSUME NEW k \in Keyspaces, Write(k) PROVE BatchInv'
  <2>1. /\ pc = "write" /\ Apply(k) /\ todo' = todo \ {k} /\ batch' = batch
        /\ pc' = IF todo' = {} THEN "ack" ELSE "write"
    BY <1>4 DEF Write
  <2>2. ASSUME NEW j \in DOMAIN batch, mapToKeyspace[batch[j].id] \notin todo'
        PROVE  applied'[batch[j].id] > 0
    <3>1. CASE mapToKeyspace[batch[j].id] = k
      BY <2>1, <3>1, ApplyGrows
    <3>2. CASE mapToKeyspace[batch[j].id] # k
      <4>1. applied[batch[j].id] > 0
        BY <2>1, <2>2, <3>2 DEF BatchInv
      <4>2. QED
        BY <4>1, <1>0, <1>t
    <3>3. QED
      BY <3>1, <3>2
  <2>3. pc' = "ack" => todo' = {}
    BY <2>1
  <2>4. QED
    BY <2>1, <2>2, <2>3 DEF BatchInv
<1>5. QED
  BY <1>1, <1>2, <1>3, <1>4 DEF Next, BatchThread, vars, Prepare, PrepareFails, Crash,
     Cleanup, StopClient, Execute, Timeout, LoopEnds, WriteFails, WriteAfterStop, AckBatch,
     FailBatch, NextBatch

\* Only AckBatch acks under ACK_ON_WRITE, and then the batch is written.
LEMMA AckStep ==
  ASSUME TypeOK, BatchInv, AckedIsWritten, [Next]_vars
  PROVE  AckedIsWritten'
<1> SUFFICES ASSUME ackStrategy' = "write", NEW t \in Tuples, acker'[t] = "acked"
             PROVE  applied'[t] > 0
  BY DEF AckedIsWritten
<1>1. applied[t] \in Nat /\ applied'[t] \in Nat /\ applied'[t] >= applied[t]
  BY AppliedGrows, TypeStep DEF TypeOK
<1>2. ackStrategy = "write"
  BY DEF Next, BatchThread, vars, config, Prepare, PrepareFails, Crash, Cleanup, StopClient,
     Execute, Timeout, LoopEnds, TakeBatch, Write, WriteFails, WriteAfterStop, AckBatch, FailBatch
<1>3. CASE acker[t] = "acked"
  BY <1>1, <1>2, <1>3 DEF AckedIsWritten
<1>4. CASE acker[t] # "acked" /\ AckBatch
  <2>1. pc = "ack" /\ Answer("acked")
    BY <1>2, <1>4 DEF AckBatch
  <2>2. [id |-> t, n |-> sends[t]] \in InBatch
    BY <1>4, <2>1 DEF Answer
  <2>3. PICK j \in DOMAIN batch : batch[j].id = t
    BY <2>2 DEF InBatch
  <2>4. applied[t] > 0
    BY <2>1, <2>3 DEF BatchInv
  <2>5. QED
    BY <1>1, <2>4
<1>5. acker[t] = "acked" \/ AckBatch
  BY <1>2 DEF Next, BatchThread, vars, spout, TypeOK, Prepare, PrepareFails, Crash, Cleanup,
     StopClient, Execute, Timeout, LoopEnds, TakeBatch, Write, WriteFails, WriteAfterStop,
     FailBatch, Answer
<1>6. QED
  BY <1>3, <1>4, <1>5

\* "ACK_ON_WRITE: The Cassandra bolt will only ack tuples after the resulting
\* cassandra write(s) (potentially batched), have all succeeded." It holds
\* whatever fails, times out, is replayed or stopped.
THEOREM AckedWritten == Spec => []AckedIsWritten
<1> DEFINE AckInv == TypeOK /\ BatchInv /\ AckedIsWritten
<1>1. Init => AckInv
  <2> SUFFICES ASSUME Init PROVE AckInv
    OBVIOUS
  <2>1. TypeOK
    BY InitTypes
  <2>2. BatchInv
    BY DEF Init, NoThread, BatchInv
  <2>3. AckedIsWritten
    BY DEF Init, AckedIsWritten
  <2>4. QED
    BY <2>1, <2>2, <2>3
<1>2. AckInv /\ [Next]_vars => AckInv'
  BY TypeStep, BatchStep, AckStep
<1>3. AckInv => AckedIsWritten
  OBVIOUS
<1>4. QED
  BY <1>1, <1>2, <1>3, PTL DEF Spec

-----------------------------------------------------------------------------
(* What is applied is paid for. *)

\* Where a sequence has copies of a tuple.
At(s, t) == {i \in DOMAIN s : s[i].id = t}

\* The copies of a tuple that the batch has still to write.
Owed(t) ==
  IF pc = "write" /\ mapToKeyspace[t] \in todo THEN Cardinality(At(batch, t)) ELSE 0

\* The inductive strengthening of AppliedPaidBySends: what is applied, what waits
\* in the queue and what the batch has still to write is paid by sends.
PaidInv ==
  \A t \in Tuples : applied[t] + Cardinality(At(queue, t)) + Owed(t) <= sends[t]

\* The copies of a tuple are counted in numbers.
LEMMA AtCount ==
  ASSUME NEW s \in Seq(Copies), NEW t
  PROVE  /\ IsFiniteSet(At(s, t)) /\ Cardinality(At(s, t)) \in Nat
         /\ At(s, t) \subseteq 1..Len(s)
<1>1. Len(s) \in Nat /\ DOMAIN s = 1..Len(s)
  BY LenProperties
<1>2. IsFiniteSet(1..Len(s))
  BY <1>1, FS_Interval
<1>3. At(s, t) \subseteq 1..Len(s)
  BY <1>1 DEF At
<1>4. QED
  BY <1>2, <1>3, FS_Subset, FS_CardinalityType

LEMMA AtEmpty ==
  ASSUME NEW t
  PROVE  Cardinality(At(<<>>, t)) = 0
<1>1. At(<<>>, t) = {}
  BY EmptySeq DEF At
<1>2. QED
  BY <1>1, FS_EmptySet

\* One more copy counts for its tuple.
LEMMA AtAppend ==
  ASSUME NEW s \in Seq(Copies), NEW c \in Copies, NEW t
  PROVE  Cardinality(At(Append(s, c), t)) <= Cardinality(At(s, t)) + IF c.id = t THEN 1 ELSE 0
<1> DEFINE n == Len(s) + 1
<1>1. Len(s) \in Nat /\ DOMAIN s = 1..Len(s)
  BY LenProperties
<1>2. /\ DOMAIN Append(s, c) = 1..n /\ Append(s, c)[n] = c
      /\ \A i \in 1..Len(s) : Append(s, c)[i] = s[i]
  BY <1>1, AppendProperties, LenProperties
<1>3. IsFiniteSet(At(s, t)) /\ Cardinality(At(s, t)) \in Nat
  BY AtCount
<1>4. CASE c.id = t
  <2>1. At(Append(s, c), t) = At(s, t) \union {n}
    BY <1>1, <1>2, <1>4 DEF At
  <2>2. Cardinality(At(s, t) \union {n})
          = IF n \in At(s, t) THEN Cardinality(At(s, t)) ELSE Cardinality(At(s, t)) + 1
    BY <1>3, FS_AddElement
  <2>3. QED
    BY <1>3, <1>4, <2>1, <2>2
<1>5. CASE c.id # t
  <2>1. At(Append(s, c), t) = At(s, t)
    BY <1>1, <1>2, <1>5 DEF At
  <2>2. QED
    BY <1>3, <1>5, <2>1
<1>6. QED
  BY <1>4, <1>5

\* A sequence cut in two has the copies it had.
LEMMA AtSplit ==
  ASSUME NEW s \in Seq(Copies), NEW t, NEW n \in 0..Len(s)
  PROVE  Cardinality(At(SubSeq(s, 1, n), t)) + Cardinality(At(SubSeq(s, n + 1, Len(s)), t))
           = Cardinality(At(s, t))
<1> DEFINE front == SubSeq(s, 1, n)
           rest  == SubSeq(s, n + 1, Len(s))
           B     == {i \in At(s, t) : i > n}
           f     == [i \in At(rest, t) |-> i + n]
<1>1. Len(s) \in Nat /\ DOMAIN s = 1..Len(s) /\ n \in Nat /\ \A i \in 1..Len(s) : s[i] \in Copies
  BY LenProperties, ElementOfSeq
<1>2. /\ front \in Seq(Copies) /\ Len(front) = n /\ DOMAIN front = 1..n
      /\ \A i \in 1..n : front[i] = s[i]
  <2>1. \A i \in 1..n : s[i] \in Copies
    BY <1>1
  <2>2. /\ front \in Seq(Copies) /\ Len(front) = (IF 1 <= n THEN n - 1 + 1 ELSE 0)
        /\ \A i \in 1..(n - 1 + 1) : front[i] = s[1 + i - 1]
    BY <1>1, <2>1, SubSeqProperties
  <2>3. Len(front) = n
    BY <1>1, <2>2
  <2>4. \A i \in 1..n : front[i] = s[i]
    BY <1>1, <2>2
  <2>5. DOMAIN front = 1..n
    BY <2>2, <2>3, LenProperties
  <2>6. QED
    BY <2>2, <2>3, <2>4, <2>5
<1>3. /\ rest \in Seq(Copies) /\ Len(rest) = Len(s) - n /\ DOMAIN rest = 1..(Len(s) - n)
      /\ \A i \in 1..(Len(s) - n) : rest[i] = s[n + i]
  <2> DEFINE l == Len(s)
             m == n + 1
  <2>1. /\ m \in Int /\ l \in Int /\ (m <= l <=> l - n # 0) /\ l - m + 1 = l - n
        /\ \A i \in 1..(l - n) : m + i - 1 = n + i
    <3>1. l \in Nat /\ n \in 0..l
      BY <1>1
    <3> HIDE DEF l
    <3>2. m \in Int /\ (m <= l <=> l - n # 0) /\ l - m + 1 = l - n
      BY <3>1
    <3>3. \A i \in 1..(l - n) : m + i - 1 = n + i
      BY <3>1
    <3>4. QED
      BY <3>1, <3>2, <3>3
  <2>2. \A i \in m..l : s[i] \in Copies
    <3>1. \A i \in m..l : i \in 1..Len(s)
      BY <1>1
    <3>2. QED
      BY <1>1, <3>1
  <2> HIDE DEF m, l
  <2>3. /\ SubSeq(s, m, l) \in Seq(Copies)
        /\ Len(SubSeq(s, m, l)) = IF m <= l THEN l - m + 1 ELSE 0
        /\ \A i \in 1..(l - m + 1) : SubSeq(s, m, l)[i] = s[m + i - 1]
    BY <2>1, <2>2, SubSeqProperties
  <2>4. Len(SubSeq(s, m, l)) = l - n
    BY <2>1, <2>3
  <2>5. \A i \in 1..(l - n) : SubSeq(s, m, l)[i] = s[n + i]
    BY <2>1, <2>3
  <2>6. rest = SubSeq(s, m, l)
    BY DEF m, l
  <2>7. rest \in Seq(Copies) /\ Len(rest) = l - n
    BY <2>3, <2>4, <2>6
  <2>8. DOMAIN rest = 1..(l - n)
    BY <2>7, LenProperties
  <2>9. \A i \in 1..(l - n) : rest[i] = s[n + i]
    BY <2>5, <2>6
  <2>10. QED
    BY <2>7, <2>8, <2>9 DEF l
<1>4. At(front, t) = {i \in At(s, t) : i <= n}
  BY <1>1, <1>2 DEF At
<1>5. f \in Bijection(At(rest, t), B)
  <2>1. \A i \in At(rest, t) : i \in 1..(Len(s) - n) /\ i + n \in B
    BY <1>1, <1>3 DEF At
  <2>2. ASSUME NEW j \in B PROVE j - n \in At(rest, t)
    <3>1. j \in 1..Len(s) /\ j > n /\ s[j].id = t
      BY <1>1 DEF At
    <3>2. j - n \in 1..(Len(s) - n) /\ n + (j - n) = j
      BY <1>1, <3>1
    <3>3. rest[j - n] = s[j]
      BY <1>3, <3>2
    <3>4. QED
      BY <1>3, <3>1, <3>2, <3>3 DEF At
  <2>3. f \in [At(rest, t) -> B]
    BY <2>1
  <2>4. \A i, j \in At(rest, t) : f[i] = f[j] => i = j
    BY <2>1, <1>1
  <2>5. \A j \in B : f[j - n] = j
    BY <2>2, <1>1 DEF At
  <2>6. QED
    BY <2>2, <2>3, <2>4, <2>5 DEF Bijection, Injection, Surjection, IsInjective
<1>6. IsFiniteSet(At(rest, t)) /\ IsFiniteSet(At(front, t))
  BY <1>2, <1>3, AtCount
<1>7. IsFiniteSet(B) /\ Cardinality(B) = Cardinality(At(rest, t))
  BY <1>5, <1>6, FS_Bijection DEF ExistsBijection
<1>8. At(s, t) = At(front, t) \union B /\ At(front, t) \intersect B = {}
  BY <1>1, <1>4 DEF At
<1>9. Cardinality(At(s, t)) = Cardinality(At(front, t)) + Cardinality(B)
  <2>1. Cardinality(At(front, t) \union B)
          = Cardinality(At(front, t)) + Cardinality(B) - Cardinality(At(front, t) \intersect B)
    BY <1>6, <1>7, FS_Union
  <2>2. Cardinality(At(front, t) \intersect B) = 0
    BY <1>8, FS_EmptySet
  <2>3. Cardinality(At(front, t)) \in Nat /\ Cardinality(B) \in Nat
    BY <1>6, <1>7, FS_CardinalityType
  <2>4. Cardinality(At(s, t)) = Cardinality(At(front, t) \union B)
    BY <1>8
  <2> HIDE DEF B, front
  <2>5. QED
    BY <2>1, <2>2, <2>3, <2>4
<1>10. QED
  BY <1>7, <1>9, <1>6, FS_CardinalityType

\* A batch that is taken comes out of the queue.
LEMMA TakePaid ==
  ASSUME TypeOK, TakeBatch, NEW t \in Tuples
  PROVE  Cardinality(At(queue', t)) + Cardinality(At(batch', t)) = Cardinality(At(queue, t))
<1>1. queue \in Seq(Copies) /\ queue # <<>>
  BY DEF TypeOK, TakeBatch
<1>2. DrainSize \in 0..(Len(queue) - 1) /\ Len(queue) \in Nat
  BY <1>1, DrainBound, LenProperties
<1>3. DrainSize + 1 \in 0..Len(queue) /\ DrainSize + 2 = (DrainSize + 1) + 1
  BY <1>2
<1>4. Cardinality(At(SubSeq(queue, 1, DrainSize + 1), t))
        + Cardinality(At(SubSeq(queue, (DrainSize + 1) + 1, Len(queue)), t))
      = Cardinality(At(queue, t))
  BY <1>1, <1>3, AtSplit
<1>5. batch' = SubSeq(queue, 1, DrainSize + 1) /\ queue' = SubSeq(queue, DrainSize + 2, Len(queue))
  BY DEF TakeBatch
<1>6. queue' \in Seq(Copies) /\ batch' \in Seq(Copies)
  BY TakeTypes
<1>7. Cardinality(At(queue', t)) \in Nat /\ Cardinality(At(batch', t)) \in Nat
  BY <1>6, AtCount
<1>8. QED
  BY <1>3, <1>4, <1>5, <1>7

\* All that is counted is a number.
Counts ==
  \A t \in Tuples :
    /\ applied[t] \in Nat /\ sends[t] \in Nat
    /\ Cardinality(At(queue, t)) \in Nat /\ Cardinality(At(batch, t)) \in Nat
    /\ Owed(t) \in Nat /\ Owed(t) <= Cardinality(At(batch, t))

LEMMA OwedNat == TypeOK => Counts
<1> SUFFICES ASSUME TypeOK, NEW t \in Tuples
             PROVE  /\ applied[t] \in Nat /\ sends[t] \in Nat
                    /\ Cardinality(At(queue, t)) \in Nat /\ Cardinality(At(batch, t)) \in Nat
                    /\ Owed(t) \in Nat /\ Owed(t) <= Cardinality(At(batch, t))
  BY DEF Counts
<1>1. batch \in Seq(Copies) /\ queue \in Seq(Copies)
  BY DEF TypeOK
<1>2. Cardinality(At(batch, t)) \in Nat /\ Cardinality(At(queue, t)) \in Nat
  BY <1>1, AtCount
<1>3. Owed(t) = Cardinality(At(batch, t)) \/ Owed(t) = 0
  BY DEF Owed
<1>4. QED
  BY <1>2, <1>3 DEF TypeOK

\* A mutation applies what the batch owes to the tuples of its keyspace, and no more.
LEMMA ApplyPaid ==
  ASSUME TypeOK, NEW k \in Keyspaces, pc = "write", k \in todo, Apply(k), NEW t \in Tuples
  PROVE  applied'[t] = IF mapToKeyspace[t] = k THEN applied[t] + Owed(t) ELSE applied[t]
<1>1. CASE mapToKeyspace[t] = k
  <2>1. Owed(t) = Cardinality({j \in DOMAIN batch : batch[j].id = t})
    BY <1>1 DEF Owed, At
  <2>2. QED
    BY <1>1, <2>1 DEF Apply
<1>2. CASE mapToKeyspace[t] # k
  BY <1>2 DEF Apply
<1>3. QED
  BY <1>1, <1>2

\* Every step pays for what it applies, queues or takes into the batch.
LEMMA PaidStep ==
  ASSUME TypeOK, PaidInv, [Next]_vars
  PROVE  PaidInv'
<1> SUFFICES ASSUME NEW t \in Tuples
             PROVE  applied'[t] + Cardinality(At(queue', t)) + Owed(t)' <= sends'[t]
  BY DEF PaidInv
<1>0. TypeOK'
  BY TypeStep
<1>1. /\ Owed(t) \in Nat /\ Cardinality(At(queue, t)) \in Nat
      /\ applied[t] \in Nat /\ sends[t] \in Nat
      /\ applied[t] + Cardinality(At(queue, t)) + Owed(t) <= sends[t]
  BY OwedNat DEF PaidInv, Counts
<1>2. /\ Owed(t)' \in Nat /\ Cardinality(At(queue', t)) \in Nat
      /\ applied'[t] \in Nat /\ sends'[t] \in Nat
      /\ Owed(t)' <= Cardinality(At(batch', t))
      /\ Cardinality(At(batch', t)) \in Nat
  <2>1. Counts'
    BY <1>0, OwedNat, PTL
  <2>2. QED
    BY <2>1 DEF Counts
<1>3. CASE TakeBatch
  <2>1. Owed(t) = 0
    BY <1>3 DEF TakeBatch, Owed
  <2>2. applied'[t] = applied[t] /\ sends'[t] = sends[t]
    BY <1>3 DEF TakeBatch, spout
  <2>3. Cardinality(At(queue', t)) + Cardinality(At(batch', t)) = Cardinality(At(queue, t))
    BY <1>3, TakePaid
  <2>4. QED
    BY <1>1, <1>2, <2>1, <2>2, <2>3
<1>4. ASSUME NEW k \in Keyspaces, Write(k)
      PROVE  applied'[t] + Cardinality(At(queue', t)) + Owed(t)' <= sends'[t]
  <2>1. /\ pc = "write" /\ k \in todo /\ Apply(k) /\ todo' = todo \ {k}
        /\ batch' = batch /\ queue' = queue /\ sends' = sends
    BY <1>4 DEF Write, spout
  <2>2. applied'[t] = IF mapToKeyspace[t] = k THEN applied[t] + Owed(t) ELSE applied[t]
    BY <2>1, ApplyPaid
  <2>3. mapToKeyspace[t] = k => Owed(t)' = 0
    BY <2>1 DEF Owed
  <2>4. Owed(t)' = 0 \/ Owed(t)' = Owed(t)
    BY <2>1 DEF Owed
  <2>5. QED
    BY <1>1, <2>1, <2>2, <2>3, <2>4
<1>5. ASSUME NEW k \in Keyspaces, WriteFails(k)
      PROVE  applied'[t] + Cardinality(At(queue', t)) + Owed(t)' <= sends'[t]
  <2>1. /\ pc = "write" /\ k \in todo /\ (Apply(k) \/ UNCHANGED applied) /\ pc' = "fail"
        /\ queue' = queue /\ sends' = sends
    BY <1>5 DEF WriteFails, spout
  <2>2. applied'[t] \in {applied[t], applied[t] + Owed(t)}
    BY <2>1, ApplyPaid
  <2>3. Owed(t)' = 0
    BY <2>1 DEF Owed
  <2>4. QED
    BY <1>1, <2>1, <2>2, <2>3
<1>6. ASSUME NEW u \in Tuples, Execute(u)
      PROVE  applied'[t] + Cardinality(At(queue', t)) + Owed(t)' <= sends'[t]
  <2> DEFINE c == [id |-> u, n |-> sends[u] + 1]
  <2>1. /\ sends' = [sends EXCEPT ![u] = @ + 1] /\ queue' = Append(queue, c)
        /\ UNCHANGED <<pc, batch, todo, applied>>
    BY <1>6 DEF Execute, thread
  <2>2. queue \in Seq(Copies) /\ c \in Copies
    BY DEF TypeOK, Copies
  <2>3. Cardinality(At(queue', t)) <= Cardinality(At(queue, t)) + IF c.id = t THEN 1 ELSE 0
    BY <2>1, <2>2, AtAppend
  <2>4. Owed(t)' = Owed(t)
    BY <2>1 DEF Owed
  <2>5. sends'[t] = sends[t] + IF c.id = t THEN 1 ELSE 0
    BY <1>1, <2>1 DEF TypeOK
  <2>6. QED
    BY <1>1, <1>2, <2>1, <2>3, <2>4, <2>5
<1>7. ASSUME applied' = applied, sends' = sends, queue' = queue \/ queue' = <<>>,
             UNCHANGED <<pc, batch, todo>> \/ pc' # "write"
      PROVE  applied'[t] + Cardinality(At(queue', t)) + Owed(t)' <= sends'[t]
  <2>1. Owed(t)' = Owed(t) \/ Owed(t)' = 0
    BY <1>7 DEF Owed
  <2>2. Cardinality(At(queue', t)) <= Cardinality(At(queue, t))
    BY <1>1, <1>7, AtEmpty
  <2>3. QED
    BY <1>1, <1>2, <1>7, <2>1, <2>2
<1>8. QED
  BY <1>3, <1>4, <1>5, <1>6, <1>7 DEF Next, BatchThread, vars, config, spout, bolt, thread,
     bounds, Prepare, PrepareFails, Crash, Cleanup, StopClient, Timeout, LoopEnds,
     WriteAfterStop, AckBatch, FailBatch, NextBatch

\* A counter is never incremented more often than the spout sent its tuple: what
\* is written of a batch that failed was paid by the send before its replay.
THEOREM AppliedPaid == Spec => []AppliedPaidBySends
<1> DEFINE PaidBySends == TypeOK /\ PaidInv
<1>1. Init => PaidBySends
  <2> SUFFICES ASSUME Init PROVE PaidBySends
    OBVIOUS
  <2>1. TypeOK
    BY InitTypes
  <2>2. ASSUME NEW t \in Tuples
        PROVE  applied[t] + Cardinality(At(queue, t)) + Owed(t) <= sends[t]
    <3>1. applied[t] = 0 /\ sends[t] = 0 /\ queue = <<>> /\ pc = "ended"
      BY DEF Init, NoThread
    <3>2. QED
      BY <3>1, AtEmpty DEF Owed
  <2>3. QED
    BY <2>1, <2>2 DEF PaidInv
<1>2. PaidBySends /\ [Next]_vars => PaidBySends'
  BY TypeStep, PaidStep
<1>3. PaidBySends => AppliedPaidBySends
  <2> SUFFICES ASSUME PaidBySends, NEW t \in Tuples PROVE applied[t] <= sends[t]
    BY DEF AppliedPaidBySends
  <2>1. QED
    BY OwedNat DEF PaidInv, Counts
<1>4. QED
  BY <1>1, <1>2, <1>3, PTL DEF Spec
-----------------------------------------------------------------------------
(* What a mutation that raises costs. *)

\* The client of a bolt nobody stops has its contexts, and the thread goes on.
BoltInv ==
  /\ pc = "loop" => batch = <<>>
  /\ pc = "write" => todo \subseteq configured
  /\ ~stopRequested => /\ phase \in {"down", "up"}
                       /\ phase = "up" => connected = configured
                       /\ pc # "ended" => phase = "up"
  /\ crashes = 0 /\ phase = "down" => queue = <<>> /\ batch = <<>>

\* Tuples that were acked when they were received, and that nobody will write.
Held(t) == At(queue, t) # {} \/ At(batch, t) # {}
Lost == {t \in Tuples : acker[t] = "acked" /\ applied[t] = 0 /\ ~Held(t)}

Receiving ==
  /\ ackStrategy = "receive" /\ AllMapped
  /\ crashes = 0 /\ batchMaxSize > 0 /\ ~stopRequested

\* The inductive strengthening of LostPerFault: a batch that is about to be failed
\* is paid by the mutation that raised.
LossInv ==
  Receiving =>
    /\ IsFiniteSet(Lost)
    /\ Cardinality(Lost) + (IF pc = "fail" THEN batchMaxSize + 1 ELSE 0)
         <= (batchMaxSize + 1) * faults

LEMMA BoltStep ==
  ASSUME TypeOK, BoltInv, [Next]_vars
  PROVE  BoltInv'
<1>1. CASE Prepare
  BY <1>1 DEF Prepare, BoltInv, config
<1>2. CASE PrepareFails \/ UNCHANGED vars
  BY <1>2 DEF PrepareFails, BoltInv, vars, config, bolt, thread, bounds
<1>3. CASE Crash
  BY <1>3 DEF Crash, BoltInv, config, TypeOK
<1>4. CASE Cleanup
  BY <1>4 DEF Cleanup, BoltInv, config, thread, bounds
<1>5. CASE StopClient
  BY <1>5 DEF StopClient, BoltInv, config, thread, bounds
<1>6. ASSUME NEW t \in Tuples, Execute(t) \/ Timeout(t) PROVE BoltInv'
  <2>1. phase = "up" /\ UNCHANGED <<config, bolt, thread, bounds>>
    BY <1>6 DEF Execute, Timeout
  <2>2. QED
    BY <2>1 DEF BoltInv, config, bolt, thread, bounds
<1>7. CASE LoopEnds
  BY <1>7 DEF LoopEnds, BoltInv, config, bolt, bounds
<1>8. CASE TakeBatch
  <2>1. pc = "loop" /\ queue # <<>> /\ PrepareMutations(batch') /\ UNCHANGED <<config, bolt, bounds>>
    BY <1>8 DEF TakeBatch
  <2>2. pc' \in {"write", "fail"} /\ (pc' = "write" => todo' \subseteq configured)
    BY <2>1 DEF PrepareMutations
  <2>3. QED
    BY <2>1, <2>2 DEF BoltInv, config, bolt, bounds
<1>9. ASSUME NEW k \in Keyspaces, Write(k) \/ WriteFails(k) \/ WriteAfterStop(k) PROVE BoltInv'
  <2>1. /\ pc = "write" /\ pc' \in {"write", "ack", "fail"} /\ todo' \subseteq todo
        /\ UNCHANGED <<config, bolt, queue, batch, crashes>>
    BY <1>9 DEF Write, WriteFails, WriteAfterStop, bounds
  <2>2. QED
    BY <2>1 DEF BoltInv, config, bolt
<1>10. CASE AckBatch \/ FailBatch
  <2>1. /\ pc \in {"ack", "fail"} /\ NextBatch
        /\ UNCHANGED <<config, bolt, queue, crashes>>
    BY <1>10 DEF AckBatch, FailBatch, bounds
  <2>2. QED
    BY <2>1 DEF BoltInv, NextBatch, config, bolt
<1>11. QED
  BY <1>1, <1>2, <1>3, <1>4, <1>5, <1>6, <1>7, <1>8, <1>9, <1>10 DEF Next, BatchThread

\* One fault more pays for one batch more.
LEMMA FaultPrice ==
  ASSUME batchMaxSize > 0, NEW f \in Nat
  PROVE  /\ (batchMaxSize + 1) * f \in Int /\ (batchMaxSize + 1) * (f + 1) \in Int
         /\ (batchMaxSize + 1) * (f + 1) = (batchMaxSize + 1) * f + (batchMaxSize + 1)
         /\ (batchMaxSize + 1) * f <= (batchMaxSize + 1) * (f + 1)
<1> DEFINE b == batchMaxSize + 1
<1>1. b \in Int /\ b > 0
  BY LimitsAssumption
<1> HIDE DEF b
<1>2. b * f \in Int /\ b * (f + 1) \in Int
  BY <1>1
<1>3. b * (f + 1) = b * f + b
  BY <1>1
<1>4. b * f <= b * (f + 1)
  BY <1>1, <1>2, <1>3
<1>5. QED
  BY <1>2, <1>3, <1>4 DEF b

\* What is lost less, and not at a smaller price, is paid.
LEMMA LostLess ==
  ASSUME TypeOK, TypeOK', LossInv, Receiving, Lost' \subseteq Lost,
         faults' = faults \/ faults' = faults + 1,
         pc' = "fail" => pc = "fail"
  PROVE  LossInv'
<1>1. /\ IsFiniteSet(Lost)
      /\ Cardinality(Lost) + (IF pc = "fail" THEN batchMaxSize + 1 ELSE 0)
           <= (batchMaxSize + 1) * faults
  BY DEF LossInv
<1>2. IsFiniteSet(Lost') /\ Cardinality(Lost') <= Cardinality(Lost)
  BY <1>1, FS_Subset
<1>3. Cardinality(Lost) \in Nat /\ Cardinality(Lost') \in Nat
  BY <1>1, <1>2, FS_CardinalityType
<1>4. batchMaxSize \in Int /\ batchMaxSize > 0 /\ faults \in Nat /\ faults' \in Nat
  BY LimitsAssumption DEF Receiving, TypeOK
<1>5. (batchMaxSize + 1) * faults <= (batchMaxSize + 1) * faults'
      /\ (batchMaxSize + 1) * faults \in Int /\ (batchMaxSize + 1) * faults' \in Int
  <2>1. /\ (batchMaxSize + 1) * faults \in Int /\ (batchMaxSize + 1) * (faults + 1) \in Int
        /\ (batchMaxSize + 1) * faults <= (batchMaxSize + 1) * (faults + 1)
    BY <1>4, FaultPrice
  <2>2. CASE faults' = faults
    BY <2>1, <2>2
  <2>3. CASE faults' = faults + 1
    BY <2>1, <2>3
  <2>4. QED
    BY <2>2, <2>3
<1>6. (IF pc = "fail" THEN batchMaxSize + 1 ELSE 0) \in Int
      /\ (IF pc' = "fail" THEN batchMaxSize + 1 ELSE 0) <= (IF pc = "fail" THEN batchMaxSize + 1 ELSE 0)
  BY <1>4
<1> DEFINE X == (batchMaxSize + 1) * faults
           Y == (batchMaxSize + 1) * faults'
           C == Cardinality(Lost)
           D == Cardinality(Lost')
           a == IF pc = "fail" THEN batchMaxSize + 1 ELSE 0
           b == IF pc' = "fail" THEN batchMaxSize + 1 ELSE 0
<1>7. b \in Int
  BY <1>4
<1>8. C + a <= X /\ D <= C /\ b <= a /\ X <= Y /\ C \in Int /\ D \in Int /\ a \in Int /\ X \in Int /\ Y \in Int
  BY <1>1, <1>2, <1>3, <1>5, <1>6
<1> HIDE DEF X, Y, C, D, a, b
<1>9. D + b <= Y
  BY <1>7, <1>8
<1>10. QED
  BY <1>2, <1>9 DEF LossInv, X, Y, C, D, a, b

LEMMA HeldAppend ==
  ASSUME NEW s \in Seq(Copies), NEW c \in Copies, NEW t, At(s, t) # {} \/ c.id = t
  PROVE  At(Append(s, c), t) # {}
<1>1. Len(s) \in Nat /\ DOMAIN s = 1..Len(s)
  BY LenProperties
<1>2. /\ DOMAIN Append(s, c) = 1..(Len(s) + 1) /\ Append(s, c)[Len(s) + 1] = c
      /\ \A i \in 1..Len(s) : Append(s, c)[i] = s[i]
  BY <1>1, AppendProperties, LenProperties
<1>3. CASE c.id = t
  <2>1. Len(s) + 1 \in At(Append(s, c), t)
    BY <1>1, <1>2, <1>3 DEF At
  <2>2. QED
    BY <2>1
<1>4. CASE At(s, t) # {}
  <2>1. PICK i \in At(s, t) : TRUE
    BY <1>4
  <2>2. i \in At(Append(s, c), t)
    BY <1>1, <1>2, <2>1 DEF At
  <2>3. QED
    BY <2>2
<1>5. QED
  BY <1>3, <1>4

\* A batch that is taken is still held.
LEMMA HeldTaken ==
  ASSUME TypeOK, BoltInv, TakeBatch, NEW t \in Tuples, Held(t)
  PROVE  Held(t)'
<1>1. batch = <<>>
  BY DEF BoltInv, TakeBatch
<1>2. At(batch, t) = {}
  BY <1>1, EmptySeq DEF At
<1>3. At(queue, t) # {}
  BY <1>2 DEF Held
<1>4. queue \in Seq(Copies) /\ queue' \in Seq(Copies) /\ batch' \in Seq(Copies)
  BY TakeTypes DEF TypeOK
<1>5. Cardinality(At(queue', t)) + Cardinality(At(batch', t)) = Cardinality(At(queue, t))
  BY TakePaid
<1>6. IsFiniteSet(At(queue, t)) /\ Cardinality(At(queue, t)) \in Nat
  BY <1>4, AtCount
<1>7. Cardinality(At(queue, t)) # 0
  BY <1>3, <1>6, FS_EmptySet
<1>8. ASSUME At(queue', t) = {}, At(batch', t) = {} PROVE FALSE
  <2>1. Cardinality(At(queue', t)) = 0 /\ Cardinality(At(batch', t)) = 0
    BY <1>8, FS_EmptySet
  <2>2. QED
    BY <1>5, <1>7, <2>1
<1>9. QED
  BY <1>8 DEF Held

\* The tuples of a batch are no more than its copies.
LEMMA BatchTuples ==
  ASSUME TypeOK, batchMaxSize > 0
  PROVE  /\ IsFiniteSet({t \in Tuples : At(batch, t) # {}})
         /\ Cardinality({t \in Tuples : At(batch, t) # {}}) <= batchMaxSize + 1
<1> DEFINE S == {t \in Tuples : At(batch, t) # {}}
           D == 1..Len(batch)
           f == [j \in D |-> batch[j].id]
<1>1. batch \in Seq(Copies) /\ Len(batch) \in Nat /\ DOMAIN batch = D
  BY LenProperties DEF TypeOK
<1>2. IsFiniteSet(D) /\ Cardinality(D) = Len(batch)
  BY <1>1, FS_Interval
<1>3. \A j \in D : batch[j].id \in S
  <2>1. ASSUME NEW j \in D PROVE batch[j].id \in S
    <3>1. batch[j].id \in Tuples /\ j \in At(batch, batch[j].id)
      BY <1>1, BatchOfCopies DEF At
    <3>2. QED
      BY <3>1
  <2>2. QED
    BY <2>1
<1>4. \A t \in S : \E j \in D : batch[j].id = t
  BY <1>1 DEF At
<1>5. f \in Surjection(D, S)
  <2>1. f \in [D -> S]
    BY <1>3
  <2>2. \A t \in S : \E j \in D : f[j] = t
    BY <1>4
  <2> HIDE DEF f, S, D
  <2>3. QED
    BY <2>1, <2>2 DEF Surjection
<1>6. IsFiniteSet(S) /\ Cardinality(S) <= Cardinality(D)
  BY <1>2, <1>5, FS_Surjection DEF ExistsSurjection
<1>7. Len(batch) <= batchMaxSize + 1
  BY DEF TypeOK
<1>8. Cardinality(S) \in Nat /\ batchMaxSize \in Int
  BY <1>6, FS_CardinalityType, LimitsAssumption
<1> HIDE DEF S, D
<1>9. IsFiniteSet(S) /\ Cardinality(S) <= batchMaxSize + 1
  BY <1>1, <1>2, <1>6, <1>7, <1>8
<1>10. QED
  BY <1>9 DEF S

\* Every step is paid for, or ends what the property speaks of.
LEMMA LossStep ==
  ASSUME TypeOK, BatchInv, BoltInv, LossInv, [Next]_vars
  PROVE  LossInv'
<1> SUFFICES ASSUME Receiving' PROVE LossInv'
  BY DEF LossInv
<1>0. TypeOK'
  BY TypeStep
<1>1. ackStrategy' = ackStrategy /\ configured' = configured
  BY DEF Next, BatchThread, vars, config, Prepare, PrepareFails, Crash, Cleanup, StopClient,
     Execute, Timeout, LoopEnds, TakeBatch, Write, WriteFails, WriteAfterStop, AckBatch, FailBatch
<1>2. Receiving /\ ackStrategy = "receive" /\ AllMapped /\ ~stopRequested /\ batchMaxSize > 0
  <2>1. crashes' = 0 => crashes = 0
    <3>1. crashes' = crashes \/ crashes' = crashes + 1
      BY Zenon DEF Next, BatchThread, vars, bounds, Prepare, PrepareFails, Crash, Cleanup,
         StopClient, Execute, Timeout, LoopEnds, TakeBatch, Write, WriteFails, WriteAfterStop,
         AckBatch, FailBatch
    <3>2. crashes \in Nat
      BY DEF TypeOK
    <3>3. QED
      BY <3>1, <3>2
  <2>2. ~stopRequested' => ~stopRequested
    BY DEF Next, BatchThread, vars, bolt, Prepare, PrepareFails, Crash, Cleanup, StopClient,
       Execute, Timeout, LoopEnds, TakeBatch, Write, WriteFails, WriteAfterStop, AckBatch, FailBatch
  <2>3. AllMapped' => AllMapped
    BY <1>1 DEF AllMapped, Mapped
  <2>4. QED
    BY <1>1, <2>1, <2>2, <2>3 DEF Receiving
<1>3. \A t \in Tuples : applied[t] \in Nat /\ applied'[t] \in Nat /\ applied'[t] >= applied[t]
  BY <1>0, AppliedGrows DEF TypeOK
<1>4. \A t \in Tuples : applied'[t] = 0 => applied[t] = 0
  BY <1>3
\* What keeps the acker's acks and what is held loses nothing.
<1>5. ASSUME \A t \in Tuples : acker'[t] = "acked" => acker[t] = "acked" \/ Held(t)',
             \A t \in Tuples : Held(t) => Held(t)'
      PROVE  Lost' \subseteq Lost
  BY <1>4, <1>5 DEF Lost
<1>6. CASE Prepare
  <2>1. queue' = queue /\ batch' = batch /\ acker' = acker /\ faults' = faults /\ pc' = "loop"
    BY <1>2, <1>6 DEF Prepare, BoltInv, Receiving, spout, bounds
  <2>2. Lost' \subseteq Lost
    BY <1>5, <2>1 DEF Held
  <2>3. QED
    BY <1>0, <1>2, <2>1, <2>2, LostLess
<1>7. CASE PrepareFails \/ UNCHANGED vars
  <2>1. /\ queue' = queue /\ batch' = batch /\ acker' = acker /\ pc' = pc
        /\ faults' = faults \/ faults' = faults + 1
    BY <1>7 DEF PrepareFails, vars, spout, thread, bounds
  <2>2. Lost' \subseteq Lost
    BY <1>5, <2>1 DEF Held
  <2>3. QED
    BY <1>0, <1>2, <2>1, <2>2, LostLess
<1>8. CASE Crash
  <2>1. crashes' = crashes + 1 /\ crashes = 0 /\ crashes' = 0
    BY <1>2, <1>8 DEF Crash, Receiving
  <2>2. QED
    BY <2>1
<1>9. CASE Cleanup \/ LoopEnds
  BY <1>2, <1>9 DEF Cleanup, LoopEnds, Receiving
<1>10. CASE StopClient
  BY <1>2, <1>10 DEF StopClient, BoltInv
<1>11. ASSUME NEW u \in Tuples, Execute(u) PROVE LossInv'
  <2> DEFINE c == [id |-> u, n |-> sends[u] + 1]
  <2>1. /\ acker' = [acker EXCEPT ![u] = "acked"] /\ queue' = Append(queue, c) /\ batch' = batch
        /\ pc' = pc /\ faults' = faults
    BY <1>2, <1>11 DEF Execute, thread, bounds
  <2>2. queue \in Seq(Copies) /\ c \in Copies /\ c.id = u
    BY DEF TypeOK, Copies
  <2> HIDE DEF c
  <2>3. \A t \in Tuples : At(queue, t) # {} \/ t = u => At(queue', t) # {}
    BY <2>1, <2>2, HeldAppend
  <2>4. \A t \in Tuples : Held(t) \/ t = u => Held(t)'
    BY <2>1, <2>3 DEF Held
  <2>5. \A t \in Tuples : acker'[t] = "acked" => acker[t] = "acked" \/ t = u
    BY <2>1 DEF TypeOK
  <2>6. Lost' \subseteq Lost
    BY <1>5, <2>4, <2>5
  <2>7. QED
    BY <1>0, <1>2, <2>1, <2>6, LostLess
<1>12. ASSUME NEW u \in Tuples, Timeout(u) PROVE LossInv'
  <2>1. /\ acker' = [acker EXCEPT ![u] = "failed"] /\ queue' = queue /\ batch' = batch
        /\ pc' = pc /\ faults' = faults
    BY <1>12 DEF Timeout, thread, bounds
  <2>2. \A t \in Tuples : acker'[t] = "acked" => acker[t] = "acked"
    BY <2>1 DEF TypeOK
  <2>3. Lost' \subseteq Lost
    BY <1>5, <2>1, <2>2 DEF Held
  <2>4. QED
    BY <1>0, <1>2, <2>1, <2>3, LostLess
<1>13. CASE TakeBatch
  <2>1. acker' = acker /\ faults' = faults /\ PrepareMutations(batch')
    BY <1>13 DEF TakeBatch, spout, bounds
  <2>2. KeyspacesOf(batch') \subseteq configured
    <3>1. \A j \in DOMAIN batch' : batch'[j].id \in Tuples
      <4>1. batch' \in Seq(Copies)
        BY <1>0 DEF TypeOK
      <4>2. \A j \in DOMAIN batch' : batch'[j] \in Copies
        BY <4>1, LenProperties, ElementOfSeq
      <4>3. QED
        BY <4>2 DEF Copies
    <3>2. QED
      BY <1>2, <3>1 DEF KeyspacesOf, AllMapped, Mapped
  <2>3. pc' = "write"
    BY <2>1, <2>2 DEF PrepareMutations
  <2>4. Lost' \subseteq Lost
    BY <1>5, <1>13, <2>1, HeldTaken
  <2>5. QED
    BY <1>0, <1>2, <2>1, <2>3, <2>4, LostLess
<1>14. ASSUME NEW k \in Keyspaces, Write(k) PROVE LossInv'
  <2>1. /\ acker' = acker /\ queue' = queue /\ batch' = batch /\ faults' = faults
        /\ pc' \in {"write", "ack"}
    BY <1>14 DEF Write, spout, bounds
  <2>2. Lost' \subseteq Lost
    BY <1>5, <2>1 DEF Held
  <2>3. QED
    BY <1>0, <1>2, <2>1, <2>2, LostLess
<1>15. ASSUME NEW k \in Keyspaces, WriteFails(k) PROVE LossInv'
  <2>1. /\ acker' = acker /\ queue' = queue /\ batch' = batch /\ faults' = faults + 1
        /\ pc = "write" /\ pc' = "fail"
    BY <1>15 DEF WriteFails, spout, bounds
  <2>2. Lost' \subseteq Lost
    BY <1>5, <2>1 DEF Held
  <2>3. IsFiniteSet(Lost) /\ Cardinality(Lost) + 0 <= (batchMaxSize + 1) * faults
    BY <1>2, <2>1 DEF LossInv
  <2>4. /\ IsFiniteSet(Lost') /\ Cardinality(Lost') <= Cardinality(Lost)
        /\ Cardinality(Lost) \in Nat /\ Cardinality(Lost') \in Nat
    BY <2>2, <2>3, FS_Subset, FS_CardinalityType
  <2>5. /\ (batchMaxSize + 1) * faults' = (batchMaxSize + 1) * faults + (batchMaxSize + 1)
        /\ (batchMaxSize + 1) * faults \in Int
    BY <1>2, <2>1, FaultPrice DEF TypeOK
  <2>6. batchMaxSize \in Int
    BY LimitsAssumption
  <2> DEFINE X == (batchMaxSize + 1) * faults
             Y == (batchMaxSize + 1) * faults'
  <2>7. Cardinality(Lost') + (batchMaxSize + 1) <= Y
    <3>1. Cardinality(Lost) <= X /\ Y = X + (batchMaxSize + 1) /\ X \in Int
      BY <2>3, <2>4, <2>5
    <3> HIDE DEF X, Y
    <3>2. QED
      BY <2>4, <2>6, <3>1
  <2>8. QED
    BY <2>1, <2>4, <2>7 DEF LossInv
<1>16. ASSUME NEW k \in Keyspaces, WriteAfterStop(k) PROVE LossInv'
  BY <1>2, <1>16 DEF WriteAfterStop, BoltInv
<1>17. CASE AckBatch
  <2>1. /\ pc = "ack" /\ pc' = "loop" /\ batch' = <<>> /\ acker' = acker /\ queue' = queue
        /\ applied' = applied /\ faults' = faults
    BY <1>2, <1>17 DEF AckBatch, NextBatch, bounds
  <2>2. ASSUME NEW t \in Tuples, applied[t] = 0 PROVE At(batch, t) = {}
    BY <1>3, <2>1, <2>2 DEF BatchInv, At
  <2>3. Lost' \subseteq Lost
    BY <1>4, <2>1, <2>2 DEF Lost, Held
  <2>4. QED
    BY <1>0, <1>2, <2>1, <2>3, LostLess
<1>18. CASE FailBatch
  <2> DEFINE B == {t \in Tuples : At(batch, t) # {}}
  <2>1. /\ pc = "fail" /\ pc' = "loop" /\ Answer("failed") /\ queue' = queue
        /\ applied' = applied /\ faults' = faults
    BY <1>18 DEF FailBatch, NextBatch, bounds
  <2>2. \A t \in Tuples : acker'[t] = "acked" => acker[t] = "acked"
    BY <2>1 DEF Answer
  <2>3. Lost' \subseteq Lost \union B
    BY <2>1, <2>2 DEF Lost, Held
  <2>4. /\ IsFiniteSet(Lost)
        /\ Cardinality(Lost) + (batchMaxSize + 1) <= (batchMaxSize + 1) * faults
    BY <1>2, <2>1 DEF LossInv
  <2>5. IsFiniteSet(B) /\ Cardinality(B) <= batchMaxSize + 1
    BY <1>2, BatchTuples
  <2> HIDE DEF B
  <2>6. /\ IsFiniteSet(Lost \union B)
        /\ Cardinality(Lost \union B) = Cardinality(Lost) + Cardinality(B) - Cardinality(Lost \intersect B)
    BY <2>4, <2>5, FS_Union
  <2>7. IsFiniteSet(Lost \intersect B)
    BY <2>4, FS_Intersection
  <2>8. IsFiniteSet(Lost') /\ Cardinality(Lost') <= Cardinality(Lost \union B)
    BY <2>3, <2>6, FS_Subset
  <2>9. /\ Cardinality(Lost) \in Nat /\ Cardinality(B) \in Nat /\ Cardinality(Lost \intersect B) \in Nat
        /\ Cardinality(Lost') \in Nat
    BY <2>4, <2>5, <2>7, <2>8, FS_CardinalityType
  <2> DEFINE X == (batchMaxSize + 1) * faults
  <2>10. Cardinality(Lost') <= X
    <3>1. X \in Int /\ batchMaxSize \in Int
      BY <1>2, FaultPrice, LimitsAssumption DEF TypeOK
    <3>2. Cardinality(Lost) + (batchMaxSize + 1) <= X
      BY <2>4
    <3>3. Cardinality(Lost') <= Cardinality(Lost) + Cardinality(B) - Cardinality(Lost \intersect B)
      BY <2>6, <2>8
    <3> HIDE DEF X
    <3>4. QED
      BY <2>5, <2>9, <3>1, <3>2, <3>3
  <2>11. Cardinality(Lost') + 0 <= (batchMaxSize + 1) * faults'
    BY <2>1, <2>9, <2>10
  <2>12. QED
    BY <2>1, <2>8, <2>11 DEF LossInv
<1>19. QED
  BY <1>6, <1>7, <1>8, <1>9, <1>10, <1>11, <1>12, <1>13, <1>14, <1>15, <1>16, <1>17, <1>18,
     Zenon DEF Next, BatchThread

\* With ACK_ON_RECEIVE each mutation that raises costs at most a batch, which is one
\* tuple more than batchMaxSize; while the bolt runs nothing else is lost, whatever
\* waits in the queue, fails to prepare or is written in which order.
THEOREM LostPaid == Spec => []LostPerFault
<1> DEFINE Inv == TypeOK /\ BatchInv /\ BoltInv /\ LossInv
<1>1. Init => Inv
  <2> SUFFICES ASSUME Init PROVE Inv
    OBVIOUS
  <2>1. TypeOK
    BY InitTypes
  <2>2. pc = "ended" /\ batch = <<>> /\ queue = <<>> /\ phase = "down" /\ faults = 0
        /\ \A t \in Tuples : acker[t] = "waiting"
    BY DEF Init, NoThread
  <2>3. BatchInv /\ BoltInv
    BY <2>2 DEF BatchInv, BoltInv
  <2>4. Lost = {}
    BY <2>2 DEF Lost
  <2>5. IsFiniteSet(Lost) /\ Cardinality(Lost) = 0
    BY <2>4, FS_EmptySet
  <2>6. batchMaxSize \in Int /\ (batchMaxSize + 1) * 0 = 0
    BY LimitsAssumption
  <2>7. LossInv
    BY <2>2, <2>5, <2>6 DEF LossInv
  <2>8. QED
    BY <2>1, <2>3, <2>7
<1>2. Inv /\ [Next]_vars => Inv'
  BY TypeStep, BatchStep, BoltStep, LossStep
<1>3. Inv => LostPerFault
  <2> SUFFICES ASSUME Inv, ackStrategy = "receive", AllMapped, crashes = 0, batchMaxSize > 0, ~stopRequested
               PROVE  Cardinality({t \in Tuples : acker[t] = "acked" /\ applied[t] = 0}
                        \ ({queue[k].id : k \in DOMAIN queue} \union {c.id : c \in InBatch}))
                      <= (batchMaxSize + 1) * faults
    BY DEF LostPerFault
  <2>1. \A t \in Tuples : Held(t) <=> t \in {queue[k].id : k \in DOMAIN queue} \union {c.id : c \in InBatch}
    BY DEF Held, At, InBatch
  <2>2. Lost = {t \in Tuples : acker[t] = "acked" /\ applied[t] = 0}
                 \ ({queue[k].id : k \in DOMAIN queue} \union {c.id : c \in InBatch})
    BY <2>1 DEF Lost
  <2>3. /\ IsFiniteSet(Lost)
        /\ Cardinality(Lost) + (IF pc = "fail" THEN batchMaxSize + 1 ELSE 0) <= (batchMaxSize + 1) * faults
    BY DEF LossInv, Receiving
  <2>4. Cardinality(Lost) \in Nat /\ batchMaxSize \in Int /\ (batchMaxSize + 1) * faults \in Int
    BY <2>3, FS_CardinalityType, FaultPrice, LimitsAssumption DEF TypeOK
  <2> DEFINE X == (batchMaxSize + 1) * faults
             a == IF pc = "fail" THEN batchMaxSize + 1 ELSE 0
  <2>5. a >= 0 /\ a \in Int
    BY <2>4
  <2>6. Cardinality(Lost) + a <= X /\ X \in Int
    BY <2>3, <2>4
  <2> HIDE DEF X, a
  <2>7. Cardinality(Lost) <= X
    BY <2>4, <2>5, <2>6
  <2>8. QED
    BY <2>2, <2>7 DEF X
<1>4. QED
  BY <1>1, <1>2, <1>3, PTL DEF Spec
===============================================================================
