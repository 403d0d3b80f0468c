------------------------- MODULE TridentState_proofs --------------------------
(***************************************************************************)
(* Proofs about TridentState, for any keys, handlers, sizes and bounds:    *)
(* the types, that the rows of the map states count every tuple of the     *)
(* committed batches once, and that CassandraState wrote what it says it   *)
(* wrote.                                                                  *)
(***************************************************************************)
EXTENDS TridentState, FiniteSetTheorems, SequenceTheorems, TLAPS

-----------------------------------------------------------------------------
(* Batches and what is computed from them. *)

\* A batch is a sequence of keys, empty before its first attempt.
LEMMA BatchIsSeq ==
  ASSUME NEW b \in Batches \union {<<>>}
  PROVE  /\ b \in Seq(Keys) /\ Len(b) \in Nat /\ DOMAIN b = 1..Len(b)
         /\ \A i \in 1..Len(b) : b[i] \in Keys
<1>1. CASE b \in Batches
  <2>1. PICK n \in 1..MaxLength : b \in [1..n -> Keys]
    BY <1>1 DEF Batches
  <2>2. n \in Nat
    BY <2>1, TridentBounds
  <2>3. b \in Seq(Keys)
    BY <2>1, <2>2, SeqDef
  <2>4. QED
    BY <2>3, LenProperties, ElementOfSeq
<1>2. CASE b = <<>>
  BY <1>2, EmptySeq, LenProperties
<1>3. QED
  BY <1>1, <1>2

\* Amount counts, and counts nothing of a key that is not in the batch.
LEMMA AmountNat ==
  ASSUME NEW b \in Batches \union {<<>>}, NEW k
  PROVE  Amount(k, b) \in Nat /\ (k \notin KeysOf(b) => Amount(k, b) = 0)
<1> DEFINE I == {i \in DOMAIN b : b[i] = k}
<1>1. Len(b) \in Nat /\ DOMAIN b = 1..Len(b)
  BY BatchIsSeq
<1>2. IsFiniteSet(1..Len(b))
  BY <1>1, FS_Interval
<1>3. IsFiniteSet(I) /\ Cardinality(I) \in Nat
  BY <1>1, <1>2, FS_Subset, FS_CardinalityType
<1>4. k \notin KeysOf(b) => I = {}
  BY DEF KeysOf, Range
<1>5. QED
  BY <1>3, <1>4, FS_EmptySet DEF Amount

\* An update of a cell is a cell.
LEMMA UpdateIsCell ==
  ASSUME kind \in MapKinds, tx \in Nat, NEW old \in Cell, NEW n \in Nat
  PROVE  /\ UpdateValue(old, n) \in Cell
         /\ kind = "nontransactional" => UpdateValue(old, n).curr = old.curr + n
                                           /\ UpdateValue(old, n).tx = 0
         /\ kind = "transactional" => UpdateValue(old, n).curr = old.curr + n
                                        /\ UpdateValue(old, n).tx = tx
         /\ kind = "opaque" =>
              LET base == IF old.tx = tx THEN old.prev ELSE old.curr
              IN  UpdateValue(old, n) = [tx |-> tx, curr |-> base + n, prev |-> base]
<1>1. CASE kind = "nontransactional"
  <2>1. UpdateValue(old, n) = [NoRow EXCEPT !.curr = old.curr + n]
    BY <1>1 DEF UpdateValue
  <2>2. QED
    BY <1>1, <2>1 DEF Cell, NoRow
<1>2. CASE kind = "transactional"
  <2>1. UpdateValue(old, n) = [tx |-> tx, curr |-> old.curr + n, prev |-> 0]
    BY <1>2 DEF UpdateValue
  <2>2. QED
    BY <1>2, <2>1 DEF Cell
<1>3. CASE kind = "opaque"
  <2> DEFINE base == IF old.tx = tx THEN old.prev ELSE old.curr
  <2>1. UpdateValue(old, n) = [tx |-> tx, curr |-> base + n, prev |-> base]
    BY <1>3 DEF UpdateValue
  <2>2. base \in Nat
    BY DEF Cell
  <2>3. QED
    BY <1>3, <2>1, <2>2 DEF Cell
<1>4. QED
  BY <1>1, <1>2, <1>3 DEF MapKinds

\* What CachedMap finds of a key is a cell.
LEMMA LookupIsCell ==
  ASSUME TypeOK, NEW k \in Keys
  PROVE  Lookup(k) \in Cell
<1>1. CASE k \in DOMAIN cache
  BY <1>1 DEF TypeOK, Lookup, Range
<1>2. CASE k \notin DOMAIN cache
  BY <1>2 DEF TypeOK, Lookup
<1>3. QED
  BY <1>1, <1>2

\* A sublist ends within the batch: it has maxBatchSize tuples, or what is left.
LEMMA SublistCount ==
  ASSUME TypeOK
  PROVE  /\ Sublist \subseteq DOMAIN batch
         /\ done + Cardinality(Sublist) \in 0..Len(batch)
         /\ done + Cardinality(Sublist) =
              IF maxBatchSize > 0 /\ done + maxBatchSize <= Len(batch)
                THEN done + maxBatchSize ELSE Len(batch)
<1>1. Len(batch) \in Nat /\ DOMAIN batch = 1..Len(batch)
  BY BatchIsSeq DEF TypeOK
<1>2. done \in 0..Len(batch) /\ maxBatchSize \in Int
  BY DEF TypeOK
<1>3. CASE maxBatchSize > 0 /\ done + maxBatchSize <= Len(batch)
  <2>1. Sublist = (done + 1)..(done + maxBatchSize)
    BY <1>3 DEF Sublist
  <2>2. Cardinality((done + 1)..(done + maxBatchSize)) = maxBatchSize
    <3> DEFINE a == done + 1
               b == done + maxBatchSize
    <3>1. a \in Int /\ b \in Int /\ ~(a > b) /\ b - a + 1 = maxBatchSize
      BY <1>1, <1>2, <1>3
    <3> HIDE DEF a, b
    <3>2. Cardinality(a..b) = maxBatchSize
      BY <3>1, FS_Interval
    <3>3. QED
      BY <3>2 DEF a, b
  <2>3. QED
    BY <1>1, <1>2, <1>3, <2>1, <2>2
<1>4. CASE ~(maxBatchSize > 0 /\ done + maxBatchSize <= Len(batch))
  <2>1. Sublist = (done + 1)..Len(batch)
    BY <1>4 DEF Sublist
  <2>2. Cardinality((done + 1)..Len(batch)) = Len(batch) - done
    <3> DEFINE a == done + 1
               n == Len(batch)
    <3>0. n \in Nat /\ done \in 0..n
      BY <1>1, <1>2
    <3> HIDE DEF n
    <3>1. a \in Int /\ n \in Int /\ (a > n => n - done = 0) /\ n - a + 1 = n - done
      BY <3>0
    <3> HIDE DEF a
    <3>2. Cardinality(a..n) = n - done
      BY <3>1, FS_Interval
    <3>3. QED
      BY <3>2 DEF a, n
  <2>3. Sublist \subseteq DOMAIN batch
    BY <1>1, <1>2, <2>1
  <2>4. Cardinality(Sublist) = Len(batch) - done
    BY <2>1, <2>2
  <2>5. done + Cardinality(Sublist) = Len(batch)
    BY <1>1, <1>2, <2>4
  <2>6. QED
    BY <1>1, <1>4, <2>3, <2>5
<1>5. QED
  BY <1>3, <1>4

-----------------------------------------------------------------------------
(* Types. *)

\* The rows after some keys were written or put are cells.
LEMMA RowTypes ==
  ASSUME TypeOK
  PROVE  /\ \A is : WrittenBy(is) \in [Keys -> Cell]
         /\ \A ks \in SUBSET DOMAIN values : PutBy(ks) \in [Keys -> Cell]
<1>1. [NoRow EXCEPT !.tx = tx] \in Cell
  <2>1. tx \in Nat
    BY TridentBounds DEF TypeOK
  <2>2. [NoRow EXCEPT !.tx = tx] = [tx |-> tx, curr |-> 0, prev |-> 0]
    BY DEF NoRow
  <2>3. QED
    BY <2>1, <2>2 DEF Cell
<1>2. cells \in [Keys -> Cell] /\ \A k \in DOMAIN values : values[k] \in Cell
  BY DEF TypeOK, Range
<1>3. QED
  BY <1>1, <1>2 DEF WrittenBy, PutBy

\* Nothing is a function without an argument.
LEMMA NothingEmpty == DOMAIN Nothing = {} /\ Range(Nothing) = {}
  BY DEF Nothing, Range

\* An attempt that ends, and a worker that dies, leave what is left of its type.
LEMMA EndTypes ==
  ASSUME TypeOK, GiveUp, UNCHANGED <<config, ledger>>, UNCHANGED expired,
         cells' \in [Keys -> Cell], faults' \in 0..MaxFaults,
         UNCHANGED <<cache, running>> \/ (cache' = Nothing /\ running' = TRUE)
  PROVE  TypeOK'
<1>1. /\ UNCHANGED <<kind, handler, maxBatchSize, tx, batch, counted>>
      /\ pc' = "idle" /\ done' = 0 /\ emitted' = FALSE /\ values' = Nothing
  BY DEF GiveUp, config, ledger
<1>2. done' \in 0..Len(batch')
  BY <1>1, BatchIsSeq DEF TypeOK
<1>3. /\ DOMAIN cache' \subseteq Keys /\ Range(cache') \subseteq Cell /\ running' \in BOOLEAN
      /\ DOMAIN values' \subseteq Keys /\ Range(values') \subseteq Cell
  BY <1>1, NothingEmpty DEF TypeOK
<1>4. QED
  BY <1>1, <1>2, <1>3 DEF TypeOK

\* A fault is counted within its bound.
LEMMA FaultTypes ==
  ASSUME TypeOK, Fault
  PROVE  faults' \in 0..MaxFaults
  BY TridentBounds DEF TypeOK, Fault

\* An attempt of a batch the task may be given.
Attempted == pc # "idle" => tx <= MaxTx /\ batch # <<>>

\* What an exception leaves has its types.
LEMMA ExceptionTypes ==
  ASSUME TypeOK, NEW e \in Exceptions, OnException(e), UNCHANGED <<config, ledger>>,
         cells' \in [Keys -> Cell], UNCHANGED expired, faults' \in 0..MaxFaults
  PROVE  TypeOK'
<1>1. CASE GiveUp /\ UNCHANGED <<cache, running>>
  BY <1>1, EndTypes
<1>2. CASE WorkerDies
  BY <1>2, EndTypes DEF WorkerDies
<1>3. CASE pc' = "done" /\ UNCHANGED <<done, emitted, values, cache, running>>
  <2>1. UNCHANGED <<kind, handler, maxBatchSize, tx, batch, counted>>
    BY DEF config, ledger
  <2>2. QED
    BY <1>3, <2>1 DEF TypeOK
<1>4. QED
  BY <1>1, <1>2, <1>3 DEF OnException

\* What multiGet computes and keeps are cells.
LEMMA GetTypes ==
  ASSUME TypeOK, MultiGet
  PROVE  /\ DOMAIN values' = Changed /\ Changed \subseteq KeysOf(batch) /\ KeysOf(batch) \subseteq Keys
         /\ \A k \in Changed : values'[k] = UpdateValue(Lookup(k), Amount(k, batch))
                                /\ values'[k] \in Cell
         /\ DOMAIN cache' = DOMAIN cache \union KeysOf(batch)
         /\ \A k \in DOMAIN cache' : cache'[k] = Lookup(k) /\ cache'[k] \in Cell
<1>1. KeysOf(batch) \subseteq Keys /\ DOMAIN cache \subseteq Keys
  BY BatchIsSeq DEF TypeOK, KeysOf, Range
<1>2. Changed \subseteq KeysOf(batch)
  BY DEF Changed
<1>3. kind \in MapKinds /\ tx \in Nat
  BY TridentBounds DEF TypeOK, MultiGet
<1>4. \A k \in Keys : Lookup(k) \in Cell
  BY LookupIsCell
<1>5. \A k \in Keys : Amount(k, batch) \in Nat
  BY AmountNat DEF TypeOK
<1>6. \A k \in Keys : UpdateValue(Lookup(k), Amount(k, batch)) \in Cell
  BY <1>3, <1>4, <1>5, UpdateIsCell
<1>7. QED
  BY <1>1, <1>2, <1>4, <1>6 DEF MultiGet

\* Every step keeps the types.
LEMMA TypeStep ==
  ASSUME TypeOK, Attempted, [Next]_vars
  PROVE  TypeOK' /\ Attempted'
<1>1. CASE Attempt
  <2>1. batch' \in Batches \union {<<>>} /\ batch' # <<>>
    <3>1. <<>> \notin Batches
      BY TridentBounds, EmptySeq, LenProperties DEF Batches
    <3>2. QED
      BY <1>1, <3>1 DEF Attempt, TypeOK
  <2>2. Len(batch') \in Nat /\ Len(batch) \in Nat /\ (batch = <<>> => Len(batch) = 0)
    BY <2>1, BatchIsSeq, EmptySeq DEF TypeOK
  <2>3. done' \in 0..Len(batch')
    BY <1>1, <2>2 DEF Attempt, TypeOK
  <2>4. QED
    BY <1>1, <2>1, <2>3 DEF Attempt, TypeOK, Attempted, config
<1>2. CASE FailsElsewhere
  <2>1. cells' \in [Keys -> Cell] /\ GiveUp /\ Fault /\ UNCHANGED <<config, ledger, cache, running, expired>>
    BY <1>2 DEF FailsElsewhere, TypeOK
  <2>2. QED
    BY <2>1, EndTypes, FaultTypes DEF Attempted, GiveUp
<1>3. CASE Commit
  <2>1. counted' \in [Keys -> Nat]
    BY <1>3, AmountNat DEF Commit, TypeOK
  <2>2. tx' \in 1..(MaxTx + 1)
    BY <1>3, TridentBounds DEF Commit, TypeOK, Attempted
  <2>3. Len(batch') = 0 /\ batch' = <<>>
    BY <1>3, EmptySeq DEF Commit
  <2>4. done' \in 0..Len(batch')
    BY <1>3, <2>3 DEF Commit, GiveUp
  <2>5. QED
    BY <1>3, <2>1, <2>2, <2>3, <2>4, NothingEmpty DEF Commit, GiveUp, TypeOK, Attempted, config
<1>4. CASE Crash
  <2>1. cells' \in [Keys -> Cell] /\ WorkerDies /\ Fault /\ UNCHANGED <<config, ledger, expired>>
    BY <1>4 DEF Crash, TypeOK
  <2>2. QED
    BY <2>1, EndTypes, FaultTypes DEF Attempted, WorkerDies, GiveUp
<1>5. CASE WriteTuples
  <2>1. cells' \in [Keys -> Cell]
    BY <1>5, RowTypes DEF WriteTuples
  <2>2. done' \in 0..Len(batch')
    BY <1>5, SublistCount DEF WriteTuples, ledger
  <2>3. pc' \in {"update", "done"} /\ emitted' \in BOOLEAN
    <3>1. pc = "update" /\ emitted \in BOOLEAN
      BY <1>5, Zenon DEF WriteTuples, TypeOK
    <3>2. \/ pc' = "done" /\ emitted' = (maxBatchSize > 0)
          \/ pc' = pc /\ emitted' = emitted
      BY <1>5, Zenon DEF WriteTuples
    <3>3. (maxBatchSize > 0) \in BOOLEAN
      OBVIOUS
    <3>4. QED
      BY <3>1, <3>2, <3>3, Zenon
  <2>4. /\ UNCHANGED <<kind, handler, maxBatchSize, tx, batch, counted, values, cache>>
        /\ UNCHANGED <<running, expired, faults>> /\ pc # "idle"
    BY <1>5 DEF WriteTuples, config, ledger
  <2>5. QED
    BY <2>1, <2>2, <2>3, <2>4 DEF TypeOK, Attempted
<1>6. CASE MappingRaises
  <2>1. TypeOK'
    BY <1>6, ExceptionTypes DEF MappingRaises, TypeOK, Exceptions
  <2>2. Attempted'
    BY <1>6 DEF MappingRaises, Attempted, ledger
  <2>3. QED
    BY <2>1, <2>2
<1>7. CASE StoppedRaises
  <2>1. TypeOK'
    BY <1>7, ExceptionTypes DEF StoppedRaises, TypeOK, Exceptions
  <2>2. Attempted'
    BY <1>7 DEF StoppedRaises, Attempted, ledger
  <2>3. QED
    BY <2>1, <2>2
<1>8. CASE MutationRaises
  <2>1. cells' \in [Keys -> Cell]
    BY <1>8, RowTypes DEF MutationRaises
  <2>2. faults' \in 0..MaxFaults
    BY <1>8, FaultTypes DEF MutationRaises
  <2>3. TypeOK'
    BY <1>8, <2>1, <2>2, ExceptionTypes DEF MutationRaises, Exceptions
  <2>4. Attempted'
    BY <1>8 DEF MutationRaises, Attempted, ledger
  <2>5. QED
    BY <2>3, <2>4
<1>9. CASE MultiGet
  <2>1. /\ DOMAIN values' \subseteq Keys /\ Range(values') \subseteq Cell
        /\ DOMAIN cache' \subseteq Keys /\ Range(cache') \subseteq Cell
    BY <1>9, GetTypes DEF TypeOK, Range
  <2>2. QED
    BY <1>9, <2>1 DEF MultiGet, TypeOK, Attempted, config, ledger
<1>10. CASE MultiPut
  <2>1. cells' \in [Keys -> Cell]
    BY <1>10, RowTypes DEF MultiPut
  <2>2. DOMAIN cache' \subseteq Keys /\ Range(cache') \subseteq Cell
    BY <1>10 DEF MultiPut, CachePut, TypeOK, Range
  <2>3. QED
    BY <1>10, <2>1, <2>2 DEF MultiPut, TypeOK, Attempted, config, ledger
<1>11. CASE MultiPutRaises
  <2>1. /\ cells' \in [Keys -> Cell]
        /\ WorkerDies /\ Fault /\ UNCHANGED <<config, ledger, expired>>
    BY <1>11, RowTypes DEF MultiPutRaises
  <2>2. QED
    BY <2>1, EndTypes, FaultTypes DEF Attempted, WorkerDies, GiveUp
<1>12. CASE StopClient
  BY <1>12, FaultTypes DEF StopClient, TypeOK, Attempted, config, attempt, ledger
<1>13. ASSUME NEW k \in Keys, Evict(k) PROVE TypeOK' /\ Attempted'
  <2>1. DOMAIN cache' \subseteq Keys /\ Range(cache') \subseteq Cell
    BY <1>13 DEF Evict, Restrict, TypeOK, Range
  <2>2. QED
    BY <1>13, <2>1 DEF Evict, TypeOK, Attempted, config, attempt, ledger
<1>14. ASSUME NEW k \in Keys, Expire(k) PROVE TypeOK' /\ Attempted'
  <2>1. cells' \in [Keys -> Cell]
    BY <1>14 DEF Expire, TypeOK, NoRow, Cell
  <2>2. QED
    BY <1>14, <2>1, FaultTypes DEF Expire, TypeOK, Attempted, config, attempt, ledger
<1>15. CASE UNCHANGED vars
  BY <1>15 DEF vars, TypeOK, Attempted, config, attempt, ledger
<1>16. QED
  BY <1>1, <1>2, <1>3, <1>4, <1>5, <1>6, <1>7, <1>8, <1>9, <1>10, <1>11, <1>12, <1>13,
     <1>14, <1>15 DEF Next, Update

\* The initial states have their types, and no attempt.
LEMMA InitTypes ==
  ASSUME Init
  PROVE  TypeOK /\ Attempted
<1>1. handler \in [Exceptions -> Actions] /\ maxBatchSize \in Int
  <2>1. [e \in Exceptions |-> "KILL_WORKER"] \in [Exceptions -> Actions]
    BY DEF Actions
  <2>2. CASE kind = "tuples"
    BY <2>2, ChoiceAssumption DEF Init
  <2>3. CASE kind # "tuples"
    <3>1. handler = [e \in Exceptions |-> "KILL_WORKER"] /\ maxBatchSize = 0
      BY <2>3 DEF Init
    <3>2. QED
      BY <2>1, <3>1
  <2>4. QED
    BY <2>2, <2>3
<1>2. tx \in 1..(MaxTx + 1) /\ faults \in 0..MaxFaults
  BY TridentBounds DEF Init
<1>3. done \in 0..Len(batch)
  BY EmptySeq DEF Init
<1>4. cells \in [Keys -> Cell] /\ counted \in [Keys -> Nat]
  BY DEF Init, NoRow, Cell
<1>5. QED
  BY <1>1, <1>2, <1>3, <1>4, NothingEmpty DEF Init, TypeOK, Attempted

\* Every state of either Trident state has its type: a sublist never ends behind
\* the batch, and no batch is attempted beyond the last.
THEOREM TypeCorrect == Spec => []TypeOK
<1> DEFINE Typed == TypeOK /\ Attempted
<1>1. Init => Typed
  BY InitTypes
<1>2. Typed /\ [Next]_vars => Typed'
  BY TypeStep
<1>3. QED
  BY <1>1, <1>2, PTL DEF Spec

-----------------------------------------------------------------------------
(* Every tuple of a committed batch is counted once. *)

\* A cell that is a row of the key: it has the committed count, and what this
\* batch has of the key if this batch wrote it.
Sound(k, c) ==
  IF kind = "nontransactional"
    THEN c.tx = 0 /\ c.curr >= counted[k]
    ELSE /\ c.tx <= tx
         /\ c.curr = counted[k] + (IF c.tx = tx THEN Amount(k, batch) ELSE 0)
         /\ c.tx = tx => batch # <<>>
         /\ kind = "opaque" /\ c.tx = tx => c.prev = counted[k]

\* One that has what this batch has of the key.
Updated(k, c) ==
  IF kind = "nontransactional"
    THEN c.tx = 0 /\ c.curr >= counted[k] + Amount(k, batch)
    ELSE Sound(k, c) /\ c.tx = tx

\* Keys of the batch the attempt has nothing left to put under.
Settled(k) ==
  /\ k \in KeysOf(batch)
  /\ pc = "done" \/ (pc = "put" /\ k \notin DOMAIN values)

\* The row of a key: what the cache has of it, what it is now, what the attempt
\* is about to make of it.
RowInv(k) ==
  /\ Lookup(k) = cells[k]
  /\ Sound(k, cells[k])
  /\ pc = "put" /\ k \in DOMAIN values => Updated(k, values[k])
  /\ Settled(k) => Updated(k, cells[k])

CountInv == kind \in MapKinds => \A k \in Keys \ expired : RowInv(k)

\* An updated row is sound.
LEMMA UpdatedIsSound ==
  ASSUME TypeOK, NEW k \in Keys, NEW c \in Cell, Updated(k, c)
  PROVE  Sound(k, c)
<1>1. Amount(k, batch) \in Nat /\ counted[k] \in Nat /\ c.curr \in Nat
  BY AmountNat DEF TypeOK, Cell
<1>2. QED
  BY <1>1 DEF Updated, Sound

\* multiUpdate of each map makes of a sound row an updated one: the transactional
\* map only of a row this batch has not written, the opaque map from the value
\* before if it has.
LEMMA UpdateCounts ==
  ASSUME TypeOK, kind \in MapKinds, batch # <<>>, NEW k \in Keys, NEW c \in Cell,
         Sound(k, c), kind = "transactional" => c.tx # tx
  PROVE  Updated(k, UpdateValue(c, Amount(k, batch)))
<1> DEFINE n == Amount(k, batch)
           u == UpdateValue(c, n)
<1>1. n \in Nat /\ counted[k] \in Nat /\ tx \in Nat /\ c.curr \in Nat /\ c.prev \in Nat /\ c.tx \in Nat
  BY AmountNat, TridentBounds DEF TypeOK, Cell
<1>2. CASE kind = "nontransactional"
  <2>1. u.curr = c.curr + n /\ u.tx = 0
    BY <1>1, <1>2, UpdateIsCell
  <2>2. c.curr >= counted[k]
    BY <1>2 DEF Sound
  <2> HIDE DEF n, u
  <2>3. u.tx = 0 /\ u.curr >= counted[k] + n
    BY <1>1, <2>1, <2>2
  <2>4. QED
    BY <1>2, <2>3 DEF Updated, n, u
<1>3. CASE kind = "transactional"
  <2>1. u.curr = c.curr + n /\ u.tx = tx
    BY <1>1, <1>3, UpdateIsCell
  <2>2. c.curr = counted[k]
    BY <1>1, <1>3 DEF Sound
  <2> HIDE DEF n, u
  <2>3. u.tx = tx /\ u.tx <= tx /\ u.curr = counted[k] + n
    BY <1>1, <2>1, <2>2
  <2>4. QED
    BY <1>3, <2>3 DEF Updated, Sound, n, u
<1>4. CASE kind = "opaque"
  <2> DEFINE base == IF c.tx = tx THEN c.prev ELSE c.curr
  <2>1. u = [tx |-> tx, curr |-> base + n, prev |-> base]
    BY <1>1, <1>4, UpdateIsCell
  <2>2. base = counted[k]
    BY <1>1, <1>4 DEF Sound
  <2> HIDE DEF n, u
  <2>3. u.tx = tx /\ u.tx <= tx /\ u.curr = counted[k] + n /\ u.prev = counted[k]
    BY <1>1, <2>1, <2>2
  <2>4. QED
    BY <1>4, <2>3 DEF Updated, Sound, n, u
<1>5. QED
  BY <1>2, <1>3, <1>4 DEF MapKinds

\* Rows and cache only change by a put, a fetch, an eviction or the end of the
\* worker; the row that is found is what the table has.
LEMMA PutCounts ==
  ASSUME TypeOK, CountInv, kind \in MapKinds, pc = "put", UNCHANGED <<config, ledger, expired>>,
         NEW ks \in SUBSET DOMAIN values, cells' = PutBy(ks),
         NEW k \in Keys \ expired
  PROVE  /\ cells'[k] = IF k \in ks THEN values[k] ELSE cells[k]
         /\ cells'[k] \in Cell
         /\ Sound(k, cells'[k])
         /\ k \in ks => Updated(k, cells'[k])
<1>1. cells'[k] = IF k \in ks THEN values[k] ELSE cells[k]
  BY DEF PutBy
<1>2. cells'[k] \in Cell
  BY RowTypes
<1>3. RowInv(k)
  BY DEF CountInv
<1>4. k \in ks => Updated(k, cells'[k])
  BY <1>1, <1>3 DEF RowInv
<1>5. k \notin ks => Sound(k, cells'[k])
  BY <1>1, <1>3 DEF RowInv
<1>6. QED
  BY <1>1, <1>2, <1>4, <1>5, UpdatedIsSound

\* An attempt that ends keeps the rows, if what is left in the cache agrees.
LEMMA EndCounts ==
  ASSUME CountInv, GiveUp, UNCHANGED <<config, ledger>>,
         expired' = expired,
         NEW k \in Keys \ expired, kind \in MapKinds,
         Sound(k, cells'[k]), Lookup(k)' = cells'[k]
  PROVE  RowInv(k)'
<1>1. pc' = "idle"
  BY DEF GiveUp
<1>2. UNCHANGED <<kind, tx, batch, counted>>
  BY DEF config, ledger
<1>3. Sound(k, cells[k])'
  BY <1>2 DEF Sound
<1>4. QED
  BY <1>1, <1>3 DEF RowInv, Settled

\* Each step of the map states keeps what is said of a row.
LEMMA CountStep ==
  ASSUME TypeOK, Attempted, CountInv, [Next]_vars
  PROVE  CountInv'
<1> SUFFICES ASSUME kind' \in MapKinds, NEW k \in Keys \ expired'
             PROVE  RowInv(k)'
  BY DEF CountInv
<1>1. kind' = kind /\ expired \subseteq expired'
  BY DEF Next, vars, Update, config, Attempt, FailsElsewhere, Commit, Crash, WriteTuples,
     MappingRaises, StoppedRaises, MultiGet, MultiPut, MutationRaises, MultiPutRaises,
     StopClient, Evict, Expire
<1>2. RowInv(k) /\ kind \in MapKinds /\ kind # "tuples" /\ k \in Keys \ expired
  BY <1>1 DEF CountInv, MapKinds
<1>3. Lookup(k) = cells[k] /\ Sound(k, cells[k]) /\ cells[k] \in Cell
  BY <1>2 DEF RowInv, TypeOK
<1>4. CASE Attempt
  <2>1. UNCHANGED <<kind, tx, counted, values, cells, cache>> /\ pc' = "update"
    BY <1>4 DEF Attempt, config
  <2>2. Lookup(k)' = cells'[k]
    BY <1>3, <2>1 DEF Lookup
  <2>3. Sound(k, cells[k])'
    <3>1. CASE batch' = batch
      BY <1>3, <2>1, <3>1 DEF Sound
    <3>2. CASE batch = <<>> /\ kind = "nontransactional"
      BY <1>3, <2>1, <3>2 DEF Sound
    <3>3. CASE batch = <<>> /\ kind # "nontransactional"
      BY <1>3, <2>1, <3>3 DEF Sound
    <3>4. QED
      BY <1>4, <3>1, <3>2, <3>3 DEF Attempt
  <2>4. QED
    BY <2>1, <2>2, <2>3 DEF RowInv, Settled
<1>5. CASE FailsElsewhere
  <2>1. Lookup(k)' = cells'[k] /\ Sound(k, cells'[k])
    BY <1>3, <1>5 DEF FailsElsewhere, Lookup
  <2>2. QED
    BY <1>2, <1>5, <2>1, EndCounts DEF FailsElsewhere
<1>6. CASE Commit
  <2>1. /\ pc = "done" /\ pc' = "idle" /\ UNCHANGED <<kind, cells, cache>>
        /\ tx' = tx + 1 /\ batch' = <<>> /\ counted'[k] = counted[k] + Amount(k, batch)
    BY <1>2, <1>6 DEF Commit, GiveUp, config
  <2>2. Lookup(k)' = cells'[k]
    BY <1>3, <2>1 DEF Lookup
  <2>3. Amount(k, batch) \in Nat /\ counted[k] \in Nat /\ tx \in Nat /\ cells[k].tx \in Nat
    <3>1. Amount(k, batch) \in Nat
      BY AmountNat DEF TypeOK
    <3>2. counted[k] \in Nat /\ tx \in Nat
      BY <1>2, TridentBounds DEF TypeOK
    <3>3. QED
      BY <1>3, <3>1, <3>2 DEF Cell
  <2>4. k \in KeysOf(batch) => Updated(k, cells[k])
    BY <1>2, <2>1 DEF RowInv, Settled
  <2>5. k \notin KeysOf(batch) => Amount(k, batch) = 0
    BY AmountNat DEF TypeOK
  <2>6. CASE kind = "nontransactional"
    <3>1. cells[k].tx = 0 /\ cells[k].curr >= counted[k] + Amount(k, batch)
      BY <1>3, <2>3, <2>4, <2>5, <2>6 DEF Sound, Updated
    <3>2. QED
      BY <2>1, <2>2, <2>6, <3>1 DEF RowInv, Settled, Sound
  <2>7. CASE kind # "nontransactional"
    <3>1. cells[k].tx <= tx /\ cells[k].curr = counted[k] + Amount(k, batch)
      BY <1>3, <2>3, <2>4, <2>5, <2>7 DEF Sound, Updated
    <3>2. cells'[k].tx <= tx' /\ cells'[k].tx # tx' /\ cells'[k].curr = counted'[k] + 0
      BY <2>1, <2>3, <3>1
    <3>3. Sound(k, cells[k])'
      BY <2>1, <2>7, <3>2 DEF Sound
    <3>4. QED
      BY <2>1, <2>2, <3>3 DEF RowInv, Settled
  <2>8. QED
    BY <2>6, <2>7
<1>7. CASE Crash
  <2>1. Lookup(k)' = cells'[k] /\ Sound(k, cells'[k])
    BY <1>3, <1>7, NothingEmpty DEF Crash, WorkerDies, Lookup
  <2>2. QED
    BY <1>2, <1>7, <2>1, EndCounts DEF Crash, WorkerDies
<1>8. CASE MultiGet
  <2>1. UNCHANGED <<kind, tx, batch, counted, cells>> /\ pc' = "put" /\ pc = "update"
    BY <1>8 DEF MultiGet, config, ledger
  <2>2. /\ DOMAIN values' = Changed /\ Changed \subseteq KeysOf(batch)
        /\ k \in Changed => values'[k] = UpdateValue(Lookup(k), Amount(k, batch))
        /\ DOMAIN cache' = DOMAIN cache \union KeysOf(batch)
        /\ k \in DOMAIN cache' => cache'[k] = Lookup(k)
    BY <1>8, GetTypes
  <2>3. Lookup(k)' = cells'[k]
    BY <1>3, <2>1, <2>2 DEF Lookup
  <2>4. Sound(k, cells[k])'
    BY <1>3, <2>1 DEF Sound
  <2>5. k \in Changed => (kind = "transactional" => cells[k].tx # tx)
    BY <1>3 DEF Changed
  <2>6. k \in Changed => Updated(k, values'[k])
    BY <1>2, <1>3, <2>1, <2>2, <2>5, UpdateCounts DEF Attempted
  <2>7. k \in KeysOf(batch) \ Changed => Updated(k, cells[k])
    BY <1>3 DEF Changed, Updated
  <2>8. k \in Changed => Updated(k, values[k])'
    BY <2>1, <2>6 DEF Updated, Sound
  <2>9. k \in KeysOf(batch) \ Changed => Updated(k, cells[k])'
    BY <2>1, <2>7 DEF Updated, Sound
  <2>10. QED
    BY <2>1, <2>2, <2>3, <2>4, <2>8, <2>9 DEF RowInv, Settled, KeysOf
<1>9. CASE MultiPut
  <2> DEFINE ks == DOMAIN values
  <2>1. UNCHANGED <<config, ledger, values, expired>> /\ pc = "put" /\ pc' = "done"
        /\ cells' = PutBy(ks) /\ cache' = CachePut
    BY <1>9 DEF MultiPut
  <2>2. UNCHANGED <<kind, tx, batch, counted>>
    BY <2>1 DEF config, ledger
  <2>3. /\ cells'[k] = IF k \in ks THEN values[k] ELSE cells[k]
        /\ cells'[k] \in Cell /\ Sound(k, cells'[k])
        /\ k \in ks => Updated(k, cells'[k])
    BY <1>2, <2>1, PutCounts
  <2>4. Lookup(k)' = cells'[k]
    BY <1>3, <2>1, <2>3 DEF Lookup, CachePut
  <2>5. k \in KeysOf(batch) \ ks => Updated(k, cells[k])
    BY <1>2, <2>1 DEF RowInv, Settled
  <2>6. k \in KeysOf(batch) => Updated(k, cells'[k])
    BY <2>3, <2>5
  <2>7. /\ Sound(k, cells[k])'
        /\ k \in KeysOf(batch) => Updated(k, cells[k])'
    BY <2>2, <2>3, <2>6 DEF Sound, Updated
  <2>8. QED
    BY <2>1, <2>2, <2>4, <2>7 DEF RowInv, Settled
<1>10. CASE MultiPutRaises
  <2>1. PICK ks \in SUBSET DOMAIN values : cells' = PutBy(ks)
    BY <1>10 DEF MultiPutRaises
  <2>2. UNCHANGED <<config, ledger, expired>> /\ pc = "put" /\ GiveUp /\ cache' = Nothing
    BY <1>10 DEF MultiPutRaises, WorkerDies
  <2>3. Sound(k, cells'[k])
    BY <1>2, <2>1, <2>2, PutCounts
  <2>4. Lookup(k)' = cells'[k]
    BY <2>2, NothingEmpty DEF Lookup
  <2>5. QED
    BY <1>2, <2>2, <2>3, <2>4, EndCounts
<1>11. ASSUME UNCHANGED <<kind, tx, batch, counted, values, pc>>,
              cells'[k] = cells[k], Lookup(k)' = Lookup(k)
       PROVE  RowInv(k)'
  BY <1>2, <1>11 DEF RowInv, Settled, Sound, Updated
<1>12. CASE StopClient
  BY <1>11, <1>12 DEF StopClient, config, attempt, ledger, Lookup
<1>13. ASSUME NEW j \in Keys, Evict(j) PROVE RowInv(k)'
  <2>1. Lookup(k)' = Lookup(k)
    BY <1>3, <1>13 DEF Evict, Restrict, Lookup
  <2>2. QED
    BY <1>11, <1>13, <2>1 DEF Evict, config, attempt, ledger
<1>14. ASSUME NEW j \in Keys, Expire(j) PROVE RowInv(k)'
  <2>1. k # j
    BY <1>14 DEF Expire
  <2>2. cells'[k] = cells[k] /\ cache' = cache
    BY <1>2, <1>14, <2>1 DEF Expire, TypeOK
  <2>3. Lookup(k)' = Lookup(k)
    BY <2>2 DEF Lookup
  <2>4. QED
    BY <1>11, <1>14, <2>2, <2>3 DEF Expire, config, attempt, ledger
<1>15. CASE UNCHANGED vars
  BY <1>11, <1>15 DEF vars, config, attempt, ledger, Lookup
<1>16. QED
  BY <1>2, <1>4, <1>5, <1>6, <1>7, <1>8, <1>9, <1>10, <1>12, <1>13, <1>14, <1>15
     DEF Next, Update, WriteTuples, MappingRaises, StoppedRaises, MutationRaises

\* Between two batches the row of a key, and what the cache has of it, is the
\* count of the committed batches, or for a non-transactional map at least that:
\* no crash, partial write or replay counts a tuple of the other two maps again.
THEOREM CountsOnce == Spec => []CountedOnce
<1> DEFINE Counts == TypeOK /\ Attempted /\ CountInv
<1>1. Init => Counts
  <2> SUFFICES ASSUME Init PROVE Counts
    OBVIOUS
  <2>1. TypeOK /\ Attempted
    BY InitTypes
  <2>2. ASSUME NEW k \in Keys PROVE RowInv(k)
    <3>1. /\ cells[k] = NoRow /\ counted[k] = 0 /\ tx = 1 /\ pc = "idle" /\ batch = <<>>
          /\ cache = Nothing
      BY DEF Init
    <3>2. Lookup(k) = cells[k]
      BY <3>1, NothingEmpty DEF Lookup
    <3>3. Sound(k, cells[k])
      BY <3>1 DEF Sound, NoRow
    <3>4. QED
      BY <3>1, <3>2, <3>3 DEF RowInv, Settled
  <2>3. QED
    BY <2>1, <2>2 DEF CountInv
<1>2. Counts /\ [Next]_vars => Counts'
  BY TypeStep, CountStep
<1>3. Counts => CountedOnce
  <2> SUFFICES ASSUME Counts, kind \in MapKinds, batch = <<>>, NEW k \in Keys \ expired
               PROVE  /\ Lookup(k) = cells[k]
                      /\ IF kind = "nontransactional" THEN cells[k].curr >= counted[k]
                                                     ELSE cells[k].curr = counted[k]
    BY DEF CountedOnce
  <2>1. Lookup(k) = cells[k] /\ Sound(k, cells[k])
    BY DEF CountInv, RowInv
  <2>2. counted[k] \in Nat
    BY DEF TypeOK
  <2>3. QED
    BY <2>1, <2>2 DEF Sound
<1>4. QED
  BY <1>1, <1>2, <1>3, PTL DEF Spec

-----------------------------------------------------------------------------
(* What CassandraState says it wrote, it wrote. *)

\* Division by a positive number.
LEMMA DivBounds ==
  ASSUME NEW x \in Int, NEW m \in Int, m > 0, NEW q \in Int
  PROVE  /\ x >= q * m => x \div m >= q
         /\ x < q * m + m => x \div m <= q
<1> DEFINE d == x \div m
           r == x % m
<1>1. d \in Int /\ r \in 0..(m - 1) /\ x = m * d + r
  OBVIOUS
<1> HIDE DEF d, r
<1>2. ASSUME x >= q * m, d < q PROVE FALSE
  <2>1. d + 1 <= q
    BY <1>1, <1>2
  <2>2. m * (d + 1) <= m * q
    BY <1>1, <2>1
  <2>3. QED
    BY <1>1, <1>2, <2>2
<1>3. ASSUME x < q * m + m, d > q PROVE FALSE
  <2>1. d >= q + 1
    BY <1>1, <1>3
  <2>2. m * d >= m * (q + 1)
    BY <1>1, <2>1
  <2>3. QED
    BY <1>1, <1>3, <2>2
<1>4. QED
  BY <1>1, <1>2, <1>3 DEF d

\* The sublists an attempt has written are whole ones, until the last.
Aligned == done = 0 \/ (maxBatchSize > 0 /\ \E q \in Int : done = q * maxBatchSize)

\* A tuple of the batch cannot be mapped, and what is in the sublists before its
\* own is written.
Stuck ==
  \E j \in DOMAIN batch :
    batch[j] \in Unmappable /\ \A i \in DOMAIN batch : Part(i) < Part(j) => i <= done

Faithful == handler["connection"] \notin Ignoring /\ handler["stopped"] \notin Ignoring

\* What this attempt has written, and why it is where it is.
WriteInv ==
  kind = "tuples" =>
    /\ \A i \in 1..done : cells[batch[i]].tx = tx
    /\ pc # "put"
    /\ pc = "idle" => done = 0 /\ emitted = FALSE
    /\ pc = "update" => Aligned
    /\ emitted = TRUE => done = Len(batch)
    /\ pc = "done" /\ Faithful => done = Len(batch) \/ Stuck

\* A write leaves a row as it was or makes it one of this batch.
LEMMA WrittenRows ==
  ASSUME TypeOK, NEW is, cells' = WrittenBy(is)
  PROVE  /\ \A k \in Keys : cells'[k].tx = tx \/ cells'[k] = cells[k]
         /\ \A i \in DOMAIN batch : i \in is => cells'[batch[i]].tx = tx
<1>1. [NoRow EXCEPT !.tx = tx].tx = tx
  <2>1. [NoRow EXCEPT !.tx = tx] = [tx |-> tx, curr |-> 0, prev |-> 0]
    BY DEF NoRow
  <2>2. QED
    BY <2>1
<1>2. \A k \in Keys : cells'[k] = IF \E i \in is : batch[i] = k THEN [NoRow EXCEPT !.tx = tx] ELSE cells[k]
  BY DEF WrittenBy
<1>3. \A i \in DOMAIN batch : batch[i] \in Keys
  BY BatchIsSeq DEF TypeOK
<1>4. QED
  BY <1>1, <1>2, <1>3

\* A sublist that is not the last is whole; one that is ends with the batch.
LEMMA SublistAligned ==
  ASSUME TypeOK, Aligned
  PROVE  LET end == done + Cardinality(Sublist)
         IN  /\ Sublist = (done + 1)..end
             /\ end = Len(batch) \/ (maxBatchSize > 0 /\ \E q \in Int : end = q * maxBatchSize)
<1> DEFINE m == maxBatchSize
<1>1. Len(batch) \in Nat /\ DOMAIN batch = 1..Len(batch)
  BY BatchIsSeq DEF TypeOK
<1>2. done \in 0..Len(batch) /\ m \in Int
  BY DEF TypeOK
<1>3. CASE m > 0 /\ done + m <= Len(batch)
  <2>1. Sublist = (done + 1)..(done + m) /\ done + Cardinality(Sublist) = done + m
    BY <1>3, SublistCount DEF Sublist
  <2>2. PICK q \in Int : done = q * m
    <3>1. 0 = 0 * m
      BY <1>2
    <3>2. QED
      BY <3>1 DEF Aligned
  <2>3. q + 1 \in Int /\ done + m = (q + 1) * m
    BY <1>2, <2>2
  <2>4. QED
    BY <1>3, <2>1, <2>3
<1>4. CASE ~(m > 0 /\ done + m <= Len(batch))
  <2>1. Sublist = (done + 1)..Len(batch) /\ done + Cardinality(Sublist) = Len(batch)
    BY <1>4, SublistCount DEF Sublist
  <2>2. QED
    BY <2>1
<1>5. QED
  BY <1>3, <1>4

\* When the mapper raises on a tuple of the sublist, what is in the sublists
\* before is written.
LEMMA MappingIsStuck ==
  ASSUME TypeOK, Aligned, ~Mappable(Sublist)
  PROVE  Stuck
<1> DEFINE m == maxBatchSize
<1>1. Len(batch) \in Nat /\ DOMAIN batch = 1..Len(batch)
  BY BatchIsSeq DEF TypeOK
<1>2. done \in 0..Len(batch) /\ m \in Int
  BY DEF TypeOK
<1>3. PICK j \in Sublist : batch[j] \in Unmappable
  BY DEF Mappable
<1>4. j \in DOMAIN batch
  BY SublistCount
<1>5. ASSUME NEW i \in DOMAIN batch, Part(i) < Part(j), i > done
      PROVE  FALSE
  <2>1. m > 0
    BY <1>2, <1>5 DEF Part
  <2>2. PICK q \in Int : done = q * m
    <3>1. 0 = 0 * m
      BY <1>2
    <3>2. QED
      BY <3>1 DEF Aligned
  <2>3. j \in Int /\ i \in Int /\ j - 1 < q * m + m
    <3>1. CASE done + m <= Len(batch)
      BY <1>1, <1>2, <1>3, <1>5, <2>1, <2>2, <3>1 DEF Sublist
    <3>2. CASE done + m > Len(batch)
      BY <1>1, <1>2, <1>4, <1>5, <2>2, <3>2
    <3>3. QED
      BY <1>1, <1>2, <3>1, <3>2
  <2>4. i - 1 >= q * m
    BY <1>5, <2>2, <2>3, <1>2
  <2>5. (i - 1) \div m >= q /\ (j - 1) \div m <= q
    BY <1>2, <2>1, <2>3, <2>4, DivBounds
  <2>6. (i - 1) \div m < (j - 1) \div m
    BY <1>5, <2>1 DEF Part
  <2>7. (i - 1) \div m \in Int /\ (j - 1) \div m \in Int
    BY <1>2, <2>1, <2>3
  <2>8. QED
    BY <2>5, <2>6, <2>7
<1>6. \A i \in DOMAIN batch : Part(i) < Part(j) => i <= done
  BY <1>1, <1>2, <1>5
<1>7. QED
  BY <1>3, <1>4, <1>6 DEF Stuck

\* An exception that a task survives ends the attempt, or what it has written
\* of the batch stays as it is and counts as done.
LEMMA ExceptionOutcomes ==
  ASSUME NEW e \in Exceptions, OnException(e)
  PROVE  \/ GiveUp
         \/ handler[e] \in Ignoring /\ pc' = "done" /\ UNCHANGED <<done, emitted>>
  BY DEF OnException, WorkerDies

\* Each step of CassandraState keeps what is said of its writes.
LEMMA WriteStep ==
  ASSUME TypeOK, Attempted, WriteInv, [Next]_vars
  PROVE  WriteInv'
<1> SUFFICES ASSUME kind' = "tuples" PROVE WriteInv'
  BY DEF WriteInv
<1>1. kind' = kind /\ kind = "tuples" /\ kind \notin MapKinds
  BY DEF Next, vars, Update, config, Attempt, FailsElsewhere, Commit, Crash, WriteTuples,
     MappingRaises, StoppedRaises, MultiGet, MultiPut, MutationRaises, MultiPutRaises,
     StopClient, Evict, Expire, MapKinds
<1>2. /\ \A i \in 1..done : cells[batch[i]].tx = tx
      /\ pc # "put"
      /\ pc = "idle" => done = 0 /\ emitted = FALSE
      /\ pc = "update" => Aligned
      /\ emitted = TRUE => done = Len(batch)
      /\ pc = "done" /\ Faithful => done = Len(batch) \/ Stuck
  BY <1>1 DEF WriteInv
<1>3. DOMAIN batch = 1..Len(batch) /\ Len(batch) \in Nat /\ done \in 0..Len(batch)
      /\ \A i \in 1..Len(batch) : batch[i] \in Keys
  BY BatchIsSeq DEF TypeOK
<1>4. ASSUME GiveUp PROVE WriteInv'
  <2>1. pc' = "idle" /\ done' = 0 /\ emitted' = FALSE
    BY <1>4 DEF GiveUp
  <2>2. QED
    BY <2>1 DEF WriteInv
<1>5. ASSUME UNCHANGED <<config, batch, tx, done>>,
             \A k \in Keys : cells'[k].tx = tx \/ cells'[k] = cells[k],
             pc' = "done", emitted' = emitted, Faithful => Stuck
      PROVE  WriteInv'
  <2>1. UNCHANGED <<kind, handler, maxBatchSize, batch, tx, done, emitted>>
    BY <1>5 DEF config
  <2>2. \A i \in 1..done : cells'[batch[i]].tx = tx
    BY <1>2, <1>3, <1>5
  <2>3. Faithful' => Stuck'
    BY <1>5, <2>1 DEF Faithful, Stuck, Part
  <2>4. QED
    BY <1>2, <1>5, <2>1, <2>2, <2>3 DEF WriteInv
<1>6. CASE Attempt
  <2>1. done = 0 /\ done' = 0 /\ emitted' = FALSE /\ pc' = "update"
    BY <1>2, <1>6 DEF Attempt
  <2>2. QED
    BY <2>1 DEF WriteInv, Aligned
<1>7. CASE WriteTuples
  <2>1. /\ cells' = WrittenBy(Sublist) /\ done' = done + Cardinality(Sublist) /\ Aligned
        /\ UNCHANGED <<batch, tx, maxBatchSize, handler>>
    BY <1>2, <1>7 DEF WriteTuples, ledger, config
  <2>2. /\ Sublist = (done + 1)..done'
        /\ done' = Len(batch) \/ (maxBatchSize > 0 /\ \E q \in Int : done' = q * maxBatchSize)
        /\ done' \in 0..Len(batch)
    BY <2>1, SublistAligned, SublistCount
  <2>3. \A i \in 1..done' : cells'[batch[i]].tx = tx
    <3>1. /\ \A k \in Keys : cells'[k].tx = tx \/ cells'[k] = cells[k]
          /\ \A i \in DOMAIN batch : i \in Sublist => cells'[batch[i]].tx = tx
      BY <2>1, WrittenRows
    <3>2. ASSUME NEW i \in 1..done' PROVE cells'[batch[i]].tx = tx
      <4>1. i \in DOMAIN batch /\ batch[i] \in Keys /\ (i \in 1..done \/ i \in Sublist)
        BY <1>3, <2>2
      <4>2. QED
        BY <1>2, <3>1, <4>1
    <3>3. QED
      BY <3>2
  <2>4. CASE done' = Len(batch)
    <3>1. pc' = "done" /\ batch' = batch /\ tx' = tx
      BY <1>7, <2>1, <2>4 DEF WriteTuples
    <3>2. QED
      BY <2>3, <2>4, <3>1 DEF WriteInv
  <2>5. CASE done' # Len(batch)
    <3>1. pc' = "update" /\ emitted' = emitted /\ batch' = batch /\ tx' = tx
      BY <1>7, <2>1, <2>5 DEF WriteTuples
    <3>2. Aligned'
      BY <2>1, <2>2, <2>5 DEF Aligned
    <3>3. emitted = TRUE => FALSE
      <4>1. emitted = TRUE => done = Len(batch)
        BY <1>2
      <4>2. done = Len(batch) => done' = Len(batch)
        <5>1. done = Len(batch) => Sublist = {}
          BY <1>3, <2>2
        <5>2. Sublist = {} => done' = done
          BY <1>3, <2>1, FS_EmptySet
        <5>3. QED
          BY <5>1, <5>2
      <4>3. QED
        BY <2>5, <4>1, <4>2
    <3>4. QED
      BY <2>3, <3>1, <3>2, <3>3 DEF WriteInv
  <2>6. QED
    BY <2>4, <2>5
<1>8. CASE MappingRaises
  <2>1. /\ OnException("mapping") /\ Stuck /\ UNCHANGED <<config, batch, tx, cells>>
    BY <1>2, <1>8, MappingIsStuck DEF MappingRaises, ledger
  <2>2. QED
    BY <1>4, <1>5, <2>1, ExceptionOutcomes DEF Exceptions
<1>9. CASE StoppedRaises
  <2>1. OnException("stopped") /\ UNCHANGED <<config, batch, tx, cells>>
    BY <1>9 DEF StoppedRaises, ledger
  <2>2. handler["stopped"] \in Ignoring => ~Faithful
    BY DEF Faithful
  <2>3. QED
    BY <1>4, <1>5, <2>1, <2>2, ExceptionOutcomes DEF Exceptions
<1>10. CASE MutationRaises
  <2>1. OnException("connection") /\ UNCHANGED <<config, batch, tx>>
    BY <1>10 DEF MutationRaises, ledger
  <2>2. \A k \in Keys : cells'[k].tx = tx \/ cells'[k] = cells[k]
    BY <1>10, WrittenRows DEF MutationRaises
  <2>3. handler["connection"] \in Ignoring => ~Faithful
    BY DEF Faithful
  <2>4. QED
    BY <1>4, <1>5, <2>1, <2>2, <2>3, ExceptionOutcomes DEF Exceptions
<1>11. CASE UNCHANGED <<config, attempt, ledger, cells>>
  BY <1>11 DEF WriteInv, Aligned, Faithful, Stuck, Part, config, attempt, ledger
<1>12. QED
  BY <1>1, <1>2, <1>4, <1>6, <1>7, <1>8, <1>9, <1>10, <1>11
     DEF Next, Update, vars, FailsElsewhere, Commit, Crash, WorkerDies, MultiGet, MultiPut,
         MultiPutRaises, StopClient, Evict, Expire

\* CassandraState passes tuples on only when all of the batch are written; a
\* batch that counts as written is, but for the sublist of a tuple that could not
\* be mapped and those behind it, unless the handler ignores failed mutations.
THEOREM WritesAreSound == Spec => []WritesSound
<1> DEFINE Written == TypeOK /\ Attempted /\ WriteInv
<1>1. Init => Written
  <2> SUFFICES ASSUME Init PROVE Written
    OBVIOUS
  <2>1. pc = "idle" /\ done = 0 /\ emitted = FALSE
    BY DEF Init
  <2>2. WriteInv
    BY <2>1 DEF WriteInv
  <2>3. QED
    BY <2>2, InitTypes
<1>2. Written /\ [Next]_vars => Written'
  BY TypeStep, WriteStep
<1>3. Written => WritesSound
  <2> SUFFICES ASSUME Written PROVE DoneIsWritten /\ EmittedIsWritten
    BY DEF WritesSound
  <2>1. Len(batch) \in Nat /\ DOMAIN batch = 1..Len(batch) /\ done \in 0..Len(batch)
    BY BatchIsSeq DEF TypeOK
  <2>2. kind = "tuples" => \A i \in 1..done : cells[batch[i]].tx = tx
    BY DEF WriteInv
  <2>3. EmittedIsWritten
    <3> SUFFICES ASSUME kind = "tuples", emitted, NEW i \in DOMAIN batch
                 PROVE  cells[batch[i]].tx = tx
      BY DEF EmittedIsWritten
    <3>1. emitted = TRUE
      BY Zenon DEF TypeOK
    <3>2. done = Len(batch)
      BY <3>1 DEF WriteInv
    <3>3. QED
      BY <2>1, <2>2, <3>2
  <2>4. DoneIsWritten
    <3> SUFFICES ASSUME kind = "tuples", pc = "done", Faithful, NEW i \in DOMAIN batch,
                        \A j \in DOMAIN batch : batch[j] \in Unmappable => Part(i) < Part(j)
                 PROVE  cells[batch[i]].tx = tx
      BY DEF DoneIsWritten, Faithful
    <3>1. done = Len(batch) \/ Stuck
      BY DEF WriteInv
    <3>2. i <= done
      <4>1. Stuck => i <= done
        BY DEF Stuck
      <4>2. i \in 1..Len(batch)
        BY <2>1
      <4>3. done = Len(batch) => i <= done
        BY <2>1, <4>2
      <4>4. QED
        BY <3>1, <4>1, <4>3
    <3>3. QED
      BY <2>1, <2>2, <3>2
  <2>5. QED
    BY <2>3, <2>4
<1>4. QED
  BY <1>1, <1>2, <1>3, PTL DEF Spec
===============================================================================
