---------------------------- MODULE TridentState ----------------------------
(***************************************************************************)
(* The two Trident states of storm-cassandra, in one task of a topology    *)
(* whose spout replays a batch as it was.                                  *)
(*                                                                         *)
(* CassandraState writes a batch in sublists of maxBatchSize tuples, and   *)
(* leaves it to an ExceptionHandler what becomes of a batch when one of    *)
(* them raises.  CassandraMapState keeps counts under a CachedMap and a    *)
(* map of one of three types.                                              *)
(*                                                                         *)
(* Trident's coordinator and maps are external.  The coordinator lets a    *)
(* task update its state with one batch at a time, in the order of their   *)
(* txids, and repeats a batch that fails anywhere in the topology.         *)
(***************************************************************************)
EXTENDS Integers, Sequences, FiniteSets, Functions

CONSTANTS
  Keys,        \* what the tuples of a batch are written or counted under
  Unmappable,  \* those of them on which the tuple mapper raises
  Kinds,       \* "tuples" (CassandraState) and types of map states
  Handlers,    \* exception handlers CassandraState may be built with
  Sizes,       \* values of maxBatchSize
  MaxTx,       \* bound: batches
  MaxLength,   \* bound: tuples of a batch
  MaxFaults    \* bound: failures, crashes, stops of the client and expiries

\* What may be raised: by a mutation, by the tuple mapper, by a stopped client.
Exceptions == {"connection", "mapping", "stopped"}
Actions    == {"FAIL_TUPLE", "KILL_WORKER", "REPORT_ERROR", "LOG"}
Ignoring   == {"REPORT_ERROR", "LOG"}
MapKinds   == {"nontransactional", "transactional", "opaque"}

ASSUME KindsAssumption  == Kinds \subseteq MapKinds \union {"tuples"}
ASSUME KeysAssumption   == Unmappable \subseteq Keys
ASSUME ChoiceAssumption == Handlers \subseteq [Exceptions -> Actions] /\ Sizes \subseteq Int
ASSUME TridentBounds    == MaxTx \in Nat /\ MaxLength \in Nat \ {0} /\ MaxFaults \in Nat

VARIABLES
  kind, maxBatchSize,  \* how the topology was built
  handler,  \* and the action its handler takes on what is raised
  tx,       \* the batch the coordinator is at
  batch,    \* its tuples, empty until its first attempt
  pc,       \* where the task is
  done,     \* tuples of the sublists this attempt has written
  emitted,  \* this attempt has passed its tuples on
  values,   \* what multiUpdate puts
  cells,    \* the rows in Cassandra: the batch that wrote, value, value before
  cache,    \* CachedMap
  running,  \* the client all users in this worker share has not been stopped
  counted,  \* per key, its tuples in committed batches
  expired,  \* keys whose row has outlived its ttl
  faults

config  == <<kind, handler, maxBatchSize>>
attempt == <<pc, done, emitted, values>>
ledger  == <<tx, batch, counted>>
vars    == <<config, attempt, ledger, cells, cache, running, expired, faults>>

Cell  == [tx : Nat, curr : Nat, prev : Nat]
NoRow == [tx |-> 0, curr |-> 0, prev |-> 0]
Batches == UNION {[1..n -> Keys] : n \in 1..MaxLength}

TypeOK ==
  /\ kind \in Kinds /\ handler \in [Exceptions -> Actions] /\ maxBatchSize \in Int
  /\ tx \in 1..(MaxTx + 1)
  /\ batch \in Batches \union {<<>>}
  /\ pc \in {"idle", "update", "put", "done"}
  /\ done \in 0..Len(batch)
  /\ emitted \in BOOLEAN
  /\ DOMAIN values \subseteq Keys /\ Range(values) \subseteq Cell
  /\ cells \in [Keys -> Cell]
  /\ DOMAIN cache \subseteq Keys /\ Range(cache) \subseteq Cell
  /\ running \in BOOLEAN
  /\ counted \in [Keys -> Nat]
  /\ expired \subseteq Keys
  /\ faults \in 0..MaxFaults

Nothing == [k \in {} |-> NoRow]

Init ==
  /\ kind \in Kinds
  /\ IF kind = "tuples"
       THEN handler \in Handlers /\ maxBatchSize \in Sizes
       ELSE handler = [e \in Exceptions |-> "KILL_WORKER"] /\ maxBatchSize = 0
  /\ tx = 1 /\ batch = <<>>
  /\ pc = "idle" /\ done = 0 /\ emitted = FALSE /\ values = Nothing
  /\ cells = [k \in Keys |-> NoRow]
  /\ cache = Nothing
  /\ running = TRUE
  /\ counted = [k \in Keys |-> 0]
  /\ expired = {}
  /\ faults = 0

Fault == faults < MaxFaults /\ faults' = faults + 1

KeysOf(b)    == Range(b)
Amount(k, b) == Cardinality({i \in DOMAIN b : b[i] = k})

-----------------------------------------------------------------------------
(* The coordinator. *)

\* A batch is attempted: the first time with new tuples, then with the same.
Attempt ==
  /\ pc = "idle" /\ tx <= MaxTx
  /\ IF batch = <<>> THEN batch' \in Batches ELSE UNCHANGED batch
  /\ kind # "tuples" => KeysOf(batch') \intersect Unmappable = {}
  /\ pc' = "update"
  /\ UNCHANGED <<config, tx, counted, done, emitted, values, cells, cache, running, expired, faults>>

\* The attempt ends, and its locals with it.
GiveUp == pc' = "idle" /\ done' = 0 /\ emitted' = FALSE /\ values' = Nothing

\* The batch fails in another task, or times out.
FailsElsewhere ==
  /\ pc \in {"update", "done"} /\ Fault
  /\ GiveUp
  /\ UNCHANGED <<config, ledger, cells, cache, running, expired>>

\* Every task is done with the batch.
Commit ==
  /\ pc = "done"
  /\ counted' = [k \in Keys |-> counted[k] + Amount(k, batch)]
  /\ tx' = tx + 1 /\ batch' = <<>>
  /\ GiveUp
  /\ UNCHANGED <<config, cells, cache, running, expired, faults>>

\* The worker is started again: makeState makes a new state with a new cache,
\* and AstyanaxClientFactory a new client.
WorkerDies == GiveUp /\ cache' = Nothing /\ running' = TRUE

Crash ==
  /\ Fault
  /\ WorkerDies
  /\ UNCHANGED <<config, ledger, cells, expired>>

-----------------------------------------------------------------------------
(* CassandraState.update *)

\* A cut that leaves out the last, shorter sublist.
SublistWhole ==
  IF maxBatchSize <= 0 THEN (done + 1)..Len(batch)
    ELSE {i \in (done + 1)..(done + maxBatchSize) : done + maxBatchSize <= Len(batch)}

\* The next sublist; without a limit there is one.
Sublist ==
  IF maxBatchSize > 0 /\ done + maxBatchSize <= Len(batch)
    THEN (done + 1)..(done + maxBatchSize)
    ELSE (done + 1)..Len(batch)

\* The rows after some tuples of the batch were written.
WrittenBy(is) ==
  [k \in Keys |-> IF \E i \in is : batch[i] = k THEN [NoRow EXCEPT !.tx = tx] ELSE cells[k]]

Mappable(is) == \A i \in is : batch[i] \notin Unmappable

\* writeTuples: one mutation for each keyspace.  After the last sublist update
\* emits every tuple, if there is a limit.
WriteTuples ==
  /\ kind = "tuples" /\ pc = "update"
  /\ running /\ Mappable(Sublist)
  /\ cells' = WrittenBy(Sublist)
  /\ done' = done + Cardinality(Sublist)
  /\ IF done' = Len(batch)
       THEN pc' = "done" /\ emitted' = (maxBatchSize > 0)
       ELSE UNCHANGED <<pc, emitted>>
  /\ UNCHANGED <<config, ledger, values, cache, running, expired, faults>>

\* A handler that ignores what it was told to replay.
OnExceptionIgnores(e) ==
  \/ handler[e] = "KILL_WORKER" /\ WorkerDies
  \/ /\ handler[e] # "KILL_WORKER"
     /\ pc' = "done"
     /\ UNCHANGED <<done, emitted, values, cache, running>>

\* MappedExceptionHandler.onException; no handler is one that always fails.  What
\* is reported or logged ends update: the batch counts as written.
OnException(e) ==
  \/ /\ handler[e] = "FAIL_TUPLE" /\ GiveUp
     /\ UNCHANGED <<cache, running>>
  \/ handler[e] = "KILL_WORKER" /\ WorkerDies
  \/ /\ handler[e] \in Ignoring
     /\ pc' = "done"
     /\ UNCHANGED <<done, emitted, values, cache, running>>

\* The mapper raises on a tuple of the sublist, before any mutation is executed.
MappingRaises ==
  /\ kind = "tuples" /\ pc = "update" /\ ~Mappable(Sublist)
  /\ OnException("mapping")
  /\ UNCHANGED <<config, ledger, cells, expired, faults>>

\* A mutation raises: some keyspaces, and some rows of that one, were written.
MutationRaises ==
  /\ kind = "tuples" /\ pc = "update"
  /\ running /\ Mappable(Sublist) /\ Fault
  /\ \E is \in SUBSET Sublist : cells' = WrittenBy(is)
  /\ OnException("connection")
  /\ UNCHANGED <<config, ledger, expired>>

\* Somebody's cleanup has stopped the client the factory goes on handing out.
StoppedRaises ==
  /\ kind = "tuples" /\ pc = "update" /\ ~running /\ Mappable(Sublist)
  /\ OnException("stopped")
  /\ UNCHANGED <<config, ledger, cells, expired, faults>>

\* A function of the worker that was given the same client is cleaned up.
StopClient ==
  /\ kind = "tuples" /\ running /\ Fault
  /\ running' = FALSE
  /\ UNCHANGED <<config, attempt, ledger, cells, cache, expired>>

-----------------------------------------------------------------------------
(* CassandraMapState under CachedMap and a map of Trident. *)

\* CachedMap.multiGet: what is cached, else the row; no row is a count of zero.
Lookup(k) == IF k \in DOMAIN cache THEN cache[k] ELSE cells[k]

\* multiUpdate of the three maps, adding n; an opaque value this batch has written
\* is computed again from the value before.
UpdateValue(old, n) ==
  CASE kind = "nontransactional" -> [NoRow EXCEPT !.curr = old.curr + n]
    [] kind = "transactional" -> [tx |-> tx, curr |-> old.curr + n, prev |-> 0]
    [] kind = "opaque" ->
         LET base == IF old.tx = tx THEN old.prev ELSE old.curr
         IN [tx |-> tx, curr |-> base + n, prev |-> base]

\* A transactional value this batch has written stays and is not put again.
Changed == {k \in KeysOf(batch) : kind = "transactional" => Lookup(k).tx # tx}

\* multiGet; the cache keeps what was fetched.
MultiGet ==
  /\ kind \in MapKinds /\ pc = "update"
  /\ values' = [k \in Changed |-> UpdateValue(Lookup(k), Amount(k, batch))]
  /\ cache' = [k \in DOMAIN cache \union KeysOf(batch) |-> Lookup(k)]
  /\ pc' = "put"
  /\ UNCHANGED <<config, ledger, done, emitted, cells, running, expired, faults>>

\* The rows after some of the values were put.
PutBy(ks) == [k \in Keys |-> IF k \in ks THEN values[k] ELSE cells[k]]

\* CachedMap.multiPut fills the cache, then calls multiPut of the state.
CachePut == [k \in DOMAIN cache \union DOMAIN values |->
               IF k \in DOMAIN values THEN values[k] ELSE cache[k]]

MultiPut ==
  /\ pc = "put"
  /\ cells' = PutBy(DOMAIN values)
  /\ cache' = CachePut
  /\ pc' = "done"
  /\ UNCHANGED <<config, ledger, done, emitted, values, running, expired, faults>>

\* A multiPut that raises FailedException: the batch is replayed, the cache stays.
MultiPutFailsBatch ==
  /\ pc = "put" /\ Fault
  /\ \E ks \in SUBSET DOMAIN values : cells' = PutBy(ks)
  /\ cache' = CachePut
  /\ GiveUp
  /\ UNCHANGED <<config, ledger, running, expired>>

\* The mutation raises after some rows were written.  multiPut makes a
\* RuntimeException of it, which no executor survives.
MultiPutRaises ==
  /\ pc = "put" /\ Fault
  /\ \E ks \in SUBSET DOMAIN values : cells' = PutBy(ks)
  /\ WorkerDies
  /\ UNCHANGED <<config, ledger, expired>>

\* A full CachedMap drops what was used least recently.
Evict(k) ==
  /\ pc = "idle" /\ k \in DOMAIN cache
  /\ cache' = Restrict(cache, DOMAIN cache \ {k})
  /\ UNCHANGED <<config, attempt, ledger, cells, running, expired, faults>>

\* A row that has not been written for ttl seconds goes away.
Expire(k) ==
  /\ kind \in MapKinds /\ cells[k] # NoRow /\ Fault
  /\ cells' = [cells EXCEPT ![k] = NoRow]
  /\ expired' = expired \union {k}
  /\ UNCHANGED <<config, attempt, ledger, cache, running>>

-----------------------------------------------------------------------------
Update == WriteTuples \/ MappingRaises \/ StoppedRaises \/ MultiGet \/ MultiPut

Next ==
  \/ Attempt \/ FailsElsewhere \/ Commit \/ Crash
  \/ Update \/ MutationRaises \/ MultiPutRaises
  \/ StopClient
  \/ \E k \in Keys : Evict(k) \/ Expire(k)

\* The coordinator repeats what failed and commits what is done; the task runs.
Fairness == WF_vars(Attempt) /\ WF_vars(Commit) /\ WF_vars(Update)

Spec     == Init /\ [][Next]_vars
FairSpec == Spec /\ Fairness

-----------------------------------------------------------------------------
\* Every tuple of a committed batch is counted once, although batches fail after
\* they were put, mutations are applied in part, workers die and the cache drops
\* what it held: between two batches the row of a key that never expired holds
\* its count, and so does what the cache has of it.  A non-transactional map may
\* count a tuple again, and loses none.
CountedOnce ==
  (kind \in MapKinds /\ batch = <<>>) =>
    \A k \in Keys \ expired :
      /\ Lookup(k) = cells[k]
      /\ IF kind = "nontransactional" THEN cells[k].curr >= counted[k]
                                     ELSE cells[k].curr = counted[k]

\* The sublist a tuple of the batch belongs to.
Part(i) == IF maxBatchSize > 0 THEN (i - 1) \div maxBatchSize ELSE 0

\* When CassandraState is done with a batch and its handler ignores at most what
\* the mapper raises, that has cost the sublist of the tuple it was raised on and
\* the ones behind it, and no more: what is before it was written by this batch.
DoneIsWritten ==
  (/\ kind = "tuples" /\ pc = "done"
   /\ handler["connection"] \notin Ignoring /\ handler["stopped"] \notin Ignoring)
    => \A i \in DOMAIN batch :
         (\A j \in DOMAIN batch : batch[j] \in Unmappable => Part(i) < Part(j))
           => cells[batch[i]].tx = tx

\* Tuples are passed on only when every one of them was written, whatever the
\* handler ignores.
EmittedIsWritten ==
  (kind = "tuples" /\ emitted) => \A i \in DOMAIN batch : cells[batch[i]].tx = tx

\* What CassandraState says it wrote, it wrote.
WritesSound == TypeOK /\ DoneIsWritten /\ EmittedIsWritten

\* A batch is committed in the end, through failures, deaths of the worker and
\* ignored exceptions, unless a tuple of it can never be mapped and the handler
\* does not ignore that, or the shared client was stopped.
BatchCommits ==
  \A n \in 1..MaxTx :
    (tx = n /\ batch # <<>> /\ (Mappable(DOMAIN batch) \/ handler["mapping"] \in Ignoring))
      ~> (tx > n \/ ~running)
=============================================================================
