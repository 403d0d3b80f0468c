----------------------------- MODULE BatchingBolt -----------------------------
(***************************************************************************)
(* CassandraBatchingBolt and CassandraCounterBatchingBolt: the executor    *)
(* puts each tuple into a queue, and a thread of the bolt (BatchThread of  *)
(* AbstractBatchingBolt) takes batches from it and has AstyanaxClient      *)
(* write them, one mutation for each keyspace a batch touches.  The ack    *)
(* strategy says who acknowledges a tuple, and when.                       *)
(*                                                                         *)
(* The spout and its acker are external: a tuple that is failed or times   *)
(* out is sent again, and the ack or fail of an earlier copy is ignored.   *)
(* The columns or counters of a tuple are one value, applied or not.       *)
(***************************************************************************)
EXTENDS Integers, Sequences, FiniteSetsExt

CONSTANTS
  Tuples,
  Keyspaces,
  Configured,    \* sets of keyspaces the client may be configured with
  mapToKeyspace, \* what the tuple mapper finds
  Strategies,    \* values of AckStrategy
  batchMaxSize,  \* of BatchThread; no limit unless positive
  MaxSends,      \* bound: sends of a tuple after which it does not time out
  MaxFaults      \* bound: mutations that raise and crashes of the worker

ASSUME KeyspacesAssumption  == /\ Configured \subseteq SUBSET Keyspaces
                               /\ mapToKeyspace \in [Tuples -> Keyspaces]
ASSUME StrategiesAssumption == Strategies \subseteq {"ignore", "receive", "write"}
ASSUME LimitsAssumption     == /\ batchMaxSize \in Int
                               /\ MaxSends \in Nat /\ MaxFaults \in Nat

VARIABLES
  ackStrategy,
  configured,      \* the keyspaces the client is configured with
  acker,           \* what the spout's acker knows of each tuple
  sends,           \* how often the spout has sent it
  phase,           \* of the bolt: down, up, in cleanup, cleaned
  connected,       \* keyspaces whose AstyanaxContext is running
  queue,           \* copies [id, n] waiting: the n-th time tuple id was sent
  pc,              \* where the batch thread is
  batch,           \* the copies it executes
  todo,            \* keyspaces whose mutation it has not executed yet
  stopRequested,   \* of BatchThread, which is not volatile
  applied,         \* per tuple, how often Cassandra has applied it
  faults, crashes

config == <<ackStrategy, configured>>
spout  == <<acker, sends>>
bolt   == <<phase, connected, stopRequested>>
thread == <<pc, batch, todo>>
bounds == <<faults, crashes>>
vars   == <<config, spout, bolt, queue, thread, applied, bounds>>

Copies == [id : Tuples, n : Nat \ {0}]

TypeOK ==
  /\ ackStrategy \in Strategies /\ configured \in Configured
  /\ acker \in [Tuples -> {"waiting", "pending", "acked", "failed"}]
  /\ sends \in [Tuples -> Nat]
  /\ phase \in {"down", "up", "cleanup", "cleaned"}
  /\ connected \subseteq Keyspaces
  /\ queue \in Seq(Copies)
  /\ pc \in {"ended", "loop", "write", "ack", "fail"}
  /\ batch \in Seq(Copies)
  /\ batchMaxSize > 0 => Len(batch) <= batchMaxSize + 1
  /\ todo \subseteq Keyspaces
  /\ stopRequested \in BOOLEAN
  /\ applied \in [Tuples -> Nat]
  /\ faults \in Nat /\ crashes \in Nat /\ faults + crashes <= MaxFaults

NoThread == pc = "ended" /\ batch = <<>> /\ todo = {}

Init ==
  /\ ackStrategy \in Strategies /\ configured \in Configured
  /\ acker = [t \in Tuples |-> "waiting"]
  /\ sends = [t \in Tuples |-> 0]
  /\ phase = "down" /\ connected = {} /\ stopRequested = FALSE
  /\ queue = <<>>
  /\ NoThread
  /\ applied = [t \in Tuples |-> 0]
  /\ faults = 0 /\ crashes = 0

-----------------------------------------------------------------------------
(* The life of the bolt. *)

\* prepare: a client with a context for each keyspace, an empty queue, a thread.
Prepare ==
  /\ phase = "down"
  /\ phase' = "up" /\ connected' = configured
  /\ queue' = <<>>
  /\ pc' = "loop" /\ batch' = <<>> /\ todo' = {}
  /\ UNCHANGED <<config, spout, stopRequested, applied, bounds>>

\* A context does not start: prepare raises, and the worker is started again.
PrepareFails ==
  /\ phase = "down"
  /\ faults + crashes < MaxFaults /\ faults' = faults + 1
  /\ UNCHANGED <<config, spout, bolt, queue, thread, applied, crashes>>

\* The worker dies with the queue; what it held will be sent again.
Crash ==
  /\ phase = "up"
  /\ faults + crashes < MaxFaults /\ crashes' = crashes + 1
  /\ phase' = "down" /\ connected' = {}
  /\ queue' = <<>>
  /\ pc' = "ended" /\ batch' = <<>> /\ todo' = {}
  /\ acker' = [t \in Tuples |-> IF acker[t] = "pending" THEN "failed" ELSE acker[t]]
  /\ UNCHANGED <<config, sends, stopRequested, applied, faults>>

\* cleanup asks the thread to stop,
Cleanup ==
  /\ phase = "up"
  /\ phase' = "cleanup" /\ stopRequested' = TRUE
  /\ UNCHANGED <<config, spout, connected, queue, thread, applied, bounds>>

\* and stops the client, without waiting for the thread; with several keyspaces
\* stop raises instead, and every context goes on.
StopClient ==
  /\ phase = "cleanup" /\ phase' = "cleaned"
  /\ connected' = IF Cardinality(configured) = 1 THEN {} ELSE connected
  /\ UNCHANGED <<config, spout, stopRequested, queue, thread, applied, bounds>>

-----------------------------------------------------------------------------
(* The executor, the spout and its acker. *)

Mapped(t) == mapToKeyspace[t] \in configured

\* execute: ack now if the strategy says so, and queue the tuple.  Bound: a tuple
\* that cannot be mapped is not sent for ever.
Execute(t) ==
  /\ phase = "up" /\ acker[t] \in {"waiting", "failed"}
  /\ ~Mapped(t) => sends[t] < MaxSends
  /\ sends' = [sends EXCEPT ![t] = @ + 1]
  /\ acker' = [acker EXCEPT ![t] = IF ackStrategy = "receive" THEN "acked" ELSE "pending"]
  /\ queue' = Append(queue, [id |-> t, n |-> sends[t] + 1])
  /\ UNCHANGED <<config, bolt, thread, applied, bounds>>

Timeout(t) ==
  /\ phase = "up" /\ acker[t] = "pending" /\ sends[t] < MaxSends
  /\ acker' = [acker EXCEPT ![t] = "failed"]
  /\ UNCHANGED <<config, sends, bolt, queue, thread, applied, bounds>>

InBatch == {batch[k] : k \in DOMAIN batch}

\* collector.ack or collector.fail of every copy of the batch.
Answer(answer) ==
  acker' = [t \in Tuples |->
              IF acker[t] = "pending" /\ [id |-> t, n |-> sends[t]] \in InBatch
                THEN answer ELSE acker[t]]

-----------------------------------------------------------------------------
(* BatchThread.run *)

\* The loop ends when it sees that a stop was requested, which it may miss.
LoopEnds ==
  /\ pc = "loop" /\ stopRequested /\ pc' = "ended"
  /\ UNCHANGED <<config, spout, bolt, queue, batch, todo, applied, bounds>>

\* A drain that ignores the limit.
DrainSizeAll == Len(queue) - 1

\* How many tuples drainTo adds to the one take returned.
DrainSize ==
  IF batchMaxSize > 0 THEN Min({batchMaxSize, Len(queue) - 1}) ELSE Len(queue) - 1

-----------------------------------------------------------------------------
(* executeBatch and AstyanaxClient.writeTuples or incrementCountColumns *)

KeyspacesOf(copies) == {mapToKeyspace[copies[k].id] : k \in DOMAIN copies}

\* One mutation for each keyspace of the batch; none is executed when one of them
\* has no context.  A tuple the mapper cannot map ends like one of no keyspace.
PrepareMutations(copies) ==
  IF KeyspacesOf(copies) \subseteq configured
    THEN pc' = "write" /\ todo' = KeyspacesOf(copies)
    ELSE pc' = "fail" /\ UNCHANGED todo

\* take() blocks until there is a tuple, and nothing interrupts it; drainTo adds
\* what waits behind it, and the mutations are prepared.
TakeBatch ==
  /\ pc = "loop" /\ queue # <<>>
  /\ batch' = SubSeq(queue, 1, DrainSize + 1)
  /\ queue' = SubSeq(queue, DrainSize + 2, Len(queue))
  /\ PrepareMutations(SubSeq(queue, 1, DrainSize + 1))
  /\ UNCHANGED <<config, spout, bolt, applied, bounds>>

\* The mutation of keyspace k, as Cassandra applies it.
Apply(k) ==
  applied' = [t \in Tuples |->
                IF mapToKeyspace[t] = k
                  THEN applied[t] + Cardinality({j \in DOMAIN batch : batch[j].id = t})
                  ELSE applied[t]]

\* A batch that is done after its first mutation.
WriteOnce(k) ==
  /\ pc = "write" /\ k \in todo /\ k \in connected
  /\ Apply(k)
  /\ todo' = {} /\ pc' = "ack"
  /\ UNCHANGED <<config, spout, bolt, queue, batch, bounds>>

\* The mutations are executed in the order of a HashMap, any order here.
Write(k) ==
  /\ pc = "write" /\ k \in todo /\ k \in connected
  /\ Apply(k)
  /\ todo' = todo \ {k}
  /\ pc' = IF todo' = {} THEN "ack" ELSE "write"
  /\ UNCHANGED <<config, spout, bolt, queue, batch, bounds>>

\* execute raises: a timeout leaves open whether the mutation was applied.
WriteFails(k) ==
  /\ pc = "write" /\ k \in todo /\ k \in connected
  /\ faults + crashes < MaxFaults /\ faults' = faults + 1
  /\ Apply(k) \/ UNCHANGED applied
  /\ pc' = "fail"
  /\ UNCHANGED <<config, spout, bolt, queue, batch, todo, crashes>>

\* The client was stopped under the thread.
WriteAfterStop(k) ==
  /\ pc = "write" /\ k \in todo /\ k \notin connected
  /\ pc' = "fail"
  /\ UNCHANGED <<config, spout, bolt, queue, batch, todo, applied, bounds>>

NextBatch == pc' = "loop" /\ batch' = <<>> /\ todo' = {}

\* A bolt that only fails the tuple it was handed first.
FailBatchFirst ==
  /\ pc = "fail" /\ NextBatch
  /\ LET c == batch[1] IN
       acker' = IF acker[c.id] = "pending" /\ c.n = sends[c.id]
                  THEN [acker EXCEPT ![c.id] = "failed"] ELSE acker
  /\ UNCHANGED <<config, sends, bolt, queue, applied, bounds>>

\* A bolt that fails the tuples and puts them into the queue again.
FailBatchRequeues ==
  /\ pc = "fail" /\ NextBatch
  /\ Answer("failed")
  /\ queue' = queue \o batch
  /\ UNCHANGED <<config, sends, bolt, applied, bounds>>

\* A bolt that forgets what waits behind a batch that failed.
FailBatchForgets ==
  /\ pc = "fail" /\ NextBatch
  /\ Answer("failed")
  /\ queue' = <<>>
  /\ UNCHANGED <<config, sends, bolt, applied, bounds>>

\* Everything was written: ack if that is the strategy.
AckBatch ==
  /\ pc = "ack" /\ NextBatch
  /\ IF ackStrategy = "write" THEN Answer("acked") ELSE UNCHANGED acker
  /\ UNCHANGED <<config, sends, bolt, queue, applied, bounds>>

\* Something raised: fail every tuple of the batch, whatever the strategy.
FailBatch ==
  /\ pc = "fail" /\ NextBatch
  /\ Answer("failed")
  /\ UNCHANGED <<config, sends, bolt, queue, applied, bounds>>

BatchThread ==
  \/ LoopEnds \/ TakeBatch
  \/ \E k \in Keyspaces : Write(k) \/ WriteAfterStop(k)
  \/ AckBatch \/ FailBatch

Next ==
  \/ Prepare \/ PrepareFails \/ Crash \/ Cleanup \/ StopClient
  \/ \E t \in Tuples : Execute(t) \/ Timeout(t)
  \/ BatchThread
  \/ \E k \in Keyspaces : WriteFails(k)

\* The thread runs, the worker is restarted, and the spout sends what failed.
Fairness ==
  /\ WF_vars(Prepare) /\ WF_vars(BatchThread)
  /\ \A t \in Tuples : WF_vars(Execute(t))

Spec     == Init /\ [][Next]_vars
FairSpec == Spec /\ Fairness

-----------------------------------------------------------------------------
AllMapped == \A t \in Tuples : Mapped(t)

\* "ACK_ON_WRITE: The Cassandra bolt will only ack tuples after the resulting
\* cassandra write(s) (potentially batched), have all succeeded."
\* (AckStrategy.java:31) Replays, late copies, stops and crashes included.
AckedIsWritten ==
  ackStrategy = "write" =>
    \A t \in Tuples : acker[t] = "acked" => applied[t] > 0

\* A counter is never incremented more often than the spout sent its tuple: a
\* batch that is partly written and failed is paid for by the replay it causes.
AppliedPaidBySends == \A t \in Tuples : applied[t] <= sends[t]

\* With ACK_ON_RECEIVE a mutation that raises costs the tuples of its batch, one
\* more than batchMaxSize at most; nothing else is lost while the bolt runs.
LostPerFault ==
  LET held == {queue[k].id : k \in DOMAIN queue} \union {c.id : c \in InBatch}
  IN (ackStrategy = "receive" /\ AllMapped /\ crashes = 0 /\ batchMaxSize > 0
        /\ ~stopRequested)
       => Cardinality({t \in Tuples : acker[t] = "acked" /\ applied[t] = 0} \ held)
            <= (batchMaxSize + 1) * faults

\* With ACK_ON_WRITE every tuple the bolt has received is acked in the end, if all
\* of them can be mapped and nobody stops the bolt: a failed batch is replayed
\* until it is written.
ReceivedIsAcked ==
  \A t \in Tuples :
    (acker[t] = "pending" /\ ackStrategy = "write" /\ AllMapped)
      ~> (acker[t] = "acked" \/ stopRequested)
===============================================================================
