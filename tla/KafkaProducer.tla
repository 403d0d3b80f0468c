---------------------------- MODULE KafkaProducer ----------------------------
(***************************************************************************)
(* The KafkaProducer of kafka-python, which the Flask service sends its    *)
(* tweets with: threads append records to batches that take their memory   *)
(* from a pool, a sender thread drains the batches into produce requests,  *)
(* and the answers, or the loss of the connection, complete the futures of *)
(* a batch or put it back.  One broker leads all partitions; KafkaClient   *)
(* has the connection in detail, here it is up or lost.                    *)
(***************************************************************************)
EXTENDS Integers, Sequences, FiniteSets, SequencesExt

CONSTANTS
  Threads,       \* threads that use the producer
  Partitions,
  Configs,       \* settings: retries; inFlight, the requests in flight at most; buffers
                 \* of the pool (buffer_memory / batch_size); records that fill a batch
  MaxSends,      \* bound: calls of send
  MaxFaults      \* bound: lost connections, errors of the broker, expired batches

ASSUME ProducerAssumption ==
  /\ MaxSends \in Nat /\ MaxFaults \in Nat
  /\ Configs \subseteq [retries : Nat, inFlight : Nat \ {0},
                         buffers : Nat \ {0}, records : Nat \ {0}]

VARIABLES
  config,      \* the settings of this producer
  sends,       \* calls of send so far; the next record's number
  pc,          \* where each thread is
  rec,         \* the record a thread is sending
  part,        \* the partition it goes to
  awaited,     \* the batches a flush waits for
  free,        \* buffers in the pool
  waiters,     \* what waits for a buffer, longest first, by the record to be sent
  lost,        \* buffers that a raising send never gave back
  batch,       \* every batch: its partition, records, attempts, whether it is open
  result,      \* what its future was completed with
  dq,          \* the batches of each partition still to be sent
  incomplete,  \* the batches not completed
  muted,       \* the partitions with a batch in flight, when order is kept
  running, closed, force,  \* of the sender and the accumulator
  sender,      \* where the sender thread is
  up,          \* whether the connection is
  flight,      \* requests in flight: the verdict of the broker on each batch
  late,        \* requests of lost connections the broker may yet handle
  log,         \* the partitions at the broker
  faults

userVars   == <<pc, rec, part, sends, awaited>>
poolVars   == <<free, waiters, lost>>
batchVars  == <<batch, result, dq, incomplete, muted>>
senderVars == <<running, closed, force, sender>>
netVars    == <<up, flight, late, log, faults>>
vars       == <<config, userVars, poolVars, batchVars, senderVars, netVars>>

Records  == 1..MaxSends
BatchIds == DOMAIN batch

Pending == [kind |-> "pending", at |-> 0]
Failed  == [kind |-> "failed", at |-> 0]
Acked(offset) == [kind |-> "acked", at |-> offset]

Sent    == [kind |-> "sent", at |-> 0]
Again   == [kind |-> "retriable", at |-> 0]
Refused == [kind |-> "fatal", at |-> 0]

Ordered == config.inFlight = 1   \* guarantee_message_order

Init ==
  /\ config \in Configs
  /\ sends = 0
  /\ pc = [t \in Threads |-> "idle"]
  /\ rec = [t \in Threads |-> 0]
  /\ part \in [Threads -> Partitions]
  /\ awaited = [t \in Threads |-> {}]
  /\ free = config.buffers /\ waiters = <<>> /\ lost = 0
  /\ batch = <<>> /\ result = <<>>
  /\ dq = [p \in Partitions |-> <<>>]
  /\ incomplete = {} /\ muted = {}
  /\ running = TRUE /\ closed = FALSE /\ force = FALSE /\ sender = "run"
  /\ up = FALSE /\ flight = <<>> /\ late = <<>>
  /\ log = [p \in Partitions |-> <<>>]
  /\ faults = 0

-----------------------------------------------------------------------------
(* The pool. *)

\* deallocate: n buffers come back.  The first of the waiting threads is notified,
\* but as a wait may also time out, any thread may wake at any time.
GiveBack(n) == free' = free + n /\ UNCHANGED <<waiters, lost>>

\* A thread leaves a call: with a value or a future, or with an exception.
Leaves(t) == pc' = [pc EXCEPT ![t] = "idle"] /\ rec' = [rec EXCEPT ![t] = 0]

Goes(t, where) == pc' = [pc EXCEPT ![t] = where] /\ UNCHANGED rec

\* allocate takes a buffer at once, whoever is waiting, or begins to wait.
Allocate(t) ==
  /\ pc[t] = "alloc"
  /\ \/ /\ free > 0
        /\ free' = free - 1
        /\ Goes(t, "append")
        /\ UNCHANGED waiters
     \/ /\ free = 0
        /\ waiters' = Append(waiters, rec[t])
        /\ Goes(t, "wait")
        /\ UNCHANGED free
  /\ UNCHANGED <<config, part, sends, awaited, lost, batchVars, senderVars, netVars>>

\* The wait ends, by a notification or after max_block_ms; there is a buffer, and
\* this thread is the first of those that wait.
WakeInTurn(t) ==
  /\ pc[t] = "wait" /\ free > 0 /\ waiters # <<>> /\ Head(waiters) = rec[t]
  /\ free' = free - 1
  /\ waiters' = Tail(waiters)
  /\ Goes(t, "append")
  /\ UNCHANGED <<config, part, sends, awaited, lost, batchVars, senderVars, netVars>>

\* There is a buffer, taken, but the first of those that wait is another thread:
\* its condition is removed, the assertion fails, and the buffer is gone.
WakeOutOfTurn(t) ==
  /\ pc[t] = "wait" /\ free > 0 /\ (waiters = <<>> \/ Head(waiters) # rec[t])
  /\ free' = free - 1 /\ lost' = lost + 1
  /\ waiters' = IF waiters = <<>> THEN <<>> ELSE Tail(waiters)
  /\ Leaves(t)
  /\ UNCHANGED <<config, part, sends, awaited, batchVars, senderVars, netVars>>

\* There is none: the wait timed out, or a thread that never waited was quicker.
WakeForNothing(t) ==
  /\ pc[t] = "wait" /\ free = 0
  /\ waiters' = IF rec[t] \in Range(waiters)
                  THEN RemoveAt(waiters, CHOOSE i \in DOMAIN waiters : waiters[i] = rec[t])
                  ELSE waiters
  /\ Leaves(t)
  /\ UNCHANGED <<config, part, sends, awaited, free, lost, batchVars, senderVars, netVars>>

-----------------------------------------------------------------------------
(* send, flush and close. *)

\* append passes the check of _closed.
SendBegins(t, p) ==
  /\ pc[t] = "idle" /\ ~closed /\ sends < MaxSends
  /\ sends' = sends + 1
  /\ rec' = [rec EXCEPT ![t] = sends + 1]
  /\ part' = [part EXCEPT ![t] = p]
  /\ pc' = [pc EXCEPT ![t] = "begun"]
  /\ UNCHANGED <<config, awaited, poolVars, batchVars, senderVars, netVars>>

LastOf(p) == Last(dq[p])
HasRoom(b) == batch[b].open /\ Len(batch[b].recs) < config.records

\* try_append on the last batch of the partition succeeds.
Joins(t) ==
  LET b == LastOf(part[t])
  IN  /\ batch' = [batch EXCEPT ![b].recs = Append(@, rec[t])]
      /\ UNCHANGED <<result, dq, incomplete, muted>>

\* The first critical section of append: the record joins a batch, or needs a
\* buffer; a last batch that is closed, waiting to be sent again, makes try_append
\* raise, because MemoryRecordsBuilder.append answers with a pair.
FirstTry(t) ==
  /\ pc[t] = "begun"
  /\ IF dq[part[t]] = <<>>
       THEN Goes(t, "alloc") /\ UNCHANGED batchVars
       ELSE \/ /\ HasRoom(LastOf(part[t]))
               /\ Joins(t)
               /\ Leaves(t)
            \/ /\ ~HasRoom(LastOf(part[t])) /\ UNCHANGED batchVars
               /\ IF batch[LastOf(part[t])].open
                    THEN Goes(t, "alloc")
                    ELSE Leaves(t)
  /\ UNCHANGED <<config, part, sends, awaited, poolVars, senderVars, netVars>>

\* A new batch with the record, under the buffer the thread has brought.
Opens(t) ==
  LET b == Len(batch) + 1
  IN  /\ batch' = Append(batch, [part |-> part[t], recs |-> <<rec[t]>>,
                                 attempts |-> 0, open |-> TRUE])
      /\ result' = Append(result, Pending)
      /\ dq' = [dq EXCEPT ![part[t]] = Append(@, b)]
      /\ incomplete' = incomplete \union {b}
      /\ UNCHANGED muted

\* A send that raises holding a buffer.
LosesBuffer(t) ==
  /\ lost' = lost + 1
  /\ UNCHANGED <<free, waiters, batchVars>>

\* A second critical section that keeps the buffer it turned out not to need.
SecondTryKeeps(t) ==
  /\ pc[t] = "append" /\ Leaves(t)
  /\ IF closed THEN LosesBuffer(t)
     ELSE IF dq[part[t]] # <<>> /\ HasRoom(LastOf(part[t]))
       THEN Joins(t) /\ UNCHANGED poolVars
     ELSE IF dq[part[t]] # <<>> /\ ~batch[LastOf(part[t])].open
       THEN LosesBuffer(t)
     ELSE Opens(t) /\ UNCHANGED poolVars
  /\ UNCHANGED <<config, part, sends, awaited, senderVars, netVars>>

\* The second critical section of append, with a buffer: the producer was closed
\* meanwhile, somebody else opened a batch with room, or one is put first that is
\* closed, or the record opens a batch.
SecondTry(t) ==
  /\ pc[t] = "append" /\ Leaves(t)
  /\ IF closed THEN LosesBuffer(t)
     ELSE IF dq[part[t]] # <<>> /\ HasRoom(LastOf(part[t]))
       THEN Joins(t) /\ GiveBack(1)
     ELSE IF dq[part[t]] # <<>> /\ ~batch[LastOf(part[t])].open
       THEN LosesBuffer(t)
     ELSE Opens(t) /\ UNCHANGED poolVars
  /\ UNCHANGED <<config, part, sends, awaited, senderVars, netVars>>

\* flush: the batches not completed now; it returns when their futures are done.
FlushBegins(t) ==
  /\ pc[t] = "idle" /\ incomplete # {}
  /\ awaited' = [awaited EXCEPT ![t] = incomplete]
  /\ Goes(t, "flush")
  /\ UNCHANGED <<config, part, sends, poolVars, batchVars, senderVars, netVars>>

FlushReturns(t) ==
  /\ pc[t] = "flush"
  /\ \A b \in awaited[t] : result[b] # Pending
  /\ awaited' = [awaited EXCEPT ![t] = {}]
  /\ Leaves(t)
  /\ UNCHANGED <<config, part, sends, poolVars, batchVars, senderVars, netVars>>

\* close(timeout): initiate_close sets _running, then closes the accumulator;
\* with timeout 0 force_close does the same, its own flag first.
CloseBegins(t, atOnce) ==
  /\ pc[t] = "idle" /\ running
  /\ running' = FALSE
  /\ force' = atOnce
  /\ Goes(t, "closing")
  /\ UNCHANGED <<config, part, sends, awaited, closed, sender, poolVars, batchVars, netVars>>

ClosesAccumulator(t) ==
  /\ pc[t] = "closing"
  /\ closed' = TRUE
  /\ Goes(t, "join")
  /\ UNCHANGED <<config, part, sends, awaited, running, force, sender, poolVars, batchVars, netVars>>

\* The sender is still alive when the timeout ends.
JoinTimesOut(t) ==
  /\ pc[t] = "join" /\ sender # "ended" /\ ~force
  /\ force' = TRUE
  /\ UNCHANGED <<config, userVars, running, closed, sender, poolVars, batchVars, netVars>>

JoinReturns(t) ==
  /\ pc[t] = "join" /\ sender = "ended"
  /\ Leaves(t)
  /\ UNCHANGED <<config, part, sends, awaited, poolVars, batchVars, senderVars, netVars>>

-----------------------------------------------------------------------------
(* The sender. *)

\* The broker has not come to a request.
Unhandled(request) == \E b \in DOMAIN request : request[b] = Sent

\* The futures of batches fail; batches are closed; batches are sent once more.
AllFail(ids) == [b \in BatchIds |-> IF b \in ids THEN Failed ELSE result[b]]
Shut(ids)    == [b \in BatchIds |-> IF b \in ids THEN [batch[b] EXCEPT !.open = FALSE]
                                                  ELSE batch[b]]
Retry(ids)   == [b \in BatchIds |-> IF b \in ids THEN [batch[b] EXCEPT !.attempts = @ + 1]
                                                  ELSE batch[b]]

\* Of these batches, the one of partition p: a request has one at most.
Has(ids, p)   == \E b \in ids : batch[b].part = p
TheOne(ids, p) == CHOOSE b \in ids : batch[b].part = p

\* Batches put behind those of their partition.
PutBehind(retried) ==
  [p \in Partitions |-> IF Has(retried, p) THEN Append(dq[p], TheOne(retried, p)) ELSE dq[p]]

\* reenqueue: a batch goes before those its partition has.
PutBack(retried) ==
  [p \in Partitions |-> IF Has(retried, p) THEN <<TheOne(retried, p)>> \o dq[p] ELSE dq[p]]

\* The partitions of completed batches only may be drained again.
UnmuteDone(ids, retried) == muted \ {batch[b].part : b \in ids}

\* The partitions of these batches may be drained again.
Unmute(ids, retried) == muted \ {batch[b].part : b \in ids \union retried}

\* _complete_batch for every batch of a request: some completed with verdicts, the
\* others put back.
Complete(verdicts, retried) ==
  /\ result' = [b \in BatchIds |-> IF b \in DOMAIN verdicts THEN verdicts[b] ELSE result[b]]
  /\ incomplete' = incomplete \ DOMAIN verdicts
  /\ batch' = Retry(retried)
  /\ dq' = PutBack(retried)
  /\ muted' = Unmute(DOMAIN verdicts, retried)
  /\ GiveBack(Cardinality(DOMAIN verdicts))

CanRetry(b) == batch[b].attempts < config.retries

\* The sender is in its loop, not in close() of a lost connection.
Looping == sender = "run" /\ (up \/ flight = <<>>)

\* The partitions drain may take a batch of.
Ready == {p \in Partitions : dq[p] # <<>> /\ p \notin muted}

\* One produce request with the first batch of each partition of S; ready and
\* drain skip partitions that back off, and stop at max_request_size.
Drain(S) ==
  /\ sender = "run" /\ up /\ Len(flight) < config.inFlight
  /\ S # {} /\ S \subseteq Ready
  /\ LET heads == {Head(dq[p]) : p \in S}
     IN  /\ flight' = Append(flight, [b \in heads |-> Sent])
         /\ batch' = Shut(heads)
  /\ dq' = [p \in Partitions |-> IF p \in S THEN Tail(dq[p]) ELSE dq[p]]
  /\ muted' = IF Ordered THEN muted \union S ELSE muted
  /\ UNCHANGED <<config, userVars, poolVars, result, incomplete, senderVars, up, late, log, faults>>

\* abort_expired_batches: the first n batches of a partition have waited longer
\* than request_timeout_ms.
Expire(p, n) ==
  /\ Looping /\ p \notin muted /\ n \in 1..Len(dq[p])
  /\ faults < MaxFaults /\ faults' = faults + 1
  /\ LET gone == {dq[p][i] : i \in 1..n}
     IN  /\ result' = AllFail(gone)
         /\ incomplete' = incomplete \ gone
         /\ batch' = Shut(gone)
  /\ dq' = [dq EXCEPT ![p] = SubSeq(@, n + 1, Len(@))]
  /\ GiveBack(n)
  /\ UNCHANGED <<config, userVars, muted, senderVars, up, flight, late, log>>

\* The answer to the oldest request: its batches are completed or, where the error
\* is retriable and attempts are left, put back.
Respond ==
  /\ sender = "run" /\ up /\ flight # <<>>
  /\ ~Unhandled(Head(flight))
  /\ LET request == Head(flight)
         retried == {b \in DOMAIN request : request[b] = Again /\ CanRetry(b)}
     IN  Complete([b \in DOMAIN request \ retried |->
                     IF request[b].kind = "acked" THEN request[b] ELSE Failed],
                  retried)
  /\ flight' = Tail(flight)
  /\ UNCHANGED <<config, userVars, senderVars, up, late, log, faults>>

\* The connection is lost, closed by the other end or because a request has timed
\* out ...
ConnectionLost ==
  /\ sender = "run" /\ up /\ faults < MaxFaults
  /\ faults' = faults + 1 /\ up' = FALSE
  /\ UNCHANGED <<config, userVars, poolVars, batchVars, senderVars, flight, late, log>>

\* ... and close() fails every request in flight with a retriable error, the oldest
\* first, while other threads append.
FailsOldest ==
  /\ sender = "run" /\ ~up /\ flight # <<>>
  /\ LET ids     == DOMAIN Head(flight)
         retried == {b \in ids : CanRetry(b)}
     IN  Complete([b \in ids \ retried |-> Failed], retried)
  /\ late' = IF Unhandled(Head(flight)) THEN Append(late, Head(flight)) ELSE late
  /\ flight' = Tail(flight)
  /\ UNCHANGED <<config, userVars, senderVars, up, log, faults>>

Connect ==
  /\ Looping /\ ~up
  /\ up' = TRUE
  /\ UNCHANGED <<config, userVars, poolVars, batchVars, senderVars, flight, late, log, faults>>

\* Nothing is unsent and nothing in flight: the sender closes the client and ends.
SenderEnds ==
  /\ sender = "run" /\ ~running /\ ~force
  /\ flight = <<>> /\ \A p \in Partitions : dq[p] = <<>>
  /\ sender' = "ended" /\ up' = FALSE
  /\ UNCHANGED <<config, userVars, poolVars, batchVars, running, closed, force, flight, late, log, faults>>

\* Threads in append.
Appending == {t \in Threads : pc[t] \in {"begun", "alloc", "wait", "append"}}

\* _abort_batches: every batch not completed fails and gives its buffer back.
FailIncomplete ==
  /\ result' = AllFail(incomplete)
  /\ batch' = Shut(incomplete)
  /\ incomplete' = {}
  /\ GiveBack(Cardinality(incomplete))

\* close was forced: abort_incomplete_batches, until no thread is appending.
Abort ==
  /\ (Looping /\ ~running /\ force) \/ sender = "abort"
  /\ FailIncomplete
  /\ sender' = IF Appending = {} THEN "clear" ELSE "abort"
  /\ UNCHANGED <<config, userVars, dq, muted, running, closed, force, netVars>>

\* ... and once more, for a batch of the last of them; closing the client cancels
\* the requests in flight, whose batches have failed already.
Clear ==
  /\ sender = "clear"
  /\ FailIncomplete
  /\ dq' = [p \in Partitions |-> <<>>]
  /\ sender' = "ended" /\ up' = FALSE /\ flight' = <<>>
  /\ \E n \in 0..Len(flight) :
        /\ \A i \in DOMAIN flight : Unhandled(flight[i]) <=> i > n
        /\ late' = late \o SubSeq(flight, n + 1, Len(flight))
  /\ UNCHANGED <<config, userVars, muted, running, closed, force, log, faults>>

-----------------------------------------------------------------------------
(* The broker. *)

\* The records of the batches taken, appended to their partitions.
Stored(taken) ==
  [p \in Partitions |->
     IF Has(taken, p) THEN log[p] \o batch[TheOne(taken, p)].recs ELSE log[p]]

\* It handles the requests of a connection in order: it takes the batches, or
\* answers with an error, which may pass or not.
BrokerHandles(i) ==
  /\ up /\ i \in DOMAIN flight
  /\ Unhandled(flight[i]) /\ \A j \in 1..(i - 1) : ~Unhandled(flight[j])
  /\ \E taken \in SUBSET DOMAIN flight[i], error \in {Again, Refused} :
        /\ log' = Stored(taken)
        /\ flight' = [flight EXCEPT ![i] =
                        [b \in DOMAIN flight[i] |->
                           IF b \in taken THEN Acked(Len(log[batch[b].part])) ELSE error]]
        /\ IF taken = DOMAIN flight[i]
             THEN error = Again /\ UNCHANGED faults
             ELSE faults < MaxFaults /\ faults' = faults + 1
  /\ UNCHANGED <<config, userVars, poolVars, batchVars, senderVars, up, late>>

\* It comes to handle a request whose connection is gone, or never does.
BrokerHandlesLate ==
  /\ late # <<>>
  /\ log' = Stored(DOMAIN Head(late))
  /\ late' = Tail(late)
  /\ UNCHANGED <<config, userVars, poolVars, batchVars, senderVars, up, flight, faults>>

-----------------------------------------------------------------------------
Send(t) == FirstTry(t) \/ Allocate(t) \/ WakeInTurn(t) \/ WakeOutOfTurn(t)
             \/ WakeForNothing(t) \/ SecondTry(t)

Close(t) == ClosesAccumulator(t) \/ JoinTimesOut(t) \/ JoinReturns(t)

User(t) ==
  \/ \E p \in Partitions : SendBegins(t, p)
  \/ Send(t)
  \/ FlushBegins(t) \/ FlushReturns(t)
  \/ \E atOnce \in BOOLEAN : CloseBegins(t, atOnce)
  \/ Close(t)

SenderStep ==
  \/ \E S \in SUBSET Partitions : Drain(S)
  \/ \E p \in Partitions : \E n \in 1..Len(dq[p]) : Expire(p, n)
  \/ Respond \/ ConnectionLost \/ FailsOldest \/ Connect
  \/ SenderEnds \/ Abort \/ Clear

Broker == BrokerHandlesLate \/ \E i \in DOMAIN flight : BrokerHandles(i)

Next == (\E t \in Threads : User(t)) \/ SenderStep \/ Broker

\* Threads in a call go on, waits end, the sender loops, no partition is skipped
\* for ever, and the broker answers unless the connection is lost.
Fairness ==
  /\ \A t \in Threads : /\ WF_vars(Send(t)) /\ WF_vars(FlushReturns(t))
                        /\ WF_vars(ClosesAccumulator(t)) /\ WF_vars(JoinReturns(t))
  /\ \A p \in Partitions : WF_vars(\E S \in SUBSET Partitions : p \in S /\ Drain(S))
  /\ WF_vars(Respond) /\ WF_vars(FailsOldest) /\ WF_vars(Connect) /\ WF_vars(SenderEnds) /\ WF_vars(Abort)
  /\ WF_vars(Clear)
  /\ WF_vars(\E i \in DOMAIN flight : BrokerHandles(i))

Spec     == Init /\ [][Next]_vars
FairSpec == Spec /\ Fairness

-----------------------------------------------------------------------------
TypeOK ==
  /\ config \in Configs /\ sends \in 0..MaxSends
  /\ pc \in [Threads -> {"idle", "begun", "alloc", "wait", "append", "flush", "closing", "join"}]
  /\ rec \in [Threads -> 0..MaxSends] /\ part \in [Threads -> Partitions]
  /\ awaited \in [Threads -> SUBSET BatchIds]
  /\ free \in Nat /\ lost \in Nat
  /\ waiters \in Seq(Records)
  /\ batch \in Seq([part : Partitions, recs : Seq(Records), attempts : Nat, open : BOOLEAN])
  /\ result \in Seq([kind : {"pending", "failed", "acked"}, at : Nat])
  /\ Len(result) = Len(batch)
  /\ dq \in [Partitions -> Seq(BatchIds)]
  /\ incomplete \subseteq BatchIds /\ muted \subseteq Partitions
  /\ running \in BOOLEAN /\ closed \in BOOLEAN /\ force \in BOOLEAN
  /\ sender \in {"run", "abort", "clear", "ended"}
  /\ up \in BOOLEAN /\ faults \in 0..MaxFaults
  /\ log \in [Partitions -> Seq(Records)]

Accepted(r) == \E b \in BatchIds : r \in Range(batch[b].recs)
Done(r) == \E b \in BatchIds : r \in Range(batch[b].recs) /\ result[b] # Pending

Holding == {t \in Threads : pc[t] = "append"}

\* A buffer is in the pool, under a batch that is not completed or with a thread
\* in append; what is lost is lost by a send that raised.
BuffersAccounted ==
  free + Cardinality(incomplete) + Cardinality(Holding) + lost = config.buffers

Places(b) ==
  (UNION {{<<"queue", p, i>> : i \in {j \in DOMAIN dq[p] : dq[p][j] = b}} : p \in Partitions})
    \union {<<"flight", i>> : i \in {j \in DOMAIN flight : b \in DOMAIN flight[j]}}

\* A batch whose future is pending is incomplete, so a flush waits for it, and
\* waits in one place only: among the batches of its partition or in flight.
NothingForgotten ==
  \A b \in BatchIds :
    /\ result[b] = Pending <=> b \in incomplete
    /\ b \in incomplete => Cardinality(Places(b)) = 1

\* Without retries, or with one request in flight, the acked batches of a
\* partition are in the log in the order they were opened, each at the offset
\* its future names, whatever failed, was sent again or came late.
AckedInOrder ==
  (Ordered \/ config.retries = 0) =>
    \A b, c \in BatchIds :
      (result[b].kind = "acked" /\ result[c].kind = "acked" /\ batch[b].part = batch[c].part) =>
        /\ SubSeq(log[batch[b].part], result[b].at + 1, result[b].at + Len(batch[b].recs))
             = batch[b].recs
        /\ b < c => result[b].at + Len(batch[b].recs) <= result[c].at

\* Whatever fails, times out or is answered late, a record is in the log at most
\* once more than the producer may retry.
CopiesBounded ==
  \A p \in Partitions : \A r \in Records :
    Cardinality({i \in DOMAIN log[p] : log[p][i] = r}) <= config.retries + 1

\* The accumulator: of its types, no buffer or batch lost, and no record sent too often.
ProducerSound == TypeOK /\ BuffersAccounted /\ NothingForgotten /\ CopiesBounded

\* A record accepted before a close began is completed.
AcceptedCompletes == \A r \in Records : (Accepted(r) /\ running) ~> Done(r)
=============================================================================
