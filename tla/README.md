# Tweet Spread: specifications and proofs

TLA+ specifications of the Twitter hashtag analysis in this repository: the
Storm topology, the Flask service that feeds it, the Django page that reads what
it writes, the two families of library bolts that ship with the backend, and the
Kafka client library vendored under `src/examples/python/kafka`. TLC checks every
module on small instances; TLAPS proves, for all instances, every invariant and
action property of the passing runs, that the topology implements its abstract
feed, and that the whole implements the abstract site. Every definition is
translated from the source; `PROJECT.json` names the lines ("map"), the runs, the
hazards and the theorems.

To check a run: `tlc -workers 2 -config MCTopology.cfg MCTopology`; to check the
proofs: `tlapm TweetSpread_proofs.tla`.

## 1. The system

    browser ── search ──> Django views.home ── connect_kafka ──> Flask app.py
       ^  timers, 2 s          │  ^ reads                            │ thread
       └── Ajax replies ───────┘  │                                  v
                            Cassandra tables               producer.py ──> topic "tweet"
                                  ^                     (pages of search.py)      │
                                  │                                               v
     CassandraWriterBolts <── sentiment, geoparsing, milestones <── json <── KafkaSpout
     topic writer <── topic-modeling <── tweets <──────────────────── ┘

| Component | State it keeps | Operations | Calls and shared state | What is hard |
|---|---|---|---|---|
| Storm topology (`StormCassandraTopology.main`, `JSONParsingBolt`, `SentimentBolt`, `GeoParsingBolt`, `MilestonesBolt`) | Committed offset in Zookeeper, the spout's offsets in flight, tuples queued between the bolts | Spout open, emit, retry, ack, commit; bolt execute; writer update | Reads the topic, updates the Cassandra tables | Replay after timeouts, late acks, poison records, worker crashes; every emit is unanchored, so nothing behind `json` is replayed |
| Topic modelling (`TweetsBolt`, `ModelingBolt`) | The list of each `TweetsBolt` task, the file `tweets.txt` | Collect a tweet, hand on a batch, save, read back, estimate, emit | A batch is a reference to the growing list; all tasks of a worker share one file | The reader iterates what the owner appends to; tasks truncate each other's file; a crash leaves the file |
| Flask service (`app.py`, `producer.py`, `search.py`) | One thread per request, its page and its KafkaProducer's buffer | Search a page, send, close | Called by the site; calls the search API; fills the topic | Concurrent threads for one hashtag, errors on later pages, asynchronous delivery |
| Django page (`views.home`, `process_search.py`, `search.html`) | Nothing on the server but the request's locals; in the browser, timers and charts | Search with its wait loop, Ajax polls, drawing of replies | Reads the tables in separate sessions; asks the service | The tables change between two reads; replies overtake each other; an endless wait |
| HDFS bolts (`AbstractHdfsBolt`, `HdfsBolt`, `SequenceFileBolt`, policies, `MoveFileAction`) | Stream, current file, sync count, rotation policy's counts | Write, sync, ack, rotate, act on the rotated file | Executor and timer thread share the stream under `writeLock` | Exceptions between the parts of a rotation, acks before syncs, crashes |
| Cassandra batching bolts (`AbstractBatchingBolt`, `CassandraBatchingBolt`, `CassandraCounterBatchingBolt`, `AstyanaxClient`) | Queue, batch thread, client contexts | Execute, take a batch, mutate each keyspace, ack or fail, cleanup | Executor, batch thread and acker | Batches partly applied, replays while an old copy waits, cleanup under the thread |
| Trident states (`CassandraState`, `CassandraMapState`, `MappedExceptionHandler`, `AstyanaxClientFactory`) | The cache and its rows, a client per worker | update in sublists, multiGet and multiPut, exception handling | Trident's coordinator replays batches; all users of a worker share a client | Sublists written and the rest not, ignored exceptions, the cache ahead of the rows, a client stopped by another user |
| Kafka producer (`producer/kafka.py`, `record_accumulator.py`, `buffer.py`, `sender.py`) | Batches per partition, the buffer pool and its waiters, muted partitions, requests in flight | send, flush, close; drain, complete, retry, expire, abort | User threads and the sender thread share batches and pool; the sender polls the client | A lock given up in the middle of `append`, timeouts of waits, retries and their order, forced close |
| Kafka client (`client_async.py`, `conn.py`, `cluster.py`) | Connections and requests in flight, completed answers not yet fired, the metadata refresh | ready, send, poll, close of idle or failed connections, refresh, add_topic | Used by the sender, by a consumer and by its heartbeat thread at once | Connections lost at any point, completion outside the lock, a flag only a future resets |
| Kafka consumer (`coordinator/base.py`, `coordinator/consumer.py`, `consumer/fetcher.py`, `consumer/group.py`, `subscription_state.py`, `assignors/range.py`) | Generation and member state, positions, fetched and drained records | poll with join, sync, automatic commit, fetch; heartbeats; leaving | Members meet in the group at its coordinator, a broker | Rebalances in the middle of anything, lost answers, late commits, stalls, crashes |

`producer.py` of the Flask service imports kafka-python; the copy of that library
in this repository is `src/examples/python/kafka`.

`StormCassandraTopology.main` uses neither the HDFS bolts nor the
`com.hmsonline.storm.cassandra` package: they are library code of the backend and
are modelled in a topology with a replaying spout.

What makes each part correct:

- **Topology**: an offset is committed only when everything below it since the
  spout began was parsed; every well-formed record read is parsed in the end; a
  table is updated no more often than the spout emitted the tweet; without crash
  or lost write every update is applied.
- **Ingest**: a thread adds each tweet at most once, in archive order, and a
  thread that closed delivered the whole archive unless a produce request failed.
- **Page**: a search's wait ends when there is a row; a poller always finds the
  row it dereferences; charts come to show the tables, but for the hour one leaves out.
- **Whole**: what two users who race can double is bounded; a search is answered
  end to end.
- **Topic modelling**: a lone modelling task models its batch and nothing else;
  no row has a text of an earlier life of the worker; every batch no fault took
  is written. Which of two batches of a hashtag is written last is open.
- **HDFS bolts**: what faults cost in acked records, files left unmoved and file
  size is bounded; moved files never change; every tuple is acked in the end.
- **Batching bolts**: acked means written; counters grow no more than sends; an
  early ack loses at most a batch per failure; every tuple is acked in the end.
- **Trident states**: a committed batch is counted exactly once by the
  transactional and opaque maps; what an ignored exception costs is bounded;
  tuples are passed on only when written; every batch is committed in the end.
- **Kafka producer**: memory is accounted for and no batch is forgotten; a record
  is in the log no more often than it was tried; acked records keep the order of
  sends where that is promised; what was accepted before a close completes.
- **Kafka client**: every future is completed once, with its own answer or an
  error; the refresh flag cannot get stuck; a topic waited for is found or given up.
- **Kafka consumer**: a committed offset covers only records that were dealt
  with; a generation shares the partitions out; no record is skipped; the group
  settles after any fault and reads everything.

## 2. Modules

| Module | Models | Stands on |
|---|---|---|
| `TweetFeed` | What the topology promises of the topic (abstract) | |
| `TweetTopic` | The topic's log, which producers append to and the topology reads | |
| `TweetTopology` | Spout, acker and worker as `main` configures them, `json`, three bolts, their writers | EXTENDS `TweetTopic`; implements `TweetFeed` |
| `TweetIngest` | Flask service, producer threads, delivery | EXTENDS `TweetTopic` |
| `SearchSession` | What a search of the site keeps | |
| `SearchPage` | Site and page over tables that may change at any time; also the abstract specification of the whole | EXTENDS `SearchSession` |
| `TweetSpread` | Everything together | EXTENDS `TweetTopology`, `TweetIngest`, `SearchSession`; implements `Site == INSTANCE SearchPage` |
| `TopicModeling` | The topic branch | |
| `HdfsBolt` | Both HDFS bolts with either rotation policy | |
| `BatchingBolt` | Both batching bolts and the client calls they make | |
| `TridentState` | `CassandraState` with its exception handler, `CassandraMapState` with its cache | |
| `KafkaProducer` | The producer, its sender thread and the broker's log | its connection is that of `KafkaClient`, up or lost |
| `KafkaClient` | Connections, requests and metadata of one client with several threads | |
| `KafkaConsumer` | A group of consumers and its coordinator | its connection is a queue of requests and answers |
| `TweetSpread_proofs`, `BatchingBolt_proofs`, `TridentState_proofs`, `HdfsBolt_proofs`, `TopicModeling_proofs`, `KafkaClient_proofs`, `KafkaProducer_proofs`, `KafkaConsumer_proofs` | Theorems | EXTEND their component |
| `MC*` | Records, archives and mappings of the small instances | EXTEND their component |

The definitions whose comment reads "A spout that forgets ...", "A bolt that
swallows ..." are no part of a next-state relation: each is a plausible mistake
in the definition below it, which the property it is listed with in
`PROJECT.json` ("mutants") rejects.

### How state and actions correspond to the code

**TweetTopology.** `log` is the topic (one partition). `zk`, `start`, `next` and
`spout` are KafkaSpout's and the acker's bookkeeping: `Open` resumes at the
committed offset or, without one, at `LatestTime` (`main` sets
`startOffsetTime`); `Commit` writes the lowest offset in flight. KafkaSpout and
`CassandraWriterBolt` are libraries, modelled from how `main` configures them.
`JsonParse` and `JsonFail` are the two ends of `JSONParsingBolt.execute`; their
parameter `live` says whether the tuple executed is the acker's current one or
one that has timed out, whose ack is ignored. Queues count tuples because the
groupings shuffle and the bolts keep nothing between tuples. `BoltExecute` is
`execute` of the three bolts; `Parts` says which updates a tweet owes, with the
early end of `GeoParsingBolt` at a coordinate that is no Double. A record is
reduced to what the bolts look at: whether it parses, its language, the sign of
its AFINN sum, its locations, whether `created_at` can be read and its hour, 0
for one outside the chart.

**TweetIngest.** A thread's `tpc` follows `Producer.run`: search a page, send its
tweets, look for `next`, close. `Deliver` is the library's sender thread;
`Loses` is a produce request that failed for good, in the topic or not: the
producer is built with the default of no retries and nobody looks at the futures
of `send`. `SendFails` is an exception of `encode`, `dumps` or `send` in the
middle of a page, which ends the thread. `SearchFails` covers an exception (the thread dies without
`close()`), and an error object, which is tested for on the first page only.

**SearchPage.** `spc` follows `views.home`. One round of the loop is two steps,
the sentiment's read and the others, because `get_topics` and the rest never
return None and only the first decides; the topology may write in between. The
value of a read is the number of updates each row has had, 0 for no row: one row
for the sentiments and for the points, one an hour for the milestones; the many
queries of `get_milestones` are one read. Its mode 1 stops a day before its mode
0 does (`Late`). `Poll` computes the server's answer,
`Show` is its arrival, in any order, and `Drawn` what is drawn of it:
`updateMilesChart` removes the first point of a series longer than `data_length`,
and `get_milestones` lists the newest hour first. The map's timer never starts when the page
was rendered without a `geoparsing` row: the script is then `var map = ;`.

**TweetSpread** adds no behaviour of its own: `Tables` computes from `written`
the tables the site reads, a step is a step of one part, and calling the service
(`AskStep`, `AskFails`) is the joint step of a session and a thread. Errors of
sessions and of threads share a bound. A call of the service that raises has
started a thread or has not. The topic branch is not in it: the page
goes on whatever `get_topics` returns.

**TopicModeling.** `OpenFile` to `EmitTopics` are the steps of
`ModelingBolt.execute`: truncating `tweets.txt`, the loop of `save` (which asks
`list.size()` anew each time), `close`, reading back, estimating. The list is the
one in `TweetsBolt`. A text is the tweet's hashtag; the bytes of two
streams mixing within one text are left out, a hole is `Gap`. `LosesTexts` is a
write to the file that fails, of which `PrintWriter` tells nobody. The writer is
built with `async(...)`, so topics at the writers are a set, of which `WriteRow`
takes any: neither tasks nor writes are ordered. `handed`, `served` and `lost`
are history: batches handed on, written, and taken by a fault.

**HdfsBolt.** One step is what happens under `writeLock`: `WriteTuple` is the
synchronized block of `execute`, `AckTuple` what follows it, `ExecutorRotates`
or `TimerRotates` is `rotateOutputFile`, with `CloseRaises`, `CreateRaises` and
`ActionRaises` for an exception at each of its calls. `MoveFileAction` ignores
what `rename` returns: `RenameRefused` is a rotation that goes on as if the file
had been moved. A record counts as one byte.

**BatchingBolt.** `Execute` is `execute` of the bolts, `TakeBatch` to `FailBatch`
are `BatchThread.run` with `executeBatch` and `writeTuples` or
`incrementCountColumns`: one mutation per keyspace in any order, one step each;
`WriteFails` leaves open whether the mutation was applied. The acks of a batch
are one step. `stopRequested` is not volatile: the thread may miss it, and
nothing interrupts its `take()`.

**TridentState.** `kind` says which state the topology was built with. The
coordinator (`Attempt`, `FailsElsewhere`, `Commit`) and the maps around
`CassandraMapState` (`UpdateValue`, `Changed`, `Lookup`, `CachePut`) are Storm's,
as `Factory.makeState` puts them together; a batch is repeated with the tuples it
had, as a transactional spout does. `WriteTuples` writes a sublist;
`MappingRaises`, `MutationRaises` and `StoppedRaises` are the three things it may
raise, of which `OnException` makes what the handler says, and no handler is one
that always fails the batch. `MultiPutRaises` kills the worker, as the
`RuntimeException` of `multiPut` does. A row is its last batch, its value and the
value before.

**KafkaProducer.** A thread in `send` goes through the two critical sections of
`append` (`FirstTry`, `SecondTry`) with `allocate` between them, where it may
wait. A wait ends by a notification or by its timeout, so any waiter may wake at
any time: in turn, out of turn (the assertion of `buffer.py:84` fails), or with
no buffer. `Drain` is `ready`, `drain` and the request built from it, `Respond`
and `FailsOldest` are the callbacks of a request with `_complete_batch` for
each batch; a lost connection (`ConnectionLost`) fails the requests one after the
other, and what threads append in between stands before or behind what is put
back. `Expire` is `abort_expired_batches`, `Abort` and `Clear` the forced
close. One broker leads all partitions. It handles requests in order, and what
was in flight when a connection was lost it may handle later, or never.
Partitioning, serializers, compression, linger, back-off and `max_request_size`
choose when and what to drain, which `Drain` leaves open.

**KafkaClient.** `BeginsConnect` to `Authenticates` are the states of
`BrokerConnection`, `Receive`, `TimesOut`, `ClosesIdle`, `ConnectFails` and
`ClosesEnd` the ways a connection goes on or ends. Four failures end neither in a
connection nor in a closed one: a handshake or credentials refused, which
`connect()` raises in every poll with the connection left in `_connecting`
(`Refuses`, `refused`: `poll` gets no further, `PollGoesOn`); a write of the SASL
handshake that fails, whose failed future is stored after `close()` has reset
`_sasl_auth_future` (`AsksFails`, `Stale`); a timeout of the PLAIN exchange, which
the callback it is raised in swallows (`ExchangeTimesOut`); and on Python 3 a
write that times out in the middle of a request, whose `socket.timeout` passes
`except ConnectionError` (`SendEscapes`, `torn`: the broker answers no request
after it, until the client finds out, `BreaksDown`). `Takes` and `Fires` are the two
halves of `_fire_pending_completed_requests`, which several threads run without
the client's lock. `MaybeRefresh` is `_maybe_refresh_metadata`, `Ages` the
passing of `metadata_max_age_ms`; `AddTopic`, `Check`, `Woken`, `GivesUp` are
`KafkaProducer._wait_on_metadata`. Back-off times are left out, a failed address
lookup is a connection that is not made, the exchange of SASL PLAIN is one step
after the mechanism was asked for, a request without an answer (`acks=0`)
completes when it is written. The client begins after its bootstrap.

**KafkaConsumer.** `pc` follows `KafkaConsumer._poll_once` of each member:
`ConsumerCoordinator.poll` and `ensure_active_group` with its commit before a
join, the committed offsets, the records already fetched, `send_fetches` (which
looks at what is buffered and then at what is in flight, in two steps), the wait,
and the records again. `Answered` is the handling of an answer, by the
application's thread or, between its steps, by the heartbeat thread, each
response by its handler. `Heartbeat` and `Leaves` are the heartbeat thread. A
generation is the present one, an older one, or none: no comparison tells older
ones apart. The group coordinator (`CompletesJoin`, `AnswersSync`, `Expires`,
`AnswersCommit`, `LateCommit`) is a broker, external. Simplified: one broker and
one connection per member; a heartbeat is answered when it is sent, and only one
that tells the member something is a step; fetches and questions for offsets are
answered when they are sent; an automatic commit is sent when it says something
new and none is in flight; partitions of a response come in the order asked for.
Left out: the iterator, pause, seek, close, assignment by hand, patterns,
changes of the metadata, the round-robin assignor. `fetched_records` is one step:
what it drains before an error of a later partition is in `dropped`.

## 3. Runs

Passing runs finish; the number of distinct states is in brackets.

| Run | Instance | Checks |
|---|---|---|
| `topology` (112 748) | 2 records of 4 kinds (two points; a point, then a bad coordinate and a bad date; another language; no JSON), branch `geoparsing`, 2 emissions, 1 fault | `TypeOK`, `CommittedWasParsed`, `WritesPaidByEmits`, `ImplementsFeed`, `ReadIsParsed`, `ParsedIsWritten` |
| `ingest` (16 419) | 2 threads, 2 hashtags, pages `<<b1,b2>>`, `<<b3>>` and one empty page, 2 errors | `CopiesPerThread`, `TopicAsArchived` |
| `search_page` (159 048) | 1 tab, 2 hours, of which the page starts with 1 and the poller shows 1, 2 replies on their way, 2 updates per row | `PageSound`, `WaitEnds`, `ChartsConverge` |
| `spread` (115 712) | 2 sessions, 2 threads, one English tweet, no replay, 1 error | `CountedOncePerThread`, `ImplementsSite`, `SearchAnswered` |
| `topics` (1 008 435) | 1 collector, 1 or 2 modelling tasks, unordered writes, batches of 2 among 4 tweets of 2 hashtags, 1 fault | `ModelingSound`, `TopicsAreFresh`, `BatchBecomesRow` |
| `hdfs` (91 623) | both bolts, size and timed policy, 3 tuples, sync every 2, 2 bytes, 2 faults | `FewAckedUnsynced`, `FilesSound`, `MovedFilesRest`, `AllAcked` |
| `batching` (736 894) | 3 tuples, 1 or 2 keyspaces configured (with 1, a tuple cannot be mapped), batches of at most 2, 2 sends, 1 fault | `TypeOK`, `AckedIsWritten`, `AppliedPaidBySends`, `LostPerFault`, `ReceivedIsAcked` |
| `trident` (213 658) | 2 batches of up to 3 tuples, one key unmappable, 4 handlers, sublists of 2 or no limit, all three map types, 2 faults | `CountedOnce`, `WritesSound`, `BatchCommits` |
| `producer` (428 109) | 2 threads, 1 partition, 3 sends, 1 fault; requests pipelined without retries, retries one at a time, or a pool of one buffer | `ProducerSound`, `AckedInOrder`, `AcceptedCompletes` |
| `client` (538 619) | 2 brokers, 2 polling threads, 1 that waits for a topic, plain or SASL over SSL, 1 request besides metadata, 1 fault | `ClientSound`, `RequestsEnd`, `TopicKnown` |
| `consumer` (249 422) | 2 members, 2 partitions of 1 record, 1 fault of one of them | `CommittedIsDone`, `GroupSound`, `ReadsInOrder`, `GroupSettles` |

A property named `...Sound` is a module's type invariant together with its
bookkeeping: `PageSound` is `PollFindsRow`; `ModelingSound`
is `ModelsItsBatch`; `FilesSound` is `FewFilesLeft` and `FilesBounded`;
`WritesSound` is `DoneIsWritten` and `EmittedIsWritten`; `ProducerSound` is
`BuffersAccounted`, `NothingForgotten` and `CopiesBounded`; `ClientSound` is
`CompletedOnce`, `OwnAnswer`, `SelectorFits` and `OneRefresh`; `GroupSound` is
`GenerationShares`; `TopicAsArchived` is `ClosedDelivered` and `ArchiveOrder`.

What they show, beyond the names:

- `topology`: however timeouts, replays, late acks and one crash interleave, the
  topology is a `TweetFeed`: the committed offset moves forward over parsed
  records only. A record that is no JSON is never passed: it is failed and
  replayed for ever and every restart begins at or before it.
- `spread`: two searches of a new hashtag may both start a producer, and
  then every tweet is counted twice; it is never more than that unless the spout
  replays. The composed system implements `SearchPage`, so what `search_page`
  shows of a page over arbitrary tables holds of the real tables; and a search
  for a hashtag with an English tweet is answered. That needs the topology to
  read before the tweets are sent (`up`, `start = 1`), because with `LatestTime`
  a later start skips them, and that nothing fails: a lost produce request or a
  failed search, call or read may leave the request waiting for ever.
- `ingest`: the order is that of the whole archive: a page's tweets are still
  being delivered when the next page's are sent, and none overtakes.
- `search_page`: whichever reply comes last, each chart ends as the tables are;
  only the milestones chart of more than `data_length` hours ends without its
  newest hour.
- `topics`: with one modelling task the shared file is harmless, across crashes
  and files left behind, unless a write to it fails in silence; with two, tasks
  read each other's texts, but no texts of an earlier life, and a batch that is not
  written was taken by a fault of its own (`lost` names the very batch), among
  them the empty file another task's truncation may leave. Rows may go back to
  older topics. `BatchBecomesRow` says again and again that all handed on
  so far are settled, within `MaxTweets`; the half of `TopicsAreFresh` about
  collectors needs several, and is only proved.
- `hdfs`: each fault, a refused rename being one, costs at most `Count - 1` acked
  records, one file never moved and one byte of excess; a failed rotation with the timed policy is mended
  by the next. With the size policy a failing `create` is not mended
  without a restart, which is why `AllAcked` is about the timer.
- `batching`: `ACK_ON_WRITE` is honoured through partly applied batches,
  replays, late copies, crashes and cleanup; `ACK_ON_RECEIVE` loses at most
  `batchMaxSize + 1` tuples per raising mutation. `AppliedPaidBySends` takes it that
  one `execute()` applies its counters at most once; the connection pool's
  fail-over (`AstyanaxClient.java:126`, `maxFailoverCount` -1), inside the
  library, may repeat one whose answer was lost. `ReceivedIsAcked` asks that all
  tuples can be mapped: one that cannot fails whatever shares its batch.
- `trident`: counting once depends on the cache dying with the worker: were the
  exception of `multiPut` a `FailedException`, as in `CassandraState`, a replay
  would find its own count in the cache and skip the row. A handler that ignores
  mapping errors loses not only the bad tuple but its sublist and all behind it.
- `producer`: a buffer is in the pool, under an incomplete batch, with a thread,
  or was lost by a `send` that raised; each record is in the log at most once for
  each attempt; acked records of a thread are in order when requests are not
  pipelined or not retried. `AcceptedCompletes` is about what was appended
  before a close began: see the observations.
- `client`: whichever thread completes a future, and wherever the connection
  breaks, a request waits in one place or is done, and answers pair with requests
  across reconnects. `RequestsEnd` holds but for a refused connection, which stops
  reading and time limits of all connections, and `TopicKnown` but for that and an
  authentication nobody completes (`Stuck`): the observations say how they come.
  One metadata request is on its way exactly while the
  refresh flag is set.
- `consumer`: at least once. Only a poll that raises makes the group pass records
  no application gets. After a fault the living members settle in one
  generation, but for the stranded ones of the next table, and what they may read
  they read.

### A run that finds a divergence

| Run | Property | What the code does |
|---|---|---|
| `consumer_stranded` | `PollIsActive`, the docstring at `coordinator/base.py:349` | A connection lost between the answers to JoinGroup and SyncGroup leaves a member unjoined with `rejoin_needed` false: it polls on in no group, without heartbeats or commits, and never joins again |

`Stranded` is that state; `GroupSettles` leaves such a member out.

### Observations

Met while modelling, part of the models, and not runs of their own:

- `StormCassandraTopology.java:46` wants all the first messages in the topic on every
  run, but `LatestTime`
  skips what the topic held before the first start.
- `FileRotationPolicy.java:32` says `reset` is called after a rotation; a rotation
  action that throws skips it.
- `CassandraBatchingBolt.java:50` takes a batch for one mutation, all or none; over
  two keyspaces it is two, of which one may be applied.
- `buffer.py:84`: a waiter that times out, or is woken, when somebody before it
  still waits takes a buffer and pops the other's condition; the assertion fails
  and the buffer is lost to the pool. `CloseBegins` and `ClosesAccumulator`: the
  sender may find `_running` false and nothing unsent, and end, before the
  accumulator is closed (`sender.py:163-164`): a batch appended between is never
  completed.
- `memory_records.py:137-138` answers `(None, 0)` for a closed batch where
  `ProducerBatch.try_append` expects None, or metadata: `append` raises while a batch
  waits to be retried.
- `conn.py` has no time limit for the state HANDSHAKE; that it ends is assumed
  below. Closing a connection fails its futures under the client's lock, which
  `client_async.py:558` avoids elsewhere, for fear of deadlocks.
- `conn.py:467`, `:489-492`, `:566-568`: a refused TLS handshake or SASL
  authentication is raised out of `connect()` with the connection left in
  `_connecting`, so that `client_async.py:537-539` raises in every poll, before
  anything is read or timed out, on any connection.
- `conn.py:481`: when the write of the SASL handshake fails, `_send` closes the connection
  and returns a failed future, which is stored over the reset one: the next
  connection waits in AUTHENTICATING for a future that is done. A timeout of the
  PLAIN exchange leaves one that is never done. In both `_connecting` does not
  empty, and `_maybe_refresh_metadata` connects to no node.
- `conn.py:754` catches `ConnectionError`, which on Python 3 `socket.timeout` is not: a
  blocking write that times out half-way leaves the connection open, and what is
  sent next is read as the rest of that request.
- `search.html:339-341`: the first point of a long milestones series is its newest
  hour, as `get_milestones` counts backwards; the commented-out version above it
  appended at the end and shifted the oldest away.
- `MoveFileAction.java:25` ignores the answer of `rename`: a file that was not moved
  looks like one that was.
- `fetcher.py:332`: `fetched_records` may raise for one partition after it moved
  the positions of others; what it had drained is returned to nobody, and later
  commits cover it (`dropped`).

## 4. Bounds

Every bound is a named constant in a guard. `MaxLog`, `MaxEmits`, `MaxPlaces`:
two records are the least for which the lowest offset in flight matters, two
emissions the least for a late ack beside a live tuple, two locations the least
for a partly emitted tweet. `MaxEmits` also stops the replay of a record that is
no JSON, which the code repeats for ever. `MaxFaults` and `MaxErrors` bound
crashes, lost writes and failing calls; one is enough for the state it leaves
behind and two, in `hdfs`, for a fault on top of an earlier one. `MaxReplies` 2
lets replies overtake each other; `MaxUpdates` 2 lets a read be stale by one
after the row exists; `LastHour` 2 with `data_length` 1 makes the chart leave an
hour out, as eleven hours and 10 would; in the composed instances the archive bounds the updates
and `MaxUpdates` only bounds the values of `Show`. `MaxTweets` 4 with `NUM_TWEET` 2
gives two batches, the second of them longer. `MaxTx` 2 and `MaxLength` 3 give a
batch after another and a shorter last sublist. `MaxSends` 2 allows a replay while
the old copy waits. In `producer` three sends from two threads fill a batch, open
another and overtake, and one buffer makes both threads wait; in `client` one
request besides the metadata's, on each of two connections, with one fault;
in `consumer` two members and partitions are the least that can be shared out in
different ways, and `Faulty` says whom faults hit: the members are alike but for
the order of the assignment. A longer log or a second fault takes the run past
what is practical. A tuple that cannot be mapped is sent `MaxSends` times only;
the timer does not rotate an open empty file (the code would create files for
ever). Deadlock is checked for `search_page` and `consumer`; the other instances stop when
their records, threads or tuples are used up.

## 5. Fairness

- *Topology*: weak fairness of `Open` (Storm's supervisor restarts the worker),
  `EmitNext`, `EmitRetry`, `Commit`, `SpoutAck`, each bolt's `execute` and each
  writer: Storm runs an executor that has a tuple.
- *Ingest*, within the whole: weak fairness of each thread's `Run` and of
  `Deliver`, a library thread that sends what it holds. A search ends with an
  answer or an error.
- *Site*: a started request goes on (`Home`, the call to the service, which
  returns or raises), timers fire (`Poll`), replies arrive (`Show`, of each chart
its own: any reply that waits, not each).
- *Whole*: the same for the threads and sessions; of the topology only that it
  goes on as long as any part of it can (`TopologyRuns`), which is less than
  fairness of each. Sessions need not search and polls are not needed for an
  answer.
- *Topic modelling*: each execution goes on, some write that was sent arrives.
- *HDFS*: the executor and the timer run; strong fairness of `WriteTuple`,
  because the replaying spout offers a failed tuple again and again while the
  stream is open now and then.
- *Batching*: the thread runs, the worker is prepared again, the spout sends
  again what failed.
- *Trident*: the coordinator repeats what failed and commits what is done, the
  task runs.
- *Producer*: a thread in a call goes on and its waits end, the sender loops and
  skips no partition for ever, the broker answers unless the connection is lost.
- *Client*: threads keep polling, so connections are established, answers
  read and broken connections found out, while no refused connection raises in
  every poll (`PollGoesOn`); the broker answers what it was asked and finishes a TLS handshake or
  fails it; a thread with a completed request fires it.
- *Consumer*: each member keeps polling and beating, the broker answers, and
  gives up dead members. Strong fairness of `SendsFetch` with nothing in flight:
  heartbeats and commits are seconds apart, so that a fetch is not always held
  back by one of them (`fetcher.py:656`).

Crashes, timeouts, exceptions, lost writes, new records, cleanup and searches
are never fair.

## 6. Proofs

`TweetSpread_proofs` is about the topology, the ingest service and the whole of
which they are part. For the topology, any records, any subset of the three
branches and any bounds, from `BranchesAssumption`, `TweetsAssumption` and
`BoundsAssumption`:

- `TypeCorrect`: `TypeOK` is inductive.
- `CommittedParsed`: `CommittedWasParsed` is not inductive: a commit moves to the
  lowest offset in flight, and nothing in it says what happened below. `SpoutInv`
  says it per offset (`OffsetInv`): a worker that is down holds nothing; what the
  spout read lies between `start` and `next`; what is in flight lies at or above
  the committed offset; what was read since `start` is parsed or pending or
  failed; acked and done mean parsed. `Commit` then passes only parsed offsets,
  and `Crash` and `Open` keep the invariant because `zk`, or a new `start`, is
  where reading begins.
- `WritesPaid`: `WritesPaidByEmits` is strengthened to `CopiesInv`, a
  conservation law: for each update, the copies applied, at the writer, at the
  bolt and at `json` are together no more than the emissions. Each action moves
  a copy along the chain or drops it; only `Emit` adds one and pays for it.
- `FeedRefinement`: with `position <- zk`, `begin <- start`, `handled <- parsed`
  each step is a step of `TweetFeed` or a stutter; the case of `Commit` needs
  `SpoutInv`, and so does that of `Open` (`start` moves only without a commit).

For the threads, any archive, any set of them and any number of errors. Of the
archive it is assumed that its pages are sequences of tweets (`ArchiveAssumption`)
and hold a tweet once (`EachOnceAssumption`: the search API numbers tweets, and a
page begins below the last one of the page before); of the rest that there is a
thread and that errors are counted (`ThreadsAssumption`, `ErrorsAssumption`).

- `CopiesPaid`, `ArchivedInOrder`: neither invariant is inductive, since neither
  says where a record came from. `ThreadInv` does (`TraceInv`): each record of the
  topic and of a buffer has a place of its own, a thread, a page and a position,
  where the archive holds it; a thread's places rise along the topic and then its
  buffer (`Behind`), end where the thread is (`Waiting`), and leave out none but where
  a request was lost (`Gapless`, `Unbroken`). Searching and sending extend the places
  at their end; a delivery moves one from a buffer to the topic. `CopiesPerThread`
  follows because a hashtag's places with one tweet are as many as threads,
  `TopicAsArchived` because what is gapless and at its end is the archive.

For the page, any hashtags, sessions and bounds, from `PageBounds`:

- `PageIsSound`: `PageSound`, with the types, that a session which shows or
  polls a page finds the rows it will dereference. It is strengthened by
  `ReadIsBehind`: what a request has read is never ahead of the tables, so that the
  row its sentiments came from is still there when the page is rendered; that
  tables only grow carries both over the topology's writes.

For the whole, from all of these and from `KeysAssumption` (the key of a record is the
hashtag that was searched, `producer.py:34`) and `UpdatesAssumption` (the bound
`SearchPage` sets to updates is no tighter than the bounds of the topology, so that
it refuses no write):

- `ChartsCountOnce`: `CountedOncePerThread` joins `TraceInv` with `WritesPaidByEmits`
  by way of `RecordInv`: whatever waits behind `json`, or is written, belongs to a
  record of the topic and to a part its branch owes for it. So a table's count is
  of distinct records, each once, each with a place of its own.
- `SiteRefinement`: the whole implements `SearchPage`, with the computed tables for
  `tables`. A write adds one to one cell of one hashtag's tables (`WriteTables`), since
  the copies counted for a cell are a set to which it adds one element, and no
  record is of two hashtags or of two hours; when the record is in no table
  that is shown, it is a stutter. A record that joins the topic changes
  no table, as nothing has been written for it (`RecordInv`). That a write stays
  within `MaxUpdates` needs `EmitsInv`: an offset is emitted `MaxEmits` times, and
  once more for each life of the worker, of which faults allow few.

`BatchingBolt_proofs` is for any tuples, mapping, configuration and limit, from
`KeyspacesAssumption` and `LimitsAssumption`. Every safety property of the component
is proved.

- `TypeCorrect`, with the bound of a batch: `drainTo` adds up to `batchMaxSize`
  to the tuple `take` returned, so batches have at most one more.
- `AckedWritten`: `AckedIsWritten` is strengthened by `BatchInv`: while the
  thread writes, the tuples of the batch whose keyspace is no longer in `todo`
  are applied; when it acks, all are. That also covers the ack of a copy whose
  tuple has since been sent again: only the current copy's ack counts, and it is in
  the batch that was applied.
- `AppliedPaid`: `AppliedPaidBySends` is strengthened to `PaidInv`, again a
  conservation law: for each tuple, the times it was applied, its copies in the
  queue and what the batch has still to write of it are together no more than
  its sends. `TakeBatch` moves copies from the queue to the batch, a mutation
  from what is owed to what is applied, and only `Execute` adds one and pays.
- `LostPaid`: `LostPerFault` is strengthened by `BoltInv` (what the thread holds in
  each of its states) and by `LossInv`: a thread about to die of a mutation that
  raised has, already, the price of its batch to its credit, which the next step
  spends. A tuple of that batch which was lost before is not counted twice, and
  one written or sent again is lost no more.

`TridentState_proofs` is for any keys, handlers, sizes and bounds, from
`ChoiceAssumption` and `TridentBounds`. Every safety property of the component
is proved.

- `CountsOnce`: `CountedOnce` speaks of the moment between two batches, and is
  strengthened to `RowInv`, which says of each key, at any moment, that the cache
  agrees with the row, that the row has the committed count, or that and what the
  batch has of the key if this batch wrote it (`Sound`), and that it has both where
  the attempt has nothing left to put (`Updated`). `UpdateCounts` is the heart:
  each type of map makes of a sound row an updated one, the opaque map out of the
  value before when the batch has written already.
- `WritesAreSound`: `WritesSound` is strengthened to `WriteInv`: what the attempt
  is done with is written, it is done with whole sublists until the last, and a
  batch that counts as written is done or `Stuck` at an unmappable tuple, behind
  whose sublist nothing is promised. The step from a position to a sublist is
  `DivBounds`.

`HdfsBolt_proofs` is for any kinds, policies, tuples, sync count, size limit and
number of faults, from `BoltAssumption`. Every safety property of the component
is proved.

- `FilesAreSound`: `FilesSound` has the types and two parts. `FewFilesLeft` is
  strengthened by `FilesInv`: neither the open file nor the one a rotation has
  set as current is moved, a file left behind (by an action that raised or a
  rename refused) has cost a fault, and a stream left closed one that left
  no file yet. `FilesBounded` is strengthened by `SizeInv`: between two tuples
  the open file is below the limit but for the executions that failed, and
  what the policy is about to see of it is not less than what it holds.
- `MovedRest`: `MovedFilesRest` follows from `FilesInv`, step by step: writes and
  syncs go to the open file, a move to the current one.
- `FewLost`: `FewAckedUnsynced` is strengthened to `LossInv`, which splits the
  acked tuples on no disk into those the open file still buffers, at most
  `Count - 1` and at most `executeCount`, and those that are gone: each fault,
  and a stream left closed, pays for `Count - 1` of them. A sync empties the first
  part, and a fault moves at most all of it to the second.

`TopicModeling_proofs` is for any hashtags, tasks, batch size and bounds, from
`TopicAssumption`.

- `ModelsBatches`: `ModelingSound`, the types and `ModelsItsBatch`. Two invariants
  carry it. `ListInv`, for any number of tasks: batches, waiting or worked on, and
  what a save took are no longer than the list they refer to, which only grows
  until a crash forgets all three; a task the topology does not have never gets
  a batch. `SaveInv`, for the only task: while it saves, `tweets.txt` holds what was
  flushed, a beginning of the list; once closed, no less than the batch; what
  is read is a beginning of it. The truncation that opens the file establishes
  it, so nothing is said of the file between two batches, or after a crash, and
  nothing of an execution that has missed texts (`missed`).
- `FreshTopics`: `TopicsAreFresh`, by `FreshInv`: whatever holds texts (a file that
  an execution has truncated, what it read, topics on their way, rows) has none an
  earlier life left, and with one task only those of the collector's hashtags.
  The second half needs to know that a lone task's file has no gap, that is, is as
  long as what was flushed and not missed, and `RouteInv`: a batch refers to the list
  its hashtag is routed to. A crash turns the file into leftovers when no execution is
  there to read it, and rows keep what they had.

`KafkaClient_proofs` is for any connections, threads, settings and bounds, from
`ClientAssumption`. Every safety property of the component is proved.

- `ClientBookkeeping`: `ClientSound`, of which only `SelectorFits` is inductive.
  That a pending request is in one place (`CompletedOnce`) and gets its own answer
  (`OwnAnswer`) are strengthened to `Placed` and `Paired`. `Placed` spreads the
  pending requests over the connections, the queue of completions and the threads
  that fire, each in one; `Spread` says so of four abstract sets, so that the lemmas
  of moving one request or all of a connection are about sets only. `Paired` says
  that what a connection wrote and not yet read answered is, in order, its
  requests in flight, or their beginning where a write broke off (`Fits`): the code
  pairs answers with requests by their position. For
  `OneRefresh`, `Refreshing` adds that a connection that is not ready has only
  requests of the SASL exchange in flight, and so loses no refresh.

`KafkaProducer_proofs` is for any threads, partitions, settings and bounds, from
`ProducerAssumption`. Every safety property of the component is proved.

- `ProducerAccounts`: `ProducerSound`. `NothingForgotten` is strengthened to
  `Placed`: a batch is once in the queue of its partition, or in one request, which
  has one batch of each partition, closed; while the sender runs, the batches in
  queues and requests are those not completed. `BuffersAccounted` needs that to
  know that a completed batch was incomplete before, so that its buffer comes
  back once. `CopiesBounded` is strengthened to `Counted`, a conservation law per
  batch and record: the copies in the log, the requests of lost connections that
  may yet add one, and the one in flight if the broker has not come to it, are
  together no more than the attempts made. It needs `Recorded` (a record is with
  one thread or in one batch, once) and `Gathered` (what is in a log is of a
  closed batch, so that no record joins it later).
- `OrderKept`: `AckedInOrder` is strengthened by `Settled`, for any settings: what
  the broker said it took of a batch, and the future or the answer under way
  says, is at its offset, because logs only grow; and by `Sorted`, for one
  request in flight or no retries: batches of a queue rise, those sent come
  before those queued, those acknowledged before both, and offsets rise with the
  batches. A broker that handles requests in order (`InTurn`) takes none before
  an older one it has answered; putting a batch back in front keeps the queue
  sorted because nothing else of its partition is in flight.

`KafkaConsumer_proofs` is for any members, partitions, records, `max_poll_records`,
faults and members they happen to, from `ConsumerAssumption`: a topic has partitions,
numbered from 0, and members have an order, which is all that the range assignor asks
of their names. Every safety property of the component is proved.

- `RoundsSuffice`: the loop of `fetched_records` is a recursive function over rounds,
  with a number of rounds that must be enough. `RoundEnds` proves that it is, by a
  measure: each round takes a segment off the queue, or empties or forgets the current one,
  or fills what is handed out. What all rounds preserve (`RoundKeeps`, `Fetches`) is
  proved by induction over the rounds. The induction is that of the lemma `Induction`,
  about sets of numbers, which follows from the least element of a set (`HasLeast`).
- `CommittedDone`: nothing in `CommittedIsDone` says where a commit comes from.
  `OffsetsInv` says, for whatever carries an offset (a commit in flight, one the
  coordinator handles late, the group's own offsets, an answer to the question
  for them, a member's position), that all records before it are dealt with. For the position they
  are dealt with or in the application's hands, and what it has in hand lies before the position; the
  hands are empty wherever a commit may be made (`HandOf`), so that a commit
  never covers them. `TypeInv` adds to the types which values each kind of request carries.
- `GroupShares`: a stable member of the present generation reads what the plan gives
  it (`Shares`), and the plan gives every partition to a member (`AllShared`). That
  an answer of the present generation is in step with the plan (`InStep`)
  carries both over answers in flight: one from an older generation says nothing, and no plan
  is replaced while its generation is the present one. That the assignor gives each
  partition to one member is `RangeAssigns`. `PlaceInv` says what a thread may have in
  flight where it stands: waiting for its group, one join or sync and nothing else.
- `OrderRead`: an action property; with `TypeInv`, from what `Fetches` says of the
  records handed out: those from the old position to the new, of each partition.

Only model-checked: liveness (`ReadIsParsed`, `ParsedIsWritten`, `WaitEnds`,
`ChartsConverge`, `SearchAnswered`, `BatchBecomesRow`, `AllAcked`,
`ReceivedIsAcked`, `BatchCommits`, `AcceptedCompletes`, `RequestsEnd`,
`TopicKnown`, `GroupSettles`), which needs fairness and ENABLED.
`PollIsActive` is false, and a run shows it.

## 7. What is abstracted

AFINN scoring is a sign, MALLET's model the texts it was computed from, a record
one byte, a row the number of its updates; layout, chart drawing, the Twitter
timeline, file and record formats, tuple mappers and serializers are left out.
Kafka's broker, KafkaSpout, the acker, the worker process, KafkaProducer,
`CassandraWriterBolt`, Trident's coordinator and maps, Cassandra itself, the
search API and the processes that crash are external: modelled as far as the code
relies on them, and marked so in the map. `TweetIngest` has the producer as it
behaves for one thread with default settings; `KafkaProducer` has it whole. The topic has one
partition and the topology one worker.

## 8. Not modelled, and what is left

Not modelled: Trident's functions and queries but for the client they share and
stop (they read or write one tuple and keep nothing); tuple mappers and
exceptions (pure conversions); the lookup and writer bolts of `com.hmsonline`
(stateless, unused); record and file name formats; stand-alone programs
(`TopicModel.main`, `Query`, `BingMapsLookup`, ...); generated Django files,
assets and examples. Of kafka-python: the second copy `kafka_fix`, the same code
with other import paths; the deprecated `SimpleClient` with its producers and
consumers; the wire formats, codecs, metrics, partitioners, administration,
GSSAPI, bootstrap and version probing. These, above all the two copies of the
protocol's structures, are most of the repository's lines: the map covers the
program's own logic and the core of the library, and a small share of all lines.

Order of the work, the most important behaviour first:

1. Topology and its abstract feed, with proofs. Done.
2. Ingest, page, and the whole composed. Done, with proofs of their safety and of
   the refinement.
3. Topic modelling, HDFS bolts, batching bolts, Trident states. Done; the safety
   of all four proved.
4. Kafka producer, client and consumer. Done; the safety of all three proved.
5. Left, as models: the locks of a consumer's two threads and of its client
   together (`client_async.py:558`); several brokers under producer and consumer.
