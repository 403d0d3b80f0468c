---------------------------- MODULE TweetTopology ----------------------------
(***************************************************************************)
(* The Storm topology of backend/.../topology/StormCassandraTopology.java: *)
(* one KafkaSpout on the topic "tweet", JSONParsingBolt, the bolts that    *)
(* subscribe to it (sentiment, geoparsing, milestones) and the Cassandra   *)
(* writer bolt behind each of them.                                        *)
(*                                                                         *)
(* Every bolt emits unanchored, so the tuple tree of a spout tuple ends at *)
(* "json": a message is replayed until json acks it, and nothing behind    *)
(* json is ever replayed.  The groupings between these bolts are shuffles  *)
(* over several tasks and the bolts keep no state between tuples, so a     *)
(* queue is a bag: it counts the tuples of each message waiting at a bolt. *)
(***************************************************************************)
EXTENDS TweetTopic

CONSTANTS
  Branches,   \* the bolts subscribed to "json" in this instance
  MaxPlaces,  \* bound: locations of one tweet
  MaxLog,     \* bound: length of the topic
  MaxEmits,   \* bound: emissions of an offset after which it is not replayed
  MaxFaults   \* bound: worker crashes and lost Cassandra writes

AllBranches == {"sentiment", "geoparsing", "milestones"}

\* What the bolts look at in a record.  json: the value parses to a JSON object;
\* english: it has a text and lang is "en"; mood: sign of the text's AFINN sum;
\* places: what the entries of user.derived.locations hold ("bad": coordinates
\* that are no Doubles); created: the hour of created_at, numbered as the site charts
\* them from 1, or NoDate when it does not parse.
NoDate == -1

IsTweet(m) ==
  /\ m.hashtag \in Hashtags
  /\ m.json \in BOOLEAN
  /\ m.english \in BOOLEAN
  /\ m.mood \in {"pos", "neg", "neu"}
  /\ m.places \in Seq({"point", "none", "bad"}) /\ Len(m.places) <= MaxPlaces
  /\ m.created \in Nat \union {NoDate}

ASSUME BranchesAssumption == Branches \subseteq AllBranches
ASSUME TweetsAssumption   == \A m \in Tweets : IsTweet(m)
ASSUME BoundsAssumption   == /\ MaxPlaces \in Nat \ {0}
                             /\ MaxLog \in Nat
                             /\ MaxEmits \in Nat
                             /\ MaxFaults \in Nat

NoOffset == 0

VARIABLES
  up,       \* the worker process runs
  zk,       \* offset the spout committed to Zookeeper, NoOffset before the first
  start,    \* offset at which the spout last began without a committed one
  next,     \* offset the spout reads next
  spout,    \* per offset, what the spout and the acker know of its last tuple
  emits,    \* per offset, how often the spout emitted it
  jsonq,    \* per offset, tuples waiting at "json"
  parsed,   \* offsets json has emitted downstream
  boltq,    \* per branch and offset, tuples waiting at the branch's bolt
  writeq,   \* per branch, offset and part, updates waiting at its writer bolt
  written,  \* per branch, offset and part, times Cassandra applied the update
  faults    \* crashes and lost writes so far

feed   == <<zk, start, next, spout, emits>>
queues == <<jsonq, boltq, writeq>>
vars   == <<log, up, feed, queues, parsed, written, faults>>

Offsets == 1..MaxLog
PartIds == 1..MaxPlaces

TypeOK ==
  /\ log \in Seq(Tweets) /\ Len(log) <= MaxLog
  /\ up \in BOOLEAN
  /\ zk \in 0..(MaxLog + 1)
  /\ start \in 1..(MaxLog + 1)
  /\ next \in 1..(MaxLog + 1)
  /\ spout \in [Offsets -> {"unread", "pending", "acked", "failed", "done"}]
  /\ emits \in [Offsets -> Nat]
  /\ jsonq \in [Offsets -> Nat]
  /\ parsed \subseteq Offsets
  /\ boltq \in [Branches -> [Offsets -> Nat]]
  /\ writeq \in [Branches -> [Offsets -> [PartIds -> Nat]]]
  /\ written \in [Branches -> [Offsets -> [PartIds -> Nat]]]
  /\ faults \in 0..MaxFaults

-----------------------------------------------------------------------------
(* The updates a bolt emits for a tweet, numbered. *)

\* SentimentBolt.execute: one tuple for a tweet in English, whatever its mood.
SentimentParts(m) == IF m.english THEN {1} ELSE {}

\* MilestonesBolt.execute: one tuple when created_at parses.
MilestoneParts(m) == IF m.created # NoDate THEN {1} ELSE {}

\* GeoParsingBolt.execute emits a tuple for each location with coordinates and
\* stops, failing its input, at the first whose coordinates are no Doubles.
GeoParts(m) ==
  {i \in DOMAIN m.places : /\ m.places[i] = "point"
                           /\ \A j \in 1..i : m.places[j] # "bad"}

Parts(b, m) ==
  CASE b = "sentiment"  -> SentimentParts(m)
    [] b = "milestones" -> MilestoneParts(m)
    [] b = "geoparsing" -> GeoParts(m)

EmptyQueues ==
  /\ jsonq'  = [o \in Offsets |-> 0]
  /\ boltq'  = [b \in Branches |-> [o \in Offsets |-> 0]]
  /\ writeq' = [b \in Branches |-> [o \in Offsets |-> [i \in PartIds |-> 0]]]

Init ==
  /\ log = <<>>
  /\ up = FALSE
  /\ zk = NoOffset /\ start = 1 /\ next = 1
  /\ spout  = [o \in Offsets |-> "unread"]
  /\ emits  = [o \in Offsets |-> 0]
  /\ jsonq  = [o \in Offsets |-> 0]
  /\ parsed = {}
  /\ boltq  = [b \in Branches |-> [o \in Offsets |-> 0]]
  /\ writeq = [b \in Branches |-> [o \in Offsets |-> [i \in PartIds |-> 0]]]
  /\ written = writeq
  /\ faults = 0

\* A producer's record reaches the topic.
Publish(m) ==
  /\ Len(log) < MaxLog
  /\ log' = Append(log, m)
  /\ UNCHANGED <<up, feed, queues, parsed, written, faults>>

-----------------------------------------------------------------------------
(* The spout, its acker and the worker process. *)

\* A spout that ignores the committed offset.
OpenIgnoringZk ==
  /\ ~up
  /\ up' = TRUE
  /\ next' = Len(log) + 1
  /\ IF zk = NoOffset THEN start' = next' ELSE UNCHANGED start
  /\ UNCHANGED <<log, zk, spout, emits, queues, parsed, written, faults>>

\* The spout opens: it resumes at the committed offset or, without one, at
\* startOffsetTime, which main sets to LatestTime: the end of the topic.
Open ==
  /\ ~up
  /\ up' = TRUE
  /\ IF zk = NoOffset
       THEN start' = Len(log) + 1 /\ next' = Len(log) + 1
       ELSE next' = zk /\ UNCHANGED start
  /\ UNCHANGED <<log, zk, spout, emits, queues, parsed, written, faults>>

\* The worker dies with every tuple in it.
Crash ==
  /\ up /\ faults < MaxFaults
  /\ up' = FALSE
  /\ spout' = [o \in Offsets |-> "unread"]
  /\ EmptyQueues
  /\ faults' = faults + 1
  /\ UNCHANGED <<log, zk, start, next, emits, parsed, written>>

Emit(o) ==
  /\ spout' = [spout EXCEPT ![o] = "pending"]
  /\ emits' = [emits EXCEPT ![o] = @ + 1]
  /\ jsonq' = [jsonq EXCEPT ![o] = @ + 1]
  /\ UNCHANGED <<log, up, zk, start, boltq, writeq, parsed, written, faults>>

EmitNext ==
  /\ up /\ next <= Len(log)
  /\ next' = next + 1
  /\ Emit(next)

\* A failed offset is emitted again, however often it failed.
EmitRetry(o) ==
  /\ up /\ spout[o] = "failed"
  /\ emits[o] < MaxEmits
  /\ Emit(o)
  /\ UNCHANGED next

\* topology.message.timeout.secs passes before the ack reaches the spout.  The
\* tuple may still wait at json: it will be executed, and its ack ignored.
Timeout(o) ==
  /\ spout[o] \in {"pending", "acked"}
  /\ emits[o] < MaxEmits
  /\ spout' = [spout EXCEPT ![o] = "failed"]
  /\ UNCHANGED <<log, up, zk, start, next, emits, queues, parsed, written, faults>>

SpoutAck(o) ==
  /\ spout[o] = "acked"
  /\ spout' = [spout EXCEPT ![o] = "done"]
  /\ UNCHANGED <<log, up, zk, start, next, emits, queues, parsed, written, faults>>

\* A spout that forgets what failed.
InFlightPending == {o \in Offsets : spout[o] \in {"pending", "acked"}}

\* Offsets the spout has emitted and not seen acked.
InFlight == {o \in Offsets : spout[o] \in {"pending", "acked", "failed"}}

\* Everything below offset o is done.
Completed(o) ==
  IF InFlight = {} THEN o = next
                   ELSE o \in InFlight /\ \A q \in InFlight : o <= q

\* The periodic commit, skipped while it would change nothing.
Commit ==
  /\ up
  /\ \E o \in 1..(MaxLog + 1) :
       /\ Completed(o)
       /\ o # IF zk = NoOffset THEN start ELSE zk
       /\ zk' = o
  /\ UNCHANGED <<log, up, start, next, spout, emits, queues, parsed, written, faults>>

-----------------------------------------------------------------------------
(* The bolts. *)

\* JSONParsingBolt.execute, the value parses: emit to every subscriber, ack.
\* The tuple executed is the live one or one whose tree has timed out.
JsonParse(o, live) ==
  /\ jsonq[o] > 0 /\ log[o].json
  /\ jsonq' = [jsonq EXCEPT ![o] = @ - 1]
  /\ boltq' = [b \in Branches |-> [boltq[b] EXCEPT ![o] = @ + 1]]
  /\ parsed' = parsed \union {o}
  /\ IF live
       THEN spout[o] = "pending" /\ spout' = [spout EXCEPT ![o] = "acked"]
       ELSE (spout[o] = "pending" => jsonq[o] > 1) /\ UNCHANGED spout
  /\ UNCHANGED <<log, up, zk, start, next, emits, writeq, written, faults>>

\* A json bolt that acks in a finally block.
JsonFailAcks(o, live) ==
  /\ jsonq[o] > 0 /\ ~log[o].json
  /\ jsonq' = [jsonq EXCEPT ![o] = @ - 1]
  /\ IF live
       THEN spout[o] = "pending" /\ spout' = [spout EXCEPT ![o] = "acked"]
       ELSE (spout[o] = "pending" => jsonq[o] > 1) /\ UNCHANGED spout
  /\ UNCHANGED <<log, up, zk, start, next, emits, boltq, writeq, parsed, written, faults>>

\* JSONParsingBolt.execute, the parser throws: fail.
JsonFail(o, live) ==
  /\ jsonq[o] > 0 /\ ~log[o].json
  /\ jsonq' = [jsonq EXCEPT ![o] = @ - 1]
  /\ IF live
       THEN spout[o] = "pending" /\ spout' = [spout EXCEPT ![o] = "failed"]
       ELSE (spout[o] = "pending" => jsonq[o] > 1) /\ UNCHANGED spout
  /\ UNCHANGED <<log, up, zk, start, next, emits, boltq, writeq, parsed, written, faults>>

\* A bolt that swallows its input.
BoltExecuteDrops(b, o) ==
  /\ boltq[b][o] > 0
  /\ boltq' = [boltq EXCEPT ![b][o] = @ - 1]
  /\ UNCHANGED <<log, up, feed, jsonq, writeq, parsed, written, faults>>

\* A bolt that emits a location once more for each one after the first.
BoltExecuteAgain(b, o) ==
  /\ boltq[b][o] > 0
  /\ boltq' = [boltq EXCEPT ![b][o] = @ - 1]
  /\ writeq' = [writeq EXCEPT ![b][o] =
                  [i \in PartIds |-> IF i \in Parts(b, log[o]) THEN @[i] + i ELSE @[i]]]
  /\ UNCHANGED <<log, up, feed, jsonq, parsed, written, faults>>

\* execute of SentimentBolt, GeoParsingBolt or MilestonesBolt.  Whether it ends
\* in ack or fail makes no difference: its input belongs to no tuple tree.
BoltExecute(b, o) ==
  /\ boltq[b][o] > 0
  /\ boltq' = [boltq EXCEPT ![b][o] = @ - 1]
  /\ writeq' = [writeq EXCEPT ![b][o] =
                  [i \in PartIds |-> IF i \in Parts(b, log[o]) THEN @[i] + 1 ELSE @[i]]]
  /\ UNCHANGED <<log, up, feed, jsonq, parsed, written, faults>>

\* A writer that takes two tuples for each UPDATE it runs.
WriteTakesTwo(b, o, i) ==
  /\ writeq[b][o][i] > 0
  /\ writeq' = [writeq EXCEPT ![b][o][i] = @ - 2]
  /\ written' = [written EXCEPT ![b][o][i] = @ + 1]
  /\ UNCHANGED <<log, up, feed, jsonq, boltq, parsed, faults>>

\* The branch's CassandraWriterBolt runs its UPDATE.
Write(b, o, i) ==
  /\ writeq[b][o][i] > 0
  /\ writeq' = [writeq EXCEPT ![b][o][i] = @ - 1]
  /\ written' = [written EXCEPT ![b][o][i] = @ + 1]
  /\ UNCHANGED <<log, up, feed, jsonq, boltq, parsed, faults>>

\* The UPDATE fails: the writer fails its tuple, which nothing replays.
LoseWrite(b, o, i) ==
  /\ writeq[b][o][i] > 0 /\ faults < MaxFaults
  /\ writeq' = [writeq EXCEPT ![b][o][i] = @ - 1]
  /\ faults' = faults + 1
  /\ UNCHANGED <<log, up, feed, jsonq, boltq, parsed, written>>

-----------------------------------------------------------------------------
SpoutStep ==
  \/ Open \/ Crash \/ EmitNext \/ Commit
  \/ \E o \in Offsets : EmitRetry(o) \/ Timeout(o) \/ SpoutAck(o)

BoltStep ==
  \E o \in Offsets :
    \/ \E live \in BOOLEAN : JsonParse(o, live) \/ JsonFail(o, live)
    \/ \E b \in Branches :
         \/ BoltExecute(b, o)
         \/ \E i \in PartIds : Write(b, o, i) \/ LoseWrite(b, o, i)

Topology == SpoutStep \/ BoltStep

Next == Topology \/ \E m \in Tweets : Publish(m)

\* Storm runs every executor that has a tuple, and the supervisor restarts a
\* dead worker.  Crashes, timeouts, lost writes and records need not happen.
Fairness ==
  /\ WF_vars(Open) /\ WF_vars(EmitNext) /\ WF_vars(Commit)
  /\ \A o \in Offsets :
       /\ WF_vars(EmitRetry(o)) /\ WF_vars(SpoutAck(o))
       /\ WF_vars(\E live \in BOOLEAN : JsonParse(o, live))
       /\ WF_vars(\E live \in BOOLEAN : JsonFail(o, live))
       /\ \A b \in Branches :
            /\ WF_vars(BoltExecute(b, o))
            /\ \A i \in PartIds : WF_vars(Write(b, o, i))

Spec     == Init /\ [][Next]_vars
FairSpec == Spec /\ Fairness

-----------------------------------------------------------------------------
\* What the spout and json promise of the topic: see TweetFeed.
Feed == INSTANCE TweetFeed WITH begin <- start, position <- zk, handled <- parsed

\* The topology implements the feed: however timeouts, replays, late acks and
\* crashes interleave, the committed offset only moves forward, and only over
\* records json has parsed.
ImplementsFeed == Feed!Spec

\* An offset is committed only after json has parsed every record between it
\* and the point where the spout began: a record json cannot parse is never
\* passed over by JSONParsingBolt, and no crash loses a record between the two.
CommittedWasParsed ==
  zk # NoOffset => \A o \in Offsets : start <= o /\ o < zk => o \in parsed

\* A tweet is counted, located or charted more than once only when the spout
\* emitted it more than once: the bolts and writers never multiply a tuple.
WritesPaidByEmits ==
  \A b \in Branches, o \in Offsets, i \in PartIds : written[b][o][i] <= emits[o]

\* Every well-formed record the spout has passed is parsed in the end, through
\* timeouts and crashes, unless a crash before the first commit skips it.
ReadIsParsed ==
  \A o \in Offsets :
    (o < next /\ start <= o /\ log[o].json) ~> (o \in parsed \/ o < start)

\* Once json has parsed a tweet every update its bolts owe is applied, if the
\* worker does not crash and no write is lost.
ParsedIsWritten ==
  \A b \in Branches, o \in Offsets, i \in PartIds :
    (o \in parsed /\ i \in Parts(b, log[o])) ~> (written[b][o][i] > 0 \/ faults > 0)
=============================================================================
