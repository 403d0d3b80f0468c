----------------------------- MODULE TweetSpread -----------------------------
(***************************************************************************)
(* The whole system: a search of the site (SearchPage) that finds no       *)
(* sentiments asks the Flask service for the hashtag, a producer thread    *)
(* (TweetIngest) sends the archive's tweets to the topic, the topology     *)
(* (TweetTopology) turns them into updates of the tables, and the page     *)
(* reads these.                                                            *)
(***************************************************************************)
EXTENDS TweetTopology, TweetIngest, SearchSession

\* The key of a record is the hashtag its thread was started for, and JSONParsingBolt
\* emits it as the hashtag.
ASSUME KeysAssumption ==
  \A h \in Hashtags : \A n \in DOMAIN Archive[h] : \A k \in DOMAIN Archive[h][n] :
    Archive[h][n][k].hashtag = h

\* SearchPage bounds the updates of a table: here no tighter than the bounds of the
\* topology do, which end the retries of an offset and the lives of the worker.
ASSUME UpdatesAssumption ==
  MaxUpdates \in Nat /\ MaxUpdates >= MaxLog * (MaxPlaces * (MaxEmits + MaxFaults + 1))

topologyVars == <<log, up, feed, queues, parsed, written, faults>>
allVars      == <<topologyVars, threadVars, sessionVars>>

-----------------------------------------------------------------------------
(* The tables, as the statements of main leave them. *)

\* How many updates of branch b are applied for the tweets of a set of offsets.
Applied(b, os) ==
  IF b \in Branches
    THEN Cardinality(UNION {{<<o, i, n>> : n \in 1..written[b][o][i]} : o \in os, i \in PartIds})
    ELSE 0

\* The branch that writes a table, and the row a record is counted in.
BranchOf(p) == IF p = "sentiments" THEN "sentiment" ELSE p
RowOf(p, m) == IF p = "milestones" THEN m.created ELSE 1

\* Offsets of the records of a hashtag, and those that are counted in a row.
OffsetsOf(h)   == {o \in 1..Len(log) : log[o].hashtag = h}
InRow(h, p, k) == {o \in OffsetsOf(h) : RowOf(p, log[o]) = k}

Tables ==
  [h \in Hashtags |->
     [p \in Panels |-> [k \in Hours |-> Applied(BranchOf(p), InRow(h, p, k))]]]

Site == INSTANCE SearchPage WITH tables <- Tables, Queries <- Hashtags

-----------------------------------------------------------------------------
SpreadInit ==
  /\ Init
  /\ IngestInit
  /\ spc = [s \in Sessions |-> "idle"]
  /\ query \in [Sessions -> Hashtags]
  /\ asked = [s \in Sessions |-> FALSE]
  /\ read = [s \in Sessions |-> [p \in Panels |-> Site!NoRow]]
  /\ polling = [s \in Sessions |-> {}]
  /\ shown = [s \in Sessions |-> [p \in Panels |-> Site!NoRow]]
  /\ replies = [s \in Sessions |-> [p \in Panels |-> {}]]

TopologyStep == Topology /\ UNCHANGED <<threadVars, sessionVars>>

\* A producer thread's own steps.
ThreadStep(t) ==
  (Run(t) \/ Drop(t)) /\ UNCHANGED <<topologyVars, sessionVars>>

\* A producer that keeps a record it has delivered.
DeliverStepKeeps(t) ==
  /\ Len(log) < MaxLog
  /\ buffer[t] # <<>> /\ log' = Append(log, Head(buffer[t]))
  /\ UNCHANGED <<up, feed, queues, parsed, written, faults, threadVars, sessionVars>>

\* A record leaves a producer's buffer for the topic.
DeliverStep(t) ==
  /\ Len(log) < MaxLog
  /\ Deliver(t)
  /\ UNCHANGED <<up, feed, queues, parsed, written, faults, sessionVars>>

\* A request of a producer fails: its records are in the topic, or they are not.
LoseStep(t) ==
  /\ Loses(t)
  /\ Len(log') <= MaxLog
  /\ UNCHANGED <<up, feed, queues, parsed, written, faults, sessionVars>>

\* A session's own steps.
SessionStep(s) ==
  /\ Site!Search(s) \/ Site!Home(s) \/ Site!Browser(s)
  /\ UNCHANGED <<topologyVars, threadVars>>

\* A read of a session raises; such errors share the bound of failed searches.
SessionFails(s) ==
  /\ Site!ReadFails(s)
  /\ errors < MaxErrors /\ errors' = errors + 1
  /\ UNCHANGED <<topologyVars, tpc, topic, page, sent, buffer, lost>>

\* A call the service answers without starting a thread.
AskStepLost(s) == Site!ConnectKafka(s) /\ UNCHANGED <<topologyVars, threadVars>>

\* A session that starts a thread and does not go on.
AskStepStays(s) ==
  /\ spc[s] = "kafka"
  /\ asked' = [asked EXCEPT ![s] = TRUE]
  /\ \E t \in Threads : Start(t, query[s])
  /\ UNCHANGED <<topologyVars, spc, query, read, polling, shown, replies>>

\* The site calls the service, which starts a thread.
AskStep(s) ==
  /\ Site!ConnectKafka(s)
  /\ \E t \in Threads : Start(t, query[s])
  /\ UNCHANGED topologyVars

\* The call raises: a thread was started or was not.
AskFails(s) ==
  /\ Site!ConnectFails(s)
  /\ errors < MaxErrors /\ errors' = errors + 1
  /\ \/ UNCHANGED <<tpc, topic, page, sent, buffer, lost>>
     \/ \E t \in Threads :
          /\ tpc[t] = "none"
          /\ tpc' = [tpc EXCEPT ![t] = "search"]
          /\ topic' = [topic EXCEPT ![t] = query[s]]
          /\ UNCHANGED <<page, sent, buffer, lost>>
  /\ UNCHANGED topologyVars

SpreadNext ==
  \/ TopologyStep
  \/ \E t \in Threads : ThreadStep(t) \/ DeliverStep(t) \/ LoseStep(t)
  \/ \E s \in Sessions : SessionStep(s) \/ SessionFails(s) \/ AskStep(s) \/ AskFails(s)

\* The parts run: the topology goes on as long as it can read, emit, parse, count or
\* write, the threads and their producers do, and the sessions.
TopologyRuns ==
  \/ Open \/ EmitNext
  \/ \E o \in Offsets :
       \/ EmitRetry(o)
       \/ \E live \in BOOLEAN : JsonParse(o, live)
       \/ \E b \in Branches :
            BoltExecute(b, o) \/ \E i \in PartIds : Write(b, o, i)

SpreadFairness ==
  /\ WF_allVars(TopologyRuns /\ UNCHANGED <<threadVars, sessionVars>>)
  /\ \A t \in Threads :
       /\ WF_allVars(Run(t) /\ UNCHANGED <<topologyVars, sessionVars>>)
       /\ WF_allVars(DeliverStep(t))
  /\ \A s \in Sessions :
       /\ WF_allVars(Site!Home(s) /\ UNCHANGED <<topologyVars, threadVars>>)
       /\ WF_allVars(AskStep(s))

SpreadSpec     == SpreadInit /\ [][SpreadNext]_allVars
FairSpreadSpec == SpreadSpec /\ SpreadFairness

-----------------------------------------------------------------------------
EnglishIn(h) ==
  Cardinality(UNION {{<<n, k>> : k \in {j \in DOMAIN Archive[h][n] : Archive[h][n][j].english}} :
                       n \in DOMAIN Archive[h]})

\* The pie chart counts a tweet once for each thread that was started for its
\* hashtag, at most, as long as the spout has replayed nothing.
CountedOncePerThread ==
  (\A o \in Offsets : emits[o] <= 1) =>
    \A h \in Hashtags :
      Tables[h]["sentiments"][1] <= Cardinality(StartedFor(h)) * EnglishIn(h)

\* The parts together are what SearchPage says of the site: the only thing that
\* happens to a table is one more update, and nothing else disturbs a session.
ImplementsSite == Site!PageSpec

\* A search of a hashtag with an English tweet in the archive is answered, when
\* the topology has been reading since the topic was empty and nothing fails: no
\* crash, lost write, or failed search, call or produce request.
SearchAnswered ==
  \A s \in Sessions :
    (spc[s] # "idle" /\ up /\ start = 1 /\ EnglishIn(query[s]) > 0)
      ~> (spc[s] = "page" \/ faults > 0 \/ errors > 0)
=============================================================================
