----------------------------- MODULE TweetIngest -----------------------------
(***************************************************************************)
(* The Flask service: app.py starts a thread for each request, producer.py *)
(* pages through the search API (search.py) and sends each tweet to the    *)
(* topic "tweet".  KafkaProducer.send only fills a buffer, which a sender  *)
(* thread of the library empties into the topic; close() waits for it.     *)
(***************************************************************************)
EXTENDS TweetTopic, FiniteSets

CONSTANTS
  Threads,     \* the producer threads the service may start
  Archive,     \* per hashtag, the pages of tweets the search API holds
  MaxErrors    \* bound: searches, sends and produce requests that fail

ASSUME ArchiveAssumption ==
  \A h \in Hashtags : Archive[h] \in Seq(Seq(Tweets)) /\ Len(Archive[h]) > 0
ASSUME ErrorsAssumption == MaxErrors \in Nat
ASSUME ThreadsAssumption == Threads # {}

\* The archive holds a tweet once: the API pages through tweets that have ids, and a
\* record's key is the hashtag it was searched for.
ASSUME EachOnceAssumption ==
  \A g, h \in Hashtags : \A m \in DOMAIN Archive[g], n \in DOMAIN Archive[h] :
    \A k \in DOMAIN Archive[g][m], l \in DOMAIN Archive[h][n] :
      Archive[g][m][k] = Archive[h][n][l] => g = h /\ m = n /\ k = l

VARIABLES
  tpc,      \* where each thread is
  topic,    \* the hashtag it was started for
  page,     \* the page it fetches or sends
  sent,     \* how many tweets of that page it has sent
  buffer,   \* what its KafkaProducer has accepted and not yet delivered
  lost,     \* the threads whose producer has had a request that failed
  errors    \* searches, sends and produce requests that have failed

threadVars == <<tpc, topic, page, sent, buffer, lost, errors>>
ingestVars == <<log, threadVars>>

IngestTypeOK ==
  /\ log \in Seq(Tweets)
  /\ tpc \in [Threads -> {"none", "search", "send", "close", "closed", "dead"}]
  /\ topic \in [Threads -> Hashtags]
  /\ \A t \in Threads : /\ page[t] \in 1..Len(Archive[topic[t]])
                        /\ sent[t] \in 0..Len(Archive[topic[t]][page[t]])
                        /\ buffer[t] \in Seq(Tweets)
  /\ lost \subseteq Threads
  /\ errors \in 0..MaxErrors

IngestInit ==
  /\ log = <<>>
  /\ tpc = [t \in Threads |-> "none"]
  /\ topic \in [Threads -> Hashtags]
  /\ page = [t \in Threads |-> 1]
  /\ sent = [t \in Threads |-> 0]
  /\ buffer = [t \in Threads |-> <<>>]
  /\ lost = {}
  /\ errors = 0

-----------------------------------------------------------------------------
\* TodoSimple.get: a new thread runs produce, which runs and joins a Producer.
Start(t, h) ==
  /\ tpc[t] = "none"
  /\ tpc' = [tpc EXCEPT ![t] = "search"]
  /\ topic' = [topic EXCEPT ![t] = h]
  /\ UNCHANGED <<page, sent, buffer, lost, errors>>

\* batch_search returns a page with 'results'.
SearchOk(t) ==
  /\ tpc[t] = "search"
  /\ tpc' = [tpc EXCEPT ![t] = "send"]
  /\ sent' = [sent EXCEPT ![t] = 0]
  /\ UNCHANGED <<topic, page, buffer, lost, errors>>

\* It raises, or returns an error object: the first page is tested for 'results'
\* and the error printed; on a later page r['results'] raises.  A thread that
\* raises ends there, without close().
SearchFails(t) ==
  /\ tpc[t] = "search" /\ errors < MaxErrors
  /\ errors' = errors + 1
  /\ \/ tpc' = [tpc EXCEPT ![t] = "dead"]
     \/ page[t] = 1 /\ tpc' = [tpc EXCEPT ![t] = "close"]
  /\ UNCHANGED <<topic, page, sent, buffer, lost>>

Results(t) == Archive[topic[t]][page[t]]

Send(t) ==
  /\ tpc[t] = "send" /\ sent[t] < Len(Results(t))
  /\ buffer' = [buffer EXCEPT ![t] = Append(@, Results(t)[sent[t] + 1])]
  /\ sent' = [sent EXCEPT ![t] = @ + 1]
  /\ UNCHANGED <<tpc, topic, page, lost, errors>>

\* encode, dumps or send raises in the middle of a page: the thread ends there,
\* without close().
SendFails(t) ==
  /\ tpc[t] = "send" /\ sent[t] < Len(Results(t)) /\ errors < MaxErrors
  /\ errors' = errors + 1
  /\ tpc' = [tpc EXCEPT ![t] = "dead"]
  /\ UNCHANGED <<topic, page, sent, buffer, lost>>

\* The page is sent: fetch what its 'next' names, or close.
NextPage(t) ==
  /\ tpc[t] = "send" /\ sent[t] = Len(Results(t))
  /\ \/ /\ page[t] < Len(Archive[topic[t]])
        /\ page' = [page EXCEPT ![t] = @ + 1]
        /\ tpc' = [tpc EXCEPT ![t] = "search"]
        /\ sent' = [sent EXCEPT ![t] = 0]
     \/ /\ page[t] = Len(Archive[topic[t]])
        /\ tpc' = [tpc EXCEPT ![t] = "close"]
        /\ UNCHANGED <<page, sent>>
  /\ UNCHANGED <<topic, buffer, lost, errors>>

\* A sender thread that retries a record the broker has taken.
DeliverAgain(t) ==
  /\ buffer[t] # <<>>
  /\ log' = Append(log, Head(buffer[t]))
  /\ \/ buffer' = [buffer EXCEPT ![t] = Tail(@)]
     \/ UNCHANGED buffer
  /\ UNCHANGED <<tpc, topic, page, sent, lost, errors>>

\* The sender thread delivers the oldest buffered record.
Deliver(t) ==
  /\ buffer[t] # <<>>
  /\ log' = Append(log, Head(buffer[t]))
  /\ buffer' = [buffer EXCEPT ![t] = Tail(@)]
  /\ UNCHANGED <<tpc, topic, page, sent, lost, errors>>

\* A produce request fails for good, though the broker may have written it: by default
\* KafkaProducer retries none, and no one looks at the futures send returned.
Loses(t) ==
  /\ errors < MaxErrors /\ errors' = errors + 1
  /\ \E n \in 1..Len(buffer[t]) :
       /\ log' \in {log, log \o SubSeq(buffer[t], 1, n)}
       /\ buffer' = [buffer EXCEPT ![t] = SubSeq(@, n + 1, Len(@))]
  /\ lost' = lost \union {t}
  /\ UNCHANGED <<tpc, topic, page, sent>>

\* A KafkaProducer nobody closed is collected: it drops what it still holds.
Drop(t) ==
  /\ tpc[t] = "dead" /\ buffer[t] # <<>>
  /\ buffer' = [buffer EXCEPT ![t] = <<>>]
  /\ UNCHANGED <<tpc, topic, page, sent, lost, errors>>

\* A close() that does not wait.
CloseAtOnce(t) ==
  /\ tpc[t] = "close"
  /\ tpc' = [tpc EXCEPT ![t] = "closed"]
  /\ UNCHANGED <<topic, page, sent, buffer, lost, errors>>

Close(t) ==
  /\ tpc[t] = "close" /\ buffer[t] = <<>>
  /\ tpc' = [tpc EXCEPT ![t] = "closed"]
  /\ UNCHANGED <<topic, page, sent, buffer, lost, errors>>

-----------------------------------------------------------------------------
\* The steps of a thread that leave the topic alone.
Run(t) ==
  \/ SearchOk(t) \/ SearchFails(t)
  \/ Send(t) \/ SendFails(t)
  \/ NextPage(t) \/ Close(t)

IngestStep ==
  \E t \in Threads :
    \/ (\E h \in Hashtags : Start(t, h)) /\ UNCHANGED log
    \/ (Run(t) \/ Drop(t)) /\ UNCHANGED log
    \/ Deliver(t) \/ Loses(t)

IngestSpec == IngestInit /\ [][IngestStep]_ingestVars

-----------------------------------------------------------------------------
Occurrences(q, m) == Cardinality({i \in DOMAIN q : q[i] = m})

StartedFor(h) == {t \in Threads : tpc[t] # "none" /\ topic[t] = h}

\* Threads that went through the whole archive of their hashtag.
CompletedFor(h) ==
  {t \in StartedFor(h) : /\ tpc[t] = "closed"
                         /\ page[t] = Len(Archive[h])
                         /\ sent[t] = Len(Results(t))}

\* However threads interleave, fail or page, each adds at most one copy of a
\* tweet to the topic: searches that race for a new hashtag duplicate its tweets
\* as often as they asked, and no more.
CopiesPerThread ==
  \A h \in Hashtags : \A n \in DOMAIN Archive[h] : \A k \in DOMAIN Archive[h][n] :
    Occurrences(log, Archive[h][n][k]) <= Cardinality(StartedFor(h))

\* A thread that closed after its last page has delivered the whole archive, unless a
\* request of its producer failed.
ClosedDelivered ==
  \A h \in Hashtags : \A n \in DOMAIN Archive[h] : \A k \in DOMAIN Archive[h][n] :
    Occurrences(log, Archive[h][n][k]) >= Cardinality(CompletedFor(h) \ lost)

\* A thread keeps the archive's order, within a page and from one page to the next:
\* unless requests failed, no tweet is delivered before an earlier one of the same
\* hashtag is in the topic at least as often.
ArchiveOrder ==
  lost = {} =>
    \A h \in Hashtags : \A m, n \in DOMAIN Archive[h] :
      \A k \in DOMAIN Archive[h][m], l \in DOMAIN Archive[h][n] :
        m < n \/ (m = n /\ k < l) =>
          Occurrences(log, Archive[h][m][k]) >= Occurrences(log, Archive[h][n][l])

\* The topic is the archive's image: whole behind a thread that closed, and in order.
TopicAsArchived == IngestTypeOK /\ ClosedDelivered /\ ArchiveOrder
=============================================================================
