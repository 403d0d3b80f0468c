----------------------------- MODULE SearchPage -----------------------------
(***************************************************************************)
(* The Django site: views.home answers a search, process_search.py reads   *)
(* the Cassandra tables, and the page it renders (search.html) polls the   *)
(* same tables every two seconds.                                          *)
(*                                                                         *)
(* Every read opens a Cassandra session of its own, so the topology writes *)
(* between any two of them.  What a read returns is abstracted to how many *)
(* updates each row has had, 0 being "no row".  Sentiments and geoparsing  *)
(* keep one row for a hashtag, the first here, milestones one for an hour. *)
(***************************************************************************)
EXTENDS FiniteSets, SearchSession

CONSTANT Queries  \* the hashtags users search for

ASSUME PageBounds == MaxReplies \in Nat /\ MaxUpdates \in Nat

\* The rows a table may have, and what is read when it has none.
RowsOf(p) == IF p = "milestones" THEN Hours ELSE {1}
NoRow     == [k \in Hours |-> 0]

VARIABLE
  tables    \* per hashtag, table and row, the updates it has had

pageVars == <<tables, sessionVars>>

PageTypeOK ==
  /\ tables \in [Queries -> [Panels -> [Hours -> Nat]]]
  /\ spc \in [Sessions -> {"idle", "sentiment", "rest", "kafka", "page"}]
  /\ query \in [Sessions -> Queries]
  /\ asked \in [Sessions -> BOOLEAN]
  /\ read \in [Sessions -> [Panels -> [Hours -> Nat]]]
  /\ polling \in [Sessions -> SUBSET Panels]
  /\ shown \in [Sessions -> [Panels -> [Hours -> Nat]]]
  /\ replies \in [Sessions -> [Panels -> SUBSET [Hours -> Nat]]]

-----------------------------------------------------------------------------
(* process_search.py *)

get_sentiment(h) == tables[h]["sentiments"]
get_geoparse(h)  == tables[h]["geoparsing"]

\* The page starts from April 21 to May 1 (mode 1); its poller reads May 2 too.
get_milestones(h, mode) ==
  [k \in Hours |-> IF mode = 1 /\ k > Late THEN 0 ELSE tables[h]["milestones"][k]]

-----------------------------------------------------------------------------
(* views.home, the search itself *)

PageInit ==
  /\ tables = [h \in Queries |-> [p \in Panels |-> NoRow]]
  /\ spc = [s \in Sessions |-> "idle"]
  /\ query \in [Sessions -> Queries]
  /\ asked = [s \in Sessions |-> FALSE]
  /\ read = [s \in Sessions |-> [p \in Panels |-> NoRow]]
  /\ polling = [s \in Sessions |-> {}]
  /\ shown = [s \in Sessions |-> [p \in Panels |-> NoRow]]
  /\ replies = [s \in Sessions |-> [p \in Panels |-> {}]]

Search(s) ==
  /\ spc[s] = "idle"
  /\ spc' = [spc EXCEPT ![s] = "sentiment"]
  /\ asked' = [asked EXCEPT ![s] = FALSE]
  /\ UNCHANGED <<query, read, polling, shown, replies>>

\* A home that keeps what an earlier round read.
GetSentimentOnce(s) ==
  /\ spc[s] = "sentiment"
  /\ read' = IF asked[s] THEN read
               ELSE [read EXCEPT ![s]["sentiments"] = get_sentiment(query[s])]
  /\ spc' = [spc EXCEPT ![s] = "rest"]
  /\ UNCHANGED <<query, asked, polling, shown, replies>>

GetSentiment(s) ==
  /\ spc[s] = "sentiment"
  /\ read' = [read EXCEPT ![s]["sentiments"] = get_sentiment(query[s])]
  /\ spc' = [spc EXCEPT ![s] = "rest"]
  /\ UNCHANGED <<query, asked, polling, shown, replies>>

\* A home that renders the page without waiting for a sentiment.
GetRestAtOnce(s) ==
  LET fresh == [read[s] EXCEPT !["geoparsing"] = get_geoparse(query[s]),
                               !["milestones"] = get_milestones(query[s], 1)]
  IN /\ spc[s] = "rest"
     /\ read' = [read EXCEPT ![s] = fresh]
     /\ spc' = [spc EXCEPT ![s] = IF asked[s] \/ fresh["sentiments"] # NoRow THEN "page" ELSE "kafka"]
     /\ shown' = [shown EXCEPT ![s] = fresh]
     /\ polling' = [polling EXCEPT ![s] = Panels]
     /\ UNCHANGED <<query, asked, replies>>

\* The other reads of a round.  get_geoparse, get_topics and get_milestones never
\* return None, so home goes on as soon as it has a sentiment: it renders the
\* page.  Without one it calls connect_kafka the first time and loops after it.
\* The script that starts the map's timer is "var map = ;", which does not
\* parse, when get_geoparse found no row.
GetRest(s) ==
  LET fresh == [read[s] EXCEPT !["geoparsing"] = get_geoparse(query[s]),
                               !["milestones"] = get_milestones(query[s], 1)]
  IN /\ spc[s] = "rest"
     /\ read' = [read EXCEPT ![s] = fresh]
     /\ \/ /\ fresh["sentiments"] # NoRow
           /\ spc' = [spc EXCEPT ![s] = "page"]
           /\ shown' = [shown EXCEPT ![s] = fresh]
           /\ polling' = [polling EXCEPT ![s] =
                IF fresh["geoparsing"] # NoRow THEN Panels ELSE Panels \ {"geoparsing"}]
        \/ /\ fresh["sentiments"] = NoRow
           /\ spc' = [spc EXCEPT ![s] = IF asked[s] THEN "sentiment" ELSE "kafka"]
           /\ UNCHANGED <<shown, polling>>
     /\ UNCHANGED <<query, asked, replies>>

\* A read or a call to Twitter raises: the user gets an error page and may search
\* again.  On a first round nothing was asked yet.
ReadFails(s) ==
  /\ spc[s] \in {"sentiment", "rest"}
  /\ spc' = [spc EXCEPT ![s] = "idle"]
  /\ UNCHANGED <<query, asked, read, polling, shown, replies>>

\* The HTTP call to the Flask service, which starts a producer and returns.
ConnectKafka(s) ==
  /\ spc[s] = "kafka"
  /\ asked' = [asked EXCEPT ![s] = TRUE]
  /\ spc' = [spc EXCEPT ![s] = "sentiment"]
  /\ UNCHANGED <<query, read, polling, shown, replies>>

\* The call raises, before or after the service started the producer, or the
\* get_top_tweets that follows it does.
ConnectFails(s) ==
  /\ spc[s] = "kafka"
  /\ spc' = [spc EXCEPT ![s] = "idle"]
  /\ UNCHANGED <<query, asked, read, polling, shown, replies>>

-----------------------------------------------------------------------------
(* views.home, the Ajax branches, and the timers of search.html *)

\* What the server answers a timer's request with.
Answer(h, p) ==
  CASE p = "sentiments" -> get_sentiment(h)
    [] p = "geoparsing" -> get_geoparse(h)
    [] p = "milestones" -> get_milestones(h, 0)

\* A timer fires and the server answers.
Poll(s, p) ==
  /\ spc[s] = "page" /\ p \in polling[s]
  /\ Cardinality(replies[s][p]) < MaxReplies
  /\ replies' = [replies EXCEPT ![s][p] = @ \union {Answer(query[s], p)}]
  /\ UNCHANGED <<spc, query, asked, read, polling, shown>>

\* A page that draws only the first reply of a chart.
ShowOnce(s, p, v) ==
  /\ v \in replies[s][p]
  /\ replies' = [replies EXCEPT ![s][p] = @ \ {v}]
  /\ shown' = IF shown[s][p] = NoRow THEN [shown EXCEPT ![s][p] = v] ELSE shown
  /\ UNCHANGED <<spc, query, asked, read, polling>>

\* What a reply draws.  updateMilesChart takes the first point away when there are
\* more than data_length: get_milestones lists the newest hour first.
Drawn(p, v) ==
  IF p = "milestones" /\ Cardinality({k \in Hours : v[k] > 0}) > data_length
    THEN [k \in Hours |-> IF \E j \in Hours : j > k /\ v[j] > 0 THEN v[k] ELSE 0]
    ELSE v

\* A reply reaches the browser: replies of one timer may overtake each other.
Show(s, p, v) ==
  /\ v \in replies[s][p]
  /\ replies' = [replies EXCEPT ![s][p] = @ \ {v}]
  /\ shown' = [shown EXCEPT ![s][p] = Drawn(p, v)]
  /\ UNCHANGED <<spc, query, asked, read, polling>>

-----------------------------------------------------------------------------
Home(s)    == GetSentiment(s) \/ GetRest(s)
Browser(s) == \E p \in Panels : Poll(s, p) \/ \E v \in replies[s][p] : Show(s, p, v)

\* The topology applies an update to a row.  No statement deletes one.
Update(h, p, k) ==
  /\ tables[h][p][k] < MaxUpdates
  /\ tables' = [tables EXCEPT ![h][p][k] = @ + 1]
  /\ UNCHANGED sessionVars

\* The site reads the tables and never writes them.
SiteStep ==
  \E s \in Sessions :
    \/ Search(s) \/ Home(s) \/ ReadFails(s)
    \/ ConnectKafka(s) \/ ConnectFails(s) \/ Browser(s)

PageNext ==
  \/ SiteStep /\ UNCHANGED tables
  \/ \E h \in Queries, p \in Panels : \E k \in RowsOf(p) : Update(h, p, k)

\* A request that was started goes on, timers keep firing, replies arrive.
SiteFairness ==
  \A s \in Sessions :
    /\ WF_sessionVars(Home(s)) /\ WF_sessionVars(ConnectKafka(s) \/ ConnectFails(s))
    /\ \A p \in Panels : /\ WF_sessionVars(Poll(s, p))
                         /\ WF_sessionVars(\E v \in replies[s][p] : Show(s, p, v))

PageSpec     == PageInit /\ [][PageNext]_pageVars
FairPageSpec == PageSpec /\ SiteFairness

-----------------------------------------------------------------------------
\* The page's timers find a row: get_sentiment returns None for none, and home
\* calls sentiments.replace on what it returns.
PollFindsRow ==
  \A s \in Sessions : spc[s] = "page" => get_sentiment(query[s]) # NoRow

\* The page and its session: of their types, and no timer runs without a row.
PageSound == PageTypeOK /\ PollFindsRow

\* A request that waits in the while loop of home is answered once there is a
\* row for its hashtag, unless the call to the service raised.
WaitEnds ==
  \A s \in Sessions :
    (spc[s] # "idle" /\ get_sentiment(query[s]) # NoRow) ~> spc[s] \in {"page", "idle"}

\* An hour the page leaves out: the newest of a milestones chart of more than
\* data_length hours.
LeftOut(h, p, k) ==
  LET hours == {j \in Hours : Answer(h, p)[j] > 0} IN
  /\ p = "milestones" /\ Cardinality(hours) > data_length
  /\ \A j \in hours : j <= k

\* When the tables stop changing, the charts whose timer runs come to show them,
\* although replies overtake each other: every row but an hour that is left out.
ChartsConverge ==
  \A s \in Sessions, p \in Panels :
    <>[](p \in polling[s] =>
           \A k \in Hours :
             shown[s][p][k] = IF LeftOut(query[s], p, k) THEN 0 ELSE Answer(query[s], p)[k])
=============================================================================
