----------------------------- MODULE KafkaClient -----------------------------
(***************************************************************************)
(* KafkaClient of kafka-python: the connections to the brokers, their      *)
(* non-blocking establishment, requests in flight and their futures, the   *)
(* queue of completions, which any polling thread empties without the      *)
(* lock, and the refresh of the cluster's metadata that the rest of the    *)
(* library waits for.  What happens under the client's lock is one step.   *)
(* Backoffs and timeouts are abstracted to "may happen now"; bootstrapping *)
(* has been done.                                                          *)
(***************************************************************************)
EXTENDS Integers, Sequences, FiniteSets, SequencesExt

CONSTANTS
  Nodes,        \* brokers
  Threads,      \* threads that poll: a sender, or a consumer and its heartbeat
  Waiters,      \* threads that wait for the metadata of the topic
  Protocols,    \* security protocols to configure
  MaxInFlight,  \* max_in_flight_requests_per_connection
  MaxSends,     \* bound: requests of the user
  MaxFaults     \* bound: connections that fail or are closed, errors of a broker

ASSUME ClientAssumption ==
  /\ Protocols \subseteq {"PLAINTEXT", "SSL", "SASL_PLAINTEXT", "SASL_SSL"}
  /\ MaxInFlight \in Nat \ {0} /\ MaxSends \in Nat /\ MaxFaults \in Nat

VARIABLES
  protocol,    \* security_protocol
  state,       \* of each connection
  auth,        \* _sasl_auth_future: the handshake's request, Stale, or 0
  inFlight,    \* requests in flight, oldest first
  wire,        \* ... the broker has not answered
  answers,     \* answers on the socket, as the requests they are for
  eof,         \* the broker has closed its end
  connecting,  \* the client's _connecting
  selector,    \* the events a connection is registered for
  refused,     \* connections whose connect() raises, and leaves them as they are
  torn,        \* ... whose write timed out in the middle of a request
  requests,    \* every request: its kind, and whether it asks for the topic
  result,      \* what its future was completed with
  pending,     \* _pending_completion: requests and the answers they got
  firing,      \* the completion a thread has taken out of it
  topic,       \* the topic is tracked
  known,       \* its metadata is known
  need,        \* the metadata must be refreshed: _need_update, or its age
  inProgress,  \* _metadata_refresh_in_progress
  updates,     \* futures returned by request_update: whether each is done
  current,     \* the one the next refresh completes, or 0
  pc, waitsFor,  \* of the threads that wait for metadata
  sends, faults

brokenVars  == <<refused, torn>>
connVars    == <<state, auth, inFlight, connecting, selector, brokenVars>>
brokerVars  == <<wire, answers, eof>>
futureVars  == <<requests, result>>
queueVars   == <<pending, firing>>
clusterVars == <<known, need, inProgress, updates, current>>
waiterVars  == <<topic, pc, waitsFor>>
vars == <<protocol, connVars, brokerVars, futureVars, queueVars, clusterVars,
          waiterVars, sends, faults>>

Ids     == DOMAIN requests
Pending == -1
Stale   == -1
Failed  == 0
None    == [id |-> 0, answer |-> 0]

Connecting(n) == state[n] \in {"connecting", "handshake", "authenticating"}

Init ==
  /\ protocol \in Protocols
  /\ state = [n \in Nodes |-> "disconnected"] /\ auth = [n \in Nodes |-> 0]
  /\ inFlight = [n \in Nodes |-> <<>>]
  /\ connecting = {} /\ selector = [n \in Nodes |-> "none"]
  /\ refused = {} /\ torn = {}
  /\ wire = [n \in Nodes |-> <<>>] /\ answers = [n \in Nodes |-> <<>>]
  /\ eof = [n \in Nodes |-> FALSE]
  /\ requests = <<>> /\ result = <<>>
  /\ pending = <<>> /\ firing = [t \in Threads |-> None]
  /\ topic = FALSE /\ known = FALSE
  /\ need = FALSE /\ inProgress = FALSE /\ updates = <<>> /\ current = 0
  /\ pc = [w \in Waiters |-> "idle"] /\ waitsFor = [w \in Waiters |-> 0]
  /\ sends = 0 /\ faults = 0

Fault == faults < MaxFaults /\ faults' = faults + 1

-----------------------------------------------------------------------------
(* The futures of the cluster's metadata. *)

\* request_update: the pending future, or a new one.
RequestUpdate ==
  /\ need' = TRUE
  /\ IF current = 0
       THEN updates' = Append(updates, FALSE) /\ current' = Len(updates) + 1
       ELSE UNCHANGED <<updates, current>>

\* The future of the update is completed, and forgotten.
UpdateDone ==
  /\ updates' = IF current = 0 THEN updates ELSE [updates EXCEPT ![current] = TRUE]
  /\ current' = 0

IsMetadata(id) == requests[id].kind = "metadata"

\* failed_update, then refresh_done.
RefreshFails == UpdateDone /\ inProgress' = FALSE /\ UNCHANGED <<known, need>>

\* update_metadata with what the request asked for, then refresh_done.
RefreshSucceeds(id) ==
  /\ UpdateDone /\ inProgress' = FALSE
  /\ known' = requests[id].asks /\ need' = FALSE

\* The futures of the requests ids fail, the oldest first.
Fail(ids) == result' = [id \in DOMAIN result |-> IF id \in ids THEN Failed ELSE result[id]]

-----------------------------------------------------------------------------
(* Connections. *)

\* A close() that leaves the requests in flight where they are.
ClosedKeeps(n, refresh) ==
  /\ state' = [state EXCEPT ![n] = "disconnected"]
  /\ connecting' = connecting \ {n}
  /\ selector' = [selector EXCEPT ![n] = "none"]
  /\ wire' = [wire EXCEPT ![n] = <<>>]
  /\ answers' = [answers EXCEPT ![n] = <<>>]
  /\ eof' = [eof EXCEPT ![n] = FALSE]
  /\ refused' = refused \ {n} /\ torn' = torn \ {n}
  /\ need' = (need \/ refresh)
  /\ UNCHANGED <<auth, inFlight, result, inProgress, updates, current, requests, known>>

\* close() of a connection: the client forgets the socket, then every request in
\* flight fails; asks for new metadata when refresh says so.  Leaves a as the future
\* of the authentication.
ClosedLeaving(n, refresh, a) ==
  /\ state' = [state EXCEPT ![n] = "disconnected"]
  /\ auth' = [auth EXCEPT ![n] = a]
  /\ connecting' = connecting \ {n}
  /\ selector' = [selector EXCEPT ![n] = "none"]
  /\ inFlight' = [inFlight EXCEPT ![n] = <<>>]
  /\ wire' = [wire EXCEPT ![n] = <<>>]
  /\ answers' = [answers EXCEPT ![n] = <<>>]
  /\ eof' = [eof EXCEPT ![n] = FALSE]
  /\ refused' = refused \ {n} /\ torn' = torn \ {n}
  /\ Fail(Range(inFlight[n]))
  /\ LET refreshing == \E id \in Range(inFlight[n]) : IsMetadata(id)
     IN  CASE refreshing /\ refresh ->
                 \* request_update, and failed_update of what it returned
                 /\ need' = TRUE /\ inProgress' = FALSE
                 /\ updates' = IF current = 0 THEN Append(updates, TRUE)
                                              ELSE [updates EXCEPT ![current] = TRUE]
                 /\ current' = 0
           [] refreshing /\ ~refresh -> UpdateDone /\ inProgress' = FALSE /\ UNCHANGED need
           [] ~refreshing /\ refresh -> RequestUpdate /\ UNCHANGED inProgress
           [] OTHER -> UNCHANGED <<need, inProgress, updates, current>>
  /\ UNCHANGED <<requests, known>>

Closed(n, refresh) == ClosedLeaving(n, refresh, 0)

\* poll goes past the connections being established: connect() raises for none.
PollGoesOn == refused = {}

\* connect() on a connection that is closed: a new socket.
BeginsConnect(n) ==
  /\ state[n] = "disconnected"
  /\ state' = [state EXCEPT ![n] = "connecting"]
  /\ connecting' = connecting \union {n}
  /\ selector' = [selector EXCEPT ![n] = "write"]
  /\ UNCHANGED <<auth, inFlight, brokenVars>>

\* What _conn_state_change does of a connection that is complete.
Connected(n) ==
  /\ state' = [state EXCEPT ![n] = "connected"]
  /\ connecting' = connecting \ {n}
  /\ selector' = [selector EXCEPT ![n] = "read"]

Moves(n, next) == state' = [state EXCEPT ![n] = next] /\ UNCHANGED <<connecting, selector>>

\* poll completes pending connections: the TCP connection, the SSL handshake.
Establish(n) ==
  /\ n \in connecting /\ n \notin refused
  /\ \/ /\ state[n] = "connecting"
        /\ CASE protocol = "PLAINTEXT"      -> Connected(n)
             [] protocol = "SASL_PLAINTEXT" -> Moves(n, "authenticating")
             [] OTHER                       -> Moves(n, "handshake")
     \/ /\ state[n] = "handshake"
        /\ IF protocol = "SASL_SSL" THEN Moves(n, "authenticating") ELSE Connected(n)
  /\ UNCHANGED <<protocol, auth, inFlight, brokenVars, brokerVars, futureVars, queueVars,
                 clusterVars, waiterVars, sends, faults>>

\* A request and its future.
NewRequest(kind, asks, r) ==
  /\ requests' = Append(requests, [kind |-> kind, asks |-> asks])
  /\ result' = Append(result, r)

\* _send writes a request and awaits its answer; after half a request the broker
\* reads none.
Sends(n, kind, asks) ==
  LET id == Len(requests) + 1
  IN  /\ NewRequest(kind, asks, Pending)
      /\ inFlight' = [inFlight EXCEPT ![n] = Append(@, id)]
      /\ wire' = IF n \in torn THEN wire ELSE [wire EXCEPT ![n] = Append(@, id)]

\* _try_authenticate asks for the mechanism ...
AsksMechanism(n) ==
  /\ n \in connecting /\ state[n] = "authenticating" /\ auth[n] = 0
  /\ Sends(n, "sasl", FALSE)
  /\ auth' = [auth EXCEPT ![n] = Len(requests) + 1]
  /\ UNCHANGED <<protocol, state, connecting, selector, brokenVars, answers, eof, queueVars,
                 clusterVars, waiterVars, sends, faults>>

\* (that write fails: close() forgets the future, and then the failed one is stored)
AsksFails(n) ==
  /\ n \in connecting /\ state[n] = "authenticating" /\ auth[n] = 0
  /\ Fault /\ ClosedLeaving(n, TRUE, Stale)
  /\ UNCHANGED <<protocol, queueVars, waiterVars, sends>>

\* ... and, once it is answered,
Answered(n) ==
  /\ n \in connecting /\ state[n] = "authenticating" /\ answers[n] # <<>>
  /\ result' = [result EXCEPT ![Head(inFlight[n])] = Head(answers[n])]
  /\ inFlight' = [inFlight EXCEPT ![n] = Tail(@)]
  /\ answers' = [answers EXCEPT ![n] = Tail(@)]
  /\ UNCHANGED <<protocol, auth, torn, requests, wire, eof, queueVars, clusterVars,
                 waiterVars, sends>>

\* exchanges the credentials on a blocking socket.
Authenticates(n) == Answered(n) /\ Connected(n) /\ UNCHANGED <<refused, faults>>

\* A handshake or credentials refused: connect() raises, now and whenever it is called
\* again, with the connection as it is.
Refuses(n) ==
  /\ \/ /\ n \in connecting /\ state[n] = "handshake"
        /\ UNCHANGED <<protocol, auth, inFlight, torn, brokerVars, futureVars, queueVars,
                       clusterVars, waiterVars, sends>>
     \/ Answered(n)
  /\ Fault /\ refused' = refused \union {n}
  /\ UNCHANGED <<state, connecting, selector>>

\* A timeout of the exchange ends in the callback that made it: the future of the
\* authentication is never completed.
ExchangeTimesOut(n) ==
  /\ Answered(n) /\ Fault
  /\ UNCHANGED <<state, connecting, selector, refused>>

\* connect() fails and closes: an error or a timeout of the socket, or of the request
\* for the mechanism; nothing is looked at while no such request is in flight.
ConnectFails(n) ==
  /\ n \in connecting /\ n \notin refused /\ Connecting(n)
  /\ state[n] = "authenticating" => inFlight[n] # <<>>
  /\ Fault /\ Closed(n, TRUE)
  /\ UNCHANGED <<protocol, queueVars, waiterVars, sends>>

-----------------------------------------------------------------------------
(* Requests. *)

CanSend(n) == state[n] = "connected" /\ Len(inFlight[n]) < MaxInFlight

\* ready(): a thread that wants to send has the connection opened.
Ready(n) ==
  /\ sends < MaxSends /\ BeginsConnect(n)
  /\ UNCHANGED <<protocol, brokerVars, futureVars, queueVars, clusterVars, waiterVars,
                 sends, faults>>

\* send(): in flight, or done at once where no response is expected, or failed
\* because the node is not ready or has too many requests in flight.
Send(n, expects) ==
  /\ sends < MaxSends /\ sends' = sends + 1
  /\ IF CanSend(n) /\ expects THEN Sends(n, "user", FALSE)
     ELSE /\ NewRequest("user", FALSE, IF CanSend(n) THEN Len(requests) + 1 ELSE Failed)
          /\ UNCHANGED <<inFlight, wire>>
  /\ UNCHANGED <<protocol, state, auth, connecting, selector, brokenVars, answers, eof,
                 queueVars, clusterVars, waiterVars, faults>>

\* Writing raises: the connection is closed, and the future returned has failed.
SendRaises(n) ==
  /\ sends < MaxSends /\ sends' = sends + 1
  /\ CanSend(n) /\ Fault
  /\ Closed(n, TRUE)
  /\ UNCHANGED <<protocol, queueVars, waiterVars>>

\* _poll reads the answers there are, in the order of the requests in flight; a
\* socket the other end has closed is closed, with what was read before the end,
\* and so is one with nothing in flight.
Receive(n) ==
  /\ PollGoesOn /\ selector[n] = "read"
  /\ \/ /\ ~eof[n] /\ answers[n] # <<>> /\ inFlight[n] # <<>>
        /\ \E k \in 1..Len(answers[n]) :
             /\ pending' = pending \o [i \in 1..k |-> [id |-> inFlight[n][i],
                                                       answer |-> answers[n][i]]]
             /\ inFlight' = [inFlight EXCEPT ![n] = SubSeq(@, k + 1, Len(@))]
             /\ answers' = [answers EXCEPT ![n] = SubSeq(@, k + 1, Len(@))]
        /\ UNCHANGED <<state, auth, connecting, selector, brokenVars, wire, eof, futureVars,
                       clusterVars>>
     \/ /\ eof[n] \/ (answers[n] # <<>> /\ inFlight[n] = <<>>)
        /\ Closed(n, TRUE)
        /\ UNCHANGED pending
  /\ UNCHANGED <<protocol, firing, waiterVars, sends, faults>>

\* The oldest request in flight has timed out, or the answer is no Kafka message.
TimesOut(n) ==
  /\ PollGoesOn /\ inFlight[n] # <<>> /\ Fault
  /\ Closed(n, TRUE)
  /\ UNCHANGED <<protocol, queueVars, waiterVars, sends>>

\* After half a request the broker answers no other, or one that was not asked.
BreaksDown(n) ==
  /\ PollGoesOn /\ n \in torn /\ inFlight[n] # <<>>
  /\ Closed(n, TRUE)
  /\ UNCHANGED <<protocol, queueVars, waiterVars, sends, faults>>

\* The connection has received nothing for connections_max_idle_ms: it is closed,
\* with requests that were just sent.
ClosesIdle(n) ==
  /\ PollGoesOn /\ state[n] = "connected" /\ Fault
  /\ Closed(n, FALSE)
  /\ UNCHANGED <<protocol, queueVars, waiterVars, sends>>

\* A thread that looks at the first completion and leaves it in the queue.
TakesLeaves(t) ==
  /\ firing[t] = None /\ pending # <<>>
  /\ firing' = [firing EXCEPT ![t] = Head(pending)]
  /\ UNCHANGED <<protocol, connVars, brokerVars, futureVars, clusterVars, waiterVars,
                 pending, sends, faults>>

\* Without the lock, a thread takes a completion ...
Takes(t) ==
  /\ firing[t] = None /\ pending # <<>>
  /\ firing' = [firing EXCEPT ![t] = Head(pending)]
  /\ pending' = Tail(pending)
  /\ UNCHANGED <<protocol, connVars, brokerVars, futureVars, clusterVars, waiterVars,
                 sends, faults>>

\* ... and completes its future; metadata may carry an error of the topic.
Fires(t) ==
  /\ firing[t] # None
  /\ firing' = [firing EXCEPT ![t] = None]
  /\ result' = [result EXCEPT ![firing[t].id] = firing[t].answer]
  /\ IF IsMetadata(firing[t].id)
       THEN \/ RefreshSucceeds(firing[t].id) /\ UNCHANGED faults
            \/ Fault /\ requests[firing[t].id].asks /\ RefreshFails
       ELSE UNCHANGED <<clusterVars, faults>>
  /\ UNCHANGED <<protocol, connVars, brokerVars, requests, pending, waiterVars, sends>>

-----------------------------------------------------------------------------
(* The refresh of the metadata. *)

\* Nodes least_loaded_node may return, whichever are in backoff.
LeastLoaded(n) ==
  LET idle(m) == state[m] = "connected" /\ inFlight[m] = <<>>
  IN  idle(n) \/ (~\E m \in Nodes : idle(m))

\* ttl() is zero and no refresh is in progress.
Due == need /\ ~inProgress

\* _maybe_refresh_metadata: the request is sent; or, when no connection is being
\* established, the node is connected.
MaybeRefresh(n) ==
  /\ PollGoesOn /\ Due /\ LeastLoaded(n)
  /\ \/ /\ CanSend(n)
        /\ Sends(n, "metadata", topic)
        /\ inProgress' = TRUE
        /\ UNCHANGED <<state, auth, connecting, selector, brokenVars>>
     \/ /\ ~CanSend(n) /\ connecting = {}
        /\ BeginsConnect(n)
        /\ UNCHANGED <<requests, result, wire, inProgress>>
  /\ UNCHANGED <<protocol, answers, eof, queueVars, known, need, updates, current,
                 waiterVars, sends, faults>>

\* A write of the user, of a refresh or of the handshake times out: the exception
\* passes through send() or poll(), the connection stays open (Python 3).
SendEscapes(n) ==
  /\ \/ CanSend(n) /\ sends < MaxSends
     \/ CanSend(n) /\ PollGoesOn /\ Due /\ LeastLoaded(n)
     \/ n \in connecting /\ state[n] = "authenticating" /\ auth[n] = 0
  /\ Fault /\ torn' = torn \union {n}
  /\ UNCHANGED <<protocol, state, auth, inFlight, connecting, selector, refused, brokerVars,
                 futureVars, queueVars, clusterVars, waiterVars, sends>>

\* The metadata is older than metadata_max_age_ms.
Ages ==
  /\ ~need /\ Fault
  /\ need' = TRUE
  /\ UNCHANGED <<protocol, connVars, brokerVars, futureVars, queueVars, known,
                 inProgress, updates, current, waiterVars, sends>>

\* _wait_on_metadata: the topic is added,
AddTopic(w) ==
  /\ pc[w] = "idle"
  /\ pc' = [pc EXCEPT ![w] = "check"]
  /\ topic' = TRUE
  /\ IF topic THEN UNCHANGED <<need, updates, current>> ELSE RequestUpdate
  /\ UNCHANGED <<protocol, connVars, brokerVars, futureVars, queueVars, known,
                 inProgress, waitsFor, sends, faults>>

\* A wait that relies on the update add_topic has requested.
CheckOnce(w) ==
  /\ pc[w] = "check"
  /\ IF known
       THEN pc' = [pc EXCEPT ![w] = "done"] /\ UNCHANGED waitsFor
       ELSE /\ waitsFor' = [waitsFor EXCEPT ![w] = current]
            /\ pc' = [pc EXCEPT ![w] = "wait"]
  /\ UNCHANGED <<protocol, connVars, brokerVars, futureVars, queueVars, topic, clusterVars,
                 sends, faults>>

\* ... and while its metadata is not known an update is requested and awaited.
Check(w) ==
  /\ pc[w] = "check"
  /\ IF known
       THEN /\ pc' = [pc EXCEPT ![w] = "done"]
            /\ UNCHANGED <<need, updates, current, waitsFor>>
       ELSE /\ RequestUpdate
            /\ waitsFor' = [waitsFor EXCEPT ![w] = current']
            /\ pc' = [pc EXCEPT ![w] = "wait"]
  /\ UNCHANGED <<protocol, connVars, brokerVars, futureVars, queueVars, topic, known,
                 inProgress, sends, faults>>

Woken(w) ==
  /\ pc[w] = "wait" /\ waitsFor[w] # 0 /\ updates[waitsFor[w]]
  /\ pc' = [pc EXCEPT ![w] = "check"]
  /\ UNCHANGED <<protocol, connVars, brokerVars, futureVars, queueVars, clusterVars,
                 topic, waitsFor, sends, faults>>

\* max_block_ms has passed.
GivesUp(w) ==
  /\ pc[w] = "wait"
  /\ pc' = [pc EXCEPT ![w] = "timeout"]
  /\ UNCHANGED <<protocol, connVars, brokerVars, futureVars, queueVars, clusterVars,
                 topic, waitsFor, sends, faults>>

-----------------------------------------------------------------------------
(* The brokers: they answer the requests of a connection in order. *)
Answers(n) ==
  /\ wire[n] # <<>> /\ ~eof[n]
  /\ wire' = [wire EXCEPT ![n] = Tail(@)]
  /\ answers' = [answers EXCEPT ![n] = Append(@, Head(wire[n]))]
  /\ UNCHANGED <<protocol, connVars, eof, futureVars, queueVars, clusterVars, waiterVars,
                 sends, faults>>

ClosesEnd(n) ==
  /\ selector[n] = "read" /\ ~eof[n] /\ Fault
  /\ eof' = [eof EXCEPT ![n] = TRUE]
  /\ UNCHANGED <<protocol, connVars, wire, answers, futureVars, queueVars, clusterVars,
                 waiterVars, sends>>

-----------------------------------------------------------------------------
Connect(n) == Establish(n) \/ AsksMechanism(n) \/ Authenticates(n)

Poll(n) == Connect(n) \/ Receive(n) \/ BreaksDown(n) \/ MaybeRefresh(n)

Fire(t) == Takes(t) \/ Fires(t)

Wait(w) == Check(w) \/ Woken(w)

Next ==
  \/ \E n \in Nodes :
       \/ Poll(n) \/ ConnectFails(n) \/ TimesOut(n) \/ ClosesIdle(n)
       \/ AsksFails(n) \/ Refuses(n) \/ ExchangeTimesOut(n) \/ SendEscapes(n)
       \/ Ready(n) \/ SendRaises(n) \/ \E expects \in BOOLEAN : Send(n, expects)
       \/ Answers(n) \/ ClosesEnd(n)
  \/ \E t \in Threads : Fire(t)
  \/ Ages
  \/ \E w \in Waiters : AddTopic(w) \/ Wait(w) \/ GivesUp(w)

\* The threads keep polling, so connections are established, answers read and
\* completions fired, unless a connection that was refused raises in every poll; a
\* broker answers, or the request times out.
Fairness ==
  /\ \A n \in Nodes : /\ WF_vars(PollGoesOn /\ Connect(n)) /\ WF_vars(Receive(n))
                       /\ WF_vars(BreaksDown(n)) /\ WF_vars(Answers(n))
  /\ WF_vars(\E n \in Nodes : MaybeRefresh(n))
  /\ \A t \in Threads : WF_vars(PollGoesOn /\ Takes(t)) /\ WF_vars(Fires(t))
  /\ \A w \in Waiters : WF_vars(Wait(w))

Spec     == Init /\ [][Next]_vars
FairSpec == Spec /\ Fairness

-----------------------------------------------------------------------------
TypeOK ==
  /\ \A n \in Nodes :
       /\ state[n] \in {"disconnected", "connecting", "handshake", "authenticating", "connected"}
       /\ auth[n] \in {0, Stale} \union Ids
       /\ selector[n] \in {"none", "write", "read"}
       /\ Range(inFlight[n]) \subseteq Ids
  /\ connecting \union refused \union torn \subseteq Nodes
  /\ Len(result) = Len(requests)
  /\ Range(pending) \union Range(firing) \subseteq {None} \union [id : Ids, answer : Ids]
  /\ current \in 0..Len(updates)
  /\ \A w \in Waiters : /\ pc[w] \in {"idle", "check", "wait", "done", "timeout"}
                         /\ waitsFor[w] \in 0..Len(updates)

Places(id) ==
  (UNION {{<<"in flight", n, i>> : i \in {j \in DOMAIN inFlight[n] : inFlight[n][j] = id}}
          : n \in Nodes})
    \union {<<"pending", i>> : i \in {j \in DOMAIN pending : pending[j].id = id}}
    \union {<<"firing", t>> : t \in {s \in Threads : firing[s].id = id}}

\* Whatever closes connections, and whichever thread completes futures, a request
\* without a result waits in one place, where its answer or the end of the
\* connection finds it, and one with a result nowhere: no future is forgotten and
\* none completed twice.
CompletedOnce ==
  \A id \in Ids : Cardinality(Places(id)) = IF result[id] = Pending THEN 1 ELSE 0

\* A future gets the answer to its own request: requests and answers pair by their
\* order, also after a reconnect; where a write broke off, those before it still do.
OwnAnswer ==
  /\ \A id \in Ids : result[id] \in {Pending, Failed, id}
  /\ \A n \in Nodes : IF n \in torn THEN IsPrefix(answers[n] \o wire[n], inFlight[n])
                                     ELSE inFlight[n] = answers[n] \o wire[n]

\* The client waits for writing on connections being established and for reading on
\* complete ones, and for nothing on closed sockets.
SelectorFits ==
  \A n \in Nodes :
    /\ n \in connecting <=> Connecting(n)
    /\ selector[n] = CASE Connecting(n) -> "write" [] state[n] = "connected" -> "read"
                       [] OTHER -> "none"

\* While a refresh is in progress one metadata request is on its way, else none: the
\* flag, without which no request is ready, can not get stuck.
OneRefresh ==
  Cardinality({id \in Ids : IsMetadata(id) /\ result[id] = Pending})
    = IF inProgress THEN 1 ELSE 0

\* The client's bookkeeping: of its types, and futures, queues, selector and flag agree.
ClientSound == TypeOK /\ CompletedOnce /\ OwnAnswer /\ SelectorFits /\ OneRefresh

\* No future stays pending, whatever is closed, times out or breaks off: again and
\* again all that were requested are done, unless a refused connection stops the polls.
RequestsEnd == []<>((\A id \in Ids : result[id] # Pending) \/ ~PollGoesOn)

\* A connection that waits for an authentication nobody will complete; no refresh
\* connects to a node while there is one.
Stuck(n) ==
  /\ state[n] = "authenticating" /\ n \notin refused
  /\ auth[n] # 0 /\ inFlight[n] = <<>>

\* A thread that waits for the topic learns of it, or gives up: nothing but a refused
\* connection or a stuck authentication keeps the metadata from it.
TopicKnown ==
  \A w \in Waiters :
    pc[w] = "check" ~> \/ pc[w] \in {"done", "timeout"}
                       \/ ~PollGoesOn \/ \E n \in Nodes : Stuck(n)
=============================================================================
