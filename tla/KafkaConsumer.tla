---------------------------- MODULE KafkaConsumer ----------------------------
(***************************************************************************)
(* The KafkaConsumer of kafka-python as a member of a consumer group: the  *)
(* application's thread polls (joins the group, commits what it consumed,  *)
(* finds its positions, takes fetched records and fetches more), and a     *)
(* heartbeat thread polls the same client beside it and may leave the      *)
(* group.  One broker leads the partitions and coordinates the group; it   *)
(* is modelled from how the code uses it.  All members poll one topic,     *)
(* offsets are committed automatically and reset to the earliest.          *)
(***************************************************************************)
EXTENDS Integers, Sequences, FiniteSets, SequencesExt, FiniteSetsExt

CONSTANTS
  Members,      \* the consumers of the group, numbered from 1
  Partitions,   \* of the topic, numbered from 0
  LogEnd,       \* records of each partition: offsets 0 .. LogEnd - 1
  MaxRecords,   \* max_poll_records
  MaxFaults,    \* bound: crashes, lost connections, stalls, slow members, errors in a fetch
  Faulty        \* bound: the members these happen to

ASSUME ConsumerAssumption ==
  /\ IsFiniteSet(Members) /\ Members # {} /\ Members = 1..Cardinality(Members)
  /\ IsFiniteSet(Partitions) /\ Partitions # {} /\ Partitions = 0..(Cardinality(Partitions) - 1)
  /\ LogEnd \in Nat /\ MaxRecords \in Nat \ {0} /\ MaxFaults \in Nat /\ Faulty \subseteq Members

VARIABLES
  pc,          \* where the application's thread is
  found,       \* the coordinator is known
  state,       \* of the member: unjoined, rebalancing or stable
  gen,         \* its generation: none, the group's present one, or an old one
  rejoin,      \* rejoin_needed
  rejoining,   \* _on_join_prepare was called
  assigned,    \* its partitions
  position,    \* ... the position of each
  completed,   \* _completed_fetches: a part of a response for each partition
  current,     \* _next_partition_records
  picked,      \* the partitions send_fetches found without pending records
  drained,     \* records fetched_records has taken, then the application's
  chan,        \* requests in flight, oldest first, with their answers
  phase, members, joined, plan,  \* the group at its coordinator
  committed,   \* the committed offsets
  late,        \* commits of lost connections that may still arrive
  done,        \* records an application finished with
  dropped,     \* records drained by a poll that raised
  faults

groupVars  == <<found, state, gen, rejoin, rejoining>>
placeVars  == <<assigned, position>>
fetchVars  == <<completed, current, picked, drained>>
brokerVars == <<phase, members, joined, plan, committed, late>>
ghostVars  == <<done, dropped>>
vars == <<pc, groupVars, placeVars, fetchVars, chan, brokerVars, ghostVars, faults>>

None   == -1   \* no offset
Raises == -2   \* an error in place of the end of the records
Nothing == [part |-> 0, from |-> 0, to |-> 0]

NoOffsets == [p \in Partitions |-> None]
NoPlan    == [p \in Partitions |-> 0]

\* The members, or partitions, of a set in order: the one with i others before it.
Nth(S, i) == CHOOSE x \in S : Cardinality({y \in S : y < x}) = i

Init ==
  /\ pc = [c \in Members |-> "app"]
  /\ found = [c \in Members |-> FALSE]
  /\ state = [c \in Members |-> "unjoined"]
  /\ gen = [c \in Members |-> "none"]
  /\ rejoin = [c \in Members |-> TRUE] /\ rejoining = [c \in Members |-> FALSE]
  /\ assigned = [c \in Members |-> {}]
  /\ position = [c \in Members |-> NoOffsets]
  /\ completed = [c \in Members |-> <<>>] /\ current = [c \in Members |-> Nothing]
  /\ picked = [c \in Members |-> {}] /\ drained = [c \in Members |-> {}]
  /\ chan = [c \in Members |-> <<>>]
  /\ phase = "stable" /\ members = {} /\ joined = {} /\ plan = NoPlan
  /\ committed = NoOffsets /\ late = {}
  /\ done = {} /\ dropped = {}
  /\ faults = 0

Fault(c) == c \in Faulty /\ faults < MaxFaults /\ faults' = faults + 1

\* The application's thread holds the coordinator's lock.
Locked(c) == pc[c] \in {"prepare", "await", "join"}

\* The heartbeat thread works for a stable member, while it can have the lock.
Beating(c) == state[c] = "stable" /\ ~Locked(c) /\ pc[c] # "dead"

Goes(c, where) == pc' = [pc EXCEPT ![c] = where]

\* A request and its answer: a verdict, offsets, and the members of a generation.
Request(kind, g, offs) ==
  [kind |-> kind, gen |-> g, offs |-> offs, reply |-> "sent", got |-> NoOffsets, who |-> {}]

InFlight(c, kind) == \E i \in DOMAIN chan[c] : chan[c][i].kind = kind

Sends(c, r) == chan' = [chan EXCEPT ![c] = Append(@, r)]

\* What is fetched counts as consumed.
ConsumedAsFetched(c) ==
  [p \in Partitions |->
     IF \E i \in DOMAIN completed[c] : completed[c][i].part = p THEN LogEnd ELSE position[c][p]]

\* all_consumed_offsets
Consumed(c) == position[c]

\* What follows drops out of the group: reset_generation.
ResetGeneration(c) ==
  /\ gen' = [gen EXCEPT ![c] = "none"]
  /\ rejoin' = [rejoin EXCEPT ![c] = TRUE]
  /\ state' = [state EXCEPT ![c] = "unjoined"]

-----------------------------------------------------------------------------
(* The application's thread: the coordinator. *)

\* ensure_coordinator_ready, by this thread or, on behalf of a stable member, the
\* other one.  A lookup that fails is tried again.
Finds(c) ==
  /\ ~found[c]
  /\ pc[c] \in {"app", "poll", "prepare", "await", "positions"} \/ Beating(c)
  /\ found' = [found EXCEPT ![c] = TRUE]
  /\ UNCHANGED <<pc, state, gen, rejoin, rejoining, placeVars, fetchVars, chan, brokerVars,
                 ghostVars, faults>>

\* The application has dealt with the records of its last poll and polls again, or
\* this poll has joined the group: coordinator.poll goes on from its start.
Polls(c) ==
  /\ pc[c] \in {"app", "poll"} /\ found[c]
  /\ done' = done \union drained[c]

\* ensure_active_group: first, once, the consumed offsets are committed, if there
\* are any and the member is in a group.
Prepare(c) ==
  /\ Polls(c) /\ rejoin[c]
  /\ IF ~rejoining[c] /\ Consumed(c) # NoOffsets /\ state[c] = "stable"
       THEN Sends(c, Request("commit", gen[c], Consumed(c))) /\ Goes(c, "prepare")
              /\ UNCHANGED rejoining
       ELSE rejoining' = [rejoining EXCEPT ![c] = TRUE] /\ Goes(c, "await") /\ UNCHANGED chan
  /\ drained' = [drained EXCEPT ![c] = {}]
  /\ UNCHANGED <<found, state, gen, rejoin, placeVars, completed, current, picked, brokerVars,
                 dropped, faults>>

\* The commit was lost with its connection, and is retried.
PrepareAgain(c) ==
  /\ pc[c] = "prepare" /\ found[c]
  /\ ~InFlight(c, "commit")
  /\ IF state[c] = "stable"
       THEN Sends(c, Request("commit", gen[c], Consumed(c))) /\ UNCHANGED <<pc, rejoining>>
       ELSE rejoining' = [rejoining EXCEPT ![c] = TRUE] /\ Goes(c, "await") /\ UNCHANGED chan
  /\ UNCHANGED <<found, state, gen, rejoin, placeVars, fetchVars, brokerVars, ghostVars, faults>>

\* With nothing in flight, the member asks to join.  The request begins a rebalance,
\* and its answer waits for the others, or it comes from a member given up.
Joins(c) ==
  LET outcast == gen[c] # "none" /\ c \notin members IN
  /\ pc[c] = "await" /\ found[c] /\ chan[c] = <<>>
  /\ state' = [state EXCEPT ![c] = "rebalancing"]
  /\ Sends(c, [Request("join", gen[c], NoOffsets) EXCEPT !.reply = IF outcast THEN "unknown" ELSE @])
  /\ Goes(c, "join")
  /\ IF outcast THEN UNCHANGED <<phase, joined>>
       ELSE joined' = joined \union {c} /\ phase' = "join"
  /\ UNCHANGED <<found, gen, rejoin, rejoining, placeVars, fetchVars, members, plan,
                 committed, late, ghostVars, faults>>

Missing(c) == {p \in assigned[c] : position[c][p] = None}

-----------------------------------------------------------------------------
(* ... the positions and the records. *)

\* An answer the broker gives at once: it is read when it has arrived.
AtOnce(kind, offs, got) ==
  [Request(kind, "none", offs) EXCEPT !.reply = "ok", !.got = got]

\* _update_fetch_positions asks for the committed offsets, again if the connection
\* is lost.
AsksCommitted(c) ==
  /\ pc[c] = "positions" /\ found[c] /\ ~InFlight(c, "committed")
  /\ \A i \in DOMAIN chan[c] : chan[c][i].reply # "sent"
  /\ Sends(c, AtOnce("committed", NoOffsets, committed))
  /\ UNCHANGED <<pc, groupVars, placeVars, fetchVars, brokerVars, ghostVars, faults>>

Holds(r) == r.from < r.to

\* Whatever the position.
IsNextAnyway(c, s, r) == r.part \in assigned[c]

\* The records a response brings next: of a partition still assigned, from its position on.
IsNext(c, s, r) == r.part \in assigned[c] /\ s.position[r.part] = r.from

\* One round of fetched_records.  It ends with MaxRecords records, an empty queue or
\* an error.  A part of a response is taken out of the queue and kept if it is the
\* next of a partition still assigned, and records are taken out of the part kept.
Round(c, s) ==
  LET r    == IF Holds(s.current) THEN s.current ELSE Head(s.queue)
      upto == Min({r.to, r.from + MaxRecords - Cardinality(s.out)})
  IN
  IF s.raised \/ Cardinality(s.out) = MaxRecords \/ (~Holds(s.current) /\ s.queue = <<>>) THEN s
    ELSE IF ~Holds(s.current)
      THEN [s EXCEPT !.queue = Tail(@),
                     !.current = IF IsNext(c, s, r) /\ r.to # Raises THEN r ELSE Nothing,
                     !.raised = r.to = Raises /\ r.part \in assigned[c]]
    ELSE IF ~IsNext(c, s, r) THEN [s EXCEPT !.current = Nothing]
      ELSE [s EXCEPT !.out = @ \union {<<r.part, o>> : o \in r.from..(upto - 1)},
                     !.position[r.part] = upto,
                     !.current.from = upto]

FetchedRecords(c) ==
  LET rounds == 2 * Len(completed[c]) + 2
      F[n \in 0..rounds] ==
        IF n = 0
          THEN [queue |-> completed[c], current |-> current[c], position |-> position[c],
                out |-> {}, raised |-> FALSE]
          ELSE CHOOSE t \in {Round(c, s) : s \in {F[n - 1]}} : TRUE
  IN F[rounds]

\* The records drained by a call that raises are lost: the positions are past them.
Takes(c, s) ==
  /\ completed' = [completed EXCEPT ![c] = s.queue]
  /\ current' = [current EXCEPT ![c] = IF Holds(s.current) THEN s.current ELSE Nothing]
  /\ position' = [position EXCEPT ![c] = s.position]
  /\ drained' = [drained EXCEPT ![c] = IF s.raised THEN {} ELSE s.out]
  /\ dropped' = IF s.raised THEN dropped \union s.out ELSE dropped

\* Partitions with a position and no fetched records left.
Fetchable(c, s) ==
  {p \in assigned[c] :
     /\ s.position[p] # None
     /\ ~(Holds(s.current) /\ s.current.part = p)
     /\ \A i \in DOMAIN s.queue : s.queue[i].part # p}

\* Records that are there are returned.  If none are left, or none were there,
\* send_fetches first looks for the partitions to fetch ...
Drains(c) ==
  \E s \in {FetchedRecords(c)} :
    LET returns == s.raised \/ (s.out # {} /\ s.queue # <<>>) IN
    /\ Takes(c, s)
    /\ Goes(c, IF returns THEN "app" ELSE "send")
    /\ picked' = [picked EXCEPT ![c] = IF returns THEN {} ELSE Fetchable(c, s)]

\* The group needs no joining.  Now and then the consumed offsets are committed; the
\* bounds here are one such commit in flight, and that it says something new.  With
\* all positions known, the records follow.
AutoCommit(c, due) ==
  /\ Polls(c) /\ ~rejoin[c]
  /\ due => /\ ~InFlight(c, "commit")
            /\ \E p \in assigned[c] : position[c][p] > Max({committed[p], 0})
  /\ IF due /\ state[c] = "stable"
       THEN Sends(c, Request("commit", gen[c], Consumed(c)))
       ELSE UNCHANGED chan
  /\ IF Missing(c) = {} THEN Drains(c)
       ELSE /\ Goes(c, "positions")
            /\ drained' = [drained EXCEPT ![c] = {}]
            /\ UNCHANGED <<position, completed, current, picked, dropped>>
  /\ UNCHANGED <<groupVars, assigned, brokerVars, faults>>

Drain(c) ==
  /\ pc[c] = "drain"
  /\ Drains(c)
  /\ UNCHANGED <<groupVars, assigned, chan, brokerVars, done, faults>>

\* ... and then whether the node has nothing in flight.  The answer has all there is,
\* or an error in place of the records of one partition.
SendsFetch(c) ==
  LET offs == [p \in Partitions |-> IF p \in picked[c] THEN position[c][p] ELSE None]
      ends == [p \in Partitions |-> IF p \in picked[c] THEN LogEnd ELSE None]
  IN
  /\ pc[c] = "send"
  /\ IF picked[c] # {} /\ chan[c] = <<>>
       THEN \/ Sends(c, AtOnce("fetch", offs, ends)) /\ UNCHANGED faults
            \/ \E p \in picked[c] :
                 Sends(c, AtOnce("fetch", offs, [ends EXCEPT ![p] = Raises])) /\ Fault(c)
       ELSE UNCHANGED <<chan, faults>>
  /\ picked' = [picked EXCEPT ![c] = {}]
  /\ Goes(c, IF drained[c] # {} THEN "app" ELSE "wait")
  /\ UNCHANGED <<groupVars, placeVars, completed, current, drained, brokerVars, ghostVars>>

Arrived(c) == chan[c] # <<>> /\ Head(chan[c]).reply # "sent"

\* client.poll returns: after it there are no records if the group is to be joined.
WaitEnds(c) ==
  /\ pc[c] = "wait"
  /\ Goes(c, "app")
  /\ IF rejoin[c] THEN UNCHANGED <<completed, current, position, drained, dropped>>
       ELSE \E s \in {FetchedRecords(c)} : Takes(c, s)
  /\ UNCHANGED <<groupVars, assigned, picked, chan, brokerVars, done, faults>>

-----------------------------------------------------------------------------
(* The heartbeat thread. *)

Current(c, g) == c \in members /\ g = "now"

\* What the coordinator says to a member of a generation, and is "ok" when it says
\* so in the given phases.
Verdict(c, g, when) ==
  IF ~Current(c, g) THEN "unknown" ELSE IF phase \in when THEN "ok" ELSE "rebalance"

\* A rebalance does not matter.
HeartbeatCalm(c) ==
  /\ Beating(c) /\ found[c]
  /\ Verdict(c, gen[c], {"stable"}) = "unknown"
  /\ ResetGeneration(c)
  /\ UNCHANGED <<pc, found, rejoining, placeVars, fetchVars, chan, brokerVars, ghostVars, faults>>

\* A heartbeat and its answer, which matters if it is an error: the member is to join
\* again, or has fallen out of the group.
Heartbeat(c) ==
  /\ Beating(c) /\ found[c]
  /\ \/ /\ Verdict(c, gen[c], {"stable"}) = "rebalance"
        /\ rejoin' = [rejoin EXCEPT ![c] = TRUE]
        /\ UNCHANGED <<state, gen>>
     \/ /\ Verdict(c, gen[c], {"stable"}) = "unknown"
        /\ ResetGeneration(c)
  /\ UNCHANGED <<pc, found, rejoining, placeVars, fetchVars, chan, brokerVars, ghostVars, faults>>

\* The application has not polled for max_poll_interval: the thread leaves the group.
Leaves(c) ==
  /\ Beating(c) /\ found[c] /\ pc[c] = "app" /\ Fault(c)
  /\ ResetGeneration(c)
  /\ IF Current(c, gen[c])
       THEN members' = members \ {c} /\ joined' = joined \ {c} /\ phase' = "join"
       ELSE UNCHANGED <<members, joined, phase>>
  /\ UNCHANGED <<pc, found, rejoining, placeVars, fetchVars, chan, plan, committed, late,
                 ghostVars>>

-----------------------------------------------------------------------------
(* Answers, read by either thread. *)

Reads(c, kind) ==
  /\ Arrived(c) /\ Head(chan[c]).kind = kind
  /\ pc[c] \in {"prepare", "await", "join", "positions", "wait"} \/ Beating(c)
  /\ chan' = [chan EXCEPT ![c] = Tail(@)]

Reply(c) == Head(chan[c]).reply

\* A commit that is refused resets the generation.  The one _on_join_prepare waits
\* for ends there in any case.
HandleCommit(c) ==
  /\ Reads(c, "commit")
  /\ IF Reply(c) = "ok" THEN UNCHANGED <<state, gen, rejoin>> ELSE ResetGeneration(c)
  /\ IF pc[c] = "prepare" /\ \A i \in 2..Len(chan[c]) : chan[c][i].kind # "commit"
       THEN rejoining' = [rejoining EXCEPT ![c] = TRUE] /\ Goes(c, "await")
       ELSE UNCHANGED <<pc, rejoining>>
  /\ UNCHANGED <<found, placeVars, fetchVars, brokerVars, ghostVars, faults>>

\* update_fetch_positions: seek to the committed offset, or the earliest.
HandleCommitted(c) ==
  LET offs == Head(chan[c]).got IN
  /\ Reads(c, "committed")
  /\ position' = [position EXCEPT ![c] =
       [p \in Partitions |-> IF p \in Missing(c) THEN Max({offs[p], 0}) ELSE @[p]]]
  /\ Goes(c, "drain")
  /\ UNCHANGED <<groupVars, assigned, fetchVars, brokerVars, ghostVars, faults>>

\* The parts of a response, in the order of the partitions.
Parts(r) ==
  LET sought == {p \in Partitions : r.offs[p] # None} IN
  [i \in 1..Cardinality(sought) |->
     [part |-> Nth(sought, i - 1), from |-> r.offs[Nth(sought, i - 1)],
      to |-> r.got[Nth(sought, i - 1)]]]

\* _handle_fetch_response queues the parts of the response, in the order asked for.
HandleFetch(c) ==
  /\ Reads(c, "fetch")
  /\ completed' = [completed EXCEPT ![c] = @ \o Parts(Head(chan[c]))]
  /\ UNCHANGED <<pc, groupVars, placeVars, current, picked, drained, brokerVars, ghostVars,
                 faults>>

\* RangePartitionAssignor: runs of partitions, the longer ones first.
RangeAssign(ms) ==
  LET n     == Cardinality(ms)
      per   == Cardinality(Partitions) \div n
      extra == Cardinality(Partitions) % n
      Start(i) == per * i + Min({i, extra})
      Length(i) == IF i + 1 > extra THEN per ELSE per + 1
  IN [p \in Partitions |->
        Nth(ms, CHOOSE i \in 0..(n - 1) : Start(i) <= p /\ p < Start(i) + Length(i))]

\* The member is in a new generation, and asks for its partitions; the leader sends
\* everyone's.
HandleJoin(c) ==
  LET r == Head(chan[c]) IN
  /\ Arrived(c) /\ r.kind = "join"
  /\ IF r.reply = "ok"
       THEN /\ gen' = [gen EXCEPT ![c] = r.gen]
            /\ rejoin' = [rejoin EXCEPT ![c] = FALSE]
            /\ chan' = [chan EXCEPT ![c] =
                  <<Request("sync", r.gen, IF r.who = {} THEN NoOffsets ELSE RangeAssign(r.who))>>]
            /\ UNCHANGED <<pc, state>>
       ELSE ResetGeneration(c) /\ chan' = [chan EXCEPT ![c] = Tail(@)] /\ Goes(c, "poll")
  /\ UNCHANGED <<found, rejoining, placeVars, fetchVars, brokerVars, ghostVars, faults>>

\* The old partitions are kept.
AssignsMore(c) ==
  /\ assigned' = [assigned EXCEPT ![c] = @ \union {p \in Partitions : Head(chan[c]).got[p] = c}]
  /\ position' = [position EXCEPT ![c] = NoOffsets]

\* _on_join_complete: every partition begins without a position.
Assigns(c) ==
  /\ assigned' = [assigned EXCEPT ![c] = {p \in Partitions : Head(chan[c]).got[p] = c}]
  /\ position' = [position EXCEPT ![c] = NoOffsets]

HandleSync(c) ==
  /\ Reads(c, "sync")
  /\ Goes(c, "poll")
  /\ \/ /\ Reply(c) = "ok"
        /\ state' = [state EXCEPT ![c] = "stable"]
        /\ rejoining' = [rejoining EXCEPT ![c] = FALSE]
        /\ Assigns(c)
        /\ UNCHANGED <<gen, rejoin>>
     \/ /\ Reply(c) = "rebalance"
        /\ state' = [state EXCEPT ![c] = "unjoined"]
        /\ rejoin' = [rejoin EXCEPT ![c] = TRUE]
        /\ UNCHANGED <<gen, rejoining, placeVars>>
     \/ /\ Reply(c) = "unknown"
        /\ ResetGeneration(c)
        /\ UNCHANGED <<rejoining, placeVars>>
  /\ UNCHANGED <<found, fetchVars, brokerVars, ghostVars, faults>>

Answered(c) ==
  \/ HandleCommit(c) \/ HandleCommitted(c) \/ HandleFetch(c)
  \/ HandleJoin(c) \/ HandleSync(c)

\* The commits among requests the broker has not answered may yet be handled.
Adrift(c) == {r \in Range(chan[c]) : r.kind = "commit" /\ r.reply = "sent"}

\* The connection closes: futures fail, and the coordinator is dead to the member.
ConnectionLost(c) ==
  /\ chan[c] # <<>> /\ Fault(c)
  /\ late' = late \union {[member |-> c, gen |-> r.gen, offs |-> r.offs] : r \in Adrift(c)}
  /\ chan' = [chan EXCEPT ![c] = <<>>]
  /\ found' = [found EXCEPT ![c] = FALSE]
  /\ IF pc[c] = "join"
       THEN state' = [state EXCEPT ![c] = "unjoined"] /\ Goes(c, "poll")
       ELSE UNCHANGED <<pc, state>>
  /\ UNCHANGED <<gen, rejoin, rejoining, placeVars, fetchVars, phase, members, joined,
                 plan, committed, ghostVars>>

\* The process dies, with what it had in hand.
Crash(c) ==
  /\ pc[c] # "dead" /\ Fault(c)
  /\ Goes(c, "dead")
  /\ late' = late \union {[member |-> c, gen |-> r.gen, offs |-> r.offs] : r \in Adrift(c)}
  /\ chan' = [chan EXCEPT ![c] = <<>>]
  /\ ResetGeneration(c)
  /\ found' = [found EXCEPT ![c] = FALSE] /\ rejoining' = [rejoining EXCEPT ![c] = FALSE]
  /\ assigned' = [assigned EXCEPT ![c] = {}] /\ position' = [position EXCEPT ![c] = NoOffsets]
  /\ completed' = [completed EXCEPT ![c] = <<>>] /\ current' = [current EXCEPT ![c] = Nothing]
  /\ picked' = [picked EXCEPT ![c] = {}] /\ drained' = [drained EXCEPT ![c] = {}]
  /\ UNCHANGED <<phase, members, joined, plan, committed, ghostVars>>

-----------------------------------------------------------------------------
(* The broker. *)

Asked(c, kind) ==
  \E i \in DOMAIN chan[c] :
    /\ chan[c][i].kind = kind /\ chan[c][i].reply = "sent"
    /\ \A j \in 1..(i - 1) : chan[c][j].reply # "sent"

First(c) ==
  CHOOSE i \in DOMAIN chan[c] :
    chan[c][i].reply = "sent" /\ \A j \in 1..(i - 1) : chan[c][j].reply # "sent"

Question(c) == chan[c][First(c)]

Answer(c, verdict, got) ==
  chan' = [chan EXCEPT ![c][First(c)] = [@ EXCEPT !.reply = verdict, !.got = got]]

Overlay(offs) ==
  committed' = [p \in Partitions |-> IF offs[p] # None THEN offs[p] ELSE committed[p]]

AnswersCommit(c) ==
  /\ Asked(c, "commit")
  /\ Answer(c, Verdict(c, Question(c).gen, {"stable", "join"}), NoOffsets)
  /\ IF Verdict(c, Question(c).gen, {"stable", "join"}) = "ok" THEN Overlay(Question(c).offs)
       ELSE UNCHANGED committed
  /\ UNCHANGED <<pc, groupVars, placeVars, fetchVars, phase, members, joined, plan, late,
                 ghostVars, faults>>

LateCommit(r) ==
  /\ r \in late
  /\ late' = late \ {r}
  /\ IF Current(r.member, r.gen) /\ phase # "sync" THEN Overlay(r.offs) ELSE UNCHANGED committed
  /\ UNCHANGED <<pc, groupVars, placeVars, fetchVars, chan, phase, members, joined, plan,
                 ghostVars, faults>>

Age(g) == IF g = "now" THEN "old" ELSE g

\* All members have joined again, or the others are given up: a new generation.  The
\* late commits are of older ones now, and will be refused.
CompletesJoin ==
  /\ phase = "join" /\ joined # {}
  /\ IF members \subseteq joined THEN UNCHANGED faults
       ELSE \E c \in members \ joined : Fault(c)
  /\ phase' = "sync" /\ plan' = NoPlan
  /\ members' = joined /\ joined' = {}
  /\ gen' = [c \in Members |-> Age(gen[c])]
  /\ chan' = [c \in Members |->
       IF Asked(c, "join")
         THEN <<[Question(c) EXCEPT !.reply = "ok", !.gen = "now",
                                    !.who = IF c = Min(joined) THEN joined ELSE {}]>>
         ELSE [i \in DOMAIN chan[c] |-> [chan[c][i] EXCEPT !.gen = Age(@)]]]
  /\ late' = {}
  /\ UNCHANGED <<pc, found, state, rejoin, rejoining, placeVars, fetchVars, committed, ghostVars>>

\* The leader brings the plan; the others wait for it.
AnswersSync(c) ==
  /\ Asked(c, "sync")
  /\ IF Current(c, Question(c).gen) /\ phase = "sync"
       THEN /\ Question(c).offs # NoOffsets
            /\ plan' = Question(c).offs /\ phase' = "stable"
            /\ Answer(c, "ok", plan')
       ELSE Answer(c, Verdict(c, Question(c).gen, {"stable"}), plan) /\ UNCHANGED <<plan, phase>>
  /\ UNCHANGED <<pc, groupVars, placeVars, fetchVars, members, joined, committed, late,
                 ghostVars, faults>>

\* The member is in no group and does not know that it has to join one: its connection
\* was lost between the answer to its JoinGroup, after which rejoin_needed is not set,
\* and the answer to its SyncGroup.
Stranded(c) == state[c] = "unjoined" /\ ~rejoin[c]

\* The session of a member that is dead, or sends no heartbeats, expires.
Expires(c) ==
  /\ c \in members /\ (pc[c] = "dead" \/ Stranded(c))
  /\ members' = members \ {c} /\ joined' = joined \ {c} /\ phase' = "join"
  /\ UNCHANGED <<pc, groupVars, placeVars, fetchVars, chan, plan, committed, late, ghostVars,
                 faults>>

Answers(c) == AnswersCommit(c) \/ AnswersSync(c)

-----------------------------------------------------------------------------
Thread(c) ==
  \/ Finds(c) \/ Prepare(c) \/ PrepareAgain(c) \/ Joins(c)
  \/ \E due \in BOOLEAN : AutoCommit(c, due)
  \/ AsksCommitted(c) \/ Drain(c) \/ SendsFetch(c) \/ WaitEnds(c)

Next ==
  \/ \E c \in Members :
       \/ Thread(c) \/ Heartbeat(c) \/ Leaves(c)
       \/ Answered(c) \/ Answers(c) \/ ConnectionLost(c) \/ Crash(c) \/ Expires(c)
  \/ CompletesJoin
  \/ \E r \in late : LateCommit(r)

\* The threads run, the broker answers and drops dead members.  Heartbeats and
\* commits are seconds apart, so now and then a fetch finds nothing in flight.
Fairness ==
  /\ \A c \in Members :
       /\ WF_vars(Thread(c)) /\ WF_vars(Heartbeat(c)) /\ WF_vars(Answered(c))
       /\ WF_vars(Answers(c)) /\ WF_vars(Expires(c))
       /\ SF_vars(chan[c] = <<>> /\ SendsFetch(c))
  /\ WF_vars(members \subseteq joined /\ CompletesJoin)

Spec     == Init /\ [][Next]_vars
FairSpec == Spec /\ Fairness

-----------------------------------------------------------------------------
AllRecords == Partitions \X (0..(LogEnd - 1))
Offsets    == [Partitions -> None..LogEnd]
Ages       == {"none", "now", "old"}
Segments   == [part : Partitions, from : 0..LogEnd, to : Raises..LogEnd]

\* What a request carries for each partition: an offset, a member, or an error.
Values   == Raises..Max({LogEnd, Cardinality(Members)})
Requests == [kind : {"commit", "committed", "fetch", "join", "sync"}, gen : Ages,
             offs : [Partitions -> Values], reply : {"sent", "ok", "rebalance", "unknown"},
             got : [Partitions -> Values], who : SUBSET Members]

TypeOK ==
  /\ pc \in [Members -> {"app", "poll", "prepare", "await", "join", "positions", "drain",
                         "send", "wait", "dead"}]
  /\ {found, rejoin, rejoining} \subseteq [Members -> BOOLEAN]
  /\ state \in [Members -> {"unjoined", "rebalancing", "stable"}]
  /\ gen \in [Members -> Ages]
  /\ assigned \in [Members -> SUBSET Partitions] /\ position \in [Members -> Offsets]
  /\ completed \in [Members -> Seq(Segments)] /\ current \in [Members -> Segments]
  /\ picked \in [Members -> SUBSET Partitions] /\ drained \in [Members -> SUBSET AllRecords]
  /\ chan \in [Members -> Seq(Requests)]
  /\ phase \in {"stable", "join", "sync"}
  /\ members \subseteq Members /\ joined \subseteq Members
  /\ plan \in [Partitions -> Members \union {0}] /\ committed \in Offsets
  /\ late \subseteq [member : Members, gen : Ages, offs : Offsets]
  /\ done \subseteq AllRecords /\ dropped \subseteq AllRecords
  /\ faults \in 0..MaxFaults

\* At least once: whatever member commits, after whatever rebalances and crashes, a
\* committed offset covers only records an application has finished with, or those
\* a poll that raised an error had already drained, which no one gets.
CommittedIsDone ==
  \A r \in AllRecords : r[2] < committed[r[1]] => r \in done \union dropped

\* Members that are stable in one generation read different partitions, and all of
\* them when none is missing.
GenerationShares ==
  LET Stable == {c \in Members : state[c] = "stable" /\ gen[c] = "now"} IN
  /\ \A c, d \in Stable : c # d => assigned[c] \intersect assigned[d] = {}
  /\ phase = "stable" /\ members # {} /\ members = Stable =>
       UNION {assigned[c] : c \in Stable} = Partitions

\* The group: of its types, and shared out in each generation.
GroupSound == TypeOK /\ GenerationShares

\* A consumer moves its position past the records it hands out, from that position
\* on, each once, though a partition can be fetched twice; and else only past records
\* a poll that raises drops.
ReadsInOrder ==
  [][\A c \in Members :
       LET passed == {r \in AllRecords : position[c][r[1]] # None
                        /\ r[2] \in position[c][r[1]]..(position'[c][r[1]] - 1)}
       IN \/ drained'[c] \ drained[c] = passed
          \/ drained'[c] = {} /\ passed \subseteq dropped']_vars

\* All living members share the present generation, but for stranded ones.
Settled ==
  \A c \in Members :
    pc[c] = "dead" \/ Stranded(c) \/ (state[c] = "stable" /\ gen[c] = "now")

\* Every record is finished with, or was dropped, if a consumer is left to read it.
EverythingRead ==
  done \union dropped = AllRecords \/ \A c \in Members : pc[c] = "dead" \/ Stranded(c)

\* The group settles, and reads everything: after lost connections, slow members and
\* crashes it comes to rest in one generation, in which nothing stays unread.
GroupSettles == <>[](Settled /\ EverythingRead)

\* ensure_active_group: "Ensure that the group is active (i.e. joined and synced)".  What
\* follows it in a poll finds the member in a group, or knowing that it is to join.
PollIsActive ==
  \A c \in Members : pc[c] = "send" => ~Stranded(c)
=============================================================================
