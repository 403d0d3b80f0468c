------------------------- MODULE TweetSpread_proofs -------------------------
(***************************************************************************)
(* Proofs about the topology, the producer threads, the page and the whole *)
(* system, for any hashtags, archive, threads, sessions and bounds.        *)
(*                                                                         *)
(* The topology: the types, that an offset is committed only over parsed   *)
(* records, that a table is updated at most once per emission, and that    *)
(* the topology implements TweetFeed.                                      *)
(*                                                                         *)
(* The threads: each record of the topic comes from a place of its own in  *)
(* the archive, in the order of the archive.  From this, the topic holds a *)
(* tweet at most once per thread, and the first copies in its order.       *)
(*                                                                         *)
(* The page, over any tables: the types, and that a page whose timers run  *)
(* finds a row.                                                            *)
(*                                                                         *)
(* The whole: the pie chart counts a tweet once per thread, and the parts  *)
(* together implement SearchPage.                                          *)
(***************************************************************************)
EXTENDS TweetSpread, SearchPage, FiniteSetTheorems, TLAPS

\* The inductive strengthening of CommittedWasParsed, for one offset.  A down
\* worker holds nothing; what the spout has read lies between start and next;
\* what is in flight lies at or above the committed offset; what the spout has
\* read since it began is parsed or still in flight, so that the lowest offset
\* in flight ends a parsed prefix.
OffsetInv(o) ==
  /\ ~up => spout[o] = "unread" /\ jsonq[o] = 0
  /\ next <= o => spout[o] = "unread" /\ jsonq[o] = 0
  /\ jsonq[o] > 0 \/ spout[o] # "unread" => start <= o
  /\ spout[o] \in {"pending", "acked", "failed"} => zk <= o
  /\ spout[o] \in {"acked", "done"} => o \in parsed
  /\ up /\ start <= o /\ o < next => o \in parsed \/ spout[o] \in {"pending", "failed"}
  /\ zk # NoOffset /\ start <= o /\ o < zk => o \in parsed

SpoutInv ==
  /\ next <= Len(log) + 1
  /\ up => start <= next
  /\ zk # NoOffset => start <= zk /\ zk <= next
  /\ \A o \in Offsets : OffsetInv(o)

\* Where the tuples of one emission are: at json, at a bolt, at a writer, or
\* already applied.  Each emission accounts for at most one of them per update.
CopiesInv ==
  \A b \in Branches, o \in Offsets, i \in PartIds :
    written[b][o][i] + writeq[b][o][i] + boltq[b][o] + jsonq[o] <= emits[o]

-----------------------------------------------------------------------------
(* Types. *)

\* A step of the topology or of a producer keeps every variable in its type.
LEMMA TypeStep == TypeOK /\ [Next]_vars => TypeOK'
<1> SUFFICES ASSUME TypeOK, [Next]_vars PROVE TypeOK'
  OBVIOUS
<1>1. CASE UNCHANGED vars
  BY <1>1 DEF TypeOK, vars, feed, queues
<1>2. ASSUME NEW m \in Tweets, Publish(m) PROVE TypeOK'
  BY <1>2, BoundsAssumption DEF TypeOK, Publish, feed, queues
<1>3. CASE Open
  BY <1>3, BoundsAssumption DEF TypeOK, Open, queues, NoOffset
<1>4. CASE Crash
  <2>1. EmptyQueues
    BY <1>4 DEF Crash
  <2>2. /\ jsonq' \in [Offsets -> Nat]
        /\ boltq' \in [Branches -> [Offsets -> Nat]]
        /\ writeq' \in [Branches -> [Offsets -> [PartIds -> Nat]]]
    BY <2>1 DEF EmptyQueues
  <2>3. faults' \in 0..MaxFaults
    BY <1>4, BoundsAssumption DEF Crash, TypeOK
  <2>4. QED
    BY <1>4, <2>2, <2>3 DEF Crash, TypeOK
<1>5. CASE EmitNext
  <2>1. Len(log) \in Nat /\ Len(log) <= MaxLog /\ next \in 1..(MaxLog + 1)
    BY DEF TypeOK
  <2>2. next <= Len(log) /\ next' = next + 1
    BY <1>5 DEF EmitNext
  <2>3. next \in Offsets /\ next' \in 1..(MaxLog + 1)
    BY <2>1, <2>2, BoundsAssumption DEF Offsets
  <2>4. /\ spout' \in [Offsets -> {"unread", "pending", "acked", "failed", "done"}]
        /\ emits' \in [Offsets -> Nat]
        /\ jsonq' \in [Offsets -> Nat]
    BY <1>5, <2>3 DEF TypeOK, EmitNext, Emit
  <2>5. UNCHANGED <<log, up, zk, start, boltq, writeq, parsed, written, faults>>
    BY <1>5 DEF EmitNext, Emit
  <2>6. QED
    BY <2>3, <2>4, <2>5 DEF TypeOK
<1>6. CASE Commit
  BY <1>6, BoundsAssumption DEF TypeOK, Commit, queues
<1>7. ASSUME NEW o \in Offsets, EmitRetry(o) PROVE TypeOK'
  BY <1>7 DEF TypeOK, EmitRetry, Emit
<1>8. ASSUME NEW o \in Offsets, Timeout(o) \/ SpoutAck(o) PROVE TypeOK'
  BY <1>8 DEF TypeOK, Timeout, SpoutAck, queues
<1>9. ASSUME NEW o \in Offsets, NEW live \in BOOLEAN, JsonParse(o, live)
      PROVE  TypeOK'
  <2>1. jsonq' \in [Offsets -> Nat] /\ parsed' \subseteq Offsets
    BY <1>9 DEF TypeOK, JsonParse
  <2>2. spout' \in [Offsets -> {"unread", "pending", "acked", "failed", "done"}]
    BY <1>9 DEF TypeOK, JsonParse
  <2>3. boltq' \in [Branches -> [Offsets -> Nat]]
    BY <1>9 DEF TypeOK, JsonParse
  <2>4. UNCHANGED <<log, up, zk, start, next, emits, writeq, written, faults>>
    BY <1>9 DEF JsonParse
  <2>5. QED
    BY <2>1, <2>2, <2>3, <2>4 DEF TypeOK
<1>10. ASSUME NEW o \in Offsets, NEW live \in BOOLEAN, JsonFail(o, live)
       PROVE  TypeOK'
  BY <1>10 DEF TypeOK, JsonFail
<1>11. ASSUME NEW b \in Branches, NEW o \in Offsets, BoltExecute(b, o)
       PROVE  TypeOK'
  BY <1>11 DEF TypeOK, BoltExecute, feed
<1>12. ASSUME NEW b \in Branches, NEW o \in Offsets, NEW i \in PartIds,
              Write(b, o, i)
       PROVE  TypeOK'
  BY <1>12 DEF TypeOK, Write, feed
<1>13. ASSUME NEW b \in Branches, NEW o \in Offsets, NEW i \in PartIds,
              LoseWrite(b, o, i)
       PROVE  TypeOK'
  <2>1. faults' \in 0..MaxFaults
    BY <1>13, BoundsAssumption DEF LoseWrite, TypeOK
  <2>2. QED
    BY <1>13, <2>1 DEF TypeOK, LoseWrite, feed
<1>14. QED
  BY <1>1, <1>2, <1>3, <1>4, <1>5, <1>6, <1>7, <1>8, <1>9, <1>10, <1>11, <1>12,
     <1>13
     DEF Next, Topology, SpoutStep, BoltStep

LEMMA TypeInit == Init => TypeOK
<1> SUFFICES ASSUME Init PROVE TypeOK
  OBVIOUS
<1>1. /\ log \in Seq(Tweets) /\ Len(log) <= MaxLog
      /\ zk \in 0..(MaxLog + 1) /\ start \in 1..(MaxLog + 1)
      /\ next \in 1..(MaxLog + 1) /\ faults \in 0..MaxFaults
  BY BoundsAssumption DEF Init, NoOffset
<1>2. /\ writeq \in [Branches -> [Offsets -> [PartIds -> Nat]]]
      /\ written \in [Branches -> [Offsets -> [PartIds -> Nat]]]
  BY DEF Init
<1>3. QED
  BY <1>1, <1>2 DEF Init, TypeOK

\* Every variable stays in its type, whatever the interleaving.
THEOREM TypeCorrect == Spec => []TypeOK
<1>1. QED BY TypeInit, TypeStep, PTL DEF Spec

-----------------------------------------------------------------------------
(* The committed offset. *)

LEMMA SpoutInvStep == TypeOK /\ TypeOK' /\ SpoutInv /\ [Next]_vars => SpoutInv'
<1> SUFFICES ASSUME TypeOK, TypeOK', SpoutInv, [Next]_vars PROVE SpoutInv'
  OBVIOUS
<1> USE DEF NoOffset
<1>0. /\ zk \in Nat /\ start \in Nat \ {0} /\ next \in Nat \ {0} /\ Len(log) \in Nat
      /\ \A o \in Offsets : o \in Nat \ {0} /\ jsonq[o] \in Nat
  BY BoundsAssumption DEF TypeOK, Offsets
<1>1. CASE UNCHANGED vars
  BY <1>1 DEF SpoutInv, OffsetInv, vars, feed, queues
<1>2. ASSUME NEW m \in Tweets, Publish(m) PROVE SpoutInv'
  <2>1. Len(log') = Len(log) + 1
    BY <1>2 DEF Publish, TypeOK
  <2>2. QED
    BY <1>0, <1>2, <2>1 DEF SpoutInv, OffsetInv, Publish, feed, queues
<1>3. CASE Open
  <2>1. CASE zk = NoOffset
    BY <1>0, <1>3, <2>1 DEF SpoutInv, OffsetInv, Open, queues
  <2>2. CASE zk # NoOffset
    BY <1>0, <1>3, <2>2 DEF SpoutInv, OffsetInv, Open, queues
  <2>3. QED
    BY <2>1, <2>2
<1>4. CASE Crash
  <2>1. \A o \in Offsets : spout'[o] = "unread" /\ jsonq'[o] = 0
    BY <1>4 DEF Crash, EmptyQueues
  <2>2. UNCHANGED <<log, zk, start, next, parsed>> /\ ~up'
    BY <1>4 DEF Crash
  <2>3. QED
    BY <1>0, <2>1, <2>2 DEF SpoutInv, OffsetInv
<1>5. CASE EmitNext
  <2>1. next \in Offsets
    BY <1>0, <1>5, BoundsAssumption DEF EmitNext, TypeOK, Offsets
  <2>2. /\ up /\ next <= Len(log) /\ next' = next + 1
        /\ UNCHANGED <<log, up, zk, start, parsed>>
        /\ spout'[next] = "pending" /\ jsonq'[next] = jsonq[next] + 1
        /\ \A o \in Offsets \ {next} : spout'[o] = spout[o] /\ jsonq'[o] = jsonq[o]
    BY <1>5, <2>1 DEF EmitNext, Emit, TypeOK
  <2>3. ASSUME NEW o \in Offsets PROVE OffsetInv(o)'
    BY <1>0, <2>2 DEF SpoutInv, OffsetInv
  <2>4. QED
    BY <1>0, <2>2, <2>3 DEF SpoutInv
<1>6. CASE Commit
  <2>1. PICK n \in 1..(MaxLog + 1) : Completed(n) /\ zk' = n
    BY <1>6 DEF Commit
  <2>2. up /\ UNCHANGED <<log, up, start, next, spout, jsonq, parsed>>
    BY <1>6 DEF Commit, queues
  <2>3. \A o \in Offsets : spout[o] \in {"pending", "acked", "failed"} => n <= o
    BY <2>1 DEF Completed, InFlight
  <2>4. start <= n /\ n <= next
    BY <1>0, <2>1, <2>2 DEF Completed, InFlight, SpoutInv, OffsetInv
  <2>5. ASSUME NEW o \in Offsets PROVE OffsetInv(o)'
    BY <1>0, <2>1, <2>2, <2>3, <2>4 DEF SpoutInv, OffsetInv
  <2>6. QED
    BY <2>1, <2>2, <2>4, <2>5 DEF SpoutInv
<1>7. ASSUME NEW o \in Offsets, EmitRetry(o) PROVE SpoutInv'
  <2>1. /\ up /\ spout[o] = "failed"
        /\ UNCHANGED <<log, up, zk, start, next, parsed>>
        /\ spout'[o] = "pending" /\ jsonq'[o] = jsonq[o] + 1
        /\ \A q \in Offsets \ {o} : spout'[q] = spout[q] /\ jsonq'[q] = jsonq[q]
    BY <1>7 DEF EmitRetry, Emit, TypeOK
  <2>2. ASSUME NEW q \in Offsets PROVE OffsetInv(q)'
    BY <1>0, <2>1 DEF SpoutInv, OffsetInv
  <2>3. QED
    BY <2>1, <2>2 DEF SpoutInv
<1>8. ASSUME NEW o \in Offsets, Timeout(o) \/ SpoutAck(o) PROVE SpoutInv'
  <2>1. /\ UNCHANGED <<log, up, zk, start, next, parsed, jsonq>>
        /\ \/ spout[o] \in {"pending", "acked"} /\ spout'[o] = "failed"
           \/ spout[o] = "acked" /\ spout'[o] = "done"
        /\ \A q \in Offsets \ {o} : spout'[q] = spout[q]
    BY <1>8 DEF Timeout, SpoutAck, queues, TypeOK
  <2>2. ASSUME NEW q \in Offsets PROVE OffsetInv(q)'
    BY <1>0, <2>1 DEF SpoutInv, OffsetInv
  <2>3. QED
    BY <2>1, <2>2 DEF SpoutInv
<1>9. ASSUME NEW o \in Offsets, NEW live \in BOOLEAN, JsonParse(o, live)
      PROVE  SpoutInv'
  <2>1. /\ UNCHANGED <<log, up, zk, start, next>>
        /\ parsed' = parsed \union {o}
        /\ jsonq[o] > 0 /\ jsonq'[o] = jsonq[o] - 1
        /\ \A q \in Offsets \ {o} : jsonq'[q] = jsonq[q]
    BY <1>9 DEF JsonParse, TypeOK
  <2>2. CASE live
    <3>1. /\ spout[o] = "pending" /\ spout'[o] = "acked"
          /\ \A q \in Offsets \ {o} : spout'[q] = spout[q]
      BY <1>9, <2>2 DEF JsonParse, TypeOK
    <3>2. ASSUME NEW q \in Offsets PROVE OffsetInv(q)'
      BY <1>0, <2>1, <3>1 DEF SpoutInv, OffsetInv
    <3>3. QED
      BY <2>1, <3>2 DEF SpoutInv
  <2>3. CASE ~live
    <3>1. UNCHANGED spout
      BY <1>9, <2>3 DEF JsonParse
    <3>2. ASSUME NEW q \in Offsets PROVE OffsetInv(q)'
      BY <1>0, <2>1, <3>1 DEF SpoutInv, OffsetInv
    <3>3. QED
      BY <2>1, <3>2 DEF SpoutInv
  <2>4. QED
    BY <2>2, <2>3
<1>10. ASSUME NEW o \in Offsets, NEW live \in BOOLEAN, JsonFail(o, live)
       PROVE  SpoutInv'
  <2>1. /\ UNCHANGED <<log, up, zk, start, next, parsed>>
        /\ jsonq[o] > 0 /\ jsonq'[o] = jsonq[o] - 1
        /\ \A q \in Offsets \ {o} : jsonq'[q] = jsonq[q]
    BY <1>10 DEF JsonFail, TypeOK
  <2>2. CASE live
    <3>1. /\ spout[o] = "pending" /\ spout'[o] = "failed"
          /\ \A q \in Offsets \ {o} : spout'[q] = spout[q]
      BY <1>10, <2>2 DEF JsonFail, TypeOK
    <3>2. ASSUME NEW q \in Offsets PROVE OffsetInv(q)'
      BY <1>0, <2>1, <3>1 DEF SpoutInv, OffsetInv
    <3>3. QED
      BY <2>1, <3>2 DEF SpoutInv
  <2>3. CASE ~live
    <3>1. UNCHANGED spout
      BY <1>10, <2>3 DEF JsonFail
    <3>2. ASSUME NEW q \in Offsets PROVE OffsetInv(q)'
      BY <1>0, <2>1, <3>1 DEF SpoutInv, OffsetInv
    <3>3. QED
      BY <2>1, <3>2 DEF SpoutInv
  <2>4. QED
    BY <2>2, <2>3
<1>11. ASSUME NEW b \in Branches, NEW o \in Offsets, NEW i \in PartIds,
              BoltExecute(b, o) \/ Write(b, o, i) \/ LoseWrite(b, o, i)
       PROVE  SpoutInv'
  <2>1. UNCHANGED <<log, up, zk, start, next, spout, jsonq, parsed>>
    BY <1>11 DEF BoltExecute, Write, LoseWrite, feed
  <2>2. QED
    BY <2>1 DEF SpoutInv, OffsetInv
<1>12. 1 \in PartIds
  BY BoundsAssumption DEF PartIds
<1>13. QED
  BY <1>1, <1>2, <1>3, <1>4, <1>5, <1>6, <1>7, <1>8, <1>9, <1>10, <1>11, <1>12
     DEF Next, Topology, SpoutStep, BoltStep

LEMMA SpoutInvInit == Init => SpoutInv
  BY BoundsAssumption DEF Init, SpoutInv, OffsetInv, Offsets, NoOffset

\* However timeouts, replays and crashes interleave, an offset is committed only
\* over records that json has parsed.
THEOREM CommittedParsed == Spec => []CommittedWasParsed
<1>1. TypeOK /\ SpoutInv => CommittedWasParsed
  BY DEF SpoutInv, OffsetInv, CommittedWasParsed
<1>2. QED
  BY <1>1, TypeInit, TypeStep, SpoutInvInit, SpoutInvStep, PTL DEF Spec

-----------------------------------------------------------------------------
(* The tables. *)

\* What one changed cell of a table of tables leaves of the others.
LEMMA CellUpdate ==
  ASSUME NEW A, NEW B, NEW C, NEW f \in [A -> [B -> [C -> Nat]]],
         NEW a \in A, NEW b \in B, NEW c \in C, NEW v,
         NEW x \in A, NEW y \in B, NEW z \in C
  PROVE  [f EXCEPT ![a][b][c] = v][x][y][z] =
           IF x = a /\ y = b /\ z = c THEN v ELSE f[x][y][z]
<1>1. CASE x # a
  BY <1>1
<1>2. CASE x = a
  <2>1. [f EXCEPT ![a][b][c] = v][x] = [f[a] EXCEPT ![b][c] = v]
    BY <1>2
  <2>2. CASE y # b
    BY <1>2, <2>1, <2>2
  <2>3. CASE y = b
    <3>1. [f[a] EXCEPT ![b][c] = v][y] = [f[a][b] EXCEPT ![c] = v]
      BY <2>3
    <3>2. QED
      BY <1>2, <2>1, <2>3, <3>1
  <2>4. QED
    BY <2>2, <2>3
<1>3. QED
  BY <1>1, <1>2

LEMMA CopiesInvStep == TypeOK /\ CopiesInv /\ [Next]_vars => CopiesInv'
<1> SUFFICES ASSUME TypeOK, CopiesInv, [Next]_vars,
                    NEW b \in Branches, NEW o \in Offsets, NEW i \in PartIds
             PROVE  (written[b][o][i] + writeq[b][o][i] + boltq[b][o] + jsonq[o]
                       <= emits[o])'
  BY DEF CopiesInv
<1>0. /\ written[b][o][i] + writeq[b][o][i] + boltq[b][o] + jsonq[o] <= emits[o]
      /\ written[b][o][i] \in Nat /\ writeq[b][o][i] \in Nat
      /\ boltq[b][o] \in Nat /\ jsonq[o] \in Nat /\ emits[o] \in Nat
  BY DEF CopiesInv, TypeOK
<1>1. CASE UNCHANGED <<written, queues, emits>>
  BY <1>0, <1>1 DEF queues
<1>2. CASE Crash
  <2>1. writeq'[b][o][i] = 0 /\ boltq'[b][o] = 0 /\ jsonq'[o] = 0
    BY <1>2 DEF Crash, EmptyQueues
  <2>2. QED
    BY <1>0, <1>2, <2>1 DEF Crash
<1>3. ASSUME NEW q \in Offsets, Emit(q)
      PROVE  (written[b][o][i] + writeq[b][o][i] + boltq[b][o] + jsonq[o]
                <= emits[o])'
  <2>1. UNCHANGED <<boltq, writeq, written>>
    BY <1>3 DEF Emit
  <2>2. \/ jsonq'[o] = jsonq[o] + 1 /\ emits'[o] = emits[o] + 1
        \/ jsonq'[o] = jsonq[o] /\ emits'[o] = emits[o]
    BY <1>3 DEF Emit, TypeOK
  <2>3. QED
    BY <1>0, <2>1, <2>2
<1>4. ASSUME NEW q \in Offsets, NEW live \in BOOLEAN,
             JsonParse(q, live) \/ JsonFail(q, live)
      PROVE  (written[b][o][i] + writeq[b][o][i] + boltq[b][o] + jsonq[o]
                <= emits[o])'
  <2>1. /\ UNCHANGED <<written, writeq, emits>>
        /\ jsonq' = [jsonq EXCEPT ![q] = @ - 1]
        /\ boltq'[b] = [boltq[b] EXCEPT ![q] = @ + 1] \/ boltq' = boltq
    BY <1>4 DEF JsonParse, JsonFail
  <2>2. boltq[b] \in [Offsets -> Nat] /\ jsonq \in [Offsets -> Nat]
    BY DEF TypeOK
  <2>3. CASE o = q
    <3>1. jsonq'[o] = jsonq[o] - 1 /\ boltq'[b][o] \in {boltq[b][o], boltq[b][o] + 1}
      BY <2>1, <2>2, <2>3
    <3>2. QED
      BY <1>0, <2>1, <3>1
  <2>4. CASE o # q
    <3>1. jsonq'[o] = jsonq[o] /\ boltq'[b][o] = boltq[b][o]
      BY <2>1, <2>2, <2>4
    <3>2. QED
      BY <1>0, <2>1, <3>1
  <2>5. QED
    BY <2>3, <2>4
<1>5. ASSUME NEW c \in Branches, NEW q \in Offsets, BoltExecute(c, q)
      PROVE  (written[b][o][i] + writeq[b][o][i] + boltq[b][o] + jsonq[o]
                <= emits[o])'
  <2>1. UNCHANGED <<written, jsonq, emits>>
    BY <1>5 DEF BoltExecute, feed
  <2>2. CASE b = c /\ o = q
    <3>1. boltq'[b][o] = boltq[b][o] - 1 /\ writeq'[b][o][i] <= writeq[b][o][i] + 1
      BY <1>0, <1>5, <2>2 DEF BoltExecute, TypeOK
    <3>2. writeq'[b][o][i] \in Nat
      BY <1>0, <1>5, <2>2 DEF BoltExecute, TypeOK
    <3>3. QED
      BY <1>0, <2>1, <3>1, <3>2
  <2>3. CASE ~(b = c /\ o = q)
    <3>1. boltq'[b][o] = boltq[b][o] /\ writeq'[b][o][i] = writeq[b][o][i]
      BY <1>5, <2>3 DEF BoltExecute, TypeOK
    <3>2. QED
      BY <1>0, <2>1, <3>1
  <2>4. QED
    BY <2>2, <2>3
<1>6. ASSUME NEW c \in Branches, NEW q \in Offsets, NEW j \in PartIds, Write(c, q, j)
      PROVE  (written[b][o][i] + writeq[b][o][i] + boltq[b][o] + jsonq[o]
                <= emits[o])'
  <2>1. UNCHANGED <<boltq, jsonq, emits>>
    BY <1>6 DEF Write, feed
  <2>2. /\ writeq \in [Branches -> [Offsets -> [PartIds -> Nat]]]
        /\ written \in [Branches -> [Offsets -> [PartIds -> Nat]]]
    BY DEF TypeOK
  <2>3. /\ writeq' = [writeq EXCEPT ![c][q][j] = writeq[c][q][j] - 1]
        /\ written' = [written EXCEPT ![c][q][j] = written[c][q][j] + 1]
    BY <1>6 DEF Write
  <2>4. writeq'[b][o][i] = IF b = c /\ o = q /\ i = j
                             THEN writeq[c][q][j] - 1 ELSE writeq[b][o][i]
    BY <2>2, <2>3, CellUpdate
  <2>5. written'[b][o][i] = IF b = c /\ o = q /\ i = j
                              THEN written[c][q][j] + 1 ELSE written[b][o][i]
    BY <2>2, <2>3, CellUpdate
  <2>6. QED
    BY <1>0, <2>1, <2>4, <2>5
<1>7. ASSUME NEW c \in Branches, NEW q \in Offsets, NEW j \in PartIds, LoseWrite(c, q, j)
      PROVE  (written[b][o][i] + writeq[b][o][i] + boltq[b][o] + jsonq[o]
                <= emits[o])'
  <2>1. UNCHANGED <<boltq, jsonq, emits, written>>
    BY <1>7 DEF LoseWrite, feed
  <2>2. /\ writeq \in [Branches -> [Offsets -> [PartIds -> Nat]]]
        /\ writeq' = [writeq EXCEPT ![c][q][j] = writeq[c][q][j] - 1]
    BY <1>7 DEF LoseWrite, TypeOK
  <2>3. writeq'[b][o][i] = IF b = c /\ o = q /\ i = j
                             THEN writeq[c][q][j] - 1 ELSE writeq[b][o][i]
    BY <2>2, CellUpdate
  <2>4. QED
    BY <1>0, <2>1, <2>3
<1>8. EmitNext => next \in Offsets /\ Emit(next)
  BY BoundsAssumption DEF EmitNext, TypeOK, Offsets
<1>9. QED
  BY <1>1, <1>2, <1>3, <1>4, <1>5, <1>6, <1>7, <1>8
     DEF Next, Topology, SpoutStep, BoltStep, Publish, Open, Commit, EmitRetry,
         Timeout, SpoutAck, vars, feed, queues

LEMMA CopiesInvInit == Init => CopiesInv
  BY DEF Init, CopiesInv

\* Whatever is replayed or lost, no update of a tweet is applied more often than
\* the spout emitted the tweet.
THEOREM WritesPaid == Spec => []WritesPaidByEmits
<1>1. ASSUME TypeOK, CopiesInv PROVE WritesPaidByEmits
  <2>1. ASSUME NEW b \in Branches, NEW o \in Offsets, NEW i \in PartIds
        PROVE  written[b][o][i] <= emits[o]
    <3>1. /\ written[b][o][i] + writeq[b][o][i] + boltq[b][o] + jsonq[o] <= emits[o]
          /\ written[b][o][i] \in Nat /\ writeq[b][o][i] \in Nat
          /\ boltq[b][o] \in Nat /\ jsonq[o] \in Nat /\ emits[o] \in Nat
      BY <1>1 DEF CopiesInv, TypeOK
    <3>2. QED
      BY <3>1
  <2>2. QED
    BY <2>1 DEF WritesPaidByEmits
<1>2. QED
  BY <1>1, TypeInit, TypeStep, CopiesInvInit, CopiesInvStep, PTL DEF Spec

-----------------------------------------------------------------------------
(* Refinement of TweetFeed. *)

LEMMA FeedInit == Init => Feed!Init
  BY DEF Init, Feed!Init, NoOffset

LEMMA FeedStep ==
  TypeOK /\ TypeOK' /\ SpoutInv /\ SpoutInv' /\ [Next]_vars => [Feed!Next]_(Feed!vars)
<1> SUFFICES ASSUME TypeOK, TypeOK', SpoutInv, SpoutInv', [Next]_vars
             PROVE  [Feed!Next]_(Feed!vars)
  OBVIOUS
<1> USE DEF NoOffset
<1>0. /\ zk \in Nat /\ start \in Nat \ {0} /\ next \in Nat \ {0} /\ Len(log) \in Nat
      /\ \A o \in Offsets : o \in Nat \ {0} /\ jsonq[o] \in Nat
  BY BoundsAssumption DEF TypeOK, Offsets
<1>1. ASSUME UNCHANGED <<log, start, zk, parsed>> PROVE UNCHANGED Feed!vars
  BY <1>1 DEF Feed!vars
<1>2. ASSUME NEW m \in Tweets, Publish(m) PROVE Feed!Publish
  BY <1>2 DEF Publish, Feed!Publish, feed
<1>3. ASSUME Open, zk = NoOffset PROVE Feed!BeginAtEnd
  <2>1. zk = 0 /\ start' = Len(log) + 1 /\ UNCHANGED <<log, zk, parsed>>
    BY <1>3 DEF Open
  <2>2. QED
    BY <2>1 DEF Feed!BeginAtEnd
<1>4. ASSUME Commit PROVE Feed!Advance
  <2>1. PICK n \in 1..(MaxLog + 1) :
               Completed(n) /\ zk' = n /\ n # IF zk = NoOffset THEN start ELSE zk
    BY <1>4 DEF Commit
  <2>2. up /\ UNCHANGED <<log, up, start, next, spout, parsed>>
    BY <1>4 DEF Commit
  <2>3. start <= n /\ n <= next /\ zk < n
    BY <1>0, <2>1, <2>2 DEF Completed, InFlight, SpoutInv, OffsetInv
  <2>4. ASSUME NEW o \in start..(n - 1) PROVE o \in parsed
    <3>1. o \in Offsets
      BY <1>0, <2>1, BoundsAssumption DEF Offsets
    <3>2. OffsetInv(o)'
      BY <3>1 DEF SpoutInv
    <3>3. QED
      BY <1>0, <2>1, <2>2, <3>2 DEF OffsetInv
  <2>5. n \in start..(Len(log) + 1)
    BY <1>0, <2>1, <2>3 DEF SpoutInv
  <2>6. QED
    <3>1. start..(n - 1) \subseteq parsed
      BY <2>4
    <3>2. zk < n /\ zk' = n /\ UNCHANGED <<log, start, parsed>>
      BY <2>1, <2>2, <2>3
    <3>3. QED
      BY <2>5, <3>1, <3>2 DEF Feed!Advance
<1>5. ASSUME NEW o \in Offsets, NEW live \in BOOLEAN, JsonParse(o, live)
      PROVE  Feed!Handle
  <2>1. /\ jsonq[o] > 0 /\ log[o].json /\ parsed' = parsed \union {o}
        /\ UNCHANGED <<log, start, zk>>
    BY <1>5 DEF JsonParse
  <2>2. o \in start..Len(log)
    BY <1>0, <2>1 DEF SpoutInv, OffsetInv
  <2>3. QED
    BY <2>1, <2>2 DEF Feed!Handle
<1>6. ASSUME (Open /\ zk # NoOffset) \/ Crash \/ EmitNext \/ UNCHANGED vars
      PROVE  UNCHANGED <<log, start, zk, parsed>>
  BY <1>6 DEF Open, Crash, EmitNext, Emit, vars, feed
<1>7. ASSUME NEW o \in Offsets, EmitRetry(o) \/ Timeout(o) \/ SpoutAck(o)
      PROVE  UNCHANGED <<log, start, zk, parsed>>
  BY <1>7 DEF EmitRetry, Emit, Timeout, SpoutAck
<1>8. ASSUME NEW o \in Offsets, NEW live \in BOOLEAN, JsonFail(o, live)
      PROVE  UNCHANGED <<log, start, zk, parsed>>
  BY <1>8 DEF JsonFail
<1>9. ASSUME NEW b \in Branches, NEW o \in Offsets, NEW i \in PartIds,
             BoltExecute(b, o) \/ Write(b, o, i) \/ LoseWrite(b, o, i)
      PROVE  UNCHANGED <<log, start, zk, parsed>>
  BY <1>9 DEF BoltExecute, Write, LoseWrite, feed
<1>10. 1 \in PartIds
  BY BoundsAssumption DEF PartIds
<1>11. QED
  <2>1. CASE SpoutStep
    BY <1>1, <1>3, <1>4, <1>6, <1>7, <2>1 DEF SpoutStep, Feed!Next
  <2>2. CASE BoltStep
    BY <1>1, <1>5, <1>8, <1>9, <1>10, <2>2 DEF BoltStep, Feed!Next
  <2>3. QED
    BY <1>1, <1>2, <1>6, <2>1, <2>2 DEF Next, Topology, Feed!Next

\* The topology implements the feed: its commits only move forward, over parsed
\* records, and only records that parse are handled.
THEOREM FeedRefinement == Spec => ImplementsFeed
  BY TypeInit, TypeStep, SpoutInvInit, SpoutInvStep, FeedInit, FeedStep, PTL
     DEF Spec, ImplementsFeed, Feed!Spec


-----------------------------------------------------------------------------
(* The threads: where each record of the topic and of a buffer was sent.   *)

\* A place in the archive as a thread goes through it.
Slots == [by : Threads, page : Nat, at : Nat]

Before(x, y) == x.page < y.page \/ (x.page = y.page /\ x.at < y.at)

\* The thread has sent what is there, and what that is.
IsSent(x) ==
  /\ tpc[x.by] # "none"
  /\ \/ x.page \in 1..(page[x.by] - 1) /\ x.at \in 1..Len(Archive[topic[x.by]][x.page])
     \/ x.page = page[x.by] /\ x.at \in 1..sent[x.by]

Of(x) == Archive[topic[x.by]][x.page][x.at]

\* The records of the topic, and of a producer's buffer, come each from a place of their
\* own, in the order of the archive, and what waits comes behind what was delivered.
Logged(src) ==
  /\ src \in [Nat -> Slots]
  /\ \A i \in 1..Len(log) : IsSent(src[i]) /\ log[i] = Of(src[i])
  /\ \A i, j \in 1..Len(log) : i < j /\ src[i].by = src[j].by => Before(src[i], src[j])

Waiting(held) ==
  /\ held \in [Threads -> [Nat -> Slots]]
  /\ \A t \in Threads : \A j \in 1..Len(buffer[t]) :
       held[t][j].by = t /\ IsSent(held[t][j]) /\ buffer[t][j] = Of(held[t][j])
  /\ \A t \in Threads : \A i, j \in 1..Len(buffer[t]) :
       i < j => Before(held[t][i], held[t][j])

Behind(src, held) ==
  \A i \in 1..Len(log) : \A t \in Threads : \A j \in 1..Len(buffer[t]) :
    src[i].by = t => Before(src[i], held[t][j])

\* What a thread has sent is in the topic or waits, unless its producer lost a request
\* or was dropped.
Arrives(src, held) ==
  \A x \in Slots :
    IsSent(x) /\ x.by \notin lost /\ tpc[x.by] # "dead" =>
      \/ \E i \in 1..Len(log) : src[i] = x
      \/ \E j \in 1..Len(buffer[x.by]) : held[x.by][j] = x

\* What precedes a delivered record is delivered, and what precedes one that waits
\* is delivered or waits, unless the producer lost a request.
Gapless(src) ==
  \A i \in 1..Len(log) : \A x \in Slots :
    IsSent(x) /\ x.by = src[i].by /\ x.by \notin lost /\ Before(x, src[i]) =>
      \E j \in 1..Len(log) : src[j] = x

Unbroken(src, held) ==
  \A t \in Threads \ lost : \A k \in 1..Len(buffer[t]) : \A x \in Slots :
    IsSent(x) /\ x.by = t /\ Before(x, held[t][k]) =>
      \/ \E i \in 1..Len(log) : src[i] = x
      \/ \E j \in 1..Len(buffer[t]) : held[t][j] = x

Traced(src, held) ==
  /\ Logged(src) /\ Waiting(held) /\ Behind(src, held)
  /\ Arrives(src, held) /\ Gapless(src) /\ Unbroken(src, held)

TraceInv == \E src, held : Traced(src, held)

\* The types of a thread's variables, as functions, and where it has sent nothing yet.
ThreadTypes ==
  /\ log \in Seq(Tweets)
  /\ tpc \in [Threads -> {"none", "search", "send", "close", "closed", "dead"}]
  /\ topic \in [Threads -> Hashtags]
  /\ page \in [Threads -> Nat] /\ sent \in [Threads -> Nat]
  /\ buffer \in [Threads -> Seq(Tweets)]
  /\ lost \subseteq Threads
  /\ \A t \in Threads : /\ page[t] \in 1..Len(Archive[topic[t]])
                        /\ sent[t] \in 0..Len(Archive[topic[t]][page[t]])
                        /\ tpc[t] = "none" => page[t] = 1
                        /\ tpc[t] \in {"none", "search"} => sent[t] = 0
                        /\ tpc[t] \in {"none", "closed"} => buffer[t] = <<>>

ThreadInv == ThreadTypes /\ TraceInv /\ IsFiniteSet({t \in Threads : tpc[t] # "none"})

\* What the steps of threads and producers are, whoever starts the threads.
Begins(t, h) ==
  /\ tpc[t] = "none"
  /\ tpc' = [tpc EXCEPT ![t] = "search"]
  /\ topic' = [topic EXCEPT ![t] = h]
  /\ UNCHANGED <<log, page, sent, buffer, lost>>

Moves ==
  \/ UNCHANGED <<log, tpc, topic, page, sent, buffer, lost>>
  \/ \E t \in Threads : \/ \E h \in Hashtags : Begins(t, h)
                        \/ (Run(t) \/ Drop(t)) /\ UNCHANGED log
                        \/ Deliver(t) \/ Loses(t)

LEMMA ArchivePages ==
  ASSUME NEW h \in Hashtags
  PROVE  /\ Archive[h] \in Seq(Seq(Tweets)) /\ Len(Archive[h]) \in Nat /\ Len(Archive[h]) >= 1
         /\ DOMAIN Archive[h] = 1..Len(Archive[h])
         /\ \A n \in 1..Len(Archive[h]) :
              /\ Archive[h][n] \in Seq(Tweets) /\ Len(Archive[h][n]) \in Nat
              /\ DOMAIN Archive[h][n] = 1..Len(Archive[h][n])
              /\ \A k \in 1..Len(Archive[h][n]) : Archive[h][n][k] \in Tweets
<1>1. Archive[h] \in Seq(Seq(Tweets)) /\ Len(Archive[h]) > 0
  BY ArchiveAssumption
<1>2. Len(Archive[h]) \in Nat /\ DOMAIN Archive[h] = 1..Len(Archive[h])
  BY <1>1
<1>3. ASSUME NEW n \in 1..Len(Archive[h])
      PROVE  /\ Archive[h][n] \in Seq(Tweets) /\ Len(Archive[h][n]) \in Nat
             /\ DOMAIN Archive[h][n] = 1..Len(Archive[h][n])
             /\ \A k \in 1..Len(Archive[h][n]) : Archive[h][n][k] \in Tweets
  <2>1. Archive[h][n] \in Seq(Tweets)
    BY <1>1, <1>3
  <2>2. Len(Archive[h][n]) \in Nat /\ DOMAIN Archive[h][n] = 1..Len(Archive[h][n])
    BY <2>1
  <2>3. ASSUME NEW k \in 1..Len(Archive[h][n]) PROVE Archive[h][n][k] \in Tweets
    BY <2>1, <2>2
  <2>4. QED
    BY <2>1, <2>2, <2>3
<1>4. QED
  BY <1>1, <1>2, <1>3

LEMMA ThreadIs ==
  ASSUME ThreadTypes, NEW t \in Threads
  PROVE  /\ tpc[t] \in {"none", "search", "send", "close", "closed", "dead"}
         /\ topic[t] \in Hashtags
         /\ page[t] \in Nat /\ sent[t] \in Nat
         /\ page[t] \in 1..Len(Archive[topic[t]]) /\ Len(Archive[topic[t]]) \in Nat
         /\ Archive[topic[t]][page[t]] \in Seq(Tweets)
         /\ Len(Archive[topic[t]][page[t]]) \in Nat
         /\ sent[t] <= Len(Archive[topic[t]][page[t]])
         /\ buffer[t] \in Seq(Tweets) /\ Len(buffer[t]) \in Nat
         /\ log \in Seq(Tweets) /\ Len(log) \in Nat
<1>1. /\ tpc[t] \in {"none", "search", "send", "close", "closed", "dead"}
      /\ topic[t] \in Hashtags /\ page[t] \in Nat /\ sent[t] \in Nat
      /\ page[t] \in 1..Len(Archive[topic[t]])
      /\ sent[t] \in 0..Len(Archive[topic[t]][page[t]])
      /\ buffer[t] \in Seq(Tweets) /\ log \in Seq(Tweets)
  BY DEF ThreadTypes
<1>2. /\ Len(Archive[topic[t]]) \in Nat /\ Archive[topic[t]][page[t]] \in Seq(Tweets)
      /\ Len(Archive[topic[t]][page[t]]) \in Nat
  BY <1>1, ArchivePages
<1>3. QED
  BY <1>1, <1>2

-----------------------------------------------------------------------------
(* The trace through each kind of step. *)

\* A step that neither sends nor moves records keeps the trace.
LEMMA TraceStays ==
  ASSUME TraceInv, UNCHANGED <<log, buffer>>,
         \A x \in Slots : IsSent(x)' <=> IsSent(x),
         \A x \in Slots : IsSent(x) => Of(x)' = Of(x),
         lost \subseteq lost',
         \A t \in Threads : tpc[t] = "dead" => tpc'[t] = "dead"
  PROVE  TraceInv'
<1>1. PICK src, held : Traced(src, held)
  BY DEF TraceInv
<1>2. /\ src \in [Nat -> Slots] /\ held \in [Threads -> [Nat -> Slots]]
      /\ \A i \in Nat : src[i] \in Slots
      /\ \A t \in Threads, j \in Nat : held[t][j] \in Slots
  BY <1>1 DEF Traced, Logged, Waiting
<1>3. Logged(src)'
  BY <1>1, <1>2 DEF Traced, Logged
<1>4. Waiting(held)'
  <2>1. ASSUME NEW t \in Threads, NEW j \in 1..Len(buffer[t])
        PROVE  held[t][j].by = t /\ IsSent(held[t][j])' /\ buffer'[t][j] = Of(held[t][j])'
    BY <1>1, <1>2, <2>1 DEF Traced, Waiting
  <2>2. QED
    BY <1>1, <2>1 DEF Traced, Waiting
<1>5. Behind(src, held)'
  BY <1>1 DEF Traced, Behind
<1>6. Arrives(src, held)'
  <2>1. ASSUME NEW x \in Slots, IsSent(x)', x.by \notin lost', tpc'[x.by] # "dead"
        PROVE  \/ \E i \in 1..Len(log) : src[i] = x
               \/ \E j \in 1..Len(buffer[x.by]) : held[x.by][j] = x
    <3>1. x.by \in Threads
      BY DEF Slots
    <3>2. IsSent(x) /\ x.by \notin lost /\ tpc[x.by] # "dead"
      BY <2>1, <3>1
    <3>3. QED
      BY <1>1, <3>2 DEF Traced, Arrives
  <2>2. QED
    BY <2>1 DEF Arrives
<1>7. Gapless(src)'
  BY <1>1 DEF Traced, Gapless
<1>8. Unbroken(src, held)'
  BY <1>1 DEF Traced, Unbroken
<1>9. QED
  BY <1>3, <1>4, <1>5, <1>6, <1>7, <1>8 DEF TraceInv, Traced

\* A thread sends the next tweet of its page.
LEMMA TraceSends ==
  ASSUME ThreadTypes, TraceInv, NEW t \in Threads, Send(t), UNCHANGED log
  PROVE  TraceInv'
<1> DEFINE r == Archive[topic[t]][page[t]]
<1>1. PICK src, held : Traced(src, held)
  BY DEF TraceInv
<1>2. /\ src \in [Nat -> Slots] /\ held \in [Threads -> [Nat -> Slots]]
      /\ \A i \in Nat : src[i] \in Slots
      /\ \A u \in Threads, j \in Nat : held[u][j] \in Slots
  BY <1>1 DEF Traced, Logged, Waiting
<1>3. /\ tpc[t] = "send" /\ sent[t] < Len(r)
      /\ buffer' = [buffer EXCEPT ![t] = Append(@, r[sent[t] + 1])]
      /\ sent' = [sent EXCEPT ![t] = @ + 1]
      /\ UNCHANGED <<log, tpc, topic, page, lost>>
  BY DEF Send, Results
<1>4. /\ topic[t] \in Hashtags /\ page[t] \in Nat /\ sent[t] \in Nat /\ r \in Seq(Tweets)
      /\ Len(r) \in Nat /\ buffer[t] \in Seq(Tweets) /\ Len(buffer[t]) \in Nat
      /\ buffer \in [Threads -> Seq(Tweets)] /\ sent \in [Threads -> Nat] /\ Len(log) \in Nat
  BY ThreadIs DEF ThreadTypes
<1>5. PICK z : z = [by |-> t, page |-> page[t], at |-> sent[t] + 1]
  OBVIOUS
<1>6. PICK m : m = Len(buffer[t]) + 1
  OBVIOUS
<1>7. z \in Slots /\ z.by = t /\ z.page = page[t] /\ z.at = sent[t] + 1 /\ m \in Nat
  BY <1>4, <1>5, <1>6 DEF Slots
<1>8. /\ sent'[t] = sent[t] + 1 /\ \A u \in Threads : u # t => sent'[u] = sent[u]
      /\ buffer'[t] = Append(buffer[t], r[sent[t] + 1])
      /\ \A u \in Threads : u # t => buffer'[u] = buffer[u]
  BY <1>3, <1>4
<1>9. /\ Len(buffer'[t]) = m /\ buffer'[t][m] = r[sent[t] + 1]
      /\ \A j \in 1..Len(buffer[t]) : buffer'[t][j] = buffer[t][j]
  BY <1>4, <1>6, <1>8
<1>10. \A x : Of(x)' = Of(x)
  BY <1>3 DEF Of
<1>11. Of(z) = r[sent[t] + 1]
  BY <1>7 DEF Of
<1>12. ASSUME NEW x \in Slots PROVE IsSent(x)' <=> IsSent(x) \/ x = z
  <2>1. x.by \in Threads /\ x.page \in Nat /\ x.at \in Nat
    BY DEF Slots
  <2>2. CASE x.by # t
    BY <1>3, <1>7, <1>8, <2>1, <2>2 DEF IsSent
  <2>3. CASE x.by = t
    <3>1. IsSent(x) <=> \/ x.page \in 1..(page[t] - 1) /\ x.at \in 1..Len(Archive[topic[t]][x.page])
                        \/ x.page = page[t] /\ x.at \in 1..sent[t]
      BY <1>3, <2>3 DEF IsSent
    <3>2. IsSent(x)' <=> \/ x.page \in 1..(page[t] - 1) /\ x.at \in 1..Len(Archive[topic[t]][x.page])
                         \/ x.page = page[t] /\ x.at \in 1..(sent[t] + 1)
      BY <1>3, <1>8, <2>3 DEF IsSent
    <3>3. x = z <=> x.page = page[t] /\ x.at = sent[t] + 1
      BY <1>5, <2>1, <2>3 DEF Slots
    <3>4. x.at \in 1..(sent[t] + 1) <=> x.at \in 1..sent[t] \/ x.at = sent[t] + 1
      <4>1. \A a, n \in Nat : a \in 1..(n + 1) <=> a \in 1..n \/ a = n + 1
        OBVIOUS
      <4>2. QED
        BY <1>4, <2>1, <4>1
    <3>5. QED
      BY <3>1, <3>2, <3>3, <3>4
  <2>4. QED
    BY <2>2, <2>3
<1>13. ASSUME NEW x \in Slots, IsSent(x), x.by = t PROVE Before(x, z)
  <2>1. x.page \in Nat /\ x.at \in Nat
    BY DEF Slots
  <2>2. QED
    BY <1>4, <1>7, <1>13, <2>1 DEF IsSent, Before
<1>14. ~IsSent(z)
  BY <1>4, <1>7 DEF IsSent
<1>15. PICK held2 : held2 = [held EXCEPT ![t] = [held[t] EXCEPT ![m] = z]]
  OBVIOUS
<1>16. /\ held2 \in [Threads -> [Nat -> Slots]] /\ held2[t][m] = z
       /\ \A j \in 1..Len(buffer[t]) : held2[t][j] = held[t][j]
       /\ \A u \in Threads : u # t => held2[u] = held[u]
  BY <1>2, <1>4, <1>6, <1>7, <1>15
<1>17. Logged(src)'
  <2>1. ASSUME NEW i \in 1..Len(log) PROVE IsSent(src[i])' /\ log'[i] = Of(src[i])'
    BY <1>1, <1>2, <1>3, <1>10, <1>12, <2>1 DEF Traced, Logged
  <2>2. QED
    BY <1>1, <1>3, <2>1 DEF Traced, Logged
<1>18. ASSUME NEW u \in Threads, NEW j \in 1..Len(buffer'[u])
       PROVE  \/ u = t /\ j = m /\ held2[u][j] = z
              \/ j \in 1..Len(buffer[u]) /\ held2[u][j] = held[u][j] /\ buffer'[u][j] = buffer[u][j]
  <2>1. CASE u = t
    <3>1. j \in 1..m
      BY <1>9, <1>18, <2>1
    <3>2. j = m \/ j \in 1..Len(buffer[t])
      BY <1>4, <1>6, <3>1
    <3>3. QED
      BY <1>9, <1>16, <2>1, <3>2
  <2>2. CASE u # t
    BY <1>8, <1>16, <1>18, <2>2
  <2>3. QED
    BY <2>1, <2>2
<1>19. Waiting(held2)'
  <2>1. ASSUME NEW u \in Threads, NEW j \in 1..Len(buffer'[u])
        PROVE  held2[u][j].by = u /\ IsSent(held2[u][j])' /\ buffer'[u][j] = Of(held2[u][j])'
    <3>1. CASE u = t /\ j = m /\ held2[u][j] = z
      BY <1>7, <1>9, <1>10, <1>11, <1>12, <3>1
    <3>2. CASE j \in 1..Len(buffer[u]) /\ held2[u][j] = held[u][j] /\ buffer'[u][j] = buffer[u][j]
      <4>1. j \in Nat /\ held[u][j] \in Slots
        BY <1>2, <3>2
      <4>2. held[u][j].by = u /\ IsSent(held[u][j]) /\ buffer[u][j] = Of(held[u][j])
        BY <1>1, <3>2 DEF Traced, Waiting
      <4>3. QED
        BY <1>10, <1>12, <3>2, <4>1, <4>2
    <3>3. QED
      BY <1>18, <3>1, <3>2
  <2>2. ASSUME NEW u \in Threads, NEW i \in 1..Len(buffer'[u]), NEW j \in 1..Len(buffer'[u]), i < j
        PROVE  Before(held2[u][i], held2[u][j])
    <3>1. i # m \/ u # t
      BY <1>4, <1>6, <1>9, <2>2
    <3>2. i \in 1..Len(buffer[u]) /\ held2[u][i] = held[u][i]
      BY <1>18, <3>1
    <3>3. CASE u = t /\ j = m /\ held2[u][j] = z
      <4>1. i \in Nat /\ held[u][i] \in Slots /\ held[u][i].by = t /\ IsSent(held[u][i])
        BY <1>1, <1>2, <3>2, <3>3 DEF Traced, Waiting
      <4>2. QED
        BY <1>13, <3>2, <3>3, <4>1
    <3>4. CASE j \in 1..Len(buffer[u]) /\ held2[u][j] = held[u][j]
      BY <1>1, <2>2, <3>2, <3>4 DEF Traced, Waiting
    <3>5. QED
      BY <1>18, <3>3, <3>4
  <2>3. QED
    BY <1>16, <2>1, <2>2 DEF Waiting
<1>20. Behind(src, held2)'
  <2>1. ASSUME NEW i \in 1..Len(log), NEW u \in Threads, NEW j \in 1..Len(buffer'[u]), src[i].by = u
        PROVE  Before(src[i], held2[u][j])
    <3>1. CASE u = t /\ j = m /\ held2[u][j] = z
      <4>1. src[i] \in Slots /\ IsSent(src[i])
        BY <1>1, <1>2 DEF Traced, Logged
      <4>2. QED
        BY <1>13, <2>1, <3>1, <4>1
    <3>2. CASE j \in 1..Len(buffer[u]) /\ held2[u][j] = held[u][j]
      BY <1>1, <2>1, <3>2 DEF Traced, Behind
    <3>3. QED
      BY <1>18, <3>1, <3>2
  <2>2. QED
    BY <1>3, <2>1 DEF Behind
<1>21. Arrives(src, held2)'
  <2>1. ASSUME NEW x \in Slots, IsSent(x)', x.by \notin lost, tpc[x.by] # "dead"
        PROVE  \/ \E i \in 1..Len(log) : src[i] = x
               \/ \E j \in 1..Len(buffer'[x.by]) : held2[x.by][j] = x
    <3>1. CASE x = z
      <4>1. m \in 1..Len(buffer'[t])
        BY <1>4, <1>6, <1>9
      <4>2. QED
        BY <1>7, <1>16, <3>1, <4>1
    <3>2. CASE x # z
      <4>1. IsSent(x)
        BY <1>12, <2>1, <3>2
      <4>2. \/ \E i \in 1..Len(log) : src[i] = x
            \/ \E j \in 1..Len(buffer[x.by]) : held[x.by][j] = x
        BY <1>1, <2>1, <4>1 DEF Traced, Arrives
      <4>3. ASSUME NEW j \in 1..Len(buffer[x.by]), held[x.by][j] = x
            PROVE  j \in 1..Len(buffer'[x.by]) /\ held2[x.by][j] = x
        <5>1. x.by \in Threads
          BY DEF Slots
        <5>2. CASE x.by = t
          BY <1>4, <1>6, <1>9, <1>16, <4>3, <5>2
        <5>3. CASE x.by # t
          BY <1>8, <1>16, <4>3, <5>1, <5>3
        <5>4. QED
          BY <5>2, <5>3
      <4>4. QED
        BY <4>2, <4>3
    <3>3. QED
      BY <3>1, <3>2
  <2>2. QED
    BY <1>3, <2>1 DEF Arrives
<1>22. Gapless(src)'
  <2>1. ASSUME NEW i \in 1..Len(log), NEW x \in Slots, IsSent(x)', x.by = src[i].by,
               x.by \notin lost, Before(x, src[i])
        PROVE  \E j \in 1..Len(log) : src[j] = x
    <3>1. src[i] \in Slots /\ IsSent(src[i])
      BY <1>1, <1>2 DEF Traced, Logged
    <3>2. x # z
      <4>1. ASSUME x = z PROVE FALSE
        <5>1. Before(z, src[i]) /\ Before(src[i], z)
          BY <1>7, <1>13, <2>1, <3>1, <4>1
        <5>2. src[i].page \in Nat /\ src[i].at \in Nat /\ z.page \in Nat /\ z.at \in Nat
          BY <1>7, <3>1 DEF Slots
        <5>3. QED
          BY <5>1, <5>2 DEF Before
      <4>2. QED
        BY <4>1
    <3>3. IsSent(x)
      BY <1>12, <2>1, <3>2
    <3>4. QED
      BY <1>1, <2>1, <3>3 DEF Traced, Gapless
  <2>2. QED
    BY <1>3, <2>1 DEF Gapless
<1>23. Unbroken(src, held2)'
  <2>1. ASSUME NEW u \in Threads \ lost, NEW k \in 1..Len(buffer'[u]), NEW x \in Slots,
               IsSent(x)', x.by = u, Before(x, held2[u][k])
        PROVE  \/ \E i \in 1..Len(log) : src[i] = x
               \/ \E j \in 1..Len(buffer'[u]) : held2[u][j] = x
    <3>1. CASE u = t
      BY <1>3, <1>21, <2>1, <3>1 DEF Arrives
    <3>2. CASE u # t
      <4>1. IsSent(x) /\ buffer'[u] = buffer[u] /\ held2[u] = held[u]
        BY <1>7, <1>8, <1>12, <1>16, <2>1, <3>2
      <4>2. QED
        BY <1>1, <2>1, <4>1 DEF Traced, Unbroken
    <3>3. QED
      BY <3>1, <3>2
  <2>2. QED
    BY <1>3, <2>1 DEF Unbroken
<1>24. QED
  BY <1>17, <1>19, <1>20, <1>21, <1>22, <1>23 DEF TraceInv, Traced

\* The first records of a buffer leave it, for the topic or for nothing.
LEMMA TraceLeaves ==
  ASSUME ThreadTypes, TraceInv, NEW t \in Threads,
         NEW n \in 1..Len(buffer[t]), NEW d \in {0, n},
         UNCHANGED <<tpc, topic, page, sent>>,
         lost \subseteq lost', d = n \/ t \in lost' \/ (n = Len(buffer[t]) /\ tpc[t] = "dead"),
         Len(log') = Len(log) + d,
         \A i \in 1..Len(log) : log'[i] = log[i],
         \A j \in 1..d : log'[Len(log) + j] = buffer[t][j],
         Len(buffer'[t]) = Len(buffer[t]) - n,
         \A j \in 1..(Len(buffer[t]) - n) : buffer'[t][j] = buffer[t][n + j],
         \A u \in Threads : u # t => buffer'[u] = buffer[u]
  PROVE  TraceInv'
<1>1. PICK src, held : Traced(src, held)
  BY DEF TraceInv
<1>2. /\ src \in [Nat -> Slots] /\ held \in [Threads -> [Nat -> Slots]]
      /\ \A i \in Nat : src[i] \in Slots
      /\ \A u \in Threads, j \in Nat : held[u][j] \in Slots
  BY <1>1 DEF Traced, Logged, Waiting
<1>3. PICK L : L = Len(log)
  OBVIOUS
<1>4. PICK B : B = Len(buffer[t])
  OBVIOUS
<1>5. L \in Nat /\ B \in Nat /\ n \in 1..B /\ d \in Nat /\ d <= B /\ n \in Nat
  BY <1>3, <1>4, ThreadIs
<1>6. Len(log') = L + d /\ Len(buffer'[t]) = B - n /\ B - n \in Nat
  BY <1>3, <1>4, <1>5
<1>7. \A x : (IsSent(x)' <=> IsSent(x)) /\ Of(x)' = Of(x)
  BY DEF IsSent, Of
<1>8. PICK src2 : src2 = [i \in Nat |-> IF i <= L THEN src[i] ELSE held[t][i - L]]
  OBVIOUS
<1>9. PICK held2 : held2 = [held EXCEPT ![t] = [j \in Nat |-> held[t][n + j]]]
  OBVIOUS
<1>10. /\ src2 \in [Nat -> Slots]
       /\ \A i \in 1..L : src2[i] = src[i]
       /\ \A j \in 1..d : src2[L + j] = held[t][j]
  <2>1. \A i \in Nat : (IF i <= L THEN src[i] ELSE held[t][i - L]) \in Slots
    BY <1>2, <1>5
  <2>2. \A i \in 1..L : i \in Nat /\ i <= L
    BY <1>5
  <2>3. \A j \in 1..d : L + j \in Nat /\ ~(L + j <= L) /\ (L + j) - L = j
    BY <1>5
  <2>4. \A i \in Nat : src2[i] = IF i <= L THEN src[i] ELSE held[t][i - L]
    BY <1>8
  <2>5. QED
    BY <1>8, <2>1, <2>2, <2>3, <2>4
<1>11. /\ held2 \in [Threads -> [Nat -> Slots]]
       /\ \A j \in 1..(B - n) : held2[t][j] = held[t][n + j]
       /\ \A u \in Threads : u # t => held2[u] = held[u]
  <2>1. \A j \in Nat : held[t][n + j] \in Slots
    BY <1>2, <1>5
  <2>2. [j \in Nat |-> held[t][n + j]] \in [Nat -> Slots]
    BY <2>1
  <2>3. held2[t] = [j \in Nat |-> held[t][n + j]]
    BY <1>2, <1>9
  <2>4. \A j \in 1..(B - n) : j \in Nat
    OBVIOUS
  <2>5. QED
    BY <1>2, <1>9, <2>2, <2>3, <2>4
<1>12. ASSUME NEW i \in 1..(L + d)
       PROVE  \/ i \in 1..L /\ src2[i] = src[i] /\ log'[i] = log[i]
              \/ /\ i - L \in 1..d /\ i - L \in 1..B /\ i = L + (i - L)
                 /\ src2[i] = held[t][i - L] /\ log'[i] = buffer[t][i - L]
  <2>1. CASE i <= L
    BY <1>3, <1>5, <1>10, <2>1
  <2>2. CASE i > L
    <3>1. i - L \in 1..d /\ i - L \in 1..B /\ i = L + (i - L)
      BY <1>5, <2>2
    <3>2. src2[L + (i - L)] = held[t][i - L] /\ log'[L + (i - L)] = buffer[t][i - L]
      BY <1>3, <1>10, <3>1
    <3>3. QED
      BY <3>1, <3>2
  <2>3. QED
    BY <1>5, <2>1, <2>2
<1>13. /\ \A j \in 1..B : held[t][j].by = t /\ IsSent(held[t][j]) /\ buffer[t][j] = Of(held[t][j])
       /\ \A i, j \in 1..B : i < j => Before(held[t][i], held[t][j])
       /\ \A i \in 1..L, j \in 1..B : src[i].by = t => Before(src[i], held[t][j])
  BY <1>1, <1>3, <1>4 DEF Traced, Waiting, Behind
<1>14. Logged(src2)'
  <2>1. ASSUME NEW i \in 1..(L + d) PROVE IsSent(src2[i]) /\ log'[i] = Of(src2[i])
    <3>1. CASE i \in 1..L /\ src2[i] = src[i] /\ log'[i] = log[i]
      BY <1>1, <1>3, <3>1 DEF Traced, Logged
    <3>2. CASE i - L \in 1..B /\ src2[i] = held[t][i - L] /\ log'[i] = buffer[t][i - L]
      BY <1>13, <3>2
    <3>3. QED
      BY <1>12, <3>1, <3>2
  <2>2. ASSUME NEW i \in 1..(L + d), NEW j \in 1..(L + d), i < j, src2[i].by = src2[j].by
        PROVE  Before(src2[i], src2[j])
    <3>1. CASE j \in 1..L
      <4>1. i \in 1..L
        BY <1>5, <2>2, <3>1
      <4>2. QED
        BY <1>1, <1>3, <1>10, <2>2, <3>1, <4>1 DEF Traced, Logged
    <3>2. CASE j \notin 1..L
      <4>1. j - L \in 1..B /\ src2[j] = held[t][j - L] /\ src2[j].by = t
        BY <1>12, <1>13, <3>2
      <4>2. CASE i \in 1..L
        BY <1>10, <1>13, <2>2, <4>1, <4>2
      <4>3. CASE i \notin 1..L
        <5>1. i - L \in 1..B /\ src2[i] = held[t][i - L]
          BY <1>12, <4>3
        <5>2. i - L < j - L
          BY <1>5, <2>2
        <5>3. QED
          BY <1>13, <4>1, <5>1, <5>2
      <4>4. QED
        BY <4>2, <4>3
    <3>3. QED
      BY <3>1, <3>2
  <2>3. QED
    BY <1>6, <1>7, <1>10, <2>1, <2>2 DEF Logged
<1>15. ASSUME NEW u \in Threads, NEW j \in 1..Len(buffer'[u])
       PROVE  \/ /\ u = t /\ j \in 1..(B - n) /\ n + j \in 1..B /\ n + j > n
                 /\ held2[u][j] = held[t][n + j] /\ buffer'[u][j] = buffer[t][n + j]
              \/ u # t /\ j \in 1..Len(buffer[u]) /\ held2[u] = held[u] /\ buffer'[u] = buffer[u]
  <2>1. CASE u = t
    <3>1. j \in 1..(B - n) /\ n + j \in 1..B /\ n + j > n
      BY <1>5, <1>6, <1>15, <2>1
    <3>2. QED
      BY <1>4, <1>11, <2>1, <3>1
  <2>2. CASE u # t
    BY <1>11, <1>15, <2>2
  <2>3. QED
    BY <2>1, <2>2
<1>16. Waiting(held2)'
  <2>1. ASSUME NEW u \in Threads, NEW j \in 1..Len(buffer'[u])
        PROVE  held2[u][j].by = u /\ IsSent(held2[u][j]) /\ buffer'[u][j] = Of(held2[u][j])
    <3>1. CASE u = t
      <4>1. PICK k : k = n + j
        OBVIOUS
      <4>2. k \in 1..B /\ held2[u][j] = held[t][k] /\ buffer'[u][j] = buffer[t][k]
        BY <1>15, <3>1, <4>1
      <4>3. QED
        BY <1>13, <3>1, <4>2
    <3>2. CASE u # t
      <4>1. j \in 1..Len(buffer[u]) /\ held2[u] = held[u] /\ buffer'[u] = buffer[u]
        BY <1>15, <3>2
      <4>2. held[u][j].by = u /\ IsSent(held[u][j]) /\ buffer[u][j] = Of(held[u][j])
        BY <1>1, <4>1 DEF Traced, Waiting
      <4>3. QED
        BY <4>1, <4>2
    <3>3. QED
      BY <3>1, <3>2
  <2>2. ASSUME NEW u \in Threads, NEW i \in 1..Len(buffer'[u]), NEW j \in 1..Len(buffer'[u]), i < j
        PROVE  Before(held2[u][i], held2[u][j])
    <3>1. CASE u = t
      <4>1. /\ i \in 1..(B - n) /\ n + i \in 1..B /\ held2[u][i] = held[t][n + i]
            /\ j \in 1..(B - n) /\ n + j \in 1..B /\ held2[u][j] = held[t][n + j]
        BY <1>15, <3>1
      <4>2. n + i < n + j
        BY <1>5, <2>2, <4>1
      <4>3. QED
        BY <1>13, <4>1, <4>2
    <3>2. CASE u # t
      <4>1. i \in 1..Len(buffer[u]) /\ j \in 1..Len(buffer[u]) /\ held2[u] = held[u]
        BY <1>15, <3>2
      <4>2. QED
        BY <1>1, <2>2, <4>1 DEF Traced, Waiting
    <3>3. QED
      BY <3>1, <3>2
  <2>3. QED
    BY <1>7, <1>11, <2>1, <2>2 DEF Waiting
<1>17. Behind(src2, held2)'
  <2>1. ASSUME NEW i \in 1..(L + d), NEW u \in Threads, NEW j \in 1..Len(buffer'[u]), src2[i].by = u
        PROVE  Before(src2[i], held2[u][j])
    <3>1. CASE i \in 1..L
      <4>1. src2[i] = src[i]
        BY <1>10, <3>1
      <4>2. CASE u = t
        BY <1>13, <1>15, <2>1, <3>1, <4>1, <4>2
      <4>3. CASE u # t
        <5>1. j \in 1..Len(buffer[u]) /\ held2[u] = held[u]
          BY <1>15, <4>3
        <5>2. QED
          BY <1>1, <1>3, <2>1, <3>1, <4>1, <5>1 DEF Traced, Behind
      <4>4. QED
        BY <4>2, <4>3
    <3>2. CASE i \notin 1..L
      <4>1. /\ i - L \in 1..d /\ i - L \in 1..B /\ src2[i] = held[t][i - L] /\ src2[i].by = t
        BY <1>12, <1>13, <3>2
      <4>2. /\ n + j \in 1..B /\ n + j > n /\ held2[u][j] = held[t][n + j]
        BY <1>15, <2>1, <4>1
      <4>3. i - L <= n
        BY <1>5, <4>1
      <4>4. i - L < n + j
        BY <1>5, <4>1, <4>2, <4>3
      <4>5. QED
        BY <1>13, <4>1, <4>2, <4>4
    <3>3. QED
      BY <3>1, <3>2
  <2>2. QED
    BY <1>6, <2>1 DEF Behind
\* A place that was delivered, or waited at t, still is or does, if nothing is lost.
<1>18. ASSUME NEW x \in Slots, \E i \in 1..L : src[i] = x
       PROVE  \E i \in 1..(L + d) : src2[i] = x
  <2>1. PICK i \in 1..L : src[i] = x
    BY <1>18
  <2>2. i \in 1..(L + d)
    BY <1>5
  <2>3. QED
    BY <1>10, <2>1, <2>2
<1>19. ASSUME NEW x \in Slots, NEW j \in 1..B, held[t][j] = x, j > n \/ j <= d
       PROVE  \/ \E i \in 1..(L + d) : src2[i] = x
              \/ \E k \in 1..(B - n) : held2[t][k] = x
  <2>1. CASE j > n
    <3>1. j - n \in 1..(B - n) /\ n + (j - n) = j
      BY <1>5, <2>1
    <3>2. held2[t][j - n] = held[t][n + (j - n)]
      BY <1>11, <3>1
    <3>3. QED
      BY <1>19, <3>1, <3>2
  <2>2. CASE j <= d
    <3>1. j \in 1..d /\ L + j \in 1..(L + d)
      BY <1>5, <2>2
    <3>2. src2[L + j] = x
      BY <1>10, <1>19, <3>1
    <3>3. QED
      BY <3>1, <3>2
  <2>3. QED
    BY <1>19, <2>1, <2>2
<1>20. Arrives(src2, held2)'
  <2>1. ASSUME NEW x \in Slots, IsSent(x), x.by \notin lost', tpc[x.by] # "dead"
        PROVE  \/ \E i \in 1..(L + d) : src2[i] = x
               \/ \E j \in 1..Len(buffer'[x.by]) : held2[x.by][j] = x
    <3>1. x.by \in Threads /\ x.by \notin lost
      BY <2>1 DEF Slots
    <3>2. \/ \E i \in 1..L : src[i] = x
          \/ \E j \in 1..Len(buffer[x.by]) : held[x.by][j] = x
      BY <1>1, <1>3, <2>1, <3>1 DEF Traced, Arrives
    <3>3. CASE \E i \in 1..L : src[i] = x
      BY <1>18, <3>3
    <3>4. CASE x.by # t /\ \E j \in 1..Len(buffer[x.by]) : held[x.by][j] = x
      BY <1>11, <3>1, <3>4
    <3>5. CASE x.by = t /\ \E j \in 1..Len(buffer[x.by]) : held[x.by][j] = x
      <4>1. PICK j \in 1..B : held[t][j] = x
        BY <1>4, <3>5
      <4>2. d = n
        BY <2>1, <3>5
      <4>3. j > n \/ j <= d
        BY <1>5, <4>2
      <4>4. QED
        BY <1>6, <1>19, <3>5, <4>1, <4>3
    <3>6. QED
      BY <3>2, <3>3, <3>4, <3>5
  <2>2. QED
    BY <1>6, <1>7, <2>1 DEF Arrives
<1>21. Gapless(src2)'
  <2>1. ASSUME NEW i \in 1..(L + d), NEW x \in Slots, IsSent(x), x.by = src2[i].by,
               x.by \notin lost', Before(x, src2[i])
        PROVE  \E j \in 1..(L + d) : src2[j] = x
    <3>1. CASE i \in 1..L
      <4>1. src2[i] = src[i] /\ x.by \notin lost
        BY <1>10, <2>1, <3>1
      <4>2. \E j \in 1..L : src[j] = x
        BY <1>1, <1>3, <2>1, <3>1, <4>1 DEF Traced, Gapless
      <4>3. QED
        BY <1>18, <4>2
    <3>2. CASE i \notin 1..L
      <4>1. i - L \in 1..d /\ i - L \in 1..B /\ src2[i] = held[t][i - L] /\ src2[i].by = t
        BY <1>12, <1>13, <3>2
      <4>2. t \in Threads \ lost
        BY <2>1, <4>1
      <4>3. \/ \E k \in 1..L : src[k] = x
            \/ \E k \in 1..B : held[t][k] = x
        BY <1>1, <1>3, <1>4, <2>1, <4>1, <4>2 DEF Traced, Unbroken
      <4>4. CASE \E k \in 1..L : src[k] = x
        BY <1>18, <4>4
      <4>5. CASE \E k \in 1..B : held[t][k] = x
        <5>1. PICK k \in 1..B : held[t][k] = x
          BY <4>5
        <5>2. ~(i - L < k) /\ i - L # k
          <6>1. PICK l : l = i - L
            OBVIOUS
          <6>2. PICK y : y = held[t][l]
            OBVIOUS
          <6>3. l \in 1..B /\ l \in Nat /\ y = src2[i] /\ t \in Threads
            BY <4>1, <6>1, <6>2
          <6>4. y \in Slots
            BY <1>2, <6>2, <6>3
          <6>5. /\ x.page \in Nat /\ x.at \in Nat /\ y.page \in Nat /\ y.at \in Nat
            BY <6>4 DEF Slots
          <6>6. Before(x, y)
            BY <2>1, <6>3
          <6>7. ~Before(y, x) /\ y # x
            BY <6>5, <6>6 DEF Before
          <6>8. QED
            BY <1>13, <5>1, <6>1, <6>2, <6>3, <6>7
        <5>3. k \in 1..d /\ L + k \in 1..(L + d)
          <6>1. \A l \in 1..d : ~(l < k) /\ l # k => k \in 1..d
            BY <1>5
          <6>2. k \in 1..d
            BY <4>1, <5>2, <6>1
          <6>3. QED
            BY <1>5, <6>2
        <5>4. src2[L + k] = x
          BY <1>10, <5>1, <5>3
        <5>5. QED
          BY <5>3, <5>4
      <4>6. QED
        BY <4>3, <4>4, <4>5
    <3>3. QED
      BY <3>1, <3>2
  <2>2. QED
    BY <1>6, <1>7, <2>1 DEF Gapless
<1>22. Unbroken(src2, held2)'
  <2>1. ASSUME NEW u \in Threads \ lost', NEW k \in 1..Len(buffer'[u]), NEW x \in Slots,
               IsSent(x), x.by = u, Before(x, held2[u][k])
        PROVE  \/ \E i \in 1..(L + d) : src2[i] = x
               \/ \E j \in 1..Len(buffer'[u]) : held2[u][j] = x
    <3>1. u \in Threads \ lost
      BY <2>1
    <3>2. CASE u = t
      <4>1. n + k \in 1..B /\ n + k > n /\ held2[u][k] = held[t][n + k]
        BY <1>15, <3>2
      <4>2. \/ \E i \in 1..L : src[i] = x
            \/ \E j \in 1..B : held[t][j] = x
        BY <1>1, <1>3, <1>4, <2>1, <3>1, <3>2, <4>1 DEF Traced, Unbroken
      <4>3. CASE d = n
        <5>1. \A j \in 1..B : j > n \/ j <= d
          BY <1>5, <4>3
        <5>2. QED
          BY <1>6, <1>18, <1>19, <3>2, <4>2, <5>1
      <4>4. CASE d # n
        <5>1. n = B
          BY <1>4, <2>1, <3>2, <4>4
        <5>2. QED
          BY <1>5, <1>6, <2>1, <3>2, <5>1
      <4>5. QED
        BY <4>3, <4>4
    <3>3. CASE u # t
      <4>1. k \in 1..Len(buffer[u]) /\ held2[u] = held[u] /\ buffer'[u] = buffer[u]
        BY <1>15, <3>3
      <4>2. \/ \E i \in 1..L : src[i] = x
            \/ \E j \in 1..Len(buffer[u]) : held[u][j] = x
        BY <1>1, <1>3, <2>1, <3>1, <4>1 DEF Traced, Unbroken
      <4>3. QED
        BY <1>18, <4>1, <4>2
    <3>4. QED
      BY <3>2, <3>3
  <2>2. QED
    BY <1>6, <1>7, <2>1 DEF Unbroken
<1>23. QED
  BY <1>14, <1>16, <1>17, <1>20, <1>21, <1>22 DEF TraceInv, Traced

\* Every step of a thread, a producer or whoever starts a thread keeps the invariant.
LEMMA TypesMove == ThreadTypes /\ Moves => ThreadTypes'
<1> SUFFICES ASSUME ThreadTypes, Moves PROVE ThreadTypes'
  OBVIOUS
<1>1. CASE UNCHANGED <<log, tpc, topic, page, sent, buffer, lost>>
  BY <1>1 DEF ThreadTypes
<1>2. ASSUME NEW t \in Threads, NEW h \in Hashtags, Begins(t, h) PROVE ThreadTypes'
  <2>1. page[t] = 1 /\ sent[t] = 0 /\ Len(Archive[h]) >= 1 /\ Len(Archive[h]) \in Nat
        /\ Len(Archive[h][1]) \in Nat
    BY <1>2, ArchivePages DEF Begins, ThreadTypes
  <2>2. QED
    BY <1>2, <2>1 DEF Begins, ThreadTypes
<1>3. ASSUME NEW t \in Threads, SearchOk(t), UNCHANGED log PROVE ThreadTypes'
  BY <1>3, ThreadIs DEF SearchOk, ThreadTypes
<1>4. ASSUME NEW t \in Threads, SearchFails(t) \/ SendFails(t), UNCHANGED log PROVE ThreadTypes'
  BY <1>4 DEF SearchFails, SendFails, ThreadTypes
<1>5. ASSUME NEW t \in Threads, Send(t), UNCHANGED log PROVE ThreadTypes'
  <2>1. PICK m : m = Archive[topic[t]][page[t]][sent[t] + 1]
    OBVIOUS
  <2>2. m \in Tweets /\ sent[t] < Len(Archive[topic[t]][page[t]])
    BY <1>5, <2>1, ThreadIs, ArchivePages DEF Send, Results
  <2>3. /\ tpc[t] = "send"
        /\ buffer' = [buffer EXCEPT ![t] = Append(buffer[t], m)]
        /\ sent' = [sent EXCEPT ![t] = sent[t] + 1]
        /\ UNCHANGED <<log, tpc, topic, page, lost>>
    BY <1>5, <2>1 DEF Send, Results
  <2>4. Append(buffer[t], m) \in Seq(Tweets)
    BY <2>2, ThreadIs
  <2>5. buffer' \in [Threads -> Seq(Tweets)] /\ sent' \in [Threads -> Nat]
    BY <2>3, <2>4 DEF ThreadTypes
  <2>6. ASSUME NEW u \in Threads
        PROVE  /\ sent'[u] \in 0..Len(Archive[topic[u]][page[u]])
               /\ tpc[u] \in {"none", "search"} => sent'[u] = 0
               /\ tpc[u] \in {"none", "closed"} => buffer'[u] = <<>>
    <3>1. CASE u = t
      BY <2>2, <2>3, <3>1, ThreadIs DEF ThreadTypes
    <3>2. CASE u # t
      BY <2>3, <3>2 DEF ThreadTypes
    <3>3. QED
      BY <3>1, <3>2
  <2>7. QED
    BY <2>3, <2>5, <2>6 DEF ThreadTypes
<1>6. ASSUME NEW t \in Threads, NextPage(t), UNCHANGED log PROVE ThreadTypes'
  <2>1. tpc[t] = "send" /\ UNCHANGED <<log, topic, buffer, lost>>
    BY <1>6 DEF NextPage
  <2>2. CASE /\ page[t] < Len(Archive[topic[t]])
             /\ page' = [page EXCEPT ![t] = @ + 1]
             /\ tpc' = [tpc EXCEPT ![t] = "search"]
             /\ sent' = [sent EXCEPT ![t] = 0]
    <3>1. page[t] + 1 \in 1..Len(Archive[topic[t]])
      BY <2>2, ThreadIs
    <3>2. Len(Archive[topic[t]][page[t] + 1]) \in Nat
      BY <3>1, ThreadIs, ArchivePages
    <3>3. /\ page' \in [Threads -> Nat] /\ sent' \in [Threads -> Nat]
          /\ tpc' \in [Threads -> {"none", "search", "send", "close", "closed", "dead"}]
      BY <2>2, ThreadIs DEF ThreadTypes
    <3>4. ASSUME NEW u \in Threads
          PROVE  /\ page'[u] \in 1..Len(Archive[topic[u]])
                 /\ sent'[u] \in 0..Len(Archive[topic[u]][page'[u]])
                 /\ tpc'[u] = "none" => page'[u] = 1
                 /\ tpc'[u] \in {"none", "search"} => sent'[u] = 0
                 /\ tpc'[u] \in {"none", "closed"} => buffer[u] = <<>>
      <4>1. CASE u = t
        BY <2>2, <3>1, <3>2, <4>1 DEF ThreadTypes
      <4>2. CASE u # t
        BY <2>2, <4>2 DEF ThreadTypes
      <4>3. QED
        BY <4>1, <4>2
    <3>5. QED
      BY <2>1, <3>3, <3>4 DEF ThreadTypes
  <2>3. CASE tpc' = [tpc EXCEPT ![t] = "close"] /\ UNCHANGED <<page, sent>>
    BY <2>1, <2>3 DEF ThreadTypes
  <2>4. QED
    BY <1>6, <2>2, <2>3 DEF NextPage
<1>7. ASSUME NEW t \in Threads, Close(t), UNCHANGED log PROVE ThreadTypes'
  BY <1>7 DEF Close, ThreadTypes
<1>8. ASSUME NEW t \in Threads, Drop(t), UNCHANGED log PROVE ThreadTypes'
  BY <1>8 DEF Drop, ThreadTypes
<1>9. ASSUME NEW t \in Threads, Deliver(t) PROVE ThreadTypes'
  <2>1. /\ buffer[t] # <<>> /\ log' = Append(log, Head(buffer[t]))
        /\ buffer' = [buffer EXCEPT ![t] = Tail(buffer[t])]
        /\ UNCHANGED <<tpc, topic, page, sent, lost>>
    BY <1>9 DEF Deliver
  <2>2. Head(buffer[t]) \in Tweets /\ Tail(buffer[t]) \in Seq(Tweets) /\ log' \in Seq(Tweets)
    BY <2>1, ThreadIs
  <2>3. QED
    BY <2>1, <2>2 DEF ThreadTypes
<1>10. ASSUME NEW t \in Threads, Loses(t) PROVE ThreadTypes'
  <2>1. PICK n \in 1..Len(buffer[t]) :
          /\ log' \in {log, log \o SubSeq(buffer[t], 1, n)}
          /\ buffer' = [buffer EXCEPT ![t] = SubSeq(buffer[t], n + 1, Len(buffer[t]))]
    BY <1>10 DEF Loses
  <2>2. lost' = lost \union {t} /\ UNCHANGED <<tpc, topic, page, sent>>
    BY <1>10 DEF Loses
  <2>3. /\ SubSeq(buffer[t], 1, n) \in Seq(Tweets)
        /\ SubSeq(buffer[t], n + 1, Len(buffer[t])) \in Seq(Tweets)
    BY ThreadIs
  <2>4. log' \in Seq(Tweets)
    <3>1. \A p, q \in Seq(Tweets) : p \o q \in Seq(Tweets)
      OBVIOUS
    <3>2. log \in Seq(Tweets)
      BY DEF ThreadTypes
    <3>3. log \o SubSeq(buffer[t], 1, n) \in Seq(Tweets)
      BY <2>3, <3>1, <3>2
    <3>4. QED
      BY <2>1, <3>2, <3>3
  <2>5. buffer[t] # <<>>
    BY ThreadIs
  <2>6. QED
    BY <2>1, <2>2, <2>3, <2>4, <2>5 DEF ThreadTypes
<1>11. QED
  BY <1>1, <1>2, <1>3, <1>4, <1>5, <1>6, <1>7, <1>8, <1>9, <1>10
     DEF Moves, Run

\* Each step is one of the three kinds.
LEMMA TraceMove == ThreadTypes /\ TraceInv /\ Moves => TraceInv'
<1> SUFFICES ASSUME ThreadTypes, TraceInv, Moves PROVE TraceInv'
  OBVIOUS
<1>0. \A x \in Slots : x.by \in Threads /\ x.page \in Nat /\ x.at \in Nat
  BY DEF Slots
<1>1. CASE UNCHANGED <<log, tpc, topic, page, sent, buffer, lost>>
  <2>1. \A x \in Slots : (IsSent(x)' <=> IsSent(x)) /\ Of(x)' = Of(x)
    BY <1>1 DEF IsSent, Of
  <2>2. QED
    BY <1>1, <2>1, TraceStays
<1>2. ASSUME NEW t \in Threads, NEW h \in Hashtags, Begins(t, h) PROVE TraceInv'
  <2>1. /\ tpc[t] = "none" /\ tpc' = [tpc EXCEPT ![t] = "search"]
        /\ topic' = [topic EXCEPT ![t] = h]
        /\ UNCHANGED <<log, page, sent, buffer, lost>>
        /\ page[t] = 1 /\ sent[t] = 0
    BY <1>2 DEF Begins, ThreadTypes
  <2>2. /\ tpc'[t] = "search" /\ \A u \in Threads : u # t => tpc'[u] = tpc[u] /\ topic'[u] = topic[u]
    BY <2>1 DEF ThreadTypes
  <2>3. ASSUME NEW x \in Slots PROVE (IsSent(x)' <=> IsSent(x)) /\ (IsSent(x) => Of(x)' = Of(x))
    <3>1. CASE x.by = t
      <4>1. ~IsSent(x)
        BY <2>1, <3>1 DEF IsSent
      <4>2. page'[t] = 1 /\ sent'[t] = 0
        BY <2>1
      <4>3. ~IsSent(x)'
        BY <1>0, <3>1, <4>2 DEF IsSent
      <4>4. QED
        BY <4>1, <4>3
    <3>2. CASE x.by # t
      BY <1>0, <2>1, <2>2, <3>2 DEF IsSent, Of
    <3>3. QED
      BY <3>1, <3>2
  <2>4. \A u \in Threads : tpc[u] = "dead" => tpc'[u] = "dead"
    BY <2>1, <2>2
  <2>5. QED
    BY <2>1, <2>3, <2>4, TraceStays
<1>3. ASSUME NEW t \in Threads, UNCHANGED <<log, topic, page, sent, buffer, lost>>,
             tpc[t] \notin {"none", "dead"},
             \E p \in {"send", "dead", "close", "closed"} : tpc' = [tpc EXCEPT ![t] = p]
      PROVE  TraceInv'
  <2>1. \A u \in Threads : /\ tpc'[u] = "none" <=> tpc[u] = "none"
                           /\ tpc[u] = "dead" => tpc'[u] = "dead"
    BY <1>3 DEF ThreadTypes
  <2>2. \A x \in Slots : (IsSent(x)' <=> IsSent(x)) /\ Of(x)' = Of(x)
    BY <1>0, <1>3, <2>1 DEF IsSent, Of
  <2>3. QED
    BY <1>3, <2>1, <2>2, TraceStays
<1>4. ASSUME NEW t \in Threads, SearchOk(t), UNCHANGED log PROVE TraceInv'
  <2>1. sent[t] = 0 /\ sent' = [sent EXCEPT ![t] = 0] /\ sent \in [Threads -> Nat]
    BY <1>4 DEF SearchOk, ThreadTypes
  <2>2. sent' = sent
    BY <2>1
  <2>3. QED
    BY <1>3, <1>4, <2>2 DEF SearchOk
<1>5. ASSUME NEW t \in Threads, SearchFails(t) \/ SendFails(t) \/ Close(t), UNCHANGED log
      PROVE  TraceInv'
  BY <1>3, <1>5 DEF SearchFails, SendFails, Close
<1>6. ASSUME NEW t \in Threads, Send(t), UNCHANGED log PROVE TraceInv'
  BY <1>6, TraceSends
<1>7. ASSUME NEW t \in Threads, NextPage(t), UNCHANGED log PROVE TraceInv'
  <2>1. /\ tpc[t] = "send" /\ sent[t] = Len(Archive[topic[t]][page[t]])
        /\ UNCHANGED <<log, topic, buffer, lost>>
    BY <1>7 DEF NextPage, Results
  <2>2. CASE /\ page' = [page EXCEPT ![t] = @ + 1]
             /\ tpc' = [tpc EXCEPT ![t] = "search"]
             /\ sent' = [sent EXCEPT ![t] = 0]
    <3>1. /\ page'[t] = page[t] + 1 /\ sent'[t] = 0 /\ tpc'[t] = "search"
          /\ \A u \in Threads : u # t => page'[u] = page[u] /\ sent'[u] = sent[u] /\ tpc'[u] = tpc[u]
      BY <2>2 DEF ThreadTypes
    <3>2. \A x \in Slots : Of(x)' = Of(x)
      BY <2>1 DEF Of
    <3>3. ASSUME NEW x \in Slots PROVE IsSent(x)' <=> IsSent(x)
      <4>1. CASE x.by = t
        <5>1. IsSent(x) <=> \/ x.page \in 1..(page[t] - 1) /\ x.at \in 1..Len(Archive[topic[t]][x.page])
                            \/ x.page = page[t] /\ x.at \in 1..sent[t]
          BY <2>1, <4>1 DEF IsSent
        <5>2. IsSent(x)' <=> \/ x.page \in 1..((page[t] + 1) - 1) /\ x.at \in 1..Len(Archive[topic[t]][x.page])
                             \/ x.page = page[t] + 1 /\ x.at \in 1..0
          BY <2>1, <3>1, <4>1 DEF IsSent
        <5>3. x.page \in 1..((page[t] + 1) - 1) <=> x.page \in 1..(page[t] - 1) \/ x.page = page[t]
          <6>1. \A a \in Nat, p \in Nat : p >= 1 => (a \in 1..((p + 1) - 1) <=> a \in 1..(p - 1) \/ a = p)
            OBVIOUS
          <6>2. page[t] \in Nat /\ page[t] >= 1
            BY ThreadIs
          <6>3. QED
            BY <1>0, <6>1, <6>2
        <5>4. x.at \notin 1..0
          OBVIOUS
        <5>5. QED
          BY <2>1, <5>1, <5>2, <5>3, <5>4
      <4>2. CASE x.by # t
        BY <1>0, <2>1, <3>1, <4>2 DEF IsSent
      <4>3. QED
        BY <4>1, <4>2
    <3>4. \A u \in Threads : tpc[u] = "dead" => tpc'[u] = "dead"
      BY <2>1, <3>1
    <3>5. QED
      BY <2>1, <3>2, <3>3, <3>4, TraceStays
  <2>3. CASE tpc' = [tpc EXCEPT ![t] = "close"] /\ UNCHANGED <<page, sent>>
    BY <1>3, <2>1, <2>3
  <2>4. QED
    BY <1>7, <2>2, <2>3 DEF NextPage
<1>8. ASSUME NEW t \in Threads, Drop(t), UNCHANGED log PROVE TraceInv'
  <2>1. /\ tpc[t] = "dead" /\ buffer[t] # <<>> /\ buffer' = [buffer EXCEPT ![t] = <<>>]
        /\ UNCHANGED <<log, tpc, topic, page, sent, lost>>
    BY <1>8 DEF Drop
  <2>2. PICK n : n = Len(buffer[t])
    OBVIOUS
  <2>3. n \in 1..Len(buffer[t]) /\ n \in Nat /\ Len(log) \in Nat
    BY <2>1, <2>2, ThreadIs
  <2>4. /\ buffer'[t] = <<>> /\ Len(buffer'[t]) = 0
        /\ \A u \in Threads : u # t => buffer'[u] = buffer[u]
    BY <2>1 DEF ThreadTypes
  <2>5. /\ Len(log') = Len(log) + 0 /\ \A i \in 1..Len(log) : log'[i] = log[i]
        /\ \A j \in 1..0 : log'[Len(log) + j] = buffer[t][j]
        /\ Len(buffer'[t]) = Len(buffer[t]) - n
        /\ \A j \in 1..(Len(buffer[t]) - n) : buffer'[t][j] = buffer[t][n + j]
    BY <2>1, <2>2, <2>3, <2>4
  <2>6. 0 \in {0, n}
    OBVIOUS
  <2>7. QED
    BY <2>1, <2>2, <2>3, <2>4, <2>5, <2>6, TraceLeaves
<1>9. ASSUME NEW t \in Threads, Deliver(t) PROVE TraceInv'
  <2>1. /\ buffer[t] # <<>> /\ log' = Append(log, Head(buffer[t]))
        /\ buffer' = [buffer EXCEPT ![t] = Tail(buffer[t])]
        /\ UNCHANGED <<tpc, topic, page, sent, lost>>
    BY <1>9 DEF Deliver
  <2>2. PICK n : n = 1
    OBVIOUS
  <2>3. /\ n \in 1..Len(buffer[t]) /\ n \in {0, n} /\ Len(log) \in Nat
        /\ buffer[t] \in Seq(Tweets) /\ Len(buffer[t]) \in Nat /\ log \in Seq(Tweets)
    BY <2>1, <2>2, ThreadIs
  <2>4. /\ buffer'[t] = Tail(buffer[t])
        /\ \A u \in Threads : u # t => buffer'[u] = buffer[u]
    BY <2>1 DEF ThreadTypes
  <2>5. /\ Len(log') = Len(log) + 1 /\ log'[Len(log) + 1] = Head(buffer[t])
        /\ \A i \in 1..Len(log) : log'[i] = log[i]
    BY <2>1, <2>3
  <2>6. /\ Head(buffer[t]) = buffer[t][1] /\ Len(Tail(buffer[t])) = Len(buffer[t]) - 1
        /\ \A j \in 1..(Len(buffer[t]) - 1) : Tail(buffer[t])[j] = buffer[t][j + 1]
    BY <2>1, <2>3
  <2>7. /\ Len(log') = Len(log) + n
        /\ \A j \in 1..n : log'[Len(log) + j] = buffer[t][j]
        /\ Len(buffer'[t]) = Len(buffer[t]) - n
        /\ \A j \in 1..(Len(buffer[t]) - n) : buffer'[t][j] = buffer[t][n + j]
    BY <2>2, <2>4, <2>5, <2>6
  <2>8. QED
    BY <2>1, <2>3, <2>4, <2>5, <2>7, TraceLeaves
<1>10. ASSUME NEW t \in Threads, Loses(t) PROVE TraceInv'
  <2>1. PICK n \in 1..Len(buffer[t]) :
          /\ log' \in {log, log \o SubSeq(buffer[t], 1, n)}
          /\ buffer' = [buffer EXCEPT ![t] = SubSeq(buffer[t], n + 1, Len(buffer[t]))]
    BY <1>10 DEF Loses
  <2>2. lost' = lost \union {t} /\ UNCHANGED <<tpc, topic, page, sent>>
    BY <1>10 DEF Loses
  <2>3. /\ buffer[t] \in Seq(Tweets) /\ Len(buffer[t]) \in Nat /\ log \in Seq(Tweets)
        /\ Len(log) \in Nat /\ n \in Nat
    BY ThreadIs
  <2>4. /\ buffer'[t] = SubSeq(buffer[t], n + 1, Len(buffer[t]))
        /\ \A u \in Threads : u # t => buffer'[u] = buffer[u]
    BY <2>1 DEF ThreadTypes
  <2>5. /\ Len(buffer'[t]) = Len(buffer[t]) - n
        /\ \A j \in 1..(Len(buffer[t]) - n) : buffer'[t][j] = buffer[t][n + j]
    BY <2>3, <2>4
  <2>6. CASE log' = log
    <3>1. /\ Len(log') = Len(log) + 0 /\ \A i \in 1..Len(log) : log'[i] = log[i]
          /\ \A j \in 1..0 : log'[Len(log) + j] = buffer[t][j]
      BY <2>3, <2>6
    <3>2. 0 \in {0, n}
      OBVIOUS
    <3>3. t \in lost' /\ lost \subseteq lost'
      BY <2>2
    <3>4. QED
      BY <2>1, <2>2, <2>4, <2>5, <3>1, <3>2, <3>3, TraceLeaves
  <2>7. CASE log' = log \o SubSeq(buffer[t], 1, n)
    <3>1. PICK q : q = SubSeq(buffer[t], 1, n)
      OBVIOUS
    <3>2. q \in Seq(Tweets) /\ Len(q) = n /\ \A j \in 1..n : q[j] = buffer[t][j]
      BY <2>1, <2>3, <3>1
    <3>3. /\ Len(log') = Len(log) + n /\ \A i \in 1..Len(log) : log'[i] = log[i]
          /\ \A j \in 1..n : log'[Len(log) + j] = q[j]
      BY <2>3, <2>7, <3>1, <3>2
    <3>4. \A j \in 1..n : log'[Len(log) + j] = buffer[t][j]
      BY <3>2, <3>3
    <3>5. n \in {0, n} /\ lost \subseteq lost'
      BY <2>2
    <3>6. QED
      BY <2>1, <2>2, <2>4, <2>5, <3>3, <3>4, <3>5, TraceLeaves
  <2>8. QED
    BY <2>1, <2>6, <2>7
<1>11. QED
  BY <1>1, <1>2, <1>4, <1>5, <1>6, <1>7, <1>8, <1>9, <1>10 DEF Moves, Run

LEMMA StartedMove ==
  IsFiniteSet({t \in Threads : tpc[t] # "none"}) /\ ThreadTypes /\ Moves =>
    IsFiniteSet({t \in Threads : tpc'[t] # "none"})
<1> SUFFICES ASSUME IsFiniteSet({t \in Threads : tpc[t] # "none"}), ThreadTypes, Moves
             PROVE  IsFiniteSet({t \in Threads : tpc'[t] # "none"})
  OBVIOUS
<1>1. PICK t : \A u \in Threads : u # t => tpc'[u] = tpc[u]
  <2>1. CASE UNCHANGED tpc
    BY <2>1
  <2>2. ASSUME NEW t \in Threads, NEW p, tpc' = [tpc EXCEPT ![t] = p]
        PROVE  \A u \in Threads : u # t => tpc'[u] = tpc[u]
    BY <2>2 DEF ThreadTypes
  <2>3. ASSUME NEW t \in Threads, NEW h \in Hashtags, Begins(t, h)
        PROVE  tpc' = [tpc EXCEPT ![t] = "search"]
    BY <2>3 DEF Begins
  <2>4. ASSUME NEW t \in Threads, Run(t)
        PROVE  UNCHANGED tpc \/ \E p : tpc' = [tpc EXCEPT ![t] = p]
    BY <2>4 DEF Run, SearchOk, SearchFails, Send, SendFails, NextPage, Close
  <2>5. ASSUME NEW t \in Threads, Drop(t) \/ Deliver(t) \/ Loses(t)
        PROVE  UNCHANGED tpc
    BY <2>5 DEF Drop, Deliver, Loses
  <2>6. QED
    BY <2>1, <2>2, <2>3, <2>4, <2>5 DEF Moves
<1>2. {u \in Threads : tpc'[u] # "none"} \subseteq {u \in Threads : tpc[u] # "none"} \union {t}
  BY <1>1
<1>3. QED
  BY <1>2, FS_AddElement, FS_Subset

LEMMA ThreadMove == ThreadInv /\ Moves => ThreadInv'
  BY TypesMove, TraceMove, StartedMove DEF ThreadInv

LEMMA ThreadStart == IngestInit => ThreadInv
<1> SUFFICES ASSUME IngestInit PROVE ThreadInv
  OBVIOUS
<1>1. /\ log = <<>> /\ tpc = [t \in Threads |-> "none"] /\ topic \in [Threads -> Hashtags]
      /\ page = [t \in Threads |-> 1] /\ sent = [t \in Threads |-> 0]
      /\ buffer = [t \in Threads |-> <<>>] /\ lost = {}
  BY DEF IngestInit
<1>2. ThreadTypes
  <2>1. ASSUME NEW t \in Threads
        PROVE  page[t] \in 1..Len(Archive[topic[t]]) /\ sent[t] \in 0..Len(Archive[topic[t]][page[t]])
    <3>1. topic[t] \in Hashtags /\ page[t] = 1 /\ sent[t] = 0
      BY <1>1
    <3>2. 1 \in 1..Len(Archive[topic[t]]) /\ Len(Archive[topic[t]][1]) \in Nat
      BY <3>1, ArchivePages
    <3>3. QED
      BY <3>1, <3>2
  <2>2. QED
    BY <1>1, <2>1 DEF ThreadTypes
<1>3. TraceInv
  <2>1. ASSUME NEW t \in Threads PROVE FALSE \/ (tpc[t] = "none" /\ buffer[t] = <<>> /\ Len(buffer[t]) = 0)
    BY <1>1
  <2>2. Len(log) = 0
    BY <1>1
  <2>3. \A x \in Slots : ~IsSent(x)
    BY <1>1 DEF IsSent, Slots
  <2>4. PICK z : z \in Slots
    <3>1. PICK t : t \in Threads
      BY ThreadsAssumption
    <3>2. [by |-> t, page |-> 0, at |-> 0] \in Slots
      BY <3>1 DEF Slots
    <3>3. QED
      BY <3>2
  <2>5. PICK src : src = [i \in Nat |-> z]
    OBVIOUS
  <2>6. PICK held : held = [t \in Threads |-> [i \in Nat |-> z]]
    OBVIOUS
  <2>7. src \in [Nat -> Slots] /\ held \in [Threads -> [Nat -> Slots]]
    BY <2>4, <2>5, <2>6
  <2>8. Traced(src, held)
    BY <2>1, <2>2, <2>3, <2>7 DEF Traced, Logged, Waiting, Behind, Arrives, Gapless, Unbroken
  <2>9. QED
    BY <2>8 DEF TraceInv
<1>4. {t \in Threads : tpc[t] # "none"} = {}
  BY <1>1
<1>5. QED
  BY <1>2, <1>3, <1>4, FS_EmptySet DEF ThreadInv

-----------------------------------------------------------------------------
(* What the trace says of the topic. *)

LEMMA Traces ==
  ASSUME ThreadTypes, NEW src, NEW held, Traced(src, held)
  PROVE  /\ Len(log) \in Nat /\ DOMAIN log = 1..Len(log)
         /\ \A i \in 1..Len(log) :
              /\ src[i] \in Slots /\ IsSent(src[i]) /\ log[i] = Of(src[i])
              /\ src[i].by \in Threads /\ tpc[src[i].by] # "none"
              /\ topic[src[i].by] \in Hashtags
              /\ src[i].page \in 1..Len(Archive[topic[src[i].by]])
              /\ src[i].at \in 1..Len(Archive[topic[src[i].by]][src[i].page])
         /\ \A i, j \in 1..Len(log) : src[i] = src[j] => i = j
<1>1. Len(log) \in Nat /\ DOMAIN log = 1..Len(log)
  BY DEF ThreadTypes
<1>2. ASSUME NEW i \in 1..Len(log)
      PROVE  /\ src[i] \in Slots /\ IsSent(src[i]) /\ log[i] = Of(src[i])
             /\ src[i].by \in Threads /\ tpc[src[i].by] # "none"
             /\ topic[src[i].by] \in Hashtags
             /\ src[i].page \in 1..Len(Archive[topic[src[i].by]])
             /\ src[i].at \in 1..Len(Archive[topic[src[i].by]][src[i].page])
  <2>1. src[i] \in Slots /\ IsSent(src[i]) /\ log[i] = Of(src[i])
    <3>1. i \in Nat
      OBVIOUS
    <3>2. QED
      BY <3>1 DEF Traced, Logged
  <2>2. PICK t : t = src[i].by
    OBVIOUS
  <2>3. t \in Threads /\ tpc[t] # "none"
    BY <2>1, <2>2 DEF Slots, IsSent
  <2>4. \/ src[i].page \in 1..(page[t] - 1) /\ src[i].at \in 1..Len(Archive[topic[t]][src[i].page])
        \/ src[i].page = page[t] /\ src[i].at \in 1..sent[t]
    BY <2>1, <2>2 DEF IsSent
  <2>5. /\ topic[t] \in Hashtags /\ page[t] \in 1..Len(Archive[topic[t]]) /\ Len(Archive[topic[t]]) \in Nat
        /\ page[t] \in Nat
        /\ sent[t] \in Nat /\ Len(Archive[topic[t]][page[t]]) \in Nat
        /\ sent[t] <= Len(Archive[topic[t]][page[t]])
    BY <2>3, ThreadIs
  <2>6. CASE src[i].page \in 1..(page[t] - 1) /\ src[i].at \in 1..Len(Archive[topic[t]][src[i].page])
    <3>1. src[i].page \in 1..Len(Archive[topic[t]])
      <4>1. \A p, l \in Nat : p \in 1..l => 1..(p - 1) \subseteq 1..l
        OBVIOUS
      <4>2. QED
        BY <2>5, <2>6, <4>1
    <3>2. QED
      BY <2>1, <2>2, <2>3, <2>5, <2>6, <3>1
  <2>7. CASE src[i].page = page[t] /\ src[i].at \in 1..sent[t]
    <3>1. src[i].at \in 1..Len(Archive[topic[t]][page[t]])
      <4>1. \A s, l \in Nat : s <= l => 1..s \subseteq 1..l
        OBVIOUS
      <4>2. QED
        BY <2>5, <2>7, <4>1
    <3>2. QED
      BY <2>1, <2>2, <2>3, <2>5, <2>7, <3>1
  <2>8. QED
    BY <2>4, <2>6, <2>7
<1>3. ASSUME NEW i \in 1..Len(log), NEW j \in 1..Len(log), src[i] = src[j], i < j PROVE FALSE
  <2>1. PICK x : x = src[i]
    OBVIOUS
  <2>2. Before(x, x)
    BY <1>3, <2>1 DEF Traced, Logged
  <2>3. x.page \in Nat /\ x.at \in Nat
    BY <1>2, <2>1 DEF Slots
  <2>4. QED
    BY <2>2, <2>3 DEF Before
<1>4. \A i, j \in 1..Len(log) : src[i] = src[j] => i = j
  <2>1. \A i, j \in 1..Len(log) : i < j \/ j < i \/ i = j
    BY <1>1
  <2>2. QED
    BY <1>3, <2>1
<1>5. QED
  BY <1>1, <1>2, <1>4

\* A tweet has one place in the archive.
LEMMA OnePlace ==
  ASSUME NEW h \in Hashtags, NEW n \in DOMAIN Archive[h], NEW k \in DOMAIN Archive[h][n],
         NEW g \in Hashtags, NEW p \in DOMAIN Archive[g], NEW l \in DOMAIN Archive[g][p],
         Archive[h][n][k] = Archive[g][p][l]
  PROVE  h = g /\ n = p /\ k = l
  BY EachOnceAssumption

LEMMA OccursIs ==
  ASSUME ThreadTypes, NEW m
  PROVE  /\ Occurrences(log, m) = Cardinality({i \in 1..Len(log) : log[i] = m})
         /\ IsFiniteSet({i \in 1..Len(log) : log[i] = m})
<1>1. Len(log) \in Nat /\ DOMAIN log = 1..Len(log)
  BY DEF ThreadTypes
<1>2. IsFiniteSet(1..Len(log))
  BY <1>1, FS_Interval
<1>3. PICK I : I = {i \in 1..Len(log) : log[i] = m}
  OBVIOUS
<1>4. I \in SUBSET (1..Len(log)) /\ I = {i \in DOMAIN log : log[i] = m}
  BY <1>1, <1>3
<1>5. IsFiniteSet(I)
  BY <1>2, <1>4, FS_Subset
<1>6. QED
  BY <1>3, <1>4, <1>5, Zenon DEF Occurrences

\* The records of a thread come each from a place of their own, so that one tweet of the
\* archive is in the topic at most once of each thread started for its hashtag.
LEMMA CopiesBound == ThreadInv => CopiesPerThread
<1> SUFFICES ASSUME ThreadInv,
                    NEW h \in Hashtags, NEW n \in DOMAIN Archive[h], NEW k \in DOMAIN Archive[h][n]
             PROVE  Occurrences(log, Archive[h][n][k]) <= Cardinality(StartedFor(h))
  BY Zenon DEF CopiesPerThread
<1> DEFINE I == {i \in 1..Len(log) : log[i] = Archive[h][n][k]}
<1>1. PICK src, held : Traced(src, held)
  BY DEF ThreadInv, TraceInv
<1>2. ThreadTypes
  BY DEF ThreadInv
<1>3. ASSUME NEW i \in I
      PROVE  src[i].by \in StartedFor(h) /\ src[i].page = n /\ src[i].at = k
  <2>1. /\ src[i].by \in Threads /\ tpc[src[i].by] # "none" /\ topic[src[i].by] \in Hashtags
        /\ src[i].page \in 1..Len(Archive[topic[src[i].by]])
        /\ src[i].at \in 1..Len(Archive[topic[src[i].by]][src[i].page])
        /\ Archive[h][n][k] = Archive[topic[src[i].by]][src[i].page][src[i].at]
    BY <1>1, <1>2, Traces DEF Of
  <2>2. PICK g : g = topic[src[i].by]
    OBVIOUS
  <2>3. PICK p : p = src[i].page
    OBVIOUS
  <2>4. g \in Hashtags /\ p \in DOMAIN Archive[g] /\ src[i].at \in DOMAIN Archive[g][p]
    <3>1. g \in Hashtags /\ p \in 1..Len(Archive[g]) /\ src[i].at \in 1..Len(Archive[g][p])
      BY <2>1, <2>2, <2>3
    <3>2. DOMAIN Archive[g] = 1..Len(Archive[g]) /\ DOMAIN Archive[g][p] = 1..Len(Archive[g][p])
      BY <3>1, ArchivePages
    <3>3. QED
      BY <3>1, <3>2
  <2>5. h = g /\ n = p /\ k = src[i].at
    <3>1. Archive[h][n][k] = Archive[g][p][src[i].at]
      BY <2>1, <2>2, <2>3
    <3>2. QED
      BY <2>4, <3>1, OnePlace
  <2>6. QED
    BY <2>1, <2>2, <2>3, <2>5 DEF StartedFor
<1>4. \A i, j \in I : src[i].by = src[j].by => i = j
  <2>1. ASSUME NEW i \in I, NEW j \in I, src[i].by = src[j].by PROVE i = j
    <3>1. src[i] \in Slots /\ src[j] \in Slots
      BY <1>1, <1>2, Traces
    <3>2. src[i].page = src[j].page /\ src[i].at = src[j].at
      BY <1>3
    <3>3. src[i] = src[j]
      BY <2>1, <3>1, <3>2 DEF Slots
    <3>4. QED
      BY <1>1, <1>2, <3>3, Traces
  <2>2. QED
    BY <2>1
<1>5. PICK f : f = [i \in I |-> src[i].by]
  OBVIOUS
<1>6. f \in Injection(I, StartedFor(h))
  BY <1>3, <1>4, <1>5 DEF Injection, IsInjective
<1>7. IsFiniteSet(StartedFor(h))
  <2>1. StartedFor(h) \in SUBSET {t \in Threads : tpc[t] # "none"}
    BY DEF StartedFor
  <2>2. QED
    BY <2>1, FS_Subset DEF ThreadInv
<1>8. Cardinality(I) <= Cardinality(StartedFor(h))
  BY <1>6, <1>7, FS_Injection
<1>9. QED
  BY <1>2, <1>8, OccursIs

\* What a thread that went through the archive has sent and nothing was lost of is in
\* the topic, from a place of its own.
LEMMA DeliveredBound == ThreadInv => ClosedDelivered
<1> SUFFICES ASSUME ThreadInv,
                    NEW h \in Hashtags, NEW n \in DOMAIN Archive[h], NEW k \in DOMAIN Archive[h][n]
             PROVE  Occurrences(log, Archive[h][n][k]) >= Cardinality(CompletedFor(h) \ lost)
  BY Zenon DEF ClosedDelivered
<1> DEFINE I == {i \in 1..Len(log) : log[i] = Archive[h][n][k]}
           C == CompletedFor(h) \ lost
<1>1. PICK src, held : Traced(src, held)
  BY DEF ThreadInv, TraceInv
<1>2. ThreadTypes
  BY DEF ThreadInv
<1>3. ASSUME NEW t \in C PROVE \E i \in I : src[i] = [by |-> t, page |-> n, at |-> k]
  <2>1. /\ t \in Threads /\ tpc[t] = "closed" /\ topic[t] = h /\ t \notin lost
        /\ page[t] = Len(Archive[h]) /\ sent[t] = Len(Archive[h][page[t]])
    BY DEF CompletedFor, StartedFor, Results
  <2>2. /\ n \in 1..Len(Archive[h]) /\ k \in 1..Len(Archive[h][n])
        /\ Len(Archive[h]) \in Nat /\ Len(Archive[h][n]) \in Nat
    BY ArchivePages
  <2>3. PICK x : x = [by |-> t, page |-> n, at |-> k]
    OBVIOUS
  <2>4. x \in Slots /\ x.by = t /\ x.page = n /\ x.at = k
    BY <2>1, <2>2, <2>3 DEF Slots
  <2>5. IsSent(x)
    <3>1. n = page[t] \/ n \in 1..(page[t] - 1)
      BY <2>1, <2>2
    <3>2. QED
      BY <2>1, <2>2, <2>4, <3>1 DEF IsSent
  <2>6. buffer[t] = <<>> /\ Len(buffer[t]) = 0
    BY <1>2, <2>1 DEF ThreadTypes
  <2>7. \E i \in 1..Len(log) : src[i] = x
    BY <1>1, <2>1, <2>4, <2>5, <2>6 DEF Traced, Arrives
  <2>8. Of(x) = Archive[h][n][k]
    BY <2>1, <2>4 DEF Of
  <2>9. QED
    BY <1>1, <1>2, <2>3, <2>7, <2>8, Traces
<1>4. PICK f : f = [t \in C |-> CHOOSE i \in I : src[i] = [by |-> t, page |-> n, at |-> k]]
  OBVIOUS
<1>5. ASSUME NEW t \in C PROVE f[t] \in I /\ src[f[t]].by = t
  <2>1. f[t] \in I /\ src[f[t]] = [by |-> t, page |-> n, at |-> k]
    BY <1>3, <1>4
  <2>2. QED
    BY <2>1
<1>6. f \in [C -> I]
  BY <1>4, <1>5
<1>7. \A t, u \in C : f[t] = f[u] => t = u
  BY <1>5
<1>8. f \in Injection(C, I)
  BY <1>6, <1>7 DEF Injection, IsInjective
<1>9. IsFiniteSet(I)
  BY <1>2, OccursIs
<1>10. Cardinality(C) <= Cardinality(I) /\ Cardinality(I) \in Nat /\ Cardinality(C) \in Nat
  BY <1>8, <1>9, FS_Injection, FS_CardinalityType
<1>11. QED
  BY <1>2, <1>10, OccursIs

\* Before a delivered tweet the thread has delivered the earlier ones, of its page and of the pages
\* before.
LEMMA OrderBound == ThreadInv => ArchiveOrder
<1> SUFFICES ASSUME ThreadInv, lost = {},
                    NEW h \in Hashtags, NEW m \in DOMAIN Archive[h], NEW n \in DOMAIN Archive[h],
                    NEW k \in DOMAIN Archive[h][m], NEW l \in DOMAIN Archive[h][n],
                    m < n \/ (m = n /\ k < l)
             PROVE  Occurrences(log, Archive[h][m][k]) >= Occurrences(log, Archive[h][n][l])
  BY Zenon DEF ArchiveOrder
<1> DEFINE K == {i \in 1..Len(log) : log[i] = Archive[h][m][k]}
           L == {i \in 1..Len(log) : log[i] = Archive[h][n][l]}
<1>1. PICK src, held : Traced(src, held)
  BY DEF ThreadInv, TraceInv
<1>2. ThreadTypes
  BY DEF ThreadInv
<1>3. /\ m \in 1..Len(Archive[h]) /\ n \in 1..Len(Archive[h])
      /\ k \in 1..Len(Archive[h][m]) /\ l \in 1..Len(Archive[h][n])
      /\ Len(Archive[h]) \in Nat /\ Len(Archive[h][m]) \in Nat /\ Len(Archive[h][n]) \in Nat
  BY ArchivePages
<1>4. ASSUME NEW i \in L
      PROVE  /\ src[i] = [by |-> src[i].by, page |-> n, at |-> l]
             /\ \E j \in K : src[j] = [by |-> src[i].by, page |-> m, at |-> k]
  <2>1. /\ src[i] \in Slots /\ IsSent(src[i])
        /\ src[i].by \in Threads /\ tpc[src[i].by] # "none" /\ topic[src[i].by] \in Hashtags
        /\ src[i].page \in 1..Len(Archive[topic[src[i].by]])
        /\ src[i].at \in 1..Len(Archive[topic[src[i].by]][src[i].page])
        /\ Archive[h][n][l] = Archive[topic[src[i].by]][src[i].page][src[i].at]
    BY <1>1, <1>2, Traces DEF Of
  <2>2. PICK t : t = src[i].by
    OBVIOUS
  <2>3. PICK g : g = topic[t]
    OBVIOUS
  <2>4. PICK p : p = src[i].page
    OBVIOUS
  <2>5. g \in Hashtags /\ p \in DOMAIN Archive[g] /\ src[i].at \in DOMAIN Archive[g][p]
    <3>1. g \in Hashtags /\ p \in 1..Len(Archive[g]) /\ src[i].at \in 1..Len(Archive[g][p])
      BY <2>1, <2>2, <2>3, <2>4
    <3>2. DOMAIN Archive[g] = 1..Len(Archive[g]) /\ DOMAIN Archive[g][p] = 1..Len(Archive[g][p])
      BY <3>1, ArchivePages
    <3>3. QED
      BY <3>1, <3>2
  <2>6. h = g /\ n = p /\ l = src[i].at
    <3>1. Archive[h][n][l] = Archive[g][p][src[i].at]
      BY <2>1, <2>2, <2>3, <2>4
    <3>2. QED
      BY <2>5, <3>1, OnePlace
  <2>7. src[i] = [by |-> t, page |-> n, at |-> l]
    BY <2>1, <2>2, <2>4, <2>6 DEF Slots
  <2>8. PICK x : x = [by |-> t, page |-> m, at |-> k]
    OBVIOUS
  <2>9. x \in Slots /\ x.by = t /\ x.page = m /\ x.at = k /\ t \in Threads
    BY <1>3, <2>1, <2>2, <2>8 DEF Slots
  <2>10. Before(x, src[i])
    <3>1. src[i].page = n /\ src[i].at = l
      BY <2>7
    <3>2. QED
      BY <2>9, <3>1 DEF Before
  <2>11. IsSent(x)
    <3>1. \/ n \in 1..(page[t] - 1) /\ l \in 1..Len(Archive[topic[t]][n])
          \/ n = page[t] /\ l \in 1..sent[t]
      BY <2>1, <2>2, <2>4, <2>6 DEF IsSent
    <3>2. tpc[t] # "none" /\ sent[t] \in Nat /\ topic[t] = h
      BY <1>2, <2>1, <2>2, <2>3, <2>6, <2>9, ThreadIs
    <3>3. page[t] \in Nat
      BY <1>2, <2>9, ThreadIs
    <3>4. CASE m < n
      <4>1. m \in 1..(page[t] - 1)
        BY <1>3, <3>1, <3>3, <3>4
      <4>2. QED
        BY <1>3, <2>9, <3>2, <4>1 DEF IsSent
    <3>5. CASE m = n /\ k < l
      <4>1. k \in 1..Len(Archive[h][n]) /\ (l \in 1..sent[t] => k \in 1..sent[t])
        BY <1>3, <3>2, <3>5
      <4>2. QED
        BY <2>9, <3>1, <3>2, <3>5, <4>1 DEF IsSent
    <3>6. QED
      BY <3>4, <3>5
  <2>12. PICK j \in 1..Len(log) : src[j] = x
    <3>1. x.by = src[i].by /\ x.by \notin lost /\ i \in 1..Len(log)
      BY <2>2, <2>9
    <3>2. QED
      BY <1>1, <2>9, <2>10, <2>11, <3>1 DEF Traced, Gapless
  <2>13. log[j] = Archive[h][m][k]
    <3>1. log[j] = Of(x)
      BY <1>1, <1>2, <2>12, Traces
    <3>2. QED
      BY <2>3, <2>6, <2>9, <3>1 DEF Of
  <2>14. QED
    BY <2>2, <2>7, <2>8, <2>12, <2>13
<1>5. PICK f : f = [i \in L |-> CHOOSE j \in K : src[j] = [by |-> src[i].by, page |-> m, at |-> k]]
  OBVIOUS
<1>6. ASSUME NEW i \in L PROVE f[i] \in K /\ src[f[i]].by = src[i].by
  <2>1. f[i] \in K /\ src[f[i]] = [by |-> src[i].by, page |-> m, at |-> k]
    BY <1>4, <1>5
  <2>2. QED
    BY <2>1
<1>7. \A i, j \in L : f[i] = f[j] => i = j
  <2>1. ASSUME NEW i \in L, NEW j \in L, f[i] = f[j] PROVE i = j
    <3>1. src[i].by = src[j].by
      BY <1>6, <2>1
    <3>2. src[i] = src[j]
      BY <1>4, <3>1
    <3>3. QED
      BY <1>1, <1>2, <3>2, Traces
  <2>2. QED
    BY <2>1
<1>8. f \in [L -> K]
  BY <1>5, <1>6
<1>9. f \in Injection(L, K)
  BY <1>7, <1>8 DEF Injection, IsInjective
<1>10. IsFiniteSet(K)
  BY <1>2, OccursIs
<1>11. Cardinality(L) <= Cardinality(K) /\ Cardinality(K) \in Nat /\ Cardinality(L) \in Nat
  BY <1>9, <1>10, FS_Injection, FS_CardinalityType
<1>12. QED
  BY <1>2, <1>11, OccursIs

LEMMA IngestMoves == [IngestStep]_ingestVars => Moves
<1>1. ASSUME NEW t \in Threads, NEW h \in Hashtags, Start(t, h), UNCHANGED log
      PROVE  Begins(t, h)
  BY <1>1 DEF Start, Begins
<1>2. ASSUME UNCHANGED ingestVars PROVE UNCHANGED <<log, tpc, topic, page, sent, buffer, lost>>
  BY <1>2 DEF ingestVars, threadVars
<1>3. QED
  BY <1>1, <1>2, Zenon DEF IngestStep, Moves

ErrorsBounded == errors \in 0..MaxErrors

LEMMA ErrorsMove == ErrorsBounded /\ [IngestStep]_ingestVars => ErrorsBounded'
<1> SUFFICES ASSUME errors \in 0..MaxErrors, [IngestStep]_ingestVars
             PROVE  errors' \in 0..MaxErrors
  BY DEF ErrorsBounded
<1>1. errors' = errors \/ (errors < MaxErrors /\ errors' = errors + 1)
  BY DEF IngestStep, ingestVars, threadVars, Start, Run,
     SearchOk, SearchFails, Send, SendFails, NextPage, Close,
     Drop, Deliver, Loses
<1>2. QED
  BY <1>1, ErrorsAssumption

LEMMA IngestTypes == ThreadTypes /\ ErrorsBounded => IngestTypeOK
  BY DEF ErrorsBounded, ThreadTypes, IngestTypeOK

LEMMA IngestErrors == IngestInit => ErrorsBounded
  BY ErrorsAssumption DEF IngestInit, ErrorsBounded

\* However threads interleave, fail or page, each adds at most one copy of a tweet to
\* the topic, and threads start one by one for each request of the service.
THEOREM CopiesPaid == IngestSpec => []CopiesPerThread
<1>1. QED
  BY ThreadStart, IngestMoves, ThreadMove, CopiesBound, PTL DEF IngestSpec

\* Behind a thread that closed the topic has the whole archive of its hashtag, if no
\* request of its producer failed, and as long as none failed of any the topic has no
\* tweet oftener than an earlier one of its hashtag, on whichever pages they were.
THEOREM ArchivedInOrder == IngestSpec => []TopicAsArchived
<1>1. ThreadInv /\ ErrorsBounded => TopicAsArchived
  BY IngestTypes, DeliveredBound, OrderBound DEF ThreadInv, TopicAsArchived
<1>2. QED
  BY <1>1, ThreadStart, IngestErrors, IngestMoves, ErrorsMove, ThreadMove, PTL DEF IngestSpec

-----------------------------------------------------------------------------
(* The page. *)

\* What a round has read of the sentiments is not ahead of the table: between the
\* two reads of a round the row can only have grown.
ReadIsBehind ==
  \A s \in Sessions : spc[s] = "rest" =>
    \A k \in Hours : read[s]["sentiments"][k] <= get_sentiment(query[s])[k]

\* The inductive strengthening of PageSound.
PageInv == PageTypeOK /\ PollFindsRow /\ ReadIsBehind

-----------------------------------------------------------------------------
(* What its requests read. *)

\* A read of a table returns a number for each row, and so does what is drawn.
LEMMA ReadsNat ==
  ASSUME PageTypeOK, NEW h \in Queries
  PROVE  /\ get_sentiment(h) \in [Hours -> Nat] /\ get_geoparse(h) \in [Hours -> Nat]
         /\ \A mode : get_milestones(h, mode) \in [Hours -> Nat]
         /\ \A p \in Panels : Answer(h, p) \in [Hours -> Nat]
<1>1. \A p \in Panels : tables[h][p] \in [Hours -> Nat]
  BY DEF PageTypeOK
<1>2. get_sentiment(h) \in [Hours -> Nat] /\ get_geoparse(h) \in [Hours -> Nat]
  BY <1>1 DEF Panels, get_sentiment, get_geoparse
<1>3. ASSUME NEW mode PROVE get_milestones(h, mode) \in [Hours -> Nat]
  <2>1. \A k \in Hours : tables[h]["milestones"][k] \in Nat
    BY <1>1 DEF Panels
  <2>2. QED
    BY <2>1 DEF get_milestones
<1>4. ASSUME NEW p \in Panels PROVE Answer(h, p) \in [Hours -> Nat]
  BY <1>2, <1>3 DEF Panels, Answer
<1>5. QED
  BY <1>2, <1>3, <1>4

LEMMA DrawnNat ==
  ASSUME NEW v \in [Hours -> Nat], NEW p PROVE Drawn(p, v) \in [Hours -> Nat]
  BY DEF Drawn

\* A step that leaves the tables, the queries and what was read, and puts no
\* session on a page or between two reads, keeps what follows from them.
LEMMA Elsewhere ==
  ASSUME PageInv, UNCHANGED <<tables, query, read>>,
         \A s \in Sessions : spc'[s] \in {"page", "rest"} => spc'[s] = spc[s]
  PROVE  PollFindsRow' /\ ReadIsBehind'
BY DEF PageInv, PollFindsRow, ReadIsBehind, get_sentiment

-----------------------------------------------------------------------------
(* The steps of a session. *)

LEMMA SearchKeeps ==
  ASSUME PageInv, NEW s \in Sessions, Search(s), UNCHANGED tables
  PROVE  PageInv'
<1>1. PageTypeOK'
  BY DEF PageInv, PageTypeOK, Search
<1>2. PollFindsRow' /\ ReadIsBehind'
  BY Elsewhere DEF Search, PageInv, PageTypeOK
<1>3. QED
  BY <1>1, <1>2 DEF PageInv

LEMMA GetSentimentKeeps ==
  ASSUME PageInv, NEW s \in Sessions, GetSentiment(s), UNCHANGED tables
  PROVE  PageInv'
<1>1. get_sentiment(query[s]) \in [Hours -> Nat]
  BY ReadsNat DEF PageInv, PageTypeOK
<1>2. PageTypeOK'
  <2>1. read' \in [Sessions -> [Panels -> [Hours -> Nat]]]
    BY <1>1 DEF PageInv, PageTypeOK, GetSentiment
  <2>2. QED
    BY <2>1 DEF PageInv, PageTypeOK, GetSentiment
<1>3. PollFindsRow'
  BY DEF PageInv, PageTypeOK, PollFindsRow, GetSentiment, get_sentiment
<1>4. ReadIsBehind'
  <2>1. read'[s]["sentiments"] = get_sentiment(query[s])
    BY DEF PageInv, PageTypeOK, GetSentiment, Panels
  <2>2. ASSUME NEW u \in Sessions, u # s
        PROVE  read'[u] = read[u] /\ spc'[u] = spc[u]
    BY <2>2 DEF PageInv, PageTypeOK, GetSentiment
  <2>3. UNCHANGED query
    BY DEF GetSentiment
  <2>4. QED
    BY <1>1, <2>1, <2>2, <2>3 DEF PageInv, ReadIsBehind, get_sentiment
<1>5. QED
  BY <1>2, <1>3, <1>4 DEF PageInv

\* The step that renders the page: it read a row, and the row is still there.
LEMMA GetRestKeeps ==
  ASSUME PageInv, NEW s \in Sessions, GetRest(s), UNCHANGED tables
  PROVE  PageInv'
<1> DEFINE fresh == [read[s] EXCEPT !["geoparsing"] = get_geoparse(query[s]),
                                    !["milestones"] = get_milestones(query[s], 1)]
<1>1. fresh \in [Panels -> [Hours -> Nat]]
  BY ReadsNat DEF PageInv, PageTypeOK, Panels
<1>2. fresh["sentiments"] = read[s]["sentiments"]
  BY DEF PageInv, PageTypeOK, Panels
<1>3. /\ spc[s] = "rest" /\ read' = [read EXCEPT ![s] = fresh]
      /\ UNCHANGED <<query, asked, replies>>
  BY DEF GetRest
<1>4. \/ /\ fresh["sentiments"] # NoRow
         /\ spc' = [spc EXCEPT ![s] = "page"]
         /\ shown' = [shown EXCEPT ![s] = fresh]
         /\ polling' \in [Sessions -> SUBSET Panels]
      \/ /\ spc' \in {[spc EXCEPT ![s] = "sentiment"], [spc EXCEPT ![s] = "kafka"]}
         /\ UNCHANGED <<shown, polling>>
  <2>1. CASE /\ fresh["sentiments"] # NoRow
             /\ spc' = [spc EXCEPT ![s] = "page"]
             /\ shown' = [shown EXCEPT ![s] = fresh]
             /\ polling' = [polling EXCEPT ![s] =
                  IF fresh["geoparsing"] # NoRow THEN Panels ELSE Panels \ {"geoparsing"}]
    <3>1. polling' \in [Sessions -> SUBSET Panels]
      BY <2>1 DEF PageInv, PageTypeOK
    <3>2. QED
      BY <2>1, <3>1
  <2>2. CASE /\ fresh["sentiments"] = NoRow
             /\ spc' = [spc EXCEPT ![s] = IF asked[s] THEN "sentiment" ELSE "kafka"]
             /\ UNCHANGED <<shown, polling>>
    BY <2>2
  <2>3. QED
    BY <2>1, <2>2 DEF GetRest
<1> HIDE DEF fresh
<1>5. PageTypeOK'
  <2>1. read' \in [Sessions -> [Panels -> [Hours -> Nat]]]
    BY <1>1, <1>3 DEF PageInv, PageTypeOK
  <2>2. spc' \in [Sessions -> {"idle", "sentiment", "rest", "kafka", "page"}]
    BY <1>4 DEF PageInv, PageTypeOK
  <2>3. polling' \in [Sessions -> SUBSET Panels]
    BY <1>4 DEF PageInv, PageTypeOK
  <2>4. shown' \in [Sessions -> [Panels -> [Hours -> Nat]]]
    <3>1. CASE UNCHANGED shown
      BY <3>1 DEF PageInv, PageTypeOK
    <3>2. CASE shown' = [shown EXCEPT ![s] = fresh]
      BY <1>1, <3>2 DEF PageInv, PageTypeOK
    <3>3. QED
      BY <1>4, <3>1, <3>2
  <2>5. UNCHANGED <<tables, query, asked, replies>>
    BY <1>3
  <2>6. QED
    BY <2>1, <2>2, <2>3, <2>4, <2>5 DEF PageInv, PageTypeOK
<1>6. PollFindsRow'
  <2>1. CASE spc' = [spc EXCEPT ![s] = "page"] /\ fresh["sentiments"] # NoRow
    <3>0. PICK k \in Hours : fresh["sentiments"][k] > 0
      BY <1>1, <2>1 DEF NoRow, Panels
    <3>1. get_sentiment(query[s]) # NoRow
      <4>1. read[s]["sentiments"][k] <= get_sentiment(query[s])[k]
        BY <1>3 DEF PageInv, ReadIsBehind
      <4>2. get_sentiment(query[s])[k] \in Nat /\ fresh["sentiments"][k] \in Nat
        BY <1>1, ReadsNat DEF PageInv, PageTypeOK, Panels
      <4>3. get_sentiment(query[s])[k] # 0
        BY <1>2, <3>0, <4>1, <4>2
      <4>4. QED
        BY <4>3 DEF NoRow
    <3>2. QED
      BY <1>3, <2>1, <3>1 DEF PageInv, PageTypeOK, PollFindsRow, get_sentiment
  <2>2. CASE spc' \in {[spc EXCEPT ![s] = "sentiment"], [spc EXCEPT ![s] = "kafka"]}
    BY <1>3, <2>2 DEF PageInv, PageTypeOK, PollFindsRow, get_sentiment
  <2>3. QED
    BY <1>4, <2>1, <2>2
<1>7. ReadIsBehind'
  <2>1. spc'[s] # "rest"
    BY <1>4 DEF PageInv, PageTypeOK
  <2>2. ASSUME NEW u \in Sessions, u # s
        PROVE  read'[u] = read[u] /\ spc'[u] = spc[u]
    BY <1>3, <1>4, <2>2 DEF PageInv, PageTypeOK
  <2>3. QED
    BY <1>3, <2>1, <2>2 DEF PageInv, ReadIsBehind, get_sentiment
<1>8. QED
  BY <1>5, <1>6, <1>7 DEF PageInv

\* Requests that fail, and the call that asks for tweets.
LEMMA OtherHomeKeeps ==
  ASSUME PageInv, NEW s \in Sessions, ReadFails(s) \/ ConnectKafka(s) \/ ConnectFails(s),
         UNCHANGED tables
  PROVE  PageInv'
<1>1. PageTypeOK'
  BY DEF PageInv, PageTypeOK, ReadFails, ConnectKafka, ConnectFails
<1>2. PollFindsRow' /\ ReadIsBehind'
  BY Elsewhere DEF ReadFails, ConnectKafka, ConnectFails, PageInv, PageTypeOK
<1>3. QED
  BY <1>1, <1>2 DEF PageInv

\* The timers and their replies.
LEMMA BrowserKeeps ==
  ASSUME PageInv, NEW s \in Sessions, Browser(s), UNCHANGED tables
  PROVE  PageInv'
<1>1. PageTypeOK'
  <2>1. CASE \E p \in Panels : Poll(s, p)
    <3>1. PICK p \in Panels : Poll(s, p)
      BY <2>1
    <3>2. Answer(query[s], p) \in [Hours -> Nat]
      BY ReadsNat DEF PageInv, PageTypeOK
    <3>3. replies' \in [Sessions -> [Panels -> SUBSET [Hours -> Nat]]]
      BY <3>1, <3>2 DEF PageInv, PageTypeOK, Poll
    <3>4. QED
      BY <3>1, <3>3 DEF PageInv, PageTypeOK, Poll
  <2>2. CASE \E p \in Panels : \E v \in replies[s][p] : Show(s, p, v)
    <3>0. PICK p \in Panels : \E v \in replies[s][p] : Show(s, p, v)
      BY <2>2
    <3>1. PICK v \in replies[s][p] : Show(s, p, v)
      BY <3>0
    <3>2. v \in [Hours -> Nat] /\ Drawn(p, v) \in [Hours -> Nat]
      <4>1. replies[s][p] \in SUBSET [Hours -> Nat]
        BY DEF PageInv, PageTypeOK
      <4>2. v \in [Hours -> Nat]
        BY <4>1
      <4>3. QED
        BY <4>2, DrawnNat
    <3>3. replies' \in [Sessions -> [Panels -> SUBSET [Hours -> Nat]]]
      <4>1. replies' = [replies EXCEPT ![s][p] = @ \ {v}]
        BY <3>1 DEF Show
      <4>2. PICK F : F = SUBSET [Hours -> Nat]
        OBVIOUS
      <4>3. replies \in [Sessions -> [Panels -> F]] /\ replies[s][p] \ {v} \in F
        BY <4>2 DEF PageInv, PageTypeOK
      <4>4. replies' \in [Sessions -> [Panels -> F]]
        BY <4>1, <4>3
      <4>5. QED
        BY <4>2, <4>4
    <3>4. shown' \in [Sessions -> [Panels -> [Hours -> Nat]]]
      <4>1. shown' = [shown EXCEPT ![s][p] = Drawn(p, v)]
        BY <3>1 DEF Show
      <4>2. QED
        BY <3>2, <4>1 DEF PageInv, PageTypeOK
    <3>5. QED
      BY <3>1, <3>3, <3>4 DEF PageInv, PageTypeOK, Show
  <2>3. QED
    BY <2>1, <2>2 DEF Browser
<1>2. UNCHANGED <<spc, query, read>>
  BY DEF Browser, Poll, Show
<1>3. PollFindsRow' /\ ReadIsBehind'
  BY <1>2, Elsewhere
<1>4. QED
  BY <1>1, <1>3 DEF PageInv

-----------------------------------------------------------------------------
(* The steps of the topology. *)

\* An update never takes from what a read would find.
LEMMA UpdateKeeps ==
  ASSUME PageInv, NEW h \in Queries, NEW p \in Panels, NEW k \in RowsOf(p), Update(h, p, k)
  PROVE  PageInv'
<1>0. k \in Hours
  BY HoursAssumption DEF RowsOf, Hours
<1>1. tables' \in [Queries -> [Panels -> [Hours -> Nat]]]
  BY <1>0 DEF PageInv, PageTypeOK, Update
<1>2. PageTypeOK'
  BY <1>1 DEF PageInv, PageTypeOK, Update, sessionVars
<1>3. ASSUME NEW g \in Queries, NEW j \in Hours
      PROVE  tables'[g]["sentiments"][j] >= tables[g]["sentiments"][j]
  BY <1>0 DEF PageInv, PageTypeOK, Update, Panels
<1>4. UNCHANGED <<spc, query, read>>
  BY DEF Update, sessionVars
<1>5. ASSUME NEW s \in Sessions
      PROVE  /\ query[s] \in Queries /\ read[s]["sentiments"] \in [Hours -> Nat]
             /\ tables[query[s]]["sentiments"] \in [Hours -> Nat]
             /\ tables'[query[s]]["sentiments"] \in [Hours -> Nat]
  BY <1>1 DEF PageInv, PageTypeOK, Panels
<1>6. PollFindsRow'
  <2>1. ASSUME NEW s \in Sessions, spc[s] = "page"
        PROVE  tables'[query[s]]["sentiments"] # NoRow
    <3>1. tables[query[s]]["sentiments"] # NoRow
      BY <2>1 DEF PageInv, PollFindsRow, get_sentiment
    <3>2. PICK j \in Hours : tables[query[s]]["sentiments"][j] > 0
      BY <1>5, <3>1 DEF NoRow
    <3>3. tables'[query[s]]["sentiments"][j] # 0
      BY <1>3, <1>5, <3>2
    <3>4. QED
      BY <3>3 DEF NoRow
  <2>2. QED
    BY <1>4, <2>1 DEF PollFindsRow, get_sentiment
<1>7. ReadIsBehind'
  BY <1>3, <1>4, <1>5 DEF PageInv, ReadIsBehind, get_sentiment
<1>8. QED
  BY <1>2, <1>6, <1>7 DEF PageInv

-----------------------------------------------------------------------------
(* The invariant. *)

LEMMA PageStarts == PageInit => PageInv
<1> SUFFICES ASSUME PageInit PROVE PageInv
  OBVIOUS
<1>1. PageTypeOK
  BY DEF PageInit, PageTypeOK, NoRow
<1>2. PollFindsRow /\ ReadIsBehind
  BY DEF PageInit, PollFindsRow, ReadIsBehind
<1>3. QED
  BY <1>1, <1>2 DEF PageInv

LEMMA PageStepKeeps == PageInv /\ [PageNext]_pageVars => PageInv'
<1> SUFFICES ASSUME PageInv, [PageNext]_pageVars PROVE PageInv'
  OBVIOUS
<1>1. ASSUME NEW s \in Sessions,
             \/ Search(s) \/ Home(s) \/ ReadFails(s)
             \/ ConnectKafka(s) \/ ConnectFails(s) \/ Browser(s),
             UNCHANGED tables
      PROVE  PageInv'
  BY <1>1, SearchKeeps, GetSentimentKeeps, GetRestKeeps, OtherHomeKeeps, BrowserKeeps DEF Home
<1>2. ASSUME NEW h \in Queries, NEW p \in Panels, NEW k \in RowsOf(p), Update(h, p, k)
      PROVE  PageInv'
  BY <1>2, UpdateKeeps
<1>3. CASE UNCHANGED pageVars
  BY <1>3 DEF pageVars, sessionVars, PageInv, PageTypeOK, PollFindsRow, ReadIsBehind, get_sentiment
<1>4. QED
  BY <1>1, <1>2, <1>3 DEF PageNext, SiteStep

\* The page and its session are of their types in every state, and no timer of a page
\* asks for a hashtag without a row: home renders a page only after it read one, and
\* no update takes it away, so get_sentiment never hands None to the Ajax branch.
THEOREM PageIsSound == PageSpec => []PageSound
<1>1. PageInv => PageSound
  BY DEF PageInv, PageSound
<1>2. QED
  BY PageStarts, PageStepKeeps, <1>1, PTL DEF PageSpec

-----------------------------------------------------------------------------
(* The whole. *)

\* What waits behind json is of a record of the topic, and what waits at a writer, or
\* is written, is one of the updates its branch owes it.
RecordInv ==
  \A b \in Branches, o \in Offsets :
    /\ boltq[b][o] > 0 => o <= Len(log)
    /\ \A i \in PartIds :
         writeq[b][o][i] > 0 \/ written[b][o][i] > 0 => o <= Len(log) /\ i \in Parts(b, log[o])

TopologyInv == TypeOK /\ SpoutInv /\ CopiesInv /\ RecordInv

\* A longer topic disturbs no part of the topology.
LEMMA LogGrows ==
  ASSUME TopologyInv, UNCHANGED <<up, feed, queues, parsed, written, faults>>,
         log' \in Seq(Tweets), Len(log') <= MaxLog, Len(log) <= Len(log'),
         \A o \in 1..Len(log) : log'[o] = log[o]
  PROVE  TopologyInv'
<1>1. UNCHANGED <<up, zk, start, next, spout, emits, jsonq, boltq, writeq, parsed, written, faults>>
  BY DEF feed, queues
<1>2. /\ Len(log) \in Nat /\ Len(log') \in Nat
      /\ next \in Nat
      /\ \A o \in Offsets : o \in Nat /\ o >= 1
  BY BoundsAssumption DEF TopologyInv, TypeOK, Offsets
<1>3. TypeOK'
  BY <1>1 DEF TopologyInv, TypeOK
<1>4. SpoutInv'
  BY <1>1, <1>2 DEF TopologyInv, SpoutInv, OffsetInv
<1>5. CopiesInv'
  BY <1>1 DEF TopologyInv, CopiesInv
<1>6. RecordInv'
  <2>1. ASSUME NEW b \in Branches, NEW o \in Offsets, o <= Len(log)
        PROVE  o <= Len(log') /\ log'[o] = log[o]
    BY <1>2, <2>1
  <2>2. QED
    BY <1>1, <2>1, Zenon DEF TopologyInv, RecordInv
<1>7. QED
  BY <1>3, <1>4, <1>5, <1>6 DEF TopologyInv

LEMMA TopologyKeepsLog == Topology => UNCHANGED log
  BY DEF Topology, SpoutStep, BoltStep, Open, Crash, EmitNext, EmitRetry, Emit, Commit,
     Timeout, SpoutAck, JsonParse, JsonFail, BoltExecute, Write, LoseWrite

LEMMA RecordStep == TypeOK /\ SpoutInv /\ RecordInv /\ Topology => RecordInv'
<1> SUFFICES ASSUME TypeOK, SpoutInv, RecordInv, Topology,
                    NEW b \in Branches, NEW o \in Offsets
             PROVE  /\ boltq'[b][o] > 0 => o <= Len(log)
                    /\ \A i \in PartIds :
                         writeq'[b][o][i] > 0 \/ written'[b][o][i] > 0 =>
                           o <= Len(log) /\ i \in Parts(b, log[o])
  BY TopologyKeepsLog, Zenon DEF RecordInv
<1>1. /\ boltq[b][o] > 0 => o <= Len(log)
      /\ \A i \in PartIds :
           writeq[b][o][i] > 0 \/ written[b][o][i] > 0 => o <= Len(log) /\ i \in Parts(b, log[o])
  BY DEF RecordInv
<1>2. /\ boltq \in [Branches -> [Offsets -> Nat]]
      /\ writeq \in [Branches -> [Offsets -> [PartIds -> Nat]]]
      /\ written \in [Branches -> [Offsets -> [PartIds -> Nat]]]
      /\ \A i \in PartIds : writeq[b][o][i] \in Nat /\ written[b][o][i] \in Nat
      /\ boltq[b][o] \in Nat /\ Len(log) \in Nat /\ o \in Nat
  <2>1. /\ boltq \in [Branches -> [Offsets -> Nat]]
        /\ writeq \in [Branches -> [Offsets -> [PartIds -> Nat]]]
        /\ written \in [Branches -> [Offsets -> [PartIds -> Nat]]]
        /\ Len(log) \in Nat
    BY DEF TypeOK
  <2>2. boltq[b][o] \in Nat /\ writeq[b][o] \in [PartIds -> Nat] /\ written[b][o] \in [PartIds -> Nat]
    BY <2>1
  <2>3. o \in Nat
    BY BoundsAssumption DEF Offsets
  <2>4. QED
    BY <2>1, <2>2, <2>3
<1>3. CASE UNCHANGED <<boltq, writeq, written>>
  BY <1>1, <1>3
<1>4. CASE Crash
  <2>1. boltq'[b][o] = 0 /\ (\A i \in PartIds : writeq'[b][o][i] = 0) /\ UNCHANGED written
    BY <1>4 DEF Crash, EmptyQueues
  <2>2. QED
    BY <1>1, <2>1
<1>5. ASSUME NEW q \in Offsets, NEW live \in BOOLEAN, JsonParse(q, live)
      PROVE  /\ boltq'[b][o] > 0 => o <= Len(log)
             /\ UNCHANGED <<writeq, written>>
  <2>1. jsonq[q] > 0 /\ UNCHANGED <<writeq, written>>
        /\ boltq' = [c \in Branches |-> [boltq[c] EXCEPT ![q] = @ + 1]]
    BY <1>5 DEF JsonParse
  <2>2. q <= Len(log)
    <3>1. /\ next <= q => jsonq[q] = 0
          /\ next <= Len(log) + 1
      BY DEF SpoutInv, OffsetInv
    <3>2. next \in Nat /\ q \in Nat
      BY BoundsAssumption DEF TypeOK, Offsets
    <3>3. QED
      BY <1>2, <2>1, <3>1, <3>2
  <2>3. o # q => boltq'[b][o] = boltq[b][o]
    BY <1>2, <2>1
  <2>4. QED
    BY <1>1, <2>1, <2>2, <2>3
<1>6. ASSUME NEW c \in Branches, NEW q \in Offsets, BoltExecute(c, q)
      PROVE  /\ boltq'[b][o] > 0 => o <= Len(log)
             /\ \A i \in PartIds :
                  writeq'[b][o][i] > 0 \/ written'[b][o][i] > 0 =>
                    o <= Len(log) /\ i \in Parts(b, log[o])
  <2>1. /\ boltq[c][q] > 0 /\ boltq' = [boltq EXCEPT ![c][q] = @ - 1]
        /\ writeq' = [writeq EXCEPT ![c][q] =
                        [i \in PartIds |-> IF i \in Parts(c, log[q]) THEN @[i] + 1 ELSE @[i]]]
        /\ UNCHANGED written
    BY <1>6 DEF BoltExecute
  <2>2. CASE b = c /\ o = q
    <3>1. o <= Len(log)
      BY <1>1, <2>1, <2>2
    <3>2. \A i \in PartIds : i \in Parts(b, log[o]) \/ writeq'[b][o][i] = writeq[b][o][i]
      BY <1>2, <2>1, <2>2
    <3>3. QED
      BY <1>1, <2>1, <3>1, <3>2
  <2>3. CASE ~(b = c /\ o = q)
    <3>1. boltq'[b][o] = boltq[b][o] /\ writeq'[b][o] = writeq[b][o]
      BY <1>2, <2>1, <2>3
    <3>2. QED
      BY <1>1, <2>1, <3>1
  <2>4. QED
    BY <2>2, <2>3
<1>7. ASSUME NEW c \in Branches, NEW q \in Offsets, NEW j \in PartIds,
             Write(c, q, j) \/ LoseWrite(c, q, j)
      PROVE  /\ UNCHANGED boltq
             /\ \A i \in PartIds :
                  writeq'[b][o][i] > 0 \/ written'[b][o][i] > 0 =>
                    o <= Len(log) /\ i \in Parts(b, log[o])
  <2>1. /\ writeq[c][q][j] > 0 /\ UNCHANGED boltq
        /\ writeq' = [writeq EXCEPT ![c][q][j] = writeq[c][q][j] - 1]
        /\ \/ written' = [written EXCEPT ![c][q][j] = written[c][q][j] + 1]
           \/ written' = written
    BY <1>7 DEF Write, LoseWrite
  <2>2. ASSUME NEW i \in PartIds, writeq'[b][o][i] > 0 \/ written'[b][o][i] > 0
        PROVE  writeq[b][o][i] > 0 \/ written[b][o][i] > 0
    <3>1. CASE b = c /\ o = q /\ i = j
      BY <2>1, <3>1
    <3>2. CASE ~(b = c /\ o = q /\ i = j)
      <4>1. writeq'[b][o][i] = writeq[b][o][i] /\ written'[b][o][i] = written[b][o][i]
        <5>1. writeq'[b][o][i] = writeq[b][o][i]
          BY <1>2, <2>1, <3>2, CellUpdate
        <5>2. CASE written' = [written EXCEPT ![c][q][j] = written[c][q][j] + 1]
          BY <1>2, <3>2, <5>1, <5>2, CellUpdate
        <5>3. CASE written' = written
          BY <5>1, <5>3
        <5>4. QED
          BY <2>1, <5>2, <5>3
      <4>2. QED
        BY <2>2, <4>1
    <3>3. QED
      BY <3>1, <3>2
  <2>3. QED
    BY <1>1, <2>1, <2>2
<1>8. ASSUME Open \/ EmitNext \/ Commit PROVE UNCHANGED <<boltq, writeq, written>>
  BY <1>8 DEF Open, EmitNext, Emit, Commit, queues
<1>9. ASSUME NEW q \in Offsets, EmitRetry(q) \/ Timeout(q) \/ SpoutAck(q)
      PROVE  UNCHANGED <<boltq, writeq, written>>
  BY <1>9 DEF EmitRetry, Emit, Timeout, SpoutAck, queues
<1>10. ASSUME NEW q \in Offsets, NEW live \in BOOLEAN, JsonFail(q, live)
       PROVE  UNCHANGED <<boltq, writeq, written>>
  BY <1>10 DEF JsonFail
<1>11. QED
  <2>1. CASE SpoutStep
    BY <1>3, <1>4, <1>8, <1>9, <2>1 DEF SpoutStep
  <2>2. CASE BoltStep
    BY <1>1, <1>3, <1>5, <1>6, <1>7, <1>10, <2>2 DEF BoltStep
  <2>3. QED
    BY <2>1, <2>2 DEF Topology

LEMMA TopologyMove == TopologyInv /\ (Topology \/ UNCHANGED vars) => TopologyInv'
<1>1. TopologyInv /\ Topology => TopologyInv'
  BY TypeStep, SpoutInvStep, CopiesInvStep, RecordStep DEF TopologyInv, Next
<1>2. TopologyInv /\ UNCHANGED vars => RecordInv'
  BY DEF TopologyInv, RecordInv, vars, queues
<1>3. QED
  BY <1>1, <1>2, TypeStep, SpoutInvStep, CopiesInvStep DEF TopologyInv

\* A session searches for hashtags.
Searching == query \in [Sessions -> Hashtags]

SpreadInv == ThreadInv /\ TopologyInv /\ Searching

LEMMA QueriesStay == [SpreadNext]_allVars => UNCHANGED query
<1>1. ASSUME NEW s \in Sessions, SessionStep(s) PROVE UNCHANGED query
  BY <1>1 DEF SessionStep, Site!Search, Site!Home, Site!GetSentiment, Site!GetRest,
              Site!Browser, Site!Poll, Site!Show
<1>2. ASSUME NEW s \in Sessions, SessionFails(s) \/ AskStep(s) \/ AskFails(s) PROVE UNCHANGED query
  BY <1>2 DEF SessionFails, AskStep, AskFails, Site!ReadFails, Site!ConnectKafka, Site!ConnectFails
<1>3. ASSUME TopologyStep \/ UNCHANGED allVars PROVE UNCHANGED query
  BY <1>3 DEF TopologyStep, allVars, sessionVars
<1>4. ASSUME NEW t \in Threads, ThreadStep(t) \/ DeliverStep(t) \/ LoseStep(t) PROVE UNCHANGED query
  BY <1>4 DEF ThreadStep, DeliverStep, LoseStep, sessionVars
<1>5. QED
  BY <1>1, <1>2, <1>3, <1>4 DEF SpreadNext

\* What the steps of the whole are to the threads and to the topology.
LEMMA SpreadMoves == Searching /\ [SpreadNext]_allVars => Moves
<1> SUFFICES ASSUME Searching, [SpreadNext]_allVars PROVE Moves
  OBVIOUS
<1>1. CASE UNCHANGED allVars
  BY <1>1 DEF allVars, topologyVars, threadVars, Moves
<1>2. CASE TopologyStep
  BY <1>2, TopologyKeepsLog DEF TopologyStep, threadVars, Moves
<1>3. ASSUME NEW t \in Threads, ThreadStep(t) PROVE Moves
  <2>1. (Run(t) \/ Drop(t)) /\ UNCHANGED log
    BY <1>3 DEF ThreadStep, topologyVars
  <2>2. QED
    BY <2>1 DEF Moves
<1>4. ASSUME NEW t \in Threads, DeliverStep(t) \/ LoseStep(t) PROVE Moves
  <2>1. Deliver(t) \/ Loses(t)
    BY <1>4 DEF DeliverStep, LoseStep
  <2>2. QED
    BY <2>1 DEF Moves
<1>5. ASSUME NEW s \in Sessions, SessionStep(s) \/ SessionFails(s) PROVE Moves
  BY <1>5 DEF SessionStep, SessionFails, topologyVars, threadVars, Moves
<1>6. ASSUME NEW s \in Sessions, AskStep(s) \/ AskFails(s)
      PROVE  \/ UNCHANGED <<log, tpc, topic, page, sent, buffer, lost>>
             \/ \E t \in Threads : Begins(t, query[s])
  BY <1>6 DEF AskStep, AskFails, Start, topologyVars, Begins
<1>7. ASSUME NEW s \in Sessions, AskStep(s) \/ AskFails(s) PROVE Moves
  <2>1. query[s] \in Hashtags
    BY DEF Searching
  <2>2. QED
    BY <1>6, <1>7, <2>1 DEF Moves
<1>8. CASE SpreadNext
  BY <1>2, <1>3, <1>4, <1>5, <1>7, <1>8 DEF SpreadNext
<1>9. QED
  BY <1>1, <1>8

LEMMA SpreadStep == SpreadInv /\ [SpreadNext]_allVars => SpreadInv'
<1> SUFFICES ASSUME SpreadInv, [SpreadNext]_allVars PROVE SpreadInv'
  OBVIOUS
<1>1. ThreadInv'
  BY SpreadMoves, ThreadMove DEF SpreadInv
<1>2. Searching'
  BY QueriesStay DEF SpreadInv, Searching
<1>3. ASSUME TopologyStep \/ UNCHANGED vars PROVE TopologyInv'
  BY <1>3, TopologyMove DEF TopologyStep, SpreadInv
<1>4. ASSUME NEW t \in Threads, DeliverStep(t) \/ LoseStep(t) PROVE TopologyInv'
  <2>1. UNCHANGED <<up, feed, queues, parsed, written, faults>>
    BY <1>4 DEF DeliverStep, LoseStep
  <2>2. log \in Seq(Tweets) /\ Len(log) \in Nat /\ log' \in Seq(Tweets)
        /\ buffer[t] \in Seq(Tweets) /\ Len(buffer[t]) \in Nat
    BY <1>1 DEF SpreadInv, ThreadInv, ThreadTypes
  <2>3. CASE DeliverStep(t)
    <3>1. Len(log) < MaxLog /\ buffer[t] # <<>> /\ log' = Append(log, Head(buffer[t]))
      BY <2>3 DEF DeliverStep, Deliver
    <3>2. /\ Len(log') = Len(log) + 1 /\ \A o \in 1..Len(log) : log'[o] = log[o]
      BY <2>2, <3>1
    <3>3. Len(log') <= MaxLog /\ Len(log) <= Len(log')
      BY <2>2, <3>1, <3>2, BoundsAssumption
    <3>4. QED
      BY <2>1, <2>2, <3>2, <3>3, LogGrows DEF SpreadInv
  <2>4. CASE LoseStep(t)
    <3>1. Len(log') <= MaxLog
      BY <2>4 DEF LoseStep
    <3>2. \E n \in 1..Len(buffer[t]) : log' \in {log, log \o SubSeq(buffer[t], 1, n)}
      BY <2>4 DEF LoseStep, Loses
    <3>3. PICK n \in 1..Len(buffer[t]) : log' \in {log, log \o SubSeq(buffer[t], 1, n)}
      BY <3>2
    <3>4. PICK q : q = SubSeq(buffer[t], 1, n)
      OBVIOUS
    <3>5. q \in Seq(Tweets) /\ Len(q) \in Nat
      BY <2>2, <3>4
    <3>6. Len(log) <= Len(log') /\ \A o \in 1..Len(log) : log'[o] = log[o]
      BY <2>2, <3>3, <3>4, <3>5
    <3>7. QED
      BY <2>1, <2>2, <3>1, <3>6, LogGrows DEF SpreadInv
  <2>5. QED
    BY <1>4, <2>3, <2>4
<1>5. ASSUME NEW t \in Threads, ThreadStep(t) PROVE UNCHANGED vars
  BY <1>5 DEF ThreadStep, topologyVars, vars
<1>6. ASSUME NEW s \in Sessions, SessionStep(s) \/ SessionFails(s) \/ AskStep(s) \/ AskFails(s)
      PROVE  UNCHANGED vars
  BY <1>6 DEF SessionStep, SessionFails, AskStep, AskFails, topologyVars, vars
<1>7. UNCHANGED allVars => UNCHANGED vars
  BY DEF allVars, topologyVars, vars
<1>8. TopologyInv'
  BY <1>3, <1>4, <1>5, <1>6, <1>7 DEF SpreadNext
<1>9. QED
  BY <1>1, <1>2, <1>8 DEF SpreadInv

LEMMA SpreadStart == SpreadInit => SpreadInv
<1> SUFFICES ASSUME SpreadInit PROVE SpreadInv
  OBVIOUS
<1>1. Init /\ IngestInit /\ Searching
  BY DEF SpreadInit, Searching
<1>2. RecordInv
  BY <1>1 DEF Init, RecordInv
<1>3. QED
  BY <1>1, <1>2, ThreadStart, TypeInit, SpoutInvInit, CopiesInvInit DEF SpreadInv, TopologyInv

-----------------------------------------------------------------------------
(* The pie chart. *)

\* Places of a hashtag's archive that hold an English tweet.
EnglishPlaces(h) ==
  UNION {{<<n, k>> : k \in {j \in DOMAIN Archive[h][n] : Archive[h][n][j].english}} :
           n \in DOMAIN Archive[h]}

LEMMA EnglishIs ==
  ASSUME NEW h \in Hashtags
  PROVE  /\ EnglishIn(h) = Cardinality(EnglishPlaces(h)) /\ IsFiniteSet(EnglishPlaces(h))
         /\ \A n \in 1..Len(Archive[h]) : \A k \in 1..Len(Archive[h][n]) :
              Archive[h][n][k].english => <<n, k>> \in EnglishPlaces(h)
<1> DEFINE P(n) == {<<n, k>> : k \in {j \in DOMAIN Archive[h][n] : Archive[h][n][j].english}}
           N == DOMAIN Archive[h]
           S == {P(n) : n \in N}
<1>1. EnglishPlaces(h) = UNION S
  BY DEF EnglishPlaces
<1>2. EnglishIn(h) = Cardinality(EnglishPlaces(h))
  BY DEF EnglishIn, EnglishPlaces
<1>3. N = 1..Len(Archive[h]) /\ Len(Archive[h]) \in Nat /\ IsFiniteSet(N)
  <2>1. N = 1..Len(Archive[h]) /\ Len(Archive[h]) \in Nat
    BY ArchivePages
  <2>2. QED
    BY <2>1, FS_Interval
<1>4. ASSUME NEW n \in N PROVE IsFiniteSet(P(n))
  <2>1. DOMAIN Archive[h][n] = 1..Len(Archive[h][n]) /\ Len(Archive[h][n]) \in Nat
    BY <1>3, ArchivePages
  <2>2. IsFiniteSet(DOMAIN Archive[h][n]) /\ IsFiniteSet({n})
    <3>1. IsFiniteSet(1..Len(Archive[h][n]))
      BY <2>1, FS_Interval
    <3>2. IsFiniteSet({n})
      BY FS_Singleton
    <3>3. QED
      BY <2>1, <3>1, <3>2
  <2>3. IsFiniteSet({n} \X DOMAIN Archive[h][n])
    BY <2>2, FS_Product
  <2>4. P(n) \in SUBSET ({n} \X DOMAIN Archive[h][n])
    OBVIOUS
  <2>5. QED
    BY <2>3, <2>4, FS_Subset
<1>5. PICK f : f = [n \in N |-> P(n)]
  OBVIOUS
<1>6. f \in Surjection(N, S)
  BY <1>5 DEF Surjection
<1>7. IsFiniteSet(S)
  BY <1>3, <1>6, FS_Surjection
<1>8. \A T \in S : IsFiniteSet(T)
  BY <1>4
<1> HIDE DEF S
<1>9. IsFiniteSet(UNION S)
  BY <1>7, <1>8, FS_UNION
<1> USE DEF S
<1>10. ASSUME NEW n \in 1..Len(Archive[h]), NEW k \in 1..Len(Archive[h][n]), Archive[h][n][k].english
       PROVE  <<n, k>> \in EnglishPlaces(h)
  <2>1. n \in N /\ k \in DOMAIN Archive[h][n]
    BY <1>3, ArchivePages
  <2>2. <<n, k>> \in P(n)
    BY <1>10, <2>1
  <2>3. QED
    BY <1>1, <2>1, <2>2
<1>11. QED
  BY <1>1, <1>2, <1>9, <1>10

\* A record's key, and the place of an English one.
LEMMA KeyOf ==
  ASSUME NEW g \in Hashtags, NEW p \in 1..Len(Archive[g]), NEW k \in 1..Len(Archive[g][p])
  PROVE  Archive[g][p][k].hashtag = g
  BY ArchivePages, KeysAssumption

LEMMA EnglishPlace ==
  ASSUME NEW h \in Hashtags, NEW p \in 1..Len(Archive[h]), NEW k \in 1..Len(Archive[h][p]),
         Archive[h][p][k].english
  PROVE  <<p, k>> \in EnglishPlaces(h)
BY EnglishIs

\* A row of sentiments, while nothing was emitted twice, counts a record at most once,
\* an English one of its hashtag, and each of these comes from a place of its own of
\* the archive as one of the threads went through it.
LEMMA CountedBound == SpreadInv => CountedOncePerThread
<1> SUFFICES ASSUME SpreadInv, \A o \in Offsets : emits[o] <= 1, NEW h \in Hashtags
             PROVE  Tables[h]["sentiments"][1] <= Cardinality(StartedFor(h)) * EnglishIn(h)
  BY Zenon DEF CountedOncePerThread
<1> DEFINE S == StartedFor(h)
           P == EnglishPlaces(h)
           U == UNION {{<<o, i, n>> : n \in 1..written["sentiment"][o][i]} :
                         o \in OffsetsOf(h), i \in PartIds}
<1>1. Tables[h]["sentiments"][1] = IF "sentiment" \in Branches THEN Cardinality(U) ELSE 0
  <2>1. 1 \in Hours
    BY HoursAssumption DEF Hours
  <2>2. InRow(h, "sentiments", 1) = OffsetsOf(h)
    BY DEF InRow, RowOf
  <2>3. Tables[h]["sentiments"][1] = Applied("sentiment", OffsetsOf(h))
    BY <2>1, <2>2 DEF Tables, Panels, BranchOf
  <2>4. QED
    BY <2>3 DEF Applied
<1>2. ThreadTypes /\ TypeOK /\ CopiesInv /\ RecordInv
  BY DEF SpreadInv, ThreadInv, TopologyInv
<1>3. PICK src, held : Traced(src, held)
  BY DEF SpreadInv, ThreadInv, TraceInv
<1>4. IsFiniteSet(S)
  <2>1. S \in SUBSET {t \in Threads : tpc[t] # "none"}
    BY DEF StartedFor
  <2>2. QED
    BY <2>1, FS_Subset DEF SpreadInv, ThreadInv
<1>5. IsFiniteSet(P) /\ EnglishIn(h) = Cardinality(P)
  BY EnglishIs
<1>6. /\ IsFiniteSet(S \X P) /\ Cardinality(S \X P) = Cardinality(S) * Cardinality(P)
      /\ Cardinality(S \X P) \in Nat
  BY <1>4, <1>5, FS_Product, FS_CardinalityType
<1>7. CASE "sentiment" \notin Branches
  BY <1>1, <1>5, <1>6, <1>7
<1>8. CASE "sentiment" \in Branches
  <2> HIDE DEF U, S, P
  <2>1. ASSUME NEW x \in U
        PROVE  /\ x = <<x[1], 1, 1>> /\ x[1] \in 1..Len(log)
               /\ <<src[x[1]].by, <<src[x[1]].page, src[x[1]].at>>>> \in S \X P
    <3>0. PICK o \in OffsetsOf(h), i \in PartIds :
                 \E n \in 1..written["sentiment"][o][i] : x = <<o, i, n>>
      BY DEF U
    <3>1. PICK n \in 1..written["sentiment"][o][i] : x = <<o, i, n>>
      BY <3>0
    <3>2. o \in 1..Len(log) /\ log[o].hashtag = h /\ o \in Offsets
      <4>1. Len(log) \in Nat /\ Len(log) <= MaxLog
        BY <1>2 DEF TypeOK
      <4>2. o \in 1..Len(log) /\ log[o].hashtag = h
        BY DEF OffsetsOf
      <4>3. QED
        BY <4>1, <4>2, BoundsAssumption DEF Offsets
    <3>3. /\ written["sentiment"][o][i] \in Nat /\ writeq["sentiment"][o][i] \in Nat
          /\ boltq["sentiment"][o] \in Nat /\ jsonq[o] \in Nat /\ emits[o] \in Nat
      BY <1>2, <1>8, <3>2 DEF TypeOK
    <3>4. written["sentiment"][o][i] <= 1 /\ written["sentiment"][o][i] > 0 /\ n = 1
      <4>1. written["sentiment"][o][i] + writeq["sentiment"][o][i] + boltq["sentiment"][o] + jsonq[o] <= emits[o]
        BY <1>2, <1>8, <3>2 DEF CopiesInv
      <4>2. emits[o] <= 1
        BY <3>2
      <4>3. QED
        BY <3>3, <4>1, <4>2
    <3>5. i \in Parts("sentiment", log[o])
      BY <1>2, <1>8, <3>2, <3>4 DEF RecordInv
    <3>6. i = 1 /\ log[o].english
      BY <3>5 DEF Parts, SentimentParts
    <3>7. x[1] = o /\ x = <<o, 1, 1>>
      BY <3>1, <3>4, <3>6
    <3>8. /\ src[o].by \in Threads /\ tpc[src[o].by] # "none" /\ topic[src[o].by] \in Hashtags
          /\ src[o].page \in 1..Len(Archive[topic[src[o].by]])
          /\ src[o].at \in 1..Len(Archive[topic[src[o].by]][src[o].page])
          /\ log[o] = Archive[topic[src[o].by]][src[o].page][src[o].at]
      BY <1>2, <1>3, <3>2, Traces DEF Of
    <3>9. topic[src[o].by] = h
      <4>1. PICK g : g = topic[src[o].by]
        OBVIOUS
      <4>2. PICK p : p = src[o].page
        OBVIOUS
      <4>3. PICK k : k = src[o].at
        OBVIOUS
      <4>4. /\ g \in Hashtags /\ p \in 1..Len(Archive[g]) /\ k \in 1..Len(Archive[g][p])
            /\ log[o] = Archive[g][p][k]
        BY <3>8, <4>1, <4>2, <4>3
      <4>5. Archive[g][p][k].hashtag = g
        BY <4>4, KeyOf
      <4>6. QED
        BY <3>2, <4>1, <4>4, <4>5
    <3>10. src[o].by \in S
      BY <3>8, <3>9 DEF S, StartedFor
    <3>11. <<src[o].page, src[o].at>> \in P
      <4>1. PICK p : p = src[o].page
        OBVIOUS
      <4>2. PICK k : k = src[o].at
        OBVIOUS
      <4>3. p \in 1..Len(Archive[h]) /\ k \in 1..Len(Archive[h][p]) /\ Archive[h][p][k].english
        BY <3>6, <3>8, <3>9, <4>1, <4>2
      <4>4. QED
        BY <4>1, <4>2, <4>3, EnglishPlace DEF P
    <3>12. QED
      BY <3>2, <3>7, <3>10, <3>11
  <2>2. PICK f : f = [x \in U |-> <<src[x[1]].by, <<src[x[1]].page, src[x[1]].at>>>>]
    OBVIOUS
  <2>3. f \in [U -> S \X P]
    BY <2>1, <2>2
  <2>4. ASSUME NEW x \in U, NEW y \in U, f[x] = f[y] PROVE x = y
    <3>1. PICK a : a = x[1]
      OBVIOUS
    <3>2. PICK b : b = y[1]
      OBVIOUS
    <3>3. a \in 1..Len(log) /\ b \in 1..Len(log) /\ x = <<a, 1, 1>> /\ y = <<b, 1, 1>>
      BY <2>1, <3>1, <3>2
    <3>4. f[x] = <<src[a].by, <<src[a].page, src[a].at>>>> /\ f[y] = <<src[b].by, <<src[b].page, src[b].at>>>>
      BY <2>2, <3>1, <3>2
    <3>5. src[a].by = src[b].by /\ src[a].page = src[b].page /\ src[a].at = src[b].at
      <4>1. <<src[a].by, <<src[a].page, src[a].at>>>> = <<src[b].by, <<src[b].page, src[b].at>>>>
        BY <2>4, <3>4
      <4>2. QED
        BY <4>1
    <3>6. src[a] \in Slots /\ src[b] \in Slots
      BY <1>2, <1>3, <3>3, Traces
    <3>7. src[a] = src[b]
      BY <3>5, <3>6 DEF Slots
    <3>8. a = b
      BY <1>2, <1>3, <3>3, <3>7, Traces
    <3>9. QED
      BY <3>3, <3>8
  <2>5. f \in Injection(U, S \X P)
    BY <2>3, <2>4 DEF Injection, IsInjective
  <2>6. Cardinality(U) <= Cardinality(S \X P)
    BY <1>6, <2>5, FS_Injection
  <2>7. QED
    BY <1>1, <1>5, <1>6, <1>8, <2>6 DEF S
<1>9. QED
  BY <1>7, <1>8

\* As long as the spout has replayed nothing the pie chart of a hashtag counts each of its
\* English tweets once for each thread started for it, at most, whatever sessions,
\* threads, producers and the topology do to each other.
THEOREM ChartsCountOnce == SpreadSpec => []CountedOncePerThread
<1>1. QED
  BY SpreadStart, SpreadStep, CountedBound, PTL DEF SpreadSpec

-----------------------------------------------------------------------------
(* The whole is SearchPage: what its tables count, and what changes them.  *)

\* Retries of an offset end at MaxEmits, and each life of the worker reads it once.
EmitsInv ==
  \A o \in Offsets : emits[o] <= MaxEmits + faults + (IF up /\ o < next THEN 1 ELSE 0)

LEMMA EmitsStep == TypeOK /\ EmitsInv /\ Topology => EmitsInv'
<1> SUFFICES ASSUME TypeOK, EmitsInv, Topology, NEW q \in Offsets
             PROVE  (emits[q] <= MaxEmits + faults + (IF up /\ q < next THEN 1 ELSE 0))'
  BY DEF EmitsInv
<1>1. /\ emits[q] \in Nat /\ next \in Nat /\ q \in Nat /\ faults \in Nat /\ MaxEmits \in Nat
      /\ up \in BOOLEAN /\ emits \in [Offsets -> Nat]
      /\ emits[q] <= MaxEmits + faults + (IF up /\ q < next THEN 1 ELSE 0)
  BY BoundsAssumption DEF TypeOK, EmitsInv, Offsets
<1>2. CASE Open
  BY <1>1, <1>2 DEF Open
<1>3. CASE Crash
  BY <1>1, <1>3 DEF Crash
<1>4. CASE EmitNext
  <2>1. up /\ up' = up /\ next' = next + 1 /\ faults' = faults
        /\ emits' = [emits EXCEPT ![next] = @ + 1]
    BY <1>4 DEF EmitNext, Emit
  <2>2. CASE q = next
    BY <1>1, <2>1, <2>2
  <2>3. CASE q # next
    BY <1>1, <2>1, <2>3
  <2>4. QED
    BY <2>2, <2>3
<1>5. ASSUME NEW o \in Offsets, EmitRetry(o)
      PROVE  (emits[q] <= MaxEmits + faults + (IF up /\ q < next THEN 1 ELSE 0))'
  <2>1. emits[o] < MaxEmits /\ UNCHANGED <<up, next, faults>> /\ emits' = [emits EXCEPT ![o] = @ + 1]
    BY <1>5 DEF EmitRetry, Emit
  <2>2. CASE q = o
    BY <1>1, <2>1, <2>2
  <2>3. CASE q # o
    BY <1>1, <2>1, <2>3
  <2>4. QED
    BY <2>2, <2>3
<1>6. ASSUME Commit \/ \E o \in Offsets : Timeout(o) \/ SpoutAck(o)
      PROVE  UNCHANGED <<emits, faults, up, next>>
  BY <1>6 DEF Commit, Timeout, SpoutAck
<1>7. ASSUME BoltStep
      PROVE  UNCHANGED <<emits, up, next>> /\ (faults' = faults \/ faults' = faults + 1)
  BY <1>7 DEF BoltStep, JsonParse, JsonFail, BoltExecute, Write, LoseWrite, feed
<1>8. QED
  BY <1>1, <1>2, <1>3, <1>4, <1>5, <1>6, <1>7 DEF Topology, SpoutStep

\* What no more than an update of each kind for each emission adds up to.
MostEmits == MaxEmits + MaxFaults + 1

LEMMA FewWritten ==
  ASSUME TopologyInv, EmitsInv, NEW b \in Branches, NEW o \in Offsets, NEW i \in PartIds
  PROVE  written[b][o][i] \in Nat /\ written[b][o][i] <= MostEmits
<1>1. /\ written[b][o][i] \in Nat /\ writeq[b][o][i] \in Nat /\ boltq[b][o] \in Nat
      /\ jsonq[o] \in Nat /\ emits[o] \in Nat /\ faults \in Nat /\ faults <= MaxFaults
  BY BoundsAssumption DEF TopologyInv, TypeOK
<1>2. written[b][o][i] + writeq[b][o][i] + boltq[b][o] + jsonq[o] <= emits[o]
  BY DEF TopologyInv, CopiesInv
<1>3. emits[o] <= MaxEmits + faults + 1
  <2>1. emits[o] <= MaxEmits + faults + (IF up /\ o < next THEN 1 ELSE 0)
    BY DEF EmitsInv
  <2>2. QED
    BY <1>1, <2>1, BoundsAssumption
<1>4. QED
  BY <1>1, <1>2, <1>3, BoundsAssumption DEF MostEmits

\* The updates of a branch for the tweets of some offsets.
Marks(W, os) == UNION {{<<o, i, n>> : n \in 1..W[o][i]} : o \in os, i \in PartIds}

Updates(b, os) == Marks(written[b], os)

LEMMA AppliedIs == \A b, os : Applied(b, os) = IF b \in Branches THEN Cardinality(Updates(b, os)) ELSE 0
  BY DEF Applied, Updates, Marks

LEMMA FewUpdates ==
  ASSUME TopologyInv, EmitsInv, NEW b \in Branches, NEW os \in SUBSET Offsets
  PROVE  /\ IsFiniteSet(Updates(b, os)) /\ Cardinality(Updates(b, os)) \in Nat
         /\ Cardinality(Updates(b, os)) <= MaxUpdates
<1>1. PICK U : U = Updates(b, os)
  OBVIOUS
<1>2. PICK E : E = MostEmits
  OBVIOUS
<1>3. E \in Nat /\ MaxPlaces \in Nat /\ MaxLog \in Nat
  BY <1>2, BoundsAssumption DEF MostEmits
<1>4. /\ IsFiniteSet(1..E) /\ Cardinality(1..E) = E
      /\ IsFiniteSet(PartIds) /\ Cardinality(PartIds) = MaxPlaces
      /\ IsFiniteSet(Offsets) /\ Cardinality(Offsets) = MaxLog
  <2>1. \A n \in Nat : IsFiniteSet(1..n) /\ Cardinality(1..n) = n
    <3>1. TAKE n \in Nat
    <3>2. IsFiniteSet(1..n) /\ Cardinality(1..n) = IF 1 > n THEN 0 ELSE n - 1 + 1
      BY FS_Interval
    <3>3. QED
      BY <3>2
  <2>2. QED
    BY <1>3, <2>1 DEF PartIds, Offsets
<1>5. PICK Q : Q = PartIds \X (1..E)
  OBVIOUS
<1>6. IsFiniteSet(Q) /\ Cardinality(Q) = MaxPlaces * E
  BY <1>4, <1>5, FS_Product
<1>7. PICK P : P = Offsets \X Q
  OBVIOUS
<1>8. IsFiniteSet(P) /\ Cardinality(P) = MaxLog * (MaxPlaces * E)
  BY <1>4, <1>6, <1>7, FS_Product
<1>9. ASSUME NEW x \in U
      PROVE  /\ x[1] \in Offsets /\ x[2] \in PartIds /\ x[3] \in 1..E /\ x = <<x[1], x[2], x[3]>>
             /\ <<x[1], <<x[2], x[3]>>>> \in P
  <2>1. PICK o \in os, i \in PartIds : \E n \in 1..written[b][o][i] : x = <<o, i, n>>
    BY <1>1 DEF Updates, Marks
  <2>2. PICK n \in 1..written[b][o][i] : x = <<o, i, n>>
    BY <2>1
  <2>3. o \in Offsets /\ written[b][o][i] \in Nat /\ written[b][o][i] <= E
    BY <1>2, FewWritten
  <2>4. n \in 1..E
    BY <1>3, <2>3
  <2>5. QED
    BY <1>5, <1>7, <2>2, <2>3, <2>4
<1>10. PICK f : f = [x \in U |-> <<x[1], <<x[2], x[3]>>>>]
  OBVIOUS
<1>11. f \in [U -> P]
  BY <1>9, <1>10
<1>12. ASSUME NEW x \in U, NEW y \in U, f[x] = f[y] PROVE x = y
  <2>1. <<x[1], <<x[2], x[3]>>>> = <<y[1], <<y[2], y[3]>>>>
    BY <1>10, <1>12
  <2>2. x[1] = y[1] /\ x[2] = y[2] /\ x[3] = y[3]
    BY <2>1
  <2>3. QED
    BY <1>9, <2>2
<1>13. f \in Injection(U, P)
  BY <1>11, <1>12 DEF Injection, IsInjective
<1>14. IsFiniteSet(U) /\ Cardinality(U) <= Cardinality(P)
  BY <1>8, <1>13, FS_Injection
<1>15. Cardinality(U) \in Nat
  BY <1>14, FS_CardinalityType
<1>16. Cardinality(P) \in Nat /\ Cardinality(P) <= MaxUpdates /\ MaxUpdates \in Nat
  <2>1. Cardinality(P) \in Nat
    BY <1>8, FS_CardinalityType
  <2>2. MaxLog * (MaxPlaces * E) <= MaxUpdates /\ MaxUpdates \in Nat
    BY <1>2, UpdatesAssumption DEF MostEmits
  <2>3. QED
    BY <1>8, <2>1, <2>2
<1>17. QED
  BY <1>1, <1>14, <1>15, <1>16

LEMMA InMarks ==
  ASSUME NEW W, NEW os, NEW x
  PROVE  x \in Marks(W, os) <=>
           \E o \in os, i \in PartIds : \E n \in 1..W[o][i] : x = <<o, i, n>>
<1> DEFINE A(o, i) == {<<o, i, n>> : n \in 1..W[o][i]}
<1>1. \A o, i : x \in A(o, i) <=> \E n \in 1..W[o][i] : x = <<o, i, n>>
  OBVIOUS
<1>2. Marks(W, os) = UNION {A(o, i) : o \in os, i \in PartIds}
  BY DEF Marks
<1> HIDE DEF A
<1>3. x \in UNION {A(o, i) : o \in os, i \in PartIds} <=> \E o \in os, i \in PartIds : x \in A(o, i)
  OBVIOUS
<1>4. QED
  BY <1>1, <1>2, <1>3

Adds(c, o, i) == written' = [written EXCEPT ![c][o][i] = @ + 1]

\* An UPDATE adds itself, in the tables of its branch that have its tweet.
LEMMA WriteAdds ==
  ASSUME TopologyInv, EmitsInv, NEW c \in Branches, NEW o \in Offsets, NEW i \in PartIds,
         written[c][o][i] \in Nat, Adds(c, o, i),
         NEW b \in Branches, NEW os \in SUBSET Offsets
  PROVE  Cardinality(Marks(written'[b], os)) =
           Cardinality(Marks(written[b], os)) + (IF b = c /\ o \in os THEN 1 ELSE 0)
<1>1. written \in [Branches -> [Offsets -> [PartIds -> Nat]]]
  BY DEF TopologyInv, TypeOK
<1>2. PICK w : w = written[c][o][i]
  OBVIOUS
<1>3. w \in Nat /\ written'[c][o][i] = w + 1
  BY <1>1, <1>2 DEF Adds
<1>4. \A q \in Offsets, j \in PartIds : written'[b][q][j] =
        IF b = c /\ q = o /\ j = i THEN w + 1 ELSE written[b][q][j]
  BY <1>1, <1>2 DEF Adds
<1>5. PICK U : U = Marks(written[b], os)
  OBVIOUS
<1>6. PICK V : V = Marks(written'[b], os)
  OBVIOUS
<1>7. \A x : x \in U <=> \E q \in os, j \in PartIds : \E n \in 1..written[b][q][j] : x = <<q, j, n>>
  <2>1. PICK W : W = written[b]
    OBVIOUS
  <2>2. U = Marks(W, os)
    BY <1>5, <2>1
  <2>3. \A x : x \in U <=> \E q \in os, j \in PartIds : \E n \in 1..W[q][j] : x = <<q, j, n>>
    BY <2>2, InMarks
  <2>4. QED
    BY <2>1, <2>3
<1>8. \A x : x \in V <=> \E q \in os, j \in PartIds : \E n \in 1..written'[b][q][j] : x = <<q, j, n>>
  <2>1. PICK W : W = written'[b]
    OBVIOUS
  <2>2. V = Marks(W, os)
    BY <1>6, <2>1
  <2>3. \A x : x \in V <=> \E q \in os, j \in PartIds : \E n \in 1..W[q][j] : x = <<q, j, n>>
    BY <2>2, InMarks
  <2>4. QED
    BY <2>1, <2>3
<1>9. IsFiniteSet(U) /\ Cardinality(U) \in Nat
  BY <1>5, FewUpdates DEF Updates
<1>10. CASE b = c /\ o \in os
  <2>1. ASSUME NEW x PROVE x \in V <=> x \in U \union {<<o, i, w + 1>>}
    <3>1. ASSUME x \in V PROVE x \in U \union {<<o, i, w + 1>>}
      <4>1. PICK q \in os, j \in PartIds : \E n \in 1..written'[b][q][j] : x = <<q, j, n>>
        BY <1>8, <3>1
      <4>2. PICK n \in 1..written'[b][q][j] : x = <<q, j, n>>
        BY <4>1
      <4>3. CASE q = o /\ j = i
        <5>1. n \in 1..w \/ n = w + 1
          BY <1>3, <1>10, <4>2, <4>3
        <5>2. QED
          BY <1>2, <1>7, <1>10, <4>1, <4>2, <4>3, <5>1
      <4>4. CASE ~(q = o /\ j = i)
        BY <1>4, <1>7, <4>1, <4>2, <4>4
      <4>5. QED
        BY <4>3, <4>4
    <3>2. ASSUME x \in U PROVE x \in V
      <4>1. PICK q \in os, j \in PartIds : \E n \in 1..written[b][q][j] : x = <<q, j, n>>
        BY <1>7, <3>2
      <4>2. PICK n \in 1..written[b][q][j] : x = <<q, j, n>>
        BY <4>1
      <4>3. written[b][q][j] \in Nat /\ (q = o /\ j = i /\ b = c => written[b][q][j] = w)
        BY <1>1, <1>2, <4>1
      <4>4. n \in 1..written'[b][q][j]
        BY <1>3, <1>4, <4>2, <4>3
      <4>5. QED
        BY <1>8, <4>1, <4>2, <4>4
    <3>3. <<o, i, w + 1>> \in V
      <4>1. w + 1 \in 1..written'[b][o][i]
        BY <1>3, <1>10
      <4>2. QED
        BY <1>8, <1>10, <4>1
    <3>4. QED
      BY <3>1, <3>2, <3>3
  <2>2. V = U \union {<<o, i, w + 1>>}
    BY <2>1
  <2>3. <<o, i, w + 1>> \notin U
    <3>1. SUFFICES ASSUME <<o, i, w + 1>> \in U PROVE FALSE
      OBVIOUS
    <3>2. PICK q \in os, j \in PartIds : \E n \in 1..written[b][q][j] : <<o, i, w + 1>> = <<q, j, n>>
      BY <1>7, <3>1
    <3>3. PICK n \in 1..written[b][q][j] : <<o, i, w + 1>> = <<q, j, n>>
      BY <3>2
    <3>4. q = o /\ j = i /\ n = w + 1
      BY <3>3
    <3>5. w + 1 \in 1..w
      BY <1>2, <1>10, <3>3, <3>4
    <3>6. QED
      BY <1>3, <3>5
  <2>4. Cardinality(V) = Cardinality(U) + 1
    BY <1>9, <2>2, <2>3, FS_AddElement
  <2>5. QED
    BY <1>5, <1>6, <1>10, <2>4
<1>11. CASE ~(b = c /\ o \in os)
  <2>1. \A q \in os, j \in PartIds : written'[b][q][j] = written[b][q][j]
    BY <1>4, <1>11
  <2>2. \A x : x \in V <=> x \in U
    BY <1>7, <1>8, <2>1
  <2>3. V = U
    BY <2>2
  <2>4. QED
    BY <1>5, <1>6, <1>9, <1>11, <2>3
<1>12. QED
  BY <1>10, <1>11

LEMMA AppliedNat ==
  ASSUME TopologyInv, EmitsInv, NEW b, NEW os \in SUBSET Offsets
  PROVE  Applied(b, os) \in Nat /\ Applied(b, os) <= MaxUpdates
<1>1. CASE b \in Branches
  BY <1>1, FewUpdates, AppliedIs
<1>2. CASE b \notin Branches
  BY <1>2, AppliedIs, UpdatesAssumption
<1>3. QED
  BY <1>1, <1>2

AppliedFew == \A b, os : os \in SUBSET Offsets => Applied(b, os) <= MaxUpdates

LEMMA AppliedBound == TopologyInv /\ EmitsInv => AppliedFew
  BY AppliedNat DEF AppliedFew

LEMMA AppliedGrows ==
  ASSUME TopologyInv, EmitsInv, NEW c \in Branches, NEW o \in Offsets, NEW i \in PartIds,
         Adds(c, o, i),
         NEW b, NEW os \in SUBSET Offsets
  PROVE  Applied(b, os)' = IF b = c /\ o \in os THEN Applied(b, os) + 1 ELSE Applied(b, os)
<1>1. written[c][o][i] \in Nat
  BY DEF TopologyInv, TypeOK
<1>2. /\ Applied(b, os) = IF b \in Branches THEN Cardinality(Marks(written[b], os)) ELSE 0
      /\ Applied(b, os)' = IF b \in Branches THEN Cardinality(Marks(written'[b], os)) ELSE 0
  BY DEF Applied, Marks
<1>3. CASE b \in Branches
  <2>1. Cardinality(Marks(written'[b], os)) =
           Cardinality(Marks(written[b], os)) + (IF b = c /\ o \in os THEN 1 ELSE 0)
    BY <1>1, <1>3, WriteAdds
  <2>2. Cardinality(Marks(written[b], os)) \in Nat
    BY <1>3, FewUpdates DEF Updates
  <2>3. QED
    BY <1>2, <1>3, <2>1, <2>2
<1>4. CASE b \notin Branches
  BY <1>2, <1>4
<1>5. QED
  BY <1>3, <1>4

LEMMA RowsIn ==
  ASSUME TopologyInv, NEW h, NEW p, NEW k
  PROVE  InRow(h, p, k) \in SUBSET Offsets
  BY BoundsAssumption DEF TopologyInv, TypeOK, OffsetsOf, InRow, Offsets

LEMMA TablesStay == UNCHANGED <<log, written>> => UNCHANGED Tables
  BY DEF Tables, Applied, OffsetsOf, InRow, RowOf, BranchOf, Panels, Hours

\* A record that joins the topic is in no table yet.
LEMMA MarksSame ==
  ASSUME NEW W, NEW os, NEW qs,
         \A o \in (os \ qs) \union (qs \ os), i \in PartIds : 1..W[o][i] = {}
  PROVE  Marks(W, os) = Marks(W, qs)
<1>1. ASSUME NEW a, NEW b, \A o \in a \ b, i \in PartIds : 1..W[o][i] = {}, NEW x \in Marks(W, a)
      PROVE  x \in Marks(W, b)
  <2>1. PICK o \in a, i \in PartIds : \E n \in 1..W[o][i] : x = <<o, i, n>>
    BY <1>1, InMarks
  <2>2. o \in b
    BY <1>1, <2>1
  <2>3. QED
    BY <2>1, <2>2, InMarks
<1>2. \A o \in os \ qs, i \in PartIds : 1..W[o][i] = {}
  OBVIOUS
<1>3. \A o \in qs \ os, i \in PartIds : 1..W[o][i] = {}
  OBVIOUS
<1>4. \A x : x \in Marks(W, os) <=> x \in Marks(W, qs)
  BY <1>1, <1>2, <1>3
<1>5. QED
  BY <1>4

LEMMA TablesGrow ==
  ASSUME TopologyInv, UNCHANGED written, log' \in Seq(Tweets), Len(log') <= MaxLog,
         Len(log) <= Len(log'), \A o \in 1..Len(log) : log'[o] = log[o]
  PROVE  UNCHANGED Tables
<1>1. /\ Len(log) \in Nat /\ Len(log') \in Nat /\ MaxLog \in Nat
      /\ written \in [Branches -> [Offsets -> [PartIds -> Nat]]]
  BY BoundsAssumption DEF TopologyInv, TypeOK
<1>2. ASSUME NEW b, NEW os, NEW qs \in SUBSET Offsets, os \subseteq qs,
             \A o \in qs \ os : o > Len(log)
      PROVE  Applied(b, os) = Applied(b, qs)'
  <2>1. CASE b \in Branches
    <3>1. ASSUME NEW o \in qs \ os, NEW i \in PartIds PROVE 1..written[b][o][i] = {}
      <4>1. o \in Offsets /\ o \in Nat /\ o > Len(log)
        BY <1>2, <3>1 DEF Offsets
      <4>2. written[b][o][i] \in Nat /\ ~(written[b][o][i] > 0)
        BY <1>1, <2>1, <4>1 DEF TopologyInv, RecordInv
      <4>3. QED
        BY <4>2
    <3>2. \A o \in (os \ qs) \union (qs \ os), i \in PartIds : 1..written[b][o][i] = {}
      BY <1>2, <3>1
    <3>3. Marks(written[b], os) = Marks(written[b], qs)
      BY <3>2, MarksSame
    <3>4. QED
      <4>1. Applied(b, os) = Cardinality(Marks(written[b], os))
        BY <2>1 DEF Applied, Marks
      <4>2. Applied(b, qs)' = Cardinality(Marks(written'[b], qs))
        BY <2>1 DEF Applied, Marks
      <4>3. written'[b] = written[b]
        OBVIOUS
      <4>4. QED
        BY <3>3, <4>1, <4>2, <4>3
  <2>2. CASE b \notin Branches
    BY <2>2 DEF Applied
  <2>3. QED
    BY <2>1, <2>2
<1>3. ASSUME NEW h, NEW p, NEW k
      PROVE  /\ InRow(h, p, k)' \in SUBSET Offsets /\ InRow(h, p, k) \subseteq InRow(h, p, k)'
             /\ \A o \in InRow(h, p, k)' \ InRow(h, p, k) : o > Len(log)
  BY <1>1 DEF OffsetsOf, InRow, RowOf, Offsets
<1>4. ASSUME NEW h, NEW b, NEW p, NEW k
      PROVE  Applied(b, InRow(h, p, k))' = Applied(b, InRow(h, p, k))
  <2>1. PICK os, qs : os = InRow(h, p, k) /\ qs = InRow(h, p, k)'
    OBVIOUS
  <2>2. Applied(b, os) = Applied(b, qs)'
    BY <1>2, <1>3, <2>1
  <2>3. QED
    BY <2>1, <2>2 DEF Applied
<1>5. Tables' = [h \in Hashtags |->
                   [p \in Panels |-> [k \in Hours |-> Applied(BranchOf(p), InRow(h, p, k))']]]
  BY DEF Tables, Panels, Hours, BranchOf
<1>6. PICK A, B :
        /\ A = [h \in Hashtags |-> [p \in Panels |-> [k \in Hours |->
                  Applied(BranchOf(p), InRow(h, p, k))]]]
        /\ B = [h \in Hashtags |-> [p \in Panels |-> [k \in Hours |->
                  Applied(BranchOf(p), InRow(h, p, k))']]]
  OBVIOUS
<1>7. A = Tables /\ B = Tables'
  BY <1>5, <1>6 DEF Tables
<1>8. ASSUME NEW h \in Hashtags, NEW p \in Panels, NEW k \in Hours
      PROVE  A[h][p][k] = B[h][p][k]
  BY <1>4, <1>6
<1>9. /\ A = [h \in Hashtags |-> [p \in Panels |-> [k \in Hours |-> A[h][p][k]]]]
      /\ B = [h \in Hashtags |-> [p \in Panels |-> [k \in Hours |-> B[h][p][k]]]]
  BY <1>6
<1>10. A = B
  BY <1>8, <1>9
<1>11. QED
  BY <1>7, <1>10

\* An UPDATE is one step of one row, or of a milestone the page does not read.
LEMMA WriteTables ==
  ASSUME TopologyInv, EmitsInv, AppliedFew',
         NEW c \in Branches, NEW o \in Offsets, NEW i \in PartIds, Write(c, o, i)
  PROVE  \/ UNCHANGED Tables
         \/ \E h \in Hashtags, p \in Panels : \E k \in Site!RowsOf(p) :
              /\ Tables[h][p][k] < MaxUpdates
              /\ Tables' = [Tables EXCEPT ![h][p][k] = @ + 1]
<1>1. /\ Adds(c, o, i) /\ UNCHANGED log
      /\ writeq[c][o][i] > 0
  BY DEF Write, Adds
<1>2. o \in 1..Len(log) /\ c \in AllBranches /\ log[o].hashtag \in Hashtags
  <2>1. Len(log) \in Nat /\ o \in Nat /\ o >= 1 /\ o <= Len(log) /\ log \in Seq(Tweets)
    BY <1>1, BoundsAssumption DEF TopologyInv, RecordInv, TypeOK, Offsets
  <2>2. log[o] \in Tweets
    BY <2>1
  <2>3. QED
    BY <2>1, <2>2, TweetsAssumption, BranchesAssumption DEF IsTweet
<1>3. PICK p \in Panels : \A q \in Panels : BranchOf(q) = c <=> q = p
  <2>1. c \in {"sentiment", "geoparsing", "milestones"}
    BY <1>2 DEF AllBranches
  <2>2. PICK p \in Panels : p = IF c = "sentiment" THEN "sentiments" ELSE c
    BY <2>1 DEF Panels
  <2>3. QED
    BY <2>1, <2>2 DEF BranchOf, Panels
<1>4. PICK g, r : g = log[o].hashtag /\ r = RowOf(p, log[o])
  OBVIOUS
<1>5. \A b : \A os \in SUBSET Offsets :
        /\ Applied(b, os)' = IF b = c /\ o \in os THEN Applied(b, os) + 1 ELSE Applied(b, os)
        /\ Applied(b, os) \in Nat /\ Applied(b, os)' <= MaxUpdates
  BY <1>1, AppliedGrows, AppliedNat DEF AppliedFew
<1>6. ASSUME NEW b, NEW h, NEW q, NEW k
      PROVE  /\ Applied(b, InRow(h, q, k))' = IF b = c /\ o \in InRow(h, q, k)
                                               THEN Applied(b, InRow(h, q, k)) + 1
                                               ELSE Applied(b, InRow(h, q, k))
             /\ Applied(b, InRow(h, q, k)) \in Nat
             /\ Applied(b, InRow(h, q, k))' <= MaxUpdates
  <2>1. PICK os : os = InRow(h, q, k)
    OBVIOUS
  <2>2. os = InRow(h, q, k)'
    BY <1>1, <2>1 DEF OffsetsOf, InRow, RowOf
  <2>3. Applied(b, InRow(h, q, k))' = Applied(b, os)'
    BY <2>2 DEF Applied
  <2>4. os \in SUBSET Offsets
    BY <2>1, RowsIn
  <2>5. QED
    BY <1>5, <2>1, <2>3, <2>4
<1>7. ASSUME NEW h, NEW q \in Panels, NEW k
      PROVE  BranchOf(q) = c /\ o \in InRow(h, q, k) <=> h = g /\ q = p /\ k = r
  <2>1. o \in InRow(h, q, k) <=> h = g /\ k = RowOf(q, log[o])
    BY <1>2, <1>4 DEF OffsetsOf, InRow
  <2>2. QED
    BY <1>3, <1>4, <2>1
<1>8. PICK T, T2 : T = Tables /\ T2 = Tables'
  OBVIOUS
<1>9. PICK A, B :
        /\ A = [h \in Hashtags |-> [q \in Panels |-> [k \in Hours |->
                  Applied(BranchOf(q), InRow(h, q, k))]]]
        /\ B = [h \in Hashtags |-> [q \in Panels |-> [k \in Hours |->
                  Applied(BranchOf(q), InRow(h, q, k))']]]
  OBVIOUS
<1>10. T = A /\ T2 = B
  BY <1>8, <1>9 DEF Tables, Panels, Hours, BranchOf
<1>11. ASSUME NEW h \in Hashtags, NEW q \in Panels, NEW k \in Hours
       PROVE  /\ A[h][q][k] \in Nat /\ B[h][q][k] <= MaxUpdates
              /\ B[h][q][k] = IF h = g /\ q = p /\ k = r THEN A[h][q][k] + 1 ELSE A[h][q][k]
  BY <1>6, <1>7, <1>9
<1>12. /\ A = [h \in Hashtags |-> [q \in Panels |-> [k \in Hours |-> A[h][q][k]]]]
       /\ B = [h \in Hashtags |-> [q \in Panels |-> [k \in Hours |-> B[h][q][k]]]]
  BY <1>9
<1> HIDE DEF Tables
<1>13. CASE r \in Hours
  <2>1. g \in Hashtags /\ A[g][p][r] < MaxUpdates
    BY <1>2, <1>4, <1>11, <1>13, UpdatesAssumption
  <2>2. B = [A EXCEPT ![g][p][r] = @ + 1]
    <3>1. A \in [Hashtags -> [Panels -> [Hours -> Nat]]]
      BY <1>11, <1>12
    <3>2. PICK C : C = [A EXCEPT ![g][p][r] = @ + 1]
      OBVIOUS
    <3>3. C = [h \in Hashtags |-> [q \in Panels |-> [k \in Hours |-> C[h][q][k]]]]
      BY <2>1, <3>1, <3>2
    <3>4. ASSUME NEW h \in Hashtags, NEW q \in Panels, NEW k \in Hours
          PROVE  C[h][q][k] = B[h][q][k]
      BY <1>11, <1>13, <2>1, <3>1, <3>2
    <3>5. B = C
      BY <1>12, <3>3, <3>4
    <3>6. QED
      BY <3>2, <3>5
  <2>3. r \in Site!RowsOf(p)
    BY <1>4, <1>13 DEF Site!RowsOf, RowOf, Site!Hours, Hours
  <2>4. Tables[g][p][r] < MaxUpdates
    BY <1>8, <1>10, <2>1
  <2>5. Tables' = [Tables EXCEPT ![g][p][r] = @ + 1]
    BY <1>8, <1>10, <2>2
  <2>6. QED
    BY <2>1, <2>3, <2>4, <2>5
<1>14. CASE r \notin Hours
  <2>1. A = B
    BY <1>11, <1>12, <1>14
  <2>2. QED
    BY <1>8, <1>10, <2>1
<1>15. QED
  BY <1>13, <1>14

SiteInv == SpreadInv /\ EmitsInv

LEMMA SiteStart == SpreadInit => SiteInv /\ Site!PageInit
<1> SUFFICES ASSUME SpreadInit PROVE SiteInv /\ Site!PageInit
  OBVIOUS
<1>1. SpreadInv
  BY SpreadStart
<1>2. EmitsInv
  BY BoundsAssumption DEF SpreadInit, Init, EmitsInv, Offsets
<1>3. \A b, os : os \in SUBSET Offsets => Applied(b, os) = 0
  <2>1. ASSUME NEW b \in Branches, NEW os \in SUBSET Offsets PROVE Marks(written[b], os) = {}
    <3>1. \A o \in os, i \in PartIds : written[b][o][i] = 0
      BY DEF SpreadInit, Init
    <3>2. \A x : x \notin Marks(written[b], os)
      <4>1. PICK W : W = written[b]
        OBVIOUS
      <4>2. \A o \in os, i \in PartIds : 1..W[o][i] = {}
        BY <3>1, <4>1
      <4>3. \A x : x \notin Marks(W, os)
        BY <4>2, InMarks
      <4>4. QED
        BY <4>1, <4>3
    <3>3. QED
      BY <3>2
  <2>2. QED
    <3>1. Cardinality({}) = 0
      BY FS_EmptySet
    <3>2. \A b, os : Applied(b, os) = IF b \in Branches THEN Cardinality(Marks(written[b], os)) ELSE 0
      BY DEF Applied, Marks
    <3>3. QED
      BY <2>1, <3>1, <3>2
<1>4. Tables = [h \in Hashtags |-> [p \in Panels |-> [k \in Hours |-> 0]]]
  <2>1. ASSUME NEW h, NEW p, NEW k PROVE Applied(BranchOf(p), InRow(h, p, k)) = 0
    BY <1>1, <1>3, RowsIn DEF SpreadInv
  <2>2. QED
    BY <2>1, Zenon DEF Tables
<1>5. QED
  BY <1>1, <1>2, <1>4
     DEF SiteInv, SpreadInit, Site!PageInit, Panels, Site!Panels, Hours, Site!Hours, Site!NoRow

LEMMA SiteInvStep == SiteInv /\ [SpreadNext]_allVars => SiteInv'
<1> SUFFICES ASSUME SpreadInv, EmitsInv, [SpreadNext]_allVars PROVE SpreadInv' /\ EmitsInv'
  BY DEF SiteInv
<1>1. TypeOK
  BY DEF SpreadInv, TopologyInv
<1>2. ASSUME TopologyStep PROVE EmitsInv'
  BY <1>1, <1>2, EmitsStep DEF TopologyStep
<1>3. ASSUME UNCHANGED allVars \/ \E t \in Threads : ThreadStep(t) \/ DeliverStep(t) \/ LoseStep(t)
      PROVE  UNCHANGED <<emits, up, next, faults>>
  BY <1>3 DEF allVars, topologyVars, feed, ThreadStep, DeliverStep, LoseStep
<1>4. ASSUME NEW s \in Sessions, SessionStep(s) \/ SessionFails(s) \/ AskStep(s) \/ AskFails(s)
      PROVE  UNCHANGED <<emits, up, next, faults>>
  BY <1>4 DEF SessionStep, SessionFails, AskStep, AskFails, topologyVars, feed
<1>5. UNCHANGED <<emits, up, next, faults>> => EmitsInv'
  BY DEF EmitsInv
<1>6. EmitsInv'
  BY <1>2, <1>3, <1>4, <1>5 DEF SpreadNext
<1>7. QED
  BY <1>6, SpreadStep

\* What grows the topic.
LEMMA SiteSeesNoRecord ==
  ASSUME SpreadInv, SpreadInv', NEW t \in Threads, DeliverStep(t) \/ LoseStep(t)
  PROVE  UNCHANGED Site!pageVars
<1>1. UNCHANGED <<written, sessionVars>>
  BY DEF DeliverStep, LoseStep
<1>2. UNCHANGED Tables
  <2>1. /\ log \in Seq(Tweets) /\ Len(log) \in Nat /\ buffer[t] \in Seq(Tweets) /\ Len(buffer[t]) \in Nat
    BY DEF SpreadInv, ThreadInv, ThreadTypes
  <2>2. log' \in Seq(Tweets) /\ Len(log') <= MaxLog
    BY DEF SpreadInv, TopologyInv, TypeOK
  <2>3. CASE DeliverStep(t)
    <3>1. buffer[t] # <<>> /\ log' = Append(log, Head(buffer[t]))
      BY <2>3 DEF DeliverStep, Deliver
    <3>2. Len(log) <= Len(log') /\ \A o \in 1..Len(log) : log'[o] = log[o]
      BY <2>1, <3>1
    <3>3. QED
      BY <1>1, <2>2, <3>2, TablesGrow DEF SpreadInv
  <2>4. CASE LoseStep(t)
    <3>1. \E n \in 1..Len(buffer[t]) : log' \in {log, log \o SubSeq(buffer[t], 1, n)}
      BY <2>4 DEF LoseStep, Loses
    <3>2. PICK n \in 1..Len(buffer[t]) : log' \in {log, log \o SubSeq(buffer[t], 1, n)}
      BY <3>1
    <3>3. PICK q : q = SubSeq(buffer[t], 1, n)
      OBVIOUS
    <3>4. q \in Seq(Tweets) /\ Len(q) \in Nat
      BY <2>1, <3>3
    <3>5. Len(log) <= Len(log') /\ \A o \in 1..Len(log) : log'[o] = log[o]
      BY <2>1, <3>2, <3>3, <3>4
    <3>6. QED
      BY <1>1, <2>2, <3>5, TablesGrow DEF SpreadInv
  <2>5. QED
    BY <2>3, <2>4
<1>3. QED
  BY <1>1, <1>2 DEF Site!pageVars, Site!sessionVars, sessionVars

LEMMA SiteNext == SiteInv /\ SiteInv' /\ [SpreadNext]_allVars => [Site!PageNext]_(Site!pageVars)
<1> SUFFICES ASSUME SiteInv, SiteInv', [SpreadNext]_allVars
             PROVE  Site!PageNext \/ UNCHANGED Site!pageVars
  OBVIOUS
<1>1. TopologyInv /\ EmitsInv /\ AppliedFew'
  <2>1. (TopologyInv /\ EmitsInv => AppliedFew)'
    BY AppliedBound, PTL
  <2>2. QED
    BY <2>1 DEF SiteInv, SpreadInv
<1>2. UNCHANGED <<log, written, sessionVars>> => UNCHANGED Site!pageVars
  BY TablesStay DEF Site!pageVars, Site!sessionVars, sessionVars
<1>3. UNCHANGED allVars => UNCHANGED <<log, written, sessionVars>>
  BY DEF allVars, topologyVars
<1>4. CASE TopologyStep
  <2>1. UNCHANGED <<log, sessionVars>>
    BY <1>4, TopologyKeepsLog DEF TopologyStep
  <2>2. UNCHANGED written \/ \E c \in Branches, o \in Offsets, i \in PartIds : Write(c, o, i)
    BY <1>4 DEF TopologyStep, Topology, SpoutStep, BoltStep, Open, Crash, EmitNext, EmitRetry, Emit,
            Commit, Timeout, SpoutAck, JsonParse, JsonFail, BoltExecute, LoseWrite
  <2>3. ASSUME NEW c \in Branches, NEW o \in Offsets, NEW i \in PartIds, Write(c, o, i)
        PROVE  Site!PageNext \/ UNCHANGED Site!pageVars
    <3>1. \/ UNCHANGED Tables
          \/ \E h \in Hashtags, p \in Panels : \E k \in Site!RowsOf(p) :
               /\ Tables[h][p][k] < MaxUpdates
               /\ Tables' = [Tables EXCEPT ![h][p][k] = @ + 1]
      BY <1>1, <2>3, WriteTables
    <3>2. UNCHANGED Site!sessionVars
      BY <2>1 DEF Site!sessionVars, sessionVars
    <3>3. QED
      BY <3>1, <3>2 DEF Site!PageNext, Site!Update, Site!pageVars, Panels, Site!Panels
  <2>4. QED
    BY <1>2, <2>1, <2>2, <2>3
<1>5. ASSUME NEW t \in Threads, ThreadStep(t) PROVE UNCHANGED <<log, written, sessionVars>>
  BY <1>5 DEF ThreadStep, topologyVars
<1>6. ASSUME NEW t \in Threads, DeliverStep(t) \/ LoseStep(t) PROVE UNCHANGED Site!pageVars
  BY <1>6, SiteSeesNoRecord DEF SiteInv
<1>7. ASSUME NEW s \in Sessions, SessionStep(s) \/ SessionFails(s) \/ AskStep(s) \/ AskFails(s)
      PROVE  Site!PageNext
  <2>1. UNCHANGED <<log, written>>
    BY <1>7 DEF SessionStep, SessionFails, AskStep, AskFails, topologyVars
  <2>2. UNCHANGED Tables
    BY <2>1, TablesStay
  <2>3. Site!SiteStep
    BY <1>7 DEF SessionStep, SessionFails, AskStep, AskFails, Site!SiteStep
  <2>4. QED
    BY <2>2, <2>3 DEF Site!PageNext
<1>8. QED
  BY <1>2, <1>3, <1>4, <1>5, <1>6, <1>7 DEF SpreadNext

\* Topology, threads and sessions together are what SearchPage says of the site and
\* its tables: every step of theirs is one of it, or changes nothing of it.
THEOREM SiteRefinement == SpreadSpec => ImplementsSite
  BY SiteStart, SiteInvStep, SiteNext, PTL DEF SpreadSpec, ImplementsSite, Site!PageSpec
=============================================================================
