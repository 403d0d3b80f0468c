-------------------------- MODULE KafkaClient_proofs --------------------------
(***************************************************************************)
(* The bookkeeping of KafkaClient, proved for any brokers, threads and     *)
(* bounds: a request without a result is in one place, futures get their   *)
(* own answers, the selector fits the connections, and at most one refresh *)
(* of the metadata is on its way, as the flag says.                        *)
(***************************************************************************)
EXTENDS KafkaClient, FiniteSetTheorems, SequenceTheorems, TLAPS

-----------------------------------------------------------------------------
(* The inductive invariant. *)

\* Requests whose future is pending, and those of them that ask for metadata.
OpenIn(res)       == {id \in 1..Len(res) : res[id] = Pending}
AskingIn(req, os) == {id \in os : req[id].kind = "metadata"}

\* A sequence lists nothing twice; the requests of a queue of completions.
Once(q)  == \A i, j \in 1..Len(q) : q[i] = q[j] => i = j
IdsOf(q) == {q[i].id : i \in 1..Len(q)}
OnceIds(q) == \A i, j \in 1..Len(q) : q[i].id = q[j].id => i = j

\* The requests in flight of each connection, and the one each thread completes.
FlightIds == [n \in Nodes |-> Range(inFlight[n])]
FiringIds == [t \in Threads |-> firing[t].id]

\* The requests os are spread over the connections, the queue and the threads, each
\* in one of these.
Spread(F, P, G, os) ==
  /\ 0 \notin os
  /\ \A n \in Nodes : F[n] \subseteq os
  /\ P \subseteq os
  /\ \A t \in Threads : G[t] \in os \union {0}
  /\ \A n, m \in Nodes : n # m => F[n] \cap F[m] = {}
  /\ \A n \in Nodes : F[n] \cap P = {}
  /\ \A n \in Nodes : \A t \in Threads : G[t] \notin F[n]
  /\ \A t \in Threads : G[t] \notin P
  /\ \A t, u \in Threads : t # u /\ G[t] = G[u] => G[t] = 0
  /\ \A id \in os : \/ \E n \in Nodes : id \in F[n]
                    \/ id \in P
                    \/ \E t \in Threads : G[t] = id

Completions == [id : Nat, answer : Nat]

ConnTyped ==
  /\ state \in [Nodes -> {"disconnected", "connecting", "handshake", "authenticating", "connected"}]
  /\ auth \in [Nodes -> Int] /\ \A n \in Nodes : auth[n] \in {0, Stale} \union 1..Len(requests)
  /\ selector \in [Nodes -> {"none", "write", "read"}]
  /\ connecting \subseteq Nodes /\ refused \subseteq Nodes /\ torn \subseteq Nodes
  /\ inFlight \in [Nodes -> Seq(Nat)]
  /\ wire \in [Nodes -> Seq(Nat)] /\ answers \in [Nodes -> Seq(Nat)]

FutureTyped ==
  /\ requests \in Seq([kind : {"user", "metadata", "sasl"}, asks : BOOLEAN])
  /\ result \in Seq(Int) /\ Len(result) = Len(requests)
  /\ pending \in Seq(Completions)
  /\ firing \in [Threads -> Completions]

MetaTyped ==
  /\ inProgress \in BOOLEAN /\ topic \in BOOLEAN
  /\ updates \in Seq(BOOLEAN) /\ current \in Nat /\ current <= Len(updates)
  /\ pc \in [Waiters -> {"idle", "check", "wait", "done", "timeout"}]
  /\ waitsFor \in [Waiters -> Nat] /\ \A w \in Waiters : waitsFor[w] <= Len(updates)

\* What a connection has in flight is what was answered, then what the broker has;
\* more only where a write broke off.
Fits(f, p, q, whole) == \E rest \in Seq(Nat) : f = p \o (q \o rest) /\ (whole => rest = <<>>)

\* Requests and answers pair by their order, and completions carry their own answer.
Paired ==
  /\ \A id \in 1..Len(result) : result[id] \in {Pending, Failed, id}
  /\ \A n \in Nodes : Fits(inFlight[n], answers[n], wire[n], n \notin torn)
  /\ \A i \in 1..Len(pending) : pending[i].answer = pending[i].id
  /\ \A t \in Threads : firing[t].answer = firing[t].id

\* Each request without a result is listed once, in one place.
Placed ==
  /\ \A n \in Nodes : Once(inFlight[n])
  /\ OnceIds(pending)
  /\ Spread(FlightIds, IdsOf(pending), FiringIds, OpenIn(result))

\* The flag says whether a metadata request is on its way, and before a connection
\* is complete it carries nothing but its handshake.
Refreshing ==
  /\ IF inProgress THEN \E x : AskingIn(requests, OpenIn(result)) = {x}
                   ELSE AskingIn(requests, OpenIn(result)) = {}
  /\ \A n \in Nodes : state[n] # "connected" =>
       \A id \in Range(inFlight[n]) : requests[id].kind = "sasl"

IInv == /\ ConnTyped /\ FutureTyped /\ MetaTyped
        /\ Paired /\ Placed /\ SelectorFits /\ Refreshing

-----------------------------------------------------------------------------
(* Sequences and their elements. *)

LEMMA RangeIs ==
  ASSUME NEW S, NEW q \in Seq(S)
  PROVE  Range(q) = {q[i] : i \in 1..Len(q)}
BY LenProperties DEF Range

LEMMA AppendRange ==
  ASSUME NEW S, NEW q \in Seq(S), NEW x \in S
  PROVE  Range(Append(q, x)) = Range(q) \union {x}
<1>1. /\ Append(q, x) \in Seq(S) /\ Len(Append(q, x)) = Len(q) + 1
      /\ \A i \in 1..Len(q) : Append(q, x)[i] = q[i]
      /\ Append(q, x)[Len(q) + 1] = x /\ Len(q) \in Nat
  BY AppendProperties, LenProperties
<1>2. /\ Range(q) = {q[i] : i \in 1..Len(q)}
      /\ Range(Append(q, x)) = {Append(q, x)[i] : i \in 1..(Len(q) + 1)}
  BY RangeIs, <1>1
<1>3. 1..(Len(q) + 1) = 1..Len(q) \union {Len(q) + 1}
  BY <1>1
<1> QED BY <1>1, <1>2, <1>3

LEMMA AppendOnce ==
  ASSUME NEW S, NEW q \in Seq(S), NEW x \in S, Once(q), x \notin Range(q)
  PROVE  Once(Append(q, x))
<1>1. /\ Len(Append(q, x)) = Len(q) + 1
      /\ \A i \in 1..Len(q) : Append(q, x)[i] = q[i]
      /\ Append(q, x)[Len(q) + 1] = x /\ Len(q) \in Nat
  BY AppendProperties, LenProperties
<1>2. \A i \in 1..Len(q) : q[i] # x
  BY RangeIs
<1> QED BY <1>1, <1>2 DEF Once

\* The first elements of a concatenation are those of its first part.
LEMMA ConcatDrops ==
  ASSUME NEW S, NEW p \in Seq(S), NEW q \in Seq(S)
  PROVE  /\ Len(p \o q) \in Nat /\ Len(p) <= Len(p \o q)
         /\ \A i \in 1..Len(p) : (p \o q)[i] = p[i]
         /\ \A k \in 1..Len(p) :
              SubSeq(p \o q, k + 1, Len(p \o q)) = SubSeq(p, k + 1, Len(p)) \o q
         /\ p # <<>> => p \o q # <<>>
<1>1. /\ p \o q \in Seq(S) /\ Len(p \o q) = Len(p) + Len(q)
      /\ \A i \in 1..(Len(p) + Len(q)) :
            (p \o q)[i] = IF i <= Len(p) THEN p[i] ELSE q[i - Len(p)]
      /\ Len(p) \in Nat /\ Len(q) \in Nat
  BY ConcatProperties, LenProperties
<1>2. ASSUME NEW k \in 1..Len(p)
      PROVE  SubSeq(p \o q, k + 1, Len(p \o q)) = SubSeq(p, k + 1, Len(p)) \o q
  <2> DEFINE a == SubSeq(p \o q, k + 1, Len(p \o q))
             d == SubSeq(p, k + 1, Len(p))
  <2>1. /\ a \in Seq(S) /\ Len(a) = Len(p) + Len(q) - k
        /\ \A i \in 1..(Len(p) + Len(q) - k) : a[i] = (p \o q)[k + i]
    BY <1>1, SubSeqProperties
  <2>2. /\ d \in Seq(S) /\ Len(d) = Len(p) - k
        /\ \A i \in 1..(Len(p) - k) : d[i] = p[k + i]
    BY <1>1, SubSeqProperties
  <2> HIDE DEF a, d
  <2>3. /\ d \o q \in Seq(S) /\ Len(d \o q) = Len(p) - k + Len(q)
        /\ \A i \in 1..(Len(p) - k + Len(q)) :
              (d \o q)[i] = IF i <= Len(p) - k THEN d[i] ELSE q[i - (Len(p) - k)]
    <3>1. /\ d \o q \in Seq(S) /\ Len(d \o q) = Len(d) + Len(q)
          /\ \A i \in 1..(Len(d) + Len(q)) :
               (d \o q)[i] = IF i <= Len(d) THEN d[i] ELSE q[i - Len(d)]
      BY <2>2, ConcatProperties
    <3>2. Len(d) = Len(p) - k
      BY <2>2
    <3> QED BY <3>1, <3>2
  <2>4. ASSUME NEW i \in 1..Len(a) PROVE a[i] = (d \o q)[i]
    <3>1. a[i] = IF k + i <= Len(p) THEN p[k + i] ELSE q[k + i - Len(p)]
      BY <1>1, <2>1, <2>4
    <3>2. (d \o q)[i] = IF i <= Len(p) - k THEN p[k + i] ELSE q[i - (Len(p) - k)]
      BY <1>1, <2>1, <2>2, <2>3, <2>4
    <3>3. k + i - Len(p) = i - (Len(p) - k) /\ (k + i <= Len(p) <=> i <= Len(p) - k)
      BY <1>1, <2>1
    <3> QED BY <3>1, <3>2, <3>3
  <2>5. Len(a) = Len(d \o q)
    BY <1>1, <2>1, <2>3
  <2>6. a = d \o q
    BY <2>1, <2>3, <2>4, <2>5, SeqEqual
  <2> QED BY <2>6 DEF a, d
<1>3. p # <<>> => p \o q # <<>>
  BY ConcatEqualIffEmpty
<1>4. Len(p \o q) \in Nat /\ Len(p) <= Len(p \o q)
  BY <1>1
<1>5. \A i \in 1..Len(p) : (p \o q)[i] = p[i]
  BY <1>1
<1> QED BY <1>2, <1>3, <1>4, <1>5

\* What is left of a sequence that lists nothing twice when its first k are taken.
LEMMA DropFirst ==
  ASSUME NEW S, NEW q \in Seq(S), Once(q), NEW k \in 1..Len(q)
  PROVE  /\ SubSeq(q, k + 1, Len(q)) \in Seq(S)
         /\ Once(SubSeq(q, k + 1, Len(q)))
         /\ Range(SubSeq(q, k + 1, Len(q))) = Range(q) \ {q[i] : i \in 1..k}
<1> DEFINE r == SubSeq(q, k + 1, Len(q))
<1>0. Len(q) \in Nat
  BY LenProperties
<1>1. r \in Seq(S)
  BY <1>0, SubSeqProperties
<1>2. Len(r) = Len(q) - k /\ \A i \in 1..(Len(q) - k) : r[i] = q[k + i]
  BY <1>0, SubSeqProperties
<1>3. Range(q) = {q[i] : i \in 1..Len(q)} /\ Range(r) = {r[i] : i \in 1..Len(r)}
  BY RangeIs, <1>1
<1>4. Once(r)
  BY <1>0, <1>2 DEF Once
<1>5. ASSUME NEW x \in Range(r) PROVE x \in Range(q) \ {q[i] : i \in 1..k}
  <2>1. PICK i \in 1..Len(r) : x = r[i]
    BY <1>3
  <2>2. x = q[k + i] /\ k + i \in 1..Len(q)
    BY <2>1, <1>2, <1>0
  <2>3. \A j \in 1..k : q[j] # x
    BY <2>1, <2>2, <1>0 DEF Once
  <2> QED BY <2>2, <2>3, <1>3
<1>6. ASSUME NEW x \in Range(q), x \notin {q[i] : i \in 1..k} PROVE x \in Range(r)
  <2>1. PICK i \in 1..Len(q) : x = q[i]
    BY <1>3
  <2>2. i > k
    BY <2>1, <1>6, <1>0
  <2>3. i - k \in 1..Len(r) /\ r[i - k] = q[i]
    BY <2>2, <1>0, <1>2
  <2> QED BY <2>1, <2>3, <1>3
<1> QED BY <1>1, <1>4, <1>5, <1>6

LEMMA TailDrops ==
  ASSUME NEW S, NEW q \in Seq(S), Once(q), q # <<>>
  PROVE  /\ Tail(q) \in Seq(S) /\ Head(q) \in Range(q) /\ Head(q) \in S
         /\ Once(Tail(q))
         /\ Range(Tail(q)) = Range(q) \ {Head(q)}
<1>1. /\ 1 \in 1..Len(q) /\ Len(q) \in Nat
      /\ Head(q) = q[1] /\ Head(q) \in S
  BY HeadTailProperties, LenProperties, EmptySeq
<1>2. Tail(q) = SubSeq(q, 1 + 1, Len(q))
  BY TailIsSubSeq
<1>3. {q[i] : i \in 1..1} = {Head(q)}
  BY <1>1
<1>4. Head(q) \in Range(q)
  BY <1>1, RangeIs
<1> QED BY <1>1, <1>2, <1>3, <1>4, DropFirst

\* The first completion leaves the queue.
LEMMA TailIds ==
  ASSUME NEW S, NEW q \in Seq(S), OnceIds(q), q # <<>>
  PROVE  /\ Tail(q) \in Seq(S) /\ Head(q) \in S /\ Head(q).id \in IdsOf(q)
         /\ \A i \in 1..Len(Tail(q)) : Tail(q)[i] = q[i + 1] /\ i + 1 \in 1..Len(q)
         /\ Head(q) = q[1] /\ 1 \in 1..Len(q)
         /\ OnceIds(Tail(q))
         /\ IdsOf(Tail(q)) = IdsOf(q) \ {Head(q).id}
<1>1. /\ 1 \in 1..Len(q) /\ Len(q) \in Nat
      /\ Head(q) = q[1] /\ Head(q) \in S
      /\ Tail(q) \in Seq(S) /\ Len(Tail(q)) = Len(q) - 1
      /\ \A i \in 1..Len(Tail(q)) : Tail(q)[i] = q[i + 1]
  BY HeadTailProperties, LenProperties, EmptySeq
<1>2. \A i \in 1..Len(Tail(q)) : i + 1 \in 1..Len(q)
  BY <1>1
<1>3. OnceIds(Tail(q))
  BY <1>1, <1>2 DEF OnceIds
<1>4. ASSUME NEW x \in IdsOf(Tail(q)) PROVE x \in IdsOf(q) \ {Head(q).id}
  <2>1. PICK i \in 1..Len(Tail(q)) : x = Tail(q)[i].id
    BY DEF IdsOf
  <2>2. x = q[i + 1].id /\ i + 1 \in 1..Len(q) /\ i + 1 # 1
    BY <2>1, <1>1, <1>2
  <2>3. x # q[1].id
    BY <2>2, <1>1 DEF OnceIds
  <2> QED BY <2>2, <2>3, <1>1 DEF IdsOf
<1>5. ASSUME NEW x \in IdsOf(q), x # Head(q).id PROVE x \in IdsOf(Tail(q))
  <2>1. PICK i \in 1..Len(q) : x = q[i].id
    BY DEF IdsOf
  <2>2. i # 1
    BY <2>1, <1>5, <1>1
  <2>3. i - 1 \in 1..Len(Tail(q)) /\ Tail(q)[i - 1] = q[i]
    BY <2>2, <1>1
  <2> QED BY <2>1, <2>3 DEF IdsOf
<1>6. Head(q).id \in IdsOf(q)
  BY <1>1 DEF IdsOf
<1> QED BY <1>1, <1>2, <1>3, <1>4, <1>5, <1>6

\* Answered requests, which the queue does not hold, join it.
LEMMA QueueGrows ==
  ASSUME NEW q \in Seq(Completions), NEW r \in Seq(Completions),
         OnceIds(q), OnceIds(r), IdsOf(q) \cap IdsOf(r) = {}
  PROVE  /\ q \o r \in Seq(Completions)
         /\ OnceIds(q \o r)
         /\ IdsOf(q \o r) = IdsOf(q) \union IdsOf(r)
         /\ \A i \in 1..Len(q \o r) : \/ i \in 1..Len(q) /\ (q \o r)[i] = q[i]
                                      \/ i - Len(q) \in 1..Len(r) /\ (q \o r)[i] = r[i - Len(q)]
<1>1. /\ q \o r \in Seq(Completions) /\ Len(q \o r) = Len(q) + Len(r)
      /\ \A i \in 1..(Len(q) + Len(r)) :
            (q \o r)[i] = IF i <= Len(q) THEN q[i] ELSE r[i - Len(q)]
      /\ Len(q) \in Nat /\ Len(r) \in Nat
  BY ConcatProperties, LenProperties
<1>2. \A i \in 1..Len(q \o r) : \/ i \in 1..Len(q) /\ (q \o r)[i] = q[i]
                                \/ i - Len(q) \in 1..Len(r) /\ (q \o r)[i] = r[i - Len(q)]
  BY <1>1
<1>3. IdsOf(q \o r) \subseteq IdsOf(q) \union IdsOf(r)
  BY <1>2 DEF IdsOf
<1>4. IdsOf(q) \subseteq IdsOf(q \o r)
  <2> SUFFICES ASSUME NEW i \in 1..Len(q) PROVE q[i].id \in IdsOf(q \o r)
    BY DEF IdsOf
  <2>1. i \in 1..Len(q \o r) /\ (q \o r)[i] = q[i]
    BY <1>1
  <2> QED BY <2>1 DEF IdsOf
<1>5. IdsOf(r) \subseteq IdsOf(q \o r)
  <2> SUFFICES ASSUME NEW i \in 1..Len(r) PROVE r[i].id \in IdsOf(q \o r)
    BY DEF IdsOf
  <2>1. i + Len(q) \in 1..Len(q \o r) /\ (q \o r)[i + Len(q)] = r[i]
    BY <1>1
  <2> QED BY <2>1 DEF IdsOf
<1>6. ASSUME NEW i \in 1..Len(q \o r), NEW j \in 1..Len(q \o r),
             (q \o r)[i].id = (q \o r)[j].id
      PROVE  i = j
  <2>1. ASSUME i \in 1..Len(q), j \in 1..Len(q) PROVE i = j
    BY <2>1, <1>1, <1>6 DEF OnceIds
  <2>2. ASSUME i - Len(q) \in 1..Len(r), j - Len(q) \in 1..Len(r) PROVE i = j
    <3>1. (q \o r)[i] = r[i - Len(q)] /\ (q \o r)[j] = r[j - Len(q)]
      BY <2>2, <1>1
    <3>2. i - Len(q) = j - Len(q)
      BY <3>1, <2>2, <1>6 DEF OnceIds
    <3> QED BY <3>2, <1>1
  <2>3. ASSUME NEW a \in 1..Len(q), NEW b \in 1..Len(r) PROVE q[a].id # r[b].id
    BY DEF IdsOf
  <2> QED BY <2>1, <2>2, <2>3, <1>2, <1>6
<1> QED BY <1>1, <1>2, <1>3, <1>4, <1>5, <1>6 DEF OnceIds

-----------------------------------------------------------------------------
(* The requests whose future is pending. *)

LEMMA OpenAdds ==
  ASSUME NEW res \in Seq(Int), NEW r \in Int
  PROVE  /\ Append(res, r) \in Seq(Int) /\ Len(Append(res, r)) = Len(res) + 1
         /\ Len(res) + 1 \notin OpenIn(res) /\ Len(res) + 1 \in Nat
         /\ \A id \in 1..Len(res) : Append(res, r)[id] = res[id]
         /\ Append(res, r)[Len(res) + 1] = r
         /\ r = Pending => OpenIn(Append(res, r)) = OpenIn(res) \union {Len(res) + 1}
         /\ r # Pending => OpenIn(Append(res, r)) = OpenIn(res)
<1>1. /\ Append(res, r) \in Seq(Int) /\ Len(Append(res, r)) = Len(res) + 1
      /\ \A i \in 1..Len(res) : Append(res, r)[i] = res[i]
      /\ Append(res, r)[Len(res) + 1] = r /\ Len(res) \in Nat
  BY AppendProperties, LenProperties
<1>2. 1..(Len(res) + 1) = 1..Len(res) \union {Len(res) + 1} /\ Len(res) + 1 \notin 1..Len(res)
  BY <1>1
<1> QED BY <1>1, <1>2 DEF OpenIn

LEMMA OpenFails ==
  ASSUME NEW res \in Seq(Int), NEW ids
  PROVE  LET r == [id \in DOMAIN res |-> IF id \in ids THEN Failed ELSE res[id]]
         IN  r \in Seq(Int) /\ Len(r) = Len(res) /\ OpenIn(r) = OpenIn(res) \ ids
<1> DEFINE r == [id \in DOMAIN res |-> IF id \in ids THEN Failed ELSE res[id]]
<1>1. /\ DOMAIN res = 1..Len(res) /\ Len(res) \in Nat
      /\ \A i \in 1..Len(res) : res[i] \in Int
  BY LenProperties, ElementOfSeq
<1>2. r \in [1..Len(res) -> Int]
  BY <1>1 DEF Failed
<1>3. r \in Seq(Int) /\ Len(r) = Len(res)
  BY <1>1, <1>2, SeqDef, LenProperties
<1>4. OpenIn(r) = OpenIn(res) \ ids
  BY <1>1, <1>3 DEF OpenIn, Failed, Pending
<1> QED BY <1>3, <1>4

LEMMA OpenEnds ==
  ASSUME NEW res \in Seq(Int), NEW x \in OpenIn(res), NEW r \in Int, r # Pending
  PROVE  /\ [res EXCEPT ![x] = r] \in Seq(Int) /\ Len([res EXCEPT ![x] = r]) = Len(res)
         /\ OpenIn([res EXCEPT ![x] = r]) = OpenIn(res) \ {x}
<1>1. x \in 1..Len(res) /\ DOMAIN res = 1..Len(res)
  BY LenProperties DEF OpenIn
<1>2. [res EXCEPT ![x] = r] \in Seq(Int) /\ Len([res EXCEPT ![x] = r]) = Len(res)
  BY <1>1, ExceptSeq
<1>3. \A i \in 1..Len(res) : [res EXCEPT ![x] = r][i] = IF i = x THEN r ELSE res[i]
  BY <1>1
<1> QED BY <1>1, <1>2, <1>3 DEF OpenIn

-----------------------------------------------------------------------------
(* What happens to a request, as far as its place goes. *)

\* The request x joins those of connection n; the requests S leave it.
Joined(F, H, n, x) == \A m \in Nodes : H[m] = IF m = n THEN F[m] \union {x} ELSE F[m]
Left(F, H, n, S)   == \A m \in Nodes : H[m] = IF m = n THEN F[m] \ S ELSE F[m]

\* It is written to a connection,
LEMMA SpreadSent ==
  ASSUME NEW F, NEW H, NEW P, NEW G, NEW os, Spread(F, P, G, os),
         NEW n \in Nodes, NEW x, x \notin os, x # 0,
         Joined(F, H, n, x)
  PROVE  Spread(H, P, G, os \union {x})
<1>1. \A t \in Threads : G[t] # x
  BY DEF Spread
<1>2. \A m \in Nodes : F[m] \subseteq os /\ x \notin F[m] /\ x \notin P
  BY DEF Spread
<1>0. /\ \A m \in Nodes : m # n => H[m] = F[m]
      /\ H[n] = F[n] \union {x}
  BY DEF Joined
<1>3. \A m \in Nodes : H[m] \subseteq os \union {x} /\ H[m] \cap P = {}
  <2>1. H[n] \subseteq os \union {x} /\ H[n] \cap P = {}
    BY <1>0, <1>2 DEF Spread
  <2>2. ASSUME NEW m \in Nodes, m # n PROVE H[m] \subseteq os \union {x} /\ H[m] \cap P = {}
    BY <1>0, <1>2, <2>2 DEF Spread
  <2> QED BY <2>1, <2>2
<1>4. ASSUME NEW m \in Nodes, NEW k \in Nodes, m # k PROVE H[m] \cap H[k] = {}
  <2>1. F[m] \cap F[k] = {} /\ x \notin F[m] /\ x \notin F[k]
    BY <1>2, <1>4 DEF Spread
  <2>2. H[m] = F[m] \/ H[k] = F[k]
    BY <1>0, <1>4
  <2>3. H[m] \subseteq F[m] \union {x} /\ H[k] \subseteq F[k] \union {x}
    BY <1>0
  <2> QED BY <2>1, <2>2, <2>3
<1>5. ASSUME NEW m \in Nodes, NEW t \in Threads PROVE G[t] \notin H[m]
  <2>1. G[t] \notin F[m] /\ G[t] # x
    BY <1>1 DEF Spread
  <2> QED BY <1>0, <2>1
<1>6. x \in H[n] /\ \A m \in Nodes : F[m] \subseteq H[m]
  BY DEF Joined
<1>7. \A id \in os \union {x} : \/ \E m \in Nodes : id \in H[m]
                               \/ id \in P \/ \E t \in Threads : G[t] = id
  BY <1>6 DEF Spread
<1> QED BY <1>1, <1>3, <1>4, <1>5, <1>7 DEF Spread

\* the requests S of a connection end,
LEMMA SpreadEnded ==
  ASSUME NEW F, NEW H, NEW P, NEW G, NEW os, Spread(F, P, G, os),
         NEW n \in Nodes, NEW S, S \subseteq F[n],
         Left(F, H, n, S)
  PROVE  Spread(H, P, G, os \ S)
<1>1. \A m \in Nodes : m # n => F[m] \cap S = {}
  BY DEF Spread
<1>2. P \cap S = {} /\ \A t \in Threads : G[t] \notin S
  BY DEF Spread
<1>3. \A m \in Nodes : H[m] \subseteq F[m] /\ H[m] \cap S = {}
  BY <1>1 DEF Left
<1>4. \A m \in Nodes : \A id \in F[m] : id \in S \/ id \in H[m]
  BY DEF Left
<1>5. \A id \in os \ S : \/ \E m \in Nodes : id \in H[m]
                        \/ id \in P \/ \E t \in Threads : G[t] = id
  BY <1>4 DEF Spread
<1>6. \A t \in Threads : G[t] \in (os \ S) \union {0}
  BY <1>2 DEF Spread
<1>7. \A m \in Nodes : H[m] \subseteq os \ S /\ H[m] \cap P = {}
  BY <1>3 DEF Spread
<1>8. \A m, k \in Nodes : m # k => H[m] \cap H[k] = {}
  BY <1>3 DEF Spread
<1>9. \A m \in Nodes : \A t \in Threads : G[t] \notin H[m]
  BY <1>3 DEF Spread
<1> QED BY <1>2, <1>5, <1>6, <1>7, <1>8, <1>9 DEF Spread

\* or are answered and join the queue;
LEMMA SpreadQueued ==
  ASSUME NEW F, NEW H, NEW P, NEW G, NEW os, Spread(F, P, G, os),
         NEW n \in Nodes, NEW S, S \subseteq F[n],
         Left(F, H, n, S)
  PROVE  Spread(H, P \union S, G, os) /\ P \cap S = {}
<1>1. \A m \in Nodes : m # n => F[m] \cap S = {}
  BY DEF Spread
<1>2. P \cap S = {} /\ \A t \in Threads : G[t] \notin S
  BY DEF Spread
<1>3. \A m \in Nodes : H[m] \subseteq F[m] /\ H[m] \cap S = {}
  BY <1>1 DEF Left
<1>4. \A m \in Nodes : \A id \in F[m] : id \in S \/ id \in H[m]
  BY DEF Left
<1>5. \A id \in os : \/ \E m \in Nodes : id \in H[m]
                    \/ id \in P \union S \/ \E t \in Threads : G[t] = id
  BY <1>4 DEF Spread
<1>6. P \union S \subseteq os
  BY DEF Spread
<1>7. \A m \in Nodes : H[m] \subseteq os /\ H[m] \cap (P \union S) = {}
  BY <1>3 DEF Spread
<1>8. \A m, k \in Nodes : m # k => H[m] \cap H[k] = {}
  BY <1>3 DEF Spread
<1>9. \A m \in Nodes : \A t \in Threads : G[t] \notin H[m]
  BY <1>3 DEF Spread
<1> QED BY <1>2, <1>5, <1>6, <1>7, <1>8, <1>9 DEF Spread

\* a thread takes one out of the queue
LEMMA SpreadTaken ==
  ASSUME NEW F, NEW P, NEW G, NEW H, NEW os, Spread(F, P, G, os),
         NEW t \in Threads, NEW x \in P, G[t] = 0,
         \A u \in Threads : H[u] = IF u = t THEN x ELSE G[u]
  PROVE  Spread(F, P \ {x}, H, os)
<1>1. x \in os /\ x # 0
  BY DEF Spread
<1>2. \A u \in Threads : G[u] # x
  BY DEF Spread
<1>3. \A u \in Threads : H[u] \in os \union {0} /\ H[u] \notin P \ {x}
  BY <1>1, <1>2 DEF Spread
<1>4. \A n \in Nodes : x \notin F[n]
  BY DEF Spread
<1>5. \A n \in Nodes : \A u \in Threads : H[u] \notin F[n]
  BY <1>4 DEF Spread
<1>6. \A u, v \in Threads : u # v /\ H[u] = H[v] => H[u] = 0
  BY <1>2 DEF Spread
<1>7. \A id \in os : \/ \E n \in Nodes : id \in F[n]
                    \/ id \in P \ {x} \/ \E u \in Threads : H[u] = id
  BY DEF Spread
<1> QED BY <1>3, <1>5, <1>6, <1>7 DEF Spread

\* and completes its future.
LEMMA SpreadFired ==
  ASSUME NEW F, NEW P, NEW G, NEW H, NEW os, Spread(F, P, G, os),
         NEW t \in Threads, G[t] # 0,
         \A u \in Threads : H[u] = IF u = t THEN 0 ELSE G[u]
  PROVE  Spread(F, P, H, os \ {G[t]}) /\ G[t] \in os
<1>1. G[t] \in os
  BY DEF Spread
<1>2. \A u \in Threads : u # t => G[u] # G[t]
  BY DEF Spread
<1>3. G[t] \notin P /\ \A n \in Nodes : G[t] \notin F[n]
  BY DEF Spread
<1>4. \A u \in Threads : H[u] \in (os \ {G[t]}) \union {0}
  BY <1>2 DEF Spread
<1>5. \A n \in Nodes : F[n] \subseteq os \ {G[t]}
  BY <1>3 DEF Spread
<1>6. P \subseteq os \ {G[t]}
  BY <1>3 DEF Spread
<1>7. \A u \in Threads : H[u] \notin P /\ \A n \in Nodes : H[u] \notin F[n]
  BY DEF Spread
<1>8. \A id \in os \ {G[t]} : \/ \E n \in Nodes : id \in F[n]
                              \/ id \in P \/ \E u \in Threads : H[u] = id
  BY DEF Spread
<1>9. \A u, v \in Threads : u # v /\ H[u] = H[v] => H[u] = 0
  BY DEF Spread
<1> QED BY <1>1, <1>4, <1>5, <1>6, <1>7, <1>8, <1>9 DEF Spread

-----------------------------------------------------------------------------
(* What a connection has in flight. *)

\* The first k of a sequence are those of its first part.
FirstOf(k, p, q, f) ==
  /\ k \in 1..Len(f)
  /\ \A i \in 1..k : f[i] = p[i] /\ f[i] \in Nat
  /\ SubSeq(f, k + 1, Len(f)) = SubSeq(p, k + 1, Len(p)) \o q

\* What a connection has been asked is what has been answered, then the rest.
LEMMA PairDrops ==
  ASSUME NEW p \in Seq(Nat), NEW q \in Seq(Nat), NEW f \in Seq(Nat), f = p \o q,
         NEW k \in 1..Len(p)
  PROVE  FirstOf(k, p, q, f)
<1>1. /\ Len(f) \in Nat /\ Len(p) <= Len(f) /\ Len(p) \in Nat
      /\ \A i \in 1..Len(p) : f[i] = p[i]
  <2>1. Len(p \o q) \in Nat /\ Len(p) <= Len(p \o q) /\ \A i \in 1..Len(p) : (p \o q)[i] = p[i]
    BY ConcatDrops
  <2> QED BY <2>1, LenProperties
<1>2. \A i \in 1..k : i \in 1..Len(p) /\ i \in 1..Len(f)
  BY <1>1
<1>3. k \in 1..Len(f)
  BY <1>2
<1>4. \A i \in 1..k : f[i] \in Nat
  BY <1>2, ElementOfSeq
<1>5. SubSeq(f, k + 1, Len(f)) = SubSeq(p, k + 1, Len(p)) \o q
  <2>1. SubSeq(p \o q, k + 1, Len(p \o q)) = SubSeq(p, k + 1, Len(p)) \o q
    BY ConcatDrops
  <2> QED BY <2>1
<1> QED BY <1>1, <1>2, <1>3, <1>4, <1>5 DEF FirstOf

LEMMA PairTails ==
  ASSUME NEW p \in Seq(Nat), NEW q \in Seq(Nat), NEW f \in Seq(Nat), f = p \o q, p # <<>>
  PROVE  f # <<>> /\ Head(f) = Head(p) /\ Tail(f) = Tail(p) \o q
<1>1. f # <<>>
  BY ConcatEqualIffEmpty
<1>2. 1 \in 1..Len(p) /\ 1 + 1 = 2
  BY EmptySeq, LenProperties
<1>3. f[1] = p[1] /\ SubSeq(f, 2, Len(f)) = SubSeq(p, 2, Len(p)) \o q
  <2>1. f[1] = p[1] /\ SubSeq(f, 1 + 1, Len(f)) = SubSeq(p, 1 + 1, Len(p)) \o q
    <3>1. FirstOf(1, p, q, f)
      BY <1>2, PairDrops
    <3>2. 1 \in 1..1
      OBVIOUS
    <3> QED BY <3>1, <3>2, Zenon DEF FirstOf
  <2> QED BY <2>1, <1>2
<1>4. Head(f) = f[1] /\ Head(p) = p[1]
  BY <1>1
<1>5. Tail(f) = SubSeq(f, 2, Len(f)) /\ Tail(p) = SubSeq(p, 2, Len(p))
  BY <1>1, TailIsSubSeq, Zenon
<1> QED BY <1>1, <1>3, <1>4, <1>5, Zenon

\* Three parts of a sequence.
LEMMA ThreeParts ==
  ASSUME NEW p \in Seq(Nat), NEW q \in Seq(Nat), NEW r \in Seq(Nat)
  PROVE  (p \o q) \o r = p \o (q \o r)
BY ConcatAssociative

LEMMA ConcatAppends ==
  ASSUME NEW p \in Seq(Nat), NEW q \in Seq(Nat), NEW x \in Nat
  PROVE  Append(p \o q, x) = p \o Append(q, x)
<1>1. p \o q \in Seq(Nat) /\ <<x>> \in Seq(Nat)
  BY ConcatProperties
<1>2. Append(p \o q, x) = (p \o q) \o <<x>> /\ Append(q, x) = q \o <<x>>
  BY <1>1, AppendIsConcat
<1>3. (p \o q) \o <<x>> = p \o (q \o <<x>>)
  BY <1>1, ConcatAssociative
<1> QED BY <1>2, <1>3

LEMMA HeadMoves ==
  ASSUME NEW p \in Seq(Nat), NEW q \in Seq(Nat), q # <<>>
  PROVE  p \o q = Append(p, Head(q)) \o Tail(q)
<1>1. /\ Head(q) \in Nat /\ Tail(q) \in Seq(Nat) /\ Len(Tail(q)) = Len(q) - 1
      /\ \A i \in 1..Len(Tail(q)) : Tail(q)[i] = q[i + 1]
      /\ Head(q) = q[1] /\ Len(q) \in Nat /\ Len(q) # 0
  BY HeadTailProperties, LenProperties, EmptySeq
<1>2. <<Head(q)>> \in Seq(Nat) /\ Len(<<Head(q)>>) = 1 /\ <<Head(q)>>[1] = Head(q)
  BY <1>1
<1> DEFINE c == <<Head(q)>> \o Tail(q)
<1>3. /\ c \in Seq(Nat) /\ Len(c) = 1 + Len(Tail(q))
      /\ \A i \in 1..(1 + Len(Tail(q))) : c[i] = IF i <= 1 THEN <<Head(q)>>[i] ELSE Tail(q)[i - 1]
  <2>1. /\ c \in Seq(Nat) /\ Len(c) = Len(<<Head(q)>>) + Len(Tail(q))
        /\ \A i \in 1..(Len(<<Head(q)>>) + Len(Tail(q))) :
             c[i] = IF i <= Len(<<Head(q)>>) THEN <<Head(q)>>[i] ELSE Tail(q)[i - Len(<<Head(q)>>)]
    BY <1>1, <1>2, ConcatProperties
  <2> QED BY <2>1, <1>2
<1> HIDE DEF c
<1>4. Len(c) = Len(q)
  BY <1>1, <1>3
<1>5. ASSUME NEW i \in 1..Len(c) PROVE c[i] = q[i]
  <2>1. CASE i = 1
    BY <2>1, <1>1, <1>2, <1>3
  <2>2. CASE i # 1
    <3>1. c[i] = Tail(q)[i - 1] /\ i - 1 \in 1..Len(Tail(q)) /\ i - 1 + 1 = i
      BY <2>2, <1>1, <1>3
    <3> QED BY <3>1, <1>1
  <2> QED BY <2>1, <2>2
<1>6. c = q
  BY <1>3, <1>4, <1>5, SeqEqual
<1>7. Append(p, Head(q)) = p \o <<Head(q)>>
  BY <1>1, AppendIsConcat
<1>8. (p \o <<Head(q)>>) \o Tail(q) = p \o (<<Head(q)>> \o Tail(q))
  BY <1>1, <1>2, ConcatAssociative
<1> QED BY <1>6, <1>7, <1>8 DEF c

\* Nothing fits nothing; what fits still does when a write breaks off.
LEMMA FitsEmpty ==
  ASSUME NEW w
  PROVE  Fits(<<>>, <<>>, <<>>, w)
<1>1. <<>> \in Seq(Nat) /\ <<>> = <<>> \o (<<>> \o <<>>)
  BY ConcatEmptySeq
<1> QED BY <1>1 DEF Fits

LEMMA FitsLess ==
  ASSUME NEW f, NEW p, NEW q, NEW w, Fits(f, p, q, w), NEW v, v => w
  PROVE  Fits(f, p, q, v)
BY DEF Fits

\* A request is sent, where the broker reads it,
LEMMA FitsSent ==
  ASSUME NEW f \in Seq(Nat), NEW p \in Seq(Nat), NEW q \in Seq(Nat), NEW x \in Nat,
         NEW w, w, Fits(f, p, q, w)
  PROVE  Fits(Append(f, x), p, Append(q, x), w)
<1>1. f = p \o (q \o <<>>)
  BY DEF Fits
<1>2. f = p \o q /\ Append(q, x) \in Seq(Nat)
  BY <1>1, ConcatEmptySeq, AppendProperties
<1>3. Append(f, x) = p \o Append(q, x)
  BY <1>2, ConcatAppends
<1>4. Append(f, x) = p \o (Append(q, x) \o <<>>) /\ <<>> \in Seq(Nat)
  BY <1>2, <1>3, ConcatEmptySeq
<1> QED BY <1>4 DEF Fits

\* and where it does not.
LEMMA FitsUnread ==
  ASSUME NEW f \in Seq(Nat), NEW p \in Seq(Nat), NEW q \in Seq(Nat), NEW x \in Nat,
         NEW w, ~w, Fits(f, p, q, w)
  PROVE  Fits(Append(f, x), p, q, w)
<1>1. PICK rest \in Seq(Nat) : f = p \o (q \o rest)
  BY DEF Fits
<1>2. q \o rest \in Seq(Nat) /\ Append(rest, x) \in Seq(Nat)
  BY ConcatProperties, AppendProperties
<1>3. Append(p \o (q \o rest), x) = p \o Append(q \o rest, x)
  BY <1>2, ConcatAppends
<1>4. Append(q \o rest, x) = q \o Append(rest, x)
  BY ConcatAppends
<1>5. Append(f, x) = p \o (q \o Append(rest, x))
  BY <1>1, <1>3, <1>4
<1> QED BY <1>2, <1>5 DEF Fits

\* The broker answers the first it has.
LEMMA FitsAnswered ==
  ASSUME NEW f \in Seq(Nat), NEW p \in Seq(Nat), NEW q \in Seq(Nat), q # <<>>,
         NEW w, Fits(f, p, q, w)
  PROVE  Fits(f, Append(p, Head(q)), Tail(q), w)
<1>1. PICK rest \in Seq(Nat) : f = p \o (q \o rest) /\ (w => rest = <<>>)
  BY DEF Fits
<1>2. /\ Head(q) \in Nat /\ Tail(q) \in Seq(Nat) /\ Append(p, Head(q)) \in Seq(Nat)
      /\ p \o q \in Seq(Nat)
  BY HeadTailProperties, AppendProperties, ConcatProperties
<1>3. p \o q = Append(p, Head(q)) \o Tail(q)
  BY HeadMoves
<1>4. p \o (q \o rest) = (p \o q) \o rest
  BY <1>1, ThreeParts, Zenon
<1>5. (Append(p, Head(q)) \o Tail(q)) \o rest = Append(p, Head(q)) \o (Tail(q) \o rest)
  <2>1. PICK a \in Seq(Nat), b \in Seq(Nat) : a = Append(p, Head(q)) /\ b = Tail(q)
    BY <1>2
  <2>2. (a \o b) \o rest = a \o (b \o rest)
    <3>1. \A c, d, e \in Seq(Nat) : (c \o d) \o e = c \o (d \o e)
      BY ThreeParts, Zenon
    <3>2. a \in Seq(Nat) /\ b \in Seq(Nat) /\ rest \in Seq(Nat)
      BY <2>1, <1>1
    <3> QED BY <3>1, <3>2, Zenon
  <2> QED BY <2>1, <2>2
<1>6. f = Append(p, Head(q)) \o (Tail(q) \o rest)
  BY <1>1, <1>3, <1>4, <1>5
<1> QED BY <1>1, <1>6 DEF Fits

\* The answers a connection has are those to its first requests.
LEMMA AnsweredSome ==
  ASSUME ConnTyped, Paired, NEW n \in Nodes, NEW k \in 1..Len(answers[n])
  PROVE  /\ k \in 1..Len(inFlight[n])
         /\ \A i \in 1..k : inFlight[n][i] = answers[n][i] /\ inFlight[n][i] \in Nat
         /\ Fits(SubSeq(inFlight[n], k + 1, Len(inFlight[n])),
                 SubSeq(answers[n], k + 1, Len(answers[n])), wire[n], n \notin torn)
<1>1. /\ Fits(inFlight[n], answers[n], wire[n], n \notin torn) /\ inFlight[n] \in Seq(Nat)
      /\ answers[n] \in Seq(Nat) /\ wire[n] \in Seq(Nat)
  BY DEF ConnTyped, Paired
<1>2. PICK rest \in Seq(Nat) : /\ inFlight[n] = answers[n] \o (wire[n] \o rest)
                               /\ n \notin torn => rest = <<>>
  BY <1>1 DEF Fits
<1>3. wire[n] \o rest \in Seq(Nat)
  BY <1>1, ConcatProperties
<1>4. FirstOf(k, answers[n], wire[n] \o rest, inFlight[n])
  BY <1>1, <1>2, <1>3, PairDrops, Zenon
<1> QED BY <1>2, <1>4 DEF FirstOf, Fits

LEMMA AnsweredFirst ==
  ASSUME ConnTyped, Paired, NEW n \in Nodes, answers[n] # <<>>
  PROVE  /\ inFlight[n] # <<>> /\ Head(inFlight[n]) = Head(answers[n])
         /\ Fits(Tail(inFlight[n]), Tail(answers[n]), wire[n], n \notin torn)
<1>1. /\ Fits(inFlight[n], answers[n], wire[n], n \notin torn) /\ inFlight[n] \in Seq(Nat)
      /\ answers[n] \in Seq(Nat) /\ wire[n] \in Seq(Nat)
  BY DEF ConnTyped, Paired
<1>2. PICK rest \in Seq(Nat) : /\ inFlight[n] = answers[n] \o (wire[n] \o rest)
                               /\ n \notin torn => rest = <<>>
  BY <1>1 DEF Fits
<1>3. wire[n] \o rest \in Seq(Nat)
  BY <1>1, ConcatProperties
<1>4. /\ inFlight[n] # <<>> /\ Head(inFlight[n]) = Head(answers[n])
      /\ Tail(inFlight[n]) = Tail(answers[n]) \o (wire[n] \o rest)
  BY <1>1, <1>2, <1>3, PairTails, Zenon
<1> QED BY <1>2, <1>4 DEF Fits

-----------------------------------------------------------------------------
(* Initially. *)

LEMMA InitInv == Init => IInv
<1> SUFFICES ASSUME Init PROVE IInv
  OBVIOUS
<1>1. ConnTyped
  <2>1. <<>> \in Seq(Nat) /\ Len(requests) = 0
    BY DEF Init
  <2>2. \A n \in Nodes : auth[n] = 0
    BY DEF Init
  <2> QED BY <2>1, <2>2 DEF Init, ConnTyped
<1>2. FutureTyped
  BY DEF Init, FutureTyped, Completions, None
<1>3. MetaTyped
  <2>1. Len(updates) = 0 /\ updates \in Seq(BOOLEAN)
    BY DEF Init
  <2>2. \A w \in Waiters : waitsFor[w] <= Len(updates)
    BY <2>1 DEF Init
  <2>3. current <= Len(updates)
    BY <2>1 DEF Init
  <2> QED BY <2>1, <2>2, <2>3 DEF Init, MetaTyped
<1>4. Paired
  <2>1. Len(result) = 0 /\ Len(pending) = 0
    BY DEF Init
  <2>3. \A n \in Nodes : Fits(inFlight[n], answers[n], wire[n], n \notin torn)
    <3>1. \A n \in Nodes : inFlight[n] = <<>> /\ answers[n] = <<>> /\ wire[n] = <<>>
      BY DEF Init
    <3> QED BY <3>1, FitsEmpty
  <2>4. \A t \in Threads : firing[t].answer = firing[t].id
    BY DEF Init, None
  <2>5. /\ \A id \in 1..Len(result) : result[id] \in {Pending, Failed, id}
        /\ \A i \in 1..Len(pending) : pending[i].answer = pending[i].id
    BY <2>1
  <2> QED BY <2>3, <2>4, <2>5, Zenon DEF Paired
<1>5. OpenIn(result) = {}
  BY DEF Init, OpenIn
<1>6. \A n \in Nodes : Range(inFlight[n]) = {}
  <2>1. <<>> \in Seq(Nat) /\ Len(<<>>) = 0
    OBVIOUS
  <2>2. Range(<<>>) = {<<>>[i] : i \in 1..0}
    BY <2>1, RangeIs, Zenon
  <2>3. 1..0 = {}
    OBVIOUS
  <2>4. Range(<<>>) = {}
    BY <2>2, <2>3
  <2> QED BY <2>4 DEF Init
<1>7. Placed
  <2>1. \A n \in Nodes : Once(inFlight[n])
    BY DEF Init, Once
  <2>2. OnceIds(pending) /\ IdsOf(pending) = {}
    BY DEF Init, OnceIds, IdsOf
  <2>3. \A t \in Threads : FiringIds[t] = 0
    BY DEF Init, FiringIds, None
  <2>4. \A n \in Nodes : FlightIds[n] = {}
    BY <1>6 DEF FlightIds
  <2>5. Spread(FlightIds, IdsOf(pending), FiringIds, OpenIn(result))
    BY <1>5, <2>2, <2>3, <2>4 DEF Spread
  <2> QED BY <2>1, <2>2, <2>5 DEF Placed
<1>8. SelectorFits
  BY DEF Init, SelectorFits, Connecting
<1>9. Refreshing
  BY <1>5, <1>6 DEF Init, Refreshing, AskingIn
<1> QED BY <1>1, <1>2, <1>3, <1>4, <1>7, <1>8, <1>9 DEF IInv

-----------------------------------------------------------------------------
(* Sequences that grow. *)

LEMMA AppendGrows ==
  ASSUME NEW S, NEW q \in Seq(S), NEW x \in S
  PROVE  /\ Append(q, x) \in Seq(S) /\ Len(Append(q, x)) = Len(q) + 1 /\ Len(q) \in Nat
         /\ \A i \in 1..Len(q) : Append(q, x)[i] = q[i]
         /\ Append(q, x)[Len(q) + 1] = x
BY AppendProperties, LenProperties

\* The futures of the cluster's updates stay, and the pending one is among them.
UpdatesGrow ==
  /\ updates' \in Seq(BOOLEAN) /\ Len(updates') >= Len(updates)
  /\ current' \in Nat /\ current' <= Len(updates')

LEMMA RequestGrows == MetaTyped /\ RequestUpdate => UpdatesGrow
<1> SUFFICES ASSUME MetaTyped, RequestUpdate PROVE UpdatesGrow
  OBVIOUS
<1>1. /\ Append(updates, FALSE) \in Seq(BOOLEAN)
      /\ Len(Append(updates, FALSE)) = Len(updates) + 1 /\ Len(updates) \in Nat
  BY AppendGrows DEF MetaTyped
<1>2. CASE current = 0
  <2>1. updates' = Append(updates, FALSE) /\ current' = Len(updates) + 1
    BY <1>2 DEF RequestUpdate
  <2>2. /\ Len(updates') = Len(updates) + 1 /\ updates' \in Seq(BOOLEAN)
        /\ current' \in Nat /\ Len(updates) + 1 >= Len(updates)
    BY <1>1, <2>1
  <2> QED BY <2>1, <2>2 DEF UpdatesGrow
<1>3. CASE current # 0
  BY <1>1, <1>3 DEF RequestUpdate, UpdatesGrow, MetaTyped
<1> QED BY <1>2, <1>3

LEMMA DoneGrows ==
  ASSUME MetaTyped,
         \/ UpdateDone
         \/ updates' = Append(updates, TRUE) /\ current' = 0
         \/ current # 0 /\ updates' = [updates EXCEPT ![current] = TRUE] /\ current' = 0
  PROVE  UpdatesGrow
<1>1. /\ Append(updates, TRUE) \in Seq(BOOLEAN)
      /\ Len(Append(updates, TRUE)) = Len(updates) + 1 /\ Len(updates) \in Nat
  BY AppendGrows DEF MetaTyped
<1>2. ASSUME current # 0
      PROVE  /\ [updates EXCEPT ![current] = TRUE] \in Seq(BOOLEAN)
             /\ Len([updates EXCEPT ![current] = TRUE]) = Len(updates)
  <2>1. current \in 1..Len(updates)
    BY <1>2, <1>1 DEF MetaTyped
  <2> QED BY <2>1, ExceptSeq DEF MetaTyped
<1>3. /\ current' = 0
      /\ \/ updates' = updates
         \/ updates' = Append(updates, TRUE)
         \/ current # 0 /\ updates' = [updates EXCEPT ![current] = TRUE]
  BY DEF UpdateDone
<1>4. updates' \in Seq(BOOLEAN) /\ Len(updates') \in {Len(updates), Len(updates) + 1}
  BY <1>1, <1>2, <1>3 DEF MetaTyped
<1>5. Len(updates') \in Nat /\ Len(updates') >= Len(updates)
  BY <1>1, <1>4
<1> QED BY <1>3, <1>4, <1>5 DEF UpdatesGrow

LEMMA UnchangedGrows == MetaTyped /\ UNCHANGED <<updates, current>> => UpdatesGrow
<1>1. MetaTyped => Len(updates) \in Nat
  BY LenProperties DEF MetaTyped
<1> QED BY <1>1 DEF MetaTyped, UpdatesGrow

LEMMA ClosedGrows ==
  ASSUME MetaTyped, NEW n, NEW refresh \in BOOLEAN, NEW a, ClosedLeaving(n, refresh, a)
  PROVE  UpdatesGrow /\ inProgress' \in BOOLEAN
<1> DEFINE refreshing == \E id \in Range(inFlight[n]) : IsMetadata(id)
<1>1. CASE refreshing /\ refresh
  <2>1. /\ inProgress' = FALSE /\ current' = 0
        /\ updates' = IF current = 0 THEN Append(updates, TRUE)
                                     ELSE [updates EXCEPT ![current] = TRUE]
    BY <1>1, Zenon DEF ClosedLeaving
  <2> QED BY <2>1, DoneGrows
<1>2. CASE refreshing /\ ~refresh
  <2>1. inProgress' = FALSE /\ UpdateDone
    BY <1>2, Zenon DEF ClosedLeaving
  <2> QED BY <2>1, DoneGrows
<1>3. CASE ~refreshing /\ refresh
  <2>1. inProgress' = inProgress /\ RequestUpdate
    BY <1>3, Zenon DEF ClosedLeaving
  <2> QED BY <2>1, RequestGrows DEF MetaTyped
<1>4. CASE ~refreshing /\ ~refresh
  <2>1. UNCHANGED <<inProgress, updates, current>>
    BY <1>4, Zenon DEF ClosedLeaving
  <2> QED BY <2>1, UnchangedGrows DEF MetaTyped
<1> QED BY <1>1, <1>2, <1>3, <1>4

-----------------------------------------------------------------------------
(* The steps, with those that close a connection taken together. *)

ClosingStep(n) ==
  \E refresh \in BOOLEAN, a \in {0, Stale} :
    ClosedLeaving(n, refresh, a) /\ UNCHANGED <<queueVars, waiterVars>>

\* An answer to the handshake, and the exchange that follows, whatever it comes to.
Exchanges(n) ==
  /\ Answered(n) /\ refused' \in {refused, refused \union {n}}
  /\ Connected(n) \/ UNCHANGED <<state, connecting, selector>>

\* A connection is refused, or a write on it breaks off.
Breaks(n) ==
  /\ refused' \in {refused, refused \union {n}} /\ torn' \in {torn, torn \union {n}}
  /\ UNCHANGED <<state, auth, inFlight, connecting, selector, brokerVars, futureVars,
                 queueVars, clusterVars, waiterVars>>

\* Receive, where there are answers to read.
Reads(n) ==
  /\ answers[n] # <<>> /\ inFlight[n] # <<>>
  /\ \E k \in 1..Len(answers[n]) :
       /\ pending' = pending \o [i \in 1..k |-> [id |-> inFlight[n][i],
                                                 answer |-> answers[n][i]]]
       /\ inFlight' = [inFlight EXCEPT ![n] = SubSeq(@, k + 1, Len(@))]
       /\ answers' = [answers EXCEPT ![n] = SubSeq(@, k + 1, Len(@))]
  /\ UNCHANGED <<state, auth, connecting, selector, brokenVars, wire, futureVars,
                 clusterVars, firing, waiterVars>>

LEMMA NextCases ==
  Next =>
    \/ \E n \in Nodes :
         \/ ClosingStep(n) \/ Establish(n) \/ AsksMechanism(n) \/ Exchanges(n) \/ Breaks(n)
         \/ Reads(n) \/ MaybeRefresh(n) \/ Ready(n) \/ \E expects \in BOOLEAN : Send(n, expects)
         \/ Answers(n) \/ ClosesEnd(n)
    \/ \E t \in Threads : Takes(t) \/ Fires(t)
    \/ Ages
    \/ \E w \in Waiters : AddTopic(w) \/ Check(w) \/ Woken(w) \/ GivesUp(w)
<1>c. ASSUME NEW n, NEW refresh \in BOOLEAN, NEW a \in {0, Stale}, ClosedLeaving(n, refresh, a),
             UNCHANGED <<queueVars, waiterVars>>
      PROVE  ClosingStep(n)
  BY <1>c, Zenon DEF ClosingStep
<1>1. ASSUME NEW n \in Nodes,
             ConnectFails(n) \/ TimesOut(n) \/ BreaksDown(n) \/ SendRaises(n)
      PROVE  ClosingStep(n)
  <2>1. ClosedLeaving(n, TRUE, 0) /\ UNCHANGED <<queueVars, waiterVars>>
    BY <1>1, Zenon DEF ConnectFails, TimesOut, BreaksDown, SendRaises, Closed
  <2> QED BY <1>c, <2>1
<1>2. ASSUME NEW n \in Nodes, ClosesIdle(n) PROVE ClosingStep(n)
  <2>1. ClosedLeaving(n, FALSE, 0) /\ UNCHANGED <<queueVars, waiterVars>>
    BY <1>2, Zenon DEF ClosesIdle, Closed
  <2> QED BY <1>c, <2>1
<1>3. ASSUME NEW n \in Nodes, Receive(n) PROVE ClosingStep(n) \/ Reads(n)
  <2>1. CASE /\ eof[n] \/ (answers[n] # <<>> /\ inFlight[n] = <<>>)
             /\ Closed(n, TRUE) /\ UNCHANGED pending
    <3>1. ClosedLeaving(n, TRUE, 0) /\ UNCHANGED <<queueVars, waiterVars>>
      BY <1>3, <2>1, Zenon DEF Receive, queueVars, Closed
    <3> QED BY <1>c, <3>1
  <2>2. CASE ~(/\ eof[n] \/ (answers[n] # <<>> /\ inFlight[n] = <<>>)
               /\ Closed(n, TRUE) /\ UNCHANGED pending)
    BY <1>3, <2>2, Zenon DEF Receive, Reads
  <2> QED BY <2>1, <2>2, Zenon
<1>4. ASSUME NEW n \in Nodes, AsksFails(n) PROVE ClosingStep(n)
  <2>1. ClosedLeaving(n, TRUE, Stale) /\ UNCHANGED <<queueVars, waiterVars>>
    BY <1>4, Zenon DEF AsksFails
  <2> QED BY <1>c, <2>1
<1>5. ASSUME NEW n \in Nodes, Authenticates(n) \/ ExchangeTimesOut(n) PROVE Exchanges(n)
  <2>1. Answered(n) /\ refused' = refused /\ (Connected(n) \/ UNCHANGED <<state, connecting, selector>>)
    BY <1>5, Zenon DEF Authenticates, ExchangeTimesOut
  <2> QED BY <2>1 DEF Exchanges
<1>6. ASSUME NEW n \in Nodes, Refuses(n) PROVE Exchanges(n) \/ Breaks(n)
  <2>1. refused' = refused \union {n} /\ UNCHANGED <<state, connecting, selector>>
    BY <1>6, Zenon DEF Refuses
  <2>2. CASE Answered(n)
    BY <2>1, <2>2 DEF Exchanges
  <2>3. CASE UNCHANGED <<auth, inFlight, torn, brokerVars, futureVars, queueVars, clusterVars, waiterVars>>
    BY <2>1, <2>3 DEF Breaks
  <2> QED BY <1>6, <2>2, <2>3, Zenon DEF Refuses
<1>7. ASSUME NEW n \in Nodes, SendEscapes(n) PROVE Breaks(n)
  <2>1. /\ torn' = torn \union {n} /\ refused' = refused
        /\ UNCHANGED <<state, auth, inFlight, connecting, selector, brokerVars, futureVars,
                       queueVars, clusterVars, waiterVars>>
    BY <1>7, Zenon DEF SendEscapes
  <2> QED BY <2>1 DEF Breaks
<1> QED BY <1>1, <1>2, <1>3, <1>4, <1>5, <1>6, <1>7, Zenon DEF Next, Poll, Connect, Fire, Wait

-----------------------------------------------------------------------------
(* Every step keeps the types. *)

LEMMA SendsTyped ==
  ASSUME ConnTyped, FutureTyped, NEW n \in Nodes, NEW kind \in {"user", "metadata", "sasl"},
         NEW asks \in BOOLEAN, Sends(n, kind, asks)
  PROVE  /\ requests' \in Seq([kind : {"user", "metadata", "sasl"}, asks : BOOLEAN])
         /\ result' \in Seq(Int) /\ Len(result') = Len(requests')
         /\ Len(requests') = Len(requests) + 1 /\ Len(requests) \in Nat
         /\ inFlight' \in [Nodes -> Seq(Nat)] /\ wire' \in [Nodes -> Seq(Nat)]
<1>1. [kind |-> kind, asks |-> asks] \in [kind : {"user", "metadata", "sasl"}, asks : BOOLEAN]
  OBVIOUS
<1>2. /\ requests' = Append(requests, [kind |-> kind, asks |-> asks])
      /\ result' = Append(result, Pending) /\ Pending \in Int
      /\ inFlight' = [inFlight EXCEPT ![n] = Append(@, Len(requests) + 1)]
      /\ wire' = wire \/ wire' = [wire EXCEPT ![n] = Append(@, Len(requests) + 1)]
  BY DEF Sends, NewRequest, Pending
<1>3. /\ requests' \in Seq([kind : {"user", "metadata", "sasl"}, asks : BOOLEAN])
      /\ Len(requests') = Len(requests) + 1 /\ Len(requests) \in Nat
  BY <1>1, <1>2, AppendGrows DEF FutureTyped
<1>4. result' \in Seq(Int) /\ Len(result') = Len(result) + 1
  BY <1>2, AppendGrows DEF FutureTyped
<1>5. /\ Append(inFlight[n], Len(requests) + 1) \in Seq(Nat)
      /\ Append(wire[n], Len(requests) + 1) \in Seq(Nat)
  BY <1>3, AppendProperties DEF ConnTyped
<1>6. inFlight' \in [Nodes -> Seq(Nat)] /\ wire' \in [Nodes -> Seq(Nat)]
  BY <1>2, <1>5 DEF ConnTyped
<1> QED BY <1>3, <1>4, <1>6 DEF FutureTyped

LEMMA MetaTypedStep == IInv /\ [Next]_vars => MetaTyped'
<1> SUFFICES ASSUME IInv, [Next]_vars PROVE MetaTyped'
  OBVIOUS
<1>0. MetaTyped
  BY DEF IInv
<1>a. ASSUME UpdatesGrow, UNCHANGED <<topic, pc, waitsFor>>, inProgress' \in BOOLEAN
      PROVE  MetaTyped'
  <2>1. ASSUME NEW w \in Waiters PROVE waitsFor'[w] <= Len(updates')
    <3>1. waitsFor[w] \in Nat /\ waitsFor[w] <= Len(updates) /\ Len(updates) \in Nat
      BY <1>0, LenProperties DEF MetaTyped
    <3>2. Len(updates') >= Len(updates) /\ Len(updates') \in Nat
      BY <1>a, LenProperties DEF UpdatesGrow
    <3> QED BY <1>a, <3>1, <3>2
  <2> QED BY <1>0, <1>a, <2>1 DEF MetaTyped, UpdatesGrow
<1>b. ASSUME UNCHANGED <<topic, pc, waitsFor, updates, current>>, inProgress' \in BOOLEAN
      PROVE  MetaTyped'
  BY <1>0, <1>b DEF MetaTyped
<1>1. ASSUME NEW n \in Nodes, ClosingStep(n) PROVE MetaTyped'
  <2>1. PICK refresh \in BOOLEAN, a \in {0, Stale} : ClosedLeaving(n, refresh, a) /\ UNCHANGED <<queueVars, waiterVars>>
    BY <1>1, Zenon DEF ClosingStep
  <2>2. UNCHANGED <<topic, pc, waitsFor>>
    BY <2>1, Zenon DEF waiterVars
  <2> QED BY <1>0, <1>a, <2>1, <2>2, ClosedGrows
<1>2. ASSUME NEW n \in Nodes,
             \/ Establish(n) \/ AsksMechanism(n) \/ Exchanges(n) \/ Breaks(n) \/ Reads(n) \/ Ready(n)
             \/ (\E expects \in BOOLEAN : Send(n, expects)) \/ Answers(n) \/ ClosesEnd(n)
      PROVE  MetaTyped'
  <2>1. UNCHANGED <<topic, pc, waitsFor, updates, current, inProgress>>
    BY <1>2, Zenon DEF Establish, AsksMechanism, Exchanges, Answered, Breaks, Reads, Ready, Send, Answers, ClosesEnd,
                       waiterVars, clusterVars
  <2> QED BY <1>0, <1>b, <2>1 DEF MetaTyped
<1>3. ASSUME NEW n \in Nodes, MaybeRefresh(n) PROVE MetaTyped'
  <2>1. UNCHANGED <<topic, pc, waitsFor, updates, current>>
    BY <1>3, Zenon DEF MaybeRefresh, waiterVars
  <2>2. inProgress' = TRUE \/ inProgress' = inProgress
    BY <1>3, Zenon DEF MaybeRefresh
  <2> QED BY <1>0, <1>b, <2>1, <2>2 DEF MetaTyped
<1>4. ASSUME NEW t \in Threads, Takes(t) PROVE MetaTyped'
  <2>1. UNCHANGED <<topic, pc, waitsFor, updates, current, inProgress>>
    BY <1>4, Zenon DEF Takes, waiterVars, clusterVars
  <2> QED BY <1>0, <1>b, <2>1 DEF MetaTyped
<1>5. ASSUME NEW t \in Threads, Fires(t) PROVE MetaTyped'
  <2>1. UNCHANGED <<topic, pc, waitsFor>>
    BY <1>5, Zenon DEF Fires, waiterVars
  <2>2. \/ UpdateDone /\ inProgress' = FALSE
        \/ UNCHANGED <<updates, current, inProgress>>
    BY <1>5, Zenon DEF Fires, RefreshSucceeds, RefreshFails, clusterVars
  <2> QED BY <1>0, <1>a, <2>1, <2>2, DoneGrows, UnchangedGrows DEF MetaTyped
<1>6. CASE Ages
  <2>1. UNCHANGED <<topic, pc, waitsFor, updates, current, inProgress>>
    BY <1>6, Zenon DEF Ages, waiterVars
  <2> QED BY <1>0, <1>b, <2>1 DEF MetaTyped
<1>7. ASSUME NEW w \in Waiters, AddTopic(w) PROVE MetaTyped'
  <2>1. /\ pc' = [pc EXCEPT ![w] = "check"] /\ topic' = TRUE /\ UNCHANGED <<waitsFor, inProgress>>
        /\ \/ RequestUpdate
           \/ UNCHANGED <<updates, current>>
    BY <1>7, Zenon DEF AddTopic
  <2>2. UpdatesGrow
    BY <1>0, <2>1, RequestGrows, UnchangedGrows
  <2>3. ASSUME NEW v \in Waiters PROVE waitsFor'[v] <= Len(updates')
    <3>1. waitsFor[v] \in Nat /\ waitsFor[v] <= Len(updates) /\ Len(updates) \in Nat
      BY <1>0, LenProperties DEF MetaTyped
    <3>2. Len(updates') >= Len(updates) /\ Len(updates') \in Nat
      BY <2>2, LenProperties DEF UpdatesGrow
    <3> QED BY <2>1, <3>1, <3>2
  <2> QED BY <1>0, <2>1, <2>2, <2>3 DEF MetaTyped, UpdatesGrow
<1>8. ASSUME NEW w \in Waiters, Check(w) PROVE MetaTyped'
  <2>1. CASE known
    <3>1. pc' = [pc EXCEPT ![w] = "done"] /\ UNCHANGED <<topic, waitsFor, inProgress, updates, current>>
      BY <1>8, <2>1, Zenon DEF Check
    <3> QED BY <1>0, <3>1 DEF MetaTyped
  <2>2. CASE ~known
    <3>1. /\ RequestUpdate /\ waitsFor' = [waitsFor EXCEPT ![w] = current']
          /\ pc' = [pc EXCEPT ![w] = "wait"] /\ UNCHANGED <<topic, inProgress>>
      BY <1>8, <2>2, Zenon DEF Check
    <3>2. UpdatesGrow
      BY <1>0, <3>1, RequestGrows
    <3>3. ASSUME NEW v \in Waiters PROVE waitsFor'[v] <= Len(updates')
      <4>1. waitsFor[v] \in Nat /\ waitsFor[v] <= Len(updates) /\ Len(updates) \in Nat
        BY <1>0, LenProperties DEF MetaTyped
      <4>2. Len(updates') >= Len(updates) /\ Len(updates') \in Nat /\ current' <= Len(updates')
        BY <3>2, LenProperties DEF UpdatesGrow
      <4>3. waitsFor'[v] = IF v = w THEN current' ELSE waitsFor[v]
        BY <1>0, <3>1 DEF MetaTyped
      <4> QED BY <4>1, <4>2, <4>3
    <3> QED BY <1>0, <3>1, <3>2, <3>3 DEF MetaTyped, UpdatesGrow
  <2> QED BY <2>1, <2>2
<1>9. ASSUME NEW w \in Waiters, Woken(w) \/ GivesUp(w) PROVE MetaTyped'
  <2>1. /\ UNCHANGED <<topic, waitsFor, inProgress, updates, current>>
        /\ \/ pc' = [pc EXCEPT ![w] = "check"]
           \/ pc' = [pc EXCEPT ![w] = "timeout"]
    BY <1>9, Zenon DEF Woken, GivesUp, clusterVars
  <2> QED BY <1>0, <2>1 DEF MetaTyped
<1>10. CASE UNCHANGED vars
  <2>1. UNCHANGED <<topic, pc, waitsFor, updates, current, inProgress>>
    BY <1>10, Zenon DEF vars, waiterVars, clusterVars
  <2> QED BY <1>0, <1>b, <2>1 DEF MetaTyped
<1> QED BY <1>1, <1>2, <1>3, <1>4, <1>5, <1>6, <1>7, <1>8, <1>9, <1>10, NextCases, Zenon

LEMMA ConnTypedStep == IInv /\ [Next]_vars => ConnTyped'
<1> SUFFICES ASSUME IInv, [Next]_vars PROVE ConnTyped'
  OBVIOUS
<1>0. ConnTyped /\ FutureTyped
  BY DEF IInv
<1>l. Len(requests) \in Nat
  BY <1>0, LenProperties DEF FutureTyped
<1>e. <<>> \in Seq(Nat)
  OBVIOUS
<1>1. ASSUME NEW n \in Nodes, ClosingStep(n) PROVE ConnTyped'
  <2>1. PICK refresh \in BOOLEAN, a \in {0, Stale} : ClosedLeaving(n, refresh, a)
    BY <1>1, Zenon DEF ClosingStep
  <2>2. /\ state' = [state EXCEPT ![n] = "disconnected"]
        /\ auth' = [auth EXCEPT ![n] = a]
        /\ refused' = refused \ {n} /\ torn' = torn \ {n}
        /\ connecting' = connecting \ {n}
        /\ selector' = [selector EXCEPT ![n] = "none"]
        /\ inFlight' = [inFlight EXCEPT ![n] = <<>>]
        /\ wire' = [wire EXCEPT ![n] = <<>>]
        /\ answers' = [answers EXCEPT ![n] = <<>>]
        /\ requests' = requests
    BY <2>1, Zenon DEF ClosedLeaving
  <2>3. /\ state' \in [Nodes -> {"disconnected", "connecting", "handshake", "authenticating", "connected"}]
        /\ selector' \in [Nodes -> {"none", "write", "read"}] /\ connecting' \subseteq Nodes
    BY <1>0, <2>2 DEF ConnTyped
  <2>4. /\ auth' \in [Nodes -> Int]
        /\ \A m \in Nodes : auth'[m] \in {0, Stale} \union 1..Len(requests')
    BY <1>0, <1>l, <2>2 DEF ConnTyped, Stale
  <2>6. refused' \subseteq Nodes /\ torn' \subseteq Nodes
    BY <1>0, <2>2 DEF ConnTyped
  <2>5. /\ inFlight' \in [Nodes -> Seq(Nat)]
        /\ wire' \in [Nodes -> Seq(Nat)] /\ answers' \in [Nodes -> Seq(Nat)]
    BY <1>0, <1>e, <2>2 DEF ConnTyped
  <2> QED BY <2>3, <2>4, <2>5, <2>6 DEF ConnTyped
<1>2. ASSUME NEW n \in Nodes, Establish(n) PROVE ConnTyped'
  <2>1. UNCHANGED <<auth, inFlight, refused, torn, wire, answers, requests>>
    BY <1>2, Zenon DEF Establish, brokenVars, brokerVars, futureVars
  <2>2. /\ state' \in [Nodes -> {"disconnected", "connecting", "handshake", "authenticating", "connected"}]
        /\ selector' \in [Nodes -> {"none", "write", "read"}] /\ connecting' \subseteq Nodes
    BY <1>0, <1>2 DEF Establish, Connected, Moves, ConnTyped
  <2> QED BY <1>0, <2>1, <2>2 DEF ConnTyped
<1>s. ASSUME NEW n \in Nodes, NEW kind \in {"user", "metadata", "sasl"}, NEW asks \in BOOLEAN,
             Sends(n, kind, asks), UNCHANGED <<state, connecting, selector, refused, torn, answers>>,
             auth' = auth \/ auth' = [auth EXCEPT ![n] = Len(requests) + 1]
      PROVE  ConnTyped'
  <2>1. /\ inFlight' \in [Nodes -> Seq(Nat)] /\ wire' \in [Nodes -> Seq(Nat)]
        /\ Len(requests') = Len(requests) + 1
    BY <1>0, <1>s, SendsTyped
  <2>2. ASSUME NEW m \in Nodes PROVE auth'[m] \in {0, Stale} \union 1..Len(requests')
    <3>1. auth[m] \in {0, Stale} \union 1..Len(requests)
      BY <1>0 DEF ConnTyped
    <3>2. auth'[m] \in {auth[m], Len(requests) + 1}
      BY <1>0, <1>s DEF ConnTyped
    <3>3. 1..Len(requests') = 1..Len(requests) \union {Len(requests) + 1}
      BY <1>l, <2>1
    <3> QED BY <3>1, <3>2, <3>3
  <2>3. auth' \in [Nodes -> Int]
    <3>1. auth \in [Nodes -> Int] /\ Len(requests) + 1 \in Int
      BY <1>0, <1>l DEF ConnTyped
    <3>2. [auth EXCEPT ![n] = Len(requests) + 1] \in [Nodes -> Int]
      BY <3>1
    <3> QED BY <1>s, <3>1, <3>2
  <2> QED BY <1>0, <1>s, <2>1, <2>2, <2>3 DEF ConnTyped
<1>3. ASSUME NEW n \in Nodes, AsksMechanism(n) PROVE ConnTyped'
  BY <1>3, <1>s DEF AsksMechanism, brokenVars
<1>4. ASSUME NEW n \in Nodes, Exchanges(n) PROVE ConnTyped'
  <2>1. /\ answers[n] # <<>> /\ UNCHANGED <<auth, torn, requests, wire>>
        /\ refused' \in {refused, refused \union {n}}
        /\ Connected(n) \/ UNCHANGED <<state, connecting, selector>>
        /\ inFlight' = [inFlight EXCEPT ![n] = Tail(@)]
        /\ answers' = [answers EXCEPT ![n] = Tail(@)]
    BY <1>4, Zenon DEF Exchanges, Answered
  <2>2. inFlight[n] # <<>>
    BY <1>0, <2>1, AnsweredFirst DEF IInv
  <2>3. Tail(inFlight[n]) \in Seq(Nat) /\ Tail(answers[n]) \in Seq(Nat)
    BY <1>0, <2>1, <2>2, HeadTailProperties DEF ConnTyped
  <2>4. inFlight' \in [Nodes -> Seq(Nat)] /\ answers' \in [Nodes -> Seq(Nat)]
    BY <1>0, <2>1, <2>3 DEF ConnTyped
  <2>5. /\ state' \in [Nodes -> {"disconnected", "connecting", "handshake", "authenticating", "connected"}]
        /\ selector' \in [Nodes -> {"none", "write", "read"}] /\ connecting' \subseteq Nodes
        /\ refused' \subseteq Nodes /\ torn' \subseteq Nodes
    BY <1>0, <2>1 DEF Connected, ConnTyped
  <2> QED BY <1>0, <2>1, <2>4, <2>5 DEF ConnTyped
<1>5. ASSUME NEW n \in Nodes, Reads(n) PROVE ConnTyped'
  <2>1. PICK k \in 1..Len(answers[n]) :
             /\ inFlight' = [inFlight EXCEPT ![n] = SubSeq(@, k + 1, Len(@))]
             /\ answers' = [answers EXCEPT ![n] = SubSeq(@, k + 1, Len(@))]
    BY <1>5, Zenon DEF Reads
  <2>2. UNCHANGED <<state, auth, connecting, selector, refused, torn, wire, requests>>
    BY <1>5, Zenon DEF Reads, brokenVars, futureVars
  <2>3. /\ inFlight[n] \in Seq(Nat) /\ answers[n] \in Seq(Nat)
        /\ Len(inFlight[n]) \in Nat /\ Len(answers[n]) \in Nat
    BY <1>0, LenProperties DEF ConnTyped
  <2>a. \A i \in (k + 1)..Len(inFlight[n]) : inFlight[n][i] \in Nat
    BY <2>3, ElementOfSeq
  <2>b. \A i \in (k + 1)..Len(answers[n]) : answers[n][i] \in Nat
    BY <2>3, ElementOfSeq
  <2>4. /\ SubSeq(inFlight[n], k + 1, Len(inFlight[n])) \in Seq(Nat)
        /\ SubSeq(answers[n], k + 1, Len(answers[n])) \in Seq(Nat)
    BY <2>3, <2>a, <2>b, SubSeqProperties
  <2>5. inFlight' \in [Nodes -> Seq(Nat)] /\ answers' \in [Nodes -> Seq(Nat)]
    BY <1>0, <2>1, <2>4 DEF ConnTyped
  <2> QED BY <1>0, <2>2, <2>5 DEF ConnTyped
<1>b. ASSUME NEW n \in Nodes, BeginsConnect(n), UNCHANGED <<wire, answers, requests>>
      PROVE  ConnTyped'
  BY <1>0, <1>b DEF BeginsConnect, ConnTyped, brokenVars
<1>6. ASSUME NEW n \in Nodes, MaybeRefresh(n) PROVE ConnTyped'
  <2>1. CASE Sends(n, "metadata", topic) /\ UNCHANGED <<state, auth, connecting, selector, refused, torn>>
    <3>1. UNCHANGED answers
      BY <1>6, Zenon DEF MaybeRefresh
    <3>2. topic \in BOOLEAN
      BY DEF IInv, MetaTyped
    <3> QED BY <1>s, <2>1, <3>1, <3>2
  <2>2. CASE BeginsConnect(n) /\ UNCHANGED <<requests, wire>>
    <3>1. UNCHANGED answers
      BY <1>6, Zenon DEF MaybeRefresh
    <3> QED BY <1>b, <2>2, <3>1
  <2> QED BY <1>6, <2>1, <2>2, Zenon DEF MaybeRefresh, brokenVars
<1>7. ASSUME NEW n \in Nodes, Ready(n) PROVE ConnTyped'
  <2>1. BeginsConnect(n) /\ UNCHANGED <<wire, answers, requests>>
    BY <1>7, Zenon DEF Ready, brokerVars, futureVars
  <2> QED BY <1>b, <2>1
<1>8. ASSUME NEW n \in Nodes, NEW expects \in BOOLEAN, Send(n, expects) PROVE ConnTyped'
  <2>1. CASE Sends(n, "user", FALSE)
    <3>1. UNCHANGED <<state, connecting, selector, refused, torn, answers, auth>>
      BY <1>8, Zenon DEF Send, brokenVars
    <3> QED BY <1>s, <2>1, <3>1
  <2>2. CASE ~Sends(n, "user", FALSE)
    <3>1. UNCHANGED <<state, connecting, selector, refused, torn, answers, auth, inFlight, wire>>
      BY <1>8, <2>2, Zenon DEF Send, brokenVars
    <3>2. requests' = Append(requests, [kind |-> "user", asks |-> FALSE])
      BY <1>8, <2>2, Zenon DEF Send, NewRequest
    <3>3. Len(requests') = Len(requests) + 1
      BY <1>0, <3>2, AppendGrows DEF FutureTyped
    <3>4. \A m \in Nodes : auth'[m] \in {0, Stale} \union 1..Len(requests')
      <4>1. 1..Len(requests) \subseteq 1..Len(requests')
        BY <1>l, <3>3
      <4> QED BY <1>0, <3>1, <4>1 DEF ConnTyped
    <3> QED BY <1>0, <3>1, <3>4 DEF ConnTyped
  <2> QED BY <2>1, <2>2
<1>9. ASSUME NEW n \in Nodes, Answers(n) PROVE ConnTyped'
  <2>1. /\ wire[n] # <<>> /\ wire[n] \in Seq(Nat) /\ answers[n] \in Seq(Nat)
        /\ wire' = [wire EXCEPT ![n] = Tail(@)]
        /\ answers' = [answers EXCEPT ![n] = Append(@, Head(wire[n]))]
    BY <1>0, <1>9 DEF Answers, ConnTyped
  <2>2. Tail(wire[n]) \in Seq(Nat) /\ Append(answers[n], Head(wire[n])) \in Seq(Nat)
    BY <2>1, HeadTailProperties, AppendProperties
  <2>3. wire' \in [Nodes -> Seq(Nat)] /\ answers' \in [Nodes -> Seq(Nat)]
    BY <1>0, <2>1, <2>2 DEF ConnTyped
  <2>4. UNCHANGED <<state, auth, selector, connecting, refused, torn, inFlight, requests>>
    BY <1>9, Zenon DEF Answers, connVars, brokenVars, futureVars
  <2> QED BY <1>0, <2>3, <2>4 DEF ConnTyped
<1>15. ASSUME NEW n \in Nodes, Breaks(n) PROVE ConnTyped'
  <2>1. UNCHANGED <<state, auth, selector, connecting, inFlight, wire, answers, requests>>
    BY <1>15, Zenon DEF Breaks, brokerVars, futureVars
  <2>2. refused' \subseteq Nodes /\ torn' \subseteq Nodes
    BY <1>0, <1>15 DEF Breaks, ConnTyped
  <2> QED BY <1>0, <2>1, <2>2 DEF ConnTyped
<1>10. ASSUME UNCHANGED <<state, auth, selector, connecting, refused, torn, inFlight, wire,
                         answers, requests>>
       PROVE  ConnTyped'
  BY <1>0, <1>10 DEF ConnTyped
<1>11. ASSUME NEW n \in Nodes, ClosesEnd(n) PROVE ConnTyped'
  BY <1>10, <1>11, Zenon DEF ClosesEnd, connVars, brokenVars, futureVars
<1>12. ASSUME NEW t \in Threads, Takes(t) \/ Fires(t) PROVE ConnTyped'
  BY <1>10, <1>12, Zenon DEF Takes, Fires, connVars, brokenVars, brokerVars, futureVars
<1>13. ASSUME Ages \/ UNCHANGED vars PROVE ConnTyped'
  BY <1>10, <1>13, Zenon DEF Ages, vars, connVars, brokenVars, brokerVars, futureVars
<1>14. ASSUME NEW w \in Waiters, AddTopic(w) \/ Check(w) \/ Woken(w) \/ GivesUp(w) PROVE ConnTyped'
  BY <1>10, <1>14, Zenon DEF AddTopic, Check, Woken, GivesUp, connVars, brokenVars, brokerVars, futureVars
<1> QED BY <1>1, <1>2, <1>3, <1>4, <1>5, <1>6, <1>7, <1>8, <1>9, <1>11, <1>12, <1>13, <1>14, <1>15, NextCases, Zenon

\* They become completions.
LEMMA CompletionsTyped ==
  ASSUME ConnTyped, Paired, NEW n \in Nodes, NEW k \in 1..Len(answers[n])
  PROVE  LET r == [i \in 1..k |-> [id |-> inFlight[n][i], answer |-> answers[n][i]]]
         IN  /\ r \in Seq(Completions) /\ Len(r) = k
             /\ \A i \in 1..k : r[i].id = inFlight[n][i] /\ r[i].answer = r[i].id
<1> DEFINE r == [i \in 1..k |-> [id |-> inFlight[n][i], answer |-> answers[n][i]]]
<1>1. \A i \in 1..k : inFlight[n][i] = answers[n][i] /\ inFlight[n][i] \in Nat
  BY AnsweredSome
<1>2. k \in Nat
  OBVIOUS
<1>3. r \in [1..k -> Completions]
  BY <1>1 DEF Completions
<1>4. r \in Seq(Completions) /\ Len(r) = k
  <2> HIDE DEF r
  <2>1. r \in Seq(Completions)
    BY <1>2, <1>3, SeqDef
  <2>2. DOMAIN r = 1..k /\ DOMAIN r = 1..Len(r) /\ Len(r) \in Nat
    BY <1>3, <2>1, LenProperties
  <2> QED BY <2>1, <2>2, <1>2
<1> QED BY <1>1, <1>4

LEMMA FutureTypedStep == IInv /\ [Next]_vars => FutureTyped'
<1> SUFFICES ASSUME IInv, [Next]_vars PROVE FutureTyped'
  OBVIOUS
<1>0. ConnTyped /\ FutureTyped /\ Paired /\ Placed
  BY DEF IInv
<1>1. ASSUME NEW n \in Nodes, ClosingStep(n) PROVE FutureTyped'
  <2>1. PICK refresh \in BOOLEAN, a \in {0, Stale} : ClosedLeaving(n, refresh, a) /\ UNCHANGED queueVars
    BY <1>1, Zenon DEF ClosingStep
  <2>2. /\ result' = [id \in DOMAIN result |->
                        IF id \in Range(inFlight[n]) THEN Failed ELSE result[id]]
        /\ UNCHANGED <<requests, pending, firing>>
    BY <2>1, Zenon DEF ClosedLeaving, Fail, queueVars
  <2>3. result' \in Seq(Int) /\ Len(result') = Len(result)
    BY <1>0, <2>2, OpenFails DEF FutureTyped
  <2> QED BY <1>0, <2>2, <2>3 DEF FutureTyped
<1>u. ASSUME UNCHANGED <<requests, result, pending, firing>> PROVE FutureTyped'
  BY <1>0, <1>u DEF FutureTyped
<1>s. ASSUME NEW n \in Nodes, NEW kind \in {"user", "metadata", "sasl"}, NEW asks \in BOOLEAN,
             Sends(n, kind, asks), UNCHANGED <<pending, firing>>
      PROVE  FutureTyped'
  BY <1>0, <1>s, SendsTyped DEF FutureTyped
<1>2. ASSUME NEW n \in Nodes, Establish(n) \/ Breaks(n) \/ Ready(n) \/ Answers(n) \/ ClosesEnd(n)
      PROVE  FutureTyped'
  BY <1>2, <1>u, Zenon DEF Establish, Breaks, Ready, Answers, ClosesEnd, futureVars, queueVars
<1>3. ASSUME NEW n \in Nodes, AsksMechanism(n) PROVE FutureTyped'
  <2>1. Sends(n, "sasl", FALSE) /\ UNCHANGED <<pending, firing>>
    BY <1>3, Zenon DEF AsksMechanism, queueVars
  <2> QED BY <2>1, <1>s
<1>4. ASSUME NEW n \in Nodes, Exchanges(n) PROVE FutureTyped'
  <2>1. /\ answers[n] # <<>> /\ UNCHANGED <<requests, pending, firing>>
        /\ result' = [result EXCEPT ![Head(inFlight[n])] = Head(answers[n])]
    BY <1>4, Zenon DEF Exchanges, Answered, queueVars
  <2>2. inFlight[n] # <<>> /\ Head(inFlight[n]) = Head(answers[n])
    BY <1>0, <2>1, AnsweredFirst
  <2>3. Head(inFlight[n]) \in Range(inFlight[n]) /\ Head(inFlight[n]) \in Nat
    BY <1>0, <2>2, TailDrops DEF ConnTyped, Placed
  <2>4. Head(inFlight[n]) \in OpenIn(result)
    BY <1>0, <2>3 DEF Placed, Spread, FlightIds
  <2>5. Head(answers[n]) \in Int /\ Head(answers[n]) # Pending
    BY <2>2, <2>3 DEF Pending
  <2>6. result' \in Seq(Int) /\ Len(result') = Len(result)
    BY <1>0, <2>1, <2>4, <2>5, OpenEnds DEF FutureTyped
  <2> QED BY <1>0, <2>1, <2>6 DEF FutureTyped
<1>5. ASSUME NEW n \in Nodes, Reads(n) PROVE FutureTyped'
  <2>1. PICK k \in 1..Len(answers[n]) :
             pending' = pending \o [i \in 1..k |-> [id |-> inFlight[n][i], answer |-> answers[n][i]]]
    BY <1>5, Zenon DEF Reads
  <2>2. UNCHANGED <<requests, result, firing>>
    BY <1>5, Zenon DEF Reads, futureVars
  <2>3. [i \in 1..k |-> [id |-> inFlight[n][i], answer |-> answers[n][i]]] \in Seq(Completions)
    BY <1>0, CompletionsTyped
  <2>4. pending' \in Seq(Completions)
    BY <1>0, <2>1, <2>3, ConcatProperties DEF FutureTyped
  <2> QED BY <1>0, <2>2, <2>4 DEF FutureTyped
<1>6. ASSUME NEW n \in Nodes, MaybeRefresh(n) PROVE FutureTyped'
  <2>1. topic \in BOOLEAN
    BY DEF IInv, MetaTyped
  <2>2. UNCHANGED <<pending, firing>>
    BY <1>6, Zenon DEF MaybeRefresh, queueVars
  <2>3. Sends(n, "metadata", topic) \/ UNCHANGED <<requests, result>>
    BY <1>6, Zenon DEF MaybeRefresh
  <2> QED BY <1>s, <1>u, <2>1, <2>2, <2>3
<1>7. ASSUME NEW n \in Nodes, NEW expects \in BOOLEAN, Send(n, expects) PROVE FutureTyped'
  <2>1. UNCHANGED <<pending, firing>>
    BY <1>7, Zenon DEF Send, queueVars
  <2>2. CASE Sends(n, "user", FALSE)
    BY <1>s, <2>1, <2>2
  <2>3. CASE ~Sends(n, "user", FALSE)
    <3>1. NewRequest("user", FALSE, IF CanSend(n) THEN Len(requests) + 1 ELSE Failed)
      BY <1>7, <2>3, Zenon DEF Send
    <3>2. [kind |-> "user", asks |-> FALSE] \in [kind : {"user", "metadata", "sasl"}, asks : BOOLEAN]
      OBVIOUS
    <3>3. /\ requests' \in Seq([kind : {"user", "metadata", "sasl"}, asks : BOOLEAN])
          /\ Len(requests') = Len(requests) + 1 /\ Len(requests) \in Nat
      BY <1>0, <3>1, <3>2, AppendGrows DEF FutureTyped, NewRequest
    <3>4. (IF CanSend(n) THEN Len(requests) + 1 ELSE Failed) \in Int
      BY <3>3 DEF Failed
    <3>5. result' \in Seq(Int) /\ Len(result') = Len(result) + 1
      BY <1>0, <3>1, <3>4, AppendGrows DEF FutureTyped, NewRequest
    <3> QED BY <1>0, <2>1, <3>3, <3>5 DEF FutureTyped
  <2> QED BY <2>2, <2>3
<1>8. ASSUME NEW t \in Threads, Takes(t) PROVE FutureTyped'
  <2>1. /\ pending # <<>> /\ firing' = [firing EXCEPT ![t] = Head(pending)]
        /\ pending' = Tail(pending) /\ UNCHANGED <<requests, result>>
    BY <1>8, Zenon DEF Takes, futureVars
  <2>2. Tail(pending) \in Seq(Completions) /\ Head(pending) \in Completions
    BY <1>0, <2>1, HeadTailProperties DEF FutureTyped
  <2> QED BY <1>0, <2>1, <2>2 DEF FutureTyped
<1>9. ASSUME NEW t \in Threads, Fires(t) PROVE FutureTyped'
  <2>1. /\ firing[t] # None /\ firing' = [firing EXCEPT ![t] = None]
        /\ result' = [result EXCEPT ![firing[t].id] = firing[t].answer]
        /\ UNCHANGED <<requests, pending>>
    BY <1>9, Zenon DEF Fires
  <2>2. firing[t] \in Completions /\ firing[t].answer = firing[t].id
    BY <1>0 DEF FutureTyped, Paired
  <2>3. firing[t].id # 0
    BY <2>1, <2>2 DEF Completions, None
  <2>4. firing[t].id \in OpenIn(result)
    BY <1>0, <2>3 DEF Placed, Spread, FiringIds
  <2>5. firing[t].answer \in Int /\ firing[t].answer # Pending
    BY <2>2 DEF Completions, Pending
  <2>6. result' \in Seq(Int) /\ Len(result') = Len(result)
    BY <1>0, <2>1, <2>4, <2>5, OpenEnds DEF FutureTyped
  <2>7. firing' \in [Threads -> Completions]
    BY <1>0, <2>1 DEF FutureTyped, Completions, None
  <2> QED BY <1>0, <2>1, <2>6, <2>7 DEF FutureTyped
<1>10. CASE Ages
  BY <1>10, <1>u, Zenon DEF Ages, futureVars, queueVars
<1>11. ASSUME NEW w \in Waiters, AddTopic(w) \/ Check(w) \/ Woken(w) \/ GivesUp(w) PROVE FutureTyped'
  BY <1>u, <1>11, Zenon DEF AddTopic, Check, Woken, GivesUp, futureVars, queueVars
<1>12. CASE UNCHANGED vars
  BY <1>u, <1>12, Zenon DEF vars, futureVars, queueVars
<1> QED BY <1>1, <1>2, <1>3, <1>4, <1>5, <1>6, <1>7, <1>8, <1>9, <1>10, <1>11, <1>12, NextCases, Zenon

-----------------------------------------------------------------------------
(* Requests and answers stay paired. *)

LEMMA PairedStep == IInv /\ [Next]_vars => Paired'
<1> SUFFICES ASSUME IInv, [Next]_vars PROVE Paired'
  OBVIOUS
<1>0. ConnTyped /\ FutureTyped /\ Paired /\ Placed
  BY DEF IInv
<1>l. Len(result) \in Nat /\ Len(requests) = Len(result)
  BY <1>0, LenProperties DEF FutureTyped
\* Where the completions, or the connections, are left alone.
<1>q. ASSUME UNCHANGED <<pending, firing>>
      PROVE  /\ \A i \in 1..Len(pending') : pending'[i].answer = pending'[i].id
             /\ \A t \in Threads : firing'[t].answer = firing'[t].id
  BY <1>0, <1>q DEF Paired
<1>c. ASSUME UNCHANGED <<inFlight, answers, wire, torn>>
      PROVE  \A n \in Nodes : Fits(inFlight'[n], answers'[n], wire'[n], n \notin torn')
  BY <1>0, <1>c DEF Paired
<1>r. ASSUME UNCHANGED result
      PROVE  \A id \in 1..Len(result') : result'[id] \in {Pending, Failed, id}
  BY <1>0, <1>r DEF Paired
<1>u. ASSUME UNCHANGED <<inFlight, answers, wire, torn, result, pending, firing>> PROVE Paired'
  BY <1>0, <1>u DEF Paired
<1>n. ASSUME NEW r \in {Pending, Failed, Len(result) + 1}, result' = Append(result, r)
      PROVE  \A id \in 1..Len(result') : result'[id] \in {Pending, Failed, id}
  <2>1. r \in Int
    BY <1>l DEF Pending, Failed
  <2>2. /\ Len(result') = Len(result) + 1
        /\ \A i \in 1..Len(result) : result'[i] = result[i]
        /\ result'[Len(result) + 1] = r
    BY <1>0, <1>n, <2>1, AppendGrows DEF FutureTyped
  <2>3. \A id \in 1..Len(result') : id \in 1..Len(result) \/ id = Len(result) + 1
    BY <1>l, <2>2
  <2> QED BY <1>0, <2>2, <2>3 DEF Paired
<1>s. ASSUME NEW n \in Nodes, NEW kind, NEW asks,
             Sends(n, kind, asks), UNCHANGED <<answers, pending, firing, torn>>
      PROVE  Paired'
  <2>1. /\ result' = Append(result, Pending)
        /\ inFlight' = [inFlight EXCEPT ![n] = Append(@, Len(requests) + 1)]
        /\ wire' = IF n \in torn THEN wire ELSE [wire EXCEPT ![n] = Append(@, Len(requests) + 1)]
    BY <1>s DEF Sends, NewRequest
  <2>2. /\ answers[n] \in Seq(Nat) /\ wire[n] \in Seq(Nat) /\ inFlight[n] \in Seq(Nat)
        /\ Len(requests) + 1 \in Nat
    BY <1>0, <1>l DEF ConnTyped
  <2>3. ASSUME NEW m \in Nodes PROVE Fits(inFlight'[m], answers'[m], wire'[m], m \notin torn')
    <3>1. Fits(inFlight[m], answers[m], wire[m], m \notin torn)
      BY <1>0 DEF Paired
    <3>2. CASE m = n /\ n \notin torn
      <4>1. /\ inFlight'[m] = Append(inFlight[n], Len(requests) + 1)
            /\ wire'[m] = Append(wire[n], Len(requests) + 1)
        BY <1>0, <2>1, <3>2 DEF ConnTyped
      <4>2. Fits(Append(inFlight[n], Len(requests) + 1), answers[n],
                 Append(wire[n], Len(requests) + 1), n \notin torn)
        BY <2>2, <3>1, <3>2, FitsSent
      <4> QED BY <1>s, <3>2, <4>1, <4>2
    <3>3. CASE m = n /\ n \in torn
      <4>1. inFlight'[m] = Append(inFlight[n], Len(requests) + 1) /\ wire' = wire
        BY <1>0, <2>1, <3>3 DEF ConnTyped
      <4>2. Fits(Append(inFlight[n], Len(requests) + 1), answers[n], wire[n], n \notin torn)
        BY <2>2, <3>1, <3>3, FitsUnread
      <4> QED BY <1>s, <3>3, <4>1, <4>2
    <3>4. CASE m # n
      <4>1. inFlight'[m] = inFlight[m] /\ wire'[m] = wire[m]
        BY <1>0, <2>1, <3>4 DEF ConnTyped
      <4> QED BY <1>s, <3>1, <4>1
    <3> QED BY <3>2, <3>3, <3>4
  <2>4. \A id \in 1..Len(result') : result'[id] \in {Pending, Failed, id}
    BY <1>n, <2>1
  <2> QED BY <1>q, <1>s, <2>3, <2>4, Zenon DEF Paired
<1>1. ASSUME NEW n \in Nodes, ClosingStep(n) PROVE Paired'
  <2>1. PICK refresh \in BOOLEAN, a \in {0, Stale} : ClosedLeaving(n, refresh, a) /\ UNCHANGED queueVars
    BY <1>1, Zenon DEF ClosingStep
  <2>2. /\ result' = [id \in DOMAIN result |->
                        IF id \in Range(inFlight[n]) THEN Failed ELSE result[id]]
        /\ inFlight' = [inFlight EXCEPT ![n] = <<>>]
        /\ wire' = [wire EXCEPT ![n] = <<>>] /\ answers' = [answers EXCEPT ![n] = <<>>]
        /\ torn' = torn \ {n} /\ UNCHANGED <<pending, firing>>
    BY <2>1, Zenon DEF ClosedLeaving, Fail, queueVars
  <2>3. DOMAIN result = 1..Len(result) /\ Len(result') = Len(result)
    BY <1>0, <2>2, OpenFails, LenProperties DEF FutureTyped
  <2>4. \A id \in 1..Len(result') : result'[id] \in {Pending, Failed, id}
    BY <1>0, <2>2, <2>3 DEF Paired
  <2>6. ASSUME NEW m \in Nodes PROVE Fits(inFlight'[m], answers'[m], wire'[m], m \notin torn')
    <3>1. Fits(inFlight[m], answers[m], wire[m], m \notin torn)
      BY <1>0 DEF Paired
    <3>2. CASE m = n
      <4>1. inFlight'[m] = <<>> /\ answers'[m] = <<>> /\ wire'[m] = <<>>
        BY <1>0, <2>2, <3>2 DEF ConnTyped
      <4> QED BY <4>1, FitsEmpty
    <3>3. CASE m # n
      <4>1. /\ inFlight'[m] = inFlight[m] /\ answers'[m] = answers[m] /\ wire'[m] = wire[m]
            /\ m \notin torn' => m \notin torn
        BY <1>0, <2>2, <3>3 DEF ConnTyped
      <4> QED BY <3>1, <4>1, FitsLess
    <3> QED BY <3>2, <3>3
  <2> QED BY <1>q, <2>2, <2>4, <2>6, Zenon DEF Paired
<1>2. ASSUME NEW n \in Nodes, Establish(n) \/ Ready(n) \/ ClosesEnd(n) PROVE Paired'
  BY <1>2, <1>u, Zenon DEF Establish, Ready, BeginsConnect, ClosesEnd, connVars, brokenVars, brokerVars,
                          futureVars, queueVars
<1>3. ASSUME NEW n \in Nodes, AsksMechanism(n) PROVE Paired'
  <2>1. Sends(n, "sasl", FALSE) /\ UNCHANGED <<answers, pending, firing, torn>>
    BY <1>3, Zenon DEF AsksMechanism, queueVars, brokenVars
  <2> QED BY <2>1, <1>s
<1>4. ASSUME NEW n \in Nodes, Exchanges(n) PROVE Paired'
  <2>1. /\ answers[n] # <<>> /\ UNCHANGED <<wire, pending, firing, torn>>
        /\ result' = [result EXCEPT ![Head(inFlight[n])] = Head(answers[n])]
        /\ inFlight' = [inFlight EXCEPT ![n] = Tail(@)]
        /\ answers' = [answers EXCEPT ![n] = Tail(@)]
    BY <1>4, Zenon DEF Exchanges, Answered, queueVars
  <2>2. /\ inFlight[n] # <<>> /\ Head(inFlight[n]) = Head(answers[n])
        /\ Fits(Tail(inFlight[n]), Tail(answers[n]), wire[n], n \notin torn)
    BY <1>0, <2>1, AnsweredFirst
  <2>3. ASSUME NEW m \in Nodes PROVE Fits(inFlight'[m], answers'[m], wire'[m], m \notin torn')
    <3>1. Fits(inFlight[m], answers[m], wire[m], m \notin torn)
      BY <1>0 DEF Paired
    <3>2. CASE m = n
      BY <1>0, <2>1, <2>2, <3>2 DEF ConnTyped
    <3>3. CASE m # n
      BY <1>0, <2>1, <3>1, <3>3 DEF ConnTyped
    <3> QED BY <3>2, <3>3
  <2>4. Head(inFlight[n]) \in Range(inFlight[n]) /\ Head(inFlight[n]) \in Nat
    BY <1>0, <2>2, TailDrops DEF ConnTyped, Placed
  <2>5. Head(inFlight[n]) \in 1..Len(result)
    BY <1>0, <2>4 DEF Placed, Spread, FlightIds, OpenIn
  <2>6. /\ Len(result') = Len(result)
        /\ \A id \in 1..Len(result) : result'[id] = IF id = Head(inFlight[n]) THEN id ELSE result[id]
    BY <1>0, <2>1, <2>2, <2>4, <2>5, ExceptSeq DEF FutureTyped
  <2>7. \A id \in 1..Len(result') : result'[id] \in {Pending, Failed, id}
    BY <1>0, <2>6 DEF Paired
  <2> QED BY <1>q, <2>1, <2>3, <2>7, Zenon DEF Paired
<1>5. ASSUME NEW n \in Nodes, Reads(n) PROVE Paired'
  <2>1. PICK k \in 1..Len(answers[n]) :
             /\ pending' = pending \o [i \in 1..k |-> [id |-> inFlight[n][i], answer |-> answers[n][i]]]
             /\ inFlight' = [inFlight EXCEPT ![n] = SubSeq(@, k + 1, Len(@))]
             /\ answers' = [answers EXCEPT ![n] = SubSeq(@, k + 1, Len(@))]
    BY <1>5, Zenon DEF Reads
  <2>2. UNCHANGED <<result, firing, wire, torn>>
    BY <1>5, Zenon DEF Reads, futureVars, brokenVars
  <2> DEFINE r == [i \in 1..k |-> [id |-> inFlight[n][i], answer |-> answers[n][i]]]
  <2>3. r \in Seq(Completions) /\ Len(r) = k /\ \A i \in 1..k : r[i].answer = r[i].id
    BY <1>0, CompletionsTyped
  <2>4. /\ pending' = pending \o r /\ pending \in Seq(Completions)
        /\ \A i \in 1..Len(pending) : pending[i].answer = pending[i].id
    BY <1>0, <2>1 DEF FutureTyped, Paired
  <2> HIDE DEF r
  <2>5. \A i \in 1..Len(pending') : pending'[i].answer = pending'[i].id
    <3>1. /\ Len(pending') = Len(pending) + Len(r)
          /\ \A i \in 1..(Len(pending) + Len(r)) :
               pending'[i] = IF i <= Len(pending) THEN pending[i] ELSE r[i - Len(pending)]
          /\ Len(pending) \in Nat /\ Len(r) \in Nat
      BY <2>3, <2>4, ConcatProperties, LenProperties
    <3> SUFFICES ASSUME NEW i \in 1..Len(pending') PROVE pending'[i].answer = pending'[i].id
      OBVIOUS
    <3>2. CASE i <= Len(pending)
      BY <2>4, <3>1, <3>2
    <3>3. CASE i > Len(pending)
      <4>1. pending'[i] = r[i - Len(pending)] /\ i - Len(pending) \in 1..k
        BY <2>3, <3>1, <3>3
      <4> QED BY <2>3, <4>1
    <3> QED BY <3>1, <3>2, <3>3
  <2>6. Fits(SubSeq(inFlight[n], k + 1, Len(inFlight[n])),
             SubSeq(answers[n], k + 1, Len(answers[n])), wire[n], n \notin torn)
    BY <1>0, AnsweredSome
  <2>7. ASSUME NEW m \in Nodes PROVE Fits(inFlight'[m], answers'[m], wire'[m], m \notin torn')
    <3>1. Fits(inFlight[m], answers[m], wire[m], m \notin torn)
      BY <1>0 DEF Paired
    <3>2. CASE m = n
      BY <1>0, <2>1, <2>2, <2>6, <3>2 DEF ConnTyped
    <3>3. CASE m # n
      BY <1>0, <2>1, <2>2, <3>1, <3>3 DEF ConnTyped
    <3> QED BY <3>2, <3>3
  <2>8. \A t \in Threads : firing'[t].answer = firing'[t].id
    BY <1>0, <2>2 DEF Paired
  <2>9. \A id \in 1..Len(result') : result'[id] \in {Pending, Failed, id}
    BY <1>r, <2>2
  <2> QED BY <2>5, <2>7, <2>8, <2>9, Zenon DEF Paired
<1>6. ASSUME NEW n \in Nodes, MaybeRefresh(n) PROVE Paired'
  <2>1. UNCHANGED <<answers, pending, firing, torn>>
    BY <1>6, Zenon DEF MaybeRefresh, BeginsConnect, queueVars, brokenVars
  <2>2. Sends(n, "metadata", topic) \/ UNCHANGED <<inFlight, wire, result>>
    BY <1>6, Zenon DEF MaybeRefresh, BeginsConnect
  <2> QED BY <1>s, <1>u, <2>1, <2>2
<1>7. ASSUME NEW n \in Nodes, NEW expects \in BOOLEAN, Send(n, expects) PROVE Paired'
  <2>1. UNCHANGED <<answers, pending, firing, torn>>
    BY <1>7, Zenon DEF Send, queueVars, brokenVars
  <2>2. CASE Sends(n, "user", FALSE)
    BY <1>s, <2>1, <2>2
  <2>3. CASE ~Sends(n, "user", FALSE)
    <3>1. /\ NewRequest("user", FALSE, IF CanSend(n) THEN Len(requests) + 1 ELSE Failed)
          /\ UNCHANGED <<inFlight, wire>>
      BY <1>7, <2>3, Zenon DEF Send
    <3>2. \A id \in 1..Len(result') : result'[id] \in {Pending, Failed, id}
      <4>1. result' = Append(result, Len(result) + 1) \/ result' = Append(result, Failed)
        BY <1>l, <3>1 DEF NewRequest
      <4> QED BY <1>n, <4>1
    <3> QED BY <1>c, <1>q, <2>1, <3>1, <3>2, Zenon DEF Paired
  <2> QED BY <2>2, <2>3
<1>8. ASSUME NEW n \in Nodes, Answers(n) PROVE Paired'
  <2>1. /\ wire[n] # <<>>
        /\ wire' = [wire EXCEPT ![n] = Tail(@)]
        /\ answers' = [answers EXCEPT ![n] = Append(@, Head(wire[n]))]
        /\ UNCHANGED <<inFlight, torn, result, pending, firing>>
    BY <1>8, Zenon DEF Answers, connVars, brokenVars, futureVars, queueVars
  <2>2. Fits(inFlight[n], Append(answers[n], Head(wire[n])), Tail(wire[n]), n \notin torn)
    <3>1. /\ inFlight[n] \in Seq(Nat) /\ answers[n] \in Seq(Nat) /\ wire[n] \in Seq(Nat)
          /\ Fits(inFlight[n], answers[n], wire[n], n \notin torn)
      BY <1>0 DEF ConnTyped, Paired
    <3> QED BY <2>1, <3>1, FitsAnswered
  <2>3. ASSUME NEW m \in Nodes PROVE Fits(inFlight'[m], answers'[m], wire'[m], m \notin torn')
    <3>1. Fits(inFlight[m], answers[m], wire[m], m \notin torn)
      BY <1>0 DEF Paired
    <3>2. CASE m = n
      BY <1>0, <2>1, <2>2, <3>1, <3>2 DEF ConnTyped
    <3>3. CASE m # n
      BY <1>0, <2>1, <3>1, <3>3 DEF ConnTyped
    <3> QED BY <3>2, <3>3
  <2> QED BY <1>q, <1>r, <2>1, <2>3, Zenon DEF Paired
<1>9. ASSUME NEW t \in Threads, Takes(t) PROVE Paired'
  <2>1. /\ pending # <<>> /\ firing' = [firing EXCEPT ![t] = Head(pending)]
        /\ pending' = Tail(pending) /\ UNCHANGED <<result, inFlight, answers, wire, torn>>
    BY <1>9, Zenon DEF Takes, futureVars, connVars, brokenVars, brokerVars
  <2>2. /\ \A i \in 1..Len(Tail(pending)) : Tail(pending)[i] = pending[i + 1] /\ i + 1 \in 1..Len(pending)
        /\ Head(pending) = pending[1] /\ 1 \in 1..Len(pending)
    BY <1>0, <2>1, TailIds DEF FutureTyped, Placed
  <2>3. \A i \in 1..Len(pending') : pending'[i].answer = pending'[i].id
    BY <1>0, <2>1, <2>2 DEF Paired
  <2>4. Head(pending).answer = Head(pending).id
    BY <1>0, <2>2 DEF Paired
  <2>5. \A u \in Threads : firing'[u].answer = firing'[u].id
    BY <1>0, <2>1, <2>4 DEF Paired, FutureTyped
  <2> QED BY <1>c, <1>r, <2>1, <2>3, <2>5, Zenon DEF Paired
<1>10. ASSUME NEW t \in Threads, Fires(t) PROVE Paired'
  <2>1. /\ firing[t] # None /\ firing' = [firing EXCEPT ![t] = None]
        /\ result' = [result EXCEPT ![firing[t].id] = firing[t].answer]
        /\ UNCHANGED <<inFlight, answers, wire, torn, pending>>
    BY <1>10, Zenon DEF Fires, connVars, brokenVars, brokerVars
  <2>2. firing[t] \in Completions /\ firing[t].answer = firing[t].id
    BY <1>0 DEF FutureTyped, Paired
  <2>3. firing[t].id # 0
    BY <2>1, <2>2 DEF Completions, None
  <2>4. firing[t].id \in 1..Len(result)
    BY <1>0, <2>3 DEF Placed, Spread, FiringIds, OpenIn
  <2>5. firing[t].answer \in Int
    BY <2>2 DEF Completions
  <2>6. /\ Len(result') = Len(result)
        /\ \A id \in 1..Len(result) : result'[id] = IF id = firing[t].id THEN id ELSE result[id]
    BY <1>0, <2>1, <2>2, <2>4, <2>5, ExceptSeq DEF FutureTyped
  <2>7. \A id \in 1..Len(result') : result'[id] \in {Pending, Failed, id}
    BY <1>0, <2>6 DEF Paired
  <2>8. /\ \A i \in 1..Len(pending') : pending'[i].answer = pending'[i].id
        /\ \A u \in Threads : firing'[u].answer = firing'[u].id
    BY <1>0, <2>1 DEF Paired, FutureTyped, None
  <2> QED BY <1>c, <2>1, <2>7, <2>8, Zenon DEF Paired
<1>11. CASE Ages \/ UNCHANGED vars
  BY <1>11, <1>u, Zenon DEF Ages, vars, connVars, brokenVars, brokerVars, futureVars, queueVars
<1>12. ASSUME NEW w \in Waiters, AddTopic(w) \/ Check(w) \/ Woken(w) \/ GivesUp(w) PROVE Paired'
  BY <1>u, <1>12, Zenon DEF AddTopic, Check, Woken, GivesUp, connVars, brokenVars, brokerVars,
                           futureVars, queueVars
<1>13. ASSUME NEW n \in Nodes, Breaks(n) PROVE Paired'
  <2>1. /\ torn' \in {torn, torn \union {n}}
        /\ UNCHANGED <<inFlight, answers, wire, result, pending, firing>>
    BY <1>13, Zenon DEF Breaks, brokerVars, futureVars, queueVars
  <2>2. ASSUME NEW m \in Nodes PROVE Fits(inFlight'[m], answers'[m], wire'[m], m \notin torn')
    <3>1. Fits(inFlight[m], answers[m], wire[m], m \notin torn) /\ (m \notin torn' => m \notin torn)
      BY <1>0, <2>1 DEF Paired
    <3>2. Fits(inFlight[m], answers[m], wire[m], m \notin torn')
      BY <3>1, FitsLess
    <3> QED BY <2>1, <3>2
  <2> QED BY <1>q, <1>r, <2>1, <2>2, Zenon DEF Paired
<1> QED BY <1>1, <1>2, <1>3, <1>4, <1>5, <1>6, <1>7, <1>8, <1>9, <1>10, <1>11, <1>12, <1>13, NextCases, Zenon

-----------------------------------------------------------------------------
(* Requests stay in one place each. *)

LEMMA PlacedStep == IInv /\ [Next]_vars => Placed'
<1> SUFFICES ASSUME IInv, [Next]_vars PROVE Placed'
  OBVIOUS
<1>0. ConnTyped /\ FutureTyped /\ Paired /\ Placed
  BY DEF IInv
<1>l. Len(result) \in Nat /\ Len(requests) = Len(result)
  BY <1>0, LenProperties DEF FutureTyped
<1>f. \A n \in Nodes : FlightIds[n] = Range(inFlight[n]) /\ FlightIds'[n] = Range(inFlight'[n])
  BY DEF FlightIds
<1>g. \A t \in Threads : FiringIds[t] = firing[t].id /\ FiringIds'[t] = firing'[t].id
  BY DEF FiringIds
<1>h. Spread(FlightIds, IdsOf(pending), FiringIds, OpenIn(result))
  BY <1>0 DEF Placed
<1>u. ASSUME UNCHANGED <<inFlight, result, pending, firing>> PROVE Placed'
  <2>1. UNCHANGED <<FlightIds, FiringIds>>
    BY <1>u DEF FlightIds, FiringIds
  <2> QED BY <1>0, <1>u, <2>1 DEF Placed
\* The queue and the threads are left alone; so are the other connections.
<1>q. ASSUME UNCHANGED <<pending, firing>>, \A n \in Nodes : Once(inFlight'[n]),
             Spread(FlightIds', IdsOf(pending), FiringIds, OpenIn(result'))
      PROVE  Placed'
  <2>1. UNCHANGED FiringIds
    BY <1>q DEF FiringIds
  <2> QED BY <1>0, <1>q, <2>1 DEF Placed
<1>n. ASSUME NEW n \in Nodes, NEW q, inFlight' = [inFlight EXCEPT ![n] = q], Once(q)
      PROVE  /\ \A m \in Nodes : Once(inFlight'[m])
             /\ \A m \in Nodes : FlightIds'[m] = IF m = n THEN Range(q) ELSE FlightIds[m]
  <2>1. \A m \in Nodes : inFlight'[m] = IF m = n THEN q ELSE inFlight[m]
    BY <1>0, <1>n DEF ConnTyped
  <2> QED BY <1>0, <1>f, <1>n, <2>1 DEF Placed
<1>s. ASSUME NEW n \in Nodes, NEW kind, NEW asks,
             Sends(n, kind, asks), UNCHANGED <<pending, firing>>
      PROVE  Placed'
  <2> DEFINE x == Len(result) + 1
  <2>1. /\ result' = Append(result, Pending)
        /\ inFlight' = [inFlight EXCEPT ![n] = Append(inFlight[n], x)]
    BY <1>l, <1>s DEF Sends, NewRequest
  <2>2. OpenIn(result') = OpenIn(result) \union {x} /\ x \notin OpenIn(result) /\ x \in Nat /\ x # 0
    BY <1>0, <1>l, <2>1, OpenAdds DEF FutureTyped, Pending
  <2> HIDE DEF x
  <2>3. inFlight[n] \in Seq(Nat) /\ Once(inFlight[n]) /\ x \notin Range(inFlight[n])
    BY <1>0, <1>f, <1>h, <2>2 DEF ConnTyped, Placed, Spread
  <2>4. /\ Once(Append(inFlight[n], x))
        /\ Range(Append(inFlight[n], x)) = FlightIds[n] \union {x}
    BY <1>f, <2>2, <2>3, AppendRange, AppendOnce
  <2>5. /\ \A m \in Nodes : Once(inFlight'[m])
        /\ Joined(FlightIds, FlightIds', n, x)
    BY <1>n, <2>1, <2>4 DEF Joined
  <2>6. Spread(FlightIds', IdsOf(pending), FiringIds, OpenIn(result'))
    <3>1. Spread(FlightIds', IdsOf(pending), FiringIds, OpenIn(result) \union {x})
      BY <1>h, <2>2, <2>5, SpreadSent
    <3> QED BY <2>2, <3>1
  <2> QED BY <1>q, <1>s, <2>5, <2>6
<1>1. ASSUME NEW n \in Nodes, ClosingStep(n) PROVE Placed'
  <2>1. PICK refresh \in BOOLEAN, a \in {0, Stale} : ClosedLeaving(n, refresh, a) /\ UNCHANGED queueVars
    BY <1>1, Zenon DEF ClosingStep
  <2>2. /\ result' = [id \in DOMAIN result |->
                        IF id \in Range(inFlight[n]) THEN Failed ELSE result[id]]
        /\ inFlight' = [inFlight EXCEPT ![n] = <<>>]
        /\ UNCHANGED <<pending, firing>>
    BY <2>1, Zenon DEF ClosedLeaving, Fail, queueVars
  <2>3. OpenIn(result') = OpenIn(result) \ FlightIds[n]
    BY <1>0, <1>f, <2>2, OpenFails DEF FutureTyped
  <2>4. Once(<<>>) /\ Range(<<>>) = FlightIds[n] \ FlightIds[n]
    <3>1. <<>> \in Seq(Nat) /\ Len(<<>>) = 0 /\ 1..0 = {}
      OBVIOUS
    <3>2. Range(<<>>) = {<<>>[i] : i \in 1..0}
      BY <3>1, RangeIs, Zenon
    <3> QED BY <3>1, <3>2 DEF Once
  <2>5. /\ \A m \in Nodes : Once(inFlight'[m])
        /\ Left(FlightIds, FlightIds', n, FlightIds[n])
    BY <1>n, <2>2, <2>4 DEF Left
  <2>6. Spread(FlightIds', IdsOf(pending), FiringIds, OpenIn(result'))
    <3>1. Spread(FlightIds', IdsOf(pending), FiringIds, OpenIn(result) \ FlightIds[n])
      BY <1>h, <2>5, SpreadEnded
    <3> QED BY <2>3, <3>1
  <2> QED BY <1>q, <2>2, <2>5, <2>6
<1>2. ASSUME NEW n \in Nodes, Establish(n) \/ Breaks(n) \/ Ready(n) \/ Answers(n) \/ ClosesEnd(n)
      PROVE  Placed'
  BY <1>2, <1>u, Zenon DEF Establish, Breaks, Ready, BeginsConnect, Answers, ClosesEnd, connVars,
                          futureVars, queueVars
<1>3. ASSUME NEW n \in Nodes, AsksMechanism(n) PROVE Placed'
  <2>1. Sends(n, "sasl", FALSE) /\ UNCHANGED <<pending, firing>>
    BY <1>3, Zenon DEF AsksMechanism, queueVars
  <2> QED BY <2>1, <1>s
<1>4. ASSUME NEW n \in Nodes, Exchanges(n) PROVE Placed'
  <2> DEFINE x == Head(inFlight[n])
  <2>1. /\ answers[n] # <<>> /\ UNCHANGED <<pending, firing>>
        /\ result' = [result EXCEPT ![x] = Head(answers[n])]
        /\ inFlight' = [inFlight EXCEPT ![n] = Tail(inFlight[n])]
    BY <1>4, Zenon DEF Exchanges, Answered, queueVars
  <2>2. inFlight[n] # <<>> /\ x = Head(answers[n])
    BY <1>0, <2>1, AnsweredFirst
  <2>3. /\ x \in Range(inFlight[n]) /\ x \in Nat /\ Once(Tail(inFlight[n]))
        /\ Range(Tail(inFlight[n])) = FlightIds[n] \ {x}
    BY <1>0, <1>f, <2>2, TailDrops DEF ConnTyped, Placed
  <2> HIDE DEF x
  <2>4. x \in OpenIn(result) /\ {x} \subseteq FlightIds[n]
    BY <1>f, <1>h, <2>3 DEF Spread
  <2>5. OpenIn(result') = OpenIn(result) \ {x}
    <3>1. x \in Int /\ x # Pending /\ result \in Seq(Int)
      BY <1>0, <2>3 DEF FutureTyped, Pending
    <3>2. result' = [result EXCEPT ![x] = x]
      BY <2>1, <2>2
    <3> QED BY <2>4, <3>1, <3>2, OpenEnds
  <2>6. /\ \A m \in Nodes : Once(inFlight'[m])
        /\ Left(FlightIds, FlightIds', n, {x})
    BY <1>n, <2>1, <2>3 DEF Left
  <2>7. Spread(FlightIds', IdsOf(pending), FiringIds, OpenIn(result'))
    <3>1. Spread(FlightIds', IdsOf(pending), FiringIds, OpenIn(result) \ {x})
      BY <1>h, <2>4, <2>6, SpreadEnded
    <3> QED BY <2>5, <3>1
  <2> QED BY <1>q, <2>1, <2>6, <2>7
<1>5. ASSUME NEW n \in Nodes, Reads(n) PROVE Placed'
  <2>1. PICK k \in 1..Len(answers[n]) :
             /\ pending' = pending \o [i \in 1..k |-> [id |-> inFlight[n][i], answer |-> answers[n][i]]]
             /\ inFlight' = [inFlight EXCEPT ![n] = SubSeq(inFlight[n], k + 1, Len(inFlight[n]))]
    BY <1>5, Zenon DEF Reads
  <2>2. UNCHANGED <<result, firing>>
    BY <1>5, Zenon DEF Reads, futureVars
  <2> DEFINE r == [i \in 1..k |-> [id |-> inFlight[n][i], answer |-> answers[n][i]]]
             S == {inFlight[n][i] : i \in 1..k}
             rest == SubSeq(inFlight[n], k + 1, Len(inFlight[n]))
  <2>3. r \in Seq(Completions) /\ Len(r) = k /\ \A i \in 1..k : r[i].id = inFlight[n][i]
    BY <1>0, CompletionsTyped
  <2>4. k \in 1..Len(inFlight[n]) /\ inFlight[n] \in Seq(Nat) /\ Once(inFlight[n])
    BY <1>0, AnsweredSome DEF ConnTyped, Placed
  <2>5. Once(rest) /\ Range(rest) = FlightIds[n] \ S
    BY <1>f, <2>4, DropFirst
  <2>6. S \subseteq FlightIds[n]
    <3>1. FlightIds[n] = {inFlight[n][i] : i \in 1..Len(inFlight[n])}
      BY <1>f, <2>4, RangeIs
    <3>2. \A i \in 1..k : i \in 1..Len(inFlight[n])
      BY <2>4, LenProperties
    <3> QED BY <3>1, <3>2
  <2>7. IdsOf(r) = S
    BY <2>3 DEF IdsOf
  <2>8. OnceIds(r)
    <3>1. \A i \in 1..k : i \in 1..Len(inFlight[n])
      BY <2>4, LenProperties
    <3> QED BY <2>3, <2>4, <3>1 DEF OnceIds, Once
  <2>9. pending' = pending \o r
    BY <2>1
  <2>10. inFlight' = [inFlight EXCEPT ![n] = rest]
    BY <2>1
  <2> HIDE DEF r, S, rest
  <2>11. /\ \A m \in Nodes : Once(inFlight'[m])
         /\ Left(FlightIds, FlightIds', n, S)
    BY <1>n, <2>5, <2>10 DEF Left
  <2>12. Spread(FlightIds', IdsOf(pending) \union S, FiringIds, OpenIn(result)) /\ IdsOf(pending) \cap S = {}
    BY <1>h, <2>6, <2>11, SpreadQueued
  <2>13. OnceIds(pending') /\ IdsOf(pending') = IdsOf(pending) \union S
    BY <1>0, <2>3, <2>7, <2>8, <2>9, <2>12, QueueGrows DEF FutureTyped, Placed
  <2>14. UNCHANGED FiringIds
    BY <2>2 DEF FiringIds
  <2> QED BY <2>2, <2>11, <2>12, <2>13, <2>14 DEF Placed
<1>6. ASSUME NEW n \in Nodes, MaybeRefresh(n) PROVE Placed'
  <2>1. UNCHANGED <<pending, firing>>
    BY <1>6, Zenon DEF MaybeRefresh, queueVars
  <2>2. Sends(n, "metadata", topic) \/ UNCHANGED <<inFlight, result>>
    BY <1>6, Zenon DEF MaybeRefresh, BeginsConnect
  <2> QED BY <1>s, <1>u, <2>1, <2>2
<1>7. ASSUME NEW n \in Nodes, NEW expects \in BOOLEAN, Send(n, expects) PROVE Placed'
  <2>1. UNCHANGED <<pending, firing>>
    BY <1>7, Zenon DEF Send, queueVars
  <2>2. CASE Sends(n, "user", FALSE)
    BY <1>s, <2>1, <2>2
  <2>3. CASE ~Sends(n, "user", FALSE)
    <3>1. /\ NewRequest("user", FALSE, IF CanSend(n) THEN Len(requests) + 1 ELSE Failed)
          /\ UNCHANGED inFlight
      BY <1>7, <2>3, Zenon DEF Send
    <3>2. PICK r \in {Len(result) + 1, Failed} : result' = Append(result, r)
      BY <1>l, <3>1 DEF NewRequest
    <3>3. r \in Int /\ r # Pending
      BY <1>l DEF Failed, Pending
    <3>4. OpenIn(result') = OpenIn(result)
      BY <1>0, <3>2, <3>3, OpenAdds DEF FutureTyped
    <3>5. UNCHANGED FlightIds
      BY <3>1 DEF FlightIds
    <3> QED BY <1>0, <1>h, <1>q, <2>1, <3>1, <3>4, <3>5 DEF Placed
  <2> QED BY <2>2, <2>3
<1>8. ASSUME NEW t \in Threads, Takes(t) PROVE Placed'
  <2> DEFINE x == Head(pending).id
  <2>1. /\ pending # <<>> /\ firing[t] = None
        /\ firing' = [firing EXCEPT ![t] = Head(pending)]
        /\ pending' = Tail(pending) /\ UNCHANGED <<result, inFlight>>
    BY <1>8, Zenon DEF Takes, futureVars, connVars
  <2>2. x \in IdsOf(pending) /\ OnceIds(pending') /\ IdsOf(pending') = IdsOf(pending) \ {x}
    BY <1>0, <2>1, TailIds DEF FutureTyped, Placed
  <2>3. FiringIds[t] = 0
    BY <1>g, <2>1 DEF None
  <2>4. \A u \in Threads : FiringIds'[u] = IF u = t THEN x ELSE FiringIds[u]
    BY <1>0, <1>g, <2>1 DEF FutureTyped
  <2> HIDE DEF x
  <2>5. Spread(FlightIds, IdsOf(pending) \ {x}, FiringIds', OpenIn(result))
    BY <1>h, <2>2, <2>3, <2>4, SpreadTaken, Zenon
  <2>6. UNCHANGED FlightIds
    BY <2>1 DEF FlightIds
  <2> QED BY <1>0, <2>1, <2>2, <2>5, <2>6 DEF Placed
<1>9. ASSUME NEW t \in Threads, Fires(t) PROVE Placed'
  <2> DEFINE x == FiringIds[t]
  <2>1. /\ firing[t] # None /\ firing' = [firing EXCEPT ![t] = None]
        /\ result' = [result EXCEPT ![firing[t].id] = firing[t].answer]
        /\ UNCHANGED <<inFlight, pending>>
    BY <1>9, Zenon DEF Fires, connVars
  <2>2. firing[t] \in Completions /\ firing[t].answer = firing[t].id
    BY <1>0 DEF FutureTyped, Paired
  <2>3. x # 0 /\ x \in Int /\ x # Pending /\ result' = [result EXCEPT ![x] = x]
    <3>1. x = firing[t].id /\ firing[t].id \in Nat
      BY <1>g, <2>2 DEF Completions
    <3>2. firing[t].id # 0
      BY <2>1, <2>2 DEF Completions, None
    <3> HIDE DEF x
    <3>3. result' = [result EXCEPT ![x] = x]
      BY <2>1, <2>2, <3>1
    <3> QED BY <3>1, <3>2, <3>3 DEF Pending
  <2>4. \A u \in Threads : FiringIds'[u] = IF u = t THEN 0 ELSE FiringIds[u]
    BY <1>0, <1>g, <2>1 DEF FutureTyped, None
  <2>5. Spread(FlightIds, IdsOf(pending), FiringIds', OpenIn(result) \ {x}) /\ x \in OpenIn(result)
    BY <1>h, <2>3, <2>4, SpreadFired
  <2> HIDE DEF x
  <2>6. OpenIn(result') = OpenIn(result) \ {x}
    BY <1>0, <2>3, <2>5, OpenEnds DEF FutureTyped
  <2>7. UNCHANGED FlightIds
    BY <2>1 DEF FlightIds
  <2> QED BY <1>0, <2>1, <2>5, <2>6, <2>7 DEF Placed
<1>10. CASE Ages \/ UNCHANGED vars
  BY <1>10, <1>u, Zenon DEF Ages, vars, connVars, futureVars, queueVars
<1>11. ASSUME NEW w \in Waiters, AddTopic(w) \/ Check(w) \/ Woken(w) \/ GivesUp(w) PROVE Placed'
  BY <1>u, <1>11, Zenon DEF AddTopic, Check, Woken, GivesUp, connVars, futureVars, queueVars
<1> QED BY <1>1, <1>2, <1>3, <1>4, <1>5, <1>6, <1>7, <1>8, <1>9, <1>10, <1>11, NextCases, Zenon

-----------------------------------------------------------------------------
(* The selector fits. *)

LEMMA SelectorStep == IInv /\ [Next]_vars => SelectorFits'
<1> SUFFICES ASSUME IInv, [Next]_vars PROVE SelectorFits'
  OBVIOUS
<1>0. ConnTyped /\ SelectorFits
  BY DEF IInv
<1>u. ASSUME UNCHANGED <<state, connecting, selector>> PROVE SelectorFits'
  BY <1>0, <1>u DEF SelectorFits, Connecting
\* A connection moves to state next, registered for event.
<1>m. ASSUME NEW n \in Nodes, NEW next, NEW event,
             state' = [state EXCEPT ![n] = next], selector' = [selector EXCEPT ![n] = event],
             \A m \in Nodes : m # n => (m \in connecting' <=> m \in connecting),
             n \in connecting' <=> next \in {"connecting", "handshake", "authenticating"},
             event = CASE next \in {"connecting", "handshake", "authenticating"} -> "write"
                       [] next = "connected" -> "read" [] OTHER -> "none"
      PROVE  SelectorFits'
  <2> SUFFICES ASSUME NEW m \in Nodes
               PROVE  /\ m \in connecting' <=> Connecting(m)'
                      /\ selector'[m] = CASE Connecting(m)' -> "write"
                                          [] state'[m] = "connected" -> "read" [] OTHER -> "none"
    BY DEF SelectorFits
  <2>1. CASE m = n
    <3>1. state'[m] = next /\ selector'[m] = event
      BY <1>0, <1>m, <2>1 DEF ConnTyped
    <3>2. Connecting(m)' <=> next \in {"connecting", "handshake", "authenticating"}
      BY <3>1 DEF Connecting
    <3> QED BY <1>m, <2>1, <3>1, <3>2
  <2>2. CASE m # n
    <3>1. state'[m] = state[m] /\ selector'[m] = selector[m]
      BY <1>0, <1>m, <2>2 DEF ConnTyped
    <3>2. Connecting(m)' <=> Connecting(m)
      BY <3>1 DEF Connecting
    <3> QED BY <1>0, <1>m, <2>2, <3>1, <3>2 DEF SelectorFits
  <2> QED BY <2>1, <2>2
<1>c. ASSUME NEW n \in Nodes, Connected(n) PROVE SelectorFits'
  <2>1. /\ state' = [state EXCEPT ![n] = "connected"] /\ selector' = [selector EXCEPT ![n] = "read"]
        /\ connecting' = connecting \ {n}
    BY <1>c DEF Connected
  <2> QED BY <1>m, <2>1
<1>v. ASSUME NEW n \in connecting, NEW next \in {"handshake", "authenticating"}, Moves(n, next)
      PROVE  SelectorFits'
  <2>1. n \in Nodes /\ selector \in [Nodes -> {"none", "write", "read"}]
    BY <1>0, <1>v DEF ConnTyped
  <2>2. Connecting(n) /\ selector[n] = "write"
    <3>1. /\ n \in connecting <=> Connecting(n)
          /\ selector[n] = CASE Connecting(n) -> "write" [] state[n] = "connected" -> "read"
                              [] OTHER -> "none"
      BY <1>0, <2>1, Zenon DEF SelectorFits
    <3>2. Connecting(n)
      BY <1>v, <3>1
    <3>3. state[n] # "connected"
      BY <3>2 DEF Connecting
    <3> QED BY <3>1, <3>2, <3>3
  <2>3. /\ state' = [state EXCEPT ![n] = next] /\ connecting' = connecting
        /\ selector' = selector
    BY <1>v, Zenon DEF Moves
  <2>4. selector' = [selector EXCEPT ![n] = "write"]
    BY <2>1, <2>2, <2>3
  <2>5. \A m \in Nodes : m # n => (m \in connecting' <=> m \in connecting)
    BY <2>3
  <2>6. n \in connecting'
    BY <1>v, <2>3
  <2> QED BY <1>m, <2>1, <2>3, <2>4, <2>5, <2>6
<1>b. ASSUME NEW n \in Nodes, BeginsConnect(n) PROVE SelectorFits'
  <2>1. /\ state' = [state EXCEPT ![n] = "connecting"] /\ selector' = [selector EXCEPT ![n] = "write"]
        /\ connecting' = connecting \union {n}
    BY <1>b DEF BeginsConnect
  <2> QED BY <1>m, <2>1
<1>1. ASSUME NEW n \in Nodes, ClosingStep(n) PROVE SelectorFits'
  <2>1. PICK refresh \in BOOLEAN, a \in {0, Stale} : ClosedLeaving(n, refresh, a)
    BY <1>1, Zenon DEF ClosingStep
  <2>2. /\ state' = [state EXCEPT ![n] = "disconnected"] /\ selector' = [selector EXCEPT ![n] = "none"]
        /\ connecting' = connecting \ {n}
    BY <2>1, Zenon DEF ClosedLeaving
  <2> QED BY <1>m, <2>2
<1>2. ASSUME NEW n \in Nodes, Establish(n) PROVE SelectorFits'
  <2>1. n \in connecting
    BY <1>2, Zenon DEF Establish
  <2>2. \/ Connected(n) \/ Moves(n, "authenticating") \/ Moves(n, "handshake")
    BY <1>2 DEF Establish
  <2> QED BY <1>c, <1>v, <2>1, <2>2
<1>3. ASSUME NEW n \in Nodes, Exchanges(n) PROVE SelectorFits'
  BY <1>c, <1>u, <1>3, Zenon DEF Exchanges
<1>4. ASSUME NEW n \in Nodes, Ready(n) PROVE SelectorFits'
  BY <1>b, <1>4, Zenon DEF Ready
<1>5. ASSUME NEW n \in Nodes, MaybeRefresh(n) PROVE SelectorFits'
  BY <1>b, <1>u, <1>5, Zenon DEF MaybeRefresh
<1>6. ASSUME NEW n \in Nodes,
             \/ AsksMechanism(n) \/ Breaks(n) \/ Reads(n) \/ (\E expects \in BOOLEAN : Send(n, expects))
             \/ Answers(n) \/ ClosesEnd(n)
      PROVE  SelectorFits'
  BY <1>u, <1>6, Zenon DEF AsksMechanism, Breaks, Reads, Send, Answers, ClosesEnd, connVars
<1>7. ASSUME NEW t \in Threads, Takes(t) \/ Fires(t) PROVE SelectorFits'
  BY <1>u, <1>7, Zenon DEF Takes, Fires, connVars
<1>8. CASE Ages \/ UNCHANGED vars
  BY <1>u, <1>8, Zenon DEF Ages, vars, connVars
<1>9. ASSUME NEW w \in Waiters, AddTopic(w) \/ Check(w) \/ Woken(w) \/ GivesUp(w) PROVE SelectorFits'
  BY <1>u, <1>9, Zenon DEF AddTopic, Check, Woken, GivesUp, connVars
<1> QED BY <1>1, <1>2, <1>3, <1>4, <1>5, <1>6, <1>7, <1>8, <1>9, NextCases, Zenon

-----------------------------------------------------------------------------
(* The flag of the refresh says the truth. *)

\* One more request.
LEMMA AskingAdds ==
  ASSUME FutureTyped, NEW kind, NEW asks, NEW r \in Int,
         [kind |-> kind, asks |-> asks] \in [kind : {"user", "metadata", "sasl"}, asks : BOOLEAN],
         NewRequest(kind, asks, r)
  PROVE  /\ \A id \in 1..Len(requests) : requests'[id] = requests[id]
         /\ requests'[Len(requests) + 1].kind = kind
         /\ kind # "metadata" \/ r # Pending =>
              AskingIn(requests', OpenIn(result')) = AskingIn(requests, OpenIn(result))
         /\ kind = "metadata" /\ r = Pending =>
              AskingIn(requests', OpenIn(result'))
                = AskingIn(requests, OpenIn(result)) \union {Len(requests) + 1}
<1>1. /\ \A id \in 1..Len(requests) : requests'[id] = requests[id]
      /\ requests'[Len(requests) + 1] = [kind |-> kind, asks |-> asks]
  BY AppendGrows DEF FutureTyped, NewRequest
<1>2. /\ r = Pending => OpenIn(result') = OpenIn(result) \union {Len(requests) + 1}
      /\ r # Pending => OpenIn(result') = OpenIn(result)
      /\ Len(requests) + 1 \notin OpenIn(result)
  BY OpenAdds DEF FutureTyped, NewRequest
<1>3. OpenIn(result) \subseteq 1..Len(requests)
  BY DEF FutureTyped, OpenIn
<1>4. requests'[Len(requests) + 1].kind = kind
  BY <1>1
<1>5. \A id \in OpenIn(result) : requests'[id] = requests[id]
  BY <1>1, <1>3
<1>6. ASSUME r # Pending
      PROVE  AskingIn(requests', OpenIn(result')) = AskingIn(requests, OpenIn(result))
  BY <1>2, <1>5, <1>6 DEF AskingIn
<1>7. ASSUME r = Pending, kind # "metadata"
      PROVE  AskingIn(requests', OpenIn(result')) = AskingIn(requests, OpenIn(result))
  BY <1>2, <1>4, <1>5, <1>7 DEF AskingIn
<1>8. ASSUME r = Pending, kind = "metadata"
      PROVE  AskingIn(requests', OpenIn(result'))
               = AskingIn(requests, OpenIn(result)) \union {Len(requests) + 1}
  BY <1>2, <1>4, <1>5, <1>8 DEF AskingIn
<1> QED BY <1>1, <1>4, <1>6, <1>7, <1>8

LEMMA RefreshingStep == IInv /\ [Next]_vars => Refreshing'
<1> SUFFICES ASSUME IInv, [Next]_vars PROVE Refreshing'
  OBVIOUS
<1>0. ConnTyped /\ FutureTyped /\ MetaTyped /\ Paired /\ Placed /\ Refreshing
  BY DEF IInv
<1>p. /\ Spread(FlightIds, IdsOf(pending), FiringIds, OpenIn(result))
      /\ \A n \in Nodes : FlightIds[n] = Range(inFlight[n])
      /\ \A n \in Nodes : FlightIds[n] \subseteq OpenIn(result)
      /\ \A n \in Nodes : \A id \in FlightIds[n] : id \in 1..Len(requests)
  <2>1. Spread(FlightIds, IdsOf(pending), FiringIds, OpenIn(result))
    BY <1>0 DEF Placed
  <2>2. \A n \in Nodes : FlightIds[n] = Range(inFlight[n])
    BY DEF FlightIds
  <2>3. \A n \in Nodes : FlightIds[n] \subseteq OpenIn(result)
    BY <2>1 DEF Spread
  <2>4. OpenIn(result) \subseteq 1..Len(requests)
    BY <1>0 DEF OpenIn, FutureTyped
  <2> QED BY <2>1, <2>2, <2>3, <2>4
<1> DEFINE asking == AskingIn(requests, OpenIn(result))
           Told == IF inProgress THEN \E x : asking = {x} ELSE asking = {}
           Quiet == \A n \in Nodes : state[n] # "connected" =>
                      \A id \in Range(inFlight[n]) : requests[id].kind = "sasl"
<1>i. Told /\ Quiet
  BY <1>0 DEF Refreshing
<1>j. ASSUME Told', Quiet' PROVE Refreshing'
  BY <1>j DEF Refreshing
<1>u. ASSUME UNCHANGED <<inProgress, requests, result>> PROVE Told'
  BY <1>i, <1>u
<1>v. ASSUME UNCHANGED <<state, inFlight, requests>> PROVE Quiet'
  BY <1>i, <1>v
<1>w. ASSUME UNCHANGED <<inProgress, state, inFlight, requests, result>> PROVE Refreshing'
  BY <1>j, <1>u, <1>v, <1>w
<1> HIDE DEF asking, Told, Quiet
<1>1. ASSUME NEW n \in Nodes, ClosingStep(n) PROVE Refreshing'
  <2>1. PICK refresh \in BOOLEAN, a \in {0, Stale} : ClosedLeaving(n, refresh, a)
    BY <1>1, Zenon DEF ClosingStep
  <2>2. /\ result' = [id \in DOMAIN result |->
                        IF id \in Range(inFlight[n]) THEN Failed ELSE result[id]]
        /\ inFlight' = [inFlight EXCEPT ![n] = <<>>]
        /\ state' = [state EXCEPT ![n] = "disconnected"]
        /\ UNCHANGED requests
    BY <2>1, Zenon DEF ClosedLeaving, Fail
  <2>3. OpenIn(result') = OpenIn(result) \ FlightIds[n]
    BY <1>0, <1>p, <2>2, OpenFails DEF FutureTyped
  <2>4. asking' = asking \ FlightIds[n]
    BY <2>2, <2>3 DEF AskingIn, asking
  <2>5. ASSUME \E id \in Range(inFlight[n]) : IsMetadata(id) PROVE Told'
    <3>1. inProgress' = FALSE
      BY <2>1, <2>5, Zenon DEF ClosedLeaving, UpdateDone
    <3>2. PICK id \in FlightIds[n] : id \in asking
      BY <1>p, <2>5 DEF IsMetadata, AskingIn, asking
    <3>3. asking' = {}
      BY <1>i, <2>4, <3>2 DEF Told
    <3> QED BY <3>1, <3>3 DEF Told
  <2>6. ASSUME ~\E id \in Range(inFlight[n]) : IsMetadata(id) PROVE Told'
    <3>1. UNCHANGED inProgress
      BY <2>1, <2>6, Zenon DEF ClosedLeaving
    <3>2. \A id \in FlightIds[n] : id \notin asking
      BY <1>p, <2>6 DEF IsMetadata, AskingIn, asking
    <3>3. asking' = asking
      BY <2>4, <3>2
    <3> QED BY <1>i, <3>1, <3>3 DEF Told
  <2>7. Told'
    BY <2>5, <2>6
  <2>8. Range(<<>>) = {}
    <3>1. <<>> \in Seq(Nat) /\ Len(<<>>) = 0 /\ 1..0 = {}
      OBVIOUS
    <3>2. Range(<<>>) = {<<>>[i] : i \in 1..0}
      BY <3>1, RangeIs, Zenon
    <3> QED BY <3>1, <3>2
  <2>9. Quiet'
    <3> SUFFICES ASSUME NEW m \in Nodes, state'[m] # "connected", NEW id \in Range(inFlight'[m])
                 PROVE  requests'[id].kind = "sasl"
      BY DEF Quiet
    <3>1. m # n
      BY <1>0, <2>2, <2>8 DEF ConnTyped
    <3>2. state'[m] = state[m] /\ inFlight'[m] = inFlight[m]
      BY <1>0, <2>2, <3>1 DEF ConnTyped
    <3> QED BY <1>i, <2>2, <3>2 DEF Quiet
  <2> QED BY <1>j, <2>7, <2>9
\* A request is sent on connection n.
<1>s. ASSUME NEW n \in Nodes, NEW kind \in {"user", "metadata", "sasl"}, NEW asks \in BOOLEAN,
             Sends(n, kind, asks), UNCHANGED state, state[n] = "connected" \/ kind = "sasl"
      PROVE  Quiet' /\ asking' = IF kind = "metadata" THEN asking \union {Len(requests) + 1} ELSE asking
  <2>1. /\ NewRequest(kind, asks, Pending)
        /\ inFlight' = [inFlight EXCEPT ![n] = Append(inFlight[n], Len(requests) + 1)]
    BY <1>s DEF Sends
  <2>2. Pending \in Int /\ [kind |-> kind, asks |-> asks] \in [kind : {"user", "metadata", "sasl"}, asks : BOOLEAN]
    BY DEF Pending
  <2>3. /\ \A id \in 1..Len(requests) : requests'[id] = requests[id]
        /\ requests'[Len(requests) + 1].kind = kind
        /\ kind # "metadata" \/ Pending # Pending =>
             AskingIn(requests', OpenIn(result')) = AskingIn(requests, OpenIn(result))
        /\ kind = "metadata" /\ Pending = Pending =>
             AskingIn(requests', OpenIn(result'))
               = AskingIn(requests, OpenIn(result)) \union {Len(requests) + 1}
    BY <1>0, <2>1, <2>2, AskingAdds
  <2>4. asking' = IF kind = "metadata" THEN asking \union {Len(requests) + 1} ELSE asking
    BY <2>3 DEF asking
  <2>5. Range(Append(inFlight[n], Len(requests) + 1)) = Range(inFlight[n]) \union {Len(requests) + 1}
    <3>1. inFlight[n] \in Seq(Nat) /\ Len(requests) + 1 \in Nat
      BY <1>0, LenProperties DEF ConnTyped, FutureTyped
    <3> QED BY <3>1, AppendRange
  <2>6. Quiet'
    <3> SUFFICES ASSUME NEW m \in Nodes, state'[m] # "connected", NEW id \in Range(inFlight'[m])
                 PROVE  requests'[id].kind = "sasl"
      BY DEF Quiet
    <3>1. state[m] # "connected" /\ inFlight'[m] = IF m = n THEN Append(inFlight[n], Len(requests) + 1) ELSE inFlight[m]
      BY <1>0, <1>s, <2>1 DEF ConnTyped
    <3>2. id \in Range(inFlight[m]) \/ (m = n /\ id = Len(requests) + 1)
      BY <2>5, <3>1
    <3>3. CASE id \in Range(inFlight[m])
      <4>1. id \in 1..Len(requests) /\ requests[id].kind = "sasl"
        BY <1>i, <1>p, <3>1, <3>3 DEF Quiet
      <4> QED BY <2>3, <4>1
    <3>4. CASE m = n /\ id = Len(requests) + 1
      BY <1>s, <2>3, <3>1, <3>4
    <3> QED BY <3>2, <3>3, <3>4
  <2> QED BY <2>4, <2>6
\* Requests x leaves the open ones, which is not about metadata.
<1>2. ASSUME NEW n \in Nodes, Establish(n) PROVE Refreshing'
  <2>1. UNCHANGED <<inProgress, requests, result, inFlight>>
    BY <1>2, Zenon DEF Establish, futureVars, clusterVars
  <2>2. PICK next : state' = [state EXCEPT ![n] = next] /\ state[n] # "connected"
    BY <1>2 DEF Establish, Connected, Moves
  <2>3. Quiet'
    <3>1. \A m \in Nodes : state'[m] # "connected" => state[m] # "connected"
      BY <1>0, <2>2 DEF ConnTyped
    <3> QED BY <1>i, <2>1, <3>1 DEF Quiet
  <2> QED BY <1>j, <1>u, <2>1, <2>3
<1>3. ASSUME NEW n \in Nodes, AsksMechanism(n) PROVE Refreshing'
  <2>1. Sends(n, "sasl", FALSE) /\ UNCHANGED <<state, inProgress>>
    BY <1>3, Zenon DEF AsksMechanism, clusterVars
  <2>2. Quiet' /\ asking' = asking
    BY <1>s, <2>1
  <2> QED BY <1>i, <1>j, <2>1, <2>2 DEF Told
<1>4. ASSUME NEW n \in Nodes, Exchanges(n) PROVE Refreshing'
  <2> DEFINE x == Head(inFlight[n])
  <2>1. /\ answers[n] # <<>> /\ state[n] = "authenticating" /\ UNCHANGED <<requests, inProgress>>
        /\ result' = [result EXCEPT ![x] = Head(answers[n])]
        /\ inFlight' = [inFlight EXCEPT ![n] = Tail(inFlight[n])]
        /\ state' \in {state, [state EXCEPT ![n] = "connected"]}
    BY <1>4 DEF Exchanges, Answered, Connected, clusterVars
  <2>2. inFlight[n] # <<>> /\ x = Head(answers[n])
    BY <1>0, <2>1, AnsweredFirst
  <2>3. /\ x \in Range(inFlight[n]) /\ x \in Nat
        /\ Range(Tail(inFlight[n])) \subseteq Range(inFlight[n])
    BY <1>0, <2>2, TailDrops DEF ConnTyped, Placed
  <2> HIDE DEF x
  <2>4. x \in OpenIn(result) /\ requests[x].kind = "sasl"
    BY <1>i, <1>p, <2>1, <2>3 DEF Quiet
  <2>5. OpenIn(result') = OpenIn(result) \ {x}
    <3>1. x \in Int /\ x # Pending /\ result \in Seq(Int)
      BY <1>0, <2>3 DEF FutureTyped, Pending
    <3>2. result' = [result EXCEPT ![x] = x]
      BY <2>1, <2>2
    <3> QED BY <2>4, <3>1, <3>2, OpenEnds
  <2>6. asking' = asking
    BY <2>1, <2>4, <2>5 DEF asking, AskingIn
  <2>7. Told'
    BY <1>i, <2>1, <2>6 DEF Told
  <2>8. Quiet'
    <3> SUFFICES ASSUME NEW m \in Nodes, state'[m] # "connected", NEW id \in Range(inFlight'[m])
                 PROVE  requests'[id].kind = "sasl"
      BY DEF Quiet
    <3>1. /\ state[m] # "connected"
          /\ inFlight'[m] = IF m = n THEN Tail(inFlight[n]) ELSE inFlight[m]
      BY <1>0, <2>1 DEF ConnTyped
    <3>2. id \in Range(inFlight[m])
      BY <2>3, <3>1
    <3> QED BY <1>i, <2>1, <3>1, <3>2 DEF Quiet
  <2> QED BY <1>j, <2>7, <2>8
<1>5. ASSUME NEW n \in Nodes, Reads(n) PROVE Refreshing'
  <2>1. PICK k \in 1..Len(answers[n]) :
             inFlight' = [inFlight EXCEPT ![n] = SubSeq(inFlight[n], k + 1, Len(inFlight[n]))]
    BY <1>5, Zenon DEF Reads
  <2>2. UNCHANGED <<state, requests, result, inProgress>>
    BY <1>5, Zenon DEF Reads, futureVars, clusterVars
  <2>3. k \in 1..Len(inFlight[n]) /\ inFlight[n] \in Seq(Nat) /\ Once(inFlight[n])
    BY <1>0, AnsweredSome DEF ConnTyped, Placed
  <2>4. Range(SubSeq(inFlight[n], k + 1, Len(inFlight[n]))) \subseteq Range(inFlight[n])
    BY <2>3, DropFirst
  <2>5. \A m \in Nodes : Range(inFlight'[m]) \subseteq Range(inFlight[m])
    <3>1. \A m \in Nodes : inFlight'[m] = IF m = n THEN SubSeq(inFlight[n], k + 1, Len(inFlight[n])) ELSE inFlight[m]
      BY <1>0, <2>1 DEF ConnTyped
    <3> QED BY <2>4, <3>1
  <2>6. Quiet'
    BY <1>i, <2>2, <2>5 DEF Quiet
  <2> QED BY <1>j, <1>u, <2>2, <2>6
<1>b. ASSUME NEW n \in Nodes, BeginsConnect(n), UNCHANGED <<requests, result, inProgress>>
      PROVE  Refreshing'
  <2>1. /\ state[n] = "disconnected" /\ state' = [state EXCEPT ![n] = "connecting"]
        /\ UNCHANGED inFlight
    BY <1>b DEF BeginsConnect
  <2>2. \A m \in Nodes : state'[m] # "connected" => state[m] # "connected"
    BY <1>0, <2>1 DEF ConnTyped
  <2>3. Quiet'
    BY <1>b, <1>i, <2>1, <2>2 DEF Quiet
  <2> QED BY <1>b, <1>j, <1>u, <2>3
<1>6. ASSUME NEW n \in Nodes, MaybeRefresh(n) PROVE Refreshing'
  <2>1. CASE CanSend(n) /\ Sends(n, "metadata", topic) /\ inProgress' = TRUE /\ UNCHANGED state
    <3>1. ~inProgress /\ topic \in BOOLEAN
      BY <1>0, <1>6, Zenon DEF MaybeRefresh, Due, MetaTyped
    <3>2. state[n] = "connected"
      BY <2>1 DEF CanSend
    <3>3. Quiet' /\ asking' = asking \union {Len(requests) + 1}
      BY <1>s, <2>1, <3>1, <3>2
    <3>4. asking = {}
      BY <1>i, <3>1 DEF Told
    <3>5. asking' = {Len(requests) + 1}
      BY <3>3, <3>4
    <3>6. Told'
      BY <2>1, <3>5 DEF Told
    <3> QED BY <1>j, <3>3, <3>6
  <2>2. CASE BeginsConnect(n) /\ UNCHANGED <<requests, result, inProgress>>
    BY <1>b, <2>2
  <2> QED BY <1>6, <2>1, <2>2, Zenon DEF MaybeRefresh
<1>7. ASSUME NEW n \in Nodes, Ready(n) PROVE Refreshing'
  BY <1>7, <1>b, Zenon DEF Ready, futureVars, clusterVars
<1>8. ASSUME NEW n \in Nodes, NEW expects \in BOOLEAN, Send(n, expects) PROVE Refreshing'
  <2>1. UNCHANGED <<state, inProgress>>
    BY <1>8, Zenon DEF Send, clusterVars
  <2>2. CASE CanSend(n) /\ Sends(n, "user", FALSE)
    <3>1. state[n] = "connected"
      BY <2>2 DEF CanSend
    <3>2. Quiet' /\ asking' = asking
      BY <1>s, <2>1, <2>2, <3>1
    <3> QED BY <1>i, <1>j, <2>1, <3>2 DEF Told
  <2>3. CASE ~(CanSend(n) /\ Sends(n, "user", FALSE))
    <3>1. /\ NewRequest("user", FALSE, IF CanSend(n) THEN Len(requests) + 1 ELSE Failed)
          /\ UNCHANGED inFlight
      BY <1>8, <2>3, Zenon DEF Send
    <3>2. [kind |-> "user", asks |-> FALSE] \in [kind : {"user", "metadata", "sasl"}, asks : BOOLEAN]
      OBVIOUS
    <3>3. (IF CanSend(n) THEN Len(requests) + 1 ELSE Failed) \in Int
      BY <1>0, LenProperties DEF FutureTyped, Failed
    <3>4. /\ \A id \in 1..Len(requests) : requests'[id] = requests[id]
          /\ AskingIn(requests', OpenIn(result')) = AskingIn(requests, OpenIn(result))
      BY <1>0, <3>1, <3>2, <3>3, AskingAdds
    <3>5. Told'
      BY <1>i, <2>1, <3>4 DEF Told, asking
    <3>6. Quiet'
      BY <1>i, <1>p, <2>1, <3>1, <3>4 DEF Quiet
    <3> QED BY <1>j, <3>5, <3>6
  <2> QED BY <2>2, <2>3
<1>9. ASSUME NEW n \in Nodes, Breaks(n) \/ Answers(n) \/ ClosesEnd(n) PROVE Refreshing'
  BY <1>9, <1>w, Zenon DEF Breaks, Answers, ClosesEnd, connVars, futureVars, clusterVars
<1>10. ASSUME NEW t \in Threads, Takes(t) PROVE Refreshing'
  BY <1>10, <1>w, Zenon DEF Takes, connVars, futureVars, clusterVars
<1>11. ASSUME NEW t \in Threads, Fires(t) PROVE Refreshing'
  <2> DEFINE x == firing[t].id
  <2>1. /\ firing[t] # None
        /\ result' = [result EXCEPT ![x] = firing[t].answer]
        /\ UNCHANGED <<state, inFlight, requests>>
        /\ IF IsMetadata(x) THEN inProgress' = FALSE ELSE UNCHANGED inProgress
    BY <1>11, Zenon DEF Fires, RefreshSucceeds, RefreshFails, clusterVars, connVars
  <2>2. firing[t] \in Completions /\ firing[t].answer = x
    BY <1>0 DEF FutureTyped, Paired
  <2>3. x # 0 /\ x \in Int /\ x # Pending
    BY <2>1, <2>2 DEF Completions, None, Pending
  <2>4. x \in OpenIn(result)
    BY <1>p, <2>3 DEF Spread, FiringIds
  <2>5. result' = [result EXCEPT ![x] = x] /\ result \in Seq(Int)
    BY <1>0, <2>1, <2>2 DEF FutureTyped
  <2> HIDE DEF x
  <2>6. OpenIn(result') = OpenIn(result) \ {x}
    BY <2>3, <2>4, <2>5, OpenEnds
  <2>7. asking' = asking \ {x}
    BY <2>1, <2>6 DEF asking, AskingIn
  <2>8. CASE IsMetadata(x)
    <3>1. x \in asking
      BY <2>4, <2>8 DEF asking, AskingIn, IsMetadata
    <3>2. asking' = {}
      BY <1>i, <2>7, <3>1 DEF Told
    <3>3. Told'
      BY <2>1, <2>8, <3>2 DEF Told
    <3> QED BY <1>j, <1>v, <2>1, <3>3
  <2>9. CASE ~IsMetadata(x)
    <3>1. x \notin asking
      BY <2>9 DEF asking, AskingIn, IsMetadata
    <3>2. asking' = asking
      BY <2>7, <3>1
    <3>3. Told'
      BY <1>i, <2>1, <2>9, <3>2 DEF Told
    <3> QED BY <1>j, <1>v, <2>1, <3>3
  <2> QED BY <2>8, <2>9
<1>12. CASE Ages \/ UNCHANGED vars
  BY <1>12, <1>w, Zenon DEF Ages, vars, connVars, futureVars, clusterVars
<1>13. ASSUME NEW w \in Waiters, AddTopic(w) \/ Check(w) \/ Woken(w) \/ GivesUp(w) PROVE Refreshing'
  BY <1>w, <1>13, Zenon DEF AddTopic, Check, Woken, GivesUp, connVars, futureVars, clusterVars
<1> QED BY <1>1, <1>2, <1>3, <1>4, <1>5, <1>6, <1>7, <1>8, <1>9, <1>10, <1>11, <1>12, <1>13, NextCases, Zenon

-----------------------------------------------------------------------------
\* Every step preserves the invariant.
LEMMA InductiveStep == IInv /\ [Next]_vars => IInv'
<1> SUFFICES ASSUME IInv, [Next]_vars PROVE IInv'
  OBVIOUS
<1>1. MetaTyped' /\ ConnTyped' /\ FutureTyped'
  BY MetaTypedStep, ConnTypedStep, FutureTypedStep
<1>2. Paired' /\ Placed'
  BY PairedStep, PlacedStep
<1>3. SelectorFits' /\ Refreshing'
  BY SelectorStep, RefreshingStep
<1> QED BY <1>1, <1>2, <1>3 DEF IInv

\* Ids are positions in the list of requests, and so are those of the completions.
LEMMA TypesHold == IInv => TypeOK
<1> SUFFICES ASSUME IInv PROVE TypeOK
  OBVIOUS
<1>0. ConnTyped /\ FutureTyped /\ MetaTyped /\ Paired /\ Placed
  BY DEF IInv
<1>1. /\ Ids = 1..Len(requests) /\ Len(requests) \in Nat
      /\ DOMAIN pending = 1..Len(pending) /\ DOMAIN firing = Threads
  BY <1>0, LenProperties DEF FutureTyped, Ids
<1>2. OpenIn(result) \subseteq Ids
  BY <1>0, <1>1 DEF OpenIn, FutureTyped
<1>3. \A n \in Nodes : Range(inFlight[n]) \subseteq Ids
  BY <1>0, <1>2 DEF Placed, Spread, FlightIds
<1>4. \A n \in Nodes : auth[n] \in {0, Stale} \union Ids
  BY <1>0, <1>1 DEF ConnTyped
<1>5. Range(pending) \subseteq [id : Ids, answer : Ids]
  <2> SUFFICES ASSUME NEW i \in 1..Len(pending) PROVE pending[i] \in [id : Ids, answer : Ids]
    BY <1>1, Zenon DEF Range
  <2>1. pending[i] \in Completions /\ pending[i].answer = pending[i].id
    BY <1>0, ElementOfSeq DEF FutureTyped, Paired
  <2>2. pending[i].id \in IdsOf(pending)
    BY DEF IdsOf
  <2>3. pending[i].id \in Ids
    BY <1>0, <1>2, <2>2 DEF Placed, Spread
  <2> QED BY <2>1, <2>3 DEF Completions
<1>6. Range(firing) \subseteq {None} \union [id : Ids, answer : Ids]
  <2> SUFFICES ASSUME NEW t \in Threads PROVE firing[t] \in {None} \union [id : Ids, answer : Ids]
    BY <1>1, Zenon DEF Range
  <2>1. firing[t] \in Completions /\ firing[t].answer = firing[t].id
    BY <1>0 DEF FutureTyped, Paired
  <2>2. FiringIds[t] = firing[t].id /\ FiringIds[t] \in OpenIn(result) \union {0}
    BY <1>0 DEF Placed, Spread, FiringIds
  <2>3. firing[t].id \in Ids \union {0}
    BY <1>2, <2>2
  <2> QED BY <2>1, <2>3 DEF Completions, None
<1>7. current \in 0..Len(updates) /\ \A w \in Waiters : waitsFor[w] \in 0..Len(updates)
  BY <1>0, LenProperties DEF MetaTyped
<1>8. \A w \in Waiters : pc[w] \in {"idle", "check", "wait", "done", "timeout"}
  BY <1>0 DEF MetaTyped
<1>9. \A n \in Nodes :
        /\ state[n] \in {"disconnected", "connecting", "handshake", "authenticating", "connected"}
        /\ selector[n] \in {"none", "write", "read"}
  BY <1>0 DEF ConnTyped
<1>10. connecting \union refused \union torn \subseteq Nodes /\ Len(result) = Len(requests)
  BY <1>0 DEF ConnTyped, FutureTyped
<1> QED BY <1>3, <1>4, <1>5, <1>6, <1>7, <1>8, <1>9, <1>10 DEF TypeOK

\* The places of a request are those its spread allows: one, or none.
LEMMA PlacedOnce == IInv => CompletedOnce
<1> SUFFICES ASSUME IInv, NEW id \in Ids
             PROVE  Cardinality(Places(id)) = IF result[id] = Pending THEN 1 ELSE 0
  BY DEF CompletedOnce
<1>0. ConnTyped /\ FutureTyped /\ Placed
  BY DEF IInv
<1>1. Spread(FlightIds, IdsOf(pending), FiringIds, OpenIn(result))
  BY <1>0 DEF Placed
<1> DEFINE flying(n) == {j \in DOMAIN inFlight[n] : inFlight[n][j] = id}
           queued == {j \in DOMAIN pending : pending[j].id = id}
           fired == {s \in Threads : firing[s].id = id}
           flights == UNION {{<<"in flight", n, i>> : i \in flying(n)} : n \in Nodes}
           queues == {<<"pending", i>> : i \in queued}
           fires == {<<"firing", t>> : t \in fired}
           places == flights \union queues \union fires
<1>2. Places(id) = places
  BY Zenon DEF Places
<1>3. /\ Ids = 1..Len(requests) /\ Len(requests) \in Nat /\ id # 0
      /\ DOMAIN pending = 1..Len(pending)
      /\ id \in OpenIn(result) <=> result[id] = Pending
  BY <1>0, LenProperties DEF FutureTyped, Ids, OpenIn
<1>4. \A n \in Nodes : /\ id \in FlightIds[n] <=> flying(n) # {}
                       /\ \A i, j \in flying(n) : i = j
  <2> SUFFICES ASSUME NEW n \in Nodes
               PROVE  /\ id \in FlightIds[n] <=> flying(n) # {}
                      /\ \A i, j \in flying(n) : i = j
    OBVIOUS
  <2>1. FlightIds[n] = Range(inFlight[n])
    BY DEF FlightIds
  <2>2. DOMAIN inFlight[n] = 1..Len(inFlight[n]) /\ Once(inFlight[n])
    BY <1>0, LenProperties DEF ConnTyped, Placed
  <2> QED BY <2>1, <2>2 DEF Range, Once
<1>5. /\ id \in IdsOf(pending) <=> queued # {}
      /\ \A i, j \in queued : i = j
  BY <1>0, <1>3 DEF IdsOf, OnceIds, Placed
<1>6. /\ \A t \in Threads : FiringIds[t] = firing[t].id
      /\ \A t \in Threads : t \in fired <=> FiringIds[t] = id
      /\ fired \subseteq Threads
  BY DEF FiringIds
<1> HIDE DEF flying, queued, fired
<1>p. \A p : p \in flights <=> \E n \in Nodes : \E i \in flying(n) : p = <<"in flight", n, i>>
  <2> SUFFICES ASSUME NEW p
               PROVE  p \in flights <=> \E n \in Nodes : \E i \in flying(n) : p = <<"in flight", n, i>>
    OBVIOUS
  <2>1. p \in flights <=> \E n \in Nodes : p \in {<<"in flight", n, i>> : i \in flying(n)}
    OBVIOUS
  <2>2. ASSUME NEW n \in Nodes, p \in {<<"in flight", n, i>> : i \in flying(n)}
        PROVE  \E m \in Nodes : \E i \in flying(m) : p = <<"in flight", m, i>>
    <3>1. PICK i \in flying(n) : p = <<"in flight", n, i>>
      BY <2>2
    <3> QED BY <3>1
  <2>3. ASSUME NEW n \in Nodes, NEW i \in flying(n), p = <<"in flight", n, i>>
        PROVE  \E m \in Nodes : p \in {<<"in flight", m, j>> : j \in flying(m)}
    <3>1. p \in {<<"in flight", n, j>> : j \in flying(n)}
      BY <2>3
    <3> QED BY <3>1
  <2> HIDE DEF flights
  <2> QED BY <2>1, <2>2, <2>3, Zenon
<1>q. \A p : p \in queues <=> \E i \in queued : p = <<"pending", i>>
  OBVIOUS
<1>r. \A p : p \in fires <=> \E s \in fired : p = <<"firing", s>>
  OBVIOUS
<1> HIDE DEF flights, queues, fires
<1>7. CASE result[id] # Pending
  <2>1. id \notin OpenIn(result)
    BY <1>3, <1>7
  <2>2. \A n \in Nodes : flying(n) = {}
    BY <1>1, <1>4, <2>1 DEF Spread
  <2>3. queued = {}
    BY <1>1, <1>5, <2>1 DEF Spread
  <2>4. fired = {}
    BY <1>1, <1>3, <1>6, <2>1 DEF Spread
  <2>5. places = {}
    BY <1>p, <1>q, <1>r, <2>2, <2>3, <2>4
  <2> QED BY <1>2, <1>7, <2>5, FS_EmptySet
<1>8. CASE result[id] = Pending
  <2>1. id \in OpenIn(result)
    BY <1>3, <1>8
  <2>2. \E x : places = {x}
    <3>1. CASE \E n \in Nodes : id \in FlightIds[n]
      <4>1. PICK n \in Nodes : id \in FlightIds[n]
        BY <3>1
      <4>2. PICK i : i \in flying(n)
        BY <1>4, <4>1
      <4>3. flying(n) = {i}
        BY <1>4, <4>2
      <4>4. \A m \in Nodes : m # n => flying(m) = {}
        BY <1>1, <1>4, <4>1 DEF Spread
      <4>5. queued = {}
        BY <1>1, <1>5, <4>1 DEF Spread
      <4>6. fired = {}
        BY <1>1, <1>6, <4>1 DEF Spread
      <4>7. places = {<<"in flight", n, i>>}
        BY <1>p, <1>q, <1>r, <4>3, <4>4, <4>5, <4>6
      <4> QED BY <4>7
    <3>2. CASE id \in IdsOf(pending)
      <4>1. PICK i : i \in queued
        BY <1>5, <3>2
      <4>2. queued = {i}
        BY <1>5, <4>1
      <4>3. \A m \in Nodes : flying(m) = {}
        BY <1>1, <1>4, <3>2 DEF Spread
      <4>4. fired = {}
        BY <1>1, <1>6, <3>2 DEF Spread
      <4>5. places = {<<"pending", i>>}
        BY <1>p, <1>q, <1>r, <4>2, <4>3, <4>4
      <4> QED BY <4>5
    <3>3. CASE \E t \in Threads : FiringIds[t] = id
      <4>1. PICK t \in Threads : FiringIds[t] = id
        BY <3>3
      <4>2. fired = {t}
        <5>1. \A u \in Threads : FiringIds[u] = id => u = t
          BY <1>1, <1>3, <4>1 DEF Spread
        <5> QED BY <1>6, <4>1, <5>1
      <4>3. \A m \in Nodes : flying(m) = {}
        BY <1>1, <1>4, <4>1 DEF Spread
      <4>4. queued = {}
        BY <1>1, <1>5, <4>1 DEF Spread
      <4>5. places = {<<"firing", t>>}
        <5>1. flights = {} /\ queues = {}
          BY <1>p, <1>q, <4>3, <4>4
        <5>2. fires = {<<"firing", t>>}
          BY <1>r, <4>2
        <5> QED BY <5>1, <5>2
      <4> QED BY <4>5
    <3> QED BY <1>1, <2>1, <3>1, <3>2, <3>3 DEF Spread
  <2>3. Cardinality(places) = 1
    BY <2>2, FS_Singleton
  <2> QED BY <1>2, <1>8, <2>3
<1> QED BY <1>7, <1>8

\* What fits is in order, and nothing else where no write broke off.
LEMMA FitsTells ==
  ASSUME ConnTyped, Paired, NEW n \in Nodes
  PROVE  IF n \in torn THEN IsPrefix(answers[n] \o wire[n], inFlight[n])
                       ELSE inFlight[n] = answers[n] \o wire[n]
<1>1. /\ Fits(inFlight[n], answers[n], wire[n], n \notin torn)
      /\ answers[n] \in Seq(Nat) /\ wire[n] \in Seq(Nat)
  BY DEF ConnTyped, Paired
<1>2. PICK rest \in Seq(Nat) : /\ inFlight[n] = answers[n] \o (wire[n] \o rest)
                               /\ n \notin torn => rest = <<>>
  BY <1>1 DEF Fits
<1>3. PICK p \in Seq(Nat) : p = answers[n] \o wire[n]
  BY <1>1, ConcatProperties
<1>4. inFlight[n] = p \o rest
  <2>1. (answers[n] \o wire[n]) \o rest = answers[n] \o (wire[n] \o rest)
    BY <1>1, <1>2, ThreeParts, Zenon
  <2> QED BY <1>2, <1>3, <2>1
<1>5. CASE n \notin torn
  BY <1>2, <1>3, <1>4, <1>5, ConcatEmptySeq
<1>6. IsPrefix(p, p \o rest)
  <2>1. /\ p \o rest \in Seq(Nat) /\ Len(p \o rest) = Len(p) + Len(rest)
        /\ \A i \in 1..(Len(p) + Len(rest)) :
             (p \o rest)[i] = IF i <= Len(p) THEN p[i] ELSE rest[i - Len(p)]
        /\ Len(p) \in Nat /\ Len(rest) \in Nat
    BY ConcatProperties, LenProperties
  <2>2. PICK a \in Seq(Nat) : a = SubSeq(p, 1, Len(p))
    <3>1. \A i \in 1..Len(p) : p[i] \in Nat
      BY ElementOfSeq
    <3> QED BY <2>1, <3>1, SubSeqProperties
  <2>3. PICK b \in Seq(Nat) : b = SubSeq(p \o rest, 1, Len(p))
    <3>1. \A i \in 1..Len(p) : (p \o rest)[i] \in Nat
      BY <2>1, ElementOfSeq
    <3> QED BY <2>1, <3>1, SubSeqProperties
  <2>4. Len(a) = Len(p) /\ \A i \in 1..Len(p) : a[i] = p[i]
    BY <2>1, <2>2
  <2>5. Len(b) = Len(p) /\ \A i \in 1..Len(p) : b[i] = (p \o rest)[i]
    BY <2>1, <2>3
  <2>6. \A i \in 1..Len(p) : (p \o rest)[i] = p[i]
    BY <2>1
  <2>7. a = b
    BY <2>4, <2>5, <2>6, SeqEqual
  <2>8. Len(p) <= Len(p \o rest)
    BY <2>1
  <2> QED BY <2>2, <2>3, <2>7, <2>8 DEF IsPrefix
<1> QED BY <1>3, <1>4, <1>5, <1>6

\* The flag tells of the one metadata request on its way.
LEMMA FlagTells == IInv => OneRefresh
<1> SUFFICES ASSUME IInv PROVE OneRefresh
  OBVIOUS
<1>0. FutureTyped /\ Refreshing
  BY DEF IInv
<1>1. {id \in Ids : IsMetadata(id) /\ result[id] = Pending} = AskingIn(requests, OpenIn(result))
  BY <1>0 DEF FutureTyped, Ids, IsMetadata, AskingIn, OpenIn
<1>2. CASE inProgress
  BY <1>0, <1>1, <1>2, FS_Singleton DEF OneRefresh, Refreshing
<1>3. CASE ~inProgress
  BY <1>0, <1>1, <1>3, FS_EmptySet DEF OneRefresh, Refreshing
<1> QED BY <1>2, <1>3

\* Whatever the brokers do, whichever connections close and whichever threads
\* complete futures, for any number of them: no future of KafkaClient is forgotten,
\* completed twice or completed with the answer to another request, the selector
\* waits for what each connection needs, and the refresh flag is set exactly while
\* one metadata request is on its way.
THEOREM ClientBookkeeping == Spec => []ClientSound
<1>1. Init => IInv
  BY InitInv
<1>2. IInv /\ [Next]_vars => IInv'
  BY InductiveStep
<1>3. IInv => ClientSound
  <2> SUFFICES ASSUME IInv PROVE ClientSound
    OBVIOUS
  <2>1. TypeOK /\ CompletedOnce /\ OneRefresh
    BY TypesHold, PlacedOnce, FlagTells
  <2>2. OwnAnswer
    <3>1. Ids = 1..Len(result)
      BY LenProperties DEF IInv, FutureTyped, Ids
    <3>2. ASSUME NEW n \in Nodes
          PROVE  IF n \in torn THEN IsPrefix(answers[n] \o wire[n], inFlight[n])
                               ELSE inFlight[n] = answers[n] \o wire[n]
      BY <3>2, FitsTells DEF IInv
    <3> QED BY <3>1, <3>2 DEF IInv, Paired, OwnAnswer
  <2>3. SelectorFits
    BY DEF IInv
  <2> QED BY <2>1, <2>2, <2>3 DEF ClientSound
<1> QED BY <1>1, <1>2, <1>3, PTL DEF Spec
===============================================================================
