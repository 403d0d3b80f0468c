------------------------- MODULE TopicModeling_proofs -------------------------
(***************************************************************************)
(* Proofs about TopicModeling, for any hashtags, tasks, batch size and     *)
(* bounds: the types, that the only task of a topology models what its     *)
(* batch holds, and that no row has a text of an earlier life.             *)
(***************************************************************************)
EXTENDS TopicModeling, SequenceTheorems, TLAPS

Words == Hashtags \union {Gap, Leftover}

Rec(p, b, t, f, s) == [pc |-> p, batch |-> b, taken |-> t, flushed |-> f, seen |-> s]

\* TypeOK, with the table as a function.
Typed == TypeOK /\ rows \in [Hashtags -> Texts \union {NoRow}]

-----------------------------------------------------------------------------
(* What the operators return. *)

LEMMA MaxOfTwo ==
  ASSUME NEW a \in Nat, NEW b \in Int
  PROVE  Max({a, b}) = IF a <= b THEN b ELSE a
<1>1. \A x, y \in {a, b} : (\A z \in {a, b} : x >= z) /\ (\A z \in {a, b} : y >= z) => x = y
  OBVIOUS
<1> DEFINE mx == IF a <= b THEN b ELSE a
<1>2. mx \in {a, b} /\ \A z \in {a, b} : mx >= z
  OBVIOUS
<1> HIDE DEF mx
<1>3. Max({a, b}) \in {a, b} /\ \A z \in {a, b} : Max({a, b}) >= z
  BY <1>2, Zenon DEF Max
<1>4. Max({a, b}) = mx
  BY <1>1, <1>2, <1>3, Zenon
<1>5. QED
  BY <1>4 DEF mx

\* An idle execution, and one of an execution's fields.
LEMMA IdleIs ==
  /\ Idle \in Executions /\ Idle.pc = "idle" /\ Idle.batch.size = 0
  /\ Idle.taken = 0 /\ Idle.flushed = 0 /\ Idle.seen = <<>> /\ Idle.batch \in Batches
<1>1. (CHOOSE h \in Hashtags : TRUE) \in Hashtags /\ (CHOOSE c \in Collectors : TRUE) \in Collectors
  BY TopicAssumption
<1>2. Idle.batch \in Batches /\ Idle.batch.size = 0
  BY <1>1, TopicAssumption DEF Idle, Batches, Ids
<1>3. <<>> \in Texts
  BY EmptySeq DEF Texts
<1>4. QED
  BY <1>2, <1>3 DEF Idle, Executions

LEMMA RecIs ==
  ASSUME NEW p \in {"idle", "saving", "closing", "reading", "estimating"}, NEW b \in Batches,
         NEW t \in Nat, NEW f \in Nat, NEW s \in Texts
  PROVE  /\ Rec(p, b, t, f, s) \in Executions
         /\ Rec(p, b, t, f, s).pc = p /\ Rec(p, b, t, f, s).batch = b
         /\ Rec(p, b, t, f, s).taken = t /\ Rec(p, b, t, f, s).flushed = f
         /\ Rec(p, b, t, f, s).seen = s
BY DEF Rec, Executions

\* The fields of what is there.
LEMMA ExecIs ==
  ASSUME TypeOK, NEW m \in Modelers
  PROVE  /\ exec \in [Modelers -> Executions] /\ exec[m] \in Executions
         /\ exec[m].pc \in {"idle", "saving", "closing", "reading", "estimating"}
         /\ exec[m].batch \in Batches /\ exec[m].taken \in Nat /\ exec[m].flushed \in Nat
         /\ exec[m].seen \in Texts /\ exec[m].seen \in Seq(Words) /\ Len(exec[m].seen) \in Nat
         /\ exec[m].batch.from \in Collectors /\ exec[m].batch.hashtag \in Hashtags
         /\ exec[m].batch.size \in Nat /\ exec[m].batch.id \in Ids
         /\ missed[m] \in Nat
         /\ ListOf(m) \in Seq(Hashtags) /\ Len(ListOf(m)) \in Nat
         /\ file \in Seq(Words) /\ Len(file) \in Nat
<1>1. exec \in [Modelers -> Executions] /\ file \in Texts
  BY DEF TypeOK
<1>2. exec[m] \in Executions
  BY <1>1
<1>3. /\ exec[m].pc \in {"idle", "saving", "closing", "reading", "estimating"}
      /\ exec[m].batch \in Batches /\ exec[m].taken \in Nat /\ exec[m].flushed \in Nat
      /\ exec[m].seen \in Texts
  BY <1>2 DEF Executions
<1>4. /\ exec[m].batch.from \in Collectors /\ exec[m].batch.hashtag \in Hashtags
      /\ exec[m].batch.size \in Nat /\ exec[m].batch.id \in Ids
  BY <1>3 DEF Batches
<1>5. ListOf(m) \in Seq(Hashtags)
  BY <1>4 DEF TypeOK, ListOf
<1>6. exec[m].seen \in Seq(Words) /\ file \in Seq(Words)
  BY <1>1, <1>3 DEF Texts, Words
<1>7. Len(exec[m].seen) \in Nat /\ Len(ListOf(m)) \in Nat /\ Len(file) \in Nat
  BY <1>5, <1>6, LenProperties
<1>8. missed[m] \in Nat
  BY DEF TypeOK
<1>9. QED
  BY <1>1, <1>2, <1>3, <1>4, <1>5, <1>6, <1>7, <1>8

\* An execution with one of its fields changed.
LEMMA ExecSets ==
  ASSUME TypeOK, NEW m \in Modelers, NEW x
  PROVE  /\ [exec EXCEPT ![m].pc = x]
              = [exec EXCEPT ![m] = Rec(x, exec[m].batch, exec[m].taken, exec[m].flushed, exec[m].seen)]
         /\ [exec EXCEPT ![m].flushed = x]
              = [exec EXCEPT ![m] = Rec(exec[m].pc, exec[m].batch, exec[m].taken, x, exec[m].seen)]
         /\ [exec EXCEPT ![m].seen = x]
              = [exec EXCEPT ![m] = Rec(exec[m].pc, exec[m].batch, exec[m].taken, exec[m].flushed, x)]
<1> DEFINE e == exec[m]
<1>1. exec \in [Modelers -> Executions] /\ e \in Executions
  BY ExecIs
<1>2. [e EXCEPT !.pc = x] = Rec(x, e.batch, e.taken, e.flushed, e.seen)
  BY <1>1 DEF Executions, Rec
<1>3. [e EXCEPT !.flushed = x] = Rec(e.pc, e.batch, e.taken, x, e.seen)
  BY <1>1 DEF Executions, Rec
<1>4. [e EXCEPT !.seen = x] = Rec(e.pc, e.batch, e.taken, e.flushed, x)
  BY <1>1 DEF Executions, Rec
<1>5. QED
  BY <1>1, <1>2, <1>3, <1>4

\* The file after a write, place for place.
LEMMA WrittenIs ==
  ASSUME TypeOK, NEW list \in Seq(Hashtags), NEW n0 \in Nat, NEW n1 \in Nat, NEW d \in Nat,
         n1 <= Len(list)
  PROVE  /\ Written(list, n0, n1, d) \in Texts
         /\ Len(Written(list, n0, n1, d)) = IF Len(file) <= n1 - d THEN n1 - d ELSE Len(file)
         /\ \A k \in 1..Len(Written(list, n0, n1, d)) :
              Written(list, n0, n1, d)[k] =
                IF n0 < k + d /\ k + d <= n1 THEN list[k + d]
                ELSE IF k <= Len(file) THEN file[k] ELSE Gap
<1>1. file \in Seq(Words) /\ Len(file) \in Nat /\ Len(list) \in Nat
  BY LenProperties DEF TypeOK, Texts, Words
<1> DEFINE N == IF Len(file) <= n1 - d THEN n1 - d ELSE Len(file)
           W(k) == IF n0 < k + d /\ k + d <= n1 THEN list[k + d]
                   ELSE IF k <= Len(file) THEN file[k] ELSE Gap
<1>2. Max({Len(file), n1 - d}) = N /\ N \in Nat
  BY <1>1, MaxOfTwo
<1>3. Written(list, n0, n1, d) = [k \in 1..N |-> W(k)]
  BY <1>2 DEF Written
<1>4. ASSUME NEW k \in 1..N PROVE W(k) \in Words
  <2>1. CASE n0 < k + d /\ k + d <= n1
    <3>1. k + d \in 1..Len(list)
      BY <1>1, <1>2, <2>1
    <3>2. list[k + d] \in Hashtags
      BY <3>1, ElementOfSeq
    <3>3. QED
      BY <2>1, <3>2 DEF Words
  <2>2. CASE ~(n0 < k + d /\ k + d <= n1) /\ k <= Len(file)
    <3>1. k \in 1..Len(file)
      BY <1>1, <1>2, <2>2
    <3>2. file[k] \in Words
      BY <1>1, <3>1, ElementOfSeq
    <3>3. QED
      BY <2>2, <3>2
  <2>3. CASE ~(n0 < k + d /\ k + d <= n1) /\ ~(k <= Len(file))
    BY <2>3 DEF Words
  <2>4. QED
    BY <2>1, <2>2, <2>3
<1> HIDE DEF N, W
<1>5. [k \in 1..N |-> W(k)] \in [1..N -> Words]
  BY <1>4
<1>6. [k \in 1..N |-> W(k)] \in Seq(Words) /\ Len([k \in 1..N |-> W(k)]) = N
  BY <1>2, <1>5
<1>7. \A j \in 1..N : [k \in 1..N |-> W(k)][j] = W(j)
  OBVIOUS
<1>8. QED
  BY <1>3, <1>6, <1>7 DEF N, W, Texts, Words

\* One execution is replaced.
LEMMA Replaced ==
  ASSUME TypeOK, NEW m \in Modelers, NEW r \in Executions, exec' = [exec EXCEPT ![m] = r]
  PROVE  /\ exec' \in [Modelers -> Executions] /\ exec'[m] = r
         /\ \A n \in Modelers : n # m => exec'[n] = exec[n]
<1>1. exec \in [Modelers -> Executions]
  BY ExecIs
<1>2. QED
  BY <1>1

-----------------------------------------------------------------------------
(* What the steps do. *)

LEMMA CollectIs ==
  ASSUME TypeOK, NEW h \in Hashtags, Collect(h)
  PROVE  /\ tweets' \in [Collectors -> Seq(Hashtags)]
         /\ countTweet' \in [Collectors -> 0..(NUM_TWEET - 1)]
         /\ modelq' \in [Modelers -> Seq(Batches)]
         /\ received' \in 0..MaxTweets /\ handed' \subseteq Ids
         /\ \A c \in Collectors :
              \/ tweets'[c] = tweets[c]
              \/ c = route[h] /\ tweets'[c] = Append(tweets[c], h)
         /\ \A c \in Collectors : /\ Len(tweets[c]) \in Nat /\ Len(tweets'[c]) \in Nat
                                  /\ Len(tweets[c]) <= Len(tweets'[c])
                                  /\ \A k \in 1..Len(tweets[c]) : tweets'[c][k] = tweets[c][k]
         /\ \A m \in Modelers :
              \/ modelq'[m] = modelq[m]
              \/ /\ m \in tasks
                 /\ \E b \in Batches : /\ modelq'[m] = Append(modelq[m], b)
                                       /\ b.size <= Len(tweets'[b.from])
                                       /\ b.from = route[b.hashtag]
<1> DEFINE c == route[h]
           b == [id |-> received', hashtag |-> h, from |-> c, size |-> Len(tweets[c]) + 1]
<1>1. c \in Collectors /\ tweets \in [Collectors -> Seq(Hashtags)] /\ tasks \subseteq Modelers
      /\ modelq \in [Modelers -> Seq(Batches)] /\ countTweet \in [Collectors -> 0..(NUM_TWEET - 1)]
  BY DEF TypeOK
<1>2. /\ tweets' = [tweets EXCEPT ![c] = Append(tweets[c], h)]
      /\ countTweet' = [countTweet EXCEPT ![c] = (countTweet[c] + 1) % NUM_TWEET]
      /\ \/ modelq' = modelq
         \/ \E m \in tasks : modelq' = [modelq EXCEPT ![m] = Append(modelq[m], b)]
  BY DEF Collect
<1>3. received' \in Ids /\ handed' \subseteq Ids
  <2>1. received \in Nat /\ received < MaxTweets /\ received' = received + 1 /\ handed \subseteq Ids
    BY DEF Collect, TypeOK
  <2>2. received' \in Ids
    BY <2>1, TopicAssumption DEF Ids
  <2>3. handed' = handed \/ handed' = handed \union {received'}
    BY DEF Collect
  <2>4. QED
    BY <2>1, <2>2, <2>3
<1>4. tweets[c] \in Seq(Hashtags) /\ Len(tweets[c]) \in Nat
  BY <1>1, LenProperties
<1>5. b \in Batches /\ b.size = Len(tweets[c]) + 1 /\ b.from = c /\ b.from = route[b.hashtag]
  BY <1>1, <1>3, <1>4 DEF Batches
<1> HIDE DEF c, b
<1>6. /\ Append(tweets[c], h) \in Seq(Hashtags) /\ Len(Append(tweets[c], h)) = Len(tweets[c]) + 1
      /\ \A k \in 1..Len(tweets[c]) : Append(tweets[c], h)[k] = tweets[c][k]
  BY <1>4, AppendProperties
<1>7. tweets' \in [Collectors -> Seq(Hashtags)] /\ tweets'[c] = Append(tweets[c], h)
      /\ \A d \in Collectors : d # c => tweets'[d] = tweets[d]
  BY <1>1, <1>2, <1>6
<1>8. countTweet' \in [Collectors -> 0..(NUM_TWEET - 1)]
  <2>1. (countTweet[c] + 1) % NUM_TWEET \in 0..(NUM_TWEET - 1)
    BY <1>1, TopicAssumption
  <2>2. QED
    BY <1>1, <1>2, <2>1
<1>9. \A d \in Collectors : /\ Len(tweets[d]) \in Nat /\ Len(tweets'[d]) \in Nat
                            /\ Len(tweets[d]) <= Len(tweets'[d])
                            /\ \A k \in 1..Len(tweets[d]) : tweets'[d][k] = tweets[d][k]
  <2> SUFFICES ASSUME NEW d \in Collectors
               PROVE  /\ Len(tweets[d]) \in Nat /\ Len(tweets'[d]) \in Nat
                      /\ Len(tweets[d]) <= Len(tweets'[d])
                      /\ \A k \in 1..Len(tweets[d]) : tweets'[d][k] = tweets[d][k]
    OBVIOUS
  <2>1. Len(tweets[d]) \in Nat
    BY <1>1, LenProperties
  <2>2. CASE d = c
    <3>1. tweets'[d] = Append(tweets[c], h)
      BY <1>7, <2>2
    <3>2. QED
      BY <1>4, <1>6, <2>2, <3>1
  <2>3. CASE d # c
    <3>1. tweets'[d] = tweets[d]
      BY <1>7, <2>3
    <3>2. QED
      BY <2>1, <3>1
  <2>4. QED
    BY <2>2, <2>3
<1>10. \A n \in tasks : Append(modelq[n], b) \in Seq(Batches)
  BY <1>1, <1>5, AppendProperties
<1>11. modelq' \in [Modelers -> Seq(Batches)]
  BY <1>1, <1>2, <1>10
<1>12. b.size <= Len(tweets'[b.from])
  BY <1>4, <1>5, <1>6, <1>7
<1>13. ASSUME NEW m \in Modelers
       PROVE  \/ modelq'[m] = modelq[m]
              \/ m \in tasks /\ \E d \in Batches : /\ modelq'[m] = Append(modelq[m], d)
                                                   /\ d.size <= Len(tweets'[d.from])
                                                   /\ d.from = route[d.hashtag]
  <2>1. CASE modelq' = modelq
    BY <2>1
  <2>2. ASSUME NEW n \in tasks, modelq' = [modelq EXCEPT ![n] = Append(modelq[n], b)]
        PROVE  modelq'[m] = modelq[m] \/ (m \in tasks /\ modelq'[m] = Append(modelq[m], b))
    BY <1>1, <2>2
  <2>3. modelq'[m] = modelq[m] \/ (m \in tasks /\ modelq'[m] = Append(modelq[m], b))
    BY <1>2, <2>1, <2>2
  <2>4. QED
    BY <1>5, <1>12, <2>3
<1>14. \A d \in Collectors : tweets'[d] = tweets[d] \/ (d = route[h] /\ tweets'[d] = Append(tweets[d], h))
  BY <1>7 DEF c
<1>15. QED
  BY <1>3, <1>8, <1>9, <1>7, <1>11, <1>13, <1>14 DEF Ids

LEMMA OpenIs ==
  ASSUME TypeOK, NEW m \in Modelers, OpenFile(m)
  PROVE  /\ modelq[m] \in Seq(Batches) /\ Len(modelq[m]) \in Nat \ {0}
         /\ Head(modelq[m]) = modelq[m][1] /\ Head(modelq[m]) \in Batches
         /\ modelq' \in [Modelers -> Seq(Batches)]
         /\ modelq'[m] = Tail(modelq[m]) /\ Len(Tail(modelq[m])) = Len(modelq[m]) - 1
         /\ \A k \in 1..Len(Tail(modelq[m])) : Tail(modelq[m])[k] = modelq[m][k + 1]
         /\ \A n \in Modelers : n # m => modelq'[n] = modelq[n]
         /\ exec' = [exec EXCEPT ![m] = Rec("saving", Head(modelq[m]), exec[m].taken,
                                            exec[m].flushed, exec[m].seen)]
         /\ Rec("saving", Head(modelq[m]), exec[m].taken, exec[m].flushed, exec[m].seen) \in Executions
<1>1. modelq \in [Modelers -> Seq(Batches)] /\ modelq[m] \in Seq(Batches) /\ modelq[m] # <<>>
  BY DEF TypeOK, OpenFile
<1>2. /\ Head(modelq[m]) \in Batches /\ Tail(modelq[m]) \in Seq(Batches)
      /\ Len(Tail(modelq[m])) = Len(modelq[m]) - 1
      /\ \A k \in 1..Len(Tail(modelq[m])) : Tail(modelq[m])[k] = modelq[m][k + 1]
  BY <1>1, HeadTailProperties
<1>3. Len(modelq[m]) \in Nat \ {0} /\ Head(modelq[m]) = modelq[m][1]
  BY <1>1, EmptySeq
<1>4. modelq' = [modelq EXCEPT ![m] = Tail(modelq[m])]
  BY DEF OpenFile
<1>5. modelq' \in [Modelers -> Seq(Batches)] /\ modelq'[m] = Tail(modelq[m])
      /\ \A n \in Modelers : n # m => modelq'[n] = modelq[n]
  BY <1>1, <1>2, <1>4
<1>6. exec' = [exec EXCEPT ![m].pc = "saving", ![m].batch = Head(modelq[m])]
  BY DEF OpenFile
<1>7. exec' = [exec EXCEPT ![m] = Rec("saving", Head(modelq[m]), exec[m].taken, exec[m].flushed, exec[m].seen)]
  <2> DEFINE e == exec[m]
  <2>1. exec \in [Modelers -> Executions] /\ e \in Executions
    BY ExecIs
  <2>2. [e EXCEPT !.pc = "saving"] = Rec("saving", e.batch, e.taken, e.flushed, e.seen)
    BY <2>1 DEF Executions, Rec
  <2>3. [e EXCEPT !.pc = "saving", !.batch = Head(modelq[m])] = Rec("saving", Head(modelq[m]), e.taken, e.flushed, e.seen)
    <3>1. [e EXCEPT !.pc = "saving", !.batch = Head(modelq[m])] = [[e EXCEPT !.pc = "saving"] EXCEPT !.batch = Head(modelq[m])]
      OBVIOUS
    <3>2. [Rec("saving", e.batch, e.taken, e.flushed, e.seen) EXCEPT !.batch = Head(modelq[m])] = Rec("saving", Head(modelq[m]), e.taken, e.flushed, e.seen)
      BY DEF Rec
    <3>3. QED
      BY <2>2, <3>1, <3>2
  <2> HIDE DEF e
  <2>4. QED
    BY <1>6, <2>1, <2>3 DEF e
<1>8. Rec("saving", Head(modelq[m]), exec[m].taken, exec[m].flushed, exec[m].seen) \in Executions
  BY <1>2, ExecIs, RecIs
<1>9. QED
  BY <1>1, <1>2, <1>3, <1>5, <1>7, <1>8

LEMMA FlushIs ==
  ASSUME TypeOK, NEW m \in Modelers, NEW n \in (exec[m].flushed + 1)..Len(ListOf(m)),
         file' = Written(ListOf(m), exec[m].flushed, n, missed[m]),
         exec' = [exec EXCEPT ![m].flushed = n]
  PROVE  /\ file' \in Texts
         /\ Len(file') = IF Len(file) <= n - missed[m] THEN n - missed[m] ELSE Len(file)
         /\ \A k \in 1..Len(file') :
              file'[k] = IF exec[m].flushed < k + missed[m] /\ k + missed[m] <= n
                           THEN ListOf(m)[k + missed[m]]
                         ELSE IF k <= Len(file) THEN file[k] ELSE Gap
         /\ exec' = [exec EXCEPT ![m] = Rec(exec[m].pc, exec[m].batch, exec[m].taken, n, exec[m].seen)]
         /\ Rec(exec[m].pc, exec[m].batch, exec[m].taken, n, exec[m].seen) \in Executions
<1>1. n \in Nat /\ n <= Len(ListOf(m)) /\ exec[m].flushed \in Nat /\ missed[m] \in Nat
  BY ExecIs
<1>2. ListOf(m) \in Seq(Hashtags)
  BY ExecIs
<1>3. /\ file' \in Texts
      /\ Len(file') = IF Len(file) <= n - missed[m] THEN n - missed[m] ELSE Len(file)
      /\ \A k \in 1..Len(file') :
           file'[k] = IF exec[m].flushed < k + missed[m] /\ k + missed[m] <= n
                        THEN ListOf(m)[k + missed[m]]
                      ELSE IF k <= Len(file) THEN file[k] ELSE Gap
  BY <1>1, <1>2, WrittenIs
<1>4. exec' = [exec EXCEPT ![m] = Rec(exec[m].pc, exec[m].batch, exec[m].taken, n, exec[m].seen)]
  BY ExecSets
<1>5. Rec(exec[m].pc, exec[m].batch, exec[m].taken, n, exec[m].seen) \in Executions
  <2>1. /\ exec[m].pc \in {"idle", "saving", "closing", "reading", "estimating"}
        /\ exec[m].batch \in Batches /\ exec[m].taken \in Nat /\ exec[m].seen \in Texts
    BY ExecIs
  <2>2. QED
    BY <1>1, <2>1, RecIs
<1>6. QED
  BY <1>3, <1>4, <1>5

LEMMA LosesIs ==
  ASSUME TypeOK, NEW m \in Modelers, LosesTexts(m), exec[m].pc = "closing" => exec[m].taken <= Len(ListOf(m))
  PROVE  \E n \in (exec[m].flushed + 1)..Len(ListOf(m)) :
           /\ exec[m].pc = "closing" => n <= exec[m].taken
           /\ missed' = [missed EXCEPT ![m] = missed[m] + (n - exec[m].flushed)]
           /\ exec' = [exec EXCEPT ![m] = Rec(exec[m].pc, exec[m].batch, exec[m].taken, n, exec[m].seen)]
           /\ Rec(exec[m].pc, exec[m].batch, exec[m].taken, n, exec[m].seen) \in Executions
           /\ missed[m] + (n - exec[m].flushed) \in Nat \ {0}
           /\ missed' \in [Modelers -> Nat] /\ missed'[m] = missed[m] + (n - exec[m].flushed)
<1>1. PICK n \in (exec[m].flushed + 1)..(IF exec[m].pc = "saving" THEN Len(ListOf(m)) ELSE exec[m].taken) :
        /\ missed' = [missed EXCEPT ![m] = missed[m] + (n - exec[m].flushed)]
        /\ exec' = [exec EXCEPT ![m].flushed = n]
  BY DEF LosesTexts
<1>2. /\ exec[m].flushed \in Nat /\ missed[m] \in Nat /\ exec[m].taken \in Nat
      /\ Len(ListOf(m)) \in Nat /\ exec[m].pc \in {"saving", "closing"}
  BY ExecIs DEF LosesTexts
<1>3. /\ n \in (exec[m].flushed + 1)..Len(ListOf(m))
      /\ exec[m].pc = "closing" => n <= exec[m].taken
  BY <1>1, <1>2
<1>4. n \in Nat /\ missed[m] + (n - exec[m].flushed) \in Nat \ {0}
  BY <1>2, <1>3
<1>5. exec' = [exec EXCEPT ![m] = Rec(exec[m].pc, exec[m].batch, exec[m].taken, n, exec[m].seen)]
  BY <1>1, ExecSets
<1>6. Rec(exec[m].pc, exec[m].batch, exec[m].taken, n, exec[m].seen) \in Executions
  <2>1. /\ exec[m].pc \in {"idle", "saving", "closing", "reading", "estimating"}
        /\ exec[m].batch \in Batches /\ exec[m].taken \in Nat /\ exec[m].seen \in Texts
    BY ExecIs
  <2>2. QED
    BY <1>4, <2>1, RecIs
<1>7. missed' \in [Modelers -> Nat] /\ missed'[m] = missed[m] + (n - exec[m].flushed)
  BY <1>1, <1>4 DEF TypeOK
<1>8. QED
  BY <1>1, <1>3, <1>4, <1>5, <1>6, <1>7

LEMMA TakenIs ==
  ASSUME TypeOK, NEW m \in Modelers, TakenAll(m)
  PROVE  /\ exec' = [exec EXCEPT ![m] = Rec("closing", exec[m].batch, Len(ListOf(m)),
                                            exec[m].flushed, exec[m].seen)]
         /\ Rec("closing", exec[m].batch, Len(ListOf(m)), exec[m].flushed, exec[m].seen) \in Executions
<1>1. exec' = [exec EXCEPT ![m].pc = "closing", ![m].taken = Len(ListOf(m))]
  BY DEF TakenAll
<1>2. exec' = [exec EXCEPT ![m] = Rec("closing", exec[m].batch, Len(ListOf(m)), exec[m].flushed, exec[m].seen)]
  <2> DEFINE e == exec[m]
  <2>1. exec \in [Modelers -> Executions] /\ e \in Executions
    BY ExecIs
  <2>2. [e EXCEPT !.pc = "closing"] = Rec("closing", e.batch, e.taken, e.flushed, e.seen)
    BY <2>1 DEF Executions, Rec
  <2>3. [e EXCEPT !.pc = "closing", !.taken = Len(ListOf(m))] = Rec("closing", e.batch, Len(ListOf(m)), e.flushed, e.seen)
    <3>1. [e EXCEPT !.pc = "closing", !.taken = Len(ListOf(m))] = [[e EXCEPT !.pc = "closing"] EXCEPT !.taken = Len(ListOf(m))]
      OBVIOUS
    <3>2. [Rec("closing", e.batch, e.taken, e.flushed, e.seen) EXCEPT !.taken = Len(ListOf(m))] = Rec("closing", e.batch, Len(ListOf(m)), e.flushed, e.seen)
      BY DEF Rec
    <3>3. QED
      BY <2>2, <3>1, <3>2
  <2> HIDE DEF e
  <2>4. QED
    BY <1>1, <2>1, <2>3 DEF e
<1>3. Rec("closing", exec[m].batch, Len(ListOf(m)), exec[m].flushed, exec[m].seen) \in Executions
  BY ExecIs, RecIs
<1>4. QED
  BY <1>2, <1>3

LEMMA ReopenIs ==
  ASSUME TypeOK, NEW m \in Modelers, ReopenFile(m), exec[m].taken <= Len(ListOf(m))
  PROVE  /\ file' \in Texts
         /\ exec[m].flushed >= exec[m].taken => file' = file
         /\ exec[m].flushed < exec[m].taken =>
              /\ Len(file') = IF Len(file) <= exec[m].taken - missed[m] THEN exec[m].taken - missed[m] ELSE Len(file)
              /\ \A k \in 1..Len(file') :
                   file'[k] = IF exec[m].flushed < k + missed[m] /\ k + missed[m] <= exec[m].taken
                                THEN ListOf(m)[k + missed[m]]
                              ELSE IF k <= Len(file) THEN file[k] ELSE Gap
         /\ exec' = [exec EXCEPT ![m] = Rec("reading", exec[m].batch, 0, 0, exec[m].seen)]
         /\ Rec("reading", exec[m].batch, 0, 0, exec[m].seen) \in Executions
<1>1. /\ exec[m].taken \in Nat /\ exec[m].flushed \in Nat /\ missed[m] \in Nat /\ ListOf(m) \in Seq(Hashtags)
      /\ file \in Texts
  BY ExecIs DEF TypeOK
<1>2. ASSUME exec[m].flushed < exec[m].taken
      PROVE  /\ file' \in Texts
             /\ Len(file') = IF Len(file) <= exec[m].taken - missed[m] THEN exec[m].taken - missed[m] ELSE Len(file)
             /\ \A k \in 1..Len(file') :
                  file'[k] = IF exec[m].flushed < k + missed[m] /\ k + missed[m] <= exec[m].taken
                               THEN ListOf(m)[k + missed[m]]
                             ELSE IF k <= Len(file) THEN file[k] ELSE Gap
  <2>1. file' = Written(ListOf(m), exec[m].flushed, exec[m].taken, missed[m])
    BY <1>2 DEF ReopenFile
  <2>2. /\ file' \in Texts
        /\ Len(file') = IF Len(file) <= exec[m].taken - missed[m] THEN exec[m].taken - missed[m] ELSE Len(file)
        /\ \A k \in 1..Len(file') :
             file'[k] = IF exec[m].flushed < k + missed[m] /\ k + missed[m] <= exec[m].taken
                          THEN ListOf(m)[k + missed[m]]
                        ELSE IF k <= Len(file) THEN file[k] ELSE Gap
    BY <1>1, <2>1, WrittenIs
  <2>3. QED
    BY <1>1, <1>2, <2>2
<1>3. ASSUME ~(exec[m].flushed < exec[m].taken)
      PROVE  file' = file
  BY <1>3 DEF ReopenFile
<1>4. exec' = [exec EXCEPT ![m].pc = "reading", ![m].taken = 0, ![m].flushed = 0]
  BY DEF ReopenFile
<1>5. exec' = [exec EXCEPT ![m] = Rec("reading", exec[m].batch, 0, 0, exec[m].seen)]
  <2> DEFINE e == exec[m]
  <2>1. exec \in [Modelers -> Executions] /\ e \in Executions
    BY ExecIs
  <2>2. [e EXCEPT !.pc = "reading"] = Rec("reading", e.batch, e.taken, e.flushed, e.seen)
    BY <2>1 DEF Executions, Rec
  <2>3. [e EXCEPT !.pc = "reading", !.taken = 0] = Rec("reading", e.batch, 0, e.flushed, e.seen)
    <3>1. [e EXCEPT !.pc = "reading", !.taken = 0] = [[e EXCEPT !.pc = "reading"] EXCEPT !.taken = 0]
      OBVIOUS
    <3>2. [Rec("reading", e.batch, e.taken, e.flushed, e.seen) EXCEPT !.taken = 0] = Rec("reading", e.batch, 0, e.flushed, e.seen)
      BY DEF Rec
    <3>3. QED
      BY <2>2, <3>1, <3>2
  <2>4. [e EXCEPT !.pc = "reading", !.taken = 0, !.flushed = 0] = Rec("reading", e.batch, 0, 0, e.seen)
    <3>1. [e EXCEPT !.pc = "reading", !.taken = 0, !.flushed = 0] = [[e EXCEPT !.pc = "reading", !.taken = 0] EXCEPT !.flushed = 0]
      OBVIOUS
    <3>2. [Rec("reading", e.batch, 0, e.flushed, e.seen) EXCEPT !.flushed = 0] = Rec("reading", e.batch, 0, 0, e.seen)
      BY DEF Rec
    <3>3. QED
      BY <2>3, <3>1, <3>2
  <2> HIDE DEF e
  <2>5. QED
    BY <1>4, <2>1, <2>4 DEF e
<1>6. Rec("reading", exec[m].batch, 0, 0, exec[m].seen) \in Executions
  BY ExecIs, RecIs
<1>7. /\ file' \in Texts
      /\ exec[m].flushed >= exec[m].taken => file' = file
      /\ exec[m].flushed < exec[m].taken =>
           /\ Len(file') = IF Len(file) <= exec[m].taken - missed[m] THEN exec[m].taken - missed[m] ELSE Len(file)
           /\ \A k \in 1..Len(file') :
                file'[k] = IF exec[m].flushed < k + missed[m] /\ k + missed[m] <= exec[m].taken
                             THEN ListOf(m)[k + missed[m]]
                           ELSE IF k <= Len(file) THEN file[k] ELSE Gap
  BY <1>1, <1>2, <1>3
<1>8. QED
  BY <1>5, <1>6, <1>7

LEMMA ReadIs ==
  ASSUME TypeOK, NEW m \in Modelers, NEW n \in (Len(exec[m].seen) + 1)..Len(file),
         exec' = [exec EXCEPT ![m].seen = exec[m].seen \o SubSeq(file, Len(exec[m].seen) + 1, n)]
  PROVE  \E s \in Texts :
           /\ Len(s) = n
           /\ \A k \in 1..Len(exec[m].seen) : s[k] = exec[m].seen[k]
           /\ \A k \in (Len(exec[m].seen) + 1)..n : s[k] = file[k]
           /\ exec' = [exec EXCEPT ![m] = Rec(exec[m].pc, exec[m].batch, exec[m].taken,
                                              exec[m].flushed, s)]
           /\ Rec(exec[m].pc, exec[m].batch, exec[m].taken, exec[m].flushed, s) \in Executions
<1> DEFINE z == exec[m].seen
           y == SubSeq(file, Len(z) + 1, n)
<1>1. z \in Seq(Words) /\ file \in Seq(Words) /\ Len(z) \in Nat /\ Len(file) \in Nat
  BY ExecIs
<1> HIDE DEF z
<1>2. n \in Int /\ Len(z) + 1 <= n /\ n <= Len(file)
  BY <1>1 DEF z
<1>3. \A i \in (Len(z) + 1)..n : file[i] \in Words
  BY <1>1, <1>2, ElementOfSeq
<1>4. /\ y \in Seq(Words) /\ Len(y) = n - Len(z)
      /\ \A i \in 1..(n - Len(z)) : y[i] = file[Len(z) + i]
  BY <1>1, <1>2, <1>3, SubSeqProperties
<1> HIDE DEF y
<1>5. /\ z \o y \in Seq(Words) /\ Len(z \o y) = Len(z) + Len(y)
      /\ \A i \in 1..(Len(z) + Len(y)) : (z \o y)[i] = IF i <= Len(z) THEN z[i] ELSE y[i - Len(z)]
  BY <1>1, <1>4, ConcatProperties
<1>6. Len(z \o y) = n /\ (\A k \in 1..Len(z) : (z \o y)[k] = z[k])
      /\ (\A k \in (Len(z) + 1)..n : (z \o y)[k] = file[k])
  BY <1>1, <1>2, <1>4, <1>5
<1>7. z \o y \in Texts
  BY <1>5 DEF Texts, Words
<1>8. exec' = [exec EXCEPT ![m] = Rec(exec[m].pc, exec[m].batch, exec[m].taken, exec[m].flushed, z \o y)]
  BY ExecSets DEF z, y
<1>9. Rec(exec[m].pc, exec[m].batch, exec[m].taken, exec[m].flushed, z \o y) \in Executions
  BY <1>7, ExecIs, RecIs
<1>10. QED
  BY <1>6, <1>7, <1>8, <1>9 DEF z

LEMMA EndIs ==
  ASSUME TypeOK, NEW m \in Modelers, EndOfFile(m)
  PROVE  /\ exec' = [exec EXCEPT ![m] = Rec("estimating", exec[m].batch, exec[m].taken,
                                            exec[m].flushed, exec[m].seen)]
         /\ Rec("estimating", exec[m].batch, exec[m].taken, exec[m].flushed, exec[m].seen) \in Executions
<1>1. exec' = [exec EXCEPT ![m].pc = "estimating"]
  BY DEF EndOfFile
<1>2. exec' = [exec EXCEPT ![m] = Rec("estimating", exec[m].batch, exec[m].taken,
                                      exec[m].flushed, exec[m].seen)]
  BY <1>1, ExecSets
<1>3. Rec("estimating", exec[m].batch, exec[m].taken, exec[m].flushed, exec[m].seen) \in Executions
  BY ExecIs, RecIs
<1>4. QED
  BY <1>2, <1>3

LEMMA EmitIs ==
  ASSUME TypeOK, NEW m \in Modelers, EmitTopics(m)
  PROVE  TopicsOf(m) \in Topics /\ topicq' = topicq \union {TopicsOf(m)} /\ topicq' \subseteq Topics
<1>1. TopicsOf(m) \in Topics
  BY ExecIs DEF Topics, TopicsOf
<1>2. topicq' = topicq \union {TopicsOf(m)}
  BY DEF EmitTopics
<1>3. QED
  BY <1>1, <1>2 DEF TypeOK

LEMMA RowIs ==
  ASSUME Typed, NEW t \in topicq, WriteRow(t)
  PROVE  /\ t.hashtag \in Hashtags /\ t.model \in Texts /\ t.id \in Ids
         /\ rows' = [rows EXCEPT ![t.hashtag] = t.model]
         /\ rows' \in [Hashtags -> Texts \union {NoRow}]
<1>1. t.hashtag \in Hashtags /\ t.model \in Texts /\ t.id \in Ids
  BY DEF Typed, TypeOK, Topics
<1>2. rows' = [rows EXCEPT ![t.hashtag] = t.model]
  BY DEF WriteRow
<1>3. QED
  BY <1>1, <1>2 DEF Typed

-----------------------------------------------------------------------------
(* Types. *)

\* The types of the next state, from those of the variables.
LEMMA TypedIs ==
  Typed <=>
    /\ tasks \subseteq Modelers /\ route \in [Hashtags -> Collectors]
    /\ tweets \in [Collectors -> Seq(Hashtags)]
    /\ countTweet \in [Collectors -> 0..(NUM_TWEET - 1)]
    /\ modelq \in [Modelers -> Seq(Batches)]
    /\ exec \in [Modelers -> Executions]
    /\ missed \in [Modelers -> Nat]
    /\ file \in Texts
    /\ topicq \subseteq Topics
    /\ rows \in [Hashtags -> Texts \union {NoRow}]
    /\ received \in 0..MaxTweets
    /\ handed \subseteq Ids /\ served \subseteq Ids /\ lost \subseteq Ids
    /\ faults \in Nat
<1>1. rows \in [Hashtags -> Texts \union {NoRow}] => \A h \in Hashtags : rows[h] = NoRow \/ rows[h] \in Texts
  OBVIOUS
<1>2. QED
  BY <1>1, Zenon DEF Typed, TypeOK

\* What a worker starts with.
LEMMA StartTyped ==
  /\ [c \in Collectors |-> <<>>] \in [Collectors -> Seq(Hashtags)]
  /\ [c \in Collectors |-> 0] \in [Collectors -> 0..(NUM_TWEET - 1)]
  /\ [m \in Modelers |-> <<>>] \in [Modelers -> Seq(Batches)]
  /\ [m \in Modelers |-> Idle] \in [Modelers -> Executions]
  /\ [m \in Modelers |-> 0] \in [Modelers -> Nat]
<1>1. <<>> \in Seq(Hashtags) /\ <<>> \in Seq(Batches)
  BY EmptySeq
<1>2. 0 \in 0..(NUM_TWEET - 1)
  BY TopicAssumption
<1>3. QED
  BY <1>1, <1>2, IdleIs

LEMMA InitTyped == Init => Typed
<1> SUFFICES ASSUME Init PROVE Typed
  OBVIOUS
<1>1. PICK n \in {0, NUM_TWEET + 1} : file = [k \in 1..n |-> Leftover]
  BY DEF Init
<1>2. n \in Nat
  BY TopicAssumption
<1>3. file \in [1..n -> Words]
  BY <1>1 DEF Words
<1>4. file \in Texts
  BY <1>2, <1>3 DEF Texts, Words
<1>5. tasks \subseteq Modelers /\ route \in [Hashtags -> Collectors] /\ faults \in Nat
      /\ received \in 0..MaxTweets /\ rows \in [Hashtags -> Texts \union {NoRow}]
      /\ handed \subseteq Ids /\ served \subseteq Ids /\ lost \subseteq Ids
  BY TopicAssumption DEF Init
<1>6. QED
  BY <1>4, <1>5, StartTyped, TypedIs DEF Init, Start

\* Each step keeps the types, where what a task saves is still in its list.
LEMMA TypeStep ==
  ASSUME Typed, [Next]_vars,
         \A m \in Modelers : exec[m].pc = "closing" => exec[m].taken <= Len(ListOf(m))
  PROVE  Typed'
<1>1. /\ tasks \subseteq Modelers /\ route \in [Hashtags -> Collectors]
      /\ tweets \in [Collectors -> Seq(Hashtags)]
      /\ countTweet \in [Collectors -> 0..(NUM_TWEET - 1)]
      /\ modelq \in [Modelers -> Seq(Batches)]
      /\ exec \in [Modelers -> Executions]
      /\ missed \in [Modelers -> Nat]
      /\ file \in Texts
      /\ topicq \subseteq Topics
      /\ rows \in [Hashtags -> Texts \union {NoRow}]
      /\ received \in 0..MaxTweets
      /\ handed \subseteq Ids /\ served \subseteq Ids /\ lost \subseteq Ids
      /\ faults \in Nat
  BY TypedIs
<1>2. TypeOK
  BY DEF Typed
<1> SUFFICES
      /\ tasks' \subseteq Modelers /\ route' \in [Hashtags -> Collectors]
      /\ tweets' \in [Collectors -> Seq(Hashtags)]
      /\ countTweet' \in [Collectors -> 0..(NUM_TWEET - 1)]
      /\ modelq' \in [Modelers -> Seq(Batches)]
      /\ exec' \in [Modelers -> Executions]
      /\ missed' \in [Modelers -> Nat]
      /\ file' \in Texts
      /\ topicq' \subseteq Topics
      /\ rows' \in [Hashtags -> Texts \union {NoRow}]
      /\ received' \in 0..MaxTweets
      /\ handed' \subseteq Ids /\ served' \subseteq Ids /\ lost' \subseteq Ids
      /\ faults' \in Nat
  <2>1. rows' \in [Hashtags -> Texts \union {NoRow}] => \A h \in Hashtags : rows'[h] = NoRow \/ rows'[h] \in Texts
    OBVIOUS
  <2>2. QED
    BY <2>1, Zenon DEF Typed, TypeOK
<1>3. ASSUME NEW m \in Modelers, NEW r \in Executions, exec' = [exec EXCEPT ![m] = r]
      PROVE  exec' \in [Modelers -> Executions]
  BY <1>1, <1>3
<1>4. ASSUME NEW m \in Modelers, Return(m)
      PROVE  exec' \in [Modelers -> Executions] /\ missed' \in [Modelers -> Nat]
  BY <1>1, <1>4, IdleIs DEF Return
<1>5. ASSUME NEW h \in Hashtags, Collect(h) PROVE UNCHANGED <<wiring, modeling, writing, lost, faults>>
  BY <1>5 DEF Collect
<1>6. CASE \E h \in Hashtags : Collect(h)
  BY <1>1, <1>2, <1>5, <1>6, CollectIs DEF wiring, modeling, writing
<1>7. ASSUME NEW m \in Modelers, OpenFile(m) PROVE exec' \in [Modelers -> Executions] /\ modelq' \in [Modelers -> Seq(Batches)] /\ file' \in Texts
  BY <1>2, <1>3, <1>7, OpenIs, EmptySeq DEF OpenFile, Texts
<1>8. ASSUME NEW m \in Modelers, Flush(m) PROVE exec' \in [Modelers -> Executions] /\ file' \in Texts
  BY <1>2, <1>3, <1>8, FlushIs DEF Flush
<1>9. ASSUME NEW m \in Modelers, TakenAll(m) PROVE exec' \in [Modelers -> Executions]
  BY <1>2, <1>3, <1>9, TakenIs
<1>10. ASSUME NEW m \in Modelers, ReopenFile(m) PROVE exec' \in [Modelers -> Executions] /\ file' \in Texts
  <2>1. exec[m].taken <= Len(ListOf(m))
    BY <1>10 DEF ReopenFile
  <2>2. QED
    BY <1>2, <1>3, <1>10, <2>1, ReopenIs
<1>11. ASSUME NEW m \in Modelers, ReadTexts(m) PROVE exec' \in [Modelers -> Executions]
  <2>1. PICK n \in (Len(exec[m].seen) + 1)..Len(file) :
          exec' = [exec EXCEPT ![m].seen = exec[m].seen \o SubSeq(file, Len(exec[m].seen) + 1, n)]
    BY <1>11 DEF ReadTexts
  <2>2. PICK s \in Texts :
          /\ exec' = [exec EXCEPT ![m] = Rec(exec[m].pc, exec[m].batch, exec[m].taken, exec[m].flushed, s)]
          /\ Rec(exec[m].pc, exec[m].batch, exec[m].taken, exec[m].flushed, s) \in Executions
    BY <1>2, <2>1, ReadIs
  <2>3. QED
    BY <1>3, <2>2
<1>12. ASSUME NEW m \in Modelers, EndOfFile(m) PROVE exec' \in [Modelers -> Executions]
  BY <1>2, <1>3, <1>12, EndIs
<1>13. CASE \E m \in Modelers : Execution(m)
  <2>1. PICK m \in Modelers : Execution(m)
    BY <1>13
  <2>2. CASE OpenFile(m)
    BY <1>1, <1>7, <2>2 DEF OpenFile, collecting, wiring, writing
  <2>3. CASE Flush(m)
    BY <1>1, <1>8, <2>3 DEF Flush, collecting, wiring, writing
  <2>4. CASE TakenAll(m)
    BY <1>1, <1>9, <2>4 DEF TakenAll, collecting, wiring, writing
  <2>5. CASE ReopenFile(m)
    BY <1>1, <1>10, <2>5 DEF ReopenFile, collecting, wiring, writing
  <2>6. CASE ReadTexts(m)
    BY <1>1, <1>11, <2>6 DEF ReadTexts, collecting, wiring, writing
  <2>7. CASE EndOfFile(m)
    BY <1>1, <1>12, <2>7 DEF EndOfFile, collecting, wiring, writing
  <2>8. CASE EmitTopics(m)
    <3>1. topicq' \subseteq Topics
      BY <1>2, <2>8, EmitIs
    <3>2. exec' \in [Modelers -> Executions] /\ missed' \in [Modelers -> Nat]
      BY <1>4, <2>8 DEF EmitTopics
    <3>3. UNCHANGED <<collecting, modelq, file, rows, served, lost, faults>>
      BY <2>8 DEF EmitTopics
    <3>4. QED
      BY <1>1, <3>1, <3>2, <3>3 DEF collecting, wiring
  <2>9. QED
    BY <2>1, <2>2, <2>3, <2>4, <2>5, <2>6, <2>7, <2>8 DEF Execution
<1>14. CASE \E m \in Modelers : ModelingFails(m) \/ EmptyCorpusFails(m)
  <2>1. PICK m \in Modelers : ModelingFails(m) \/ EmptyCorpusFails(m)
    BY <1>14
  <2>2. exec[m].batch.id \in Ids
    BY <1>2, ExecIs
  <2>3. Return(m) /\ lost' \subseteq Ids /\ UNCHANGED <<collecting, modelq, file, writing>> /\ faults' \in Nat
    BY <1>1, <2>1, <2>2 DEF ModelingFails, EmptyCorpusFails
  <2>4. QED
    BY <1>1, <1>4, <2>3 DEF collecting, wiring, writing
<1>15. CASE \E m \in Modelers : LosesTexts(m)
  <2>1. PICK m \in Modelers : LosesTexts(m)
    BY <1>15
  <2>2. exec' \in [Modelers -> Executions] /\ missed' \in [Modelers -> Nat]
    BY <1>2, <1>3, <2>1, LosesIs
  <2>3. faults' \in Nat /\ UNCHANGED <<collecting, modelq, file, writing, lost>>
    BY <1>1, <2>1 DEF LosesTexts
  <2>4. QED
    BY <1>1, <2>2, <2>3 DEF collecting, wiring, writing
<1>16. CASE \E t \in topicq : WriteRow(t) \/ LoseWrite(t)
  <2>1. PICK t \in topicq : WriteRow(t) \/ LoseWrite(t)
    BY <1>16
  <2>2. t.id \in Ids
    BY <1>1 DEF Topics
  <2>3. CASE WriteRow(t)
    <3>1. rows' \in [Hashtags -> Texts \union {NoRow}]
      BY <2>3, RowIs
    <3>2. topicq' \subseteq Topics /\ served' \subseteq Ids /\ UNCHANGED <<collecting, modelq, modeling, lost, faults>>
      BY <1>1, <2>2, <2>3 DEF WriteRow
    <3>3. QED
      BY <1>1, <3>1, <3>2 DEF collecting, wiring, modeling
  <2>4. CASE LoseWrite(t)
    <3>1. /\ topicq' \subseteq Topics /\ lost' \subseteq Ids /\ faults' \in Nat
          /\ UNCHANGED <<collecting, modelq, modeling, rows, served>>
      BY <1>1, <2>2, <2>4 DEF LoseWrite
    <3>2. QED
      BY <1>1, <3>1 DEF collecting, wiring, modeling
  <2>5. QED
    BY <2>1, <2>3, <2>4
<1>17. CASE Crash
  <2>1. Len(file) \in Nat
    BY <1>1, LenProperties DEF Texts
  <2>2. file' = [k \in 1..Len(file) |-> Leftover]
    BY <1>17 DEF Crash
  <2>3. file' \in [1..Len(file) -> Words]
    BY <2>2 DEF Words
  <2>4. file' \in Texts
    BY <2>1, <2>3 DEF Texts, Words
  <2>5. lost' \subseteq Ids /\ faults' \in Nat
    BY <1>1, <1>17 DEF Crash
  <2>6. QED
    BY <1>1, <1>17, <2>4, <2>5, StartTyped DEF Crash, wiring
<1>18. CASE UNCHANGED vars
  BY <1>1, <1>18 DEF vars, collecting, wiring, modeling, writing
<1>19. QED
  BY <1>6, <1>13, <1>14, <1>15, <1>16, <1>17, <1>18 DEF Next

-----------------------------------------------------------------------------
(* Batches and lists. *)

\* An execution and what waits at its task, against the lists: a batch is no longer
\* than its list, nor is what a save took of it, and an idle task holds nothing.
Listed(e, q, lists) ==
  /\ \A k \in 1..Len(q) : q[k].size <= Len(lists[q[k].from])
  /\ e.batch.size <= Len(lists[e.batch.from])
  /\ e.pc = "closing" => e.batch.size <= e.taken /\ e.taken <= Len(lists[e.batch.from])
  /\ e.pc = "idle" => e = Idle

\* Tasks a topology does not have get nothing.
ListInv ==
  \A m \in Modelers : /\ Listed(exec[m], modelq[m], tweets)
                      /\ m \notin tasks => exec[m].pc = "idle" /\ modelq[m] = <<>>

LEMMA IdleListed ==
  ASSUME NEW q \in Seq(Batches), NEW lists \in [Collectors -> Seq(Hashtags)],
         \A k \in 1..Len(q) : q[k].size <= Len(lists[q[k].from])
  PROVE  Listed(Idle, q, lists)
<1>1. Idle.batch.from \in Collectors
  BY IdleIs DEF Batches
<1>2. Len(lists[Idle.batch.from]) \in Nat
  BY <1>1, LenProperties
<1>3. QED
  BY <1>2, IdleIs DEF Listed

LEMMA StartListed ==
  ASSUME tweets' = [c \in Collectors |-> <<>>], modelq' = [m \in Modelers |-> <<>>],
         exec' = [m \in Modelers |-> Idle]
  PROVE  ListInv'
<1>1. tweets' \in [Collectors -> Seq(Hashtags)] /\ <<>> \in Seq(Batches) /\ Len(<<>>) = 0
  BY StartTyped, EmptySeq
<1>2. ASSUME NEW q \in Seq(Batches), Len(q) = 0 PROVE Listed(Idle, q, tweets')
  <2>1. \A k \in 1..Len(q) : q[k].size <= Len(tweets'[q[k].from])
    BY <1>2
  <2>2. QED
    BY <1>1, <2>1, IdleListed
<1>3. Listed(Idle, <<>>, tweets')
  BY <1>1, <1>2
<1>4. QED
  BY <1>3, IdleIs DEF ListInv

\* A task that has something to do is one of the topology's.
LEMMA OnlyTasks ==
  ASSUME TypeOK, ListInv, NEW m \in Modelers, exec[m].pc # "idle" \/ modelq[m] # <<>>
  PROVE  m \in tasks
BY DEF ListInv

\* One execution goes on, with what it works on and what waits.
LEMMA ListedReplaced ==
  ASSUME TypeOK, ListInv, NEW m \in tasks, NEW r \in Executions, NEW q,
         exec' = [exec EXCEPT ![m] = r], modelq' = [modelq EXCEPT ![m] = q],
         tweets' = tweets, tasks' = tasks, Listed(r, q, tweets)
  PROVE  ListInv'
<1>1. m \in Modelers /\ exec \in [Modelers -> Executions] /\ modelq \in [Modelers -> Seq(Batches)]
  BY DEF TypeOK
<1>2. ASSUME NEW n \in Modelers
      PROVE  Listed(exec'[n], modelq'[n], tweets') /\ (n \notin tasks' => exec'[n].pc = "idle" /\ modelq'[n] = <<>>)
  <2>1. CASE n = m
    <3>1. exec'[n] = r /\ modelq'[n] = q
      BY <1>1, <2>1
    <3>2. QED
      BY <2>1, <3>1
  <2>2. CASE n # m
    <3>1. exec'[n] = exec[n] /\ modelq'[n] = modelq[n]
      BY <1>1, <2>2
    <3>2. Listed(exec[n], modelq[n], tweets) /\ (n \notin tasks => exec[n].pc = "idle" /\ modelq[n] = <<>>)
      BY DEF ListInv
    <3>3. QED
      BY <3>1, <3>2
  <2>3. QED
    BY <2>1, <2>2
<1>3. QED
  BY <1>2 DEF ListInv

\* The same where nothing is taken from what waits.
LEMMA ListedGoesOn ==
  ASSUME TypeOK, ListInv, NEW m \in tasks, NEW r \in Executions,
         exec' = [exec EXCEPT ![m] = r], modelq' = modelq, tweets' = tweets, tasks' = tasks,
         r = Idle \/ (r.pc # "idle" /\ r.batch = exec[m].batch),
         r.pc = "closing" => r.batch.size <= r.taken /\ r.taken <= Len(ListOf(m))
  PROVE  ListInv'
<1>1. m \in Modelers /\ modelq \in [Modelers -> Seq(Batches)] /\ tweets \in [Collectors -> Seq(Hashtags)]
  BY DEF TypeOK
<1>2. Listed(exec[m], modelq[m], tweets)
  BY <1>1 DEF ListInv
<1>3. Listed(r, modelq[m], tweets)
  <2>1. CASE r = Idle
    BY <1>1, <1>2, <2>1, IdleListed DEF Listed
  <2>2. CASE r.pc # "idle" /\ r.batch = exec[m].batch
    BY <1>2, <2>2 DEF Listed, ListOf
  <2>3. QED
    BY <2>1, <2>2
<1>4. modelq' = [modelq EXCEPT ![m] = modelq[m]]
  BY <1>1
<1>5. QED
  BY <1>3, <1>4, ListedReplaced

\* The steps that leave the lists, the batches and the executions alone.
LEMMA ListStep ==
  ASSUME TypeOK, TypeOK', ListInv, [Next]_vars
  PROVE  ListInv'
<1>1. \A m \in Modelers : Listed(exec[m], modelq[m], tweets)
  BY DEF ListInv
<1>2. ASSUME NEW h \in Hashtags, Collect(h) PROVE ListInv'
  <2>1. exec' = exec /\ tasks' = tasks
    BY <1>2 DEF Collect, wiring, modeling
  <2>2. ASSUME NEW m \in Modelers
        PROVE  Listed(exec'[m], modelq'[m], tweets') /\ (m \notin tasks' => exec'[m].pc = "idle" /\ modelq'[m] = <<>>)
    <3>1. /\ exec[m].batch.from \in Collectors /\ exec[m].batch.size \in Nat /\ exec[m].taken \in Nat
      BY ExecIs
    <3>2. /\ modelq[m] \in Seq(Batches) /\ Len(modelq[m]) \in Nat
          /\ \A k \in 1..Len(modelq[m]) : modelq[m][k] \in Batches
      BY LenProperties, ElementOfSeq DEF TypeOK
    <3>3. \A c \in Collectors : Len(tweets[c]) \in Nat /\ Len(tweets'[c]) \in Nat /\ Len(tweets[c]) <= Len(tweets'[c])
      BY <1>2, CollectIs
    <3>4. \A k \in 1..Len(modelq[m]) : modelq[m][k].size <= Len(tweets'[modelq[m][k].from])
      <4>1. ASSUME NEW k \in 1..Len(modelq[m])
            PROVE  modelq[m][k].size <= Len(tweets'[modelq[m][k].from])
        <5>1. modelq[m][k].size \in Nat /\ modelq[m][k].from \in Collectors
          BY <3>2 DEF Batches
        <5>2. modelq[m][k].size <= Len(tweets[modelq[m][k].from])
          BY <1>1 DEF Listed
        <5>3. QED
          BY <3>3, <5>1, <5>2
      <4>2. QED
        BY <4>1
    <3>5. Listed(exec[m], modelq[m], tweets')
      BY <1>1, <3>1, <3>3, <3>4 DEF Listed
    <3>6. CASE modelq'[m] = modelq[m]
      BY <2>1, <3>5, <3>6 DEF ListInv
    <3>7. CASE m \in tasks /\ \E b \in Batches : modelq'[m] = Append(modelq[m], b) /\ b.size <= Len(tweets'[b.from])
      <4>1. PICK b \in Batches : modelq'[m] = Append(modelq[m], b) /\ b.size <= Len(tweets'[b.from])
        BY <3>7
      <4>2. /\ Len(modelq'[m]) = Len(modelq[m]) + 1
            /\ \A k \in 1..Len(modelq[m]) : modelq'[m][k] = modelq[m][k]
            /\ modelq'[m][Len(modelq[m]) + 1] = b
        BY <3>2, <4>1, AppendProperties
      <4>3. \A k \in 1..Len(modelq'[m]) : modelq'[m][k].size <= Len(tweets'[modelq'[m][k].from])
        BY <3>2, <3>4, <4>1, <4>2
      <4>4. QED
        BY <2>1, <3>5, <3>7, <4>3 DEF Listed
    <3>8. QED
      BY <1>2, <3>6, <3>7, CollectIs
  <2>3. QED
    BY <2>2 DEF ListInv
<1>3. ASSUME NEW m \in Modelers, OpenFile(m) PROVE ListInv'
  <2>1. m \in tasks
    BY <1>3, OnlyTasks DEF OpenFile
  <2> DEFINE r == Rec("saving", Head(modelq[m]), exec[m].taken, exec[m].flushed, exec[m].seen)
             q == Tail(modelq[m])
  <2>2. /\ exec' = [exec EXCEPT ![m] = r] /\ r \in Executions
        /\ modelq' = [modelq EXCEPT ![m] = q] /\ tweets' = tweets /\ tasks' = tasks
    BY <1>3, OpenIs DEF OpenFile, collecting, wiring
  <2>3. r.pc = "saving" /\ r.batch = modelq[m][1]
    BY <1>3, OpenIs DEF Rec
  <2>4. /\ Len(modelq[m]) \in Nat \ {0} /\ Len(q) = Len(modelq[m]) - 1
        /\ \A k \in 1..Len(q) : q[k] = modelq[m][k + 1]
    BY <1>3, OpenIs
  <2> HIDE DEF r, q
  <2>5. \A k \in 1..Len(modelq[m]) : modelq[m][k].size <= Len(tweets[modelq[m][k].from])
    BY <1>1 DEF Listed
  <2>6. r.batch.size <= Len(tweets[r.batch.from])
    BY <2>3, <2>4, <2>5
  <2>7. \A k \in 1..Len(q) : k + 1 \in 1..Len(modelq[m]) /\ q[k] = modelq[m][k + 1]
    BY <2>4
  <2>8. \A k \in 1..Len(q) : q[k].size <= Len(tweets[q[k].from])
    BY <2>5, <2>7
  <2>9. Listed(r, q, tweets)
    BY <2>3, <2>6, <2>8 DEF Listed
  <2>10. QED
    BY <2>1, <2>2, <2>9, ListedReplaced
<1>4. ASSUME NEW m \in Modelers, Flush(m) PROVE ListInv'
  <2>1. m \in tasks /\ exec[m].pc = "saving"
    BY <1>4, OnlyTasks DEF Flush
  <2>2. PICK n \in (exec[m].flushed + 1)..Len(ListOf(m)) :
          /\ file' = Written(ListOf(m), exec[m].flushed, n, missed[m])
          /\ exec' = [exec EXCEPT ![m].flushed = n]
    BY <1>4 DEF Flush
  <2> DEFINE r == Rec(exec[m].pc, exec[m].batch, exec[m].taken, n, exec[m].seen)
  <2>3. exec' = [exec EXCEPT ![m] = r] /\ r \in Executions
    BY <2>2, FlushIs
  <2>4. r.pc = "saving" /\ r.batch = exec[m].batch
    BY <2>1 DEF Rec
  <2>5. modelq' = modelq /\ tweets' = tweets /\ tasks' = tasks
    BY <1>4 DEF Flush, collecting, wiring
  <2> HIDE DEF r
  <2>6. QED
    BY <2>1, <2>3, <2>4, <2>5, ListedGoesOn
<1>5. ASSUME NEW m \in Modelers, TakenAll(m) PROVE ListInv'
  <2>1. m \in tasks
    BY <1>5, OnlyTasks DEF TakenAll
  <2> DEFINE r == Rec("closing", exec[m].batch, Len(ListOf(m)), exec[m].flushed, exec[m].seen)
  <2>2. exec' = [exec EXCEPT ![m] = r] /\ r \in Executions
    BY <1>5, TakenIs
  <2>3. r.pc = "closing" /\ r.batch = exec[m].batch /\ r.taken = Len(ListOf(m))
    BY DEF Rec
  <2>4. modelq' = modelq /\ tweets' = tweets /\ tasks' = tasks
    BY <1>5 DEF TakenAll, collecting, wiring
  <2>5. exec[m].batch.size <= Len(ListOf(m)) /\ Len(ListOf(m)) \in Nat
    BY <1>1, ExecIs DEF Listed, ListOf
  <2>6. r.batch.size <= r.taken /\ r.taken <= Len(ListOf(m)) /\ r.pc # "idle"
    BY <2>3, <2>5
  <2> HIDE DEF r
  <2>7. QED
    BY <2>1, <2>2, <2>3, <2>4, <2>6, ListedGoesOn
<1>6. ASSUME NEW m \in Modelers, ReopenFile(m) PROVE ListInv'
  <2>1. m \in tasks /\ exec[m].pc = "closing"
    BY <1>6, OnlyTasks DEF ReopenFile
  <2> DEFINE r == Rec("reading", exec[m].batch, 0, 0, exec[m].seen)
  <2>2. exec[m].taken <= Len(ListOf(m))
    BY <1>1, <2>1 DEF Listed, ListOf
  <2>3. exec' = [exec EXCEPT ![m] = r] /\ r \in Executions
    BY <1>6, <2>2, ReopenIs
  <2>4. r.pc = "reading" /\ r.batch = exec[m].batch
    BY DEF Rec
  <2>5. modelq' = modelq /\ tweets' = tweets /\ tasks' = tasks
    BY <1>6 DEF ReopenFile, collecting, wiring
  <2> HIDE DEF r
  <2>6. QED
    BY <2>1, <2>3, <2>4, <2>5, ListedGoesOn
<1>7. ASSUME NEW m \in Modelers, ReadTexts(m) PROVE ListInv'
  <2>1. m \in tasks /\ exec[m].pc = "reading"
    BY <1>7, OnlyTasks DEF ReadTexts
  <2>2. PICK n \in (Len(exec[m].seen) + 1)..Len(file) :
          exec' = [exec EXCEPT ![m].seen = exec[m].seen \o SubSeq(file, Len(exec[m].seen) + 1, n)]
    BY <1>7 DEF ReadTexts
  <2>3. PICK s \in Texts :
          /\ exec' = [exec EXCEPT ![m] = Rec(exec[m].pc, exec[m].batch, exec[m].taken, exec[m].flushed, s)]
          /\ Rec(exec[m].pc, exec[m].batch, exec[m].taken, exec[m].flushed, s) \in Executions
    BY <2>2, ReadIs
  <2> DEFINE r == Rec(exec[m].pc, exec[m].batch, exec[m].taken, exec[m].flushed, s)
  <2>4. r.pc = "reading" /\ r.batch = exec[m].batch
    BY <2>1 DEF Rec
  <2>5. modelq' = modelq /\ tweets' = tweets /\ tasks' = tasks
    BY <1>7 DEF ReadTexts, collecting, wiring
  <2>6. exec' = [exec EXCEPT ![m] = r] /\ r \in Executions
    BY <2>3
  <2> HIDE DEF r
  <2>7. QED
    BY <2>1, <2>4, <2>5, <2>6, ListedGoesOn
<1>8. ASSUME NEW m \in Modelers, EndOfFile(m) PROVE ListInv'
  <2>1. m \in tasks
    BY <1>8, OnlyTasks DEF EndOfFile
  <2> DEFINE r == Rec("estimating", exec[m].batch, exec[m].taken, exec[m].flushed, exec[m].seen)
  <2>2. exec' = [exec EXCEPT ![m] = r] /\ r \in Executions
    BY <1>8, EndIs
  <2>3. r.pc = "estimating" /\ r.batch = exec[m].batch
    BY DEF Rec
  <2>4. modelq' = modelq /\ tweets' = tweets /\ tasks' = tasks
    BY <1>8 DEF EndOfFile, collecting, wiring
  <2> HIDE DEF r
  <2>5. QED
    BY <2>1, <2>2, <2>3, <2>4, ListedGoesOn
<1>9. ASSUME NEW m \in Modelers, Return(m), exec[m].pc # "idle",
             modelq' = modelq, tweets' = tweets, tasks' = tasks
      PROVE  ListInv'
  <2>1. m \in tasks
    BY <1>9, OnlyTasks
  <2>2. exec' = [exec EXCEPT ![m] = Idle] /\ Idle \in Executions /\ Idle.pc = "idle"
    BY <1>9, IdleIs DEF Return
  <2>3. QED
    BY <1>9, <2>1, <2>2, ListedGoesOn
<1>10. ASSUME NEW m \in Modelers, EmitTopics(m) \/ ModelingFails(m) \/ EmptyCorpusFails(m) PROVE ListInv'
  <2>1. Return(m) /\ exec[m].pc # "idle" /\ modelq' = modelq /\ tweets' = tweets /\ tasks' = tasks
    BY <1>10 DEF EmitTopics, ModelingFails, EmptyCorpusFails, collecting, wiring
  <2>2. QED
    BY <1>9, <2>1
<1>11. ASSUME NEW m \in Modelers, LosesTexts(m) PROVE ListInv'
  <2>1. m \in tasks /\ exec[m].pc \in {"saving", "closing"}
    BY <1>11, OnlyTasks DEF LosesTexts
  <2>2. exec[m].pc = "closing" => exec[m].batch.size <= exec[m].taken /\ exec[m].taken <= Len(ListOf(m))
    BY <1>1 DEF Listed, ListOf
  <2>3. PICK n \in (exec[m].flushed + 1)..Len(ListOf(m)) :
          /\ exec' = [exec EXCEPT ![m] = Rec(exec[m].pc, exec[m].batch, exec[m].taken, n, exec[m].seen)]
          /\ Rec(exec[m].pc, exec[m].batch, exec[m].taken, n, exec[m].seen) \in Executions
    BY <1>11, <2>2, LosesIs
  <2> DEFINE r == Rec(exec[m].pc, exec[m].batch, exec[m].taken, n, exec[m].seen)
  <2>4. r.pc = exec[m].pc /\ r.batch = exec[m].batch /\ r.taken = exec[m].taken
    BY DEF Rec
  <2>5. modelq' = modelq /\ tweets' = tweets /\ tasks' = tasks
    BY <1>11 DEF LosesTexts, collecting, wiring
  <2>6. exec' = [exec EXCEPT ![m] = r] /\ r \in Executions
    BY <2>3
  <2> HIDE DEF r
  <2>7. QED
    BY <2>1, <2>2, <2>4, <2>5, <2>6, ListedGoesOn
<1>12. ASSUME NEW t \in topicq, WriteRow(t) \/ LoseWrite(t) PROVE ListInv'
  BY <1>12, Zenon DEF WriteRow, LoseWrite, collecting, wiring, modeling, ListInv
<1>13. CASE Crash
  BY <1>13, StartListed DEF Crash
<1>14. CASE UNCHANGED vars
  BY <1>14, Zenon DEF vars, collecting, wiring, modeling, ListInv
<1>15. QED
  BY <1>2, <1>3, <1>4, <1>5, <1>6, <1>7, <1>8, <1>10, <1>11, <1>12, <1>13, <1>14 DEF Next, Execution

-----------------------------------------------------------------------------
(* What the only task saves and reads. *)

Begins(s, list) == Len(s) <= Len(list) /\ \A k \in 1..Len(s) : s[k] = list[k]

\* An execution, tweets.txt and the list it works on, where no text was missed: the
\* file begins the list, up to what was flushed, then to no less than the batch, and
\* so does what was read.
SavedAs(e, f, list) ==
  /\ e.pc \in {"saving", "closing"} => e.seen = <<>> /\ Len(f) = e.flushed /\ Begins(f, list)
  /\ e.pc = "closing" => e.flushed <= e.taken
  /\ e.pc = "reading" => /\ e.batch.size <= Len(f) /\ Begins(f, list)
                         /\ Len(e.seen) <= Len(f) /\ Begins(e.seen, list)
  /\ e.pc = "estimating" => e.batch.size <= Len(e.seen) /\ Begins(e.seen, list)

SaveInv ==
  \A m \in Modelers :
    (tasks = {m} /\ missed[m] = 0) => SavedAs(exec[m], file, ListOf(m))

\* A list that grows still begins as it did.
LEMMA BeginsGrown ==
  ASSUME NEW s \in Seq(Words), NEW list \in Seq(Hashtags), NEW list2 \in Seq(Hashtags),
         Begins(s, list), Len(list) <= Len(list2), \A k \in 1..Len(list) : list2[k] = list[k]
  PROVE  Begins(s, list2)
<1>1. Len(s) \in Nat /\ Len(list) \in Nat /\ Len(list2) \in Nat
  BY LenProperties
<1>2. QED
  BY <1>1 DEF Begins

\* The only task there is goes on, whichever task it is that does.
LEMMA SavedReplaced ==
  ASSUME TypeOK, NEW m \in tasks, NEW r \in Executions, exec' = [exec EXCEPT ![m] = r],
         tweets' = tweets, tasks' = tasks,
         (tasks = {m} /\ missed'[m] = 0) => SavedAs(r, file', tweets[r.batch.from])
  PROVE  SaveInv'
<1>1. m \in Modelers /\ exec'[m] = r
  BY DEF TypeOK
<1>2. ASSUME NEW n \in Modelers, tasks' = {n}, missed'[n] = 0
      PROVE  SavedAs(exec'[n], file', tweets'[exec'[n].batch.from])
  <2>1. n = m
    BY <1>2
  <2>2. QED
    BY <1>1, <1>2, <2>1
<1>3. QED
  BY <1>2 DEF SaveInv, ListOf

LEMMA SaveStep ==
  ASSUME TypeOK, ListInv, SaveInv, [Next]_vars
  PROVE  SaveInv'
<1>1. ASSUME NEW h \in Hashtags, Collect(h) PROVE SaveInv'
  <2>1. exec' = exec /\ tasks' = tasks /\ file' = file /\ missed' = missed
    BY <1>1 DEF Collect, wiring, modeling
  <2>2. ASSUME NEW m \in Modelers, tasks' = {m}, missed'[m] = 0
        PROVE  SavedAs(exec'[m], file', tweets'[exec'[m].batch.from])
    <3> DEFINE c == exec[m].batch.from
    <3>1. c \in Collectors /\ exec[m].seen \in Seq(Words) /\ file \in Seq(Words)
      BY ExecIs
    <3>2. tweets[c] \in Seq(Hashtags) /\ tweets'[c] \in Seq(Hashtags)
          /\ Len(tweets[c]) <= Len(tweets'[c]) /\ \A k \in 1..Len(tweets[c]) : tweets'[c][k] = tweets[c][k]
      BY <1>1, <3>1, CollectIs DEF TypeOK
    <3>3. SavedAs(exec[m], file, tweets[c])
      BY <2>1, <2>2 DEF SaveInv, ListOf
    <3> HIDE DEF c
    <3>4. /\ Begins(file, tweets[c]) => Begins(file, tweets'[c])
          /\ Begins(exec[m].seen, tweets[c]) => Begins(exec[m].seen, tweets'[c])
      BY <3>1, <3>2, BeginsGrown
    <3>5. SavedAs(exec[m], file, tweets'[c])
      BY <3>3, <3>4 DEF SavedAs
    <3>6. QED
      BY <2>1, <3>5 DEF c
  <2>3. QED
    BY <2>2 DEF SaveInv, ListOf
<1>2. ASSUME NEW m \in Modelers, OpenFile(m) PROVE SaveInv'
  <2>1. m \in tasks /\ exec[m] = Idle
    BY <1>2, OnlyTasks DEF OpenFile, ListInv, Listed
  <2> DEFINE r == Rec("saving", Head(modelq[m]), exec[m].taken, exec[m].flushed, exec[m].seen)
  <2>2. exec' = [exec EXCEPT ![m] = r] /\ r \in Executions /\ tweets' = tweets /\ tasks' = tasks
    BY <1>2, OpenIs DEF OpenFile, collecting, wiring
  <2>3. r.pc = "saving" /\ r.seen = <<>> /\ r.flushed = 0 /\ r.batch \in Batches
    BY <1>2, <2>1, IdleIs, OpenIs DEF Rec
  <2>4. file' = <<>>
    BY <1>2 DEF OpenFile
  <2> HIDE DEF r
  <2>5. tweets[r.batch.from] \in Seq(Hashtags) /\ Len(tweets[r.batch.from]) \in Nat
    BY <2>3, LenProperties DEF TypeOK, Batches
  <2>6. Len(file') = 0
    BY <2>4, EmptySeq
  <2>7. Begins(file', tweets[r.batch.from])
    BY <2>5, <2>6 DEF Begins
  <2>8. SavedAs(r, file', tweets[r.batch.from])
    BY <2>3, <2>6, <2>7 DEF SavedAs
  <2>9. QED
    BY <2>1, <2>2, <2>8, SavedReplaced
<1>3. ASSUME NEW m \in Modelers, Flush(m) PROVE SaveInv'
  <2>1. m \in tasks /\ exec[m].pc = "saving"
    BY <1>3, OnlyTasks DEF Flush
  <2>2. PICK n \in (exec[m].flushed + 1)..Len(ListOf(m)) :
          /\ file' = Written(ListOf(m), exec[m].flushed, n, missed[m])
          /\ exec' = [exec EXCEPT ![m].flushed = n]
    BY <1>3 DEF Flush
  <2> DEFINE r == Rec(exec[m].pc, exec[m].batch, exec[m].taken, n, exec[m].seen)
  <2>3. exec' = [exec EXCEPT ![m] = r] /\ r \in Executions
    BY <2>2, FlushIs
  <2>4. r.pc = "saving" /\ r.batch = exec[m].batch /\ r.flushed = n /\ r.seen = exec[m].seen
    BY <2>1 DEF Rec
  <2>5. tweets' = tweets /\ tasks' = tasks /\ missed' = missed
    BY <1>3 DEF Flush, collecting, wiring
  <2> HIDE DEF r
  <2>6. ASSUME tasks = {m}, missed'[m] = 0 PROVE SavedAs(r, file', ListOf(m))
    <3>0. missed[m] = 0
      BY <2>5, <2>6
    <3>1. exec[m].seen = <<>> /\ Len(file) = exec[m].flushed /\ Begins(file, ListOf(m))
      BY <2>1, <2>6, <3>0 DEF SaveInv, SavedAs
    <3>2. /\ Len(file') = IF Len(file) <= n - missed[m] THEN n - missed[m] ELSE Len(file)
          /\ \A k \in 1..Len(file') :
               file'[k] = IF exec[m].flushed < k + missed[m] /\ k + missed[m] <= n
                            THEN ListOf(m)[k + missed[m]]
                          ELSE IF k <= Len(file) THEN file[k] ELSE Gap
      BY <2>2, FlushIs
    <3>3. Len(file) \in Nat /\ Len(ListOf(m)) \in Nat
      BY ExecIs
    <3>4. Len(file') = n /\ n <= Len(ListOf(m)) /\ n \in Nat
      BY <3>0, <3>1, <3>2, <3>3
    <3>5. \A k \in 1..n : file'[k] = ListOf(m)[k]
      BY <3>0, <3>1, <3>2, <3>3, <3>4 DEF Begins
    <3>6. QED
      BY <2>4, <3>1, <3>4, <3>5 DEF SavedAs, Begins
  <2>7. QED
    BY <2>1, <2>3, <2>4, <2>5, <2>6, SavedReplaced DEF ListOf
<1>4. ASSUME NEW m \in Modelers, TakenAll(m) PROVE SaveInv'
  <2>1. m \in tasks /\ exec[m].pc = "saving"
    BY <1>4, OnlyTasks DEF TakenAll
  <2> DEFINE r == Rec("closing", exec[m].batch, Len(ListOf(m)), exec[m].flushed, exec[m].seen)
  <2>2. exec' = [exec EXCEPT ![m] = r] /\ r \in Executions
    BY <1>4, TakenIs
  <2>3. /\ r.pc = "closing" /\ r.batch = exec[m].batch /\ r.taken = Len(ListOf(m))
        /\ r.flushed = exec[m].flushed /\ r.seen = exec[m].seen
    BY DEF Rec
  <2>4. file' = file /\ tweets' = tweets /\ tasks' = tasks /\ missed' = missed
    BY <1>4 DEF TakenAll, collecting, wiring
  <2> HIDE DEF r
  <2>5. ASSUME tasks = {m}, missed'[m] = 0 PROVE SavedAs(r, file', ListOf(m))
    <3>1. SavedAs(exec[m], file, ListOf(m))
      BY <2>4, <2>5 DEF SaveInv
    <3>2. QED
      BY <2>1, <2>3, <2>4, <3>1 DEF SavedAs, Begins
  <2>6. QED
    BY <2>1, <2>2, <2>3, <2>4, <2>5, SavedReplaced DEF ListOf
<1>5. ASSUME NEW m \in Modelers, ReopenFile(m) PROVE SaveInv'
  <2>1. m \in tasks /\ exec[m].pc = "closing"
    BY <1>5, OnlyTasks DEF ReopenFile
  <2> DEFINE r == Rec("reading", exec[m].batch, 0, 0, exec[m].seen)
  <2>2. exec[m].batch.size <= exec[m].taken /\ exec[m].taken <= Len(ListOf(m))
    BY <2>1 DEF ListInv, Listed, ListOf
  <2>3. exec' = [exec EXCEPT ![m] = r] /\ r \in Executions
    BY <1>5, <2>2, ReopenIs
  <2>4. r.pc = "reading" /\ r.batch = exec[m].batch /\ r.seen = exec[m].seen
    BY DEF Rec
  <2>5. tweets' = tweets /\ tasks' = tasks /\ missed' = missed
    BY <1>5 DEF ReopenFile, collecting, wiring
  <2> HIDE DEF r
  <2>6. ASSUME tasks = {m}, missed'[m] = 0 PROVE SavedAs(r, file', ListOf(m))
    <3>0. missed[m] = 0
      BY <2>5, <2>6
    <3>1. /\ exec[m].seen = <<>> /\ Len(file) = exec[m].flushed /\ Begins(file, ListOf(m))
          /\ exec[m].flushed <= exec[m].taken
      BY <2>1, <2>6, <3>0 DEF SaveInv, SavedAs
    <3>2. /\ exec[m].taken \in Nat /\ exec[m].flushed \in Nat /\ Len(file) \in Nat
          /\ Len(ListOf(m)) \in Nat
      BY ExecIs
    <3>3. /\ exec[m].flushed >= exec[m].taken => file' = file
          /\ exec[m].flushed < exec[m].taken =>
               /\ Len(file') = IF Len(file) <= exec[m].taken - missed[m] THEN exec[m].taken - missed[m] ELSE Len(file)
               /\ \A k \in 1..Len(file') :
                    file'[k] = IF exec[m].flushed < k + missed[m] /\ k + missed[m] <= exec[m].taken
                                 THEN ListOf(m)[k + missed[m]]
                               ELSE IF k <= Len(file) THEN file[k] ELSE Gap
      BY <1>5, <2>2, ReopenIs
    <3>4. Len(file') = exec[m].taken
      BY <3>0, <3>1, <3>2, <3>3
    <3>5. \A k \in 1..exec[m].taken : file'[k] = ListOf(m)[k]
      BY <3>0, <3>1, <3>2, <3>3, <3>4 DEF Begins
    <3>6. Begins(file', ListOf(m)) /\ Len(<<>>) = 0 /\ Begins(<<>>, ListOf(m))
      BY <2>2, <3>2, <3>4, <3>5 DEF Begins
    <3>7. QED
      BY <2>2, <2>4, <3>1, <3>2, <3>4, <3>6 DEF SavedAs
  <2>7. QED
    BY <2>1, <2>3, <2>4, <2>5, <2>6, SavedReplaced DEF ListOf
<1>6. ASSUME NEW m \in Modelers, ReadTexts(m) PROVE SaveInv'
  <2>1. m \in tasks /\ exec[m].pc = "reading"
    BY <1>6, OnlyTasks DEF ReadTexts
  <2>2. PICK n \in (Len(exec[m].seen) + 1)..Len(file) :
          exec' = [exec EXCEPT ![m].seen = exec[m].seen \o SubSeq(file, Len(exec[m].seen) + 1, n)]
    BY <1>6 DEF ReadTexts
  <2>3. PICK s \in Texts :
          /\ Len(s) = n
          /\ \A k \in 1..Len(exec[m].seen) : s[k] = exec[m].seen[k]
          /\ \A k \in (Len(exec[m].seen) + 1)..n : s[k] = file[k]
          /\ exec' = [exec EXCEPT ![m] = Rec(exec[m].pc, exec[m].batch, exec[m].taken, exec[m].flushed, s)]
          /\ Rec(exec[m].pc, exec[m].batch, exec[m].taken, exec[m].flushed, s) \in Executions
    BY <2>2, ReadIs
  <2> DEFINE r == Rec(exec[m].pc, exec[m].batch, exec[m].taken, exec[m].flushed, s)
  <2>4. r.pc = "reading" /\ r.batch = exec[m].batch /\ r.seen = s
    BY <2>1 DEF Rec
  <2>5. file' = file /\ tweets' = tweets /\ tasks' = tasks /\ missed' = missed
    BY <1>6 DEF ReadTexts, collecting, wiring
  <2>6. exec' = [exec EXCEPT ![m] = r] /\ r \in Executions
    BY <2>3
  <2> HIDE DEF r
  <2>7. ASSUME tasks = {m}, missed'[m] = 0 PROVE SavedAs(r, file', ListOf(m))
    <3>1. /\ exec[m].batch.size <= Len(file) /\ Begins(file, ListOf(m))
          /\ Begins(exec[m].seen, ListOf(m))
      BY <2>1, <2>5, <2>7 DEF SaveInv, SavedAs
    <3>2. Len(file) \in Nat /\ Len(exec[m].seen) \in Nat /\ Len(ListOf(m)) \in Nat
      BY ExecIs
    <3>3. n \in Nat /\ n <= Len(file) /\ Len(exec[m].seen) <= n
      BY <3>2
    <3>4. \A k \in 1..n : s[k] = ListOf(m)[k]
      BY <2>3, <3>1, <3>2, <3>3 DEF Begins
    <3>5. Begins(s, ListOf(m))
      BY <2>3, <3>1, <3>2, <3>3, <3>4 DEF Begins
    <3>6. QED
      BY <2>3, <2>4, <2>5, <3>1, <3>3, <3>5 DEF SavedAs
  <2>8. QED
    BY <2>1, <2>4, <2>5, <2>6, <2>7, SavedReplaced DEF ListOf
<1>7. ASSUME NEW m \in Modelers, EndOfFile(m) PROVE SaveInv'
  <2>1. m \in tasks /\ exec[m].pc = "reading" /\ Len(exec[m].seen) >= Len(file)
    BY <1>7, OnlyTasks DEF EndOfFile
  <2> DEFINE r == Rec("estimating", exec[m].batch, exec[m].taken, exec[m].flushed, exec[m].seen)
  <2>2. exec' = [exec EXCEPT ![m] = r] /\ r \in Executions
    BY <1>7, EndIs
  <2>3. r.pc = "estimating" /\ r.batch = exec[m].batch /\ r.seen = exec[m].seen
    BY DEF Rec
  <2>4. tweets' = tweets /\ tasks' = tasks /\ missed' = missed
    BY <1>7 DEF EndOfFile, collecting, wiring
  <2> HIDE DEF r
  <2>5. ASSUME tasks = {m}, missed'[m] = 0 PROVE SavedAs(r, file', ListOf(m))
    <3>1. exec[m].batch.size <= Len(file) /\ Begins(exec[m].seen, ListOf(m))
      BY <2>1, <2>4, <2>5 DEF SaveInv, SavedAs
    <3>2. exec[m].batch.size \in Nat /\ Len(file) \in Nat /\ Len(exec[m].seen) \in Nat
      BY ExecIs
    <3>3. exec[m].batch.size <= Len(exec[m].seen)
      BY <2>1, <3>1, <3>2
    <3>4. QED
      BY <2>3, <3>1, <3>3 DEF SavedAs
  <2>6. QED
    BY <2>1, <2>2, <2>3, <2>4, <2>5, SavedReplaced DEF ListOf
<1>8. ASSUME NEW m \in Modelers, EmitTopics(m) \/ ModelingFails(m) \/ EmptyCorpusFails(m) PROVE SaveInv'
  <2>1. exec[m].pc # "idle" /\ exec' = [exec EXCEPT ![m] = Idle] /\ tweets' = tweets /\ tasks' = tasks
    BY <1>8 DEF EmitTopics, ModelingFails, EmptyCorpusFails, Return, collecting, wiring
  <2>2. m \in tasks
    BY <2>1, OnlyTasks
  <2>3. Idle \in Executions /\ SavedAs(Idle, file', tweets[Idle.batch.from])
    BY IdleIs DEF SavedAs
  <2>4. QED
    BY <2>1, <2>2, <2>3, SavedReplaced
<1>9. ASSUME NEW m \in Modelers, LosesTexts(m) PROVE SaveInv'
  <2>1. m \in tasks /\ exec[m].pc \in {"saving", "closing"}
    BY <1>9, OnlyTasks DEF LosesTexts
  <2>2. exec[m].pc = "closing" => exec[m].taken <= Len(ListOf(m))
    BY DEF ListInv, Listed, ListOf
  <2>3. PICK n \in (exec[m].flushed + 1)..Len(ListOf(m)) :
          /\ exec' = [exec EXCEPT ![m] = Rec(exec[m].pc, exec[m].batch, exec[m].taken, n, exec[m].seen)]
          /\ Rec(exec[m].pc, exec[m].batch, exec[m].taken, n, exec[m].seen) \in Executions
          /\ missed[m] + (n - exec[m].flushed) \in Nat \ {0}
          /\ missed'[m] = missed[m] + (n - exec[m].flushed)
    BY <1>9, <2>2, LosesIs
  <2>4. missed'[m] # 0
    BY <2>3
  <2>5. tweets' = tweets /\ tasks' = tasks
    BY <1>9 DEF LosesTexts, collecting, wiring
  <2>6. QED
    BY <2>1, <2>3, <2>4, <2>5, SavedReplaced
<1>10. ASSUME NEW t \in topicq, WriteRow(t) \/ LoseWrite(t) PROVE SaveInv'
  BY <1>10, Zenon DEF WriteRow, LoseWrite, collecting, wiring, modeling, SaveInv, ListOf
<1>11. CASE Crash
  <2>1. \A m \in Modelers : exec'[m] = Idle
    BY <1>11 DEF Crash
  <2>2. ASSUME NEW m \in Modelers PROVE SavedAs(exec'[m], file', tweets'[exec'[m].batch.from])
    BY <2>1, IdleIs DEF SavedAs
  <2>3. QED
    BY <2>2 DEF SaveInv, ListOf
<1>12. CASE UNCHANGED vars
  BY <1>12, Zenon DEF vars, collecting, wiring, modeling, SaveInv, ListOf
<1>13. QED
  BY <1>1, <1>2, <1>3, <1>4, <1>5, <1>6, <1>7, <1>8, <1>9, <1>10, <1>11, <1>12 DEF Next, Execution

-----------------------------------------------------------------------------
LEMMA ModelsBatchesInit == Init => Typed /\ ListInv /\ SaveInv
<1> SUFFICES ASSUME Init PROVE Typed /\ ListInv /\ SaveInv
  OBVIOUS
<1>1. Typed
  BY InitTyped
<1>2. ASSUME NEW m \in Modelers PROVE exec[m] = Idle /\ modelq[m] = <<>>
  BY DEF Init, Start
<1>3. tweets \in [Collectors -> Seq(Hashtags)] /\ <<>> \in Seq(Batches) /\ Len(<<>>) = 0
  BY <1>1, EmptySeq DEF Typed, TypeOK
<1>4. ASSUME NEW q \in Seq(Batches), Len(q) = 0 PROVE Listed(Idle, q, tweets)
  <2>1. \A k \in 1..Len(q) : q[k].size <= Len(tweets[q[k].from])
    BY <1>4
  <2>2. QED
    BY <1>3, <2>1, IdleListed
<1>5. ListInv
  BY <1>2, <1>3, <1>4, IdleIs DEF ListInv
<1>6. SaveInv
  BY <1>2, IdleIs DEF SaveInv, SavedAs
<1>7. QED
  BY <1>1, <1>5, <1>6

LEMMA WiringKept == [Next]_vars => tasks' = tasks /\ route' = route
BY DEF Next, Execution, vars, collecting, wiring, Collect, OpenFile, Flush, TakenAll, ReopenFile,
   ReadTexts, EndOfFile, EmitTopics, ModelingFails, EmptyCorpusFails, LosesTexts,
   WriteRow, LoseWrite, Crash

LEMMA ModelsBatchesStep ==
  Typed /\ ListInv /\ SaveInv /\ [Next]_vars => Typed' /\ ListInv' /\ SaveInv'
<1> SUFFICES ASSUME Typed /\ ListInv /\ SaveInv, [Next]_vars PROVE Typed' /\ ListInv' /\ SaveInv'
  OBVIOUS
<1>1. \A m \in Modelers : exec[m].pc = "closing" => exec[m].taken <= Len(ListOf(m))
  BY DEF ListInv, Listed, ListOf
<1>2. Typed'
  BY <1>1, TypeStep
<1>3. TypeOK /\ TypeOK'
  BY <1>2 DEF Typed
<1>4. ListInv'
  BY <1>3, ListStep
<1>5. SaveInv'
  BY <1>3, SaveStep
<1>6. QED
  BY <1>2, <1>4, <1>5

\* Lists, file and executions are of their types, and a ModelingBolt task that is
\* the topology's only one models the texts its batch holds, in order, and besides
\* only those its list got meanwhile: whatever a crash or a shorter batch before it
\* left in tweets.txt, which ModelingBolt.save truncates; unless a write to it failed.
THEOREM ModelsBatches == Spec => []ModelingSound
<1> DEFINE Inv == Typed /\ ListInv /\ SaveInv
<1>1. Init => Inv
  BY ModelsBatchesInit
<1>2. Inv /\ [Next]_vars => Inv'
  BY ModelsBatchesStep
<1>3. Inv => ModelingSound
  <2> SUFFICES ASSUME Inv PROVE ModelingSound
    OBVIOUS
  <2>1. TypeOK
    BY DEF Typed
  <2>2. ASSUME NEW m \in Modelers, tasks = {m}, exec[m].pc = "estimating", missed[m] = 0
        PROVE  /\ Len(exec[m].seen) \in exec[m].batch.size..Len(ListOf(m))
               /\ exec[m].seen = SubSeq(ListOf(m), 1, Len(exec[m].seen))
    <3> DEFINE s == exec[m].seen
               list == ListOf(m)
    <3>1. exec[m].batch.size <= Len(s) /\ Begins(s, list)
      BY <2>2 DEF SaveInv, SavedAs
    <3>2. /\ exec[m].batch.size \in Nat /\ s \in Seq(Words) /\ Len(s) \in Nat
          /\ list \in Seq(Hashtags) /\ Len(list) \in Nat
      BY <2>1, ExecIs
    <3> HIDE DEF s, list
    <3>3. list \in Seq(Words)
      BY <3>2, SeqMonotonic DEF Words
    <3>4. \A i \in 1..Len(s) : list[i] \in Words
      BY <3>1, <3>2, <3>3, ElementOfSeq DEF Begins
    <3>5. /\ SubSeq(list, 1, Len(s)) \in Seq(Words)
          /\ Len(SubSeq(list, 1, Len(s))) = IF 1 <= Len(s) THEN Len(s) - 1 + 1 ELSE 0
          /\ \A i \in 1..(Len(s) - 1 + 1) : SubSeq(list, 1, Len(s))[i] = list[1 + i - 1]
      BY <3>2, <3>4, SubSeqProperties
    <3>6. Len(SubSeq(list, 1, Len(s))) = Len(s)
      BY <3>2, <3>5
    <3>7. \A i \in 1..Len(s) : SubSeq(list, 1, Len(s))[i] = s[i]
      BY <3>1, <3>2, <3>5 DEF Begins
    <3>8. SubSeq(list, 1, Len(s)) = s
      BY <3>2, <3>5, <3>6, <3>7, SeqEqual
    <3>9. QED
      BY <3>1, <3>2, <3>8 DEF s, list, Begins
  <2>3. QED
    BY <2>1, <2>2 DEF ModelingSound, ModelsItsBatch
<1>4. QED
  BY <1>1, <1>2, <1>3, PTL DEF Spec
-----------------------------------------------------------------------------
(* Where the texts of a row come from. *)

\* A batch is of the list its hashtag is routed to.
Routed(e, q) ==
  /\ \A k \in 1..Len(q) : q[k].from = route[q[k].hashtag]
  /\ e.pc # "idle" => e.batch.from = route[e.batch.hashtag]

RouteInv == \A m \in Modelers : Routed(exec[m], modelq[m])

\* An execution that goes on keeps its batch.
LEMMA ExecutionGoesOn ==
  ASSUME TypeOK, ListInv, NEW m \in Modelers,
         Flush(m) \/ LosesTexts(m) \/ TakenAll(m) \/ ReopenFile(m) \/ ReadTexts(m) \/ EndOfFile(m)
  PROVE  /\ exec[m].pc # "idle"
         /\ \E r \in Executions : /\ exec' = [exec EXCEPT ![m] = r]
                                  /\ r.pc # "idle" /\ r.batch = exec[m].batch
<1> DEFINE Goes(r) == exec' = [exec EXCEPT ![m] = r] /\ r.pc # "idle" /\ r.batch = exec[m].batch
<1>1. exec[m].pc # "idle"
  BY DEF Flush, LosesTexts, TakenAll, ReopenFile, ReadTexts, EndOfFile
<1>2. exec[m].pc = "closing" => exec[m].taken <= Len(ListOf(m))
  BY DEF ListInv, Listed, ListOf
<1>3. ASSUME NEW p, NEW t, NEW f, NEW z, p # "idle", Rec(p, exec[m].batch, t, f, z) \in Executions,
             exec' = [exec EXCEPT ![m] = Rec(p, exec[m].batch, t, f, z)]
      PROVE  \E r \in Executions : Goes(r)
  <2>1. Rec(p, exec[m].batch, t, f, z).pc = p /\ Rec(p, exec[m].batch, t, f, z).batch = exec[m].batch
    BY DEF Rec
  <2>2. QED
    BY <1>3, <2>1
<1>4. CASE Flush(m)
  <2>1. PICK n \in (exec[m].flushed + 1)..Len(ListOf(m)) :
          /\ file' = Written(ListOf(m), exec[m].flushed, n, missed[m])
          /\ exec' = [exec EXCEPT ![m].flushed = n]
    BY <1>4 DEF Flush
  <2>2. QED
    BY <1>1, <1>3, <2>1, FlushIs
<1>5. CASE LosesTexts(m)
  BY <1>1, <1>2, <1>3, <1>5, LosesIs
<1>6. CASE TakenAll(m)
  <2> DEFINE r == Rec("closing", exec[m].batch, Len(ListOf(m)), exec[m].flushed, exec[m].seen)
  <2>2. exec' = [exec EXCEPT ![m] = r] /\ r \in Executions
    BY <1>6, TakenIs
  <2>3. r.pc = "closing" /\ r.batch = exec[m].batch
    BY DEF Rec
  <2> HIDE DEF r
  <2>4. QED
    BY <1>1, <2>2, <2>3
<1>7. CASE ReopenFile(m)
  <2> DEFINE r == Rec("reading", exec[m].batch, 0, 0, exec[m].seen)
  <2>1. exec[m].taken <= Len(ListOf(m))
    BY <1>2, <1>7 DEF ReopenFile
  <2>2. exec' = [exec EXCEPT ![m] = r] /\ r \in Executions
    BY <1>7, <2>1, ReopenIs
  <2>3. r.pc = "reading" /\ r.batch = exec[m].batch
    BY DEF Rec
  <2> HIDE DEF r
  <2>4. QED
    BY <1>1, <2>2, <2>3
<1>8. CASE ReadTexts(m)
  <2>1. PICK n \in (Len(exec[m].seen) + 1)..Len(file) :
          exec' = [exec EXCEPT ![m].seen = exec[m].seen \o SubSeq(file, Len(exec[m].seen) + 1, n)]
    BY <1>8 DEF ReadTexts
  <2>2. QED
    BY <1>1, <1>3, <2>1, ReadIs
<1>9. CASE EndOfFile(m)
  <2> DEFINE r == Rec("estimating", exec[m].batch, exec[m].taken, exec[m].flushed, exec[m].seen)
  <2>2. exec' = [exec EXCEPT ![m] = r] /\ r \in Executions
    BY <1>9, EndIs
  <2>3. r.pc = "estimating" /\ r.batch = exec[m].batch
    BY DEF Rec
  <2> HIDE DEF r
  <2>4. QED
    BY <1>1, <2>2, <2>3
<1>10. QED
  BY <1>1, <1>4, <1>5, <1>6, <1>7, <1>8, <1>9

\* A batch keeps the list it was made of.
LEMMA RouteStep ==
  ASSUME TypeOK, ListInv, RouteInv, [Next]_vars
  PROVE  RouteInv'
<1>0. route' = route
  BY WiringKept
<1> SUFFICES ASSUME NEW m \in Modelers
             PROVE  /\ \A k \in 1..Len(modelq'[m]) : modelq'[m][k].from = route[modelq'[m][k].hashtag]
                    /\ exec'[m].pc # "idle" => exec'[m].batch.from = route[exec'[m].batch.hashtag]
  BY <1>0 DEF RouteInv, Routed
<1>1. /\ \A k \in 1..Len(modelq[m]) : modelq[m][k].from = route[modelq[m][k].hashtag]
      /\ exec[m].pc # "idle" => exec[m].batch.from = route[exec[m].batch.hashtag]
  BY DEF RouteInv, Routed
<1>2. modelq[m] \in Seq(Batches) /\ Len(modelq[m]) \in Nat /\ exec \in [Modelers -> Executions]
  BY LenProperties DEF TypeOK
<1>3. ASSUME NEW h \in Hashtags, Collect(h)
      PROVE  /\ \A k \in 1..Len(modelq'[m]) : modelq'[m][k].from = route[modelq'[m][k].hashtag]
             /\ exec'[m] = exec[m]
  <2>1. exec' = exec
    BY <1>3 DEF Collect, modeling
  <2>2. CASE modelq'[m] = modelq[m]
    BY <1>1, <2>1, <2>2
  <2>3. ASSUME NEW b \in Batches, modelq'[m] = Append(modelq[m], b), b.from = route[b.hashtag]
        PROVE  \A k \in 1..Len(modelq'[m]) : modelq'[m][k].from = route[modelq'[m][k].hashtag]
    <3>1. /\ Len(modelq'[m]) = Len(modelq[m]) + 1 /\ modelq'[m][Len(modelq[m]) + 1] = b
          /\ \A k \in 1..Len(modelq[m]) : modelq'[m][k] = modelq[m][k]
      BY <1>2, <2>3, AppendProperties
    <3>2. QED
      BY <1>1, <1>2, <2>3, <3>1
  <2>4. QED
    BY <1>3, <2>1, <2>2, <2>3, CollectIs
<1>4. ASSUME NEW n \in Modelers, OpenFile(n)
      PROVE  /\ \A k \in 1..Len(modelq'[m]) : modelq'[m][k].from = route[modelq'[m][k].hashtag]
             /\ exec'[m].pc # "idle" => exec'[m].batch.from = route[exec'[m].batch.hashtag]
  <2>1. CASE n = m
    <3> DEFINE r == Rec("saving", Head(modelq[m]), exec[m].taken, exec[m].flushed, exec[m].seen)
    <3>1. exec' = [exec EXCEPT ![m] = r] /\ r.batch = modelq[m][1]
      BY <1>4, <2>1, OpenIs DEF Rec
    <3>2. /\ Len(modelq[m]) \in Nat \ {0} /\ Len(modelq'[m]) = Len(modelq[m]) - 1
          /\ \A k \in 1..Len(modelq'[m]) : modelq'[m][k] = modelq[m][k + 1]
      <4>1. OpenFile(m)
        BY <1>4, <2>1
      <4>2. /\ Len(modelq[m]) \in Nat \ {0} /\ modelq'[m] = Tail(modelq[m])
            /\ Len(Tail(modelq[m])) = Len(modelq[m]) - 1
            /\ \A k \in 1..Len(Tail(modelq[m])) : Tail(modelq[m])[k] = modelq[m][k + 1]
        BY <4>1, OpenIs
      <4>3. QED
        BY <4>2
    <3> HIDE DEF r
    <3>3. exec'[m] = r
      BY <1>2, <3>1
    <3>4. r.batch.from = route[r.batch.hashtag]
      BY <1>1, <3>1, <3>2
    <3>5. \A k \in 1..Len(modelq'[m]) : k + 1 \in 1..Len(modelq[m]) /\ modelq'[m][k] = modelq[m][k + 1]
      BY <3>2
    <3>6. QED
      BY <1>1, <3>3, <3>4, <3>5
  <2>2. CASE n # m
    <3>1. modelq'[m] = modelq[m]
      BY <1>4, <2>2, OpenIs
    <3>2. \E r \in Executions : exec' = [exec EXCEPT ![n] = r]
      BY <1>4, OpenIs
    <3>3. exec'[m] = exec[m]
      BY <1>2, <2>2, <3>2
    <3>4. QED
      BY <1>1, <3>1, <3>3
  <2>3. QED
    BY <2>1, <2>2
<1>5. ASSUME NEW n \in Modelers,
             Flush(n) \/ LosesTexts(n) \/ TakenAll(n) \/ ReopenFile(n) \/ ReadTexts(n) \/ EndOfFile(n)
      PROVE  /\ modelq' = modelq
             /\ exec'[m].pc # "idle" => exec'[m].batch.from = route[exec'[m].batch.hashtag]
  <2>1. PICK r \in Executions : exec' = [exec EXCEPT ![n] = r] /\ r.batch = exec[n].batch
    BY <1>5, ExecutionGoesOn
  <2>2. modelq' = modelq /\ exec[n].pc # "idle"
    BY <1>5 DEF Flush, LosesTexts, TakenAll, ReopenFile, ReadTexts, EndOfFile
  <2>3. (n = m /\ exec'[m] = r) \/ exec'[m] = exec[m]
    BY <1>2, <2>1
  <2>4. QED
    BY <1>1, <2>1, <2>2, <2>3
<1>6. ASSUME NEW n \in Modelers, EmitTopics(n) \/ ModelingFails(n) \/ EmptyCorpusFails(n)
      PROVE  modelq' = modelq /\ (exec'[m].pc # "idle" => exec'[m] = exec[m])
  <2>1. modelq' = modelq /\ exec' = [exec EXCEPT ![n] = Idle]
    BY <1>6 DEF EmitTopics, ModelingFails, EmptyCorpusFails, Return
  <2>2. exec'[m] = Idle \/ exec'[m] = exec[m]
    BY <1>2, <2>1
  <2>3. QED
    BY <2>1, <2>2, IdleIs
<1>7. ASSUME NEW t \in topicq, WriteRow(t) \/ LoseWrite(t) PROVE modelq' = modelq /\ exec' = exec
  BY <1>7 DEF WriteRow, LoseWrite, modeling
<1>8. CASE Crash
  <2>1. exec'[m] = Idle /\ modelq'[m] = <<>>
    BY <1>8 DEF Crash
  <2>2. QED
    BY <2>1, IdleIs, EmptySeq
<1>9. CASE UNCHANGED vars
  BY <1>1, <1>9 DEF vars, modeling
<1>10. QED
  BY <1>1, <1>3, <1>4, <1>5, <1>6, <1>7, <1>8, <1>9, Zenon DEF Next, Execution

\* All texts of s are of X.
Among(s, X) == \A k \in 1..Len(s) : s[k] \in X

OfCollector(rt, c) == {g \in Hashtags : rt[g] = c}

\* The texts that a model of a batch of collector c may hold: anything but what an
\* earlier life left, where several tasks write one file.
Fresh(ts, rt, c) ==
  IF \E m \in Modelers : ts = {m} THEN OfCollector(rt, c) ELSE Words \ {Leftover}

\* An execution that is not idle has only such texts before it, as the file, once
\* truncated, has; and without another task there are no gaps in it.
FreshExec(e, d, f, ts, rt) ==
  /\ e.pc # "idle" => /\ Among(f, Fresh(ts, rt, e.batch.from))
                      /\ Among(e.seen, Fresh(ts, rt, e.batch.from))
  /\ (\E m \in Modelers : ts = {m}) /\ e.pc \in {"saving", "closing"} => Len(f) = e.flushed - d
  /\ e.pc = "idle" => d = 0

FreshInv ==
  /\ \A c \in Collectors : Among(tweets[c], OfCollector(route, c))
  /\ \A m \in tasks : FreshExec(exec[m], missed[m], file, tasks, route)
  /\ \A t \in topicq : Among(t.model, Fresh(tasks, route, route[t.hashtag]))
  /\ \A h \in Hashtags : rows[h] # NoRow => Among(rows[h], Fresh(tasks, route, route[h]))

LEMMA FreshIs ==
  ASSUME NEW ts, NEW rt, NEW c
  PROVE  /\ OfCollector(rt, c) \subseteq Fresh(ts, rt, c) /\ Leftover \notin Fresh(ts, rt, c)
         /\ (~\E m \in Modelers : ts = {m}) => Gap \in Fresh(ts, rt, c)
         /\ (~\E m \in Modelers : ts = {m}) => \A d : Fresh(ts, rt, d) = Fresh(ts, rt, c)
<1>1. Leftover \notin Hashtags /\ Gap \notin Hashtags /\ Gap # Leftover
  BY TopicAssumption DEF Gap, Leftover
<1>2. QED
  BY <1>1 DEF Fresh, OfCollector, Words

\* An execution goes on, whatever it writes to the file, and has only such texts
\* before it afterwards.
LEMMA FreshReplaced ==
  ASSUME TypeOK, FreshInv, NEW m \in tasks, NEW r \in Executions, exec' = [exec EXCEPT ![m] = r],
         tweets' = tweets, tasks' = tasks, route' = route, rows' = rows, topicq' = topicq,
         \A n \in Modelers : n # m => missed'[n] = missed[n],
         FreshExec(r, missed'[m], file', tasks, route),
         r.pc = "idle" => file' = file
  PROVE  FreshInv'
<1>1. \A n \in tasks : FreshExec(exec'[n], missed'[n], file', tasks', route')
  <2> SUFFICES ASSUME NEW n \in tasks PROVE FreshExec(exec'[n], missed'[n], file', tasks', route')
    OBVIOUS
  <2>1. tasks \subseteq Modelers /\ exec \in [Modelers -> Executions]
    BY DEF TypeOK
  <2>2. CASE n = m
    BY <2>1, <2>2
  <2>3. CASE n # m
    <3>1. exec'[n] = exec[n] /\ missed'[n] = missed[n] /\ ~\E x \in Modelers : tasks = {x}
      BY <2>1, <2>3
    <3>2. FreshExec(exec[n], missed[n], file, tasks, route)
      BY DEF FreshInv
    <3>3. CASE r.pc = "idle"
      BY <3>1, <3>2, <3>3
    <3>4. CASE r.pc # "idle"
      <4>1. Among(file', Fresh(tasks, route, r.batch.from))
        BY <3>4 DEF FreshExec
      <4>2. Fresh(tasks, route, r.batch.from) = Fresh(tasks, route, exec[n].batch.from)
        BY <3>1, FreshIs
      <4>3. QED
        BY <3>1, <3>2, <4>1, <4>2 DEF FreshExec
    <3>5. QED
      BY <3>3, <3>4
  <2>4. QED
    BY <2>2, <2>3
<1>2. QED
  BY <1>1 DEF FreshInv

\* Writing to the file brings no other text to it than the list's, or a gap.
LEMMA FreshWritten ==
  ASSUME TypeOK, NEW m \in Modelers, NEW X, NEW f \in Texts, NEW n \in Nat, n <= Len(ListOf(m)),
         exec[m].flushed < n,
         Len(f) = IF Len(file) <= n - missed[m] THEN n - missed[m] ELSE Len(file),
         \A k \in 1..Len(f) :
           f[k] = IF exec[m].flushed < k + missed[m] /\ k + missed[m] <= n
                    THEN ListOf(m)[k + missed[m]]
                  ELSE IF k <= Len(file) THEN file[k] ELSE Gap,
         Among(ListOf(m), X), Among(file, X),
         Gap \in X \/ Len(file) = exec[m].flushed - missed[m]
  PROVE  /\ Among(f, X)
         /\ Len(file) = exec[m].flushed - missed[m] => Len(f) = n - missed[m]
<1>1. /\ Len(file) \in Nat /\ Len(ListOf(m)) \in Nat /\ exec[m].flushed \in Nat /\ missed[m] \in Nat
  BY ExecIs
<1>2. Len(f) \in Nat
  BY LenProperties DEF Texts
<1>3. ASSUME NEW k \in 1..Len(f) PROVE f[k] \in X
  <2>1. CASE exec[m].flushed < k + missed[m] /\ k + missed[m] <= n
    <3>1. k + missed[m] \in 1..Len(ListOf(m))
      BY <1>1, <1>2, <2>1
    <3>2. QED
      BY <2>1, <3>1 DEF Among
  <2>2. CASE ~(exec[m].flushed < k + missed[m] /\ k + missed[m] <= n) /\ k <= Len(file)
    <3>1. k \in 1..Len(file)
      BY <1>1, <1>2, <2>2
    <3>2. f[k] = file[k]
      BY <2>2
    <3>3. QED
      BY <3>1, <3>2 DEF Among
  <2>3. CASE ~(exec[m].flushed < k + missed[m] /\ k + missed[m] <= n) /\ ~(k <= Len(file))
    <3>1. f[k] = Gap
      BY <2>3
    <3>2. Len(file) # exec[m].flushed - missed[m]
      BY <1>1, <1>2, <2>3
    <3>3. QED
      BY <3>1, <3>2
  <2>4. QED
    BY <2>1, <2>2, <2>3
<1>4. Len(file) = exec[m].flushed - missed[m] => Len(f) = n - missed[m]
  BY <1>1
<1>5. QED
  BY <1>3, <1>4 DEF Among

LEMMA FreshStep ==
  ASSUME Typed, Typed', ListInv, RouteInv, FreshInv, [Next]_vars
  PROVE  FreshInv'
<1>1. TypeOK /\ TypeOK' /\ tasks \subseteq Modelers
  BY DEF Typed, TypeOK
<1>2. tasks' = tasks /\ route' = route
  BY WiringKept
<1>3. /\ \A c \in Collectors : Among(tweets[c], OfCollector(route, c))
      /\ \A m \in tasks : FreshExec(exec[m], missed[m], file, tasks, route)
      /\ \A t \in topicq : Among(t.model, Fresh(tasks, route, route[t.hashtag]))
      /\ \A h \in Hashtags : rows[h] # NoRow => Among(rows[h], Fresh(tasks, route, route[h]))
  BY DEF FreshInv
<1>4. ASSUME NEW h \in Hashtags, Collect(h) PROVE FreshInv'
  <2>1. UNCHANGED <<exec, missed, file, topicq, rows>>
    BY <1>4 DEF Collect, modeling, writing
  <2>2. ASSUME NEW c \in Collectors PROVE Among(tweets'[c], OfCollector(route, c))
    <3>1. tweets[c] \in Seq(Hashtags) /\ Len(tweets[c]) \in Nat
      BY <1>1, LenProperties DEF TypeOK
    <3>2. CASE tweets'[c] = tweets[c]
      BY <1>3, <3>2
    <3>3. CASE c = route[h] /\ tweets'[c] = Append(tweets[c], h)
      <4>1. /\ Len(tweets'[c]) = Len(tweets[c]) + 1 /\ tweets'[c][Len(tweets[c]) + 1] = h
            /\ \A k \in 1..Len(tweets[c]) : tweets'[c][k] = tweets[c][k]
        BY <3>1, <3>3, AppendProperties
      <4>2. h \in OfCollector(route, c) /\ Among(tweets[c], OfCollector(route, c))
        BY <1>3, <3>3 DEF OfCollector
      <4>3. QED
        BY <3>1, <4>1, <4>2 DEF Among
    <3>4. QED
      BY <1>1, <1>4, <3>2, <3>3, CollectIs
  <2>3. QED
    BY <1>2, <1>3, <2>1, <2>2, Zenon DEF FreshInv
<1>5. ASSUME NEW m \in tasks PROVE Among(ListOf(m), Fresh(tasks, route, exec[m].batch.from))
  <2>1. exec[m].batch.from \in Collectors
    BY <1>1, ExecIs
  <2>2. Among(ListOf(m), OfCollector(route, exec[m].batch.from))
    BY <1>3, <2>1 DEF ListOf
  <2>3. QED
    BY <2>2, FreshIs DEF Among
<1>6. ASSUME NEW m \in Modelers, OpenFile(m) PROVE FreshInv'
  <2>1. m \in tasks /\ exec[m] = Idle
    BY <1>1, <1>6, OnlyTasks DEF OpenFile, ListInv, Listed
  <2> DEFINE r == Rec("saving", Head(modelq[m]), exec[m].taken, exec[m].flushed, exec[m].seen)
  <2>2. exec' = [exec EXCEPT ![m] = r] /\ r \in Executions
    BY <1>1, <1>6, OpenIs
  <2>3. r.pc = "saving" /\ r.seen = <<>> /\ r.flushed = 0
    BY <2>1, IdleIs DEF Rec
  <2>4. file' = <<>> /\ UNCHANGED <<tweets, rows, topicq, missed>>
    BY <1>6 DEF OpenFile, collecting, writing
  <2> HIDE DEF r
  <2>5. Len(<<>>) = 0
    BY EmptySeq
  <2>6. \A X : Among(<<>>, X)
    BY <2>5 DEF Among
  <2>7. missed[m] = 0
    BY <1>3, <2>1, IdleIs DEF FreshExec
  <2>8. FreshExec(r, missed'[m], file', tasks, route)
    BY <2>3, <2>4, <2>5, <2>6, <2>7 DEF FreshExec
  <2>9. QED
    BY <1>1, <1>2, <2>1, <2>2, <2>3, <2>4, <2>8, FreshReplaced
<1>7. ASSUME NEW m \in Modelers, Flush(m) PROVE FreshInv'
  <2>1. m \in tasks /\ exec[m].pc = "saving"
    BY <1>1, <1>7, OnlyTasks DEF Flush
  <2>2. PICK n \in (exec[m].flushed + 1)..Len(ListOf(m)) :
          /\ file' = Written(ListOf(m), exec[m].flushed, n, missed[m])
          /\ exec' = [exec EXCEPT ![m].flushed = n]
    BY <1>7 DEF Flush
  <2> DEFINE r == Rec(exec[m].pc, exec[m].batch, exec[m].taken, n, exec[m].seen)
             X == Fresh(tasks, route, exec[m].batch.from)
  <2>3. /\ exec' = [exec EXCEPT ![m] = r] /\ r \in Executions /\ file' \in Texts
        /\ Len(file') = IF Len(file) <= n - missed[m] THEN n - missed[m] ELSE Len(file)
        /\ \A k \in 1..Len(file') :
             file'[k] = IF exec[m].flushed < k + missed[m] /\ k + missed[m] <= n
                          THEN ListOf(m)[k + missed[m]]
                        ELSE IF k <= Len(file) THEN file[k] ELSE Gap
    BY <1>1, <2>2, FlushIs
  <2>4. r.pc = "saving" /\ r.batch = exec[m].batch /\ r.flushed = n /\ r.seen = exec[m].seen
    BY <2>1 DEF Rec
  <2>5. UNCHANGED <<tweets, rows, topicq, missed>>
    BY <1>7 DEF Flush, collecting, writing
  <2>6. n \in Nat /\ n <= Len(ListOf(m)) /\ exec[m].flushed < n
    <3>1. exec[m].flushed \in Nat /\ Len(ListOf(m)) \in Nat
      BY <1>1, ExecIs
    <3>2. QED
      BY <2>2, <3>1
  <2>7. /\ Among(ListOf(m), X) /\ Among(file, X) /\ Among(exec[m].seen, X)
        /\ (\E x \in Modelers : tasks = {x}) => Len(file) = exec[m].flushed - missed[m]
    BY <1>3, <1>5, <2>1 DEF FreshExec
  <2>8. (~\E x \in Modelers : tasks = {x}) => Gap \in X
    BY FreshIs
  <2> HIDE DEF r, X
  <2>9. PICK f \in Texts : f = file'
    BY <2>3
  <2>10. Among(f, X) /\ (Len(file) = exec[m].flushed - missed[m] => Len(f) = n - missed[m])
    BY <1>1, <2>3, <2>6, <2>7, <2>8, <2>9, FreshWritten
  <2>11. FreshExec(r, missed'[m], file', tasks, route)
    BY <2>4, <2>5, <2>7, <2>9, <2>10 DEF FreshExec, X
  <2>12. QED
    BY <1>1, <1>2, <2>1, <2>3, <2>4, <2>5, <2>11, FreshReplaced
<1>8. ASSUME NEW m \in Modelers, LosesTexts(m) PROVE FreshInv'
  <2>1. m \in tasks /\ exec[m].pc \in {"saving", "closing"}
    BY <1>1, <1>8, OnlyTasks DEF LosesTexts
  <2>2. exec[m].pc = "closing" => exec[m].taken <= Len(ListOf(m))
    BY <1>1 DEF ListInv, Listed, ListOf
  <2>3. PICK n \in (exec[m].flushed + 1)..Len(ListOf(m)) :
          /\ missed' = [missed EXCEPT ![m] = missed[m] + (n - exec[m].flushed)]
          /\ exec' = [exec EXCEPT ![m] = Rec(exec[m].pc, exec[m].batch, exec[m].taken, n, exec[m].seen)]
          /\ Rec(exec[m].pc, exec[m].batch, exec[m].taken, n, exec[m].seen) \in Executions
          /\ missed'[m] = missed[m] + (n - exec[m].flushed)
    BY <1>1, <1>8, <2>2, LosesIs
  <2> DEFINE r == Rec(exec[m].pc, exec[m].batch, exec[m].taken, n, exec[m].seen)
  <2>4. r.pc = exec[m].pc /\ r.batch = exec[m].batch /\ r.flushed = n /\ r.seen = exec[m].seen
    BY DEF Rec
  <2>5. UNCHANGED <<tweets, rows, topicq, file>>
    BY <1>8 DEF LosesTexts, collecting, writing
  <2>6. exec' = [exec EXCEPT ![m] = r] /\ r \in Executions
    BY <2>3
  <2>7. \A x \in Modelers : x # m => missed'[x] = missed[x]
    BY <1>1, <2>3 DEF TypeOK
  <2> HIDE DEF r
  <2>8. n \in Int /\ exec[m].flushed \in Nat /\ missed[m] \in Nat
    BY <1>1, ExecIs
  <2>9. n - missed'[m] = exec[m].flushed - missed[m]
    BY <2>3, <2>8
  <2>10. FreshExec(exec[m], missed[m], file, tasks, route)
    BY <1>3, <2>1
  <2>11. FreshExec(r, missed'[m], file', tasks, route)
    BY <2>1, <2>4, <2>5, <2>9, <2>10 DEF FreshExec
  <2>12. QED
    BY <1>1, <1>2, <2>1, <2>4, <2>5, <2>6, <2>7, <2>11, FreshReplaced
<1>9. ASSUME NEW m \in Modelers, TakenAll(m) PROVE FreshInv'
  <2>1. m \in tasks /\ exec[m].pc = "saving"
    BY <1>1, <1>9, OnlyTasks DEF TakenAll
  <2> DEFINE r == Rec("closing", exec[m].batch, Len(ListOf(m)), exec[m].flushed, exec[m].seen)
  <2>2. exec' = [exec EXCEPT ![m] = r] /\ r \in Executions
    BY <1>1, <1>9, TakenIs
  <2>3. r.pc = "closing" /\ r.batch = exec[m].batch /\ r.flushed = exec[m].flushed /\ r.seen = exec[m].seen
    BY DEF Rec
  <2>4. UNCHANGED <<tweets, rows, topicq, file, missed>>
    BY <1>9 DEF TakenAll, collecting, writing
  <2> HIDE DEF r
  <2>5. FreshExec(r, missed'[m], file', tasks, route)
    BY <1>3, <2>1, <2>3, <2>4 DEF FreshExec
  <2>6. QED
    BY <1>1, <1>2, <2>1, <2>2, <2>3, <2>4, <2>5, FreshReplaced
<1>10. ASSUME NEW m \in Modelers, ReopenFile(m) PROVE FreshInv'
  <2>1. m \in tasks /\ exec[m].pc = "closing"
    BY <1>1, <1>10, OnlyTasks DEF ReopenFile
  <2>2. exec[m].taken <= Len(ListOf(m))
    BY <1>1, <2>1 DEF ListInv, Listed, ListOf
  <2> DEFINE r == Rec("reading", exec[m].batch, 0, 0, exec[m].seen)
             X == Fresh(tasks, route, exec[m].batch.from)
  <2>3. exec' = [exec EXCEPT ![m] = r] /\ r \in Executions /\ file' \in Texts
    BY <1>1, <1>10, <2>2, ReopenIs
  <2>4. r.pc = "reading" /\ r.batch = exec[m].batch /\ r.seen = exec[m].seen
    BY DEF Rec
  <2>5. UNCHANGED <<tweets, rows, topicq, missed>>
    BY <1>10 DEF ReopenFile, collecting, writing
  <2>6. /\ Among(ListOf(m), X) /\ Among(file, X) /\ Among(exec[m].seen, X)
        /\ (\E x \in Modelers : tasks = {x}) => Len(file) = exec[m].flushed - missed[m]
    BY <1>3, <1>5, <2>1 DEF FreshExec
  <2>7. (~\E x \in Modelers : tasks = {x}) => Gap \in X
    BY FreshIs
  <2>8. exec[m].taken \in Nat /\ exec[m].flushed \in Nat
    BY <1>1, ExecIs
  <2> HIDE DEF r, X
  <2>9. PICK f \in Texts : f = file'
    BY <2>3
  <2>10. ASSUME exec[m].flushed < exec[m].taken PROVE Among(f, X)
    <3>1. /\ Len(file') = IF Len(file) <= exec[m].taken - missed[m] THEN exec[m].taken - missed[m] ELSE Len(file)
          /\ \A k \in 1..Len(file') :
               file'[k] = IF exec[m].flushed < k + missed[m] /\ k + missed[m] <= exec[m].taken
                            THEN ListOf(m)[k + missed[m]]
                          ELSE IF k <= Len(file) THEN file[k] ELSE Gap
      BY <1>1, <1>10, <2>2, <2>10, ReopenIs
    <3>2. QED
      BY <1>1, <2>2, <2>6, <2>7, <2>8, <2>9, <2>10, <3>1, FreshWritten
  <2>11. ASSUME ~(exec[m].flushed < exec[m].taken) PROVE Among(f, X)
    <3>1. file' = file
      BY <1>10, <2>11 DEF ReopenFile
    <3>2. QED
      BY <2>6, <2>9, <3>1
  <2>12. FreshExec(r, missed'[m], file', tasks, route)
    <3>1. Among(file', X)
      BY <2>9, <2>10, <2>11
    <3>2. QED
      BY <2>4, <2>6, <3>1 DEF FreshExec, X
  <2>13. QED
    BY <1>1, <1>2, <2>1, <2>3, <2>4, <2>5, <2>12, FreshReplaced
<1>11. ASSUME NEW m \in Modelers, ReadTexts(m) PROVE FreshInv'
  <2>1. m \in tasks /\ exec[m].pc = "reading"
    BY <1>1, <1>11, OnlyTasks DEF ReadTexts
  <2>2. PICK n \in (Len(exec[m].seen) + 1)..Len(file) :
          exec' = [exec EXCEPT ![m].seen = exec[m].seen \o SubSeq(file, Len(exec[m].seen) + 1, n)]
    BY <1>11 DEF ReadTexts
  <2>3. PICK s \in Texts :
          /\ Len(s) = n
          /\ \A k \in 1..Len(exec[m].seen) : s[k] = exec[m].seen[k]
          /\ \A k \in (Len(exec[m].seen) + 1)..n : s[k] = file[k]
          /\ exec' = [exec EXCEPT ![m] = Rec(exec[m].pc, exec[m].batch, exec[m].taken, exec[m].flushed, s)]
          /\ Rec(exec[m].pc, exec[m].batch, exec[m].taken, exec[m].flushed, s) \in Executions
    BY <1>1, <2>2, ReadIs
  <2> DEFINE r == Rec(exec[m].pc, exec[m].batch, exec[m].taken, exec[m].flushed, s)
             X == Fresh(tasks, route, exec[m].batch.from)
  <2>4. r.pc = "reading" /\ r.batch = exec[m].batch /\ r.seen = s
    BY <2>1 DEF Rec
  <2>5. UNCHANGED <<tweets, rows, topicq, file, missed>>
    BY <1>11 DEF ReadTexts, collecting, writing
  <2>6. exec' = [exec EXCEPT ![m] = r] /\ r \in Executions
    BY <2>3
  <2>7. Among(file, X) /\ Among(exec[m].seen, X)
    BY <1>3, <2>1 DEF FreshExec
  <2> HIDE DEF r, X
  <2>8. Len(exec[m].seen) \in Nat /\ Len(file) \in Nat
    BY <1>1, ExecIs
  <2>9. \A k \in 1..n : s[k] \in X
    BY <2>2, <2>3, <2>7, <2>8 DEF Among
  <2>10. FreshExec(r, missed'[m], file', tasks, route)
    BY <2>3, <2>4, <2>5, <2>7, <2>9 DEF FreshExec, X, Among
  <2>11. QED
    BY <1>1, <1>2, <2>1, <2>4, <2>5, <2>6, <2>10, FreshReplaced
<1>12. ASSUME NEW m \in Modelers, EndOfFile(m) PROVE FreshInv'
  <2>1. m \in tasks /\ exec[m].pc = "reading"
    BY <1>1, <1>12, OnlyTasks DEF EndOfFile
  <2> DEFINE r == Rec("estimating", exec[m].batch, exec[m].taken, exec[m].flushed, exec[m].seen)
  <2>2. exec' = [exec EXCEPT ![m] = r] /\ r \in Executions
    BY <1>1, <1>12, EndIs
  <2>3. r.pc = "estimating" /\ r.batch = exec[m].batch /\ r.seen = exec[m].seen
    BY DEF Rec
  <2>4. UNCHANGED <<tweets, rows, topicq, file, missed>>
    BY <1>12 DEF EndOfFile, collecting, writing
  <2> HIDE DEF r
  <2>5. FreshExec(r, missed'[m], file', tasks, route)
    BY <1>3, <2>1, <2>3, <2>4 DEF FreshExec
  <2>6. QED
    BY <1>1, <1>2, <2>1, <2>2, <2>3, <2>4, <2>5, FreshReplaced
<1>13. ASSUME NEW m \in Modelers, EmitTopics(m) \/ ModelingFails(m) \/ EmptyCorpusFails(m)
       PROVE  /\ \A x \in tasks : FreshExec(exec'[x], missed'[x], file', tasks', route')
              /\ UNCHANGED <<tweets, rows, file>> /\ exec[m].pc # "idle" /\ m \in tasks
  <2>1. /\ exec[m].pc # "idle" /\ exec' = [exec EXCEPT ![m] = Idle]
        /\ missed' = [missed EXCEPT ![m] = 0] /\ UNCHANGED <<tweets, rows, file>>
    BY <1>13 DEF EmitTopics, ModelingFails, EmptyCorpusFails, Return, collecting, writing
  <2>2. m \in tasks
    BY <1>1, <2>1, OnlyTasks
  <2>3. ASSUME NEW x \in tasks PROVE FreshExec(exec'[x], missed'[x], file', tasks', route')
    <3>1. (x = m /\ exec'[x] = Idle /\ missed'[x] = 0) \/ (exec'[x] = exec[x] /\ missed'[x] = missed[x])
      BY <1>1, <2>1 DEF TypeOK
    <3>2. CASE x = m /\ exec'[x] = Idle /\ missed'[x] = 0
      BY <3>2, IdleIs DEF FreshExec
    <3>3. CASE exec'[x] = exec[x] /\ missed'[x] = missed[x]
      BY <1>2, <1>3, <2>1, <3>3
    <3>4. QED
      BY <3>1, <3>2, <3>3
  <2>4. QED
    BY <2>1, <2>2, <2>3
<1>14. ASSUME NEW m \in Modelers, EmitTopics(m) PROVE FreshInv'
  <2>1. /\ \A x \in tasks : FreshExec(exec'[x], missed'[x], file', tasks', route')
        /\ UNCHANGED <<tweets, rows>> /\ exec[m].pc # "idle" /\ m \in tasks
    BY <1>13, <1>14
  <2>2. exec[m].batch.from = route[exec[m].batch.hashtag]
    BY <1>1, <2>1 DEF RouteInv, Routed
  <2>3. /\ TopicsOf(m).hashtag = exec[m].batch.hashtag /\ TopicsOf(m).model = exec[m].seen
        /\ topicq' = topicq \union {TopicsOf(m)}
    BY <1>1, <1>14, EmitIs DEF TopicsOf
  <2>4. Among(TopicsOf(m).model, Fresh(tasks, route, route[TopicsOf(m).hashtag]))
    BY <1>3, <2>1, <2>2, <2>3 DEF FreshExec
  <2>5. \A t \in topicq' : Among(t.model, Fresh(tasks, route, route[t.hashtag]))
    BY <1>3, <2>3, <2>4
  <2>6. QED
    BY <1>2, <1>3, <2>1, <2>5 DEF FreshInv
<1>15. ASSUME NEW m \in Modelers, ModelingFails(m) \/ EmptyCorpusFails(m) PROVE FreshInv'
  <2>1. topicq' = topicq
    BY <1>15 DEF ModelingFails, EmptyCorpusFails, writing
  <2>2. QED
    BY <1>2, <1>3, <1>13, <1>15, <2>1 DEF FreshInv
<1>16. ASSUME NEW t \in topicq, WriteRow(t) PROVE FreshInv'
  <2>1. UNCHANGED <<tweets, exec, missed, file>> /\ topicq' \subseteq topicq
    BY <1>16 DEF WriteRow, collecting, modeling
  <2>2. t.hashtag \in Hashtags /\ rows' = [rows EXCEPT ![t.hashtag] = t.model]
    BY <1>16, RowIs
  <2>3. Among(t.model, Fresh(tasks, route, route[t.hashtag]))
    BY <1>3
  <2>4. ASSUME NEW h \in Hashtags, rows'[h] # NoRow PROVE Among(rows'[h], Fresh(tasks, route, route[h]))
    <3>1. (h = t.hashtag /\ rows'[h] = t.model) \/ rows'[h] = rows[h]
      BY <2>2 DEF Typed
    <3>2. QED
      BY <1>3, <2>3, <2>4, <3>1
  <2>5. QED
    BY <1>2, <1>3, <2>1, <2>4 DEF FreshInv
<1>17. ASSUME NEW t \in topicq, LoseWrite(t) PROVE FreshInv'
  <2>1. UNCHANGED <<tweets, exec, missed, file, rows>> /\ topicq' \subseteq topicq
    BY <1>17 DEF LoseWrite, collecting, modeling
  <2>2. QED
    BY <1>2, <1>3, <2>1 DEF FreshInv
<1>18. CASE Crash
  <2>1. /\ tweets' = [c \in Collectors |-> <<>>] /\ exec' = [m \in Modelers |-> Idle]
        /\ missed' = [m \in Modelers |-> 0] /\ topicq' = {} /\ rows' = rows
    BY <1>18 DEF Crash
  <2>2. Len(<<>>) = 0
    BY EmptySeq
  <2>3. \A c \in Collectors : Among(tweets'[c], OfCollector(route, c))
    BY <2>1, <2>2 DEF Among
  <2>4. \A m \in tasks : exec'[m] = Idle /\ missed'[m] = 0
    BY <1>1, <2>1
  <2>5. \A m \in tasks : FreshExec(exec'[m], missed'[m], file', tasks', route')
    BY <2>4, IdleIs DEF FreshExec
  <2>6. QED
    BY <1>2, <1>3, <2>1, <2>3, <2>5 DEF FreshInv
<1>19. CASE UNCHANGED vars
  <2>1. UNCHANGED <<tweets, exec, missed, file, topicq, rows>>
    BY <1>19 DEF vars, collecting, modeling, writing
  <2>2. QED
    BY <1>2, <1>3, <2>1, Zenon DEF FreshInv
<1>20. QED
  BY <1>4, <1>6, <1>7, <1>8, <1>9, <1>10, <1>11, <1>12, <1>14, <1>15, <1>16, <1>17, <1>18, <1>19
  DEF Next, Execution

\* No row has a text that an earlier life of the worker left in tweets.txt, whatever
\* tasks share the file and however its writes, those of the table and the faults
\* fall: each ModelingBolt.save truncates it.  Where one task models, every text of a
\* row is a tweet of a hashtag that the fields grouping routes as the row's.
THEOREM FreshTopics == Spec => []TopicsAreFresh
<1> DEFINE Inv == Typed /\ ListInv /\ SaveInv /\ RouteInv /\ FreshInv
<1>1. Init => Inv
  <2> SUFFICES ASSUME Init PROVE Inv
    OBVIOUS
  <2>1. Typed /\ ListInv /\ SaveInv
    BY ModelsBatchesInit
  <2>2. tasks \subseteq Modelers /\ \A m \in Modelers : exec[m] = Idle /\ modelq[m] = <<>> /\ missed[m] = 0
    BY DEF Init, Start
  <2>3. RouteInv
    BY <2>2, IdleIs, EmptySeq DEF RouteInv, Routed
  <2>4. \A m \in tasks : FreshExec(exec[m], missed[m], file, tasks, route)
    BY <2>2, IdleIs DEF FreshExec
  <2>5. \A c \in Collectors : Among(tweets[c], OfCollector(route, c))
    BY EmptySeq DEF Init, Start, Among
  <2>6. topicq = {} /\ \A h \in Hashtags : rows[h] = NoRow
    BY DEF Init, Start
  <2>7. FreshInv
    BY <2>4, <2>5, <2>6 DEF FreshInv
  <2>8. QED
    BY <2>1, <2>3, <2>7
<1>2. Inv /\ [Next]_vars => Inv'
  <2> SUFFICES ASSUME Inv, [Next]_vars PROVE Inv'
    OBVIOUS
  <2>1. Typed' /\ ListInv' /\ SaveInv'
    BY ModelsBatchesStep
  <2>2. RouteInv'
    BY RouteStep DEF Typed
  <2>3. FreshInv'
    BY <2>1, FreshStep
  <2>4. QED
    BY <2>1, <2>2, <2>3
<1>3. Inv => TopicsAreFresh
  <2> SUFFICES ASSUME Inv, NEW h \in Hashtags, rows[h] # NoRow, NEW k \in DOMAIN rows[h]
               PROVE  /\ rows[h][k] # Leftover
                      /\ \A m \in Modelers :
                           tasks = {m} => \E g \in Hashtags : rows[h][k] = g /\ route[g] = route[h]
    BY DEF TopicsAreFresh
  <2>1. rows[h] \in Texts
    BY DEF Typed
  <2>2. k \in 1..Len(rows[h])
    BY <2>1 DEF Texts
  <2>3. rows[h][k] \in Fresh(tasks, route, route[h])
    BY <2>2 DEF FreshInv, Among
  <2>4. rows[h][k] # Leftover
    BY <2>3, FreshIs
  <2>5. ASSUME NEW m \in Modelers, tasks = {m}
        PROVE  \E g \in Hashtags : rows[h][k] = g /\ route[g] = route[h]
    BY <2>3, <2>5 DEF Fresh, OfCollector
  <2>6. QED
    BY <2>4, <2>5
<1>4. QED
  BY <1>1, <1>2, <1>3, PTL DEF Spec
===============================================================================
