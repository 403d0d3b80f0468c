---------------------------- MODULE TopicModeling ----------------------------
(***************************************************************************)
(* The topic branch of the topology: TweetsBolt collects English tweets    *)
(* and hands a batch to ModelingBolt for every NUM_TWEET of them;          *)
(* ModelingBolt saves the batch to the file tweets.txt, reads that file    *)
(* back, models what it read and emits the topics for a Cassandra writer.  *)
(*                                                                         *)
(* A batch is a reference to the list of the TweetsBolt task, which keeps  *)
(* growing, and tweets.txt is one file for all ModelingBolt tasks of the   *)
(* worker.  A tweet is abstracted to its hashtag, the file to one place    *)
(* for each text of a list, and a topic model to the texts it was computed *)
(* from: how the bytes of two streams mix within a text is left out.       *)
(* Nothing orders the writes: each one is sent and not waited for.         *)
(***************************************************************************)
EXTENDS Integers, Sequences, FiniteSetsExt

CONSTANTS
  Hashtags,
  Collectors,  \* tasks of "tweets"
  Modelers,    \* tasks "topic-modeling" may have
  NUM_TWEET,
  MaxTweets,   \* bound: English tweets json emits
  MaxFaults    \* bound: worker crashes, executions that raise and writes that fail

\* What a hole of the file reads as, a text an earlier run of the topology left in
\* it, and the row of a hashtag without topics.
Gap      == "gap"
Leftover == "leftover"
NoRow    == <<"none">>

ASSUME TopicAssumption == /\ Hashtags # {} /\ Collectors # {}
                          /\ {Gap, Leftover} \intersect Hashtags = {}
                          /\ NUM_TWEET \in Nat \ {0}
                          /\ MaxTweets \in Nat
                          /\ MaxFaults \in Nat

\* A batch is known by the number of tweets received when it was handed on.
Ids     == 0..MaxTweets
Batches == [id : Ids, hashtag : Hashtags, from : Collectors, size : Nat]
Texts   == Seq(Hashtags \union {Gap, Leftover})
Topics  == [id : Ids, hashtag : Hashtags, model : Texts]

VARIABLES
  tasks,       \* those it has: main asks for six, the processors limit their number
  route,       \* the fields grouping: which task collects a hashtag's tweets
  tweets,      \* TweetsBolt.tweets of each task
  countTweet,  \* TweetsBolt.countTweet of each task
  modelq,      \* batches waiting at each ModelingBolt task
  exec,        \* where the execution of each ModelingBolt task is, and its locals
  missed,      \* texts its PrintWriter could not write, and says nothing of
  file,        \* tweets.txt
  topicq,      \* topics at the writers, and on their way to the table
  rows,        \* topicmodeling.topic of each hashtag
  received,    \* English tweets so far
  handed,      \* history: batches handed on
  served,      \* history: batches whose topics were written
  lost,        \* history: batches a fault took
  faults

wiring     == <<tasks, route>>
collecting == <<wiring, tweets, countTweet, received, handed>>
modeling   == <<exec, missed, file>>
writing    == <<topicq, rows, served>>
vars == <<collecting, modelq, modeling, writing, lost, faults>>

\* batch: what it works on; taken: how many texts the loop of save took; flushed:
\* how many of them were flushed to the file; seen: what was read back.
Executions ==
  [pc : {"idle", "saving", "closing", "reading", "estimating"},
   batch : Batches, taken : Nat, flushed : Nat, seen : Texts]

Idle ==
  [pc |-> "idle",
   batch |-> [id |-> 0, hashtag |-> CHOOSE h \in Hashtags : TRUE,
              from |-> CHOOSE c \in Collectors : TRUE, size |-> 0],
   taken |-> 0, flushed |-> 0, seen |-> <<>>]

TypeOK ==
  /\ tasks \subseteq Modelers /\ route \in [Hashtags -> Collectors]
  /\ tweets \in [Collectors -> Seq(Hashtags)]
  /\ countTweet \in [Collectors -> 0..(NUM_TWEET - 1)]
  /\ modelq \in [Modelers -> Seq(Batches)]
  /\ exec \in [Modelers -> Executions]
  /\ missed \in [Modelers -> Nat]
  /\ file \in Texts
  /\ topicq \subseteq Topics
  /\ \A h \in Hashtags : rows[h] = NoRow \/ rows[h] \in Texts
  /\ received \in 0..MaxTweets
  /\ handed \subseteq Ids /\ served \subseteq Ids /\ lost \subseteq Ids
  /\ faults \in Nat

Start ==
  /\ tweets = [c \in Collectors |-> <<>>]
  /\ countTweet = [c \in Collectors |-> 0]
  /\ modelq = [m \in Modelers |-> <<>>]
  /\ exec = [m \in Modelers |-> Idle]
  /\ missed = [m \in Modelers |-> 0]
  /\ topicq = {}

Init ==
  /\ tasks \in SUBSET Modelers \ {{}}
  /\ route \in [Hashtags -> Collectors]
  /\ Start
  /\ \E n \in {0, NUM_TWEET + 1} : file = [k \in 1..n |-> Leftover]
  /\ rows = [h \in Hashtags |-> NoRow]
  /\ received = 0
  /\ handed = {} /\ served = {} /\ lost = {}
  /\ faults = 0

-----------------------------------------------------------------------------
(* TweetsBolt.execute on an English tweet; it does nothing with the others. *)

\* The list keeps every tweet the task has seen, of whatever hashtag; each
\* NUM_TWEET-th one hands it on under its own hashtag, to any ModelingBolt task.
Collect(h) ==
  LET c == route[h] IN
  /\ received < MaxTweets
  /\ received' = received + 1
  /\ tweets' = [tweets EXCEPT ![c] = Append(@, h)]
  /\ countTweet' = [countTweet EXCEPT ![c] = (@ + 1) % NUM_TWEET]
  /\ IF countTweet[c] + 1 < NUM_TWEET
       THEN UNCHANGED <<modelq, handed>>
       ELSE /\ handed' = handed \union {received'}
            /\ \E m \in tasks :
                 modelq' = [modelq EXCEPT ![m] = Append(@,
                   [id |-> received', hashtag |-> h, from |-> c, size |-> Len(tweets[c]) + 1])]
  /\ UNCHANGED <<wiring, modeling, writing, lost, faults>>

-----------------------------------------------------------------------------
(* ModelingBolt.execute and save *)

\* A save that opens tweets.txt without truncating it.
OpenFileKeeps(m) ==
  /\ exec[m].pc = "idle" /\ modelq[m] # <<>>
  /\ exec' = [exec EXCEPT ![m].pc = "saving", ![m].batch = Head(modelq[m])]
  /\ modelq' = [modelq EXCEPT ![m] = Tail(@)]
  /\ UNCHANGED <<collecting, missed, file, writing, lost, faults>>

\* The next batch: open tweets.txt, which truncates it.
OpenFile(m) ==
  /\ exec[m].pc = "idle" /\ modelq[m] # <<>>
  /\ exec' = [exec EXCEPT ![m].pc = "saving", ![m].batch = Head(modelq[m])]
  /\ modelq' = [modelq EXCEPT ![m] = Tail(@)]
  /\ file' = <<>>
  /\ UNCHANGED <<collecting, missed, writing, lost, faults>>

\* The list a task saves is the one its TweetsBolt task goes on filling.
ListOf(m) == tweets[exec[m].batch.from]

\* The file after texts n0 + 1 to n1 of a list went to their places in it, those d
\* before them being missed: it may have been truncated under the stream, which
\* leaves a gap.
Written(list, n0, n1, d) ==
  [k \in 1..Max({Len(file), n1 - d}) |->
     IF n0 < k + d /\ k + d <= n1 THEN list[k + d] ELSE IF k <= Len(file) THEN file[k] ELSE Gap]

\* The loop of save, which compares i with list.size() anew each time and so takes
\* the tweets that arrive while it runs, fills a buffer that reaches the file.
Flush(m) ==
  /\ exec[m].pc = "saving"
  /\ \E n \in (exec[m].flushed + 1)..Len(ListOf(m)) :
       /\ file' = Written(ListOf(m), exec[m].flushed, n, missed[m])
       /\ exec' = [exec EXCEPT ![m].flushed = n]
  /\ UNCHANGED <<collecting, modelq, missed, writing, lost, faults>>

\* A write to the file fails.  PrintWriter keeps the exception to itself, so the loop
\* goes on, and save and execute return as if the texts had been written.
LosesTexts(m) ==
  /\ exec[m].pc \in {"saving", "closing"}
  /\ faults < MaxFaults /\ faults' = faults + 1
  /\ \E n \in (exec[m].flushed + 1)..(IF exec[m].pc = "saving" THEN Len(ListOf(m)) ELSE exec[m].taken) :
       /\ missed' = [missed EXCEPT ![m] = @ + (n - exec[m].flushed)]
       /\ exec' = [exec EXCEPT ![m].flushed = n]
  /\ UNCHANGED <<collecting, modelq, file, writing, lost>>

\* The loop finds i = list.size().
TakenAll(m) ==
  /\ exec[m].pc = "saving"
  /\ exec' = [exec EXCEPT ![m].pc = "closing", ![m].taken = Len(ListOf(m))]
  /\ UNCHANGED <<collecting, modelq, missed, file, writing, lost, faults>>

\* A save that does not close its PrintWriter.
ReopenFileUnflushed(m) ==
  /\ exec[m].pc = "closing"
  /\ exec' = [exec EXCEPT ![m].pc = "reading", ![m].taken = 0, ![m].flushed = 0]
  /\ UNCHANGED <<collecting, modelq, missed, file, writing, lost, faults>>

\* pw.close() flushes the rest; the file is opened for reading.
ReopenFile(m) ==
  /\ exec[m].pc = "closing"
  /\ file' = IF exec[m].flushed < exec[m].taken
               THEN Written(ListOf(m), exec[m].flushed, exec[m].taken, missed[m]) ELSE file
  /\ exec' = [exec EXCEPT ![m].pc = "reading", ![m].taken = 0, ![m].flushed = 0]
  /\ UNCHANGED <<collecting, modelq, missed, writing, lost, faults>>

\* addThruPipe reads on from where it is.
ReadTexts(m) ==
  /\ exec[m].pc = "reading"
  /\ \E n \in (Len(exec[m].seen) + 1)..Len(file) :
       exec' = [exec EXCEPT ![m].seen = @ \o SubSeq(file, Len(@) + 1, n)]
  /\ UNCHANGED <<collecting, modelq, missed, file, writing, lost, faults>>

\* The end of the file as it is now.
EndOfFile(m) ==
  /\ exec[m].pc = "reading" /\ Len(exec[m].seen) >= Len(file)
  /\ exec' = [exec EXCEPT ![m].pc = "estimating"]
  /\ UNCHANGED <<collecting, modelq, missed, file, writing, lost, faults>>

\* The execution ends, and its locals with it.
Return(m) == /\ exec' = [exec EXCEPT ![m] = Idle]
             /\ missed' = [missed EXCEPT ![m] = 0]

TopicsOf(m) ==
  [id |-> exec[m].batch.id, hashtag |-> exec[m].batch.hashtag, model |-> exec[m].seen]

\* A bolt that emits nothing for a file it found empty.
EmitTopicsIfAny(m) ==
  /\ exec[m].pc = "estimating" /\ Return(m)
  /\ topicq' = IF exec[m].seen = <<>> THEN topicq ELSE topicq \union {TopicsOf(m)}
  /\ UNCHANGED <<collecting, modelq, file, rows, served, lost, faults>>

\* The model is estimated and its topics go to a writer.
EmitTopics(m) ==
  /\ exec[m].pc = "estimating" /\ Return(m)
  /\ topicq' = topicq \union {TopicsOf(m)}
  /\ UNCHANGED <<collecting, modelq, file, rows, served, lost, faults>>

\* Anything in execute raises: the tuple is failed and its batch lost.
ModelingFails(m) ==
  /\ exec[m].pc # "idle" /\ Return(m)
  /\ faults < MaxFaults /\ faults' = faults + 1
  /\ lost' = lost \union {exec[m].batch.id}
  /\ UNCHANGED <<collecting, modelq, file, writing>>

\* MALLET may raise on a corpus without a text, which is all that another task's
\* truncation may have left.  Each time takes a batch, so it needs no bound.
EmptyCorpusFails(m) ==
  /\ exec[m].pc = "estimating" /\ exec[m].seen = <<>> /\ Return(m)
  /\ lost' = lost \union {exec[m].batch.id}
  /\ UNCHANGED <<collecting, modelq, file, writing, faults>>

-----------------------------------------------------------------------------
\* update topicmodeling set topic = ? where hashtag = ?
\* The writer sends it without waiting, and any of them may be the next to arrive.
WriteRow(t) ==
  /\ t \in topicq
  /\ topicq' = topicq \ {t}
  /\ rows' = [rows EXCEPT ![t.hashtag] = t.model]
  /\ served' = served \union {t.id}
  /\ UNCHANGED <<collecting, modelq, modeling, lost, faults>>

\* It fails: the tuple is failed, which nobody replays.
LoseWrite(t) ==
  /\ t \in topicq
  /\ faults < MaxFaults /\ faults' = faults + 1
  /\ topicq' = topicq \ {t}
  /\ lost' = lost \union {t.id}
  /\ UNCHANGED <<collecting, modelq, modeling, rows, served>>

\* The worker dies.  The table stays, and tweets.txt, as what an earlier life left.
Crash ==
  /\ faults < MaxFaults
  /\ faults' = faults + 1
  /\ tweets' = [c \in Collectors |-> <<>>]
  /\ countTweet' = [c \in Collectors |-> 0]
  /\ modelq' = [m \in Modelers |-> <<>>]
  /\ exec' = [m \in Modelers |-> Idle]
  /\ missed' = [m \in Modelers |-> 0]
  /\ file' = [k \in 1..Len(file) |-> Leftover]
  /\ topicq' = {}
  /\ lost' = lost \union (handed \ served)
  /\ UNCHANGED <<wiring, received, handed, rows, served>>

Execution(m) ==
  \/ OpenFile(m) \/ Flush(m) \/ TakenAll(m) \/ ReopenFile(m)
  \/ ReadTexts(m) \/ EndOfFile(m) \/ EmitTopics(m)

Next ==
  \/ \E h \in Hashtags : Collect(h)
  \/ \E m \in Modelers :
       Execution(m) \/ LosesTexts(m) \/ ModelingFails(m) \/ EmptyCorpusFails(m)
  \/ \E t \in topicq : WriteRow(t) \/ LoseWrite(t)
  \/ Crash

\* An execution that began goes on, whatever it finds in the file; writes arrive.
Fairness ==
  /\ \A m \in Modelers : WF_vars(Execution(m))
  /\ WF_vars(\E t \in topicq : WriteRow(t))

Spec     == Init /\ [][Next]_vars
FairSpec == Spec /\ Fairness

-----------------------------------------------------------------------------
\* Where one ModelingBolt task runs, it models what its batch holds and nothing
\* else, although the list grows meanwhile, the file outlives crashes and a batch
\* may be shorter than what the file held before: unless a write to the file failed.
ModelsItsBatch ==
  \A m \in Modelers :
    (tasks = {m} /\ exec[m].pc = "estimating" /\ missed[m] = 0) =>
      /\ Len(exec[m].seen) \in exec[m].batch.size..Len(ListOf(m))
      /\ exec[m].seen = SubSeq(ListOf(m), 1, Len(exec[m].seen))

\* The lists, the file and the executions: of their types, and none is modelled for
\* another.
ModelingSound == TypeOK /\ ModelsItsBatch

\* No row has a text that an earlier life of the worker left in tweets.txt, whatever
\* tasks, faults and unordered writes it went through; and where one task models,
\* every text of a row is a tweet of a hashtag that shares the row's collector.
TopicsAreFresh ==
  \A h \in Hashtags : rows[h] # NoRow =>
    \A k \in DOMAIN rows[h] :
      /\ rows[h][k] # Leftover
      /\ \A m \in Modelers :
           tasks = {m} => \E g \in Hashtags : rows[h][k] = g /\ route[g] = route[h]

\* Again and again every batch that was handed on has been written to its row, but
\* for those a fault took, this very batch and no other: as a file another task left
\* empty may.  Tasks that share tweets.txt do not block each other, and none drops a
\* batch in silence.
BatchBecomesRow == []<>(handed \subseteq served \union lost)
=============================================================================
