------------------------------ MODULE TweetFeed ------------------------------
(***************************************************************************)
(* What the topology promises about the topic it reads: records are        *)
(* handled at least once and in any order, and the position kept in        *)
(* Zookeeper moves forward, over handled records only.  While there is no  *)
(* position, a restart begins again at the end of the topic.               *)
(***************************************************************************)
EXTENDS Integers, Sequences

CONSTANTS Tweets

VARIABLES
  log,       \* the topic
  begin,     \* where reading began
  position,  \* the committed offset, 0 before the first commit
  handled    \* offsets handled at least once

vars == <<log, begin, position, handled>>

Init ==
  /\ log = <<>>
  /\ begin = 1
  /\ position = 0
  /\ handled = {}

Publish ==
  /\ \E m \in Tweets : log' = Append(log, m)
  /\ UNCHANGED <<begin, position, handled>>

BeginAtEnd ==
  /\ position = 0
  /\ begin' = Len(log) + 1
  /\ UNCHANGED <<log, position, handled>>

\* Only a record that parses is ever handled.
Handle ==
  /\ \E o \in begin..Len(log) : log[o].json /\ handled' = handled \union {o}
  /\ UNCHANGED <<log, begin, position>>

Advance ==
  /\ \E n \in begin..(Len(log) + 1) :
       /\ position < n
       /\ begin..(n - 1) \subseteq handled
       /\ position' = n
  /\ UNCHANGED <<log, begin, handled>>

Next == Publish \/ BeginAtEnd \/ Handle \/ Advance

Spec == Init /\ [][Next]_vars
=============================================================================
