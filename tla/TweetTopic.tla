----------------------------- MODULE TweetTopic -----------------------------
(***************************************************************************)
(* The topic "tweet", which the Flask service's producers append to and    *)
(* the Storm topology reads.  It has one partition.                        *)
(***************************************************************************)
EXTENDS Integers, Sequences

CONSTANTS
  Hashtags,   \* keys of the topic's records
  Tweets      \* the records the topic can hold

VARIABLE log  \* the topic; offsets start at 1
=============================================================================
