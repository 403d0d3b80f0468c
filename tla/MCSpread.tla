------------------------------- MODULE MCSpread -------------------------------
(* Small instances of TweetSpread for TLC. *)
EXTENDS TweetSpread

MCTweet(hashtag, english, mood, places, created) ==
  [hashtag |-> hashtag, json |-> TRUE, english |-> english, mood |-> mood,
   places |-> places, created |-> created]

Neutral == MCTweet("boulder", TRUE, "neu", <<"point">>, 1)
Foreign == MCTweet("boulder", FALSE, "neu", <<>>, 0)

SpreadTweets == {Neutral, Foreign}

\* A single English tweet.
OneTweet == [h \in Hashtags |-> <<<<Neutral>>>>]
===============================================================================
