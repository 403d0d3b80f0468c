------------------------------ MODULE MCTopology ------------------------------
(* Small instances of TweetTopology for TLC. *)
EXTENDS TweetTopology

MCTweet(json, english, mood, places, created) ==
  [hashtag |-> "boulder", json |-> json, english |-> english, mood |-> mood,
   places |-> places, created |-> created]

\* Two points; a point before integer coordinates, and a bad date; another language; no
\* JSON.
PlaceTweets ==
  {MCTweet(TRUE, TRUE, "neg", <<"point", "point">>, 1),
   MCTweet(TRUE, TRUE, "neu", <<"point", "bad">>, NoDate),
   MCTweet(TRUE, FALSE, "neu", <<"point">>, 1),
   MCTweet(FALSE, FALSE, "neu", <<>>, NoDate)}
===============================================================================
