SPECIFICATION FairSpec
CONSTANTS
  Hashtags = {"boulder", "denver"}
  Collectors = {"c1"}
  Modelers = {"m1", "m2"}
  NUM_TWEET = 2
  MaxTweets = 4
  MaxFaults = 1
INVARIANTS ModelingSound TopicsAreFresh
PROPERTIES BatchBecomesRow
CHECK_DEADLOCK FALSE
