SPECIFICATION FairSpreadSpec
CONSTANTS
  Hashtags = {"boulder"}
  Tweets <- SpreadTweets
  Branches = {"sentiment"}
  MaxPlaces = 1
  MaxLog = 2
  MaxEmits = 1
  MaxFaults = 0
  Threads = {t1, t2}
  Archive <- OneTweet
  MaxErrors = 1
  Sessions = {s1, s2}
  LastHour = 1
  Late = 1
  data_length = 1
  MaxReplies = 0
  MaxUpdates = 10
INVARIANTS CountedOncePerThread
PROPERTIES ImplementsSite SearchAnswered
CHECK_DEADLOCK FALSE
