SPECIFICATION FairSpec
CONSTANTS
  Hashtags = {"boulder"}
  Tweets <- PlaceTweets
  Branches = {"geoparsing"}
  MaxPlaces = 2
  MaxLog = 2
  MaxEmits = 2
  MaxFaults = 1
INVARIANTS TypeOK CommittedWasParsed WritesPaidByEmits
PROPERTIES ImplementsFeed ReadIsParsed ParsedIsWritten
CHECK_DEADLOCK FALSE
