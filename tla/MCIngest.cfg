SPECIFICATION IngestSpec
CONSTANTS
  Hashtags = {"boulder", "denver"}
  Tweets = {"b1", "b2", "b3"}
  Threads = {t1, t2}
  Archive <- MCArchive
  MaxErrors = 2
INVARIANTS CopiesPerThread TopicAsArchived
CHECK_DEADLOCK FALSE
