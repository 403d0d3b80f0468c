SPECIFICATION FairSpec
CONSTANTS
  Tuples = {1, 2, 3}
  Kinds = {"hdfs", "sequence"}
  Policies = {"size", "timed"}
  Count = 2
  maxBytes = 2
  MaxFaults = 2
INVARIANTS FewAckedUnsynced FilesSound
PROPERTIES MovedFilesRest AllAcked
CHECK_DEADLOCK FALSE
