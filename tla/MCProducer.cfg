SPECIFICATION FairSpec
CONSTANTS
  Threads = {t1, t2}
  Partitions = {p1}
  Configs <- MCConfigs
  MaxSends = 3
  MaxFaults = 1
INVARIANTS ProducerSound AckedInOrder
PROPERTIES AcceptedCompletes
CHECK_DEADLOCK FALSE
