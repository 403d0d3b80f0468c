SPECIFICATION FairSpec
CONSTANTS
  t1 = t1
  t2 = t2
  t3 = t3
  Tuples = {t1, t2, t3}
  Keyspaces = {"tweets", "counts"}
  Configured = {{"tweets"}, {"tweets", "counts"}}
  mapToKeyspace <- MCMapping
  Strategies = {"receive", "write"}
  batchMaxSize = 1
  MaxSends = 2
  MaxFaults = 1
INVARIANTS TypeOK AckedIsWritten AppliedPaidBySends LostPerFault
PROPERTIES ReceivedIsAcked
CHECK_DEADLOCK FALSE
