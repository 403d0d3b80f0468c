SPECIFICATION FairSpec
CONSTANTS
  Nodes = {n1, n2}
  Threads = {t1, t2}
  Waiters = {w1}
  Protocols = {"PLAINTEXT", "SASL_SSL"}
  MaxInFlight = 2
  MaxSends = 1
  MaxFaults = 1
INVARIANTS ClientSound
PROPERTIES RequestsEnd TopicKnown
CHECK_DEADLOCK FALSE
