SPECIFICATION Spec
CONSTANTS
  Members = {1, 2}
  Partitions = {0, 1}
  LogEnd = 1
  MaxRecords = 2
  MaxFaults = 1
  Faulty = {1}
INVARIANTS PollIsActive
