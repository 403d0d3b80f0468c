SPECIFICATION FairSpec
CONSTANTS
  Keys = {"a", "b", "bad"}
  Unmappable = {"bad"}
  Kinds = {"tuples", "nontransactional", "transactional", "opaque"}
  Handlers <- MCHandlers
  Sizes = {0, 2}
  MaxTx = 2
  MaxLength = 3
  MaxFaults = 2
INVARIANTS CountedOnce WritesSound
PROPERTIES BatchCommits
CHECK_DEADLOCK FALSE
