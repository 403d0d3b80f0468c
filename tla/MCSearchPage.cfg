SPECIFICATION FairPageSpec
CONSTANTS
  Queries = {"boulder"}
  Sessions = {s1}
  LastHour = 2
  Late = 1
  data_length = 1
  MaxReplies = 2
  MaxUpdates = 2
INVARIANTS PageSound
PROPERTIES WaitEnds ChartsConverge
