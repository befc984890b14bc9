SPECIFICATION FairSpec
CONSTANTS
  Jobs = {1, 2}
  Workers = {w1, w2}
  Modes = {"live", "hybrid"}
  MaxResults = 2
  MaxMessages = 2
  MaxFaults = 1
INVARIANTS ResultsOfOneRanking
PROPERTIES RunEnds
CHECK_DEADLOCK FALSE
