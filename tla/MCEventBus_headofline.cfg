SPECIFICATION StalledSpec
CONSTANTS
  p1 = p1
  p2 = p2
  t1 = t1
  Publishers = {p1, p2}
  TryPublishers = {}
  Topics <- MCTopics
  PatternSets <- MCPatternSets
  MaxSubs = 2
  MaxSeq = 3
  Buf = 1
CHECK_DEADLOCK FALSE
PROPERTY StallBlocksOnlyTargeters
CONSTRAINT Attached
CONSTRAINT Uncancelled
