SPECIFICATION ReadersSpec
CONSTANTS
  p1 = p1
  p2 = p2
  t1 = t1
  Publishers = {p1, t1}
  TryPublishers = {t1}
  Topics <- OneTopic
  PatternSets <- RootPatternSets
  MaxSubs = 2
  MaxSeq = 2
  Buf = 1
  MemoryFiles = {"f"}
  Lessons = {"x", "y"}
  MaxInsights = 1
  ExecWindow = 1
  MaxMail = 2
  MaxUses = 1
CHECK_DEADLOCK FALSE
PROPERTY PublishReturns
PROPERTY CallsEnd
PROPERTY CloseEnds
ACTION_CONSTRAINT BusSubscribesFirst
CONSTRAINT BusUncancelled
CONSTRAINT BusLastStays
