SPECIFICATION Spec
CONSTANTS
  p1 = p1
  p2 = p2
  t1 = t1
  Publishers = {p1, p2, t1}
  TryPublishers = {t1}
  Topics <- OneTopic
  PatternSets <- RootPatternSets
  MaxSubs = 2
  MaxSeq = 2
  Buf = 1
CHECK_DEADLOCK FALSE
INVARIANT TypeOK
INVARIANT NoPanic
INVARIANT GateExclusion
INVARIANT SeqOrder
INVARIANT NoStrandedTicket
INVARIANT DurableBeforeVisible
INVARIANT NothingSilent
PROPERTY NoAppendAfterClose
SYMMETRY Symmetric
