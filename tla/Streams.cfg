SPECIFICATION FairSpec
CONSTANTS
  e1 = e1
  e2 = e2
  e3 = e3
  Ids = {e1, e2, e3}
  Outside = {e1, e2}
  Ignored = {e2}
  NoEvent = NoEvent
  From = "earliest"
  BatchSize = 2
  MaxEvents = 1
  MayExpire = TRUE
  DedupRing = 3
  HeadProbes = 2
  StoreFails = TRUE
  MaxSeq = 3
  MaxCrashes = 1
INVARIANT AckedSurvives
PROPERTY InOrder
PROPERTY SettledNeverRefires
PROPERTY Delivered
