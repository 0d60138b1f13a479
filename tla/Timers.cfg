SPECIFICATION FairSpec
CONSTANTS
  Kinds = {"effect", "turn", "sleep"}
  OnReplay = "retry"
  MaxRetry = 1
  Policies = {"halt", "degrade"}
  StoreFails = TRUE
  MaxTimers = 3
  MaxCrashes = 1
INVARIANT NoOrphanWait
INVARIANT OneCallAtATime
PROPERTY SettledIsDurable
PROPERTY TerminalIsFinal
PROPERTY WaitEnds
