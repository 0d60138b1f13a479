SPECIFICATION Spec
CONSTANTS
  s1 = s1
  f1 = f1
  d1 = d1
  m1 = m1
  m2 = m2
  w1 = w1
  w2 = w2
  c1 = c1
  None = None
  Starts = {s1, d1}
  Messages = {m1}
  Firings = {}
  Deinit = {d1}
  Unknown = {}
  Malformed = {}
  Pinned = {}
  Commands = {}
  Workflows = {w1, w2}
  Policy = "replace"
  Limit = 1
  MaxTurns = 1
  MaxFails = 0
  MaxLives = 2
  Wf <- WfDef
  Cap <- CapDef
  OnOverflow <- OnOverflowDef
  Conv <- ConvDef
INVARIANT OneReader
