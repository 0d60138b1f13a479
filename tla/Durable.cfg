SPECIFICATION Spec
CONSTANTS
  w1 = w1
  w2 = w2
  e1 = e1
  v1 = v1
  v2 = v2
  r1 = r1
  r2 = r2
  Writers = {w1}
  Ids = {r1}
  Events = {e1}
  Agent = Agent
  States = {v1, v2}
  Null = Null
  OnError = "halt"
  Retries = 2
  HasList = TRUE
  HasDelete = TRUE
  HidesTombstones = TRUE
  TellsLatest = TRUE
  LosesAnswers = TRUE
  AllowFresh = TRUE
  HadManifest = FALSE
  MaxSeq = 2
  MaxFlush = 3
  MaxGen = 3
SYMMETRY Symmetry
INVARIANT TypeOK
INVARIANT AcceptedSurvives
INVARIANT DroppedStaysDropped
INVARIANT FlushedIsRestorable
PROPERTY EventNeverOverwritten
PROPERTY OccupiedMeansTaken
PROPERTY SupersededIndexKept
CHECK_DEADLOCK FALSE
