SPECIFICATION FairSpec
CONSTANTS
  w1 = w1
  w2 = w2
  e1 = e1
  v1 = v1
  v2 = v2
  r1 = r1
  r2 = r2
  Writers = {w1, w2}
  Ids = {}
  Events = {e1}
  Agent = Agent
  States = {v1}
  Null = Null
  OnError = "degrade"
  Retries = 2
  HasList = TRUE
  HasDelete = FALSE
  HidesTombstones = TRUE
  TellsLatest = TRUE
  LosesAnswers = FALSE
  AllowFresh = TRUE
  HadManifest = TRUE
  MaxSeq = 2
  MaxFlush = 2
  MaxGen = 3
PROPERTY CallsEnd
CHECK_DEADLOCK FALSE
