SPECIFICATION Spec
CONSTANTS
  w1 = w1
  w2 = w2
  e1 = e1
  v1 = v1
  v2 = v2
  r1 = r1
  r2 = r2
  Writers = {w1, w2}
  Ids = {r1}
  Events = {}
  Agent = Agent
  States = {v1}
  Null = Null
  OnError = "halt"
  Retries = 1
  HasList = TRUE
  HasDelete = FALSE
  HidesTombstones = TRUE
  TellsLatest = TRUE
  LosesAnswers = TRUE
  AllowFresh = FALSE
  HadManifest = TRUE
  MaxSeq = 4
  MaxFlush = 4
  MaxGen = 3
SYMMETRY Symmetry
PROPERTY GenerationNeverRegresses
PROPERTY NoLostUpdate
CHECK_DEADLOCK FALSE
