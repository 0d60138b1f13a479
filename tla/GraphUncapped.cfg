SPECIFICATION Spec
CONSTANTS
  Ids <- IdsDef
  Workflows <- LoopDef
  None = None
  StepCap = None
  MaxCrashes = 0
PROPERTY SilentRunBounded
