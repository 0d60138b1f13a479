SPECIFICATION FairSpec
CONSTANTS
  Ids <- IdsDef
  Workflows <- WorkflowsDef
  None = None
  StepCap = 7
  MaxCrashes = 1
INVARIANT OneArmRuns
INVARIANT StalledMeansExhausted
PROPERTY GuardRespected
PROPERTY NoEarlyStart
PROPERTY ReplayedAsRouted
 
