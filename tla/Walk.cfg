SPECIFICATION Spec
CONSTANTS
  Node <- MCNode
  Roots <- MCRoots
  Kind <- MCKind
  Kids <- MCKids
  Anc <- MCAnc
  Times <- MCTimes
  IgnoreProp <- MCIgnoreProp
  EnvProps <- MCEnvProps
INVARIANTS
  TypeOK
  NothingOutlives
  EnvInEffect
  NoSilentFailure
PROPERTIES
  StopIsFinal
  InterruptEndsRun
  PreviewEnds
CHECK_DEADLOCK FALSE
