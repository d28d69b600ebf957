SPECIFICATION Spec
CONSTANTS
  Node <- MCNode
  Roots <- MCRoots
  Kind <- MCKind
  Kids <- MCKids
  Anc <- MCAnc
  Times <- MCTimes
  IgnoreProp <- MCIgnoreProp
  EnvProps <- MCEnvProps
CHECK_DEADLOCK FALSE
INVARIANT InterruptNotForgiven
