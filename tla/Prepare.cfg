SPECIFICATION Spec
CONSTANTS
  p1 = p1
  p2 = p2
  setup = setup
  build = build
  otherSetup = otherSetup
  d1 = d1
  d2 = d2
  NoGate = NoGate
  Broken = Broken
  None = None
  Torn = Torn
  Proc <- MCProc
  Target <- MCTarget
  GateOf <- MCGateOf
  Defs <- MCDefs
  Ways <- MCWays
  MaxRuns <- MCMaxRuns
  MaxEdits <- MCMaxEdits
SYMMETRY Symmetry
CHECK_DEADLOCK FALSE
INVARIANTS
  TypeOK
  RecordsSurvive
PROPERTY OpenedBySetup
