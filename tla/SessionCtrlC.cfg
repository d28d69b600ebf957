SPECIFICATION Spec
CONSTANTS
  MaxChanges <- MCMaxChanges
  MaxPresses <- MCMaxPresses
  MaxTemps <- MCMaxTemps
CHECK_DEADLOCK FALSE
PROPERTY CtrlCEndsWatch
