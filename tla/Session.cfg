SPECIFICATION Spec
CONSTANTS
  MaxChanges <- MCMaxChanges
  MaxPresses <- MCMaxPresses
  MaxTemps <- MCMaxTemps
CHECK_DEADLOCK FALSE
INVARIANTS
  TypeOK
  IdleIsFresh
  TempsGone
  NextSaveRetries
PROPERTIES
  RunsStartClean
  FreshAgain
