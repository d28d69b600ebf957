SPECIFICATION LSpec
CONSTANTS
  Unbound = Unbound
  NestedTry = FALSE
  Names <- MCNames
  WellFormed <- MCWellFormed
  Said <- MCSaid
  TypesOf <- MCTypesOf
  Shows <- MCShows
  Reading <- MCReading
  Tidied <- MCTidied
INVARIANTS
  UnresolvedIsUnbound
  FailsEveryTime
  TypesHold
  NeedsAreListed
  FormatKeeps
  FormatOnce
CHECK_DEADLOCK FALSE
