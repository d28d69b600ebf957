SPECIFICATION MCSpec
CONSTANTS
  Unbound = Unbound
  NestedTry = TRUE
  Names <- MCNames
  WellFormed <- MCWellFormed
  Said <- MCSaid
  TypesOf <- MCTypesOf
  Shows <- MCShows
INVARIANTS
  FailsEveryTime
CHECK_DEADLOCK FALSE
