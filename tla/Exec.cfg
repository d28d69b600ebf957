SPECIFICATION FairSpec
CONSTANTS
  Calls <- MCCalls
  Settings <- MCSettings
  Cap = 1
  MaxBody = 2
  MaxWritten = 3
INVARIANTS TypeOK OverWhenReturned
PROPERTIES  KeepsPromise Returns
CHECK_DEADLOCK FALSE
