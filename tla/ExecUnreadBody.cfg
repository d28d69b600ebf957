SPECIFICATION Spec
CONSTANTS
  Calls <- MCCalls
  Settings <- MCSettings
  Cap = 1
  MaxBody = 2
  MaxWritten = 3
INVARIANTS EndIsAnAnswer
CHECK_DEADLOCK FALSE
