SPECIFICATION FairSpec
CONSTANTS
  Targets <- MCTargets
  SharedFile = "_shared"
  MaxEdits = 2
  MaxRequests = 1
  MaxEvents = 1
  MaxOnWire = 2
  None = None
  Unasked = Unasked
  Waiting = Waiting
INVARIANTS TypeOK InStep ShownIsOwn AnsweredAsAsked
PROPERTIES CatchesUp
CHECK_DEADLOCK FALSE
