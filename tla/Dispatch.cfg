SPECIFICATION Spec
CONSTANTS
  Home <- h
  Skipped = {"node_modules"}
  MaxDepth = 3
  None = None
  Worlds <- MCWorlds
  Stands <- MCStands
  Names <- MCNames
  PathDirs = {"a", "b"}
  Paths <- MCPaths
  MaxLines = 4
INVARIANTS NotInsideItself Precedence LookupOrder OfferedWhereSaid EditorAgrees
CHECK_DEADLOCK FALSE
