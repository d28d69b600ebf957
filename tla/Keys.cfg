SPECIFICATION Spec
CONSTANTS
  p1 = p1
  p2 = p2
  f = f
  g = g
  v = v
  k1 = k1
  k2 = k2
  open = open
  secret = secret
  NoValue = NoValue
  Cut = Cut
  NoKey = NoKey
  Gone = Gone
  Proc <- MCProc
  File <- MCFile
  Var <- MCVar
  Key <- MCKey
  Open <- MCOpen
  Secret <- MCSecret
  Tasks <- MCTasks
  Pool <- MCPool
  MaxRuns <- MCMaxRuns
SYMMETRY Symmetry
INVARIANTS
  TypeOK
  Readable
  OneKey
  NeverPlain
