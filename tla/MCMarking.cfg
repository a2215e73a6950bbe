CONSTANTS
  o1 = o1
  o2 = o2
  o3 = o3
  Objects = {o1, o2, o3}
  Roots = {r1, r2}
  Nothing = Nothing
  ListEnd = ListEnd
  Graphs <- MCGraphs
SPECIFICATION Spec
CHECK_DEADLOCK FALSE
INVARIANTS
  LinksReset
  MarkedIsReachable
PROPERTY Terminates
