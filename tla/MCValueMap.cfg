CONSTANTS
  k0 = k0
  k1 = k1
  k2 = k2
  k4 = k4
  k6 = k6
  k10 = k10
  v1 = v1
  v2 = v2
  Undef = Undef
  Keys <- MCKeys
  Values = {v1, v2}
  HashValue <- MCHash
  InitialSlots = 4
  Removable <- MCRemovable
  MaxDepth = 2
SPECIFICATION Spec
SYMMETRY Alike
INVARIANT Searchable EachGivesEveryPair RefusedOnlyWhileSearching
PROPERTY ImplementsDictionary
CHECK_DEADLOCK FALSE
