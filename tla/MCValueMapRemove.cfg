CONSTANTS
  k0 = k0
  k1 = k1
  k2 = k2
  k4 = k4
  k6 = k6
  k10 = k10
  v1 = v1
  v2 = v2
  Undef = Undef
  Keys <- MCCrowdedKeys
  Values = {v1, v2}
  HashValue <- MCHash
  InitialSlots = 4
  Removable <- MCCrowdedKeys
  MaxDepth = 2
SPECIFICATION Spec
INVARIANT FreeSlotNotGone
CHECK_DEADLOCK FALSE
