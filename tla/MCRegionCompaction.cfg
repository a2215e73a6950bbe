CONSTANTS
  MaxObjects = 4
  MaxSize = 3
  Capacities <- MCCapacities
  Layouts <- MCLayouts
SPECIFICATION Spec
CHECK_DEADLOCK FALSE
INVARIANTS
  AllocatorBehindWalker
  SpaceForEveryObject
  WalkerOnObject
  PassesAgree
  MovesClobberNothing
  CompactedIsLayout
PROPERTY Terminates
