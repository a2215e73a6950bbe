CONSTANTS
  Threshold = 2
  PerCollection = 1
  RegionSize = 2
  MaxMemory = 6
  MaxSignals = 3
  MaxCollections = 2
SPECIFICATION TriggerSpec
INVARIANT SignalNotLost OneInterruptPerSignal DueNotForgotten
PROPERTY InterruptDelivered
CHECK_DEADLOCK FALSE
