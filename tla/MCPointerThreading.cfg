CONSTANT Heaps <- MCHeaps
SPECIFICATION Spec
CHECK_DEADLOCK FALSE
INVARIANTS
  GraphKept
