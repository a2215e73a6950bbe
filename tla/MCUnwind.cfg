CONSTANTS
  MaxErrors = 2
  Programs <- MCPrograms
SPECIFICATION Spec
CHECK_DEADLOCK FALSE
INVARIANTS
  HandlerInEffect
  EnsureRuns
  LandsRight
  NothingForgotten
