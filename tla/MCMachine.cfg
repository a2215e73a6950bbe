SPECIFICATION ProgramSpec
CONSTANTS
  Programs <- MachinePrograms
  LexemesOf <- MachineLexemes
  TreeOf <- MachineTree
  ConstantNames = {"A", "B", "C"}
  Oracles <- MachineOracles
  MaxEvents = 12
INVARIANTS RunsAsMeant OperandsGood HeapsMatchReferences
PROPERTY WellBehaved
CHECK_DEADLOCK FALSE
