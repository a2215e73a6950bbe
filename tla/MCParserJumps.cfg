SPECIFICATION Spec
CONSTANTS
  Programs <- NestedJumps
  LexemesOf <- MCLexemesOf
  TreeOf <- MCTreeOf
  ConstantNames = {"A", "B", "C"}
INVARIANTS ReportedJumpIsOutside
CHECK_DEADLOCK FALSE
