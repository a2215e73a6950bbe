SPECIFICATION Spec
CONSTANTS
  Programs <- MCPrograms
  LexemesOf <- MCLexemesOf
  TreeOf <- MCTreeOf
  ConstantNames = {"A", "B", "C"}
INVARIANTS ParsedAsWritten NamesResolved SharedVariablesReachable JumpsReachTheirLoop NothingDropped
CHECK_DEADLOCK FALSE
