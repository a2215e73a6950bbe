CONSTANT Texts <- MCTexts
SPECIFICATION Spec
CHECK_DEADLOCK FALSE
INVARIANT LinesCounted
INVARIANT LiteralsContinue
PROPERTY Terminates
