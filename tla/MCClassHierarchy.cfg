CONSTANT MaxHeap = 10
CONSTANT Untouched = {2, 5}
SPECIFICATION Spec
INVARIANT NoCycle IncludeMerges
PROPERTY ClassNeverChanges SingletonMethodsStayInherited IncludeEnds
CHECK_DEADLOCK FALSE
