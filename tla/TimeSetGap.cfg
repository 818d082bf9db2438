SPECIFICATION Spec
CONSTANTS
  LastDay = 5
  DefaultFirst = 2
  DefaultLast = 4
INVARIANT RangeBeginsAfterPredecessor
