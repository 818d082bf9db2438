SPECIFICATION CountingSpec
CONSTANTS
  LastDay = 5
  DefaultFirst = 2
  DefaultLast = 4
  Jumps <- MCJumps
INVARIANTS
  TypeOK
  CacheHasNoHoles
  CacheCoversItsRange
PROPERTY ImplementsTimeSet
