SPECIFICATION MCSpec
CONSTANTS
  Names <- MCNames
  UserFunctions <- MCUserFunctions
  NoName = NoName
  MaxObjects = 18
  MaxTerms = 4
  AliasedAssignments = FALSE
INVARIANTS
  ReferencesAreCounted
  InUseIsAlive
  NothingIsLost
  LevelsAscend
CHECK_DEADLOCK FALSE
