SPECIFICATION Spec
CONSTANTS
  W = 7
  BadCast <- IntMin
  TrapOnUB = FALSE
  MaxScopes = 59
  MaxObjs = 87
  MaxFuncs = 25
  STACK_SIZE = 20
  ObjIds <- MCObjIds
  FuncIds <- MCFuncIds
  Names <- MCNames
  Code <- MCCode
  Text <- MCText
  OtherKey <- MCOtherKey
  Hash <- MCHash
  Depth <- MCDepth
  Limit <- MCLimit
  Nesting <- MCNesting
  Entries <- ActivationsEntries
  Expected <- MCExpected
INVARIANT OutputMatches
