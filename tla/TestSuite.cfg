SPECIFICATION Spec
CONSTANTS
  WORKERS = 2
  Suites <- MCSuites
  Programs <- MCPrograms
  Outputs = {"", "a", "a+", "b"}
  Unix <- MCUnix
  NONE = NONE
  undefined = undefined
  MaxRuns = 3
INVARIANTS
  TypeOK
  TestsAccountedFor
  VerdictsRight
PROPERTIES
  CrashHasACause
  SuiteEnds
CHECK_DEADLOCK FALSE
