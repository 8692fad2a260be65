CONSTANTS
  W = 5
  BadCast <- IntMin
  TrapOnUB = FALSE
  ObjIds = {1, 2}
  FuncIds = {1}
  Operands <- MCOperands
SPECIFICATION Spec
INVARIANTS
  TypeOK
  ArithmeticIsInvertible
  ComparisonsAgree
  BitwiseIsTwosComplement
  BuildsAgree
  TruthAgrees
