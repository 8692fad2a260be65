SPECIFICATION Spec
CONSTANTS
  BYTE = 64
  Strings <- MCStrings
  Insts <- MCInsts
  Patches <- MCPatches
  MaxInsts = 2
  MaxParts = 3
  MaxLength = 3
INVARIANTS
  TypeOK
  LengthsAddUp
  LoadsWhatWasCompiled
  RejectedForAReason
PROPERTY BundlingKeepsFile
