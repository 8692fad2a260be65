SPECIFICATION Spec
CONSTANTS
  k1 = k1
  k2 = k2
  k3 = k3
  s1 = s1
  s2 = s2
  Keys <- MCKeys
  Symbols <- MCSymbols
  Values = {v1, v2}
  NULL = NULL
  Absent = Absent
  bucket_count = 2
  hash_string <- MCHash
INVARIANTS
  TypeOK
  OneEntryPerName
PROPERTY ImplementsMap
