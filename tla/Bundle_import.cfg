SPECIFICATION BundleSpec
CONSTANTS
  COUNT = 8
  HALF = 4
  FNV_OFFSET_BASIS = 5
  FNV_PRIME = 11
  PREFIX <- MCPrefix
  Hash <- hashString
  Hashes <- MCHashes
  Bundles = {}
  Inputs <- MCInputs
  Sources <- MCSources
INVARIANT ImportFindsModule
