SPECIFICATION Spec
CONSTANTS
  COUNT = 8
  Hashes <- MCHashes
  Bundles <- MCBundles
INVARIANT AbsentPanics
