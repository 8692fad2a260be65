SPECIFICATION FairSpec
CONSTANTS
  COUNT = 8
  Hashes <- MCHashes
  Bundles <- MCBundles
INVARIANTS
  TypeOK
  PresentIsFound
  Between
PROPERTY SearchEnds
