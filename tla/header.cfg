SPECIFICATION Spec
CONSTANTS
  Names <- MCNames
  Found <- MCFound
  Layout <- MCLayout
  Binaries <- MCBinaries
INVARIANTS
  RoundTrip
  StartsIfSigned
  LoadedAsLinked
CHECK_DEADLOCK FALSE
