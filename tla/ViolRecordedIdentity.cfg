CONSTANTS
  Actor = {a1, a2}
  Tag = {t1, t2}
  World <- MCWorld
  Signer = {"s1", "s2"}
  Opts <- MCOpts
  Foreign <- MCForeign
  MaxFiles = 2
  MaxTotalSize = 4
  MaxManifestSize = 2
  TarHeader = 1
  MaxDecompressedSize = 9
  PathOrder <- MCPathOrder
  HiddenName <- MCHiddenName
  DoubledName <- MCDoubledName
  VerifierCalls <- MCVerifierCalls
SPECIFICATION MCSpec
CHECK_DEADLOCK FALSE
INVARIANT
  RecordedIdentityVerifies
