\* Up to three of thirteen entries, published within two seconds.
CONSTANTS
  Bytes <- MCBytes
  Width <- MCWidth
  Architectures <- MCArchitectures
  RequireExt <- MCRequireExt
  Written <- MCWritten
  Parsed <- MCParsed
  Compared <- MCCompared
  Digest = {d1, d2}
  None = None
  SizeOf <- MCSizeOf
  MaxTime = 2
  MaxEntries = 3
  ByAge <- MCByAge
SPECIFICATION Spec
INVARIANTS ListingIsExact RankIsAge ManifestIsDetermined StatusAddsUp
