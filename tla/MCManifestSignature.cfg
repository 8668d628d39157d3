\* A bare artifact, and another of the same name with an architecture and a signature.
CONSTANTS
  Bytes <- MCBytes
  Width <- MCWidth
  Architectures <- MCArchitectures
  RequireExt <- MCRequireExt
  Written <- MCWritten
  Parsed <- MCParsed
  Compared <- MCCompared
  Digest = {d1, d2}
  None = None
  SizeOf <- MCSizeOf
  MaxTime = 2
  MaxEntries = 3
  ByAge <- MCByAge
SPECIFICATION Spec
INVARIANTS SignatureIsOnDisk
