\* An artifact "big" can be stamped, its signature is too long to be.
CONSTANTS
  Bytes <- MCBytes
  Width <- MCWidth
  Architectures <- MCArchitectures
  RequireExt <- MCRequireExt
  Written <- MCWritten
  Parsed <- MCParsed
  Digest = {d1, d2}
  None = None
  LongName = 233
  Pads = {0, 1}
  MaxLegacy = 2
  MaxEntries = 3
SPECIFICATION MCSpec
INVARIANTS CanonicalIsClosed LookupsAgree
PROPERTIES ImplementsStore
