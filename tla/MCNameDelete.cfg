\* A name whose signature just fits, and an alias of it that is one zero longer.
CONSTANTS
  Bytes <- MCBytes
  Width <- MCWidth
  Architectures <- MCArchitectures
  RequireExt <- MCRequireExt
  Written <- MCWritten
  Parsed <- MCParsed
  Digest = {d1, d2}
  None = None
  LongName = 239
  Pads = {0, 1}
  MaxLegacy = 0
  MaxEntries = 3
SPECIFICATION MCSpec
PROPERTIES DeleteTakesSignature
