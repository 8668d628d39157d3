\* A delete and a push of a name while it is being imported.
CONSTANTS
  Pkg = {p}
  Versioned = {}
  RequireSig = {}
  Arches = {}
  NoArch = NoArch
  Rels <- MCRels
  Digest = {d1, d2}
  None = None
  IOFaults = FALSE
  ReadFaults = FALSE
  Files <- MCFiles
  Pushes <- MCPushes
  ImportedPkg = {p}
  PushedPkg = {p}
SYMMETRY MCSymmetry
SPECIFICATION Spec
INVARIANT BlobHoldsItsBytes
