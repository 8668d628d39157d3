\* A collection during an import.
CONSTANTS
  Pkg = {p}
  Versioned = {}
  RequireSig = {}
  Arches = {}
  NoArch = NoArch
  Rels <- MCRels
  Digest = {d1, d2}
  None = None
  IOFaults = FALSE
  ReadFaults = FALSE
  Files <- MCFiles
  Pushes <- MCPushes
  ImportedPkg = {p}
  PushedPkg = {}
SYMMETRY MCSymmetry
SPECIFICATION Spec
INVARIANT NoDangling
