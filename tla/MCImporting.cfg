\* Two exported packages and a pushed one; an import may be killed at any step.
CONSTANTS
  Pkg = {p, q, r}
  Versioned = {}
  RequireSig = {}
  Arches = {}
  NoArch = NoArch
  Rels <- MCRels
  Digest = {d1, d2}
  None = None
  IOFaults = FALSE
  ReadFaults = FALSE
  Files <- MCFiles
  Pushes <- MCPushes
  ImportedPkg = {p, r}
  PushedPkg = {q}
SYMMETRY MCSymmetry
SPECIFICATION Spec
INVARIANTS TypeOK EntriesHaveBlobs ImportIsComplete PushesSurviveImport
