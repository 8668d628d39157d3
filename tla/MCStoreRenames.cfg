\* The artifacts of one versioned package: two spellings that are not canonical
\* and the canonical one, with and without architecture.
CONSTANTS
  Pkg = {p}
  Versioned = {p}
  RequireSig = {}
  Arches = {x86_64}
  NoArch = NoArch
  Rels <- MCPaddedRels
  Digest = {d1, d2}
  None = None
  IOFaults = TRUE
  ReadFaults = FALSE
  Entries <- MCArtifacts
  MaxLegacy = 6
SYMMETRY MCSymmetry
SPECIFICATION MCSpec
INVARIANT NoDangling
PROPERTIES MeaningIsStable StampingIsInvisible RenamesLoseNothing
