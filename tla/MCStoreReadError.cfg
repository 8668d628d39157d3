\* A collection whose walk cannot read the whole directory.
CONSTANTS
  Pkg = {p}
  Versioned = {p}
  RequireSig = {}
  Arches = {x86_64}
  NoArch = NoArch
  Rels <- MCRels
  Digest = {d1, d2}
  None = None
  IOFaults = FALSE
  ReadFaults = TRUE
  Entries <- MCEverything
  MaxLegacy = 0
SPECIFICATION MCSpec
INVARIANTS NoDangling
