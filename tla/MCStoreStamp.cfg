\* Stamping a bare, signed artifact whose stamped name is taken.
CONSTANTS
  Pkg = {p}
  Versioned = {}
  RequireSig = {}
  Arches = {x86_64, aarch64}
  NoArch = NoArch
  Rels <- MCRels
  Digest = {d1, d2}
  None = None
  IOFaults = FALSE
  ReadFaults = FALSE
  Entries <- MCEverything
  MaxLegacy = 0
SPECIFICATION MCSpec
PROPERTY SignatureStaysWithArtifact
