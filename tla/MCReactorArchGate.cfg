\* The gate of a bare name, and the signature of another artifact.
CONSTANTS
  Pkg = {p}
  Versioned = {}
  RequireSig = {p}
  Arches = {x86_64}
  NoArch = NoArch
  Rels <- MCRels
  Digest = {d1, d2}
  None = None
  IOFaults = FALSE
  ReadFaults = FALSE
  Conns = {c1, c2}
  TmpPath = {t1, t2}
  NoPath = NoPath
  Partial = Partial
  Requests <- MCGateRequests
  NoName = NoName
  Crashes = FALSE
SYMMETRY MCSymmetry
SPECIFICATION Spec
PROPERTY GateFindsOwnSignature
