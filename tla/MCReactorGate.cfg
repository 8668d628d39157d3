\* A delete between the gate and the publication of a push.
CONSTANTS
  Pkg = {p}
  Versioned = {}
  RequireSig = {p}
  Arches = {}
  NoArch = NoArch
  Rels <- MCRels
  Digest = {d1, d2}
  None = None
  IOFaults = FALSE
  ReadFaults = FALSE
  Conns = {c1, c2}
  TmpPath = {t1, t2}
  NoPath = NoPath
  Partial = Partial
  Requests <- MCCanonicalRequests
  NoName = NoName
  Crashes = FALSE
SYMMETRY MCSymmetry
SPECIFICATION Spec
PROPERTY UnsignedNeverPublished
