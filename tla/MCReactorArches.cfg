\* Two connections pushing, deleting and collecting one package under a bare
\* alias and two architectures.
CONSTANTS
  Pkg = {p}
  Versioned = {p}
  RequireSig = {}
  Arches = {x86_64, aarch64}
  NoArch = NoArch
  Rels <- MCRels
  Digest = {d1, d2}
  None = None
  IOFaults = FALSE
  ReadFaults = FALSE
  Conns = {c1, c2}
  TmpPath = {t1, t2}
  NoPath = NoPath
  Partial = Partial
  Requests <- MCArtifactRequests
  NoName = NoName
  Crashes = FALSE
SYMMETRY MCSymmetry
SPECIFICATION Spec
INVARIANTS NoDangling AckedIsServed StagedIsOwned
PROPERTIES AdoptedIsNamed ImplementsRegistry
