\* Failing system calls and restarts, over a bare artifact and its
\* signature with and without an architecture.
CONSTANTS
  Pkg = {p}
  Versioned = {}
  RequireSig = {p}
  Arches = {x86_64}
  NoArch = NoArch
  Rels <- MCRels
  Digest = {d1, d2}
  None = None
  IOFaults = TRUE
  ReadFaults = FALSE
  Conns = {c1, c2}
  TmpPath = {t1, t2}
  NoPath = NoPath
  Partial = Partial
  Requests <- MCGateRequests
  NoName = NoName
  Crashes = TRUE
SYMMETRY MCSymmetry
SPECIFICATION Spec
INVARIANTS AckedIsServed SignedOrWithdrawn
PROPERTY ImplementsRegistry
