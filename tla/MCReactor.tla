----------------------------- MODULE MCReactor -----------------------------
(***************************************************************************)
(* Small instances of Reactor for TLC.                                     *)
(***************************************************************************)
EXTENDS Reactor, TLC

MCRels == {NoRel, FirstRel}

\* An artifact asked for under a bare spelling without release, and under its
\* full name for each architecture.
MCArtifactRequests ==
  {n \in Name : ~n.sig /\ (HasArch(n) <=> n.rel.given)}

\* Every canonical name: artifacts and signatures.
MCCanonicalRequests == {n \in Name : IsCanonical(n)}

\* A bare artifact, and its signature with and without an architecture.
MCGateRequests == {n \in Name : IsCanonical(n) /\ (HasArch(n) => n.sig)}

\* Connections, staging paths and digests are interchangeable.
MCSymmetry ==
  Permutations(Conns) \cup Permutations(TmpPath) \cup Permutations(Digest)

=============================================================================
