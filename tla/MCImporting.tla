---------------------------- MODULE MCImporting ----------------------------
(***************************************************************************)
(* Small instances of Importing for TLC.                                   *)
(***************************************************************************)
EXTENDS Importing, TLC

CONSTANTS ImportedPkg, PushedPkg

MCRels == {NoRel, FirstRel}

\* Artifacts of some packages; signatures are not needed here.
MCFiles == {n \in Name : n.pkg \in ImportedPkg /\ ~n.sig}

MCPushes == {n \in Name : n.pkg \in PushedPkg /\ ~n.sig}

MCSymmetry == Permutations(Digest)

=============================================================================
