------------------------------ MODULE MCStore ------------------------------
(***************************************************************************)
(* Small instances of Store for TLC.                                       *)
(***************************************************************************)
EXTENDS Store, TLC

\* No release and "-1": the alias and the canonical spelling.
MCRels == {NoRel, FirstRel}

\* And "-01", a second spelling that is not canonical.
MCPaddedRels == {NoRel, FirstRel, [FirstRel EXCEPT !.pad = 1]}

MCEverything == Name

MCArtifacts == {n \in Name : ~n.sig}

CONSTANTS
  Entries,    \* the names that are published
  MaxLegacy   \* the most entries in the directory to begin with

MCInit ==
  /\ StoreInit
  /\ Cardinality({n \in Name : link[n] # None}) <= MaxLegacy
  /\ \A n \in Name \ Entries : link[n] = None

MCNext ==
  \/ \E n \in Entries, d \in Digest : AdoptAndPublish(n, d)
  \/ \E n \in Name : Unpublish(n)
  \/ Collect
  \/ Canonicalize
  \/ \E a \in Arches : SetArch(a)

MCSpec == MCInit /\ [][MCNext]_storeVars

MCSymmetry == Permutations(Digest)

=============================================================================
