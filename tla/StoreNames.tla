----------------------------- MODULE StoreNames -----------------------------
(***************************************************************************)
(* The published names of the artifact store (src/store.c).                *)
(*                                                                         *)
(* A name is read the way the store reads it: the package identity (base   *)
(* name, version and suffix), the release exactly as it was SPELLED, the   *)
(* architecture if one is spelled, and whether the suffix is the           *)
(* signature's.  What a release looks like on the wire matters, because    *)
(* two spellings of one release are two file names: it is kept as the      *)
(* number of leading zeros and the digits that follow them.                *)
(***************************************************************************)
EXTENDS Naturals, Sequences

CONSTANTS
  Pkg,          \* package identities: <base>-<version> and artifact suffix
  Versioned,    \* those whose base ends in a component with a digit
  RequireSig,   \* those whose suffix the signature policy names
  Arches,       \* the architecture whitelist
  NoArch,       \* the architecture of a name that spells none
  Rels          \* the spelled releases that occur

\* A name that spells no release.
NoRel == [given |-> FALSE, pad |-> 0, digits |-> <<>>]

\* The release a bare version stands for, spelled "-1".
FirstRel == [given |-> TRUE, pad |-> 0, digits |-> <<"1">>]

\* A spelled release without its leading zeros; the last digit is never
\* skipped, so "-000" has pad 2 and becomes "-0".
Unpadded(r) == [r EXCEPT !.pad = 0]

ASSUME NamesAssumption ==
  /\ Versioned \subseteq Pkg
  /\ RequireSig \subseteq Pkg
  /\ NoArch \notin Arches
  /\ Rels \subseteq [given : BOOLEAN, pad : Nat, digits : Seq(STRING)]
  /\ {NoRel, FirstRel} \subseteq Rels
  /\ \A r \in Rels : r.given => Unpadded(r) \in Rels
  /\ \A r \in Rels : ~r.given => r = NoRel

\* Every valid name.  A release is a revision of a version: after a base
\* without a version the same digits would be read as the version.
Name ==
  {n \in [pkg : Pkg, rel : Rels, arch : Arches \cup {NoArch}, sig : BOOLEAN] :
     n.rel.given => n.pkg \in Versioned}

HasArch(n) == n.arch # NoArch

CanonicalRel(n) ==
  IF n.rel.given THEN Unpadded(n.rel)
  ELSE IF n.pkg \in Versioned THEN FirstRel ELSE n.rel

\* The one spelling under which an entry is stored.  An architecture is
\* carried through and never added.
Canonical(n) == [n EXCEPT !.rel = CanonicalRel(n)]

IsCanonical(n) == Canonical(n) = n

\* The policy's table is looked up by suffix; a signature's suffix is never
\* in it (ext_is_signature), so no signature needs a signature.
NeedsSignature(n) == n.pkg \in RequireSig /\ ~n.sig

\* Only an artifact has a signature name.
HasSignatureName(n) == ~n.sig

SignatureName(n) == [n EXCEPT !.sig = TRUE]

Stamp(n, a) == [n EXCEPT !.arch = a]

\* The entries a lookup of canonical name c considers: a name that spells an
\* architecture means that one alone; a bare one is matched against the bare
\* entry and each known architecture.
Candidates(c) ==
  IF HasArch(c) THEN {c} ELSE {c} \cup {Stamp(c, a) : a \in Arches}

=============================================================================
