-------------------------- MODULE StoreNamesProofs --------------------------
(***************************************************************************)
(* What the operators on names return, for every set of packages,          *)
(* architectures and spelled releases.                                     *)
(***************************************************************************)
EXTENDS StoreNames, TLAPS

\* Canonicalisation yields a valid name: the store never emits a name that it
\* would refuse (store_canonical_name).
LEMMA CanonicalIsName ==
  ASSUME NEW n \in Name
  PROVE  Canonical(n) \in Name
<1>1. CanonicalRel(n) \in Rels
  BY NamesAssumption DEF Name, CanonicalRel, Unpadded, NoRel, FirstRel
<1>2. CanonicalRel(n).given => n.pkg \in Versioned
  BY NamesAssumption DEF Name, CanonicalRel, Unpadded, NoRel, FirstRel
<1> QED BY <1>1, <1>2 DEF Name, Canonical

\* Canonical form is a fixed point: both spellings of a name reach one entry,
\* and the entry's own spelling reaches it too (store_canonical_name).
LEMMA CanonicalIsFixpoint ==
  ASSUME NEW n \in Name
  PROVE  IsCanonical(Canonical(n))
<1>1. n.rel \in [given : BOOLEAN, pad : Nat, digits : Seq(STRING)]
  BY NamesAssumption DEF Name
<1>2. CASE n.rel.given
  <2>1. CanonicalRel(n) = Unpadded(n.rel)
    BY <1>2 DEF CanonicalRel
  <2>2. Canonical(n).rel = Unpadded(n.rel)
    BY <2>1 DEF Canonical, Name
  <2>3. Unpadded(Unpadded(n.rel)) = Unpadded(n.rel) /\ Unpadded(n.rel).given
    BY <1>1, <1>2 DEF Unpadded
  <2>4. CanonicalRel(Canonical(n)) = Unpadded(n.rel)
    BY <2>2, <2>3 DEF CanonicalRel
  <2> QED BY <2>2, <2>4 DEF IsCanonical, Canonical, Name
<1>3. CASE ~n.rel.given /\ n.pkg \in Versioned
  <2>1. Canonical(n) = [n EXCEPT !.rel = FirstRel]
    BY <1>3 DEF Canonical, CanonicalRel
  <2>2. CanonicalRel(Canonical(n)) = FirstRel
    BY <2>1 DEF CanonicalRel, Unpadded, FirstRel, Name
  <2> QED BY <2>1, <2>2 DEF IsCanonical, Canonical, Name
<1>4. CASE ~n.rel.given /\ n.pkg \notin Versioned
  <2>1. Canonical(n) = n
    BY <1>4 DEF Canonical, CanonicalRel, Name
  <2> QED BY <2>1 DEF IsCanonical
<1> QED BY <1>2, <1>3, <1>4

\* The signature's name of an artifact is a name, and canonicalising either of
\* the two produces the other's counterpart (store_signature_name).
LEMMA SignatureOfName ==
  ASSUME NEW n \in Name
  PROVE  /\ SignatureName(n) \in Name
         /\ Canonical(SignatureName(n)) = SignatureName(Canonical(n))
<1>1. SignatureName(n) \in Name
  BY DEF Name, SignatureName
<1>2. CanonicalRel(SignatureName(n)) = CanonicalRel(n)
  BY DEF Name, SignatureName, CanonicalRel
<1> QED BY <1>1, <1>2 DEF Canonical, SignatureName, Name

\* Stamping a name with an architecture yields a name (store_set_arch, and the
\* probes of store_resolve_as).
LEMMA StampIsName ==
  ASSUME NEW n \in Name, NEW a \in Arches \cup {NoArch}
  PROVE  Stamp(n, a) \in Name
BY DEF Name, Stamp

\* A lookup considers names only, its own among them.
LEMMA CandidatesAreNames ==
  ASSUME NEW c \in Name
  PROVE  Candidates(c) \subseteq Name /\ c \in Candidates(c)
BY StampIsName DEF Candidates

\* What a canonical name's lookup considers is canonical, so no rename of a
\* non-canonical entry takes a candidate away.
LEMMA CandidatesAreCanonical ==
  ASSUME NEW c \in Name, IsCanonical(c), NEW x \in Candidates(c)
  PROVE  IsCanonical(x)
<1>1. CASE x = c
  BY <1>1
<1>2. CASE \E a \in Arches : x = Stamp(c, a)
  <2>1. PICK a \in Arches : x = Stamp(c, a)
    BY <1>2
  <2>2. x.rel = c.rel /\ x.pkg = c.pkg
    BY <2>1 DEF Stamp, Name
  <2>3. CanonicalRel(x) = CanonicalRel(c)
    BY <2>2 DEF CanonicalRel
  <2>4. CanonicalRel(c) = c.rel
    BY DEF IsCanonical, Canonical, Name
  <2>5. x \in Name
    BY <2>1, StampIsName
  <2> QED BY <2>2, <2>3, <2>4, <2>5 DEF IsCanonical, Canonical, Name
<1> QED BY <1>1, <1>2 DEF Candidates

=============================================================================
