----------------------------- MODULE NamedStore -----------------------------
(***************************************************************************)
(* The store's directory with the names it really holds: texts of at most  *)
(* 255 bytes, rewritten by every call into buffers of that size.  Store    *)
(* and the modules above it take a name already read, of any length; this  *)
(* module is shown to implement Store, so that is sound, and it says where *)
(* the limit makes a difference.                                           *)
(***************************************************************************)
EXTENDS NameText

CONSTANTS
  Written,   \* the names that are written, on the wire and in the directory
  Digest,
  None,
  Parsed     \* what the parser makes of them: ParseAll, a record of tables

ASSUME WrittenAssumption ==
  /\ Written \subseteq Seq(ToSet(Bytes))
  /\ None \notin Digest

\* The names the store makes of a set of names, with the set.
WithCanonicals(S) == S \cup ({CanonicalText(t) : t \in S} \ {<<>>})

WithSignatures(S) == S \cup ({SignatureText(t) : t \in S} \ {<<>>})

WithStamps(S) ==
  S \cup {s \in {Stamped(t, a) : t \in {u \in S : ArchOf(StemOf(u)) = <<>>}, a \in Architectures} :
            Size(s) < STORE_NAME_MAX}

\* The valid names: every call begins with store_name_is_valid(), and the walk
\* passes over an entry that is not.  With all the names the store makes of
\* them, which are closed under making more.
ParsedTexts ==
  WithStamps(WithSignatures(WithCanonicals({t \in Written : IsValid(t)})))

(***************************************************************************)
(* Looking a name up.                                                      *)
(***************************************************************************)
\* snprintf() into a name buffer, its result NOT checked: the first 255
\* bytes.  A word cut in two ends no entry.
CutOff(t) ==
  LET fits == {n \in 0..Len(t) : Size(SubSeq(t, 1, n)) < STORE_NAME_MAX}
      kept == SubSeq(t, 1, Max(fits))
  IN IF kept = t \/ Size(kept) = STORE_NAME_MAX - 1 THEN kept ELSE <<>>

\* Mutant of Probed: only the bare entry.
MutProbedBare(c) == {c}

\* The entries store_resolve_as() looks for.
Probed(c) ==
  IF ArchOf(StemOf(c)) # <<>> THEN {c}
  ELSE {c} \cup {CutOff(Stamped(c, a)) : a \in Architectures}

(***************************************************************************)
(* How the names are parsed does not depend on the directory.  It is       *)
(* tabulated, and the tables are a constant of the module: TLC evaluates   *)
(* them once.                                                              *)
(***************************************************************************)
ParsedCanon == [t \in ParsedTexts |-> CanonicalText(t)]

ParsedSigOf == [t \in ParsedTexts |-> SignatureText(t)]

ParsedLooked ==
  [t \in ParsedTexts |->
     IF CanonicalText(t) = <<>> THEN {} ELSE Probed(CanonicalText(t))]

ParsedGated == {t \in ParsedTexts : NeedsSig(t)}

ParsedBare == {t \in ParsedTexts : ArchOf(StemOf(t)) = <<>>}

\* The name a text reads as, in the terms of Store.
Read(t) ==
  LET stem == WithoutArch(StemOf(t))
      rel  == ReleaseOf(stem)
  IN [pkg  |-> <<WithoutRelease(stem),
                 IF IsSignature(t) THEN SubSeq(SuffixOf(t), 1, Len(SuffixOf(t)) - Len(SigExt))
                 ELSE SuffixOf(t)>>,
      rel  |-> [given  |-> rel # <<>>,
                pad    |-> IF rel = <<>> THEN 0 ELSE Len(rel) - Len(SkipZeros(rel)),
                digits |-> IF rel = <<>> THEN <<>> ELSE SkipZeros(rel)],
      arch |-> IF ArchOf(StemOf(t)) = <<>> THEN "" ELSE ArchOf(StemOf(t))[1],
      sig  |-> IsSignature(t)]

ParsedReading == [t \in ParsedTexts |-> Read(t)]

\* The parts of a set of names, with the releases that occur in their
\* canonical forms.
PkgsOf(names) == {n.pkg : n \in names}

NoRelease == [given |-> FALSE, pad |-> 0, digits |-> <<>>]

FirstRelease == [given |-> TRUE, pad |-> 0, digits |-> <<"1">>]

RelsOf(names) ==
  LET spelled == {n.rel : n \in names}
  IN spelled \cup {[r EXCEPT !.pad = 0] : r \in spelled} \cup
       {NoRelease, FirstRelease}

ParsedVersioned == {p \in PkgsOf(Range(ParsedReading)) : HasVersion(p[1])}

\* The text each name is spelled as: <<>> for one that would be too long.
ParsedSpelling ==
  LET names == Range(ParsedReading)
      all   == [pkg : PkgsOf(names), rel : RelsOf(names), arch : Architectures \cup {""}, sig : BOOLEAN]
      text  == AntiFunction(ParsedReading)
  IN [n \in {m \in all : m.rel.given => m.pkg \in ParsedVersioned} |->
        IF n \in names THEN text[n] ELSE <<>>]

ParseAll ==
  [texts |-> ParsedTexts, canon |-> ParsedCanon, sigOf |-> ParsedSigOf,
   looked |-> ParsedLooked, gated |-> ParsedGated, bare |-> ParsedBare,
   reading |-> ParsedReading, versioned |-> ParsedVersioned,
   spelling |-> ParsedSpelling]

ASSUME ParsedAssumption == Parsed = ParseAll

Texts    == Parsed.texts
Canon    == Parsed.canon
SigOf    == Parsed.sigOf
Looked   == Parsed.looked
Gated    == Parsed.gated
Bare     == Parsed.bare
Reading  == Parsed.reading
Spelling == Parsed.spelling

VARIABLE dir  \* the digest each entry of packages/ points at

DirTypeOK ==
  /\ DOMAIN dir \subseteq Texts
  /\ \A t \in DOMAIN dir : IsValid(t) /\ dir[t] \in Digest

(***************************************************************************)
(* The calls.  Each is one step: the daemon is single threaded and the     *)
(* maintenance commands run offline.                                       *)
(***************************************************************************)
Resolve(t) ==
  LET found == {dir[x] : x \in Looked[t] \cap DOMAIN dir} IN
  IF Canon[t] = <<>> THEN "INVALID_NAME"
  ELSE IF found = {} THEN "NOT_FOUND"
  ELSE IF \E d, e \in found : d # e THEN "AMBIGUOUS"
  ELSE "OK"

\* begin_upload()'s gate: a suffix the policy names needs its signature first.
Accepts(t) == t \in Gated => SigOf[t] # <<>> /\ Resolve(SigOf[t]) = "OK"

\* store_publish() leaves the directory alone unless the name means nothing.
Publish(t, d) ==
  /\ Accepts(t)
  /\ Resolve(t) = "NOT_FOUND"
  /\ dir' = [x \in {Canon[t]} \cup DOMAIN dir |-> IF x = Canon[t] THEN d ELSE dir[x]]

Without(S) == [x \in DOMAIN dir \ S |-> dir[x]]

\* Mutant of UnpublishedTexts: only the signature spelled with the caller's
\* own spelling is removed.
MutUnpublishedTexts(t) == {SigOf[t], Canon[t]}

\* The entries store_unpublish() unlinks: the signature's, made from the
\* CALLER's spelling, then the artifact's.
UnpublishedTexts(t) ==
  {Canon[t]} \cup (IF SigOf[t] = <<>> THEN {} ELSE {Canon[SigOf[t]]})

Unpublish(t) ==
  /\ Canon[t] # <<>>
  /\ UnpublishedTexts(t) \cap DOMAIN dir # {}
  /\ dir' = Without(UnpublishedTexts(t))

\* The directory after the renames move: move[to] is the entry renamed to
\* to, which is free.
Renamed(move) ==
  [x \in (DOMAIN dir \ Range(move)) \cup DOMAIN move |->
     IF x \in DOMAIN move THEN dir[move[x]] ELSE dir[x]]

\* The entries store_canonicalize() would rename to c: one that has no
\* canonical form is passed over.
SourcesFor(c) == {t \in DOMAIN dir : t # c /\ Canon[t] = c}

\* Among several spellings of one free name the first one read gets it.
Canonicalize ==
  LET to == {c \in Texts \ DOMAIN dir : SourcesFor(c) # {}} IN
  /\ to # {}
  /\ \E move \in [to -> DOMAIN dir] :
       /\ \A c \in to : move[c] \in SourcesFor(c)
       /\ dir' = Renamed(move)

\* What collect_archless() keeps.
Archless == DOMAIN dir \cap Bare

\* The names store_set_arch() renames to: those that fit and are free.
StampTargets(arch) ==
  {s \in {Stamped(t, arch) : t \in Archless} : s \notin DOMAIN dir /\ Size(s) < STORE_NAME_MAX}

SetArch(arch) ==
  LET to == StampTargets(arch) IN
  /\ to # {}
  /\ dir' = Renamed([s \in to |-> WithoutArch(StemOf(s)) \o SuffixOf(s)])

\* A directory an older release may have left: any spellings.
DirInit == dir \in UNION {[S -> Digest] : S \in SUBSET Texts}

DirNext ==
  \/ \E t \in Texts, d \in Digest : Publish(t, d)
  \/ \E t \in Texts : Unpublish(t)
  \/ Canonicalize
  \/ \E a \in Architectures : SetArch(a)

DirSpec == DirInit /\ [][DirNext]_dir

(***************************************************************************)
(* The abstraction: the directory Store sees.                              *)
(***************************************************************************)
ReadDir ==
  [n \in DOMAIN Spelling |-> IF Spelling[n] \in DOMAIN dir THEN dir[Spelling[n]] ELSE None]

Abstract == INSTANCE Store WITH
  Pkg <- PkgsOf(Range(Reading)),
  Versioned <- Parsed.versioned,
  RequireSig <- {p \in PkgsOf(Range(Reading)) : p[2] \in RequireExt},
  Arches <- Architectures,
  NoArch <- "",
  Rels <- RelsOf(Range(Reading)),
  IOFaults <- TRUE,
  ReadFaults <- FALSE,
  blobs <- Digest,
  link <- ReadDir,
  file <- [n \in DOMAIN Spelling |-> None]

(***************************************************************************)
(* Properties.                                                             *)
(***************************************************************************)

\* The store of texts implements the store of names: every publish, delete
\* and rename, parsed out of a string and written into a buffer of 256 bytes,
\* does to the directory what Store says, or does nothing because the name
\* does not fit.  A rename that is refused for its length is one of those
\* Store lets fail.
ImplementsStore == Abstract!StoreSpec

\* One file, one artifact: two entries of the directory never read as the
\* same name, and the canonical form of an entry that has one is a valid name
\* that is its own canonical form, so a rename to it ends the migration and
\* leaves the entry reachable ("Closure beats totality").
CanonicalIsClosed ==
  /\ \A t, u \in DOMAIN dir : Reading[t] = Reading[u] => t = u
  /\ \A t \in DOMAIN dir : LET c == Canon[t] IN
       c # <<>> => c \in Texts /\ IsValid(c) /\ Canon[c] = c

\* Where no probe is cut off, a lookup of the text answers what Store answers
\* for the name it reads as.
Whole ==
  {t \in Texts :
     /\ Canon[t] # <<>>
     /\ Canon[t] \in Bare => \A a \in Architectures : Size(Stamped(Canon[t], a)) < STORE_NAME_MAX}

LookupsAgree == \A t \in Whole : Resolve(t) = Abstract!ResolveError(Reading[t])

(***************************************************************************)
(* What comments say, and the code does not do.                            *)
(***************************************************************************)

\* "an alias-named delete removes the canonically named signature rather than
\* missing it" (store_unpublish()): no delete takes an artifact and leaves the
\* signature of the same name behind.
DeleteTakesSignature ==
  [][\A t \in Texts : Unpublish(t) =>
       {Canon[t], SigOf[Canon[t]]} \cap DOMAIN dir' = {}]_dir

=============================================================================
