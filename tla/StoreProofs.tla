---------------------------- MODULE StoreProofs ----------------------------
(***************************************************************************)
(* The store's calls keep its directories well formed and its links        *)
(* whole, for every set of names and digests, whether or not system calls  *)
(* fail.                                                                   *)
(***************************************************************************)
EXTENDS Store, StoreNamesProofs, FiniteSetTheorems

StoreInv == StoreTypeOK /\ (~ReadFaults => NoDangling)

\* What a lookup finds are digests.
LEMMA HitsAreDigests ==
  ASSUME StoreTypeOK, NEW c \in Name
  PROVE  Hits(c) \subseteq Digest
BY CandidatesAreNames DEF StoreTypeOK, Hits, Found

\* A name that resolves has one meaning: every candidate that is published
\* points at it (store_resolve_as).
LEMMA MeaningIsHit ==
  ASSUME StoreTypeOK, NEW n \in Name, ResolveError(n) = "OK"
  PROVE  /\ Meaning(n) \in Digest
         /\ Hits(Canonical(n)) = {Meaning(n)}
<1>1. Canonical(n) \in Name
  BY CanonicalIsName
<1>2. Hits(Canonical(n)) # {} /\ \A d, e \in Hits(Canonical(n)) : d = e
  BY DEF ResolveError, LookupError, Hits
<1>3. PICK h \in Digest : h \in Hits(Canonical(n))
  BY <1>1, <1>2, HitsAreDigests
<1>4. Meaning(n) \in Digest /\ Meaning(n) \in Hits(Canonical(n))
  BY <1>3 DEF Meaning
<1> QED BY <1>2, <1>4

\* A name that is not found has no candidate that is published.
LEMMA NotFoundIsFree ==
  ASSUME NEW n \in Name, ResolveError(n) = "NOT_FOUND"
  PROVE  /\ \A x \in Candidates(Canonical(n)) : link[x] = None
         /\ file[Canonical(n)] = None
BY DEF ResolveError, Hits, LookupError, Found

\* A lookup that answers so has read the canonical entry, and found nothing,
\* whichever others it could not read.
LEMMA LookupNotFound ==
  ASSUME NEW n \in Name, NEW U, LookupError(n, U) = "NOT_FOUND"
  PROVE  link[Canonical(n)] = None /\ file[Canonical(n)] = None
<1>1. Canonical(n) \in Candidates(Canonical(n))
  BY CanonicalIsName, CandidatesAreNames
<1>. QED  BY <1>1 DEF LookupError, Found

\* store_publish() changes the directory only by adding an entry, for a blob
\* that is there.
LEMMA PublishedLinkIsSound ==
  ASSUME StoreInv, NEW n \in Name, NEW d \in Digest, NEW U
  PROVE  /\ PublishedLink(blobs \cup {d}, n, d, U) \in [Name -> Digest \cup {None}]
         /\ NoDangling => \A m \in Name : PublishedLink(blobs \cup {d}, n, d, U)[m] # None =>
              PublishedLink(blobs \cup {d}, n, d, U)[m] \in blobs \cup {d}
<1>1. Canonical(n) \in Name
  BY CanonicalIsName
<1> QED BY <1>1 DEF StoreInv, StoreTypeOK, NoDangling, PublishedLink

\* unlink() of any entries leaves the others as they are.
LEMMA UnlinkIsSound ==
  ASSUME StoreInv, NEW S \in SUBSET Name, Unlink(S), UNCHANGED blobs
  PROVE  StoreInv'
BY DEF StoreInv, StoreTypeOK, NoDangling, Unlink

\* The entries store_unpublish() unlinks have valid names.
LEMMA SignatureTargetIsNames ==
  ASSUME NEW n \in Name
  PROVE  SignatureTarget(n) \subseteq Name /\ UnpublishTargets(n) \subseteq Name
BY CanonicalIsName, SignatureOfName DEF SignatureTarget, UnpublishTargets

\* store_unpublish(), whole or stopped between its two unlinks, leaves no
\* dangling entry.
LEMMA UnpublishIsSound ==
  ASSUME StoreInv, NEW n \in Name, Unpublish(n)
  PROVE  StoreInv'
<1>1. PICK S \in {UnpublishTargets(n), {}, SignatureTarget(n)} : Unlink(S)
  BY DEF Unpublish
<1>2. S \in SUBSET Name
  BY SignatureTargetIsNames
<1> QED BY <1>1, <1>2, UnlinkIsSound DEF Unpublish

\* The collector removes nothing that an entry points at, wherever it stops, if
\* its walk can read the directory.
LEMMA CollectIsSound ==
  ASSUME StoreInv, Collect
  PROVE  StoreInv'
<1>1. PICK U \in Unread(Linked) : \E B \in Doable(blobs \ Live(U)) : blobs' = blobs \ B
  BY DEF Collect
<1>2. PICK B \in Doable(blobs \ Live(U)) : blobs' = blobs \ B
  BY <1>1
<1>2a. B \subseteq blobs \ Live(U)
  BY DEF Doable
<1>3. UNCHANGED <<link, file>>
  BY DEF Collect
<1>4. ~ReadFaults => \A n \in Name : link[n] # None => link[n] \in Live(U)
  BY DEF Live, Unread
<1> QED BY <1>2, <1>2a, <1>3, <1>4 DEF StoreInv, StoreTypeOK, NoDangling

\* store_canonicalize() moves targets from entry to entry and makes none up.
LEMMA CanonicalizeIsSound ==
  ASSUME StoreInv, Canonicalize
  PROVE  StoreInv'
<1>1. PICK T \in Doable({c \in Name : SourcesOf(c) # {} /\ ~Present(c)}) :
        \E winner \in [T -> Noncanonical] : link' = CanonicalizedLink(winner)
  BY DEF Canonicalize
<1>2. PICK winner \in [T -> Noncanonical] : link' = CanonicalizedLink(winner)
  BY <1>1
<1>3. \A n \in T : winner[n] \in Name
  BY <1>2 DEF Noncanonical
<1>4. \A n \in Name : CanonicalizedLink(winner)[n] \in {link[m] : m \in Name} \cup {None}
  BY <1>2, <1>3 DEF CanonicalizedLink
<1>5. link' \in [Name -> {link[m] : m \in Name} \cup {None}]
  BY <1>2, <1>4 DEF CanonicalizedLink
<1>6. UNCHANGED <<blobs, file>>
  BY DEF Canonicalize
<1> QED BY <1>5, <1>6 DEF StoreInv, StoreTypeOK, NoDangling

\* store_set_arch() moves targets from entry to entry and makes none up.
LEMMA SetArchIsSound ==
  ASSUME StoreInv, NEW a \in Arches, SetArch(a)
  PROVE  StoreInv'
<1>1. \A n \in Name : Stamp(n, NoArch) \in Name
  BY StampIsName
<1>2. link' \in [Name -> {link[m] : m \in Name} \cup {None}]
  BY <1>1 DEF SetArch
<1>3. UNCHANGED <<blobs, file>>
  BY DEF SetArch
<1> QED BY <1>2, <1>3 DEF StoreInv, StoreTypeOK, NoDangling

\* store_blob_adopt() and store_publish() name a blob that is there, whichever
\* of the two fails.
LEMMA AdoptAndPublishIsSound ==
  ASSUME StoreInv, NEW n \in Name, NEW d \in Digest, AdoptAndPublish(n, d)
  PROVE  StoreInv'
<1>1. CASE blobs' = blobs \cup {d} /\ \E U \in Readings(n) : link' = PublishedLink(blobs \cup {d}, n, d, U)
  <2>1. PICK U \in Readings(n) : link' = PublishedLink(blobs \cup {d}, n, d, U)
    BY <1>1
  <2>2. link' \in [Name -> Digest \cup {None}]
    BY <2>1, PublishedLinkIsSound DEF StoreInv
  <2> QED BY <1>1, <2>1, <2>2, PublishedLinkIsSound DEF AdoptAndPublish, StoreInv, StoreTypeOK, NoDangling
<1>2. CASE blobs' \in {blobs, blobs \cup {d}} /\ UNCHANGED link
  BY <1>2 DEF AdoptAndPublish, StoreInv, StoreTypeOK, NoDangling
<1> QED BY <1>1, <1>2 DEF AdoptAndPublish

\* Every library call keeps the directories well formed, whatever fails, and
\* the links whole as long as the directory can be read.
THEOREM StoreIsSound == StoreSpec => []StoreInv
<1>1. StoreInit => StoreInv
  BY DigestAssumption DEF StoreInit, StoreInv, StoreTypeOK, NoDangling
<1>2. StoreInv /\ [StoreNext]_storeVars => StoreInv'
  <2> SUFFICES ASSUME StoreInv, [StoreNext]_storeVars PROVE StoreInv'
    OBVIOUS
  <2>1. ASSUME NEW n \in Name, NEW d \in Digest, AdoptAndPublish(n, d) PROVE StoreInv'
    BY <2>1, AdoptAndPublishIsSound
  <2>2. ASSUME NEW n \in Name, Unpublish(n) PROVE StoreInv'
    BY <2>2, UnpublishIsSound
  <2>3. CASE Collect
    BY <2>3, CollectIsSound
  <2>4. CASE Canonicalize
    BY <2>4, CanonicalizeIsSound
  <2>5. ASSUME NEW a \in Arches, SetArch(a) PROVE StoreInv'
    BY <2>5, SetArchIsSound
  <2>6. CASE UNCHANGED storeVars
    BY <2>6 DEF storeVars, StoreInv, StoreTypeOK, NoDangling
  <2> QED BY <2>1, <2>2, <2>3, <2>4, <2>5, <2>6 DEF StoreNext
<1> QED BY <1>1, <1>2, PTL DEF StoreSpec

\* No sequence of library calls leaves a dangling link: store_publish() names
\* only blobs that are there, the renames keep what entries point at, and
\* store_gc() frees nothing the walk of the literal names has seen.  The last
\* needs a walk that can read the directory: hence the hypothesis.
THEOREM StoreNeverDangles == ASSUME ~ReadFaults PROVE StoreSpec => [](StoreTypeOK /\ NoDangling)
<1>1. StoreInv => StoreTypeOK /\ NoDangling
  BY DEF StoreInv
<1> QED BY <1>1, StoreIsSound, PTL

(***************************************************************************)
(* A name that resolves goes on meaning the same.  The argument: no call   *)
(* but a delete takes a digest away from what a lookup finds, so the       *)
(* lookup finds the old digest, alone or among others.                     *)
(***************************************************************************)
\* A lookup that finds at least the digests it found before resolves to the
\* same bytes, or is ambiguous (store_resolve_as).
LEMMA MoreHitsKeep ==
  ASSUME StoreTypeOK, StoreTypeOK', NEW n \in Name,
         file'[Canonical(n)] = file[Canonical(n)],
         Hits(Canonical(n)) \subseteq Hits(Canonical(n))'
  PROVE  Keeps(n)
<1> SUFFICES ASSUME ResolveError(n) = "OK", ResolveError(n)' # "AMBIGUOUS"
             PROVE  ResolveError(n)' = "OK" /\ Meaning(n)' = Meaning(n)
  BY DEF Keeps
<1> DEFINE c == Canonical(n)
<1>1. c \in Name
  BY CanonicalIsName
<1>2. Meaning(n) \in Digest /\ Hits(c) = {Meaning(n)}
  BY MeaningIsHit
<1>3. file'[c] = None
  BY DEF ResolveError, LookupError, Hits
<1>4. Meaning(n) \in Hits(c)'
  BY <1>2
<1>5. \A d, e \in Hits(c)' : d = e
  BY <1>3, <1>4 DEF ResolveError, LookupError, Hits
<1>6. ResolveError(n)' = "OK"
  BY <1>3, <1>4, <1>5 DEF ResolveError, LookupError, Hits
<1>7. Hits(c)' = {Meaning(n)}
  BY <1>4, <1>5
<1>8. Meaning(n)' = CHOOSE d \in Digest : d \in Hits(c)'
  BY DEF Meaning
<1>9. Meaning(n)' \in Hits(c)'
  BY <1>2, <1>7, <1>8
<1> QED BY <1>6, <1>7, <1>9

\* store_publish() fills a free entry and overwrites none.
LEMMA PublishKeeps ==
  ASSUME StoreInv, StoreInv', NEW m \in Name, NEW d \in Digest, AdoptAndPublish(m, d),
         NEW n \in Name
  PROVE  Keeps(n)
<1>1. \A x \in Name : link[x] # None => link'[x] = link[x]
  <2>1. ASSUME NEW U, link' = PublishedLink(blobs \cup {d}, m, d, U)
        PROVE  \A x \in Name : link[x] # None => link'[x] = link[x]
    <3>1. CASE LookupError(m, U) = "NOT_FOUND"
      <4>1. Canonical(m) \in Name /\ link[Canonical(m)] = None
        BY <3>1, LookupNotFound, CanonicalIsName
      <4> QED BY <2>1, <4>1 DEF PublishedLink, StoreInv, StoreTypeOK
    <3>2. CASE LookupError(m, U) # "NOT_FOUND"
      BY <2>1, <3>2 DEF PublishedLink
    <3> QED BY <3>1, <3>2
  <2>2. CASE UNCHANGED link
    BY <2>2
  <2> QED BY <2>1, <2>2 DEF AdoptAndPublish
<1>2. Hits(Canonical(n)) \subseteq Hits(Canonical(n))'
  BY <1>1, CanonicalIsName, CandidatesAreNames DEF Hits, Found
<1> QED BY <1>2, MoreHitsKeep DEF AdoptAndPublish, StoreInv

\* store_unpublish() disturbs only names that its targets could answer.
LEMMA UnpublishKeepsOrWithdraws ==
  ASSUME StoreInv, StoreInv', NEW m \in Name, Unpublish(m), NEW n \in Name
  PROVE  Keeps(n) \/ Withdraws(n)
<1> SUFFICES ASSUME UnpublishTargets(m) \cap Candidates(Canonical(n)) = {}
             PROVE  Keeps(n)
  BY DEF Withdraws
<1>1. PICK S \in {UnpublishTargets(m), {}, SignatureTarget(m)} : Unlink(S)
  BY DEF Unpublish
<1>2. S \cap Candidates(Canonical(n)) = {}
  BY DEF UnpublishTargets
<1>3. Canonical(n) \in Name /\ Candidates(Canonical(n)) \subseteq Name
      /\ Canonical(n) \in Candidates(Canonical(n))
  BY CanonicalIsName, CandidatesAreNames
<1>4. \A x \in Candidates(Canonical(n)) : link'[x] = link[x] /\ file'[x] = file[x]
  BY <1>1, <1>2, <1>3 DEF Unlink
<1>5. Hits(Canonical(n)) \subseteq Hits(Canonical(n))'
  BY <1>4 DEF Hits, Found
<1> QED BY <1>3, <1>4, <1>5, MoreHitsKeep DEF StoreInv

\* store_canonicalize() takes away only entries no lookup considers: they are
\* not canonical.
LEMMA CanonicalizeKeeps ==
  ASSUME StoreInv, StoreInv', Canonicalize, NEW n \in Name
  PROVE  Keeps(n)
<1> DEFINE Free == {c \in Name : SourcesOf(c) # {} /\ ~Present(c)}
<1>1. PICK T \in Doable(Free) :
        \E winner \in [T -> Noncanonical] : link' = CanonicalizedLink(winner)
  BY DEF Canonicalize
<1>2. PICK winner \in [T -> Noncanonical] : link' = CanonicalizedLink(winner)
  BY <1>1
<1>3. T \subseteq Free
  BY DEF Doable
<1>4. Canonical(n) \in Name /\ Candidates(Canonical(n)) \subseteq Name
  BY CanonicalIsName, CandidatesAreNames
<1>5. ASSUME NEW x \in Candidates(Canonical(n)), link[x] # None PROVE link'[x] = link[x]
  <2>1. IsCanonical(x)
    BY <1>4, CanonicalIsFixpoint, CandidatesAreCanonical
  <2>2. x \notin T
    BY <1>3, <1>5 DEF Present
  <2>3. \A c \in T : winner[c] # x
    BY <1>2, <2>1 DEF Noncanonical
  <2> QED BY <1>2, <1>4, <2>2, <2>3 DEF CanonicalizedLink
<1>6. Hits(Canonical(n)) \subseteq Hits(Canonical(n))'
  BY <1>5 DEF Hits, Found
<1> QED BY <1>6, MoreHitsKeep DEF Canonicalize, StoreInv

\* store_set_arch() moves a bare entry to a name that answers the same bare
\* lookups.
LEMMA SetArchKeeps ==
  ASSUME StoreInv, StoreInv', NEW a \in Arches, SetArch(a), NEW n \in Name
  PROVE  Hits(Canonical(n)) \subseteq Hits(Canonical(n))'
<1> DEFINE c == Canonical(n)
<1>1. PICK S \in Doable(Stampable(a)) :
        link' = [x \in Name |->
                   IF x \in S THEN None
                   ELSE IF x.arch = a /\ Stamp(x, NoArch) \in S
                        THEN link[Stamp(x, NoArch)] ELSE link[x]]
  BY DEF SetArch
<1>2. S \subseteq Stampable(a)
  BY DEF Doable
<1>3. c \in Name /\ Candidates(c) \subseteq Name /\ a # NoArch
  BY CanonicalIsName, CandidatesAreNames, NamesAssumption
<1>4. \A x \in Name : x.arch = a /\ link[x] # None => Stamp(x, NoArch) \notin S
  <2> SUFFICES ASSUME NEW x \in Name, x.arch = a, link[x] # None, Stamp(x, NoArch) \in S
               PROVE  FALSE
    OBVIOUS
  <2>1. Stamp(Stamp(x, NoArch), a) = x
    BY DEF Stamp, Name
  <2> QED BY <1>2, <2>1 DEF Stampable, Present
<1>5. ASSUME NEW x \in Candidates(c), link[x] # None PROVE link[x] \in Hits(c)'
  <2>1. x \in Name
    BY <1>3
  <2>2. CASE x \notin S
    <3>1. link'[x] = link[x]
      BY <1>1, <1>4, <1>5, <2>1, <2>2
    <3> QED BY <1>5, <3>1 DEF Hits, Found
  <2>3. CASE x \in S
    <3>1. ~HasArch(x) /\ ~Present(Stamp(x, a))
      BY <1>2, <2>3 DEF Stampable
    <3>2. x = c
      BY <3>1, <1>3, NamesAssumption DEF Candidates, HasArch, Stamp, Name
    <3>3. Stamp(c, a) \in Candidates(c) /\ Stamp(c, a) \in Name
      BY <1>3, <3>1, <3>2 DEF Candidates
    <3>4. Stamp(c, a).arch = a /\ Stamp(Stamp(c, a), NoArch) = c
      BY <1>3, <3>1, <3>2 DEF Stamp, Name, HasArch
    <3>5. Stamp(c, a) \notin S
      BY <1>2, <1>3, <3>4 DEF Stampable, HasArch
    <3>6. link'[Stamp(c, a)] = link[x]
      BY <1>1, <2>3, <3>2, <3>3, <3>4, <3>5
    <3> QED BY <1>5, <3>3, <3>6 DEF Hits, Found
  <2> QED BY <2>2, <2>3
<1> QED BY <1>5 DEF Hits, Found

\* A published name means one byte sequence: as long as no delete reaches an
\* entry that could answer for it, it resolves to the bytes it resolved to, or
\* is refused as ambiguous, whatever is pushed, collected or renamed.
THEOREM MeaningNeverChanges == StoreSpec => MeaningIsStable
<1>1. StoreInv /\ StoreInv' /\ [StoreNext]_storeVars
        => [\A n \in Name : Keeps(n) \/ Withdraws(n)]_storeVars
  <2> SUFFICES ASSUME StoreInv, StoreInv', StoreNext, NEW n \in Name
               PROVE  Keeps(n) \/ Withdraws(n)
    OBVIOUS
  <2>1. ASSUME NEW m \in Name, NEW d \in Digest, AdoptAndPublish(m, d) PROVE Keeps(n)
    BY <2>1, PublishKeeps
  <2>2. ASSUME NEW m \in Name, Unpublish(m) PROVE Keeps(n) \/ Withdraws(n)
    BY <2>2, UnpublishKeepsOrWithdraws
  <2>3. CASE Collect
    BY <2>3, MoreHitsKeep DEF Collect, Hits, StoreInv, Found
  <2>4. CASE Canonicalize
    BY <2>4, CanonicalizeKeeps
  <2>5. ASSUME NEW a \in Arches, SetArch(a) PROVE Keeps(n)
    BY <2>5, SetArchKeeps, MoreHitsKeep DEF SetArch, StoreInv
  <2> QED BY <2>1, <2>2, <2>3, <2>4, <2>5 DEF StoreNext
<1>2. StoreSpec => []StoreInv
  BY StoreIsSound
<1> QED BY <1>1, <1>2, PTL DEF StoreSpec, MeaningIsStable

\* store_set_arch() gives a bare lookup nothing that it did not find before.
LEMMA SetArchAddsNoHit ==
  ASSUME StoreInv, NEW a \in Arches, SetArch(a), NEW n \in Name, ~HasArch(n)
  PROVE  Hits(Canonical(n))' \subseteq Hits(Canonical(n))
<1> DEFINE c == Canonical(n)
<1>1. c \in Name /\ c.arch = NoArch /\ Candidates(c) \subseteq Name /\ c \in Candidates(c)
  BY CanonicalIsName, CandidatesAreNames DEF Canonical, HasArch, Name
<1>2. ASSUME NEW x \in Candidates(c), link'[x] # None PROVE link'[x] \in Hits(c)
  <2>1. link'[x] \in {link[x], link[Stamp(x, NoArch)]}
    BY <1>1, <1>2 DEF SetArch
  <2>2. Stamp(x, NoArch) = c
    <3>1. CASE x = c
      BY <1>1, <3>1 DEF Stamp, Name
    <3>2. ASSUME NEW b \in Arches, x = Stamp(c, b) PROVE Stamp(x, NoArch) = c
      BY <1>1, <3>2 DEF Stamp, Name
    <3> QED BY <1>1, <3>1, <3>2 DEF Candidates, HasArch
  <2> QED BY <1>1, <1>2, <2>1, <2>2 DEF Hits, Found
<1> QED BY <1>2 DEF Hits, Found

\* Stamping is invisible to requesters: a bare name answers after
\* store_set_arch() as it did before it, error for error and byte for byte,
\* wherever renames were skipped or failed.
THEOREM StampingNeverShows == StoreSpec => StampingIsInvisible
<1> DEFINE Invisible ==
      \A a \in Arches : SetArch(a) =>
        \A n \in Name : ~HasArch(n) =>
          /\ ResolveError(n)' = ResolveError(n)
          /\ ResolveError(n) = "OK" => Meaning(n)' = Meaning(n)
<1>1. StoreInv /\ StoreInv' => Invisible
  <2> SUFFICES ASSUME StoreInv, StoreInv', NEW a \in Arches, SetArch(a),
                      NEW n \in Name, ~HasArch(n)
               PROVE  ResolveError(n)' = ResolveError(n) /\ Meaning(n)' = Meaning(n)
    OBVIOUS
  <2>1. Hits(Canonical(n))' = Hits(Canonical(n))
    BY SetArchKeeps, SetArchAddsNoHit
  <2>2. file' = file
    BY DEF SetArch
  <2> QED BY <2>1, <2>2 DEF ResolveError, Meaning, LookupError, Hits
<1>2. StoreInv /\ StoreInv' => [Invisible]_storeVars
  BY <1>1
<1>3. StoreSpec => []StoreInv
  BY StoreIsSound
<1> QED BY <1>2, <1>3, PTL DEF StampingIsInvisible


\* Where every entry for digest d has a place of its own after a step, and
\* every entry for it came from one, the step keeps their number.
LEMMA MovesKeepNumber ==
  ASSUME IsFiniteSet(Name), NEW d \in Digest, NEW to \in [Name -> Name], NEW from \in [Name -> Name],
         \A n \in Name : link[n] = d => link'[to[n]] = d /\ from[to[n]] = n,
         \A n \in Name : link'[n] = d => link[from[n]] = d /\ to[from[n]] = n
  PROVE  Cardinality({n \in Name : link[n] = d}) = Cardinality({n \in Name : link'[n] = d})
<1> DEFINE Before == {n \in Name : link[n] = d}
           After  == {n \in Name : link'[n] = d}
           move   == [n \in Before |-> to[n]]
<1>1. move \in [Before -> After]
  OBVIOUS
<1>2. \A m, n \in Before : move[m] = move[n] => m = n
  OBVIOUS
<1>3. \A n \in After : \E m \in Before : move[m] = n
  <2> SUFFICES ASSUME NEW n \in After PROVE \E m \in Before : move[m] = n
    OBVIOUS
  <2>1. from[n] \in Before /\ move[from[n]] = n
    OBVIOUS
  <2> QED BY <2>1
<1>4. ExistsBijection(Before, After)
  <2> HIDE DEF Before, After, move
  <2> QED BY <1>1, <1>2, <1>3
          DEF ExistsBijection, Bijection, Injection, Surjection, IsInjective
<1>5. IsFiniteSet(Before)
  BY FS_Subset
<1> HIDE DEF Before, After
<1>6. Cardinality(After) = Cardinality(Before)
  BY <1>4, <1>5, FS_Bijection
<1> QED BY <1>6 DEF Before, After

\* store_canonicalize(): the winner of a free canonical name goes there.
LEMMA CanonicalizeKeepsNumber ==
  ASSUME StoreInv, IsFiniteSet(Name), Canonicalize, NEW d \in Digest
  PROVE  Cardinality({n \in Name : link[n] = d}) = Cardinality({n \in Name : link'[n] = d})
<1> DEFINE Free == {c \in Name : SourcesOf(c) # {} /\ ~Present(c)}
<1>1. PICK T \in Doable(Free) :
        \E winner \in [T -> Noncanonical] :
          /\ \A c \in T : winner[c] \in SourcesOf(c)
          /\ link' = CanonicalizedLink(winner)
  BY DEF Canonicalize
<1>2. PICK winner \in [T -> Noncanonical] :
        /\ \A c \in T : winner[c] \in SourcesOf(c)
        /\ link' = CanonicalizedLink(winner)
  BY <1>1
<1>3. \A c \in T : c \in Name /\ link[c] = None
  BY DEF Doable, Present
<1>4. \A c \in T : winner[c] \in Name /\ Canonical(winner[c]) = c /\ link[winner[c]] # None
  BY <1>2 DEF SourcesOf, Noncanonical
<1> DEFINE Won(n) == \E c \in T : winner[c] = n
           to   == [n \in Name |-> IF Won(n) THEN Canonical(n) ELSE n]
           from == [n \in Name |-> IF n \in T THEN winner[n] ELSE n]
<1>5. to \in [Name -> Name] /\ from \in [Name -> Name]
  BY <1>4, CanonicalIsName
<1>6. \A n \in Name : link'[n] = (IF n \in T THEN link[winner[n]] ELSE IF Won(n) THEN None ELSE link[n])
  BY <1>2 DEF CanonicalizedLink
<1>7. ASSUME NEW n \in Name, link[n] = d PROVE link'[to[n]] = d /\ from[to[n]] = n
  <2>1. CASE Won(n)
    <3>1. PICK c \in T : winner[c] = n
      BY <2>1
    <3>2. to[n] = c /\ c \in Name
      BY <1>3, <1>4, <2>1, <3>1
    <3> QED BY <1>6, <1>7, <3>1, <3>2
  <2>2. CASE ~Won(n)
    <3>1. n \notin T
      BY <1>3, <1>7, DigestAssumption
    <3> QED BY <1>6, <1>7, <2>2, <3>1
  <2> QED BY <2>1, <2>2
<1>8. ASSUME NEW n \in Name, link'[n] = d PROVE link[from[n]] = d /\ to[from[n]] = n
  <2>1. CASE n \in T
    <3>1. Won(winner[n]) /\ from[n] = winner[n] /\ winner[n] \in Name
      BY <1>4, <2>1
    <3> QED BY <1>4, <1>6, <1>8, <2>1, <3>1
  <2>2. CASE n \notin T
    <3>1. ~Won(n)
      BY <1>6, <1>8, <2>2, DigestAssumption
    <3> QED BY <1>6, <1>8, <2>2, <3>1
  <2> QED BY <2>1, <2>2
<1> HIDE DEF to, from
<1> QED BY <1>5, <1>7, <1>8, MovesKeepNumber

\* store_set_arch(): a stamped entry goes to its stamped name, which is free.
LEMMA SetArchKeepsNumber ==
  ASSUME StoreInv, IsFiniteSet(Name), NEW a \in Arches, SetArch(a), NEW d \in Digest
  PROVE  Cardinality({n \in Name : link[n] = d}) = Cardinality({n \in Name : link'[n] = d})
<1>1. PICK S \in Doable(Stampable(a)) :
        link' = [n \in Name |->
                   IF n \in S THEN None
                   ELSE IF n.arch = a /\ Stamp(n, NoArch) \in S
                        THEN link[Stamp(n, NoArch)] ELSE link[n]]
  BY DEF SetArch
<1>2. \A n \in S : n \in Name /\ n.arch = NoArch /\ link[n] # None /\ link[Stamp(n, a)] = None
  BY DEF Doable, Stampable, HasArch, Present
<1>3. a # NoArch
  BY NamesAssumption
<1>4. \A n \in S : /\ Stamp(n, a) \in Name /\ Stamp(n, a).arch = a
                   /\ Stamp(Stamp(n, a), NoArch) = n /\ Stamp(n, a) \notin S
  <2> SUFFICES ASSUME NEW n \in S
               PROVE  /\ Stamp(n, a) \in Name /\ Stamp(n, a).arch = a
                      /\ Stamp(Stamp(n, a), NoArch) = n /\ Stamp(n, a) \notin S
    OBVIOUS
  <2>1. Stamp(n, a) \in Name
    BY <1>2, StampIsName
  <2>2. Stamp(n, a).arch = a /\ Stamp(Stamp(n, a), NoArch) = n
    BY <1>2 DEF Stamp, Name
  <2> QED BY <1>2, <1>3, <2>1, <2>2
<1>5. \A n \in Name : n.arch = a => Stamp(Stamp(n, NoArch), a) = n
  BY DEF Stamp, Name
<1> DEFINE Stamped(n) == n.arch = a /\ Stamp(n, NoArch) \in S
           to   == [n \in Name |-> IF n \in S THEN Stamp(n, a) ELSE n]
           from == [n \in Name |-> IF Stamped(n) THEN Stamp(n, NoArch) ELSE n]
<1>6. to \in [Name -> Name] /\ from \in [Name -> Name]
  BY <1>2, <1>4
<1>7. ASSUME NEW n \in Name, link[n] = d PROVE link'[to[n]] = d /\ from[to[n]] = n
  <2>1. CASE n \in S
    <3>1. to[n] = Stamp(n, a) /\ Stamped(Stamp(n, a)) /\ Stamp(n, a) \in Name
      BY <1>4, <2>1
    <3> QED BY <1>1, <1>4, <1>7, <2>1, <3>1
  <2>2. CASE n \notin S
    <3>1. ~Stamped(n)
      <4> SUFFICES ASSUME Stamped(n) PROVE FALSE
        OBVIOUS
      <4>1. Stamp(Stamp(n, NoArch), a) = n
        BY <1>5
      <4> QED BY <1>2, <1>7, <4>1, DigestAssumption
    <3> QED BY <1>1, <1>7, <2>2, <3>1
  <2> QED BY <2>1, <2>2
<1>8. ASSUME NEW n \in Name, link'[n] = d PROVE link[from[n]] = d /\ to[from[n]] = n
  <2>1. n \notin S
    BY <1>1, <1>8, DigestAssumption
  <2>2. CASE Stamped(n)
    <3>1. from[n] = Stamp(n, NoArch) /\ Stamp(n, NoArch) \in Name
      BY <1>2, <2>2
    <3> QED BY <1>1, <1>5, <1>8, <2>1, <2>2, <3>1
  <2>3. CASE ~Stamped(n)
    BY <1>1, <1>8, <2>1, <2>3
  <2> QED BY <2>2, <2>3
<1> HIDE DEF to, from
<1> QED BY <1>6, <1>7, <1>8, MovesKeepNumber

\* The maintenance renames lose no name: as many entries point at each digest
\* after store_canonicalize() and store_set_arch() as before, wherever renames
\* were skipped or failed.  (There are finitely many names: they are at most
\* 255 bytes long.)
THEOREM RenamesKeepEveryName ==
  ASSUME IsFiniteSet(Name)
  PROVE  StoreSpec => RenamesLoseNothing
<1> DEFINE Kept ==
      (Canonicalize \/ \E a \in Arches : SetArch(a)) =>
        \A d \in Digest : Cardinality({n \in Name : link[n] = d})
                            = Cardinality({n \in Name : link'[n] = d})
<1>1. StoreInv => [Kept]_storeVars
  BY CanonicalizeKeepsNumber, SetArchKeepsNumber
<1>2. StoreSpec => []StoreInv
  BY StoreIsSound
<1> QED BY <1>1, <1>2, PTL DEF RenamesLoseNothing

=============================================================================
