------------------------------- MODULE Store -------------------------------
(***************************************************************************)
(* The content-addressed store (src/store.c): blobs/, packages/ and the    *)
(* library calls that change them, each as one step.  That is how they run *)
(* when one process uses the store: the reactor is single threaded and     *)
(* calls them from a handler, and the maintenance commands run offline.    *)
(* Importing.tla takes the calls apart into their system calls, for two    *)
(* processes.                                                              *)
(*                                                                         *)
(* There is no index.  A blob is a file named by the digest of its bytes,  *)
(* so blobs is a set of digests; an entry of packages/ is a symlink whose  *)
(* target names a digest, or (before an import) a regular file.            *)
(***************************************************************************)
EXTENDS StoreNames, FiniteSets

CONSTANTS
  Digest,    \* the digests of the byte sequences that occur
  None,      \* no digest
  IOFaults,  \* whether a rename(), symlink() or unlink() may fail
  ReadFaults \* whether a readlink() or readdir() may fail

ASSUME DigestAssumption ==
  None \notin Digest /\ IOFaults \in BOOLEAN /\ ReadFaults \in BOOLEAN

VARIABLES
  blobs,     \* the digests d for which blobs/<d> exists
  link,      \* link[n]: the digest packages/<n> points at, if it is a symlink
  file       \* file[n]: the digest of its bytes, if it is a regular file

storeVars == <<blobs, link, file>>

StoreTypeOK ==
  /\ blobs \in SUBSET Digest
  /\ link \in [Name -> Digest \cup {None}]
  /\ file \in [Name -> Digest \cup {None}]

(***************************************************************************)
(* Reading the store.                                                      *)
(***************************************************************************)
Present(n) == link[n] # None \/ file[n] # None

\* The entries among S that one call may fail to read.
Unread(S) == IF ReadFaults THEN SUBSET S ELSE {{}}

\* What may go unread in one lookup of n.
Readings(n) == Unread(Candidates(Canonical(n)))

\* The digests a lookup finds among the candidates of canonical name c when
\* those in U cannot be read: like a candidate that is a regular file, an
\* architecture whose readlink() fails is passed over.
Found(c, U) == {link[x] : x \in Candidates(c) \ U} \ {None}

Hits(c) == Found(c, {})

\* Mutants of LookupError.  The first architecture that answers wins; an
\* architecture is not looked for at all.
MutFirstHitWins(n, U) ==
  LET c == Canonical(n) IN
  IF file[c] # None \/ c \in U THEN "IO"
  ELSE IF Found(c, U) = {} THEN "NOT_FOUND" ELSE "OK"

MutNoArchLookup(n, U) ==
  LET c == Canonical(n) IN
  IF file[c] # None \/ c \in U THEN "IO"
  ELSE IF link[c] = None THEN "NOT_FOUND" ELSE "OK"

\* store_resolve().  A readlink() of the canonical path that fails, as it does
\* on a regular file (EINVAL), is an I/O error before any architecture is tried.
LookupError(n, U) ==
  LET c == Canonical(n) IN
  IF file[c] # None \/ c \in U THEN "IO"
  ELSE IF Found(c, U) = {} THEN "NOT_FOUND"
  ELSE IF \E d, e \in Found(c, U) : d # e THEN "AMBIGUOUS"
  ELSE "OK"

\* What a lookup answers whose readlink() calls all succeed.
ResolveError(n) == LookupError(n, {})

\* The digest a resolvable name means.
Meaning(n) == CHOOSE d \in Digest : d \in Hits(Canonical(n))

ResolvesTo(n, d) == ResolveError(n) = "OK" /\ Meaning(n) = d

\* store_open(): the entry that answered may still have no blob behind it.
OpenError(n) ==
  IF ResolveError(n) = "OK" /\ Meaning(n) \notin blobs THEN "NOT_FOUND"
  ELSE ResolveError(n)

\* Mutants of Live: a walk that passes over some of the entries.
MutLiveCanonical(U) == {link[n] : n \in {m \in Name \ U : IsCanonical(m)}} \ {None}

MutLiveBare(U) == {link[n] : n \in {m \in Name \ U : ~HasArch(m)}} \ {None}

MutLiveArtifacts(U) == {link[n] : n \in {m \in Name \ U : ~m.sig}} \ {None}

\* The digests the collector keeps: the walk reads every symlink under its
\* LITERAL name, canonical or not.  It passes over U: an entry whose readlink()
\* fails, and all those after an error of readdir(), which it takes for the end
\* of the directory; it succeeds all the same.
Live(U) == {link[n] : n \in Name \ U} \ {None}

Linked == {n \in Name : link[n] # None}

(***************************************************************************)
(* The calls that change the store.  PublishError is what store_publish()  *)
(* answers when the blobs are B and its lookup cannot read U;              *)
(* PublishedLink is the directory it leaves.                               *)
(***************************************************************************)
PublishError(B, n, d, U) ==
  IF d \notin B THEN "NOT_FOUND"
  ELSE IF LookupError(n, U) = "OK"
       THEN IF d \in Found(Canonical(n), U) THEN "OK" ELSE "CONFLICT"
  ELSE IF LookupError(n, U) = "NOT_FOUND" THEN "OK"
  ELSE LookupError(n, U)

\* Mutant of PublishedLink: rename() over whatever the name means already.
MutPublishOver(B, n, d, U) ==
  IF d \in B THEN [link EXCEPT ![Canonical(n)] = d] ELSE link

PublishedLink(B, n, d, U) ==
  IF PublishError(B, n, d, U) = "OK" /\ LookupError(n, U) = "NOT_FOUND"
  THEN [link EXCEPT ![Canonical(n)] = d]
  ELSE link

\* What a loop over the entries of a directory may have done of the work S: it
\* reports a failing rename() or unlink() and goes on, does not see an entry
\* it cannot read, and takes an error of readdir() for the end.
Doable(S) == IF IOFaults \/ ReadFaults THEN SUBSET S ELSE {S}

\* store_blob_adopt() and store_publish(), the two calls that follow each
\* other wherever bytes enter the store.  The second is not made when the
\* first fails; when its symlink() or rename() fails the blob has no name.
AdoptAndPublish(n, d) ==
  /\ \/ /\ blobs' = blobs \cup {d}
        /\ \E U \in Readings(n) : link' = PublishedLink(blobs \cup {d}, n, d, U)
     \/ /\ IOFaults
        /\ blobs' \in {blobs, blobs \cup {d}}
        /\ UNCHANGED link
  /\ UNCHANGED file

\* The entries store_unpublish(n) unlinks: the canonical signature's, then
\* the canonical artifact's.
SignatureTarget(n) ==
  IF HasSignatureName(n) THEN {Canonical(SignatureName(n))} ELSE {}

UnpublishTargets(n) == SignatureTarget(n) \cup {Canonical(n)}

UnpublishError(n) == IF Present(Canonical(n)) THEN "OK" ELSE "NOT_FOUND"

\* unlink() of every entry in S that is there.
Unlink(S) ==
  /\ link' = [n \in Name |-> IF n \in S THEN None ELSE link[n]]
  /\ file' = [n \in Name |-> IF n \in S THEN None ELSE file[n]]

\* Mutant of Unpublish: the artifact goes first.
MutArtifactFirst(n) ==
  /\ \/ Unlink(UnpublishTargets(n))
     \/ IOFaults /\ \E S \in {{}, {Canonical(n)}} : Unlink(S)
  /\ UNCHANGED blobs

\* The signature goes first: a failure leaves both entries, or the artifact
\* without its signature, and never the signature alone.
Unpublish(n) ==
  /\ \/ Unlink(UnpublishTargets(n))
     \/ IOFaults /\ \E S \in {{}, SignatureTarget(n)} : Unlink(S)
  /\ UNCHANGED blobs

\* store_gc(): the walk first, then an unlink() of every blob it did not see.
\* What the walk could not read is not live, and its bytes are freed.
Collect ==
  /\ \E U \in Unread(Linked) : \E B \in Doable(blobs \ Live(U)) : blobs' = blobs \ B
  /\ UNCHANGED <<link, file>>

\* The entries store_canonicalize() collects, and those whose rename goes to
\* canonical name c.
Noncanonical == {n \in Name : link[n] # None /\ ~IsCanonical(n)}

SourcesOf(c) == {n \in Noncanonical : Canonical(n) = c}

\* store_canonicalize(): the names are collected first, then renamed one by
\* one in readdir() order, so among several spellings of one free canonical
\* name the first read (any of them) gets it and the others find it taken.
\* winner[c] is the entry that is moved to c.
CanonicalizedLink(winner) ==
  [n \in Name |->
     IF n \in DOMAIN winner THEN link[winner[n]]
     ELSE IF \E c \in DOMAIN winner : winner[c] = n THEN None
     ELSE link[n]]

\* Mutant of Canonicalize: an entry that is there already is renamed over.
MutCanonicalizeOver ==
  /\ \E T \in Doable({c \in Name : SourcesOf(c) # {}}) :
       \E winner \in [T -> Noncanonical] :
         /\ \A c \in T : winner[c] \in SourcesOf(c)
         /\ link' = CanonicalizedLink(winner)
  /\ UNCHANGED <<blobs, file>>

Canonicalize ==
  /\ \E T \in Doable({c \in Name : SourcesOf(c) # {} /\ ~Present(c)}) :
       \E winner \in [T -> Noncanonical] :
         /\ \A c \in T : winner[c] \in SourcesOf(c)
         /\ link' = CanonicalizedLink(winner)
  /\ UNCHANGED <<blobs, file>>

\* Mutant of Stampable: an entry that is there already is renamed over.
MutStampOver(a) == {n \in Name : link[n] # None /\ ~HasArch(n)}

\* The entries store_set_arch(a) renames: every archless one, signatures and
\* non-canonical spellings included, whose target is free.
Stampable(a) ==
  {n \in Name : link[n] # None /\ ~HasArch(n) /\ ~Present(Stamp(n, a))}

SetArch(a) ==
  /\ \E S \in Doable(Stampable(a)) :
       link' = [n \in Name |->
                  IF n \in S THEN None
                  ELSE IF n.arch = a /\ Stamp(n, NoArch) \in S
                       THEN link[Stamp(n, NoArch)]
                       ELSE link[n]]
  /\ UNCHANGED <<blobs, file>>

(***************************************************************************)
(* A store whose directory may have been written by an older release:      *)
(* entries under spellings that are not canonical, and no dangling link.   *)
(***************************************************************************)
StoreInit ==
  /\ blobs \in SUBSET Digest
  /\ link \in [Name -> blobs \cup {None}]
  /\ file = [n \in Name |-> None]

StoreNext ==
  \/ \E n \in Name, d \in Digest : AdoptAndPublish(n, d)
  \/ \E n \in Name : Unpublish(n)
  \/ Collect
  \/ Canonicalize
  \/ \E a \in Arches : SetArch(a)

StoreSpec == StoreInit /\ [][StoreNext]_storeVars

(***************************************************************************)
(* Properties.                                                             *)
(***************************************************************************)

\* No entry points at a blob that is not there: whatever publishes, deletes,
\* renames and collections are mixed, and whichever rename(), symlink() and
\* unlink() fail, store_gc() never frees the bytes of a name, and no rename or
\* publish makes a name for bytes that are gone.  It takes a walk that can read
\* the directory: with ReadFaults the collector breaks it.
NoDangling == \A n \in Name : link[n] # None => link[n] \in blobs

\* Once name n resolves, it goes on meaning the same bytes until an entry
\* that it could be answered by is deleted: any other call leaves it resolving
\* to them, or makes it ambiguous (refused with 409), never to others and
\* never to nothing.  (store_publish's conflict rule, the skipped renames of
\* store_canonicalize and store_set_arch, and the architecture probing of
\* store_resolve_as together.)
Keeps(n) ==
  ResolveError(n) = "OK" =>
    \/ ResolveError(n)' = "AMBIGUOUS"
    \/ ResolveError(n)' = "OK" /\ Meaning(n)' = Meaning(n)

Withdraws(n) == \E m \in Name : Unpublish(m) /\ UnpublishTargets(m) \cap Candidates(Canonical(n)) # {}

MeaningIsStable == [][\A n \in Name : Keeps(n) \/ Withdraws(n)]_storeVars

\* Stamping a store with an architecture is invisible to every requester: a
\* bare name resolves afterwards exactly as it did before, whichever entries
\* were skipped because their stamped name was taken or their rename failed.
StampingIsInvisible ==
  [][\A a \in Arches : SetArch(a) =>
       \A n \in Name : ~HasArch(n) =>
         /\ ResolveError(n)' = ResolveError(n)
         /\ ResolveError(n) = "OK" => Meaning(n)' = Meaning(n)]_storeVars

\* The maintenance renames move names and lose none, and touch no blob: the
\* same number of entries points at each digest before and after.
RenamesLoseNothing ==
  [][(Canonicalize \/ \E a \in Arches : SetArch(a)) =>
       \A d \in Digest : Cardinality({n \in Name : link[n] = d})
                           = Cardinality({n \in Name : link'[n] = d})]_storeVars

(***************************************************************************)
(* What comments and documents say, and the code does not do.              *)
(***************************************************************************)

\* "A signature that is just another blob with a name cannot drift out of sync
\* with anything" (store.h): stamping gives no artifact the signature of
\* another.  When other bytes hold the stamped name a bare artifact is skipped,
\* but its signature, whose stamped name is free, is renamed all the same.
SignatureStaysWithArtifact ==
  [][\A a \in Arches : SetArch(a) =>
       \A n \in Name :
         /\ ~n.sig /\ ~HasArch(n)
         /\ link[n] # None /\ link[SignatureName(n)] # None
         /\ link[Stamp(n, a)] \notin {None, link[n]}
         => link'[SignatureName(Stamp(n, a))] = link[SignatureName(Stamp(n, a))]]_storeVars

=============================================================================
