------------------------------ MODULE Listing ------------------------------
(***************************************************************************)
(* What the daemon says about the directory: GET /api/v1/artifacts (one    *)
(* record per stem with all its encodings, ranked by version), the         *)
(* manifest and the totals of /api/v1/status (src/main.c, src/manifest.c). *)
(* Each handler walks the directory in whatever order readdir() gives.     *)
(***************************************************************************)
EXTENDS NamedStore

CONSTANTS
  SizeOf,     \* the bytes of a blob
  MaxTime,    \* the last second a publication happens in
  MaxEntries, \* the entries the directory may hold
  Compared,   \* how the names compare: CompareAll, a record of tables
  ByAge       \* the stems that occur, the oldest first: what the ranks mean

VARIABLES
  mtime,      \* when each entry was published
  reply       \* the last answer, until the directory changes

vars == <<dir, mtime, reply>>

NoReply == [what |-> "nothing"]

TypeOK ==
  /\ DirTypeOK
  /\ DOMAIN mtime = DOMAIN dir
  /\ \A t \in DOMAIN mtime : mtime[t] \in 1..MaxTime
  /\ reply.what \in {"nothing", "artifacts", "manifest", "status"}

(***************************************************************************)
(* The comparators.  How two texts compare does not depend on the          *)
(* directory: it is tabulated.                                             *)
(***************************************************************************)
ComparedStem == [t \in ParsedTexts |-> StemOf(t)]

ComparedSignatures == {t \in ParsedTexts : IsSignature(t)}

ComparedInstallers == {t \in ParsedTexts : IsInstaller(t)}

\* The name an artifact is listed under.
ComparedShown == [t \in ParsedTexts |-> Display(t).artifact]

ComparedName == [p \in ParsedTexts \X ParsedTexts |-> Strcmp(p[1], p[2])]

ComparedStems ==
  [p \in Range(ComparedStem) \X Range(ComparedStem) |-> Strcmp(p[1], p[2])]

ComparedAge ==
  [p \in Range(ComparedStem) \X Range(ComparedStem) |-> CmpByVersion(p[1], p[2])]

CompareAll ==
  [stem |-> ComparedStem, signatures |-> ComparedSignatures,
   installers |-> ComparedInstallers, shown |-> ComparedShown,
   name |-> ComparedName, stems |-> ComparedStems, age |-> ComparedAge]

ASSUME ComparedAssumption == Compared = CompareAll

Stem       == Compared.stem
Signatures == Compared.signatures
Installers == Compared.installers
Shown      == Compared.shown
NameOrder  == Compared.name
StemOrder  == Compared.stems
AgeOrder   == Compared.age

\* Mutant of CmpByStem: the order of the names.
MutCmpByName(x, y) == NameOrder[<<x, y>>]

\* cmp_by_stem() of the listing, cmp_stem_then_name() of the manifest.
CmpByStem(x, y) ==
  IF Stem[x] # Stem[y] THEN StemOrder[<<Stem[x], Stem[y]>>] ELSE NameOrder[<<x, y>>]

Sorted(s, Cmp(_, _)) == SortSeq(s, LAMBDA x, y : Cmp(x, y) < 0)

\* The walk: every entry once, in any order.
Walks == SetToSeqs(DOMAIN dir)

Artifacts(walk) == SelectSeq(walk, LAMBDA t : t \notin Signatures)

\* The names of a sequence sorted by stem, in groups of one stem.
AddToGroups(groups, t) ==
  IF groups = <<>> \/ Stem[Last(groups)[1]] # Stem[t] THEN Append(groups, <<t>>)
  ELSE Append(Front(groups), Append(Last(groups), t))

Groups(names) == FoldLeft(AddToGroups, <<>>, names)

SumOver(S, f(_)) == FoldSet(LAMBDA t, n : f(t) + n, 0, S)

Bytesize(t) == SizeOf[dir[t]]

(***************************************************************************)
(* GET /api/v1/artifacts.                                                  *)
(***************************************************************************)
\* Whether a signature is found for entry t.  The lookup is store_resolve()'s.
Signed(t) == SigOf[t] # <<>> /\ Resolve(SigOf[t]) = "OK"

\* One element of "formats"; "signed" is left out where it says nothing.
Format(t) ==
  [name |-> t, digest |-> dir[t], bytes |-> Bytesize(t), modified |-> mtime[t],
   signed |-> IF Signed(t) THEN "true" ELSE IF t \in Gated THEN "false" ELSE "omitted"]

Identity(group) ==
  [stem     |-> Stem[group[1]],
   formats  |-> [i \in DOMAIN group |-> Format(group[i])],
   bytes    |-> SumOver(ToSet(group), Bytesize),
   modified |-> Max({mtime[t] : t \in ToSet(group)})]

\* rank_identities(): the index of the stem once all are sorted by version.
Rank(ids, i) ==
  SelectInSeq(Sorted([k \in DOMAIN ids |-> ids[k].stem], LAMBDA x, y : AgeOrder[<<x, y>>]),
              LAMBDA x : x = ids[i].stem) - 1

\* cmp_identity_newest().
CmpNewest(x, y) ==
  IF x.modified # y.modified THEN Sign(y.modified - x.modified)
  ELSE StemOrder[<<x.stem, y.stem>>]

Ranked(ids) == [i \in DOMAIN ids |-> ids[i] @@ [rank |-> Rank(ids, i)]]

ArtifactsReply(walk) ==
  LET groups == Groups(Sorted(Artifacts(walk), CmpByStem))
      ids    == Sorted(Ranked([i \in DOMAIN groups |-> Identity(groups[i])]), CmpNewest)
  IN [what |-> "artifacts", artifacts |-> ids, count |-> Len(ids),
      files |-> Len(Artifacts(walk)),
      bytes |-> FoldLeft(LAMBDA n, id : n + id.bytes, 0, ids)]

(***************************************************************************)
(* GET /MANIFEST.json.                                                     *)
(***************************************************************************)
\* emit_signature() names the file after the entry, whatever answered.
Element(t) ==
  [file |-> t, sha256 |-> dir[t], bytes |-> Bytesize(t),
   signature |-> IF Signed(t) THEN {SigOf[t]} ELSE {}]

\* write_section(): one tier, grouped by stem.
Section(names, tier) ==
  LET rows   == SelectSeq(Artifacts(names), LAMBDA t : (t \in Installers) = tier)
      groups == Groups(Sorted(rows, CmpByStem))
  IN [i \in DOMAIN groups |->
        [key |-> Stem[groups[i][1]], formats |-> [j \in DOMAIN groups[i] |-> Element(groups[i][j])]]]

ManifestReply(walk) ==
  LET names == Sorted(walk, LAMBDA x, y : NameOrder[<<x, y>>])
  IN [what |-> "manifest", packages |-> Section(names, FALSE), installers |-> Section(names, TRUE)]

(***************************************************************************)
(* GET /api/v1/status.                                                     *)
(***************************************************************************)
Zero ==
  [packages |-> 0, installers |-> 0, package_bytes |-> 0, installer_bytes |-> 0,
   unstamped |-> 0, names |-> <<>>]

\* Mutant of Count: the bytes of every signature go to the installers.
MutCount(n, t) ==
  IF t \in Signatures THEN [n EXCEPT !.installer_bytes = @ + Bytesize(t)]
  ELSE [n EXCEPT !.packages = @ + 1, !.package_bytes = @ + Bytesize(t),
                 !.unstamped = @ + (IF t \in Bare THEN 1 ELSE 0),
                 !.names = Append(@, Shown[t])]

\* count_entry(): the bytes of a signature count with what it signs.
Count(n, t) ==
  LET sized == IF t \in Installers THEN [n EXCEPT !.installer_bytes = @ + Bytesize(t)]
               ELSE [n EXCEPT !.package_bytes = @ + Bytesize(t)]
      seen  == [sized EXCEPT !.unstamped = @ + (IF t \in Bare THEN 1 ELSE 0)]
  IN IF t \in Signatures THEN sized
     ELSE IF t \in Installers THEN [seen EXCEPT !.installers = @ + 1]
     ELSE [seen EXCEPT !.packages = @ + 1, !.names = Append(@, Shown[t])]

\* distinct_names(): sorted, then counted where one differs from the last.
Distinct(names) ==
  LET s == Sorted(names, Strcmp)
  IN Cardinality({i \in DOMAIN s : i = 1 \/ s[i] # s[i - 1]})

StatusReply(walk) ==
  LET n == FoldLeft(Count, Zero, walk)
  IN n @@ [what |-> "status", unique_packages |-> Distinct(n.names)]

(***************************************************************************)
(* The actions: the directory changes, and each handler answers.           *)
(***************************************************************************)
Init == dir = <<>> /\ mtime = <<>> /\ reply = NoReply

\* A publication in second s, no earlier than the last one.
Push(t, d, s) ==
  /\ Publish(t, d)
  /\ Cardinality(DOMAIN dir') <= MaxEntries
  /\ \A x \in DOMAIN mtime : mtime[x] <= s
  /\ mtime' = (Canon[t] :> s) @@ mtime
  /\ reply' = NoReply

Delete(t) ==
  /\ Unpublish(t)
  /\ mtime' = [x \in DOMAIN dir' |-> mtime[x]]
  /\ reply' = NoReply

ApiArtifacts ==
  /\ \E walk \in Walks : reply' = ArtifactsReply(walk)
  /\ UNCHANGED <<dir, mtime>>

ApiManifest ==
  /\ \E walk \in Walks : reply' = ManifestReply(walk)
  /\ UNCHANGED <<dir, mtime>>

ApiStatus ==
  /\ \E walk \in Walks : reply' = StatusReply(walk)
  /\ UNCHANGED <<dir, mtime>>

Next ==
  \/ \E t \in Written, d \in Digest, s \in 1..MaxTime : Push(t, d, s)
  \/ \E t \in Written : Delete(t)
  \/ ApiArtifacts
  \/ ApiManifest
  \/ ApiStatus

Spec == Init /\ [][Next]_vars

(***************************************************************************)
(* Properties.                                                             *)
(***************************************************************************)
Listed == DOMAIN dir \ Signatures

FilesOf(formats) == [i \in DOMAIN formats |-> formats[i].name]

\* The listing tells an artifact once, with every encoding the store holds of
\* it and no other: no stem has two records, however its names and those of
\* another stem sort among each other ("a shape it had never seen"), and the
\* totals are those of the files.
ListingIsExact ==
  reply.what = "artifacts" =>
    LET ids == reply.artifacts IN
    /\ \A i, j \in DOMAIN ids : ids[i].stem = ids[j].stem => i = j
    /\ {ids[i].stem : i \in DOMAIN ids} = {Stem[t] : t \in Listed}
    /\ \A i \in DOMAIN ids :
         /\ ToSet(FilesOf(ids[i].formats)) = {t \in Listed : Stem[t] = ids[i].stem}
         /\ IsInjective(FilesOf(ids[i].formats))
    /\ reply.count = Cardinality({Stem[t] : t \in Listed})
    /\ reply.files = Cardinality(Listed)
    /\ reply.bytes = SumOver(Listed, Bytesize)

\* A higher version_rank is a newer artifact, whichever encodings of it and of
\* others exist and in whatever order they were read: the ranks are 0, 1, ...
\* and go up exactly as the stems age, numbers as numbers (1.9 before 1.10,
\* release 2 before release 10), a prerelease before its version.
Age(stem) == CHOOSE k \in DOMAIN ByAge : ByAge[k] = stem

RankIsAge ==
  reply.what = "artifacts" =>
    LET ids == reply.artifacts IN
    /\ {ids[i].rank : i \in DOMAIN ids} = 0..(Len(ids) - 1)
    /\ \A i, j \in DOMAIN ids : Age(ids[i].stem) < Age(ids[j].stem) => ids[i].rank < ids[j].rank

\* The manifest is a function of the directory, not of the order it is read
\* in: in each section the keys ascend strictly, so no key comes twice, and so
\* do the files of a key; and every artifact is in the section of its tier,
\* whatever the signature policy names ("a config key would have quietly
\* unpublished the store").
Ascending(s, Cmp(_, _)) == \A i \in 1..(Len(s) - 1) : Cmp(s[i], s[i + 1]) < 0

ManifestFiles(section) ==
  UNION {{section[i].formats[j].file : j \in DOMAIN section[i].formats} : i \in DOMAIN section}

ManifestIsDetermined ==
  reply.what = "manifest" =>
    /\ \A section \in {reply.packages, reply.installers} :
         /\ Ascending([i \in DOMAIN section |-> section[i].key], Strcmp)
         /\ \A i \in DOMAIN section :
              Ascending([j \in DOMAIN section[i].formats |-> section[i].formats[j].file], Strcmp)
    /\ ManifestFiles(reply.packages) = {t \in Listed : SuffixOf(t) # Iso}
    /\ ManifestFiles(reply.installers) = {t \in Listed : SuffixOf(t) = Iso}

\* The totals account for every file and every byte once: packages and
\* installers make up the artifacts, and a signature's bytes are counted with
\* the tier of the artifact it signs.
StatusAddsUp ==
  reply.what = "status" =>
    LET tier(S) == {t \in DOMAIN dir : \E e \in S : SuffixOf(t) \in {e, e \o SigExt}} IN
    /\ reply.packages = Cardinality(Listed \cap tier({TarGz, Cixpkg}))
    /\ reply.installers = Cardinality(Listed \cap tier({Iso}))
    /\ reply.package_bytes = SumOver(tier({TarGz, Cixpkg}), Bytesize)
    /\ reply.installer_bytes = SumOver(tier({Iso}), Bytesize)
    /\ reply.unstamped = Cardinality({t \in Listed : Read(t).arch = ""})
    /\ reply.unique_packages =
         Cardinality({Display(t).artifact : t \in Listed \cap tier({TarGz, Cixpkg})})

(***************************************************************************)
(* What a comment says, and the code does not do.                          *)
(***************************************************************************)

\* "absent: say nothing rather than assert a file that is not there"
\* (emit_signature()): a signature the manifest names is an entry of the
\* directory.
SignatureIsOnDisk ==
  reply.what = "manifest" =>
    \A section \in {reply.packages, reply.installers} : \A i \in DOMAIN section :
      \A j \in DOMAIN section[i].formats : section[i].formats[j].signature \subseteq DOMAIN dir

=============================================================================
