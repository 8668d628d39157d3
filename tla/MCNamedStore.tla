---------------------------- MODULE MCNamedStore ----------------------------
(***************************************************************************)
(* Small instances of NamedStore for TLC: names at the limit of 255 bytes. *)
(***************************************************************************)
EXTENDS NamedStore

CONSTANTS
  LongName,      \* the bytes of the word "big"
  Pads,          \* the numbers of leading zeros a release may be spelled with
  MaxLegacy,     \* entries of the directory to begin with
  MaxEntries     \* entries it may grow to

MCBytes ==
  <<"-", ".", "0", "1", "aarch64", "big", "cixpkg", "gz", "iso", "lib", "max", "minisig", "tar">>

MCWidth ==
  [s \in ToSet(MCBytes) |->
     CASE s \in {"-", ".", "0", "1"} -> 1
       [] s = "big" -> LongName
       [] s = "max" -> 248
       [] s \in {"iso", "lib", "tar"} -> 3
       [] s = "gz" -> 2
       [] s = "cixpkg" -> 6
       [] s \in {"aarch64", "minisig"} -> 7]

MCArchitectures == {"aarch64"}

MCRequireExt == {Iso}

\* No version, a version, and a version with its release in several spellings;
\* and a name whose canonical form does not fit.
Stems ==
  {<<"lib">>, <<"max", "-", "1">>, <<"big", "-", "1">>} \cup
  {<<"big", "-", "1", "-">> \o [i \in 1..p |-> "0"] \o <<"1">> : p \in Pads}

MCWritten ==
  {s \o a \o x : s \in Stems,
                a \in {<<>>} \cup {<<"-", w>> : w \in MCArchitectures},
                x \in {Iso, Iso \o SigExt}}

\* (The LET keeps TLC's coverage from unfolding the parser at every use.)
MCParsed == LET all == ParseAll IN all

MCInit ==
  /\ \E S \in UNION {kSubset(k, Texts) : k \in 0..MaxLegacy} : dir \in [S -> Digest]

MCSpec == MCInit /\ [][DirNext /\ Cardinality(DOMAIN dir') <= MaxEntries]_dir

=============================================================================
