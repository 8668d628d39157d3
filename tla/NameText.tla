------------------------------ MODULE NameText ------------------------------
(***************************************************************************)
(* The text of an artifact name and how the store reads it (src/store.c):  *)
(* StoreNames.tla with the parsing put back.                               *)
(*                                                                         *)
(* A text is a sequence of symbols: the punctuation and the digits one by  *)
(* one, because the grammar looks at them, and every other word as a       *)
(* symbol of its own with its length in bytes.  No word is the beginning   *)
(* of another, so comparing two texts symbol by symbol is strcmp().        *)
(***************************************************************************)
EXTENDS Integers, Sequences, FiniteSets, SequencesExt, FiniteSetsExt

CONSTANTS
  Bytes,           \* the symbols, in the order of their bytes
  Width,           \* the length of a symbol in bytes
  Architectures,   \* the words of the architecture whitelist
  RequireExt       \* the suffixes that require_signature names

\* A name and its terminator fit in a buffer of this size.
STORE_NAME_MAX == 256

INT_MAX == 2147483647

Digits == {"0", "1", "2", "3", "4", "5", "6", "7", "8", "9"}

\* vsep(): a separator is a run of its own.
Separators == {".", "_", "+", "~", "-"}

\* The symbols the store itself writes.
OwnSymbols == {"-", ".", "0", "1", "minisig", "tar", "gz", "cixpkg", "iso"}

ASSUME TextAssumption ==
  /\ \A i, j \in DOMAIN Bytes : Bytes[i] = Bytes[j] => i = j
  /\ OwnSymbols \subseteq ToSet(Bytes) /\ "" \notin ToSet(Bytes)
  /\ Width \in [ToSet(Bytes) -> 1..(STORE_NAME_MAX - 1)]
  /\ Architectures \subseteq ToSet(Bytes) \ (Digits \cup Separators)
  /\ \A s \in ToSet(Bytes) \cap (Digits \cup Separators) : Width[s] = 1

\* strlen().
Size(t) ==
  LET upTo[n \in 0..Len(t)] == IF n = 0 THEN 0 ELSE upTo[n - 1] + Width[t[n]]
  IN upTo[Len(t)]

(***************************************************************************)
(* Comparing: strcmp(), and any comparison that goes element by element    *)
(* until the first difference, the shorter of two equal ones first.        *)
(***************************************************************************)
Sign(i) == IF i < 0 THEN -1 ELSE IF i > 0 THEN 1 ELSE 0

Lexical(a, b, Cmp(_, _)) ==
  LET diff == {i \in 1..Min({Len(a), Len(b)}) : Cmp(a[i], b[i]) # 0}
  IN IF diff = {} THEN Sign(Len(a) - Len(b)) ELSE Cmp(a[Min(diff)], b[Min(diff)])

Byte(s) == CHOOSE i \in DOMAIN Bytes : Bytes[i] = s

Strcmp(a, b) == Lexical(a, b, LAMBDA x, y : Sign(Byte(x) - Byte(y)))

(***************************************************************************)
(* The suffix: the first entry of the table that ends the name and leaves  *)
(* something in front of it.                                               *)
(***************************************************************************)
SigExt == <<".", "minisig">>

TarGz  == <<".", "tar", ".", "gz">>
Cixpkg == <<".", "cixpkg">>
Iso    == <<".", "iso">>

SuffixTable == <<TarGz \o SigExt, Cixpkg \o SigExt, Iso \o SigExt, TarGz, Cixpkg, Iso>>

SuffixOf(t) ==
  LET i == SelectInSeq(SuffixTable, LAMBDA e : IsStrictSuffix(e, t))
  IN IF i = 0 THEN <<>> ELSE SuffixTable[i]

StemOf(t) == SubSeq(t, 1, Len(t) - Len(SuffixOf(t)))

IsSignature(t) == IsSuffix(SigExt, SuffixOf(t))

IsInstaller(t) == SuffixOf(t) \in {Iso, Iso \o SigExt}

\* The policy never marks a signature's suffix, whatever the operator wrote.
NeedsSig(t) == SuffixOf(t) \in RequireExt /\ ~IsSignature(t)

\* store_name_is_valid().
IsValid(t) ==
  /\ t # <<>> /\ t[1] # "."
  /\ Size(t) < STORE_NAME_MAX
  /\ \A i \in 1..(Len(t) - 1) : ~(t[i] = "." /\ t[i + 1] = ".")
  /\ SuffixOf(t) # <<>>

(***************************************************************************)
(* The tail of a stem: release and architecture.                           *)
(***************************************************************************)
\* Every word of the whitelist has a digit in it.
HasDigit(t) == \E i \in DOMAIN t : t[i] \in Digits \cup Architectures

\* Where the last hyphen is, 0 if there is none.
LastDash(t) == SelectLastInSeq(t, LAMBDA s : s = "-")

After(t, i) == SubSeq(t, i + 1, Len(t))

Before(t, i) == SubSeq(t, 1, i - 1)

LastComponent(t) == After(t, LastDash(t))

\* arch_offset(), as the word itself: <<>> when the stem ends in none of the
\* list, or has nothing in front of its hyphen.
ArchOf(stem) ==
  IF Len(stem) > 2 /\ Last(stem) \in Architectures /\ stem[Len(stem) - 1] = "-"
  THEN <<Last(stem)>> ELSE <<>>

WithoutArch(stem) ==
  IF ArchOf(stem) = <<>> THEN stem ELSE Before(stem, Len(stem) - 1)

\* release_offset(), as the digits themselves: a last component of digits
\* only, after a component that has a digit.
ReleaseOf(stem) ==
  LET d == LastDash(stem) IN
  IF /\ d > 1 /\ d < Len(stem)
     /\ \A i \in (d + 1)..Len(stem) : stem[i] \in Digits
     /\ HasDigit(LastComponent(Before(stem, d)))
  THEN After(stem, d) ELSE <<>>

WithoutRelease(stem) ==
  IF ReleaseOf(stem) = <<>> THEN stem ELSE Before(stem, LastDash(stem))

\* has_version().
HasVersion(stem) == HasDigit(LastComponent(stem))

\* Digits without their leading zeros; the last one is never skipped.
SkipZeros(t) ==
  LET i == SelectInSeq(t, LAMBDA s : s # "0") IN IF i = 0 THEN <<"0">> ELSE After(t, i - 1)

\* The end of a name that spells arch.
ArchTail(arch) == IF arch = <<>> THEN <<>> ELSE <<"-">> \o arch

\* snprintf() into a name buffer, its result checked: nothing when it does
\* not fit.
Checked(t) == IF Size(t) < STORE_NAME_MAX THEN t ELSE <<>>

\* Mutants of CanonicalText: every bare name gets "-1", with a version or
\* without; a name that has become too long is not refused.
MutCanonicalAlways(t) ==
  LET stem == WithoutArch(StemOf(t))
      rel  == ReleaseOf(stem)
      tail == ArchTail(ArchOf(StemOf(t))) \o SuffixOf(t)
  IN IF ~IsValid(t) THEN <<>>
     ELSE Checked(IF rel = <<>> THEN stem \o <<"-", "1">> \o tail
                  ELSE WithoutRelease(stem) \o <<"-">> \o SkipZeros(rel) \o tail)

MutCanonicalUnchecked(t) ==
  LET stem == WithoutArch(StemOf(t))
      rel  == ReleaseOf(stem)
      tail == ArchTail(ArchOf(StemOf(t))) \o SuffixOf(t)
  IN IF ~IsValid(t) THEN <<>>
     ELSE IF rel # <<>> THEN WithoutRelease(stem) \o <<"-">> \o SkipZeros(rel) \o tail
     ELSE IF HasVersion(stem) THEN stem \o <<"-", "1">> \o tail
     ELSE t

\* store_canonical_name(); <<>> is its -1.
CanonicalText(t) ==
  LET stem == WithoutArch(StemOf(t))
      rel  == ReleaseOf(stem)
      tail == ArchTail(ArchOf(StemOf(t))) \o SuffixOf(t)
  IN IF ~IsValid(t) THEN <<>>
     ELSE Checked(IF rel # <<>> THEN WithoutRelease(stem) \o <<"-">> \o SkipZeros(rel) \o tail
                  ELSE IF HasVersion(stem) THEN stem \o <<"-", "1">> \o tail
                  ELSE t)

\* store_signature_name(); <<>> is its -1.
SignatureText(t) ==
  IF IsValid(t) /\ ~IsSignature(t) THEN Checked(t \o SigExt) ELSE <<>>

\* A name with arch put in front of its suffix, as store_set_arch() and the
\* probes of store_resolve_as() spell it.
Stamped(t, arch) == StemOf(t) \o <<"-", arch>> \o SuffixOf(t)

(***************************************************************************)
(* What is shown of a name or a stem: store_split_display().               *)
(***************************************************************************)
DigitValue(s) == CHOOSE v \in 0..9 : <<"0", "1", "2", "3", "4", "5", "6", "7", "8", "9">>[v + 1] = s

\* Clamped, and the rest of the digits is not read.
NumberOf(digits) ==
  FoldLeft(LAMBDA v, s : IF v > (INT_MAX - DigitValue(s)) \div 10 THEN INT_MAX
                         ELSE v * 10 + DigitValue(s), 0, digits)

\* A hyphen after which a version starts: a digit, or v and a digit.
StartsVersion(t, i) ==
  /\ t[i] = "-" /\ i < Len(t)
  /\ \/ t[i + 1] \in Digits
     \/ t[i + 1] = "v" /\ i + 1 < Len(t) /\ t[i + 2] \in Digits

Display(t) ==
  LET stem == WithoutArch(StemOf(t))
      body == WithoutRelease(stem)
      rel  == ReleaseOf(stem)
      cuts == {i \in DOMAIN body : StartsVersion(body, i)}
      cut  == IF cuts = {} THEN Len(body) + 1 ELSE Min(cuts)
  IN [artifact |-> Before(body, cut),
      version  |-> After(body, cut),
      release  |-> IF rel = <<>> THEN 1 ELSE NumberOf(rel),
      arch     |-> ArchOf(StemOf(t))]

(***************************************************************************)
(* The version order.                                                      *)
(***************************************************************************)
Kind(s) == IF s \in Digits THEN "number" ELSE IF s \in Separators THEN "separator" ELSE "text"

\* part_cmp() reads runs: digits, one separator, or other text.
Runs(t) ==
  LET starts == {i \in DOMAIN t : i = 1 \/ Kind(t[i]) = "separator" \/ Kind(t[i]) # Kind(t[i - 1])}
      order  == SetToSortSeq(starts, <)
      end(k) == IF k = Len(order) THEN Len(t) ELSE order[k + 1] - 1
  IN [k \in DOMAIN order |-> SubSeq(t, order[k], end(k))]

IsNumber(run) == Kind(run[1]) = "number"

\* Numbers by magnitude, a number above text in the same place, text by bytes.
RunCmp(x, y) ==
  LET m == SkipZeros(x)
      n == SkipZeros(y)
  IN IF IsNumber(x) /\ IsNumber(y)
     THEN IF Len(m) # Len(n) THEN Sign(Len(m) - Len(n)) ELSE Strcmp(m, n)
     ELSE IF IsNumber(x) # IsNumber(y) THEN IF IsNumber(x) THEN 1 ELSE -1
     ELSE Strcmp(x, y)

PartCmp(a, b) == Lexical(Runs(a), Runs(b), RunCmp)

WithoutV(t) == IF Len(t) > 1 /\ t[1] = "v" /\ t[2] \in Digits THEN Tail(t) ELSE t

FirstDash(t) == SelectInSeq(t, LAMBDA s : s = "-")

MainPart(t) == IF FirstDash(t) = 0 THEN t ELSE Before(t, FirstDash(t))

\* store_version_cmp(): what follows the first hyphen is a prerelease, older
\* than the version without one.
VersionCmp(a, b) ==
  LET x == WithoutV(a)
      y == WithoutV(b)
      r == PartCmp(MainPart(x), MainPart(y))
      p == FirstDash(x)
      q == FirstDash(y)
  IN IF r # 0 THEN r
     ELSE IF p = 0 \/ q = 0 THEN Sign((IF p = 0 THEN 1 ELSE 0) - (IF q = 0 THEN 1 ELSE 0))
     ELSE PartCmp(After(x, p), After(y, q))

\* Mutant of CmpByVersion: the release is left to the bytes of the name.
MutCmpNoRelease(a, b) ==
  LET v == VersionCmp(Display(a).version, Display(b).version)
  IN IF v # 0 THEN v ELSE Strcmp(a, b)

\* cmp_by_version(): then the release as a number, then the bytes.
CmpByVersion(a, b) ==
  LET x == Display(a)
      y == Display(b)
      v == VersionCmp(x.version, y.version)
  IN IF v # 0 THEN v
     ELSE IF x.release # y.release THEN Sign(x.release - y.release)
     ELSE Strcmp(a, b)

=============================================================================
