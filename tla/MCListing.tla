----------------------------- MODULE MCListing -----------------------------
(***************************************************************************)
(* A small instance of Listing for TLC.                                    *)
(***************************************************************************)
EXTENDS Listing

MCBytes ==
  <<"-", ".", "0", "1", "2", "9", "a", "cixpkg", "d", "gz", "iso", "minisig", "tar", "x86_64">>

MCWidth ==
  [s \in ToSet(MCBytes) |->
     CASE s \in {"-", ".", "0", "1", "2", "9", "a", "d"} -> 1
       [] s = "gz" -> 2
       [] s \in {"iso", "tar"} -> 3
       [] s \in {"cixpkg", "x86_64"} -> 6
       [] s = "minisig" -> 7]

MCArchitectures == {"x86_64"}

\* A package format needs a signature, the installers' does not.
MCRequireExt == {Cixpkg}

\* d has no version.  The stem a-1-1.d-1 is a-1-1 and a dotted component, so
\* its name sorts between two encodings of a-1-1; it reads as release 1 of a
\* prerelease of version 1.
NoVersion  == <<"d">>
Dotted     == <<"a", "-", "1", "-", "1", ".", "d", "-", "1">>
One        == <<"a", "-", "1", "-", "1">>
OneX86     == <<"a", "-", "1", "-", "1", "-", "x86_64">>
Nine       == <<"a", "-", "1", ".", "9", "-", "1">>
TenTwo     == <<"a", "-", "1", ".", "1", "0", "-", "2">>
TenTen     == <<"a", "-", "1", ".", "1", "0", "-", "1", "0">>

MCByAge == <<NoVersion, Dotted, One, OneX86, Nine, TenTwo, TenTen>>

MCWritten ==
  {One \o e : e \in {Cixpkg, TarGz, Cixpkg \o SigExt}} \cup
  {OneX86 \o e : e \in {TarGz, TarGz \o SigExt}} \cup
  {s \o TarGz : s \in {Nine, TenTwo, TenTen}} \cup
  {Dotted \o Iso, Dotted \o TarGz, NoVersion \o Iso, NoVersion \o Iso \o SigExt,
   One \o TarGz \o SigExt, <<"a", "-", "1">> \o TarGz}

\* (The LET keeps TLC's coverage from unfolding the parser at every use.)
MCParsed == LET all == ParseAll IN all

MCCompared == LET all == CompareAll IN all

MCSizeOf == [d \in Digest |-> IF d = CHOOSE e \in Digest : TRUE THEN 3 ELSE 5]

=============================================================================
