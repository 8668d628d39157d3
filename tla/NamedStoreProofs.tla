-------------------------- MODULE NamedStoreProofs --------------------------
(***************************************************************************)
(* What store.c makes of the text of a name, for every text: proofs about  *)
(* NameText and NamedStore.                                                *)
(***************************************************************************)
EXTENDS NamedStore, SequenceTheorems, WellFoundedInduction, TLAPS

(***************************************************************************)
(* The least and the greatest of a set of indices.                         *)
(***************************************************************************)
LEMMA LeastExists ==
  ASSUME NEW T, T \subseteq Nat, T # {}
  PROVE  \E x \in T : \A y \in T : x <= y
<1> DEFINE less == {p \in Nat \X Nat : p[1] < p[2]}
<1>1. IsWellFoundedOn(less, Nat)
  BY NatLessThanWellFounded, Zenon DEF OpToRel
<1>2. \E x \in T : \A y \in T : ~(<<y, x>> \in less)
  BY <1>1, WFMin
<1>3. PICK x \in T : \A y \in T : ~(<<y, x>> \in less)
  BY <1>2
<1>4. ASSUME NEW y \in T  PROVE x <= y
  <2>1. <<y, x>> \notin less /\ x \in Nat /\ y \in Nat
    BY <1>3
  <2> QED BY <2>1
<1> QED BY <1>4

LEMMA MinIsLeast ==
  ASSUME NEW T, T \subseteq Nat, T # {}
  PROVE  Min(T) \in T /\ \A y \in T : Min(T) <= y
BY LeastExists DEF Min

LEMMA MaxIsGreatest ==
  ASSUME NEW n \in Nat, NEW T, T \subseteq 0..n, T # {}
  PROVE  Max(T) \in T /\ \A y \in T : Max(T) >= y
<1> DEFINE U == {n - y : y \in T}
<1>1. U \subseteq Nat /\ U # {}
  OBVIOUS
<1>2. PICK u \in U : \A v \in U : u <= v
  BY <1>1, LeastExists
<1>3. PICK x \in T : u = n - x
  BY <1>2
<1>4. ASSUME NEW y \in T  PROVE x >= y
  <2>1. n - y \in U
    OBVIOUS
  <2>2. u <= n - y
    BY <1>2, <2>1
  <2>3. x \in Nat /\ y \in Nat
    OBVIOUS
  <2> QED BY <2>2, <2>3, <1>3
<1>5. \E z \in T : \A y \in T : z >= y
  BY <1>4
<1> QED BY <1>5 DEF Max

(***************************************************************************)
(* strlen(): the length in bytes of two texts one after the other is the   *)
(* sum of theirs.                                                          *)
(***************************************************************************)
Symbol == ToSet(Bytes)

LEMMA WidthIsNat == \A s \in Symbol : Width[s] \in Nat
<1>1. Width \in [ToSet(Bytes) -> 1..(STORE_NAME_MAX - 1)]
  BY TextAssumption
<1>2. 1..(STORE_NAME_MAX - 1) \subseteq Nat
  BY DEF STORE_NAME_MAX
<1> QED BY <1>1, <1>2 DEF Symbol

\* f[n] is the length of the first n symbols of t.
Sums(f, t, k) ==
  /\ f \in [0..k -> Nat]
  /\ f[0] = 0
  /\ \A n \in 1..k : f[n] = f[n - 1] + Width[t[n]]

LEMMA SumsExist ==
  ASSUME NEW t \in Seq(Symbol), NEW k \in 0..Len(t)
  PROVE  \E f : Sums(f, t, k)
<1> DEFINE bad == {n \in 0..Len(t) : ~\E f : Sums(f, t, n)}
<1>1. Len(t) \in Nat
  BY LenProperties
<1> SUFFICES ASSUME bad # {}  PROVE FALSE
  OBVIOUS
<1>2. bad \subseteq Nat
  BY <1>1
<1>3. PICK n \in bad : \A m \in bad : n <= m
  BY <1>2, LeastExists
<1>4. n \in 0..Len(t) /\ n \in Nat /\ ~\E f : Sums(f, t, n)
  BY <1>1
<1>5. CASE n = 0
  <2>1. Sums([m \in 0..0 |-> 0], t, 0)
    BY DEF Sums
  <2> QED BY <1>4, <1>5, <2>1
<1>6. CASE n # 0
  <2>1. n - 1 \in 0..Len(t) /\ n - 1 \notin bad
    BY <1>1, <1>3, <1>4, <1>6
  <2>2. PICK g : Sums(g, t, n - 1)
    BY <2>1
  <2> DEFINE f == [m \in 0..n |-> IF m = n THEN g[n - 1] + Width[t[n]] ELSE g[m]]
  <2>3. t[n] \in Symbol
    BY <1>1, <1>4, <1>6, ElementOfSeq
  <2>4. Width[t[n]] \in Nat /\ g[n - 1] \in Nat
    BY <2>2, <2>3, <1>4, <1>6, WidthIsNat DEF Sums
  <2>5. f \in [0..n -> Nat]
    BY <2>2, <2>4, <1>4, <1>6 DEF Sums
  <2>6. f[0] = 0
    BY <2>2, <1>4, <1>6 DEF Sums
  <2>7. ASSUME NEW m \in 1..n  PROVE f[m] = f[m - 1] + Width[t[m]]
    <3>1. m - 1 \in 0..n /\ m - 1 # n /\ m \in 0..n /\ n - 1 \in Nat
      BY <1>4, <1>6
    <3>2. f[m - 1] = g[m - 1]
      BY <3>1
    <3>3. CASE m = n
      BY <3>1, <3>2, <3>3
    <3>4. CASE m # n
      <4>1. m \in 1..(n - 1)
        BY <3>4, <1>4
      <4> QED BY <3>1, <3>2, <3>4, <4>1, <2>2 DEF Sums
    <3> QED BY <3>3, <3>4
  <2>8. Sums(f, t, n)
    BY <2>5, <2>6, <2>7 DEF Sums
  <2> QED BY <2>8, <1>4
<1> QED BY <1>5, <1>6

LEMMA SizeIsSum ==
  ASSUME NEW t \in Seq(Symbol)
  PROVE  \E f : Sums(f, t, Len(t)) /\ Size(t) = f[Len(t)]
<1> DEFINE k == Len(t)
           body(f) == [n \in 0..k |-> IF n = 0 THEN 0 ELSE f[n - 1] + Width[t[n]]]
           up == CHOOSE f : f = body(f)
<1>1. k \in Nat
  BY LenProperties
<1>2. PICK g : Sums(g, t, k)
  BY <1>1, SumsExist
<1>3. g = body(g)
  <2>1. ASSUME NEW n \in 0..k  PROVE g[n] = body(g)[n]
    <3>1. CASE n = 0
      BY <3>1, <1>2 DEF Sums
    <3>2. CASE n # 0
      <4>1. n \in 1..k
        BY <3>2, <1>1
      <4> QED BY <4>1, <3>2, <1>2 DEF Sums
    <3> QED BY <3>1, <3>2
  <2>2. g = [n \in 0..k |-> g[n]]
    BY <1>2 DEF Sums
  <2> QED BY <2>1, <2>2
<1>4. up = body(up)
  <2> HIDE DEF body
  <2> QED BY <1>3
<1>5. Size(t) = up[k]
  BY DEF Size
<1> HIDE DEF up
<1>6. \A n \in 0..k : up[n] = IF n = 0 THEN 0 ELSE up[n - 1] + Width[t[n]]
  BY <1>4
<1>7. \A n \in 0..k : up[n] \in Nat
  <2> DEFINE bad == {n \in 0..k : up[n] \notin Nat}
  <2> SUFFICES ASSUME bad # {}  PROVE FALSE
    OBVIOUS
  <2>1. bad \subseteq Nat
    BY <1>1
  <2>2. PICK n \in bad : \A m \in bad : n <= m
    BY <2>1, LeastExists
  <2>3. n \in 0..k /\ n \in Nat /\ up[n] \notin Nat
    BY <1>1
  <2>4. n # 0
    BY <2>3, <1>6
  <2>5. n - 1 \in 0..k /\ n - 1 \notin bad
    BY <1>1, <2>2, <2>3, <2>4
  <2>6. up[n - 1] \in Nat
    BY <2>5
  <2>7. t[n] \in Symbol
    BY <1>1, <2>3, <2>4, ElementOfSeq
  <2>8. Width[t[n]] \in Nat
    BY <2>7, WidthIsNat
  <2>9. up[n] = up[n - 1] + Width[t[n]]
    BY <1>6, <2>3, <2>4
  <2> QED BY <2>3, <2>6, <2>8, <2>9
<1>8. Sums(up, t, k)
  <2>1. up \in [0..k -> Nat]
    BY <1>4, <1>7
  <2>2. up[0] = 0
    BY <1>6, <1>1
  <2>3. ASSUME NEW n \in 1..k  PROVE up[n] = up[n - 1] + Width[t[n]]
    <3>1. n \in 0..k /\ n # 0
      BY <1>1
    <3> QED BY <3>1, <1>6
  <2> QED BY <2>1, <2>2, <2>3 DEF Sums
<1> QED BY <1>5, <1>8

LEMMA SumIsNat ==
  ASSUME NEW f, NEW t, NEW k \in Nat, Sums(f, t, k), NEW n \in 0..k
  PROVE  f[n] \in Nat
BY DEF Sums

\* f sums the k symbols of s; g sums a text t that has them after o others,
\* which come to z.
Follows(f, s, k, g, t, o, z) ==
  /\ k \in Nat /\ o \in Nat /\ z \in Nat
  /\ Sums(f, s, k)
  /\ \E l \in Nat : o + k <= l /\ Sums(g, t, l)
  /\ g[o] = z
  /\ \A n \in 1..k : t[o + n] = s[n] /\ Width[s[n]] \in Nat

LEMMA SumsAgree ==
  ASSUME NEW f, NEW s, NEW k, NEW g, NEW t, NEW o, NEW z, Follows(f, s, k, g, t, o, z)
  PROVE  \A n \in 0..k : g[o + n] = z + f[n]
<1>0. /\ k \in Nat /\ o \in Nat /\ z \in Nat /\ Sums(f, s, k) /\ g[o] = z
      /\ \A n \in 1..k : t[o + n] = s[n] /\ Width[s[n]] \in Nat
  BY DEF Follows
<1> USE <1>0
<1> PICK l \in Nat : o + k <= l /\ Sums(g, t, l)
  BY DEF Follows
<1> DEFINE bad == {n \in 0..k : g[o + n] # z + f[n]}
<1> SUFFICES ASSUME bad # {}  PROVE FALSE
  OBVIOUS
<1>1. bad \subseteq Nat
  OBVIOUS
<1>2. PICK n \in bad : \A m \in bad : n <= m
  BY <1>1, LeastExists
<1>3. n \in 0..k /\ n \in Nat /\ g[o + n] # z + f[n]
  OBVIOUS
<1>4. n # 0
  <2>1. o + 0 = o /\ f[0] = 0 /\ z + 0 = z
    BY DEF Sums
  <2> QED BY <2>1, <1>3
<1>5. n - 1 \in 0..k /\ n - 1 \notin bad /\ n \in 1..k
  BY <1>2, <1>3, <1>4
<1>6. g[o + (n - 1)] = z + f[n - 1]
  BY <1>5
<1>7. o + (n - 1) = o + n - 1 /\ o + n \in 1..l
  BY <1>3, <1>4
<1>8. f[n] = f[n - 1] + Width[s[n]]
  BY <1>5 DEF Sums
<1>9. f[n - 1] \in Nat /\ Width[s[n]] \in Nat
  BY <1>5, SumIsNat
<1>10. g[o + n] = g[o + n - 1] + Width[t[o + n]]
  BY <1>7 DEF Sums
<1>11. t[o + n] = s[n]
  BY <1>5
<1>12. g[o + n] = (z + f[n - 1]) + Width[s[n]]
  BY <1>6, <1>7, <1>10, <1>11
<1> HIDE DEF bad
<1> QED BY <1>3, <1>8, <1>9, <1>12

LEMMA SizeOfConcat ==
  ASSUME NEW s \in Seq(Symbol), NEW t \in Seq(Symbol)
  PROVE  /\ Size(s \o t) = Size(s) + Size(t)
         /\ Size(s) \in Nat /\ Size(t) \in Nat
<1> DEFINE st == s \o t
           j == Len(s)
           k == Len(t)
<1>1. /\ st \in Seq(Symbol) /\ Len(st) = j + k
      /\ j \in Nat /\ k \in Nat
      /\ \A i \in 1..(j + k) : st[i] = IF i <= j THEN s[i] ELSE t[i - j]
  BY ConcatProperties, LenProperties
<1> HIDE DEF st
<1>2. PICK f : Sums(f, s, j) /\ Size(s) = f[j]
  BY SizeIsSum
<1>3. PICK h : Sums(h, t, k) /\ Size(t) = h[k]
  BY SizeIsSum
<1>4. PICK g : Sums(g, st, j + k) /\ Size(st) = g[j + k]
  BY SizeIsSum, <1>1
<1>5. /\ \A n \in 1..j : Width[s[n]] \in Nat
      /\ \A n \in 1..k : Width[t[n]] \in Nat
  BY WidthIsNat, ElementOfSeq
<1> HIDE DEF j, k
<1>6. Size(s) \in Nat /\ Size(t) \in Nat
  <2>1. j \in 0..j /\ k \in 0..k
    BY <1>1
  <2> QED BY <2>1, <1>1, <1>2, <1>3, SumIsNat
<1>7. \A n \in 0..j : g[0 + n] = 0 + f[n]
  <2>1. g[0] = 0
    BY <1>4 DEF Sums
  <2>2. \A n \in 1..j : st[0 + n] = s[n] /\ Width[s[n]] \in Nat
    BY <1>1, <1>5
  <2>3. j + k \in Nat /\ 0 + j <= j + k /\ 0 \in Nat
    BY <1>1
  <2>4. Follows(f, s, j, g, st, 0, 0)
    BY <1>1, <1>2, <1>4, <2>1, <2>2, <2>3 DEF Follows
  <2> QED BY <2>4, SumsAgree
<1>8. g[j] = Size(s)
  <2>1. j \in 0..j /\ 0 + j = j /\ 0 + Size(s) = Size(s)
    BY <1>1, <1>6
  <2>2. g[0 + j] = 0 + f[j]
    BY <1>7, <2>1
  <2> QED BY <2>1, <2>2, <1>2
<1>9. \A n \in 0..k : g[j + n] = Size(s) + h[n]
  <2>1. ASSUME NEW n \in 1..k  PROVE st[j + n] = t[n]
    <3>1. j + n \in 1..(j + k) /\ ~(j + n <= j) /\ j + n - j = n
      BY <1>1
    <3> QED BY <3>1, <1>1
  <2>2. \A n \in 1..k : st[j + n] = t[n] /\ Width[t[n]] \in Nat
    BY <2>1, <1>5
  <2>3. j + k \in Nat /\ j + k <= j + k
    BY <1>1
  <2>4. Follows(h, t, k, g, st, j, Size(s))
    BY <1>1, <1>3, <1>4, <1>6, <1>8, <2>2, <2>3 DEF Follows
  <2> QED BY <2>4, SumsAgree
<1>10. g[j + k] = Size(s) + h[k]
  BY <1>9, <1>1
<1> QED BY <1>3, <1>4, <1>6, <1>10 DEF st

(***************************************************************************)
(* The suffix of a name.                                                   *)
(***************************************************************************)
Extensions == {TarGz \o SigExt, Cixpkg \o SigExt, Iso \o SigExt, TarGz, Cixpkg, Iso}

\* e ends t and leaves something in front of it.
Ends(e, t) ==
  /\ Len(e) < Len(t)
  /\ \A i \in 1..Len(e) : t[Len(t) - Len(e) + i] = e[i]

LEMMA ReverseProperties ==
  ASSUME NEW s \in Seq(Symbol)
  PROVE  /\ Reverse(s) \in Seq(Symbol) /\ Len(Reverse(s)) = Len(s)
         /\ \A i \in 1..Len(s) : Reverse(s)[i] = s[Len(s) - i + 1]
<1>1. Len(s) \in Nat /\ \A i \in 1..Len(s) : s[i] \in Symbol
  BY LenProperties, ElementOfSeq
<1>2. Reverse(s) = [i \in 1..Len(s) |-> s[Len(s) - i + 1]]
  BY DEF Reverse
<1>3. \A i \in 1..Len(s) : Len(s) - i + 1 \in 1..Len(s)
  BY <1>1
<1>4. Reverse(s) \in [1..Len(s) -> Symbol]
  BY <1>1, <1>2, <1>3
<1>5. Reverse(s) \in Seq(Symbol)
  BY <1>1, <1>4, SeqDef
<1>6. DOMAIN Reverse(s) = 1..Len(Reverse(s)) /\ Len(Reverse(s)) \in Nat
  BY <1>5, LenProperties
<1>7. Len(Reverse(s)) = Len(s)
  BY <1>1, <1>4, <1>6
<1> QED BY <1>2, <1>5, <1>7

LEMMA StrictSuffixEnds ==
  ASSUME NEW e \in Seq(Symbol), NEW t \in Seq(Symbol)
  PROVE  IsStrictSuffix(e, t) <=> Ends(e, t)
<1> DEFINE p == Reverse(e)
           q == Reverse(t)
           k == Len(e)
           n == Len(t)
<1>1. k \in Nat /\ n \in Nat
  BY LenProperties
<1>2. /\ p \in Seq(Symbol) /\ Len(p) = k /\ \A i \in 1..k : p[i] = e[k - i + 1]
      /\ q \in Seq(Symbol) /\ Len(q) = n /\ \A i \in 1..n : q[i] = t[n - i + 1]
  BY ReverseProperties
<1>3. IsSuffix(e, t) <=> k <= n /\ SubSeq(p, 1, k) = SubSeq(q, 1, k)
  BY <1>2 DEF IsSuffix, IsPrefix
<1>4. k <= n => /\ SubSeq(p, 1, k) \in Seq(Symbol) /\ Len(SubSeq(p, 1, k)) = k
                /\ SubSeq(q, 1, k) \in Seq(Symbol) /\ Len(SubSeq(q, 1, k)) = k
                /\ \A i \in 1..k : SubSeq(p, 1, k)[i] = p[i] /\ SubSeq(q, 1, k)[i] = q[i]
  <2> SUFFICES ASSUME k <= n  PROVE /\ SubSeq(p, 1, k) \in Seq(Symbol) /\ Len(SubSeq(p, 1, k)) = k
                /\ SubSeq(q, 1, k) \in Seq(Symbol) /\ Len(SubSeq(q, 1, k)) = k
                /\ \A i \in 1..k : SubSeq(p, 1, k)[i] = p[i] /\ SubSeq(q, 1, k)[i] = q[i]
    OBVIOUS
  <2>1. \A i \in 1..k : p[i] \in Symbol /\ q[i] \in Symbol
    BY <1>1, <1>2, ElementOfSeq
  <2> HIDE DEF p, q, k, n
  <2>2. /\ SubSeq(p, 1, k) \in Seq(Symbol)
        /\ Len(SubSeq(p, 1, k)) = IF 1 <= k THEN k - 1 + 1 ELSE 0
        /\ \A i \in 1..(k - 1 + 1) : SubSeq(p, 1, k)[i] = p[1 + i - 1]
    BY <1>1, <2>1, SubSeqProperties
  <2>3. /\ SubSeq(q, 1, k) \in Seq(Symbol)
        /\ Len(SubSeq(q, 1, k)) = IF 1 <= k THEN k - 1 + 1 ELSE 0
        /\ \A i \in 1..(k - 1 + 1) : SubSeq(q, 1, k)[i] = q[1 + i - 1]
    BY <1>1, <2>1, SubSeqProperties
  <2>4. k - 1 + 1 = k /\ \A i \in 1..k : 1 + i - 1 = i
    BY <1>1
  <2> QED BY <1>1, <2>2, <2>3, <2>4
<1>5. k <= n /\ SubSeq(p, 1, k) = SubSeq(q, 1, k) <=> k <= n /\ \A i \in 1..k : p[i] = q[i]
  <2> HIDE DEF p, q, k, n
  <2>1. ASSUME k <= n, \A i \in 1..k : p[i] = q[i]  PROVE SubSeq(p, 1, k) = SubSeq(q, 1, k)
    <3> DEFINE x == SubSeq(p, 1, k)
               y == SubSeq(q, 1, k)
    <3>1. x \in Seq(Symbol) /\ y \in Seq(Symbol) /\ Len(x) = Len(y) /\ \A i \in 1..Len(x) : x[i] = y[i]
      BY <1>4, <2>1
    <3> HIDE DEF x, y
    <3>2. x = y
      BY <3>1, SeqEqual
    <3> QED BY <3>2 DEF x, y
  <2>2. ASSUME k <= n, SubSeq(p, 1, k) = SubSeq(q, 1, k), NEW i \in 1..k  PROVE p[i] = q[i]
    BY <1>4, <2>2
  <2> QED BY <2>1, <2>2
<1>6. IsStrictSuffix(e, t) <=> k <= n /\ (\A i \in 1..k : p[i] = q[i]) /\ e # t
  BY <1>3, <1>5 DEF IsStrictSuffix
<1> HIDE DEF p, q, k, n
<1>7. ASSUME k <= n, \A i \in 1..k : p[i] = q[i], NEW i \in 1..k  PROVE t[n - k + i] = e[i]
  <2>1. k - i + 1 \in 1..k /\ k - i + 1 \in 1..n /\ k - (k - i + 1) + 1 = i /\ n - (k - i + 1) + 1 = n - k + i
    BY <1>1, <1>7
  <2>2. p[k - i + 1] = e[i] /\ q[k - i + 1] = t[n - k + i]
    BY <2>1, <1>2
  <2> QED BY <2>1, <2>2, <1>7
<1>8. ASSUME k <= n, \A i \in 1..k : t[n - k + i] = e[i], NEW i \in 1..k  PROVE p[i] = q[i]
  <2>1. k - i + 1 \in 1..k /\ i \in 1..n /\ n - k + (k - i + 1) = n - i + 1
    BY <1>1, <1>8
  <2>2. t[n - k + (k - i + 1)] = e[k - i + 1]
    BY <2>1, <1>8
  <2> QED BY <2>1, <2>2, <1>2
<1>9. ASSUME k = n, \A i \in 1..k : t[n - k + i] = e[i]  PROVE e = t
  <2>1. \A i \in 1..k : n - k + i = i
    BY <1>1, <1>9
  <2>2. Len(e) = Len(t) /\ \A i \in 1..Len(e) : e[i] = t[i]
    BY <1>9, <2>1 DEF k, n
  <2> QED BY <2>2, SeqEqual
<1>10. ASSUME k < n  PROVE e # t
  BY <1>10, <1>1 DEF k, n
<1>11. Ends(e, t) <=> k < n /\ \A i \in 1..k : t[n - k + i] = e[i]
  BY DEF Ends, k, n
<1>12. ASSUME Ends(e, t)  PROVE IsStrictSuffix(e, t)
  <2>1. k <= n /\ \A i \in 1..k : t[n - k + i] = e[i]
    BY <1>1, <1>11, <1>12
  <2> QED BY <2>1, <1>6, <1>8, <1>10, <1>11, <1>12
<1>13. ASSUME IsStrictSuffix(e, t)  PROVE Ends(e, t)
  <2>1. k <= n /\ (\A i \in 1..k : p[i] = q[i]) /\ e # t
    BY <1>6, <1>13
  <2>2. \A i \in 1..k : t[n - k + i] = e[i]
    BY <2>1, <1>7
  <2>3. k # n
    BY <2>1, <2>2, <1>9
  <2> QED BY <1>1, <1>11, <2>1, <2>2, <2>3
<1> QED BY <1>12, <1>13

NoDots(s) == \A i \in 1..(Len(s) - 1) : ~(s[i] = "." /\ s[i + 1] = ".")

LEMMA OwnSymbolsAreSymbols ==
  {"-", ".", "0", "1", "minisig", "tar", "gz", "cixpkg", "iso"} \subseteq Symbol
BY TextAssumption DEF OwnSymbols, Symbol

LEMMA SignatureTuples ==
  /\ TarGz \o SigExt = <<".", "tar", ".", "gz", ".", "minisig">>
  /\ Cixpkg \o SigExt = <<".", "cixpkg", ".", "minisig">>
  /\ Iso \o SigExt = <<".", "iso", ".", "minisig">>
<1> DEFINE tg == <<".", "tar", ".", "gz", ".", "minisig">>
           cp == <<".", "cixpkg", ".", "minisig">>
           is == <<".", "iso", ".", "minisig">>
<1>1. /\ SigExt \in Seq(Symbol) /\ Len(SigExt) = 2 /\ SigExt[1] = "." /\ SigExt[2] = "minisig"
      /\ TarGz \in Seq(Symbol) /\ Len(TarGz) = 4
      /\ TarGz[1] = "." /\ TarGz[2] = "tar" /\ TarGz[3] = "." /\ TarGz[4] = "gz"
      /\ Cixpkg \in Seq(Symbol) /\ Len(Cixpkg) = 2 /\ Cixpkg[1] = "." /\ Cixpkg[2] = "cixpkg"
      /\ Iso \in Seq(Symbol) /\ Len(Iso) = 2 /\ Iso[1] = "." /\ Iso[2] = "iso"
  BY OwnSymbolsAreSymbols DEF SigExt, TarGz, Cixpkg, Iso
<1>2. /\ tg \in Seq(Symbol) /\ Len(tg) = 6
      /\ cp \in Seq(Symbol) /\ Len(cp) = 4
      /\ is \in Seq(Symbol) /\ Len(is) = 4
  BY OwnSymbolsAreSymbols
<1>3. TarGz \o SigExt = tg
  <2>0. /\ TarGz \o SigExt \in Seq(Symbol) /\ Len(TarGz \o SigExt) = Len(TarGz) + Len(SigExt)
        /\ \A i \in 1..(Len(TarGz) + Len(SigExt)) :
             (TarGz \o SigExt)[i] = IF i <= Len(TarGz) THEN TarGz[i] ELSE SigExt[i - Len(TarGz)]
    BY <1>1, ConcatProperties
  <2>1. /\ TarGz \o SigExt \in Seq(Symbol) /\ Len(TarGz \o SigExt) = 6
        /\ \A i \in 1..6 : (TarGz \o SigExt)[i] = IF i <= 4 THEN TarGz[i] ELSE SigExt[i - 4]
    BY <1>1, <2>0
  <2>2. ASSUME NEW i \in 1..6  PROVE (TarGz \o SigExt)[i] = tg[i]
    <3>1. i \in {1, 2, 3, 4, 5, 6}
      OBVIOUS
    <3> QED BY <1>1, <2>1, <3>1
  <2>3. /\ Len(TarGz \o SigExt) = Len(tg)
        /\ \A i \in 1..Len(TarGz \o SigExt) : (TarGz \o SigExt)[i] = tg[i]
    BY <1>2, <2>1, <2>2
  <2> HIDE DEF tg, cp, is
  <2> QED BY <1>2, <2>1, <2>3, SeqEqual
<1>4. Cixpkg \o SigExt = cp
  <2>0. /\ Cixpkg \o SigExt \in Seq(Symbol) /\ Len(Cixpkg \o SigExt) = Len(Cixpkg) + Len(SigExt)
        /\ \A i \in 1..(Len(Cixpkg) + Len(SigExt)) :
             (Cixpkg \o SigExt)[i] = IF i <= Len(Cixpkg) THEN Cixpkg[i] ELSE SigExt[i - Len(Cixpkg)]
    BY <1>1, ConcatProperties
  <2>1. /\ Cixpkg \o SigExt \in Seq(Symbol) /\ Len(Cixpkg \o SigExt) = 4
        /\ \A i \in 1..4 : (Cixpkg \o SigExt)[i] = IF i <= 2 THEN Cixpkg[i] ELSE SigExt[i - 2]
    BY <1>1, <2>0
  <2>2. ASSUME NEW i \in 1..4  PROVE (Cixpkg \o SigExt)[i] = cp[i]
    <3>1. i \in {1, 2, 3, 4}
      OBVIOUS
    <3> QED BY <1>1, <2>1, <3>1
  <2>3. /\ Len(Cixpkg \o SigExt) = Len(cp)
        /\ \A i \in 1..Len(Cixpkg \o SigExt) : (Cixpkg \o SigExt)[i] = cp[i]
    BY <1>2, <2>1, <2>2
  <2> HIDE DEF tg, cp, is
  <2> QED BY <1>2, <2>1, <2>3, SeqEqual
<1>5. Iso \o SigExt = is
  <2>0. /\ Iso \o SigExt \in Seq(Symbol) /\ Len(Iso \o SigExt) = Len(Iso) + Len(SigExt)
        /\ \A i \in 1..(Len(Iso) + Len(SigExt)) :
             (Iso \o SigExt)[i] = IF i <= Len(Iso) THEN Iso[i] ELSE SigExt[i - Len(Iso)]
    BY <1>1, ConcatProperties
  <2>1. /\ Iso \o SigExt \in Seq(Symbol) /\ Len(Iso \o SigExt) = 4
        /\ \A i \in 1..4 : (Iso \o SigExt)[i] = IF i <= 2 THEN Iso[i] ELSE SigExt[i - 2]
    BY <1>1, <2>0
  <2>2. ASSUME NEW i \in 1..4  PROVE (Iso \o SigExt)[i] = is[i]
    <3>1. i \in {1, 2, 3, 4}
      OBVIOUS
    <3> QED BY <1>1, <2>1, <3>1
  <2>3. /\ Len(Iso \o SigExt) = Len(is)
        /\ \A i \in 1..Len(Iso \o SigExt) : (Iso \o SigExt)[i] = is[i]
    BY <1>2, <2>1, <2>2
  <2> HIDE DEF tg, cp, is
  <2> QED BY <1>2, <2>1, <2>3, SeqEqual
<1> QED BY <1>3, <1>4, <1>5

LEMMA ExtensionFacts ==
  ASSUME NEW e \in Extensions
  PROVE  /\ e \in Seq(Symbol) /\ Len(e) \in 2..6 /\ e # <<>>
         /\ e[1] = "." /\ NoDots(e)
<1>1. CASE e = TarGz
  BY <1>1, OwnSymbolsAreSymbols DEF TarGz, NoDots
<1>2. CASE e = Cixpkg
  BY <1>2, OwnSymbolsAreSymbols DEF Cixpkg, NoDots
<1>3. CASE e = Iso
  BY <1>3, OwnSymbolsAreSymbols DEF Iso, NoDots
<1>4. CASE e = TarGz \o SigExt
  <2> e = <<".", "tar", ".", "gz", ".", "minisig">>
    BY <1>4, SignatureTuples
  <2> QED BY OwnSymbolsAreSymbols DEF NoDots
<1>5. CASE e = Cixpkg \o SigExt
  <2> e = <<".", "cixpkg", ".", "minisig">>
    BY <1>5, SignatureTuples
  <2> QED BY OwnSymbolsAreSymbols DEF NoDots
<1>6. CASE e = Iso \o SigExt
  <2> e = <<".", "iso", ".", "minisig">>
    BY <1>6, SignatureTuples
  <2> QED BY OwnSymbolsAreSymbols DEF NoDots
<1> QED BY <1>1, <1>2, <1>3, <1>4, <1>5, <1>6 DEF Extensions

\* What the end of a text says about the entry that ends it.
LEMMA LastSymbols ==
  ASSUME NEW t \in Seq(Symbol), NEW e, Ends(e, t)
  PROVE  LET n == Len(t) IN
         /\ e = TarGz => t[n] = "gz"
         /\ e = Cixpkg => t[n] = "cixpkg"
         /\ e = Iso => t[n] = "iso"
         /\ e = TarGz \o SigExt => t[n] = "minisig" /\ t[n - 2] = "gz"
         /\ e = Cixpkg \o SigExt => t[n] = "minisig" /\ t[n - 2] = "cixpkg"
         /\ e = Iso \o SigExt => t[n] = "minisig" /\ t[n - 2] = "iso"
<1> DEFINE n == Len(t)
<1>1. n \in Nat
  BY LenProperties
<1>2. \A i \in 1..Len(e) : t[n - Len(e) + i] = e[i]
  BY DEF Ends
<1> HIDE DEF n
<1>3. e = TarGz => t[n] = "gz"
  <2> SUFFICES ASSUME e = TarGz  PROVE t[n] = "gz"
    OBVIOUS
  <2>1. Len(e) = 4 /\ e[4] = "gz"
    BY DEF TarGz
  <2> QED BY <1>1, <1>2, <2>1
<1>4. e = Cixpkg => t[n] = "cixpkg"
  <2> SUFFICES ASSUME e = Cixpkg  PROVE t[n] = "cixpkg"
    OBVIOUS
  <2>1. Len(e) = 2 /\ e[2] = "cixpkg"
    BY DEF Cixpkg
  <2> QED BY <1>1, <1>2, <2>1
<1>5. e = Iso => t[n] = "iso"
  <2> SUFFICES ASSUME e = Iso  PROVE t[n] = "iso"
    OBVIOUS
  <2>1. Len(e) = 2 /\ e[2] = "iso"
    BY DEF Iso
  <2> QED BY <1>1, <1>2, <2>1
<1>6. e = TarGz \o SigExt => t[n] = "minisig" /\ t[n - 2] = "gz"
  <2> SUFFICES ASSUME e = TarGz \o SigExt  PROVE t[n] = "minisig" /\ t[n - 2] = "gz"
    OBVIOUS
  <2>1. Len(e) = 6 /\ e[6] = "minisig" /\ e[4] = "gz"
    BY SignatureTuples
  <2>2. t[n - 6 + 6] = e[6] /\ t[n - 6 + 4] = e[4]
    <3>1. 6 \in 1..Len(e) /\ 4 \in 1..Len(e)
      BY <2>1
    <3> QED BY <1>2, <2>1, <3>1, Zenon
  <2>3. n - 6 + 6 = n /\ n - 6 + 4 = n - 2
    BY <1>1
  <2> QED BY <2>1, <2>2, <2>3
<1>7. e = Cixpkg \o SigExt => t[n] = "minisig" /\ t[n - 2] = "cixpkg"
  <2> SUFFICES ASSUME e = Cixpkg \o SigExt  PROVE t[n] = "minisig" /\ t[n - 2] = "cixpkg"
    OBVIOUS
  <2>1. Len(e) = 4 /\ e[4] = "minisig" /\ e[2] = "cixpkg"
    BY SignatureTuples
  <2>2. t[n - 4 + 4] = e[4] /\ t[n - 4 + 2] = e[2]
    <3>1. 4 \in 1..Len(e) /\ 2 \in 1..Len(e)
      BY <2>1
    <3> QED BY <1>2, <2>1, <3>1, Zenon
  <2>3. n - 4 + 4 = n /\ n - 4 + 2 = n - 2
    BY <1>1
  <2> QED BY <2>1, <2>2, <2>3
<1>8. e = Iso \o SigExt => t[n] = "minisig" /\ t[n - 2] = "iso"
  <2> SUFFICES ASSUME e = Iso \o SigExt  PROVE t[n] = "minisig" /\ t[n - 2] = "iso"
    OBVIOUS
  <2>1. Len(e) = 4 /\ e[4] = "minisig" /\ e[2] = "iso"
    BY SignatureTuples
  <2>2. t[n - 4 + 4] = e[4] /\ t[n - 4 + 2] = e[2]
    <3>1. 4 \in 1..Len(e) /\ 2 \in 1..Len(e)
      BY <2>1
    <3> QED BY <1>2, <2>1, <3>1, Zenon
  <2>3. n - 4 + 4 = n /\ n - 4 + 2 = n - 2
    BY <1>1
  <2> QED BY <2>1, <2>2, <2>3
<1> QED BY <1>3, <1>4, <1>5, <1>6, <1>7, <1>8 DEF n

\* No two entries of the table end the same text, so their order does not
\* matter (store_suffix_of()).
LEMMA OneSuffix ==
  ASSUME NEW t \in Seq(Symbol), NEW e \in Extensions, NEW f \in Extensions, Ends(e, t), Ends(f, t)
  PROVE  e = f
<1> DEFINE facts(x) ==
      /\ x = TarGz => t[Len(t)] = "gz"
      /\ x = Cixpkg => t[Len(t)] = "cixpkg"
      /\ x = Iso => t[Len(t)] = "iso"
      /\ x = TarGz \o SigExt => t[Len(t)] = "minisig" /\ t[Len(t) - 2] = "gz"
      /\ x = Cixpkg \o SigExt => t[Len(t)] = "minisig" /\ t[Len(t) - 2] = "cixpkg"
      /\ x = Iso \o SigExt => t[Len(t)] = "minisig" /\ t[Len(t) - 2] = "iso"
<1>1. facts(e) /\ facts(f)
  BY LastSymbols
<1> DEFINE g1 == TarGz \o SigExt
           g2 == Cixpkg \o SigExt
           g3 == Iso \o SigExt
<1>2. /\ e \in {g1, g2, g3, TarGz, Cixpkg, Iso}
      /\ f \in {g1, g2, g3, TarGz, Cixpkg, Iso}
  BY DEF Extensions
<1> DEFINE
           last == t[Len(t)]
           third == t[Len(t) - 2]
<1>3. ASSUME NEW x, facts(x)
      PROVE  /\ x = g1 => last = "minisig" /\ third = "gz"
             /\ x = g2 => last = "minisig" /\ third = "cixpkg"
             /\ x = g3 => last = "minisig" /\ third = "iso"
             /\ x = TarGz => last = "gz"
             /\ x = Cixpkg => last = "cixpkg"
             /\ x = Iso => last = "iso"
  BY <1>3
<1> HIDE DEF g1, g2, g3, last, third, facts
<1>4. last = "gz" => e = TarGz /\ f = TarGz
  BY <1>1, <1>2, <1>3
<1>5. last = "cixpkg" => e = Cixpkg /\ f = Cixpkg
  BY <1>1, <1>2, <1>3
<1>6. last = "iso" => e = Iso /\ f = Iso
  BY <1>1, <1>2, <1>3
<1>7. last = "minisig" /\ third = "gz" => e = g1 /\ f = g1
  BY <1>1, <1>2, <1>3
<1>8. last = "minisig" /\ third = "cixpkg" => e = g2 /\ f = g2
  BY <1>1, <1>2, <1>3
<1>9. last = "minisig" /\ third = "iso" => e = g3 /\ f = g3
  BY <1>1, <1>2, <1>3
<1> QED BY <1>1, <1>2, <1>3, <1>4, <1>5, <1>6, <1>7, <1>8, <1>9

LEMMA TableIsExtensions ==
  /\ Len(SuffixTable) = 6
  /\ \A i \in 1..6 : SuffixTable[i] \in Extensions
  /\ \A e \in Extensions : \E i \in 1..6 : SuffixTable[i] = e
<1> DEFINE g1 == TarGz \o SigExt
           g2 == Cixpkg \o SigExt
           g3 == Iso \o SigExt
<1>1. SuffixTable = <<g1, g2, g3, TarGz, Cixpkg, Iso>>
  BY DEF SuffixTable
<1>2. Extensions = {g1, g2, g3, TarGz, Cixpkg, Iso}
  BY DEF Extensions
<1> HIDE DEF g1, g2, g3
<1> QED BY <1>1, <1>2

\* The entry SuffixOf finds is the one that ends the text.
LEMMA SuffixCases ==
  ASSUME NEW t \in Seq(Symbol)
  PROVE  \/ SuffixOf(t) = <<>> /\ \A e \in Extensions : ~Ends(e, t)
         \/ SuffixOf(t) \in Extensions /\ Ends(SuffixOf(t), t)
<1> DEFINE I == {i \in 1..Len(SuffixTable) : IsStrictSuffix(SuffixTable[i], t)}
<1>1. I = {i \in 1..6 : Ends(SuffixTable[i], t)}
  BY TableIsExtensions, StrictSuffixEnds, ExtensionFacts
<1>2. SuffixOf(t) = IF (IF I # {} THEN Min(I) ELSE 0) = 0 THEN <<>>
                    ELSE SuffixTable[IF I # {} THEN Min(I) ELSE 0]
  BY DEF SuffixOf, SelectInSeq
<1> HIDE DEF I
<1>3. CASE I = {}
  BY <1>1, <1>2, <1>3, TableIsExtensions
<1>4. CASE I # {}
  <2>0. I \subseteq Nat
    BY <1>1
  <2>1. Min(I) \in I
    BY <2>0, <1>4, MinIsLeast
  <2>2. Min(I) \in 1..6 /\ Ends(SuffixTable[Min(I)], t)
    BY <1>1, <2>1
  <2>3. SuffixOf(t) = SuffixTable[Min(I)]
    BY <1>2, <1>4, <2>2
  <2> QED BY <2>2, <2>3, TableIsExtensions
<1> QED BY <1>3, <1>4

LEMMA SuffixOfEnds ==
  ASSUME NEW t \in Seq(Symbol), NEW e \in Extensions, Ends(e, t)
  PROVE  SuffixOf(t) = e
BY SuffixCases, OneSuffix

(***************************************************************************)
(* Parts of texts.                                                         *)
(***************************************************************************)
LEMMA PartOf ==
  ASSUME NEW t \in Seq(Symbol), NEW m \in Nat, NEW n \in Nat, m >= 1, m <= n + 1, n <= Len(t)
  PROVE  /\ SubSeq(t, m, n) \in Seq(Symbol)
         /\ Len(SubSeq(t, m, n)) = n - m + 1
         /\ \A i \in 1..(n - m + 1) : SubSeq(t, m, n)[i] = t[m + i - 1]
<1>1. Len(t) \in Nat
  BY LenProperties
<1>2. \A i \in m..n : i \in 1..Len(t)
  BY <1>1
<1>3. \A i \in m..n : t[i] \in Symbol
  BY <1>2, ElementOfSeq
<1>4. /\ SubSeq(t, m, n) \in Seq(Symbol)
      /\ Len(SubSeq(t, m, n)) = IF m <= n THEN n - m + 1 ELSE 0
      /\ \A i \in 1..(n - m + 1) : SubSeq(t, m, n)[i] = t[m + i - 1]
  BY <1>3, SubSeqProperties
<1> QED BY <1>4

LEMMA JoinOf ==
  ASSUME NEW s \in Seq(Symbol), NEW t \in Seq(Symbol)
  PROVE  /\ s \o t \in Seq(Symbol)
         /\ Len(s \o t) = Len(s) + Len(t) /\ Len(s) \in Nat /\ Len(t) \in Nat
         /\ \A i \in 1..Len(s) : (s \o t)[i] = s[i]
         /\ \A i \in 1..Len(t) : (s \o t)[Len(s) + i] = t[i]
<1>1. /\ s \o t \in Seq(Symbol) /\ Len(s \o t) = Len(s) + Len(t)
      /\ \A i \in 1..(Len(s) + Len(t)) : (s \o t)[i] = IF i <= Len(s) THEN s[i] ELSE t[i - Len(s)]
  BY ConcatProperties
<1>2. Len(s) \in Nat /\ Len(t) \in Nat
  BY LenProperties
<1>3. ASSUME NEW i \in 1..Len(s)  PROVE (s \o t)[i] = s[i]
  <2>1. i \in 1..(Len(s) + Len(t)) /\ i <= Len(s)
    BY <1>2
  <2> QED BY <1>1, <2>1
<1>4. ASSUME NEW i \in 1..Len(t)  PROVE (s \o t)[Len(s) + i] = t[i]
  <2>1. Len(s) + i \in 1..(Len(s) + Len(t)) /\ ~(Len(s) + i <= Len(s)) /\ Len(s) + i - Len(s) = i
    BY <1>2
  <2> QED BY <1>1, <2>1
<1> QED BY <1>1, <1>2, <1>3, <1>4

LEMMA JoinIsAssociative ==
  ASSUME NEW s \in Seq(Symbol), NEW t \in Seq(Symbol), NEW u \in Seq(Symbol)
  PROVE  (s \o t) \o u = s \o (t \o u)
BY ConcatAssociative

LEMMA EmptyIsNoSymbols ==
  ASSUME NEW s \in Seq(Symbol)
  PROVE  Len(s) \in Nat /\ (s = <<>> <=> Len(s) = 0)
<1>1. Len(s) \in Nat
  BY LenProperties
<1>2. s = <<>> => Len(s) = 0
  BY EmptySeq
<1>3. s # <<>> => Len(s) # 0
  BY EmptySeq
<1> QED BY <1>1, <1>2, <1>3

\* The two parts of a text that is a concatenation.
LEMMA PartsOfJoin ==
  ASSUME NEW s \in Seq(Symbol), NEW t \in Seq(Symbol)
  PROVE  /\ SubSeq(s \o t, 1, Len(s)) = s
         /\ SubSeq(s \o t, Len(s) + 1, Len(s) + Len(t)) = t
<1> DEFINE u == s \o t
           x == SubSeq(u, 1, Len(s))
           y == SubSeq(u, Len(s) + 1, Len(s) + Len(t))
<1>1. /\ u \in Seq(Symbol)
      /\ Len(u) = Len(s) + Len(t) /\ Len(s) \in Nat /\ Len(t) \in Nat
      /\ \A i \in 1..Len(s) : u[i] = s[i]
      /\ \A i \in 1..Len(t) : u[Len(s) + i] = t[i]
  BY JoinOf
<1> HIDE DEF u
<1>2. /\ x \in Seq(Symbol) /\ Len(x) = Len(s) - 1 + 1
      /\ \A i \in 1..(Len(s) - 1 + 1) : x[i] = u[1 + i - 1]
  BY <1>1, PartOf
<1>3. /\ y \in Seq(Symbol) /\ Len(y) = Len(s) + Len(t) - (Len(s) + 1) + 1
      /\ \A i \in 1..(Len(s) + Len(t) - (Len(s) + 1) + 1) : y[i] = u[Len(s) + 1 + i - 1]
  <2>1. Len(s) + 1 \in Nat /\ Len(s) + Len(t) \in Nat /\ Len(s) + 1 <= Len(s) + Len(t) + 1
    BY <1>1
  <2> QED BY <1>1, <2>1, PartOf
<1> HIDE DEF x, y
<1>4. Len(s) - 1 + 1 = Len(s) /\ Len(s) + Len(t) - (Len(s) + 1) + 1 = Len(t)
  BY <1>1
<1>5. ASSUME NEW i \in 1..Len(s)  PROVE x[i] = s[i]
  <2>1. 1 + i - 1 = i
    BY <1>1
  <2> QED BY <1>1, <1>2, <1>4, <2>1
<1>6. ASSUME NEW i \in 1..Len(t)  PROVE y[i] = t[i]
  <2>1. Len(s) + 1 + i - 1 = Len(s) + i
    BY <1>1
  <2> QED BY <1>1, <1>3, <1>4, <2>1
<1>7. x = s
  BY <1>2, <1>4, <1>5, SeqEqual
<1>8. y = t
  BY <1>3, <1>4, <1>6, SeqEqual
<1> QED BY <1>7, <1>8 DEF x, y, u

\* Where a text is cut in two, the parts make it up.
LEMMA CutAndJoined ==
  ASSUME NEW t \in Seq(Symbol), NEW n \in 0..Len(t)
  PROVE  t = SubSeq(t, 1, n) \o SubSeq(t, n + 1, Len(t))
<1>1. Len(t) \in Nat
  BY LenProperties
<1>2. 1 \in 1..(Len(t) + 1) /\ n \in (1 - 1)..Len(t) /\ Len(t) \in n..Len(t)
  BY <1>1
<1>3. SubSeq(t, 1, n) \o SubSeq(t, n + 1, Len(t)) = SubSeq(t, 1, Len(t))
  BY <1>2, ConcatAdjacentSubSeq
<1> QED BY <1>3, SubSeqFull

LEMMA JoinEnds ==
  ASSUME NEW s \in Seq(Symbol), s # <<>>, NEW e \in Extensions
  PROVE  /\ SuffixOf(s \o e) = e /\ StemOf(s \o e) = s
         /\ s \o e \in Seq(Symbol) /\ s \o e # <<>>
<1>1. e \in Seq(Symbol) /\ Len(e) \in 2..6
  BY ExtensionFacts
<1>2. /\ s \o e \in Seq(Symbol)
      /\ Len(s \o e) = Len(s) + Len(e) /\ Len(s) \in Nat /\ Len(e) \in Nat
      /\ \A i \in 1..Len(e) : (s \o e)[Len(s) + i] = e[i]
  BY <1>1, JoinOf
<1>3. Len(s) # 0
  BY EmptyIsNoSymbols
<1>4. Len(s \o e) - Len(e) = Len(s) /\ Len(e) < Len(s \o e)
  BY <1>2, <1>3
<1>5. Ends(e, s \o e)
  BY <1>2, <1>4 DEF Ends
<1>6. SuffixOf(s \o e) = e
  BY <1>2, <1>5, SuffixOfEnds
<1>7. StemOf(s \o e) = SubSeq(s \o e, 1, Len(s))
  BY <1>4, <1>6 DEF StemOf
<1>8. StemOf(s \o e) = s
  BY <1>1, <1>7, PartsOfJoin
<1>9. s \o e # <<>>
  BY <1>2, <1>3, EmptyIsNoSymbols
<1> QED BY <1>2, <1>6, <1>8, <1>9

LEMMA StemAndSuffix ==
  ASSUME NEW t \in Seq(Symbol), SuffixOf(t) # <<>>
  PROVE  /\ SuffixOf(t) \in Extensions
         /\ StemOf(t) \in Seq(Symbol) /\ StemOf(t) # <<>>
         /\ t = StemOf(t) \o SuffixOf(t)
<1> DEFINE e == SuffixOf(t)
           n == Len(t) - Len(e)
           y == SubSeq(t, n + 1, Len(t))
<1>1. e \in Extensions /\ Ends(e, t)
  BY SuffixCases
<1>2. e \in Seq(Symbol) /\ Len(e) \in 2..6
  BY <1>1, ExtensionFacts
<1>3. StemOf(t) = SubSeq(t, 1, n)
  BY DEF StemOf
<1> HIDE DEF e
<1>4. Len(t) \in Nat /\ n \in 1..Len(t) /\ Len(t) = n + Len(e)
  <2>1. Len(t) \in Nat /\ Len(e) < Len(t)
    BY <1>1, LenProperties DEF Ends
  <2> QED BY <2>1, <1>2
<1>5. \A i \in 1..Len(e) : t[n + i] = e[i]
  BY <1>1 DEF Ends
<1> HIDE DEF n
<1>6. StemOf(t) \in Seq(Symbol) /\ Len(StemOf(t)) = n - 1 + 1
  BY <1>3, <1>4, PartOf
<1>7. StemOf(t) # <<>>
  BY <1>4, <1>6, EmptyIsNoSymbols
<1>8. /\ y \in Seq(Symbol) /\ Len(y) = Len(t) - (n + 1) + 1
      /\ \A i \in 1..(Len(t) - (n + 1) + 1) : y[i] = t[n + 1 + i - 1]
  <2>1. n + 1 \in Nat /\ n + 1 >= 1 /\ n + 1 <= Len(t) + 1
    BY <1>4
  <2> QED BY <1>4, <2>1, PartOf
<1>9. Len(t) - (n + 1) + 1 = Len(e)
  BY <1>2, <1>4
<1>10. ASSUME NEW i \in 1..Len(e)  PROVE y[i] = e[i]
  <2>1. n + 1 + i - 1 = n + i
    BY <1>4
  <2> QED BY <1>5, <1>8, <1>9, <2>1
<1>11. t = SubSeq(t, 1, n) \o y
  BY <1>4, CutAndJoined
<1> HIDE DEF y
<1>12. y = e
  BY <1>2, <1>8, <1>9, <1>10, SeqEqual
<1> QED BY <1>1, <1>3, <1>6, <1>7, <1>11, <1>12 DEF e

(***************************************************************************)
(* The tail of a stem: release and architecture.                           *)
(***************************************************************************)
LEMMA LastDashFacts ==
  ASSUME NEW t \in Seq(Symbol)
  PROVE  /\ LastDash(t) \in 0..Len(t) /\ Len(t) \in Nat
         /\ LastDash(t) # 0 => t[LastDash(t)] = "-"
         /\ \A i \in (LastDash(t) + 1)..Len(t) : t[i] # "-"
<1> DEFINE I == {i \in 1..Len(t) : t[i] = "-"}
<1>1. Len(t) \in Nat
  BY LenProperties
<1>2. LastDash(t) = IF I # {} THEN Max(I) ELSE 0
  BY DEF LastDash, SelectLastInSeq
<1>3. CASE I = {}
  <2>1. LastDash(t) = 0
    BY <1>2, <1>3
  <2>2. \A i \in 1..Len(t) : t[i] # "-"
    BY <1>3
  <2> QED BY <1>1, <2>1, <2>2
<1>4. CASE I # {}
  <2>1. I \subseteq 0..Len(t)
    BY <1>1
  <2>2. Max(I) \in I /\ \A y \in I : Max(I) >= y
    BY <1>1, <1>4, <2>1, MaxIsGreatest
  <2>3. LastDash(t) = Max(I)
    BY <1>2, <1>4
  <2>4. ASSUME NEW i \in (Max(I) + 1)..Len(t)  PROVE t[i] # "-"
    <3>1. Max(I) \in 1..Len(t)
      BY <2>2
    <3>2. i \in 1..Len(t) /\ ~(Max(I) >= i)
      BY <1>1, <3>1
    <3> QED BY <2>2, <3>2
  <2> QED BY <1>1, <2>2, <2>3, <2>4
<1> QED BY <1>3, <1>4

LEMMA LastDashIs ==
  ASSUME NEW t \in Seq(Symbol), NEW d \in 1..Len(t), t[d] = "-",
         \A i \in (d + 1)..Len(t) : t[i] # "-"
  PROVE  LastDash(t) = d
<1> DEFINE l == LastDash(t)
<1>1. /\ l \in 0..Len(t) /\ Len(t) \in Nat
      /\ l # 0 => t[l] = "-"
      /\ \A i \in (l + 1)..Len(t) : t[i] # "-"
  BY LastDashFacts
<1> HIDE DEF l
<1>2. ~(l < d)
  <2> SUFFICES ASSUME l < d  PROVE FALSE
    OBVIOUS
  <2>1. d \in (l + 1)..Len(t)
    BY <1>1
  <2> QED BY <1>1, <2>1
<1>3. ~(l > d)
  <2> SUFFICES ASSUME l > d  PROVE FALSE
    OBVIOUS
  <2>1. l \in (d + 1)..Len(t) /\ l # 0
    BY <1>1
  <2> QED BY <1>1, <2>1
<1>4. l = d
  BY <1>1, <1>2, <1>3
<1> QED BY <1>4 DEF l

\* The end of a stem that spells release r.
RelTail(r) == IF r = <<>> THEN <<>> ELSE <<"-">> \o r

OnlyDigits(r) == \A i \in 1..Len(r) : r[i] \in Digits

LEMMA DashIsText ==
  /\ <<"-">> \in Seq(Symbol) /\ Len(<<"-">>) = 1 /\ <<"-">>[1] = "-" /\ <<>> \in Seq(Symbol)
BY OwnSymbolsAreSymbols, EmptySeq

LEMMA RelTailFacts ==
  ASSUME NEW r \in Seq(Symbol), r # <<>>
  PROVE  /\ RelTail(r) \in Seq(Symbol) /\ Len(RelTail(r)) = 1 + Len(r) /\ Len(r) \in Nat \ {0}
         /\ RelTail(r)[1] = "-"
         /\ \A i \in 1..Len(r) : RelTail(r)[1 + i] = r[i]
<1> DEFINE h == <<"-">>
<1>1. h \in Seq(Symbol) /\ Len(h) = 1 /\ h[1] = "-"
  BY DashIsText
<1>2. RelTail(r) = h \o r
  BY DEF RelTail
<1> HIDE DEF h
<1>3. /\ h \o r \in Seq(Symbol)
      /\ Len(h \o r) = Len(h) + Len(r) /\ Len(r) \in Nat
      /\ \A i \in 1..Len(h) : (h \o r)[i] = h[i]
      /\ \A i \in 1..Len(r) : (h \o r)[Len(h) + i] = r[i]
  BY <1>1, JoinOf
<1>4. Len(r) # 0
  BY EmptyIsNoSymbols
<1>5. (h \o r)[1] = "-"
  BY <1>1, <1>3
<1> QED BY <1>1, <1>2, <1>3, <1>4, <1>5

\* A release put after a base with a version is read back as it was written.
LEMMA ReleaseIsRead ==
  ASSUME NEW b \in Seq(Symbol), b # <<>>, HasVersion(b),
         NEW r \in Seq(Symbol), r # <<>>, OnlyDigits(r)
  PROVE  /\ ReleaseOf(b \o RelTail(r)) = r /\ WithoutRelease(b \o RelTail(r)) = b
         /\ b \o RelTail(r) \in Seq(Symbol) /\ b \o RelTail(r) # <<>>
         /\ Last(b \o RelTail(r)) \in Digits
<1> DEFINE R == RelTail(r)
           s == b \o R
           d == Len(b) + 1
<1>1. /\ R \in Seq(Symbol) /\ Len(R) = 1 + Len(r) /\ Len(r) \in Nat \ {0}
      /\ R[1] = "-" /\ \A i \in 1..Len(r) : R[1 + i] = r[i]
  BY RelTailFacts
<1> HIDE DEF R
<1>2. /\ s \in Seq(Symbol) /\ Len(s) = Len(b) + Len(R)
      /\ Len(b) \in Nat /\ Len(R) \in Nat
      /\ \A i \in 1..Len(b) : s[i] = b[i]
      /\ \A i \in 1..Len(R) : s[Len(b) + i] = R[i]
  BY <1>1, JoinOf
<1>3. Len(b) # 0
  BY EmptyIsNoSymbols
<1>4. SubSeq(s, 1, Len(b)) = b
  BY <1>1, PartsOfJoin
<1> HIDE DEF s
<1>5. d \in 1..Len(s) /\ d > 1 /\ d < Len(s) /\ Len(s) = d + Len(r)
  BY <1>1, <1>2, <1>3
<1>6. s[d] = "-"
  BY <1>1, <1>2
<1>7. ASSUME NEW i \in 1..Len(r)  PROVE s[d + i] = r[i]
  <2>1. 1 + i \in 1..Len(R) /\ Len(b) + (1 + i) = d + i
    BY <1>1, <1>2
  <2>2. s[Len(b) + (1 + i)] = R[1 + i]
    BY <1>2, <2>1
  <2> QED BY <1>1, <2>1, <2>2
<1>8. ASSUME NEW i \in (d + 1)..Len(s)  PROVE s[i] \in Digits /\ s[i] # "-"
  <2>1. i - d \in 1..Len(r) /\ d + (i - d) = i
    BY <1>1, <1>2, <1>5
  <2>2. s[i] = r[i - d]
    BY <1>7, <2>1
  <2>3. r[i - d] \in Digits
    BY <2>1 DEF OnlyDigits
  <2> QED BY <2>2, <2>3 DEF Digits
<1>9. LastDash(s) = d
  BY <1>2, <1>5, <1>6, <1>8, LastDashIs
<1>10. Before(s, d) = b
  <2>1. d - 1 = Len(b)
    BY <1>2
  <2> QED BY <1>4, <2>1 DEF Before
<1>11. HasDigit(LastComponent(Before(s, d)))
  BY <1>10 DEF HasVersion
<1> DEFINE y == After(s, d)
<1>12. y = r
  <2>1. /\ y \in Seq(Symbol) /\ Len(y) = Len(s) - (d + 1) + 1
        /\ \A i \in 1..(Len(s) - (d + 1) + 1) : y[i] = s[d + 1 + i - 1]
    <3>1. d + 1 \in Nat /\ Len(s) \in Nat /\ d + 1 >= 1 /\ d + 1 <= Len(s) + 1 /\ Len(s) <= Len(s)
      BY <1>1, <1>2, <1>5
    <3> QED BY <1>2, <3>1, PartOf DEF After
  <2>2. Len(s) - (d + 1) + 1 = Len(r)
    BY <1>1, <1>2, <1>5
  <2>3. ASSUME NEW i \in 1..Len(r)  PROVE y[i] = r[i]
    <3>1. d + 1 + i - 1 = d + i
      BY <1>2
    <3> QED BY <1>7, <2>1, <2>2, <3>1
  <2> HIDE DEF y
  <2> QED BY <2>1, <2>2, <2>3, SeqEqual
<1>13. ReleaseOf(s) = r
  BY <1>5, <1>8, <1>9, <1>11, <1>12 DEF ReleaseOf
<1>14. WithoutRelease(s) = b
  BY <1>9, <1>10, <1>13 DEF WithoutRelease
<1>15. Len(s) \in (d + 1)..Len(s)
  BY <1>1, <1>2, <1>5
<1>16. Last(s) \in Digits
  BY <1>8, <1>15 DEF Last
<1>17. s # <<>>
  BY <1>2, <1>5, EmptyIsNoSymbols
<1> QED BY <1>2, <1>13, <1>14, <1>16, <1>17 DEF s, R

\* A stem is its base and its release.
LEMMA BaseAndRelease ==
  ASSUME NEW s \in Seq(Symbol), s # <<>>
  PROVE  /\ ReleaseOf(s) \in Seq(Symbol) /\ OnlyDigits(ReleaseOf(s))
         /\ WithoutRelease(s) \in Seq(Symbol) /\ WithoutRelease(s) # <<>>
         /\ s = WithoutRelease(s) \o RelTail(ReleaseOf(s))
         /\ ReleaseOf(s) # <<>> => HasVersion(WithoutRelease(s))
         /\ ReleaseOf(s) = <<>> => WithoutRelease(s) = s
<1> DEFINE d == LastDash(s)
           r == ReleaseOf(s)
<1>1. CASE r = <<>>
  <2>1. r \in Seq(Symbol) /\ OnlyDigits(r)
    BY <1>1, DashIsText DEF OnlyDigits
  <2>2. WithoutRelease(s) = s
    BY <1>1 DEF WithoutRelease
  <2>3. s \o RelTail(r) = s
    BY <1>1, ConcatEmptySeq DEF RelTail
  <2> QED BY <1>1, <2>1, <2>2, <2>3
<1>2. CASE r # <<>>
  <2>1. /\ d > 1 /\ d < Len(s)
        /\ \A i \in (d + 1)..Len(s) : s[i] \in Digits
        /\ HasDigit(LastComponent(Before(s, d)))
        /\ r = After(s, d)
    BY <1>2 DEF ReleaseOf
  <2>2. d \in 0..Len(s) /\ Len(s) \in Nat /\ (d # 0 => s[d] = "-")
    BY LastDashFacts
  <2>3. WithoutRelease(s) = Before(s, d)
    BY <1>2 DEF WithoutRelease
  <2> DEFINE b == SubSeq(s, 1, d - 1)
             y == SubSeq(s, d, Len(s))
  <2>4. Before(s, d) = b /\ r = SubSeq(s, d + 1, Len(s))
    BY <2>1 DEF Before, After
  <2> HIDE DEF d, r
  <2>5. d - 1 \in 1..Len(s) /\ d - 1 \in Nat /\ s[d] = "-" /\ d \in 1..Len(s) /\ d \in Nat
    BY <2>1, <2>2
  <2>6. b \in Seq(Symbol) /\ Len(b) = d - 1 - 1 + 1
    BY <2>2, <2>5, PartOf
  <2>7. b # <<>>
    BY <2>5, <2>6, EmptyIsNoSymbols
  <2>8. s = b \o y
    <3>1. d - 1 \in 0..Len(s) /\ d - 1 + 1 = d
      BY <2>5
    <3>2. s = SubSeq(s, 1, d - 1) \o SubSeq(s, d - 1 + 1, Len(s))
      BY <3>1, CutAndJoined
    <3> QED BY <3>1, <3>2
  <2>9. y = <<"-">> \o r
    <3>1. Len(s) \in d..Len(s)
      BY <2>2, <2>5
    <3>2. y = <<s[d]>> \o SubSeq(s, d + 1, Len(s))
      BY <2>5, <3>1, SubSeqRecursiveFirst
    <3> QED BY <2>4, <2>5, <3>2
  <2>10. /\ r \in Seq(Symbol) /\ Len(r) = Len(s) - (d + 1) + 1
         /\ \A i \in 1..(Len(s) - (d + 1) + 1) : r[i] = s[d + 1 + i - 1]
    <3>1. d + 1 \in Nat /\ d + 1 >= 1 /\ d + 1 <= Len(s) + 1 /\ Len(s) <= Len(s)
      BY <2>1, <2>2, <2>5
    <3> QED BY <2>2, <2>4, <3>1, PartOf
  <2>11. OnlyDigits(r)
    <3> SUFFICES ASSUME NEW i \in 1..Len(r)  PROVE r[i] \in Digits
      BY DEF OnlyDigits
    <3>1. d + 1 + i - 1 \in (d + 1)..Len(s)
      BY <2>2, <2>5, <2>10
    <3> QED BY <2>1, <2>10, <3>1
  <2>12. HasVersion(b)
    BY <2>1, <2>4 DEF HasVersion
  <2>13. s = b \o RelTail(r)
    BY <1>2, <2>8, <2>9 DEF RelTail, r
  <2> QED BY <1>2, <2>3, <2>4, <2>6, <2>7, <2>10, <2>11, <2>12, <2>13 DEF r
<1> QED BY <1>1, <1>2

LEMMA ArchSymbols ==
  ASSUME NEW a \in Architectures
  PROVE  a \in Symbol /\ a \notin Digits /\ a # "-" /\ a # "." /\ a # ""
BY TextAssumption DEF Symbol, Separators

LEMMA ArchTailFacts ==
  ASSUME NEW a \in Architectures
  PROVE  /\ ArchTail(<<a>>) = <<"-", a>> /\ ArchTail(<<a>>) \in Seq(Symbol)
         /\ Len(ArchTail(<<a>>)) = 2 /\ ArchTail(<<a>>)[1] = "-" /\ ArchTail(<<a>>)[2] = a
<1> DEFINE w == <<a>>
           u == <<"-", a>>
           h == <<"-">>
<1>1. a \in Symbol /\ "-" \in Symbol
  BY ArchSymbols, OwnSymbolsAreSymbols
<1>2. w \in Seq(Symbol) /\ Len(w) = 1 /\ w[1] = a /\ w # <<>>
  BY <1>1
<1>3. u \in Seq(Symbol) /\ Len(u) = 2 /\ u[1] = "-" /\ u[2] = a
  BY <1>1
<1>4. h \in Seq(Symbol) /\ Len(h) = 1 /\ h[1] = "-"
  BY DashIsText
<1>5. ArchTail(w) = h \o w
  BY <1>2 DEF ArchTail
<1> HIDE DEF w, u, h
<1>6. /\ h \o w \in Seq(Symbol) /\ Len(h \o w) = Len(h) + Len(w)
      /\ \A i \in 1..Len(h) : (h \o w)[i] = h[i]
      /\ \A i \in 1..Len(w) : (h \o w)[Len(h) + i] = w[i]
  BY <1>2, <1>4, JoinOf
<1>7. Len(h \o w) = 2 /\ (h \o w)[1] = "-" /\ (h \o w)[2] = a
  BY <1>2, <1>4, <1>6
<1>8. \A i \in 1..Len(u) : u[i] = (h \o w)[i]
  <2> SUFFICES ASSUME NEW i \in 1..2  PROVE u[i] = (h \o w)[i]
    BY <1>3
  <2>1. i = 1 \/ i = 2
    OBVIOUS
  <2> QED BY <2>1, <1>3, <1>7
<1>9. u = h \o w
  BY <1>3, <1>6, <1>7, <1>8, SeqEqual
<1> QED BY <1>3, <1>5, <1>9 DEF w, u

\* An architecture put after a stem is read back.
LEMMA ArchIsRead ==
  ASSUME NEW s \in Seq(Symbol), s # <<>>, NEW a \in Architectures
  PROVE  /\ ArchOf(s \o ArchTail(<<a>>)) = <<a>> /\ WithoutArch(s \o ArchTail(<<a>>)) = s
         /\ s \o ArchTail(<<a>>) \in Seq(Symbol) /\ s \o ArchTail(<<a>>) # <<>>
<1> DEFINE u == ArchTail(<<a>>)
           x == s \o u
<1>1. u \in Seq(Symbol) /\ Len(u) = 2 /\ u[1] = "-" /\ u[2] = a
  BY ArchTailFacts
<1> HIDE DEF u
<1>2. /\ x \in Seq(Symbol) /\ Len(x) = Len(s) + Len(u)
      /\ Len(s) \in Nat /\ \A i \in 1..Len(u) : x[Len(s) + i] = u[i]
  BY <1>1, JoinOf
<1>3. Len(s) # 0
  BY EmptyIsNoSymbols
<1>4. SubSeq(x, 1, Len(s)) = s
  BY <1>1, PartsOfJoin
<1> HIDE DEF x
<1>5. Len(x) > 2 /\ Len(x) = Len(s) + 2 /\ Len(x) - 1 = Len(s) + 1 /\ Len(x) - 1 - 1 = Len(s)
  BY <1>1, <1>2, <1>3
<1>6. x[Len(s) + 2] = a /\ x[Len(s) + 1] = "-"
  BY <1>1, <1>2
<1>7. ArchOf(x) = <<a>>
  BY <1>5, <1>6 DEF ArchOf, Last
<1>8. <<a>> # <<>>
  OBVIOUS
<1>9. WithoutArch(x) = s
  BY <1>4, <1>5, <1>7, <1>8 DEF WithoutArch, Before
<1>10. x # <<>>
  BY <1>2, <1>5, EmptyIsNoSymbols
<1> QED BY <1>2, <1>7, <1>9, <1>10 DEF x, u

LEMMA DigitIsNoArch ==
  ASSUME NEW s, Last(s) \in Digits
  PROVE  ArchOf(s) = <<>>
BY ArchSymbols DEF ArchOf

\* What ArchOf may be.
Words == {<<>>} \cup {<<a>> : a \in Architectures}

\* A stem is what is in front of its architecture, and the architecture.
LEMMA StemAndArch ==
  ASSUME NEW s \in Seq(Symbol), s # <<>>
  PROVE  /\ ArchOf(s) \in Words
         /\ WithoutArch(s) \in Seq(Symbol) /\ WithoutArch(s) # <<>>
         /\ s = WithoutArch(s) \o ArchTail(ArchOf(s))
         /\ ArchOf(s) = <<>> => WithoutArch(s) = s
<1>1. CASE ArchOf(s) = <<>>
  <2>1. WithoutArch(s) = s
    BY <1>1 DEF WithoutArch
  <2>2. s \o ArchTail(ArchOf(s)) = s
    BY <1>1, ConcatEmptySeq DEF ArchTail
  <2> QED BY <1>1, <2>1, <2>2 DEF Words
<1>2. CASE ArchOf(s) # <<>>
  <2> DEFINE a == Last(s)
             n == Len(s)
             x == SubSeq(s, 1, n - 2)
             y == SubSeq(s, n - 1, n)
  <2>1. n > 2 /\ a \in Architectures /\ s[n - 1] = "-" /\ ArchOf(s) = <<a>>
    BY <1>2 DEF ArchOf
  <2>2. s[n] = a
    BY DEF Last
  <2>3. n \in Nat
    BY LenProperties
  <2>4. WithoutArch(s) = x
    <3>1. n - 1 - 1 = n - 2
      BY <2>3
    <3>2. WithoutArch(s) = SubSeq(s, 1, n - 1 - 1)
      BY <1>2 DEF WithoutArch, Before
    <3> QED BY <3>1, <3>2
  <2> DEFINE u == ArchTail(<<a>>)
  <2>5. u \in Seq(Symbol) /\ Len(u) = 2 /\ u[1] = "-" /\ u[2] = a
    BY <2>1, ArchTailFacts
  <2> HIDE DEF a, n, u
  <2>6. x \in Seq(Symbol) /\ Len(x) = n - 2 - 1 + 1
    <3>1. n - 2 \in Nat /\ 1 <= n - 2 + 1 /\ n - 2 <= Len(s)
      BY <2>1, <2>3 DEF n
    <3> QED BY <3>1, PartOf
  <2>7. x # <<>>
    BY <2>1, <2>3, <2>6, EmptyIsNoSymbols
  <2>8. /\ y \in Seq(Symbol) /\ Len(y) = n - (n - 1) + 1
        /\ \A i \in 1..(n - (n - 1) + 1) : y[i] = s[n - 1 + i - 1]
    <3>1. n - 1 \in Nat /\ n - 1 >= 1 /\ n - 1 <= n + 1 /\ n <= Len(s)
      BY <2>1, <2>3 DEF n
    <3> QED BY <2>3, <3>1, PartOf
  <2>9. s = x \o y
    <3>1. n - 2 \in 0..Len(s) /\ n - 2 + 1 = n - 1
      BY <2>1, <2>3 DEF n
    <3>2. s = SubSeq(s, 1, n - 2) \o SubSeq(s, n - 2 + 1, Len(s))
      BY <3>1, CutAndJoined
    <3> QED BY <3>1, <3>2 DEF n
  <2> HIDE DEF x, y
  <2>10. n - (n - 1) + 1 = 2 /\ n - 1 + 1 - 1 = n - 1 /\ n - 1 + 2 - 1 = n
    BY <2>3
  <2>11. Len(y) = 2 /\ y[1] = "-" /\ y[2] = a
    <3>1. y[1] = s[n - 1 + 1 - 1] /\ y[2] = s[n - 1 + 2 - 1]
      BY <2>8, <2>10
    <3> QED BY <2>1, <2>2, <2>8, <2>10, <3>1
  <2>12. \A i \in 1..Len(y) : y[i] = u[i]
    <3> SUFFICES ASSUME NEW i \in 1..2  PROVE y[i] = u[i]
      BY <2>11
    <3>1. i = 1 \/ i = 2
      OBVIOUS
    <3> QED BY <3>1, <2>5, <2>11
  <2>13. y = u
    BY <2>5, <2>8, <2>11, <2>12, SeqEqual
  <2> QED BY <1>2, <2>1, <2>4, <2>6, <2>7, <2>9, <2>13 DEF Words, u
<1> QED BY <1>1, <1>2

\* Leading zeros: what is left are digits, has none to skip, and what was
\* skipped are zeros.
LEMMA ZerosSkipped ==
  ASSUME NEW r \in Seq(Symbol), r # <<>>, OnlyDigits(r)
  PROVE  LET z == SkipZeros(r) IN
         /\ z \in Seq(Symbol) /\ z # <<>> /\ OnlyDigits(z) /\ SkipZeros(z) = z
         /\ Len(r) - Len(z) \in Nat
         /\ \A i \in 1..(Len(r) - Len(z)) : r[i] = "0"
         /\ \A i \in 1..Len(z) : r[Len(r) - Len(z) + i] = z[i]
<1> DEFINE first(s) == {i \in 1..Len(s) : s[i] # "0"}
           n == Len(r)
<1>1. n \in Nat /\ n # 0
  BY EmptyIsNoSymbols
<1>2. ASSUME NEW s
      PROVE  SkipZeros(s) = LET i == IF first(s) # {} THEN Min(first(s)) ELSE 0
                            IN IF i = 0 THEN <<"0">> ELSE After(s, i - 1)
  BY DEF SkipZeros, SelectInSeq
<1>3. CASE first(r) = {}
  <2> DEFINE z == <<"0">>
  <2>1. SkipZeros(r) = z
    BY <1>2, <1>3
  <2>2. z \in Seq(Symbol) /\ z # <<>> /\ Len(z) = 1 /\ z[1] = "0"
    BY OwnSymbolsAreSymbols
  <2> HIDE DEF z
  <2>3. OnlyDigits(z)
    BY <2>2 DEF OnlyDigits, Digits
  <2>4. first(z) = {}
    BY <2>2
  <2>5. SkipZeros(z) = z
    BY <1>2, <2>4 DEF z
  <2>6. \A i \in 1..n : r[i] = "0"
    BY <1>3
  <2>7. n - Len(z) \in Nat /\ \A i \in 1..(n - Len(z)) : r[i] = "0"
    BY <1>1, <2>2, <2>6
  <2>8. \A i \in 1..Len(z) : r[n - Len(z) + i] = z[i]
    <3>1. n \in 1..n /\ n - 1 + 1 = n
      BY <1>1
    <3> QED BY <2>2, <2>6, <3>1
  <2> QED BY <2>1, <2>2, <2>3, <2>5, <2>7, <2>8
<1>4. CASE first(r) # {}
  <2> DEFINE k == Min(first(r))
             z == SubSeq(r, k, n)
  <2>1. first(r) \subseteq Nat
    BY <1>1
  <2>2. k \in first(r) /\ \A y \in first(r) : k <= y
    BY <1>4, <2>1, MinIsLeast
  <2>3. k \in 1..n /\ k \in Nat /\ r[k] # "0" /\ k # 0
    BY <1>1, <2>2
  <2>4. ASSUME NEW i \in 1..(k - 1)  PROVE r[i] = "0"
    <3>1. i \in 1..n /\ ~(k <= i)
      BY <1>1, <2>3
    <3> QED BY <2>2, <3>1
  <2>5. SkipZeros(r) = z
    <3>1. k - 1 + 1 = k
      BY <2>3
    <3>2. SkipZeros(r) = SubSeq(r, k - 1 + 1, n)
      BY <1>2, <1>4, <2>3 DEF After
    <3> QED BY <3>1, <3>2
  <2> HIDE DEF k
  <2>6. /\ z \in Seq(Symbol) /\ Len(z) = n - k + 1
        /\ \A i \in 1..(n - k + 1) : z[i] = r[k + i - 1]
    BY <1>1, <2>3, PartOf
  <2> HIDE DEF z
  <2>7. z # <<>> /\ Len(z) \in Nat /\ Len(z) >= 1
    BY <1>1, <2>3, <2>6, EmptyIsNoSymbols
  <2>8. OnlyDigits(z)
    <3> SUFFICES ASSUME NEW i \in 1..Len(z)  PROVE z[i] \in Digits
      BY DEF OnlyDigits
    <3>1. k + i - 1 \in 1..n /\ z[i] = r[k + i - 1]
      BY <1>1, <2>3, <2>6
    <3> QED BY <3>1 DEF OnlyDigits
  <2>9. z[1] # "0"
    <3>1. z[1] = r[k + 1 - 1] /\ k + 1 - 1 = k
      BY <1>1, <2>3, <2>6
    <3> QED BY <2>3, <3>1
  <2>10. SkipZeros(z) = z
    <3>1. 1 \in first(z)
      BY <2>7, <2>9
    <3>2. first(z) \subseteq Nat /\ first(z) # {}
      BY <2>7, <3>1
    <3>3. Min(first(z)) \in first(z) /\ Min(first(z)) <= 1
      BY <3>1, <3>2, MinIsLeast
    <3>4. Min(first(z)) = 1
      BY <3>3, <2>7
    <3>5. SkipZeros(z) = After(z, 1 - 1)
      BY <1>2, <3>2, <3>4
    <3>6. After(z, 1 - 1) = SubSeq(z, 1, Len(z))
      BY DEF After
    <3> QED BY <3>5, <3>6, <2>6, SubSeqFull
  <2>11. n - Len(z) = k - 1
    BY <1>1, <2>3, <2>6
  <2>12. \A i \in 1..Len(z) : r[n - Len(z) + i] = z[i]
    <3> SUFFICES ASSUME NEW i \in 1..Len(z)  PROVE r[k - 1 + i] = z[i]
      BY <2>11
    <3>1. k - 1 + i = k + i - 1 /\ i \in 1..(n - k + 1)
      BY <2>3, <2>6
    <3> QED BY <2>6, <3>1
  <2>13. n - Len(z) \in Nat
    BY <2>3, <2>11
  <2> QED BY <2>4, <2>5, <2>6, <2>7, <2>8, <2>10, <2>11, <2>12, <2>13
<1> QED BY <1>3, <1>4

(***************************************************************************)
(* A name is a base, a release, an architecture and a suffix.              *)
(***************************************************************************)
BaseOf(t) == WithoutRelease(WithoutArch(StemOf(t)))
RelOf(t)  == ReleaseOf(WithoutArch(StemOf(t)))
WordOf(t) == ArchOf(StemOf(t))

Spell(b, r, w, e) == ((b \o RelTail(r)) \o ArchTail(w)) \o e

\* The parts a text can be read as.
WellFormed(b, r, w, e) ==
  /\ b \in Seq(Symbol) /\ b # <<>>
  /\ r \in Seq(Symbol) /\ OnlyDigits(r)
  /\ w \in Words /\ e \in Extensions
  /\ r # <<>> => HasVersion(b)
  /\ r = <<>> => ReleaseOf(b) = <<>>
  /\ r = <<>> /\ w = <<>> => ArchOf(b) = <<>>

\* What stands in front of the architecture, and the stem.
LEMMA StemIsRead ==
  ASSUME NEW b, NEW r, NEW w, NEW e, WellFormed(b, r, w, e)
  PROVE  LET x == b \o RelTail(r)
             s == x \o ArchTail(w)
         IN /\ x \in Seq(Symbol) /\ x # <<>> /\ ReleaseOf(x) = r /\ WithoutRelease(x) = b
            /\ s \in Seq(Symbol) /\ s # <<>> /\ ArchOf(s) = w /\ WithoutArch(s) = x
            /\ r # <<>> => Last(x) \in Digits
<1> USE DEF WellFormed
<1> DEFINE x == b \o RelTail(r)
           s == x \o ArchTail(w)
<1>1. /\ x \in Seq(Symbol) /\ x # <<>> /\ ReleaseOf(x) = r /\ WithoutRelease(x) = b
      /\ r # <<>> => Last(x) \in Digits
  <2>1. CASE r = <<>>
    <3>1. x = b
      BY <2>1, ConcatEmptySeq DEF RelTail
    <3>2. WithoutRelease(b) = b
      BY <2>1 DEF WithoutRelease
    <3> QED BY <2>1, <3>1, <3>2
  <2>2. CASE r # <<>>
    BY <2>2, ReleaseIsRead
  <2> QED BY <2>1, <2>2
<1>2. w = <<>> => ArchOf(x) = <<>>
  <2> SUFFICES ASSUME w = <<>>  PROVE ArchOf(x) = <<>>
    OBVIOUS
  <2>1. CASE r = <<>>
    <3>1. x = b
      BY <2>1, ConcatEmptySeq DEF RelTail
    <3> QED BY <2>1, <3>1
  <2>2. CASE r # <<>>
    BY <1>1, <2>2, DigitIsNoArch
  <2> QED BY <2>1, <2>2
<1> HIDE DEF x
<1>3. s \in Seq(Symbol) /\ s # <<>> /\ ArchOf(s) = w /\ WithoutArch(s) = x
  <2>1. CASE w = <<>>
    <3>1. s = x
      BY <1>1, <2>1, ConcatEmptySeq DEF ArchTail
    <3> QED BY <1>1, <1>2, <2>1, <3>1 DEF WithoutArch
  <2>2. CASE w # <<>>
    <3>1. PICK a \in Architectures : w = <<a>>
      BY <2>2 DEF Words
    <3> QED BY <1>1, <3>1, ArchIsRead
  <2> QED BY <2>1, <2>2
<1> QED BY <1>1, <1>3 DEF x

LEMMA PartsAreRead ==
  ASSUME NEW b, NEW r, NEW w, NEW e, WellFormed(b, r, w, e)
  PROVE  LET t == Spell(b, r, w, e) IN
         /\ t \in Seq(Symbol) /\ t # <<>>
         /\ SuffixOf(t) = e /\ StemOf(t) = (b \o RelTail(r)) \o ArchTail(w)
         /\ BaseOf(t) = b /\ RelOf(t) = r /\ WordOf(t) = w
<1> DEFINE x == b \o RelTail(r)
           s == x \o ArchTail(w)
           t == s \o e
<1>1. /\ x \in Seq(Symbol) /\ x # <<>> /\ ReleaseOf(x) = r /\ WithoutRelease(x) = b
      /\ s \in Seq(Symbol) /\ s # <<>> /\ ArchOf(s) = w /\ WithoutArch(s) = x
  BY StemIsRead
<1>2. e \in Extensions
  BY DEF WellFormed
<1> HIDE DEF x, s
<1>3. SuffixOf(t) = e /\ StemOf(t) = s /\ t \in Seq(Symbol) /\ t # <<>>
  BY <1>1, <1>2, JoinEnds
<1>4. BaseOf(t) = b /\ RelOf(t) = r /\ WordOf(t) = w
  BY <1>1, <1>3 DEF BaseOf, RelOf, WordOf
<1>5. Spell(b, r, w, e) = t
  BY DEF Spell, x, s
<1> QED BY <1>3, <1>4, <1>5 DEF x, s

LEMMA TextIsSpelled ==
  ASSUME NEW t \in Seq(Symbol), SuffixOf(t) # <<>>
  PROVE  /\ WellFormed(BaseOf(t), RelOf(t), WordOf(t), SuffixOf(t))
         /\ t = Spell(BaseOf(t), RelOf(t), WordOf(t), SuffixOf(t))
         /\ WithoutArch(StemOf(t)) = BaseOf(t) \o RelTail(RelOf(t))
<1> DEFINE s == StemOf(t)
           x == WithoutArch(s)
           b == WithoutRelease(x)
           r == ReleaseOf(x)
           w == ArchOf(s)
           e == SuffixOf(t)
<1>1. e \in Extensions /\ s \in Seq(Symbol) /\ s # <<>> /\ t = s \o e
  BY StemAndSuffix
<1> HIDE DEF s, e
<1>2. /\ w \in Words /\ x \in Seq(Symbol) /\ x # <<>>
      /\ s = x \o ArchTail(w) /\ (w = <<>> => x = s)
  BY <1>1, StemAndArch
<1> HIDE DEF x, w
<1>3. /\ r \in Seq(Symbol) /\ OnlyDigits(r)
      /\ b \in Seq(Symbol) /\ b # <<>> /\ x = b \o RelTail(r)
      /\ r # <<>> => HasVersion(b)
      /\ r = <<>> => b = x
  BY <1>2, BaseAndRelease
<1>4. r = <<>> => ReleaseOf(b) = <<>>
  BY <1>3
<1>5. r = <<>> /\ w = <<>> => ArchOf(b) = <<>>
  BY <1>2, <1>3 DEF w
<1> HIDE DEF b, r
<1>6. WellFormed(b, r, w, e)
  BY <1>1, <1>2, <1>3, <1>4, <1>5 DEF WellFormed
<1>7. t = Spell(b, r, w, e)
  BY <1>1, <1>2, <1>3 DEF Spell
<1>8. BaseOf(t) = b /\ RelOf(t) = r /\ WordOf(t) = w
  BY DEF BaseOf, RelOf, WordOf, b, r, w, x, s
<1> QED BY <1>3, <1>6, <1>7, <1>8 DEF e, x, s

(***************************************************************************)
(* Signatures.                                                             *)
(***************************************************************************)
Plain == {TarGz, Cixpkg, Iso}

LEMMA SigExtFacts ==
  /\ SigExt \in Seq(Symbol) /\ Len(SigExt) = 2 /\ SigExt[1] = "." /\ SigExt[2] = "minisig"
  /\ \A e \in Plain : e \in Extensions /\ e \o SigExt \in Extensions
  /\ \A e \in Extensions : e \in Plain \/ \E p \in Plain : e = p \o SigExt
<1>1. SigExt \in Seq(Symbol) /\ Len(SigExt) = 2 /\ SigExt[1] = "." /\ SigExt[2] = "minisig"
  BY OwnSymbolsAreSymbols DEF SigExt
<1>2. \A e \in Plain : e \in Extensions /\ e \o SigExt \in Extensions
  BY DEF Plain, Extensions
<1>3. \A e \in Extensions : e \in Plain \/ \E p \in Plain : e = p \o SigExt
  BY Zenon DEF Plain, Extensions
<1> QED BY <1>1, <1>2, <1>3

\* ext_is_signature() of the table's entries.
LEMMA SignatureSuffix ==
  ASSUME NEW p \in Plain
  PROVE  /\ ~IsSuffix(SigExt, p) /\ IsSuffix(SigExt, p \o SigExt)
         /\ p \in Seq(Symbol) /\ Len(p) \in 2..6 /\ p[Len(p)] # "."
         /\ p \o SigExt # p
         /\ SubSeq(p \o SigExt, 1, Len(p \o SigExt) - Len(SigExt)) = p
<1> DEFINE q == p \o SigExt
<1>1. /\ SigExt \in Seq(Symbol) /\ Len(SigExt) = 2 /\ SigExt[1] = "." /\ SigExt[2] = "minisig"
      /\ p \in Extensions /\ q \in Extensions
  BY SigExtFacts
<1>2. p \in Seq(Symbol) /\ Len(p) \in 2..6 /\ q \in Seq(Symbol) /\ Len(p) \in Nat
  BY <1>1, ExtensionFacts, LenProperties
<1>3. p[Len(p)] \in {"gz", "cixpkg", "iso"}
  <2>1. CASE p = TarGz
    BY <2>1 DEF TarGz
  <2>2. CASE p = Cixpkg
    BY <2>2 DEF Cixpkg
  <2>3. CASE p = Iso
    BY <2>3 DEF Iso
  <2> QED BY <2>1, <2>2, <2>3 DEF Plain
<1>4. /\ Len(q) = Len(p) + Len(SigExt)
      /\ \A i \in 1..Len(SigExt) : q[Len(p) + i] = SigExt[i]
  BY <1>1, <1>2, JoinOf
<1>5. SubSeq(q, 1, Len(p)) = p
  BY <1>1, <1>2, PartsOfJoin
<1> HIDE DEF q
<1>6. Len(q) - Len(SigExt) = Len(p) /\ Len(SigExt) < Len(q) /\ q # p
  BY <1>1, <1>2, <1>4
<1>7. Ends(SigExt, q)
  BY <1>4, <1>6 DEF Ends
<1>8. IsSuffix(SigExt, q)
  BY <1>1, <1>2, <1>7, StrictSuffixEnds DEF IsStrictSuffix
<1>9. ~Ends(SigExt, p)
  <2> SUFFICES ASSUME Ends(SigExt, p)  PROVE FALSE
    OBVIOUS
  <2>1. p[Len(p) - Len(SigExt) + 2] = SigExt[2]
    BY <1>1 DEF Ends
  <2>2. Len(p) - Len(SigExt) + 2 = Len(p)
    BY <1>1, <1>2
  <2> QED BY <1>1, <1>3, <2>1, <2>2
<1>10. SigExt # p
  BY <1>1, <1>3
<1>11. ~IsSuffix(SigExt, p)
  BY <1>1, <1>2, <1>9, <1>10, StrictSuffixEnds DEF IsStrictSuffix
<1> QED BY <1>2, <1>3, <1>5, <1>6, <1>8, <1>11 DEF q

(***************************************************************************)
(* Valid names.                                                            *)
(***************************************************************************)
LEMMA NoDotsJoin ==
  ASSUME NEW s \in Seq(Symbol), NEW u \in Seq(Symbol), NoDots(s), NoDots(u),
         s # <<>> /\ u # <<>> => ~(s[Len(s)] = "." /\ u[1] = ".")
  PROVE  NoDots(s \o u)
<1> DEFINE x == s \o u
           k == Len(s)
<1>1. /\ Len(x) = k + Len(u) /\ k \in Nat /\ Len(u) \in Nat
      /\ \A i \in 1..k : x[i] = s[i]
      /\ \A i \in 1..Len(u) : x[k + i] = u[i]
  BY JoinOf
<1>2. /\ \A i \in 1..(k - 1) : ~(s[i] = "." /\ s[i + 1] = ".")
      /\ \A i \in 1..(Len(u) - 1) : ~(u[i] = "." /\ u[i + 1] = ".")
  BY DEF NoDots
<1>3. k # 0 /\ Len(u) # 0 => ~(s[k] = "." /\ u[1] = ".")
  BY EmptyIsNoSymbols
<1> HIDE DEF x, k
<1>4. ASSUME NEW i \in 1..(Len(x) - 1)  PROVE ~(x[i] = "." /\ x[i + 1] = ".")
  <2>1. CASE i < k
    <3>1. i \in 1..(k - 1) /\ i \in 1..k /\ i + 1 \in 1..k
      BY <1>1, <2>1
    <3> QED BY <1>1, <1>2, <3>1
  <2>2. CASE i = k
    <3>1. k # 0 /\ Len(u) # 0 /\ k \in 1..k /\ 1 \in 1..Len(u)
      BY <1>1, <2>2
    <3>2. x[k] = s[k] /\ x[k + 1] = u[1]
      BY <1>1, <3>1
    <3> QED BY <1>3, <2>2, <3>1, <3>2
  <2>3. CASE i > k
    <3>1. /\ i - k \in 1..(Len(u) - 1) /\ i - k \in 1..Len(u) /\ i - k + 1 \in 1..Len(u)
          /\ k + (i - k) = i /\ k + (i - k + 1) = i + 1
      BY <1>1, <2>3
    <3>2. x[k + (i - k)] = u[i - k] /\ x[k + (i - k + 1)] = u[i - k + 1]
      BY <1>1, <3>1
    <3> QED BY <1>2, <3>1, <3>2
  <2> QED BY <1>1, <2>1, <2>2, <2>3
<1> QED BY <1>4 DEF NoDots, x

LEMMA NoDotsInFront ==
  ASSUME NEW s \in Seq(Symbol), NEW u \in Seq(Symbol), NoDots(s \o u)
  PROVE  /\ NoDots(s)
         /\ s # <<>> /\ u # <<>> => ~(s[Len(s)] = "." /\ u[1] = ".")
<1> DEFINE x == s \o u
           k == Len(s)
<1>1. /\ Len(x) = k + Len(u) /\ k \in Nat /\ Len(u) \in Nat
      /\ \A i \in 1..k : x[i] = s[i]
      /\ \A i \in 1..Len(u) : x[k + i] = u[i]
  BY JoinOf
<1>2. \A i \in 1..(Len(x) - 1) : ~(x[i] = "." /\ x[i + 1] = ".")
  BY DEF NoDots
<1>3. (s = <<>> <=> k = 0) /\ (u = <<>> <=> Len(u) = 0)
  BY EmptyIsNoSymbols
<1> HIDE DEF x, k
<1>4. ASSUME NEW i \in 1..(k - 1)  PROVE ~(s[i] = "." /\ s[i + 1] = ".")
  <2>1. i \in 1..(Len(x) - 1) /\ i \in 1..k /\ i + 1 \in 1..k
    BY <1>1
  <2> QED BY <1>1, <1>2, <2>1
<1>5. ASSUME k # 0, Len(u) # 0  PROVE ~(s[k] = "." /\ u[1] = ".")
  <2>1. k \in 1..(Len(x) - 1) /\ k \in 1..k /\ 1 \in 1..Len(u)
    BY <1>1, <1>5
  <2>2. x[k] = s[k] /\ x[k + 1] = u[1]
    BY <1>1, <2>1
  <2> QED BY <1>2, <2>1, <2>2
<1> QED BY <1>3, <1>4, <1>5 DEF NoDots, k

LEMMA FirstOfJoin ==
  ASSUME NEW s \in Seq(Symbol), s # <<>>, NEW u \in Seq(Symbol)
  PROVE  (s \o u)[1] = s[1]
<1>1. Len(s) \in Nat /\ Len(s) # 0
  BY EmptyIsNoSymbols
<1>2. 1 \in 1..Len(s)
  BY <1>1
<1> QED BY <1>2, JoinOf

LEMMA LastOfJoin ==
  ASSUME NEW s \in Seq(Symbol), NEW u \in Seq(Symbol), u # <<>>
  PROVE  (s \o u)[Len(s \o u)] = u[Len(u)]
<1>1. Len(u) \in Nat /\ Len(u) # 0
  BY EmptyIsNoSymbols
<1>2. Len(u) \in 1..Len(u)
  BY <1>1
<1> QED BY <1>2, JoinOf

LEMMA ValidJoin ==
  ASSUME NEW s \in Seq(Symbol), s # <<>>, s[1] # ".", NoDots(s), s[Len(s)] # ".",
         NEW e \in Extensions, Size(s \o e) < STORE_NAME_MAX
  PROVE  IsValid(s \o e)
<1>1. e \in Seq(Symbol) /\ e # <<>> /\ NoDots(e)
  BY ExtensionFacts
<1>2. s \o e \in Seq(Symbol) /\ s \o e # <<>> /\ SuffixOf(s \o e) # <<>>
  BY <1>1, JoinEnds
<1>3. (s \o e)[1] # "."
  BY <1>1, FirstOfJoin
<1>4. NoDots(s \o e)
  BY <1>1, NoDotsJoin
<1> QED BY <1>2, <1>3, <1>4 DEF IsValid, NoDots

\* A spelling is valid when its base may begin a name and it fits.
LEMMA SpellIsValid ==
  ASSUME NEW b, NEW r, NEW w, NEW e, WellFormed(b, r, w, e),
         b[1] # ".", NoDots(b), r = <<>> /\ w = <<>> => b[Len(b)] # ".",
         Size(Spell(b, r, w, e)) < STORE_NAME_MAX
  PROVE  IsValid(Spell(b, r, w, e))
<1> DEFINE R == RelTail(r)
           x == b \o R
           A == ArchTail(w)
           s == x \o A
<1>1. /\ b \in Seq(Symbol) /\ b # <<>> /\ r \in Seq(Symbol) /\ OnlyDigits(r)
      /\ w \in Words /\ e \in Extensions
  BY DEF WellFormed
<1>2. /\ x \in Seq(Symbol) /\ x # <<>> /\ s \in Seq(Symbol) /\ s # <<>>
      /\ r # <<>> => Last(x) \in Digits
  BY StemIsRead
<1>3. R \in Seq(Symbol) /\ NoDots(R) /\ (R # <<>> => R[1] = "-")
  <2>1. CASE r = <<>>
    <3>1. R = <<>> /\ Len(<<>>) = 0
      BY <2>1, EmptySeq DEF RelTail
    <3> QED BY <3>1, DashIsText DEF NoDots
  <2>2. CASE r # <<>>
    <3>1. /\ R \in Seq(Symbol) /\ Len(R) = 1 + Len(r) /\ Len(r) \in Nat \ {0}
          /\ R[1] = "-" /\ \A i \in 1..Len(r) : R[1 + i] = r[i]
      BY <1>1, <2>2, RelTailFacts
    <3> HIDE DEF R
    <3>2. ASSUME NEW i \in 1..(Len(R) - 1)  PROVE R[i + 1] # "."
      <4>1. i \in 1..Len(r) /\ 1 + i = i + 1
        BY <3>1
      <4>2. R[i + 1] = r[i] /\ r[i] \in Digits
        BY <1>1, <3>1, <4>1 DEF OnlyDigits
      <4> QED BY <4>2 DEF Digits
    <3> QED BY <3>1, <3>2 DEF NoDots
  <2> QED BY <2>1, <2>2
<1>4. x[1] # "." /\ NoDots(x)
  BY <1>1, <1>3, FirstOfJoin, NoDotsJoin
<1>5. r # <<>> => x[Len(x)] # "."
  BY <1>2 DEF Last, Digits
<1>6. r = <<>> => x = b
  BY <1>1, ConcatEmptySeq DEF RelTail
<1> HIDE DEF x
<1>7. CASE w = <<>>
  <2>1. s = x
    BY <1>2, <1>7, ConcatEmptySeq DEF ArchTail
  <2>2. x[Len(x)] # "."
    BY <1>5, <1>6, <1>7
  <2>3. Spell(b, r, w, e) = x \o e
    BY <2>1 DEF Spell, x
  <2> QED BY <1>1, <1>2, <1>4, <2>2, <2>3, ValidJoin
<1>8. CASE w # <<>>
  <2>1. PICK a \in Architectures : w = <<a>>
    BY <1>1, <1>8 DEF Words
  <2>2. A \in Seq(Symbol) /\ Len(A) = 2 /\ A[1] = "-" /\ A[2] = a /\ a # "."
    BY <2>1, ArchTailFacts, ArchSymbols
  <2> HIDE DEF A
  <2>3. A # <<>>
    BY <2>2, EmptyIsNoSymbols
  <2>4. NoDots(A)
    BY <2>2 DEF NoDots
  <2>5. s[1] # "." /\ NoDots(s)
    BY <1>2, <1>4, <2>2, <2>4, FirstOfJoin, NoDotsJoin
  <2>6. s[Len(s)] # "."
    BY <1>2, <2>2, <2>3, LastOfJoin
  <2>7. Spell(b, r, w, e) = s \o e
    BY DEF Spell, x, A
  <2> HIDE DEF s
  <2> QED BY <1>1, <1>2, <2>5, <2>6, <2>7, ValidJoin
<1> QED BY <1>7, <1>8

\* What a valid name's base begins and ends with.
LEMMA ValidBase ==
  ASSUME NEW t \in Seq(Symbol), IsValid(t)
  PROVE  /\ SuffixOf(t) # <<>>
         /\ BaseOf(t)[1] # "." /\ NoDots(BaseOf(t))
         /\ RelOf(t) = <<>> /\ WordOf(t) = <<>> => BaseOf(t)[Len(BaseOf(t))] # "."
<1> DEFINE b == BaseOf(t)
           r == RelOf(t)
           w == WordOf(t)
           e == SuffixOf(t)
           R == RelTail(r)
           x == b \o R
           A == ArchTail(w)
           s == x \o A
<1>1. t[1] # "." /\ NoDots(t) /\ e # <<>>
  BY DEF IsValid, NoDots
<1>2. WellFormed(b, r, w, e) /\ t = Spell(b, r, w, e)
  BY <1>1, TextIsSpelled
<1> HIDE DEF b, r, w, e
<1>3. /\ b \in Seq(Symbol) /\ b # <<>> /\ r \in Seq(Symbol) /\ w \in Words /\ e \in Extensions
  BY <1>2 DEF WellFormed
<1>4. /\ x \in Seq(Symbol) /\ x # <<>> /\ s \in Seq(Symbol) /\ s # <<>>
  BY <1>2, StemIsRead
<1>5. e \in Seq(Symbol) /\ e # <<>> /\ e[1] = "."
  BY <1>3, ExtensionFacts
<1>6. R \in Seq(Symbol)
  BY <1>3, RelTailFacts, DashIsText DEF RelTail
<1>7. A \in Seq(Symbol)
  <2>1. CASE w = <<>>
    BY <2>1, DashIsText DEF ArchTail
  <2>2. CASE w # <<>>
    BY <1>3, <2>2, ArchTailFacts DEF Words
  <2> QED BY <2>1, <2>2
<1>8. t = s \o e
  BY <1>2 DEF Spell
<1> HIDE DEF R, A
<1>9. NoDots(s) /\ s[Len(s)] # "." /\ s[1] = t[1]
  BY <1>1, <1>4, <1>5, <1>8, NoDotsInFront, FirstOfJoin
<1>10. NoDots(x) /\ x[1] = s[1]
  BY <1>4, <1>7, <1>9, NoDotsInFront, FirstOfJoin
<1>11. NoDots(b) /\ b[1] = x[1]
  BY <1>3, <1>6, <1>10, NoDotsInFront, FirstOfJoin
<1>12. r = <<>> /\ w = <<>> => s = b
  BY <1>3, ConcatEmptySeq DEF R, A, RelTail, ArchTail
<1> QED BY <1>1, <1>9, <1>10, <1>11, <1>12 DEF b, r, w, e

(***************************************************************************)
(* store_canonical_name().                                                 *)
(***************************************************************************)
One == <<"1">>

LEMMA OneFacts ==
  /\ One \in Seq(Symbol) /\ One # <<>> /\ OnlyDigits(One) /\ SkipZeros(One) = One
  /\ <<"-", "1">> = RelTail(One)
<1>1. One \in Seq(Symbol) /\ One # <<>> /\ Len(One) = 1 /\ One[1] = "1"
  BY OwnSymbolsAreSymbols DEF One
<1>2. OnlyDigits(One)
  BY <1>1 DEF OnlyDigits, Digits
<1> DEFINE z == SkipZeros(One)
           u == <<"-", "1">>
           R == RelTail(One)
<1>3. /\ z \in Seq(Symbol) /\ z # <<>> /\ Len(One) - Len(z) \in Nat
      /\ \A i \in 1..Len(z) : One[Len(One) - Len(z) + i] = z[i]
  BY <1>1, <1>2, ZerosSkipped
<1>4. u \in Seq(Symbol) /\ Len(u) = 2 /\ u[1] = "-" /\ u[2] = "1"
  BY OwnSymbolsAreSymbols
<1>5. /\ R \in Seq(Symbol) /\ Len(R) = 1 + Len(One) /\ R[1] = "-"
      /\ \A i \in 1..Len(One) : R[1 + i] = One[i]
  BY <1>1, RelTailFacts
<1> HIDE DEF z, u, R
<1>6. Len(z) = 1
  BY <1>1, <1>3, EmptyIsNoSymbols
<1>7. z[1] = One[1]
  BY <1>1, <1>3, <1>6
<1>8. \A i \in 1..Len(z) : z[i] = One[i]
  BY <1>6, <1>7
<1>9. z = One
  BY <1>1, <1>3, <1>6, <1>8, SeqEqual
<1>10. Len(R) = 2 /\ R[2] = "1"
  BY <1>1, <1>5
<1>11. \A i \in 1..Len(u) : u[i] = R[i]
  <2> SUFFICES ASSUME NEW i \in 1..2  PROVE u[i] = R[i]
    BY <1>4
  <2>1. i = 1 \/ i = 2
    OBVIOUS
  <2> QED BY <2>1, <1>4, <1>5, <1>10
<1>12. u = R
  BY <1>4, <1>5, <1>10, <1>11, SeqEqual
<1> QED BY <1>1, <1>2, <1>9, <1>12 DEF z, u, R

\* The release of the canonical form.
CanonRel(b, r) ==
  IF r # <<>> THEN SkipZeros(r) ELSE IF HasVersion(b) THEN One ELSE <<>>

LEMMA CanonRelFacts ==
  ASSUME NEW b, NEW r, NEW w, NEW e, WellFormed(b, r, w, e)
  PROVE  /\ WellFormed(b, CanonRel(b, r), w, e)
         /\ CanonRel(b, CanonRel(b, r)) = CanonRel(b, r)
         /\ CanonRel(b, r) = <<>> => r = <<>>
<1> USE DEF WellFormed
<1>1. CASE r # <<>>
  <2> DEFINE z == SkipZeros(r)
  <2>1. z \in Seq(Symbol) /\ z # <<>> /\ OnlyDigits(z) /\ SkipZeros(z) = z
    BY <1>1, ZerosSkipped
  <2>2. CanonRel(b, r) = z
    BY <1>1 DEF CanonRel
  <2> HIDE DEF z
  <2>3. CanonRel(b, z) = z
    BY <2>1 DEF CanonRel
  <2> QED BY <1>1, <2>1, <2>2, <2>3
<1>2. CASE r = <<>> /\ HasVersion(b)
  <2>1. CanonRel(b, r) = One
    BY <1>2 DEF CanonRel
  <2>2. CanonRel(b, One) = One
    BY OneFacts DEF CanonRel
  <2> QED BY <1>2, <2>1, <2>2, OneFacts
<1>3. CASE r = <<>> /\ ~HasVersion(b)
  BY <1>3 DEF CanonRel
<1> QED BY <1>1, <1>2, <1>3

LEMMA ArchTailIsText ==
  ASSUME NEW w \in Words
  PROVE  ArchTail(w) \in Seq(Symbol)
<1>1. CASE w = <<>>
  BY <1>1, DashIsText DEF ArchTail
<1>2. CASE w # <<>>
  BY <1>2, ArchTailFacts DEF Words
<1> QED BY <1>1, <1>2

\* The three snprintf() formats spell the same parts with another release.
LEMMA CanonicalSpells ==
  ASSUME NEW t \in Seq(Symbol), IsValid(t)
  PROVE  CanonicalText(t) =
           Checked(Spell(BaseOf(t), CanonRel(BaseOf(t), RelOf(t)), WordOf(t), SuffixOf(t)))
<1> DEFINE b == BaseOf(t)
           r == RelOf(t)
           w == WordOf(t)
           e == SuffixOf(t)
           x == WithoutArch(StemOf(t))
           A == ArchTail(w)
           h == <<"-">>
           z == SkipZeros(r)
<1>1. CanonicalText(t) =
        Checked(IF r # <<>> THEN ((b \o h) \o z) \o (A \o e)
                ELSE IF HasVersion(x) THEN (x \o <<"-", "1">>) \o (A \o e)
                ELSE t)
  BY DEF CanonicalText, BaseOf, RelOf, WordOf
<1>2. WellFormed(b, r, w, e) /\ t = Spell(b, r, w, e) /\ x = b \o RelTail(r)
  BY ValidBase, TextIsSpelled
<1> HIDE DEF b, r, w, e, x
<1>3. b \in Seq(Symbol) /\ r \in Seq(Symbol) /\ w \in Words /\ e \in Extensions /\ OnlyDigits(r)
  BY <1>2 DEF WellFormed
<1>4. A \in Seq(Symbol) /\ e \in Seq(Symbol) /\ h \in Seq(Symbol)
  BY <1>3, ArchTailIsText, ExtensionFacts, DashIsText
<1> HIDE DEF A, h
<1>5. CASE r # <<>>
  <2>1. z \in Seq(Symbol) /\ z # <<>>
    BY <1>3, <1>5, ZerosSkipped
  <2>2. CanonRel(b, r) = z
    BY <1>5 DEF CanonRel
  <2> HIDE DEF z
  <2>3. h \o z \in Seq(Symbol) /\ RelTail(z) = h \o z
    BY <1>4, <2>1, JoinOf DEF RelTail, h
  <2>4. (b \o h) \o z = b \o (h \o z)
    <3>1. b \in Seq(Symbol) /\ h \in Seq(Symbol) /\ z \in Seq(Symbol)
      BY <1>3, <1>4, <2>1, Zenon
    <3> QED BY <3>1, JoinIsAssociative
  <2>5. b \o (h \o z) \in Seq(Symbol)
    BY <1>3, <2>3, JoinOf
  <2>6. (b \o (h \o z)) \o (A \o e) = ((b \o (h \o z)) \o A) \o e
    BY <1>4, <2>5, JoinIsAssociative, Zenon
  <2>7. Spell(b, z, w, e) = ((b \o (h \o z)) \o A) \o e
    BY <2>3 DEF Spell, A
  <2> QED BY <1>1, <1>5, <2>2, <2>4, <2>6, <2>7 DEF b, r, w, e, z
<1>6. CASE r = <<>>
  <2>1. x = b
    BY <1>2, <1>3, <1>6, ConcatEmptySeq DEF RelTail
  <2>2. CASE HasVersion(b)
    <3>1. CanonRel(b, r) = One
      BY <1>6, <2>2 DEF CanonRel
    <3>2. <<"-", "1">> = RelTail(One) /\ RelTail(One) \in Seq(Symbol)
      BY OneFacts, RelTailFacts
    <3>3. b \o RelTail(One) \in Seq(Symbol)
      BY <1>3, <3>2, JoinOf
    <3>4. (b \o RelTail(One)) \o (A \o e) = ((b \o RelTail(One)) \o A) \o e
      BY <1>4, <3>3, JoinIsAssociative, Zenon
    <3>5. Spell(b, One, w, e) = ((b \o RelTail(One)) \o A) \o e
      BY DEF Spell, A
    <3>6. CanonicalText(t) = Checked((b \o <<"-", "1">>) \o (A \o e))
      BY <1>1, <1>6, <2>1, <2>2
    <3> QED BY <3>1, <3>2, <3>4, <3>5, <3>6 DEF b, r, w, e
  <2>3. CASE ~HasVersion(b)
    <3>1. CanonRel(b, r) = r
      BY <1>6, <2>3 DEF CanonRel
    <3> QED BY <1>1, <1>2, <1>6, <2>1, <2>3, <3>1 DEF b, r, w, e
  <2> QED BY <2>2, <2>3
<1> QED BY <1>5, <1>6

\* A canonical form, where there is one, is a valid name with the same base,
\* architecture and suffix, and is its own canonical form: a rename to it
\* ends the migration (store_canonical_name(), "Closure beats totality").
LEMMA CanonicalIsSettled ==
  ASSUME NEW t \in Seq(Symbol), CanonicalText(t) # <<>>
  PROVE  LET c == CanonicalText(t) IN
         /\ IsValid(t) /\ c \in Seq(Symbol) /\ IsValid(c) /\ CanonicalText(c) = c
         /\ BaseOf(c) = BaseOf(t) /\ RelOf(c) = CanonRel(BaseOf(t), RelOf(t))
         /\ WordOf(c) = WordOf(t) /\ SuffixOf(c) = SuffixOf(t)
         /\ c = Spell(BaseOf(t), CanonRel(BaseOf(t), RelOf(t)), WordOf(t), SuffixOf(t))
<1> DEFINE b == BaseOf(t)
           r == RelOf(t)
           w == WordOf(t)
           e == SuffixOf(t)
           q == CanonRel(b, r)
           c == Spell(b, q, w, e)
<1>1. IsValid(t)
  BY DEF CanonicalText
<1>2. CanonicalText(t) = Checked(c)
  BY <1>1, CanonicalSpells
<1>3. CanonicalText(t) = c /\ Size(c) < STORE_NAME_MAX
  BY <1>2 DEF Checked
<1>4. /\ e # <<>> /\ b[1] # "." /\ NoDots(b)
      /\ r = <<>> /\ w = <<>> => b[Len(b)] # "."
  BY <1>1, ValidBase
<1>5. WellFormed(b, r, w, e)
  BY <1>4, TextIsSpelled
<1> HIDE DEF b, r, w, e
<1>6. WellFormed(b, q, w, e) /\ CanonRel(b, q) = q /\ (q = <<>> => r = <<>>)
  BY <1>5, CanonRelFacts
<1> HIDE DEF q
<1>7. /\ c \in Seq(Symbol)
      /\ SuffixOf(c) = e /\ BaseOf(c) = b /\ RelOf(c) = q /\ WordOf(c) = w
  BY <1>6, PartsAreRead
<1>8. IsValid(c)
  BY <1>3, <1>4, <1>6, SpellIsValid
<1> HIDE DEF c
<1>9. CanonicalText(c) = Checked(Spell(b, q, w, e))
  BY <1>6, <1>7, <1>8, CanonicalSpells
<1>10. CanonicalText(c) = c
  BY <1>2, <1>3, <1>9 DEF c
<1> QED BY <1>1, <1>3, <1>7, <1>8, <1>10 DEF c, q, b, r, w, e

(***************************************************************************)
(* What a text reads as.                                                   *)
(***************************************************************************)
Release(r) ==
  [given  |-> r # <<>>,
   pad    |-> IF r = <<>> THEN 0 ELSE Len(r) - Len(SkipZeros(r)),
   digits |-> IF r = <<>> THEN <<>> ELSE SkipZeros(r)]

PlainOf(e) == IF IsSuffix(SigExt, e) THEN SubSeq(e, 1, Len(e) - Len(SigExt)) ELSE e

ArchName(w) == IF w = <<>> THEN "" ELSE w[1]

NameOf(b, r, w, e) ==
  [pkg |-> <<b, PlainOf(e)>>, rel |-> Release(r), arch |-> ArchName(w), sig |-> IsSuffix(SigExt, e)]

LEMMA ReadIsName ==
  ASSUME NEW t
  PROVE  Read(t) = NameOf(BaseOf(t), RelOf(t), WordOf(t), SuffixOf(t))
BY DEF Read, NameOf, Release, PlainOf, ArchName, BaseOf, RelOf, WordOf, IsSignature

LEMMA ReleaseIsSpelled ==
  ASSUME NEW r \in Seq(Symbol), OnlyDigits(r), NEW q \in Seq(Symbol), OnlyDigits(q),
         Release(r) = Release(q)
  PROVE  r = q
<1>1. (r # <<>>) = (q # <<>>)
  BY DEF Release
<1>2. CASE r # <<>> /\ q # <<>>
  <2> DEFINE y == SkipZeros(r)
             z == SkipZeros(q)
  <2>1. Len(r) - Len(y) = Len(q) - Len(z) /\ y = z
    BY <1>2 DEF Release
  <2>2. /\ y \in Seq(Symbol)
        /\ Len(r) - Len(y) \in Nat
        /\ \A i \in 1..(Len(r) - Len(y)) : r[i] = "0"
        /\ \A i \in 1..Len(y) : r[Len(r) - Len(y) + i] = y[i]
    BY <1>2, ZerosSkipped
  <2>3. /\ \A i \in 1..(Len(q) - Len(z)) : q[i] = "0"
        /\ \A i \in 1..Len(z) : q[Len(q) - Len(z) + i] = z[i]
    BY <1>2, ZerosSkipped
  <2> HIDE DEF y, z
  <2>4. Len(r) \in Nat /\ Len(q) \in Nat /\ Len(y) \in Nat
    BY <2>2, LenProperties
  <2>5. Len(r) = Len(q)
    BY <2>1, <2>4
  <2> DEFINE p == Len(r) - Len(y)
  <2>6. p = Len(q) - Len(z) /\ p \in Nat /\ Len(r) = p + Len(y)
    BY <2>1, <2>2, <2>4
  <2> HIDE DEF p
  <2>7. ASSUME NEW i \in 1..Len(r)  PROVE r[i] = q[i]
    <3>1. CASE i <= p
      <4>1. i \in 1..p
        BY <2>4, <2>6, <3>1
      <4> QED BY <4>1, <2>2, <2>3, <2>6 DEF p
    <3>2. CASE i > p
      <4>1. i - p \in 1..Len(y) /\ p + (i - p) = i
        BY <2>4, <2>6, <3>2
      <4>2. r[p + (i - p)] = y[i - p]
        BY <4>1, <2>2 DEF p
      <4>3. q[p + (i - p)] = y[i - p]
        BY <4>1, <2>1, <2>3, <2>6
      <4> QED BY <4>1, <4>2, <4>3
    <3> QED BY <2>4, <2>6, <3>1, <3>2
  <2> QED BY <2>5, <2>7, SeqEqual
<1>3. CASE r = <<>> /\ q = <<>>
  BY <1>3
<1> QED BY <1>1, <1>2, <1>3

LEMMA SuffixIsSpelled ==
  ASSUME NEW e \in Extensions, NEW f \in Extensions,
         PlainOf(e) = PlainOf(f), IsSuffix(SigExt, e) = IsSuffix(SigExt, f)
  PROVE  e = f
<1>1. ASSUME NEW x \in Extensions
      PROVE  /\ x \in Plain => ~IsSuffix(SigExt, x) /\ PlainOf(x) = x
             /\ x \notin Plain => IsSuffix(SigExt, x) /\ x = PlainOf(x) \o SigExt
  <2>1. CASE x \in Plain
    BY <2>1, SignatureSuffix DEF PlainOf
  <2>2. CASE x \notin Plain
    <3>1. PICK p \in Plain : x = p \o SigExt
      BY <2>2, SigExtFacts
    <3>2. IsSuffix(SigExt, x) /\ SubSeq(x, 1, Len(x) - Len(SigExt)) = p
      BY <3>1, SignatureSuffix
    <3> QED BY <2>2, <3>1, <3>2 DEF PlainOf
  <2> QED BY <2>1, <2>2
<1>2. CASE e \in Plain /\ f \in Plain
  BY <1>1, <1>2
<1>3. CASE e \notin Plain /\ f \notin Plain
  BY <1>1, <1>3
<1>4. CASE e \in Plain /\ f \notin Plain
  BY <1>1, <1>4
<1>5. CASE e \notin Plain /\ f \in Plain
  BY <1>1, <1>5
<1> QED BY <1>2, <1>3, <1>4, <1>5

LEMMA ArchIsSpelled ==
  ASSUME NEW v \in Words, NEW w \in Words, ArchName(v) = ArchName(w)
  PROVE  v = w
<1>1. ASSUME NEW x \in Words
      PROVE  \/ x = <<>> /\ ArchName(x) = ""
             \/ x = <<ArchName(x)>> /\ ArchName(x) # ""
  <2>1. CASE x = <<>>
    <3>1. ArchName(x) = ""
      BY <2>1, Zenon DEF ArchName
    <3> QED BY <2>1, <3>1, Zenon
  <2>2. CASE x # <<>>
    <3>1. PICK a \in Architectures : x = <<a>>
      BY <2>2 DEF Words
    <3>2. a # ""
      BY ArchSymbols
    <3>3. x[1] = a
      BY <3>1
    <3> QED BY <2>2, <3>1, <3>2, <3>3 DEF ArchName
  <2> QED BY <2>1, <2>2
<1> QED BY <1>1

\* Two texts that read as the same name are the same text: a name has one
\* file (store_canonical_name(), raw_entry_path()).
LEMMA ReadingIsInjective ==
  ASSUME NEW t \in Seq(Symbol), SuffixOf(t) # <<>>,
         NEW u \in Seq(Symbol), SuffixOf(u) # <<>>, Read(t) = Read(u)
  PROVE  t = u
<1>1. /\ WellFormed(BaseOf(t), RelOf(t), WordOf(t), SuffixOf(t))
      /\ t = Spell(BaseOf(t), RelOf(t), WordOf(t), SuffixOf(t))
  BY TextIsSpelled
<1>2. /\ WellFormed(BaseOf(u), RelOf(u), WordOf(u), SuffixOf(u))
      /\ u = Spell(BaseOf(u), RelOf(u), WordOf(u), SuffixOf(u))
  BY TextIsSpelled
<1>3. NameOf(BaseOf(t), RelOf(t), WordOf(t), SuffixOf(t))
        = NameOf(BaseOf(u), RelOf(u), WordOf(u), SuffixOf(u))
  BY ReadIsName
<1>4. /\ BaseOf(t) = BaseOf(u) /\ PlainOf(SuffixOf(t)) = PlainOf(SuffixOf(u))
      /\ Release(RelOf(t)) = Release(RelOf(u))
      /\ ArchName(WordOf(t)) = ArchName(WordOf(u))
      /\ IsSuffix(SigExt, SuffixOf(t)) = IsSuffix(SigExt, SuffixOf(u))
  BY <1>3 DEF NameOf
<1>5. RelOf(t) = RelOf(u)
  BY <1>1, <1>2, <1>4, ReleaseIsSpelled DEF WellFormed
<1>6. WordOf(t) = WordOf(u)
  BY <1>1, <1>2, <1>4, ArchIsSpelled DEF WellFormed
<1>7. SuffixOf(t) = SuffixOf(u)
  BY <1>1, <1>2, <1>4, SuffixIsSpelled DEF WellFormed
<1> QED BY <1>1, <1>2, <1>4, <1>5, <1>6, <1>7

(***************************************************************************)
(* What the names the store makes read as.                                 *)
(***************************************************************************)
LEMMA Unpadding ==
  ASSUME NEW g, NEW p, NEW d, NEW x, x = [given |-> g, pad |-> p, digits |-> d]
  PROVE  [x EXCEPT !.pad = 0] = [given |-> g, pad |-> 0, digits |-> d]
OBVIOUS

LEMMA ReleaseOfCanonical ==
  ASSUME NEW b, NEW r, NEW w, NEW e, WellFormed(b, r, w, e)
  PROVE  /\ r # <<>> => [Release(r) EXCEPT !.pad = 0] = Release(CanonRel(b, r))
         /\ r = <<>> /\ HasVersion(b) => Release(CanonRel(b, r)) = FirstRelease
         /\ r = <<>> /\ ~HasVersion(b) => CanonRel(b, r) = r
<1>1. ASSUME r # <<>>
      PROVE  [Release(r) EXCEPT !.pad = 0] = Release(CanonRel(b, r))
  <2> DEFINE z == SkipZeros(r)
  <2>1. z \in Seq(Symbol) /\ z # <<>> /\ SkipZeros(z) = z
    BY <1>1, ZerosSkipped DEF WellFormed
  <2>2. Len(z) - Len(z) = 0
    BY <2>1, LenProperties
  <2>3. CanonRel(b, r) = z
    BY <1>1 DEF CanonRel
  <2>4. Release(r) = [given |-> TRUE, pad |-> Len(r) - Len(z), digits |-> z]
    BY <1>1 DEF Release
  <2> HIDE DEF z
  <2>5. Release(z) = [given |-> TRUE, pad |-> 0, digits |-> z]
    BY <2>1, <2>2 DEF Release
  <2>6. PICK x : x = Release(r)
    OBVIOUS
  <2>7. [x EXCEPT !.pad = 0] = [given |-> TRUE, pad |-> 0, digits |-> z]
    <3>1. x = [given |-> TRUE, pad |-> Len(r) - Len(z), digits |-> z]
      BY <2>4, <2>6
    <3> QED BY <3>1, Unpadding
  <2> QED BY <2>3, <2>5, <2>6, <2>7, Zenon
<1>2. ASSUME r = <<>>, HasVersion(b)
      PROVE  Release(CanonRel(b, r)) = FirstRelease
  <2>1. CanonRel(b, r) = One
    BY <1>2 DEF CanonRel
  <2>2. Len(One) - Len(One) = 0
    BY OneFacts, LenProperties
  <2>3. Release(One) = [given |-> TRUE, pad |-> 0, digits |-> One]
    BY <2>2, OneFacts DEF Release
  <2> QED BY <2>1, <2>3 DEF FirstRelease, One
<1>3. ASSUME r = <<>>, ~HasVersion(b)
      PROVE  CanonRel(b, r) = r
  BY <1>3 DEF CanonRel
<1> QED BY <1>1, <1>2, <1>3, Zenon

(***************************************************************************)
(* Lengths, and the parts of a valid name.                                 *)
(***************************************************************************)
LEMMA SizeOfNothing == Size(<<>>) = 0
<1>1. <<>> \in Seq(Symbol) /\ <<>> \o <<>> = <<>>
  BY DashIsText
<1>2. Size(<<>> \o <<>>) = Size(<<>>) + Size(<<>>) /\ Size(<<>>) \in Nat
  BY <1>1, SizeOfConcat
<1> QED BY <1>1, <1>2

LEMMA SizeOfSpell ==
  ASSUME NEW b, NEW r, NEW w, NEW e, WellFormed(b, r, w, e)
  PROVE  /\ Size(Spell(b, r, w, e)) = ((Size(b) + Size(RelTail(r))) + Size(ArchTail(w))) + Size(e)
         /\ Size(b) \in Nat /\ Size(RelTail(r)) \in Nat /\ Size(ArchTail(w)) \in Nat
         /\ Size(e) \in Nat
<1> DEFINE R == RelTail(r)
           A == ArchTail(w)
<1>1. b \in Seq(Symbol) /\ r \in Seq(Symbol) /\ w \in Words /\ e \in Extensions
  BY DEF WellFormed
<1>2. R \in Seq(Symbol)
  BY <1>1, RelTailFacts, DashIsText DEF RelTail
<1>3. A \in Seq(Symbol) /\ e \in Seq(Symbol)
  BY <1>1, ArchTailIsText, ExtensionFacts
<1>4. Spell(b, r, w, e) = ((b \o R) \o A) \o e
  BY DEF Spell
<1> HIDE DEF R, A
<1>5. b \o R \in Seq(Symbol) /\ Size(b \o R) = Size(b) + Size(R) /\ Size(b) \in Nat /\ Size(R) \in Nat
  BY <1>1, <1>2, JoinOf, SizeOfConcat
<1>6. /\ (b \o R) \o A \in Seq(Symbol) /\ Size((b \o R) \o A) = Size(b \o R) + Size(A)
      /\ Size(A) \in Nat
  BY <1>3, <1>5, JoinOf, SizeOfConcat
<1>7. Size(((b \o R) \o A) \o e) = Size((b \o R) \o A) + Size(e) /\ Size(e) \in Nat
  BY <1>3, <1>6, SizeOfConcat
<1> QED BY <1>4, <1>5, <1>6, <1>7 DEF R, A

\* The parts that spell a valid name.
GoodParts(b, r, w, e) ==
  /\ WellFormed(b, r, w, e)
  /\ b[1] # "." /\ NoDots(b)
  /\ r = <<>> /\ w = <<>> => b[Len(b)] # "."
  /\ Size(Spell(b, r, w, e)) < STORE_NAME_MAX

LEMMA PartsOfValid ==
  ASSUME NEW t \in Seq(Symbol), IsValid(t)
  PROVE  /\ GoodParts(BaseOf(t), RelOf(t), WordOf(t), SuffixOf(t))
         /\ t = Spell(BaseOf(t), RelOf(t), WordOf(t), SuffixOf(t))
<1>1. Size(t) < STORE_NAME_MAX
  BY DEF IsValid
<1> QED BY <1>1, ValidBase, TextIsSpelled DEF GoodParts

LEMMA ValidOfParts ==
  ASSUME NEW b, NEW r, NEW w, NEW e, GoodParts(b, r, w, e)
  PROVE  LET t == Spell(b, r, w, e) IN
         /\ t \in Seq(Symbol) /\ IsValid(t)
         /\ BaseOf(t) = b /\ RelOf(t) = r /\ WordOf(t) = w /\ SuffixOf(t) = e
BY SpellIsValid, PartsAreRead DEF GoodParts

LEMMA SpellReads ==
  ASSUME NEW b, NEW r, NEW w, NEW e, WellFormed(b, r, w, e)
  PROVE  Read(Spell(b, r, w, e)) = NameOf(b, r, w, e)
BY PartsAreRead, ReadIsName

\* A name is spelled in one way only.
LEMMA NameIsText ==
  ASSUME NEW b, NEW r, NEW w, NEW e, WellFormed(b, r, w, e),
         NEW u \in Seq(Symbol), IsValid(u), Read(u) = NameOf(b, r, w, e)
  PROVE  u = Spell(b, r, w, e)
<1> DEFINE t == Spell(b, r, w, e)
<1>1. t \in Seq(Symbol) /\ SuffixOf(t) = e /\ Read(t) = NameOf(b, r, w, e)
  BY PartsAreRead, SpellReads
<1>2. e # <<>>
  BY ExtensionFacts DEF WellFormed
<1>3. SuffixOf(u) # <<>>
  BY DEF IsValid
<1> HIDE DEF t
<1>4. t = u
  BY <1>1, <1>2, <1>3, ReadingIsInjective
<1> QED BY <1>4 DEF t

\* store_signature_name() spells the same parts with the signature's suffix.
LEMMA SignatureSpells ==
  ASSUME NEW t \in Seq(Symbol), IsValid(t), ~IsSignature(t)
  PROVE  /\ SuffixOf(t) \in Plain
         /\ WellFormed(BaseOf(t), RelOf(t), WordOf(t), SuffixOf(t) \o SigExt)
         /\ t \o SigExt = Spell(BaseOf(t), RelOf(t), WordOf(t), SuffixOf(t) \o SigExt)
<1> DEFINE b == BaseOf(t)
           r == RelOf(t)
           w == WordOf(t)
           e == SuffixOf(t)
           s == (b \o RelTail(r)) \o ArchTail(w)
<1>1. GoodParts(b, r, w, e) /\ t = Spell(b, r, w, e)
  BY PartsOfValid
<1>2. ~IsSuffix(SigExt, e)
  BY DEF IsSignature
<1> HIDE DEF b, r, w, e
<1>3. WellFormed(b, r, w, e) /\ e \in Extensions
  BY <1>1 DEF GoodParts, WellFormed
<1>4. e \in Plain
  BY <1>2, <1>3, SigExtFacts, SignatureSuffix
<1>5. e \o SigExt \in Extensions /\ e \in Seq(Symbol) /\ SigExt \in Seq(Symbol)
  BY <1>4, SigExtFacts, SignatureSuffix
<1>6. WellFormed(b, r, w, e \o SigExt)
  BY <1>3, <1>5 DEF WellFormed
<1>7. s \in Seq(Symbol) /\ t = s \o e /\ Spell(b, r, w, e \o SigExt) = s \o (e \o SigExt)
  BY <1>1, <1>3, StemIsRead DEF Spell
<1> HIDE DEF s
<1>8. (s \o e) \o SigExt = s \o (e \o SigExt)
  BY <1>5, <1>7, JoinIsAssociative
<1> QED BY <1>4, <1>6, <1>7, <1>8 DEF b, r, w, e

\* store_set_arch() and the probes spell the same parts with an architecture.
LEMMA StampSpells ==
  ASSUME NEW t \in Seq(Symbol), IsValid(t), WordOf(t) = <<>>, NEW a \in Architectures
  PROVE  /\ WellFormed(BaseOf(t), RelOf(t), <<a>>, SuffixOf(t))
         /\ Stamped(t, a) = Spell(BaseOf(t), RelOf(t), <<a>>, SuffixOf(t))
<1> DEFINE b == BaseOf(t)
           r == RelOf(t)
           e == SuffixOf(t)
           x == b \o RelTail(r)
<1>1. GoodParts(b, r, <<>>, e)
  BY PartsOfValid
<1>2. SuffixOf(t) # <<>>
  BY DEF IsValid
<1>3. WithoutArch(StemOf(t)) = x /\ StemOf(t) \in Seq(Symbol) /\ StemOf(t) # <<>>
  BY <1>2, TextIsSpelled, StemAndSuffix
<1>4. StemOf(t) = x
  BY <1>3, StemAndArch DEF WordOf
<1>5. WellFormed(b, r, <<a>>, e)
  BY <1>1 DEF GoodParts, WellFormed, Words
<1>6. Stamped(t, a) = (x \o <<"-", a>>) \o e
  BY <1>4 DEF Stamped
<1>7. Spell(b, r, <<a>>, e) = (x \o <<"-", a>>) \o e
  BY ArchTailFacts DEF Spell
<1> QED BY <1>5, <1>6, <1>7

LEMMA SignedText ==
  ASSUME NEW t \in Seq(Symbol), IsValid(t), ~IsSignature(t), Size(t \o SigExt) < STORE_NAME_MAX
  PROVE  LET s == t \o SigExt IN
         /\ s \in Seq(Symbol) /\ IsValid(s) /\ s # <<>> /\ SignatureText(t) = s
         /\ BaseOf(s) = BaseOf(t) /\ RelOf(s) = RelOf(t) /\ WordOf(s) = WordOf(t)
         /\ SuffixOf(s) = SuffixOf(t) \o SigExt /\ IsSignature(s)
<1> DEFINE b == BaseOf(t)
           r == RelOf(t)
           w == WordOf(t)
           e == SuffixOf(t)
           s == t \o SigExt
<1>1. e \in Plain /\ WellFormed(b, r, w, e \o SigExt) /\ s = Spell(b, r, w, e \o SigExt)
  BY SignatureSpells
<1>2. GoodParts(b, r, w, e)
  BY PartsOfValid
<1>3. SignatureText(t) = s
  BY DEF SignatureText, Checked
<1> HIDE DEF b, r, w, e
<1>4. Size(s) < STORE_NAME_MAX
  OBVIOUS
<1> HIDE DEF s
<1>5. GoodParts(b, r, w, e \o SigExt)
  BY <1>1, <1>2, <1>4 DEF GoodParts
<1>6. /\ s \in Seq(Symbol) /\ IsValid(s)
      /\ BaseOf(s) = b /\ RelOf(s) = r /\ WordOf(s) = w /\ SuffixOf(s) = e \o SigExt
  <2> DEFINE f == e \o SigExt
  <2>1. GoodParts(b, r, w, f) /\ s = Spell(b, r, w, f)
    BY <1>1, <1>5
  <2> HIDE DEF f
  <2>2. /\ s \in Seq(Symbol) /\ IsValid(s)
        /\ BaseOf(s) = b /\ RelOf(s) = r /\ WordOf(s) = w /\ SuffixOf(s) = f
    BY <2>1, ValidOfParts
  <2> QED BY <2>2 DEF f
<1>7. IsSignature(s)
  BY <1>1, <1>6, SignatureSuffix DEF IsSignature
<1> QED BY <1>3, <1>6, <1>7 DEF b, r, w, e, s, IsValid

LEMMA StampedText ==
  ASSUME NEW t \in Seq(Symbol), IsValid(t), WordOf(t) = <<>>, NEW a \in Architectures,
         Size(Stamped(t, a)) < STORE_NAME_MAX
  PROVE  LET s == Stamped(t, a) IN
         /\ s \in Seq(Symbol) /\ IsValid(s)
         /\ BaseOf(s) = BaseOf(t) /\ RelOf(s) = RelOf(t) /\ WordOf(s) = <<a>>
         /\ SuffixOf(s) = SuffixOf(t)
<1> DEFINE b == BaseOf(t)
           r == RelOf(t)
           e == SuffixOf(t)
           w == <<a>>
<1>1. WellFormed(b, r, w, e) /\ Stamped(t, a) = Spell(b, r, w, e)
  BY StampSpells
<1>2. GoodParts(b, r, <<>>, e)
  BY PartsOfValid
<1>3. w # <<>>
  OBVIOUS
<1> HIDE DEF b, r, e, w
<1>4. GoodParts(b, r, w, e)
  BY <1>1, <1>2, <1>3 DEF GoodParts
<1>5. LET s == Spell(b, r, w, e) IN
         /\ s \in Seq(Symbol) /\ IsValid(s)
         /\ BaseOf(s) = b /\ RelOf(s) = r /\ WordOf(s) = w /\ SuffixOf(s) = e
  BY <1>4, ValidOfParts
<1> QED BY <1>1, <1>5 DEF b, r, e, w

(***************************************************************************)
(* The texts of the tables.  Each of them grows out of a written name, or  *)
(* its canonical form, by an architecture or the signature's suffix.       *)
(***************************************************************************)
Roots == WithCanonicals({t \in Written : IsValid(t)})

Grows(v, t) ==
  /\ BaseOf(t) = BaseOf(v) /\ RelOf(t) = RelOf(v)
  /\ WordOf(v) \in {<<>>, WordOf(t)}
  /\ \/ SuffixOf(t) = SuffixOf(v)
     \/ ~IsSignature(v) /\ SuffixOf(t) = SuffixOf(v) \o SigExt

LEMMA RootFacts ==
  ASSUME NEW v \in Roots
  PROVE  /\ v \in Seq(Symbol) /\ IsValid(v)
         /\ CanonicalText(v) # <<>> => CanonicalText(v) \in Roots
<1>1. CASE v \in Written /\ IsValid(v)
  <2>1. v \in Seq(Symbol)
    BY <1>1, WrittenAssumption DEF Symbol
  <2>2. v \in {t \in Written : IsValid(t)}
    BY <1>1
  <2> HIDE DEF IsValid
  <2>3. CanonicalText(v) # <<>> => CanonicalText(v) \in Roots
    BY <2>2 DEF Roots, WithCanonicals
  <2> QED BY <1>1, <2>1, <2>3
<1>2. CASE ~(v \in Written /\ IsValid(v))
  <2>1. PICK t \in Written : IsValid(t) /\ v = CanonicalText(t) /\ v # <<>>
    BY <1>2 DEF Roots, WithCanonicals
  <2>2. t \in Seq(Symbol)
    BY WrittenAssumption DEF Symbol
  <2>3. v \in Seq(Symbol) /\ IsValid(v) /\ CanonicalText(v) = v
    BY <2>1, <2>2, CanonicalIsSettled
  <2> QED BY <2>3
<1> QED BY <1>1, <1>2

LEMMA TextsGrow ==
  ASSUME NEW t \in ParsedTexts
  PROVE  t \in Seq(Symbol) /\ IsValid(t) /\ \E v \in Roots : Grows(v, t)
<1>1. ASSUME NEW u \in WithSignatures(Roots)
      PROVE  /\ u \in Seq(Symbol) /\ IsValid(u)
             /\ \E v \in Roots : Grows(v, u) /\ WordOf(v) = WordOf(u)
  <2>1. CASE u \in Roots
    BY <2>1, RootFacts DEF Grows
  <2>2. CASE u \notin Roots
    <3>1. PICK v \in Roots : u = SignatureText(v) /\ u # <<>>
      BY <2>2 DEF WithSignatures
    <3>2. v \in Seq(Symbol) /\ IsValid(v)
      BY RootFacts
    <3>3. ~IsSignature(v) /\ Size(v \o SigExt) < STORE_NAME_MAX /\ u = v \o SigExt
      BY <3>1 DEF SignatureText, Checked
    <3>4. /\ u \in Seq(Symbol) /\ IsValid(u)
          /\ BaseOf(u) = BaseOf(v) /\ RelOf(u) = RelOf(v) /\ WordOf(u) = WordOf(v)
          /\ SuffixOf(u) = SuffixOf(v) \o SigExt
      BY <3>2, <3>3, SignedText
    <3> QED BY <3>3, <3>4 DEF Grows
  <2> QED BY <2>1, <2>2
<1>2. CASE t \in WithSignatures(Roots)
  BY <1>1, <1>2
<1>3. CASE t \notin WithSignatures(Roots)
  <2>1. PICK u \in WithSignatures(Roots), a \in Architectures :
           WordOf(u) = <<>> /\ t = Stamped(u, a) /\ Size(t) < STORE_NAME_MAX
    BY <1>3 DEF ParsedTexts, WithStamps, Roots, WordOf
  <2>2. u \in Seq(Symbol) /\ IsValid(u)
    BY <1>1
  <2>3. /\ t \in Seq(Symbol) /\ IsValid(t)
        /\ BaseOf(t) = BaseOf(u) /\ RelOf(t) = RelOf(u) /\ SuffixOf(t) = SuffixOf(u)
    BY <2>1, <2>2, StampedText
  <2>4. PICK v \in Roots : Grows(v, u) /\ WordOf(v) = WordOf(u)
    BY <1>1
  <2>5. Grows(v, t)
    BY <2>1, <2>3, <2>4 DEF Grows
  <2> QED BY <2>3, <2>5
<1> QED BY <1>2, <1>3

LEMMA ShorterFits ==
  ASSUME NEW b, NEW r, NEW w, NEW e, WellFormed(b, r, w, e),
         NEW x, NEW f, WellFormed(b, r, x, f),
         w \in {<<>>, x}, Size(e) <= Size(f), Size(Spell(b, r, x, f)) < STORE_NAME_MAX
  PROVE  Size(Spell(b, r, w, e)) < STORE_NAME_MAX
<1>1. /\ Size(Spell(b, r, w, e)) = ((Size(b) + Size(RelTail(r))) + Size(ArchTail(w))) + Size(e)
      /\ Size(b) \in Nat /\ Size(RelTail(r)) \in Nat /\ Size(ArchTail(w)) \in Nat /\ Size(e) \in Nat
  BY SizeOfSpell
<1>2. /\ Size(Spell(b, r, x, f)) = ((Size(b) + Size(RelTail(r))) + Size(ArchTail(x))) + Size(f)
      /\ Size(ArchTail(x)) \in Nat /\ Size(f) \in Nat
  BY SizeOfSpell
<1>3. Size(ArchTail(<<>>)) = 0
  BY SizeOfNothing DEF ArchTail
<1>4. Size(ArchTail(w)) <= Size(ArchTail(x))
  BY <1>1, <1>2, <1>3
<1> QED BY <1>1, <1>2, <1>4 DEF STORE_NAME_MAX

LEMMA SignatureIsLonger ==
  ASSUME NEW e \in Plain
  PROVE  Size(e) <= Size(e \o SigExt)
<1>1. Size(e \o SigExt) = Size(e) + Size(SigExt) /\ Size(e) \in Nat /\ Size(SigExt) \in Nat
  BY SignatureSuffix, SigExtFacts, SizeOfConcat
<1> QED BY <1>1

LEMMA GrownIsText ==
  ASSUME NEW t \in Seq(Symbol), IsValid(t), NEW v \in Roots, Grows(v, t)
  PROVE  t \in ParsedTexts
<1> DEFINE b == BaseOf(t)
           r == RelOf(t)
           w == WordOf(t)
           e == SuffixOf(t)
           x == WordOf(v)
<1>1. GoodParts(b, r, w, e) /\ t = Spell(b, r, w, e)
  BY PartsOfValid
<1>2. v \in Seq(Symbol) /\ IsValid(v)
  BY RootFacts
<1>3. BaseOf(v) = b /\ RelOf(v) = r /\ x \in {<<>>, w}
  BY DEF Grows
<1>4. PICK u \in WithSignatures(Roots) :
         /\ u \in Seq(Symbol) /\ IsValid(u)
         /\ BaseOf(u) = b /\ RelOf(u) = r /\ WordOf(u) = x /\ SuffixOf(u) = e
  <2>1. CASE SuffixOf(t) = SuffixOf(v)
    BY <2>1, <1>2, <1>3 DEF WithSignatures
  <2>2. CASE ~IsSignature(v) /\ SuffixOf(t) = SuffixOf(v) \o SigExt
    <3> DEFINE f == SuffixOf(v)
    <3>1. f \in Plain /\ WellFormed(b, r, x, f \o SigExt) /\ v \o SigExt = Spell(b, r, x, f \o SigExt)
      BY <1>2, <1>3, <2>2, SignatureSpells
    <3>2. e = f \o SigExt
      BY <2>2
    <3>3. Size(e) \in Nat
      BY <1>1, SizeOfSpell DEF GoodParts
    <3> HIDE DEF b, r, w, e, x, f
    <3>4. WellFormed(b, r, x, e) /\ WellFormed(b, r, w, e) /\ Size(e) <= Size(e)
      BY <1>1, <3>1, <3>2, <3>3 DEF GoodParts
    <3>5. Size(Spell(b, r, x, e)) < STORE_NAME_MAX
      BY <1>1, <1>3, <3>4, ShorterFits DEF GoodParts
    <3>6. Size(v \o SigExt) < STORE_NAME_MAX
      BY <3>1, <3>2, <3>5
    <3>7. LET s == v \o SigExt IN
          /\ s \in Seq(Symbol) /\ IsValid(s) /\ s # <<>> /\ SignatureText(v) = s
          /\ BaseOf(s) = BaseOf(v) /\ RelOf(s) = RelOf(v) /\ WordOf(s) = WordOf(v)
          /\ SuffixOf(s) = SuffixOf(v) \o SigExt
      BY <1>2, <2>2, <3>6, SignedText
    <3>8. v \o SigExt \in WithSignatures(Roots)
      BY <3>7 DEF WithSignatures
    <3>9. WordOf(v) = x
      BY DEF x
    <3> QED BY <1>3, <3>2, <3>7, <3>8, <3>9 DEF f
  <2> QED BY <2>1, <2>2 DEF Grows
<1>5. GoodParts(b, r, x, e) /\ u = Spell(b, r, x, e)
  BY <1>4, PartsOfValid
<1>6. WithSignatures(Roots) \subseteq ParsedTexts
  BY DEF ParsedTexts, WithStamps, Roots
<1>7. CASE x = w
  BY <1>1, <1>4, <1>5, <1>6, <1>7
<1>8. CASE x # w
  <2>1. x = <<>> /\ w # <<>> /\ w \in Words
    BY <1>1, <1>3, <1>8 DEF GoodParts, WellFormed
  <2>2. PICK a \in Architectures : w = <<a>>
    BY <2>1 DEF Words
  <2>3. Stamped(u, a) = Spell(b, r, <<a>>, e)
    BY <1>4, <2>1, StampSpells
  <2>4. Stamped(u, a) = t /\ Size(t) < STORE_NAME_MAX
    BY <1>1, <2>2, <2>3 DEF GoodParts
  <2>5. ArchOf(StemOf(u)) = <<>>
    BY <1>4, <2>1 DEF WordOf
  <2> DEFINE G == {k \in WithSignatures(Roots) : ArchOf(StemOf(k)) = <<>>}
  <2>6. u \in G
    BY <1>4, <2>5
  <2> HIDE DEF G
  <2>7. t \in {y \in {Stamped(k, c) : k \in G, c \in Architectures} : Size(y) < STORE_NAME_MAX}
    BY <2>4, <2>6
  <2> QED BY <2>7 DEF ParsedTexts, WithStamps, Roots, G
<1> QED BY <1>7, <1>8

\* The store makes no name of a name of the tables that is not in them.
LEMMA TextsAreClosed ==
  ASSUME NEW t \in ParsedTexts
  PROVE  /\ CanonicalText(t) # <<>> => CanonicalText(t) \in ParsedTexts
         /\ SignatureText(t) # <<>> => SignatureText(t) \in ParsedTexts
         /\ \A a \in Architectures :
              WordOf(t) = <<>> /\ Size(Stamped(t, a)) < STORE_NAME_MAX =>
                Stamped(t, a) \in ParsedTexts
<1>1. t \in Seq(Symbol) /\ IsValid(t)
  BY TextsGrow
<1>2. PICK v \in Roots : Grows(v, t)
  BY TextsGrow
<1>3. v \in Seq(Symbol) /\ IsValid(v) /\ (CanonicalText(v) # <<>> => CanonicalText(v) \in Roots)
  BY RootFacts
<1>4. ASSUME CanonicalText(t) # <<>>
      PROVE  CanonicalText(t) \in ParsedTexts
  <2> DEFINE c == CanonicalText(t)
             b == BaseOf(t)
             q == CanonRel(b, RelOf(t))
             w == WordOf(t)
             e == SuffixOf(t)
             x == WordOf(v)
             f == SuffixOf(v)
  <2>1. /\ c \in Seq(Symbol) /\ IsValid(c)
        /\ BaseOf(c) = b /\ RelOf(c) = q /\ WordOf(c) = w /\ SuffixOf(c) = e
    BY <1>1, <1>4, CanonicalIsSettled
  <2>2. GoodParts(b, q, w, e)
    BY <2>1, PartsOfValid
  <2>3. BaseOf(v) = b /\ RelOf(v) = RelOf(t) /\ x \in {<<>>, w}
    BY <1>2 DEF Grows
  <2>4. CanonicalText(v) = Checked(Spell(b, q, x, f))
    BY <1>3, <2>3, CanonicalSpells
  <2>5. WellFormed(b, RelOf(t), x, f)
    BY <1>3, <2>3, PartsOfValid DEF GoodParts
  <2>6. WellFormed(b, q, x, f)
    BY <2>5, CanonRelFacts
  <2>7. Size(f) <= Size(e)
    <3>1. CASE e = f
      <4>1. Size(f) \in Nat
        BY <2>6, SizeOfSpell
      <4> QED BY <3>1, <4>1
    <3>2. CASE ~IsSignature(v) /\ e = f \o SigExt
      BY <1>3, <3>2, SignatureSpells, SignatureIsLonger
    <3> QED BY <1>2, <3>1, <3>2 DEF Grows
  <2>8. Spell(b, q, x, f) # <<>>
    BY <2>6, PartsAreRead
  <2> HIDE DEF b, q, w, e, x, f
  <2>9. Size(Spell(b, q, x, f)) < STORE_NAME_MAX
    BY <2>2, <2>3, <2>6, <2>7, ShorterFits DEF GoodParts
  <2> DEFINE d == CanonicalText(v)
  <2>10. d # <<>>
    BY <2>4, <2>8, <2>9 DEF Checked
  <2>11. /\ d \in Roots
         /\ BaseOf(d) = b /\ RelOf(d) = q /\ WordOf(d) = x /\ SuffixOf(d) = f
    BY <1>3, <2>3, <2>10, CanonicalIsSettled DEF b, q, x, f
  <2>12. f = e \/ (~IsSignature(v) /\ e = f \o SigExt)
    BY <1>2 DEF Grows, e, f
  <2>13. IsSignature(d) = IsSignature(v)
    BY <2>11 DEF IsSignature, f
  <2> HIDE DEF c, d
  <2>14. Grows(d, c)
    BY <2>1, <2>3, <2>11, <2>12, <2>13 DEF Grows
  <2> QED BY <2>1, <2>11, <2>14, GrownIsText DEF c
<1>5. ASSUME SignatureText(t) # <<>>
      PROVE  SignatureText(t) \in ParsedTexts
  <2> DEFINE s == t \o SigExt
  <2>1. ~IsSignature(t) /\ Size(s) < STORE_NAME_MAX /\ SignatureText(t) = s
    BY <1>5 DEF SignatureText, Checked
  <2>2. /\ s \in Seq(Symbol) /\ IsValid(s)
        /\ BaseOf(s) = BaseOf(t) /\ RelOf(s) = RelOf(t) /\ WordOf(s) = WordOf(t)
        /\ SuffixOf(s) = SuffixOf(t) \o SigExt
    BY <1>1, <2>1, SignedText
  <2>3. SuffixOf(t) \in Plain
    BY <1>1, <2>1, SignatureSpells
  <2>4. SuffixOf(t) = SuffixOf(v)
    <3>1. CASE ~IsSignature(v) /\ SuffixOf(t) = SuffixOf(v) \o SigExt
      BY <1>3, <2>1, <3>1, SignatureSpells, SignatureSuffix DEF IsSignature
    <3> QED BY <1>2, <3>1 DEF Grows
  <2>5. ~IsSignature(v)
    BY <2>1, <2>4 DEF IsSignature
  <2> HIDE DEF s
  <2>6. Grows(v, s)
    BY <1>2, <2>2, <2>4, <2>5 DEF Grows
  <2> QED BY <2>1, <2>2, <2>6, GrownIsText
<1>6. ASSUME NEW a \in Architectures, WordOf(t) = <<>>, Size(Stamped(t, a)) < STORE_NAME_MAX
      PROVE  Stamped(t, a) \in ParsedTexts
  <2> DEFINE s == Stamped(t, a)
  <2>1. /\ s \in Seq(Symbol) /\ IsValid(s)
        /\ BaseOf(s) = BaseOf(t) /\ RelOf(s) = RelOf(t) /\ SuffixOf(s) = SuffixOf(t)
    BY <1>1, <1>6, StampedText
  <2> HIDE DEF s
  <2>2. WordOf(v) = <<>>
    BY <1>2, <1>6 DEF Grows
  <2>3. Grows(v, s)
    BY <1>2, <2>1, <2>2 DEF Grows
  <2>4. s \in ParsedTexts
    BY <2>1, <2>3, GrownIsText
  <2> QED BY <2>4 DEF s
<1> QED BY <1>4, <1>5, <1>6

(***************************************************************************)
(* The tables.                                                             *)
(***************************************************************************)
LEMMA Tables ==
  /\ Texts = ParsedTexts
  /\ Canon = [t \in Texts |-> CanonicalText(t)]
  /\ SigOf = [t \in Texts |-> SignatureText(t)]
  /\ Looked = [t \in Texts |-> IF CanonicalText(t) = <<>> THEN {} ELSE Probed(CanonicalText(t))]
  /\ Bare = {t \in Texts : WordOf(t) = <<>>}
  /\ Reading = [t \in Texts |-> Read(t)]
  /\ Parsed.versioned = {p \in PkgsOf(Range(Reading)) : HasVersion(p[1])}
  /\ Spelling = ParsedSpelling
<1>1. /\ Parsed.texts = ParsedTexts /\ Parsed.canon = ParsedCanon /\ Parsed.sigOf = ParsedSigOf
      /\ Parsed.looked = ParsedLooked /\ Parsed.bare = ParsedBare
      /\ Parsed.reading = ParsedReading /\ Parsed.versioned = ParsedVersioned
      /\ Parsed.spelling = ParsedSpelling
  BY ParsedAssumption DEF ParseAll
<1>2. Texts = ParsedTexts
  BY <1>1 DEF Texts
<1>3. Canon = [t \in Texts |-> CanonicalText(t)]
  BY <1>1, <1>2 DEF ParsedCanon, Canon
<1>4. SigOf = [t \in Texts |-> SignatureText(t)]
  BY <1>1, <1>2 DEF ParsedSigOf, SigOf
<1>5. Looked = [t \in Texts |-> IF CanonicalText(t) = <<>> THEN {} ELSE Probed(CanonicalText(t))]
  BY <1>1, <1>2 DEF ParsedLooked, Looked
<1>6. Reading = [t \in Texts |-> Read(t)] /\ Reading = ParsedReading
  BY <1>1, <1>2 DEF ParsedReading, Reading
<1>7. Bare = {t \in Texts : WordOf(t) = <<>>}
  BY <1>1, <1>2 DEF Bare, ParsedBare, WordOf
<1>8. Parsed.versioned = {p \in PkgsOf(Range(Reading)) : HasVersion(p[1])}
  BY <1>1, <1>6 DEF ParsedVersioned
<1> QED BY <1>1, <1>2, <1>3, <1>4, <1>5, <1>6, <1>7, <1>8 DEF Spelling

\* What a name of the tables is read as.
LEMMA TextFacts ==
  ASSUME NEW t \in Texts
  PROVE  /\ t \in Seq(Symbol) /\ IsValid(t) /\ t # <<>>
         /\ Reading[t] = NameOf(BaseOf(t), RelOf(t), WordOf(t), SuffixOf(t))
         /\ GoodParts(BaseOf(t), RelOf(t), WordOf(t), SuffixOf(t))
         /\ t = Spell(BaseOf(t), RelOf(t), WordOf(t), SuffixOf(t))
<1>1. t \in Seq(Symbol) /\ IsValid(t)
  BY Tables, TextsGrow
<1>2. Reading[t] = Read(t)
  BY Tables
<1>3. t # <<>>
  BY <1>1 DEF IsValid
<1> QED BY <1>1, <1>2, <1>3, ReadIsName, PartsOfValid

LEMMA ReadingsDiffer ==
  ASSUME NEW t \in Texts, NEW u \in Texts, Reading[t] = Reading[u]
  PROVE  t = u
<1>1. SuffixOf(t) # <<>> /\ SuffixOf(u) # <<>>
  BY TextFacts DEF IsValid
<1>2. Read(t) = Read(u)
  BY Tables
<1> QED BY <1>1, <1>2, TextFacts, ReadingIsInjective

LEMMA NameUpdates ==
  ASSUME NEW p, NEW q, NEW a, NEW s, NEW n, n = [pkg |-> p, rel |-> q, arch |-> a, sig |-> s],
         NEW x
  PROVE  /\ [n EXCEPT !.rel = x] = [pkg |-> p, rel |-> x, arch |-> a, sig |-> s]
         /\ [n EXCEPT !.arch = x] = [pkg |-> p, rel |-> q, arch |-> x, sig |-> s]
         /\ [n EXCEPT !.sig = x] = [pkg |-> p, rel |-> q, arch |-> a, sig |-> x]
OBVIOUS

LEMMA CanonicalName ==
  ASSUME NEW t \in Texts
  PROVE  Abstract!Canonical(Reading[t]) =
           NameOf(BaseOf(t), CanonRel(BaseOf(t), RelOf(t)), WordOf(t), SuffixOf(t))
<1> DEFINE b == BaseOf(t)
           r == RelOf(t)
           w == WordOf(t)
           e == SuffixOf(t)
           q == CanonRel(b, r)
<1>1. PICK n : n = Reading[t]
  OBVIOUS
<1>2. WellFormed(b, r, w, e)
  BY TextFacts DEF GoodParts
<1>3. n = [pkg |-> <<b, PlainOf(e)>>, rel |-> Release(r), arch |-> ArchName(w), sig |-> IsSuffix(SigExt, e)]
  BY <1>1, TextFacts DEF NameOf
<1>4. n.pkg \in Parsed.versioned <=> HasVersion(b)
  <2>1. n.pkg = <<b, PlainOf(e)>> /\ n.pkg[1] = b
    BY <1>3
  <2>2. n \in Range(Reading)
    BY <1>1, Tables DEF Range
  <2>3. n.pkg \in PkgsOf(Range(Reading))
    BY <2>2 DEF PkgsOf
  <2> QED BY <2>1, <2>3, Tables
<1>5. n.rel = Release(r) /\ (Release(r).given <=> r # <<>>)
  BY <1>3 DEF Release
<1> HIDE DEF b, r, w, e
<1>6. Abstract!CanonicalRel(n) = Release(q)
  <2>1. /\ r # <<>> => [Release(r) EXCEPT !.pad = 0] = Release(q)
        /\ r = <<>> /\ HasVersion(b) => Release(q) = FirstRelease
        /\ r = <<>> /\ ~HasVersion(b) => q = r
    BY <1>2, ReleaseOfCanonical
  <2> HIDE DEF q
  <2>2. Abstract!CanonicalRel(n) =
          IF n.rel.given THEN [n.rel EXCEPT !.pad = 0]
          ELSE IF n.pkg \in Parsed.versioned THEN FirstRelease ELSE n.rel
    BY Zenon DEF Abstract!CanonicalRel, Abstract!Unpadded, Abstract!FirstRel, FirstRelease
  <2>3. CASE r # <<>>
    BY <1>5, <2>1, <2>2, <2>3, Zenon
  <2>4. CASE r = <<>> /\ HasVersion(b)
    BY <1>4, <1>5, <2>1, <2>2, <2>4, Zenon
  <2>5. CASE r = <<>> /\ ~HasVersion(b)
    BY <1>4, <1>5, <2>1, <2>2, <2>5, Zenon
  <2> QED BY <2>3, <2>4, <2>5
<1> HIDE DEF q
<1>7. Abstract!Canonical(n) = [n EXCEPT !.rel = Release(q)]
  BY <1>6, Zenon DEF Abstract!Canonical
<1>8. [n EXCEPT !.rel = Release(q)]
       = [pkg |-> <<b, PlainOf(e)>>, rel |-> Release(q), arch |-> ArchName(w), sig |-> IsSuffix(SigExt, e)]
  <2> DEFINE p == <<b, PlainOf(e)>>
             f == Release(r)
             a == ArchName(w)
             g == IsSuffix(SigExt, e)
             z == Release(q)
  <2>1. n = [pkg |-> p, rel |-> f, arch |-> a, sig |-> g]
    BY <1>3, Zenon
  <2> HIDE DEF p, f, a, g, z
  <2>2. [n EXCEPT !.rel = z] = [pkg |-> p, rel |-> z, arch |-> a, sig |-> g]
    BY <2>1, NameUpdates
  <2> QED BY <2>2, Zenon DEF p, a, g, z
<1>9. Abstract!Canonical(n) = NameOf(b, q, w, e)
  BY <1>7, <1>8, Zenon DEF NameOf
<1> QED BY <1>1, <1>9, Zenon DEF b, r, w, e, q

LEMMA ArchUpdate ==
  ASSUME NEW b, NEW r, NEW w, NEW e, NEW a \in Architectures
  PROVE  [NameOf(b, r, w, e) EXCEPT !.arch = a] = NameOf(b, r, <<a>>, e)
<1> DEFINE p == <<b, PlainOf(e)>>
           f == Release(r)
           x == ArchName(w)
           g == IsSuffix(SigExt, e)
<1>1. PICK n : n = NameOf(b, r, w, e)
  OBVIOUS
<1>2. n = [pkg |-> p, rel |-> f, arch |-> x, sig |-> g]
  BY <1>1, Zenon DEF NameOf
<1>3. ArchName(<<a>>) = a
  <2>1. <<a>> # <<>> /\ <<a>>[1] = a
    OBVIOUS
  <2> QED BY <2>1, Zenon DEF ArchName
<1>4. NameOf(b, r, <<a>>, e) = [pkg |-> p, rel |-> f, arch |-> a, sig |-> g]
  BY <1>3, Zenon DEF NameOf
<1> HIDE DEF p, f, x, g
<1>5. [n EXCEPT !.arch = a] = [pkg |-> p, rel |-> f, arch |-> a, sig |-> g]
  BY <1>2, NameUpdates
<1> QED BY <1>1, <1>4, <1>5, Zenon

LEMMA SigUpdate ==
  ASSUME NEW b, NEW r, NEW w, NEW e \in Plain
  PROVE  [NameOf(b, r, w, e) EXCEPT !.sig = TRUE] = NameOf(b, r, w, e \o SigExt)
<1> DEFINE p == <<b, e>>
           f == Release(r)
           x == ArchName(w)
<1>1. PICK n : n = NameOf(b, r, w, e)
  OBVIOUS
<1>2. /\ ~IsSuffix(SigExt, e) /\ IsSuffix(SigExt, e \o SigExt)
      /\ SubSeq(e \o SigExt, 1, Len(e \o SigExt) - Len(SigExt)) = e
  BY SignatureSuffix
<1>3. PlainOf(e) = e /\ PlainOf(e \o SigExt) = e
  BY <1>2, Zenon DEF PlainOf
<1>4. (IsSuffix(SigExt, e) = FALSE) /\ (IsSuffix(SigExt, e \o SigExt) = TRUE)
  BY <1>2
<1>5. n = [pkg |-> p, rel |-> f, arch |-> x, sig |-> FALSE]
  BY <1>1, <1>3, <1>4, Zenon DEF NameOf
<1>6. NameOf(b, r, w, e \o SigExt) = [pkg |-> p, rel |-> f, arch |-> x, sig |-> TRUE]
  BY <1>3, <1>4, Zenon DEF NameOf
<1> HIDE DEF p, f, x
<1>7. [n EXCEPT !.sig = TRUE] = [pkg |-> p, rel |-> f, arch |-> x, sig |-> TRUE]
  <2> DEFINE g == FALSE
             y == TRUE
  <2>1. n = [pkg |-> p, rel |-> f, arch |-> x, sig |-> g]
    BY <1>5
  <2> HIDE DEF g, y
  <2>2. [n EXCEPT !.sig = y] = [pkg |-> p, rel |-> f, arch |-> x, sig |-> y]
    BY <2>1, NameUpdates
  <2> QED BY <2>2, Zenon DEF y
<1> QED BY <1>1, <1>6, <1>7, Zenon

\* The canonical text reads as the canonical name, where it fits.
LEMMA CanonFacts ==
  ASSUME NEW t \in Texts
  PROVE  /\ Canon[t] # <<>> =>
              /\ Canon[t] \in Texts /\ Canon[Canon[t]] = Canon[t]
              /\ Reading[Canon[t]] = Abstract!Canonical(Reading[t])
              /\ Canon[t] \in Bare <=> t \in Bare
         /\ \A u \in Texts : Reading[u] = Abstract!Canonical(Reading[t]) => Canon[t] = u
<1> DEFINE b == BaseOf(t)
           q == CanonRel(BaseOf(t), RelOf(t))
           w == WordOf(t)
           e == SuffixOf(t)
           c == Canon[t]
<1>1. t \in Seq(Symbol) /\ IsValid(t) /\ c = CanonicalText(t)
  BY TextFacts, Tables
<1>2. Abstract!Canonical(Reading[t]) = NameOf(b, q, w, e)
  BY CanonicalName
<1>3. ASSUME c # <<>>
      PROVE  /\ c \in Texts /\ Canon[c] = c
             /\ Reading[c] = Abstract!Canonical(Reading[t])
             /\ c \in Bare <=> t \in Bare
  <2>1. c \in Texts
    BY <1>1, <1>3, Tables, TextsAreClosed
  <2>2. /\ CanonicalText(c) = c
        /\ BaseOf(c) = b /\ RelOf(c) = q /\ WordOf(c) = w /\ SuffixOf(c) = e
    BY <1>1, <1>3, CanonicalIsSettled
  <2>3. Canon[c] = c
    BY <2>1, <2>2, Tables
  <2>4. Reading[c] = NameOf(b, q, w, e)
    BY <2>1, <2>2, TextFacts
  <2>5. c \in Bare <=> t \in Bare
    BY <2>1, <2>2, Tables
  <2> QED BY <1>2, <2>1, <2>3, <2>4, <2>5
<1>4. ASSUME NEW u \in Texts, Reading[u] = Abstract!Canonical(Reading[t])
      PROVE  c = u
  <2>1. u \in Seq(Symbol) /\ IsValid(u) /\ Read(u) = NameOf(b, q, w, e)
    BY <1>2, <1>4, TextFacts, Tables
  <2>2. WellFormed(b, q, w, e)
    BY TextFacts, CanonRelFacts DEF GoodParts
  <2>3. u = Spell(b, q, w, e)
    BY <2>1, <2>2, NameIsText
  <2>4. Size(u) < STORE_NAME_MAX
    BY <2>1 DEF IsValid
  <2>5. CanonicalText(t) = Checked(Spell(b, q, w, e))
    BY <1>1, CanonicalSpells
  <2> QED BY <1>1, <2>3, <2>4, <2>5 DEF Checked
<1> QED BY <1>3, <1>4

\* The signature's text reads as the signature's name, where it fits.
LEMMA SigFacts ==
  ASSUME NEW t \in Texts
  PROVE  /\ Reading[t].sig = IsSignature(t) /\ IsSignature(t) \in BOOLEAN
         /\ SigOf[t] # <<>> =>
              /\ ~Reading[t].sig /\ SigOf[t] \in Texts
              /\ Reading[SigOf[t]] = Abstract!SignatureName(Reading[t])
         /\ \A u \in Texts :
              ~Reading[t].sig /\ Reading[u] = Abstract!SignatureName(Reading[t]) => SigOf[t] = u
<1> DEFINE b == BaseOf(t)
           r == RelOf(t)
           w == WordOf(t)
           e == SuffixOf(t)
           s == t \o SigExt
<1>1. t \in Seq(Symbol) /\ IsValid(t) /\ SigOf[t] = SignatureText(t)
  BY TextFacts, Tables
<1>2. Reading[t] = NameOf(b, r, w, e)
  BY TextFacts
<1>3. Reading[t].sig = IsSignature(t) /\ IsSignature(t) \in BOOLEAN
  BY <1>2 DEF NameOf, IsSignature, IsSuffix, IsPrefix
<1>4. Abstract!SignatureName(Reading[t]) = [NameOf(b, r, w, e) EXCEPT !.sig = TRUE]
  BY <1>2, Zenon DEF Abstract!SignatureName
<1>5. ASSUME ~IsSignature(t)
      PROVE  /\ Abstract!SignatureName(Reading[t]) = NameOf(b, r, w, e \o SigExt)
             /\ WellFormed(b, r, w, e \o SigExt) /\ s = Spell(b, r, w, e \o SigExt)
  <2>1. e \in Plain /\ WellFormed(b, r, w, e \o SigExt) /\ s = Spell(b, r, w, e \o SigExt)
    BY <1>1, <1>5, SignatureSpells
  <2>2. [NameOf(b, r, w, e) EXCEPT !.sig = TRUE] = NameOf(b, r, w, e \o SigExt)
    <3>1. e \in Plain
      BY <2>1
    <3> HIDE DEF b, r, w, e
    <3> QED BY <3>1, SigUpdate
  <2> QED BY <1>4, <2>1, <2>2, Zenon
<1>6. ASSUME SigOf[t] # <<>>
      PROVE  /\ ~IsSignature(t) /\ SigOf[t] \in Texts
             /\ Reading[SigOf[t]] = Abstract!SignatureName(Reading[t])
  <2>1. ~IsSignature(t) /\ Size(s) < STORE_NAME_MAX /\ SigOf[t] = s
    BY <1>1, <1>6 DEF SignatureText, Checked
  <2>2. s \in Texts
    BY <1>1, <1>6, <2>1, Tables, TextsAreClosed
  <2>3. Read(s) = NameOf(b, r, w, e \o SigExt)
    <3> DEFINE f == e \o SigExt
    <3>1. WellFormed(b, r, w, f) /\ s = Spell(b, r, w, f)
      BY <1>5, <2>1
    <3> HIDE DEF f, b, r, w, e, s
    <3>2. Read(s) = NameOf(b, r, w, f)
      BY <3>1, SpellReads
    <3> QED BY <3>2 DEF f
  <2>4. Reading[s] = Read(s)
    BY <2>2, Tables
  <2> QED BY <1>5, <2>1, <2>2, <2>3, <2>4
<1>7. ASSUME NEW u \in Texts, ~IsSignature(t), Reading[u] = Abstract!SignatureName(Reading[t])
      PROVE  SigOf[t] = u
  <2> DEFINE f == e \o SigExt
  <2>1. WellFormed(b, r, w, f) /\ s = Spell(b, r, w, f)
    BY <1>5, <1>7
  <2>2. u \in Seq(Symbol) /\ IsValid(u) /\ Read(u) = NameOf(b, r, w, f)
    BY <1>5, <1>7, TextFacts, Tables
  <2> HIDE DEF f, b, r, w, e
  <2>3. u = s
    BY <2>1, <2>2, NameIsText
  <2>4. Size(s) < STORE_NAME_MAX
    BY <2>2, <2>3 DEF IsValid
  <2> QED BY <1>1, <1>7, <2>3, <2>4 DEF SignatureText, Checked
<1> QED BY <1>3, <1>6, <1>7

\* A name with an architecture put in front of its suffix reads as the name
\* with that architecture, where it fits.
LEMMA StampFacts ==
  ASSUME NEW t \in Texts
  PROVE  /\ Reading[t].arch \in Architectures \cup {""}
         /\ t \in Bare <=> Reading[t].arch = ""
         /\ \A a \in Architectures :
              t \in Bare /\ Size(Stamped(t, a)) < STORE_NAME_MAX =>
                LET s == Stamped(t, a) IN
                /\ s \in Texts /\ Reading[s] = Abstract!Stamp(Reading[t], a)
                /\ WithoutArch(StemOf(s)) \o SuffixOf(s) = t
         /\ \A a \in Architectures, u \in Texts :
              t \in Bare /\ Reading[u] = Abstract!Stamp(Reading[t], a) => u = Stamped(t, a)
<1> DEFINE b == BaseOf(t)
           r == RelOf(t)
           w == WordOf(t)
           e == SuffixOf(t)
<1>1. t \in Seq(Symbol) /\ IsValid(t) /\ (t \in Bare <=> w = <<>>)
  BY TextFacts, Tables
<1>2. Reading[t] = NameOf(b, r, w, e) /\ WellFormed(b, r, w, e) /\ t = Spell(b, r, w, e)
  BY TextFacts DEF GoodParts
<1>3. Reading[t].arch = ArchName(w) /\ w \in Words
  BY <1>2 DEF NameOf, WellFormed
<1>4. \/ w = <<>> /\ ArchName(w) = ""
      \/ w # <<>> /\ ArchName(w) # "" /\ ArchName(w) \in Architectures
  <2>1. CASE w = <<>>
    <3>1. ArchName(w) = ""
      BY <2>1, Zenon DEF ArchName
    <3> QED BY <2>1, <3>1, Zenon
  <2>2. CASE w # <<>>
    <3>1. PICK a \in Architectures : w = <<a>>
      BY <1>3, <2>2 DEF Words
    <3>2. a # "" /\ w[1] = a
      <4>1. a # ""
        BY ArchSymbols
      <4>2. <<a>>[1] = a
        OBVIOUS
      <4> QED BY <3>1, <4>1, <4>2, Zenon
    <3>3. ArchName(w) = a
      BY <2>2, <3>2, Zenon DEF ArchName
    <3> QED BY <2>2, <3>2, <3>3, Zenon
  <2> QED BY <2>1, <2>2
<1>5. Reading[t].arch \in Architectures \cup {""} /\ (t \in Bare <=> Reading[t].arch = "")
  BY <1>1, <1>3, <1>4, Zenon
<1>6. ASSUME NEW a \in Architectures
      PROVE  Abstract!Stamp(Reading[t], a) = NameOf(b, r, <<a>>, e)
  <2>1. Abstract!Stamp(Reading[t], a) = [NameOf(b, r, w, e) EXCEPT !.arch = a]
    BY <1>2, Zenon DEF Abstract!Stamp
  <2> HIDE DEF b, r, w, e
  <2>2. [NameOf(b, r, w, e) EXCEPT !.arch = a] = NameOf(b, r, <<a>>, e)
    BY ArchUpdate
  <2> QED BY <2>1, <2>2, Zenon
<1>7. ASSUME NEW a \in Architectures, t \in Bare
      PROVE  WellFormed(b, r, <<a>>, e) /\ Stamped(t, a) = Spell(b, r, <<a>>, e)
  BY <1>1, <1>7, StampSpells
<1>8. ASSUME NEW a \in Architectures, t \in Bare, Size(Stamped(t, a)) < STORE_NAME_MAX
      PROVE  /\ Stamped(t, a) \in Texts
             /\ Reading[Stamped(t, a)] = Abstract!Stamp(Reading[t], a)
             /\ WithoutArch(StemOf(Stamped(t, a))) \o SuffixOf(Stamped(t, a)) = t
  <2> DEFINE s == Stamped(t, a)
             x == <<a>>
  <2>1. s \in Texts
    BY <1>1, <1>8, Tables, TextsAreClosed
  <2>2. /\ s \in Seq(Symbol) /\ BaseOf(s) = b /\ RelOf(s) = r /\ WordOf(s) = x /\ SuffixOf(s) = e
    BY <1>1, <1>8, StampedText
  <2>3. Reading[s] = NameOf(BaseOf(s), RelOf(s), WordOf(s), SuffixOf(s))
    BY <2>1, TextFacts
  <2>4. Reading[s] = Abstract!Stamp(Reading[t], a)
    BY <1>6, <2>2, <2>3, Zenon
  <2>5. SuffixOf(s) # <<>>
    BY <2>1, TextFacts DEF IsValid
  <2>6. WithoutArch(StemOf(s)) = BaseOf(s) \o RelTail(RelOf(s))
    BY <2>2, <2>5, TextIsSpelled
  <2>7. b \o RelTail(r) \in Seq(Symbol)
    BY <1>2, StemIsRead
  <2>8. w = <<>>
    BY <1>1, <1>8
  <2>9. t = ((b \o RelTail(r)) \o <<>>) \o e
    BY <1>2, <2>8, Zenon DEF Spell, ArchTail
  <2>10. t = (b \o RelTail(r)) \o e
    BY <2>7, <2>9, ConcatEmptySeq
  <2> HIDE DEF b, r, w, e, s
  <2>11. WithoutArch(StemOf(s)) \o SuffixOf(s) = t
    BY <2>2, <2>6, <2>10
  <2> QED BY <2>1, <2>4, <2>11 DEF s
<1>9. ASSUME NEW a \in Architectures, NEW u \in Texts, t \in Bare,
             Reading[u] = Abstract!Stamp(Reading[t], a)
      PROVE  u = Stamped(t, a)
  <2> DEFINE x == <<a>>
  <2>1. WellFormed(b, r, x, e) /\ Stamped(t, a) = Spell(b, r, x, e)
    BY <1>7, <1>9
  <2>2. u \in Seq(Symbol) /\ IsValid(u) /\ Read(u) = Reading[u]
    BY TextFacts, Tables
  <2>3. Read(u) = NameOf(b, r, x, e)
    BY <1>6, <1>9, <2>2, Zenon
  <2> HIDE DEF x, b, r, e
  <2>4. u = Spell(b, r, x, e)
    BY <2>1, <2>2, <2>3, NameIsText
  <2> QED BY <2>1, <2>4
<1> QED BY <1>5, <1>8, <1>9

\* The names of the tables, and the text each of them is spelled as.
LEMMA NameFacts ==
  /\ DOMAIN Spelling = Abstract!Name
  /\ \A t \in Texts : Reading[t] \in Abstract!Name /\ Spelling[Reading[t]] = t
  /\ \A n \in Abstract!Name :
       Spelling[n] \in Texts => Reading[Spelling[n]] = n
  /\ <<>> \notin Texts
<1> DEFINE names == Range(Reading)
           all   == [pkg : PkgsOf(names), rel : RelsOf(names), arch : Architectures \cup {""}, sig : BOOLEAN]
           text  == AntiFunction(Reading)
           good  == {m \in all : m.rel.given => m.pkg \in Parsed.versioned}
<1>1. Reading = ParsedReading /\ ParsedVersioned = Parsed.versioned
  BY ParsedAssumption DEF ParseAll, Reading
<1>2. Spelling = [n \in good |-> IF n \in names THEN text[n] ELSE <<>>]
  BY <1>1, Tables, Zenon DEF ParsedSpelling
<1>3. Abstract!Name = good
  BY DEF Abstract!Name
<1>4. names = {Reading[t] : t \in Texts} /\ DOMAIN Reading = Texts
  BY Tables DEF Range
<1>5. ASSUME NEW n \in names
      PROVE  text[n] \in Texts /\ Reading[text[n]] = n
  <2>1. text[n] = CHOOSE t \in Texts : n \in names => Reading[t] = n
    BY <1>4 DEF AntiFunction, Inverse
  <2>2. \E t \in Texts : n \in names => Reading[t] = n
    BY <1>4
  <2> HIDE DEF names, text
  <2> QED BY <2>1, <2>2
<1>6. ASSUME NEW t \in Texts
      PROVE  Reading[t] \in good
  <2> DEFINE b == BaseOf(t)
             r == RelOf(t)
             n == Reading[t]
  <2>1. n = NameOf(b, r, WordOf(t), SuffixOf(t)) /\ WellFormed(b, r, WordOf(t), SuffixOf(t))
    BY TextFacts DEF GoodParts
  <2>2. n \in names
    BY <1>4
  <2>3. n.pkg \in PkgsOf(names) /\ n.rel \in RelsOf(names)
    BY <2>2 DEF PkgsOf, RelsOf
  <2>4. n.arch \in Architectures \cup {""} /\ n.sig \in BOOLEAN
    BY StampFacts, SigFacts
  <2>5. n = [pkg |-> n.pkg, rel |-> n.rel, arch |-> n.arch, sig |-> n.sig]
    BY <2>1 DEF NameOf
  <2>6. n.pkg[1] = b /\ (n.rel.given <=> r # <<>>)
    <3>1. n.pkg = <<b, PlainOf(SuffixOf(t))>> /\ n.rel = Release(r)
      BY <2>1 DEF NameOf
    <3>2. Release(r).given <=> r # <<>>
      BY DEF Release
    <3>3. n.pkg[1] = b
      BY <3>1
    <3> QED BY <3>1, <3>2, <3>3, Zenon
  <2>7. n.rel.given => n.pkg \in Parsed.versioned
    BY <2>1, <2>3, <2>6, Tables DEF WellFormed
  <2> HIDE DEF n, names
  <2>8. n \in all
    BY <2>3, <2>4, <2>5
  <2>9. n \in good
    BY <2>7, <2>8
  <2> QED BY <2>9 DEF n, names
<1>7. <<>> \notin Texts
  BY TextFacts
<1> HIDE DEF names, all, text, good
<1>8. DOMAIN Spelling = good
  BY <1>2
<1>9. ASSUME NEW t \in Texts
      PROVE  Spelling[Reading[t]] = t
  <2>1. Reading[t] \in names /\ Reading[t] \in good
    BY <1>4, <1>6
  <2>2. Spelling[Reading[t]] = text[Reading[t]]
    BY <1>2, <2>1
  <2>3. text[Reading[t]] \in Texts /\ Reading[text[Reading[t]]] = Reading[t]
    BY <1>5, <2>1
  <2> QED BY <2>2, <2>3, ReadingsDiffer
<1>10. ASSUME NEW n \in good, Spelling[n] \in Texts
       PROVE  Reading[Spelling[n]] = n
  <2>1. n \in names
    BY <1>2, <1>7, <1>10
  <2> QED BY <1>2, <1>5, <2>1
<1> QED BY <1>3, <1>6, <1>7, <1>8, <1>9, <1>10

(***************************************************************************)
(* The directory: what a lookup finds in it.                               *)
(***************************************************************************)
LEMMA CutOffFits ==
  ASSUME NEW t \in Seq(Symbol), Size(t) < STORE_NAME_MAX
  PROVE  CutOff(t) = t
<1> DEFINE fits == {n \in 0..Len(t) : Size(SubSeq(t, 1, n)) < STORE_NAME_MAX}
<1>1. Len(t) \in Nat /\ SubSeq(t, 1, Len(t)) = t
  <2>1. Len(t) \in Nat
    BY EmptyIsNoSymbols
  <2>2. /\ SubSeq(t, 1, Len(t)) \in Seq(Symbol)
        /\ Len(SubSeq(t, 1, Len(t))) = Len(t)
        /\ \A i \in 1..Len(t) : SubSeq(t, 1, Len(t))[i] = t[i]
    BY <2>1, SubSeqProperties
  <2> QED BY <2>1, <2>2, SeqEqual
<1>2. Len(t) \in fits /\ fits \subseteq 0..Len(t)
  <2>1. Size(SubSeq(t, 1, Len(t))) < STORE_NAME_MAX
    BY <1>1, Zenon
  <2>2. PICK k : k = Len(t)
    OBVIOUS
  <2>3. k \in 0..k /\ Size(SubSeq(t, 1, k)) < STORE_NAME_MAX
    BY <1>1, <2>1, <2>2
  <2>4. k \in fits
    BY <2>2, <2>3, Zenon
  <2> QED BY <2>2, <2>4
<1> HIDE DEF fits
<1>3. Max(fits) \in fits /\ Max(fits) >= Len(t)
  BY <1>1, <1>2, MaxIsGreatest
<1>4. Max(fits) = Len(t)
  <2>1. PICK k : k = Max(fits)
    OBVIOUS
  <2>2. k \in fits
    BY <1>3, <2>1
  <2>3. k >= Len(t)
    BY <1>3, <2>1
  <2>4. k \in 0..Len(t)
    BY <1>2, <2>2
  <2>5. k = Len(t)
    <3>1. PICK l \in Nat : l = Len(t)
      BY EmptyIsNoSymbols
    <3>2. k \in 0..l /\ k >= l
      BY <2>3, <2>4, <3>1
    <3>3. k = l
      BY <3>2
    <3> QED BY <3>1, <3>3
  <2> QED BY <2>1, <2>5
<1>5. SubSeq(t, 1, Max(fits)) = t
  BY <1>1, <1>4
<1> QED BY <1>5, Zenon DEF CutOff, fits

LEMMA CandidatesAreNames ==
  ASSUME NEW t \in Texts
  PROVE  Abstract!Candidates(Reading[t]) \subseteq Abstract!Name
<1>1. PICK n : n = Reading[t]
  OBVIOUS
<1>2. n \in Abstract!Name
  BY <1>1, NameFacts
<1>3. n \in [pkg : PkgsOf(Range(Reading)), rel : RelsOf(Range(Reading)),
             arch : Architectures \cup {""}, sig : BOOLEAN]
      /\ (n.rel.given => n.pkg \in Parsed.versioned)
  BY <1>2 DEF Abstract!Name
<1>4. ASSUME NEW a \in Architectures
      PROVE  Abstract!Stamp(n, a) \in Abstract!Name
  <2> DEFINE P == PkgsOf(Range(Reading))
             R == RelsOf(Range(Reading))
  <2>1. PICK m : m = [n EXCEPT !.arch = a]
    OBVIOUS
  <2> HIDE DEF P, R
  <2>2. n \in [pkg : P, rel : R, arch : Architectures \cup {""}, sig : BOOLEAN]
    BY <1>3 DEF P, R
  <2>3. /\ m \in [pkg : P, rel : R, arch : Architectures \cup {""}, sig : BOOLEAN]
        /\ m.rel = n.rel /\ m.pkg = n.pkg
    BY <2>1, <2>2
  <2>4. m \in Abstract!Name
    BY <1>3, <2>3 DEF Abstract!Name, P, R
  <2>5. Abstract!Stamp(n, a) = m
    BY <2>1, Zenon DEF Abstract!Stamp
  <2> QED BY <2>4, <2>5
<1>5. Abstract!Candidates(n) \subseteq {n} \cup {Abstract!Stamp(n, a) : a \in Architectures}
  BY DEF Abstract!Candidates
<1> QED BY <1>1, <1>2, <1>4, <1>5

LEMMA LookedFacts ==
  ASSUME NEW t \in Texts, Canon[t] # <<>>
  PROVE  LET C == Abstract!Candidates(Reading[Canon[t]]) IN
         /\ \A u \in Texts : Reading[u] \in C => u \in Looked[t]
         /\ t \in Whole => \A u \in Looked[t] : u \in Texts /\ Reading[u] \in C
<1> DEFINE c == Canon[t]
           n == Reading[c]
<1>1. c \in Texts
  BY CanonFacts
<1>2. Looked[t] = Probed(c)
  BY Tables
<1>3. c \in Bare <=> ArchOf(StemOf(c)) = <<>>
  BY <1>1, Tables DEF WordOf
<1>4. c \in Bare <=> ~Abstract!HasArch(n)
  BY <1>1, StampFacts DEF Abstract!HasArch
<1>5. c \in Seq(Symbol)
  BY <1>1, TextFacts
<1> HIDE DEF c
<1>6. CASE c \notin Bare
  <2>1. Looked[t] = {c}
    BY <1>2, <1>3, <1>6 DEF Probed
  <2>2. Abstract!Candidates(n) = {n}
    BY <1>4, <1>6 DEF Abstract!Candidates
  <2> QED BY <1>1, <2>1, <2>2, ReadingsDiffer DEF c
<1>7. CASE c \in Bare
  <2>1. Looked[t] = {c} \cup {CutOff(Stamped(c, a)) : a \in Architectures}
    BY <1>2, <1>3, <1>7 DEF Probed
  <2>2. Abstract!Candidates(n) = {n} \cup {Abstract!Stamp(n, a) : a \in Architectures}
    BY <1>4, <1>7 DEF Abstract!Candidates
  <2>3. ASSUME NEW a \in Architectures, Size(Stamped(c, a)) < STORE_NAME_MAX
        PROVE  /\ Stamped(c, a) \in Texts /\ Reading[Stamped(c, a)] = Abstract!Stamp(n, a)
               /\ CutOff(Stamped(c, a)) = Stamped(c, a)
    <3>1. Stamped(c, a) \in Texts /\ Reading[Stamped(c, a)] = Abstract!Stamp(n, a)
      BY <1>1, <1>7, <2>3, StampFacts
    <3>2. Stamped(c, a) \in Seq(Symbol)
      BY <3>1, TextFacts
    <3> QED BY <2>3, <3>1, <3>2, CutOffFits
  <2>4. ASSUME NEW u \in Texts, Reading[u] \in Abstract!Candidates(n)
        PROVE  u \in Looked[t]
    <3>1. CASE Reading[u] = n
      BY <1>1, <2>1, <3>1, ReadingsDiffer
    <3>2. CASE Reading[u] # n
      <4>1. PICK a \in Architectures : Reading[u] = Abstract!Stamp(n, a)
        BY <2>2, <2>4, <3>2
      <4>2. u = Stamped(c, a)
        BY <1>1, <1>7, <4>1, StampFacts
      <4>3. Size(u) < STORE_NAME_MAX
        BY TextFacts DEF IsValid
      <4> QED BY <2>1, <2>3, <4>2, <4>3
    <3> QED BY <3>1, <3>2
  <2>5. ASSUME t \in Whole, NEW u \in Looked[t]
        PROVE  u \in Texts /\ Reading[u] \in Abstract!Candidates(n)
    <3>1. \A a \in Architectures : Size(Stamped(c, a)) < STORE_NAME_MAX
      BY <1>7, <2>5 DEF Whole, c
    <3>2. CASE u = c
      BY <1>1, <2>2, <3>2
    <3>3. CASE u # c
      BY <2>1, <2>2, <2>3, <2>5, <3>1, <3>3
    <3> QED BY <3>2, <3>3
  <2> QED BY <2>4, <2>5 DEF c
<1> QED BY <1>6, <1>7

\* The inductive invariant.
DirInv == DOMAIN dir \subseteq Texts /\ dir \in [DOMAIN dir -> Digest]

\* The directory that Store sees.
LEMMA LinkFacts ==
  ASSUME DirInv
  PROVE  /\ ReadDir \in [Abstract!Name -> Digest \cup {None}]
         /\ \A t \in Texts : ReadDir[Reading[t]] = IF t \in DOMAIN dir THEN dir[t] ELSE None
         /\ \A n \in Abstract!Name : ReadDir[n] # None =>
              \E t \in DOMAIN dir : Reading[t] = n /\ ReadDir[n] = dir[t]
<1>1. ReadDir = [n \in Abstract!Name |->
                   IF Spelling[n] \in DOMAIN dir THEN dir[Spelling[n]] ELSE None]
  BY NameFacts DEF ReadDir
<1>2. \A t \in DOMAIN dir : t \in Texts /\ dir[t] \in Digest
  BY DEF DirInv
<1>3. ReadDir \in [Abstract!Name -> Digest \cup {None}]
  BY <1>1, <1>2
<1>4. ASSUME NEW t \in Texts
      PROVE  ReadDir[Reading[t]] = IF t \in DOMAIN dir THEN dir[t] ELSE None
  <2>1. Reading[t] \in Abstract!Name /\ Spelling[Reading[t]] = t
    BY NameFacts
  <2> QED BY <1>1, <2>1
<1>5. ASSUME NEW n \in Abstract!Name, ReadDir[n] # None
      PROVE  \E t \in DOMAIN dir : Reading[t] = n /\ ReadDir[n] = dir[t]
  <2>1. Spelling[n] \in DOMAIN dir /\ ReadDir[n] = dir[Spelling[n]]
    BY <1>1, <1>5
  <2>2. Reading[Spelling[n]] = n
    BY <1>2, <2>1, NameFacts
  <2> QED BY <2>1, <2>2
<1> QED BY <1>3, <1>4, <1>5

LEMMA HitsFacts ==
  ASSUME DirInv, NEW t \in Texts, Canon[t] # <<>>
  PROVE  LET hits  == Abstract!Hits(Abstract!Canonical(Reading[t]))
             found == {dir[x] : x \in Looked[t] \cap DOMAIN dir}
         IN hits \subseteq found /\ (t \in Whole => hits = found)
<1> DEFINE n == Reading[Canon[t]]
           C == Abstract!Candidates(n)
           found == {dir[x] : x \in Looked[t] \cap DOMAIN dir}
<1>1. Abstract!Canonical(Reading[t]) = n /\ Canon[t] \in Texts
  BY CanonFacts
<1>2. Abstract!Hits(n) = {ReadDir[x] : x \in C} \ {None}
  BY DEF Abstract!Hits, Abstract!Found
<1>3. C \subseteq Abstract!Name
  BY <1>1, CandidatesAreNames
<1>4. /\ \A u \in Texts : Reading[u] \in C => u \in Looked[t]
      /\ t \in Whole => \A u \in Looked[t] : u \in Texts /\ Reading[u] \in C
  BY LookedFacts
<1>5. \A x \in DOMAIN dir : x \in Texts /\ dir[x] \in Digest /\ dir[x] # None
  BY WrittenAssumption DEF DirInv
<1> HIDE DEF n, C
<1>6. ASSUME NEW d \in Abstract!Hits(n)
      PROVE  d \in found
  <2>1. PICK x \in C : d = ReadDir[x] /\ d # None
    BY <1>2
  <2>2. PICK u \in DOMAIN dir : Reading[u] = x /\ ReadDir[x] = dir[u]
    BY <1>3, <2>1, LinkFacts
  <2>3. u \in Looked[t]
    BY <1>4, <1>5, <2>2
  <2> QED BY <2>1, <2>2, <2>3
<1>7. ASSUME t \in Whole, NEW d \in found
      PROVE  d \in Abstract!Hits(n)
  <2>1. PICK u \in Looked[t] \cap DOMAIN dir : d = dir[u]
    BY <1>7
  <2>2. Reading[u] \in C /\ u \in Texts
    BY <1>4, <1>7
  <2>3. ReadDir[Reading[u]] = d
    BY <2>1, <2>2, LinkFacts
  <2>4. d # None
    BY <1>5, <2>1
  <2> QED BY <1>2, <2>2, <2>3, <2>4
<1> QED BY <1>1, <1>6, <1>7

(***************************************************************************)
(* The invariant.                                                          *)
(***************************************************************************)
LEMMA PublishFacts ==
  ASSUME NEW t \in Texts, NEW d \in Digest, Publish(t, d)
  PROVE  /\ Canon[t] # <<>> /\ Canon[t] \in Texts
         /\ \A x \in Looked[t] : x \notin DOMAIN dir
         /\ dir' = [x \in {Canon[t]} \cup DOMAIN dir |-> IF x = Canon[t] THEN d ELSE dir[x]]
<1> DEFINE found == {dir[x] : x \in Looked[t] \cap DOMAIN dir}
<1>1. Resolve(t) = "NOT_FOUND"
  BY DEF Publish
<1>2. Resolve(t) = IF Canon[t] = <<>> THEN "INVALID_NAME"
                   ELSE IF found = {} THEN "NOT_FOUND"
                   ELSE IF \E x, y \in found : x # y THEN "AMBIGUOUS"
                   ELSE "OK"
  BY DEF Resolve
<1> HIDE DEF found
<1>3. Canon[t] # <<>> /\ found = {}
  <2>1. /\ "NOT_FOUND" # "INVALID_NAME" /\ "NOT_FOUND" # "AMBIGUOUS" /\ "NOT_FOUND" # "OK"
    OBVIOUS
  <2> QED BY <1>1, <1>2, <2>1, Zenon
<1>4. Canon[t] \in Texts
  BY <1>3, CanonFacts
<1>5. \A x \in Looked[t] : x \notin DOMAIN dir
  BY <1>3 DEF found
<1> QED BY <1>3, <1>4, <1>5 DEF Publish

LEMMA RenamedInv ==
  ASSUME DirInv, NEW T \in SUBSET Texts, NEW move \in [T -> DOMAIN dir], dir' = Renamed(move)
  PROVE  DirInv'
<1>1. Range(move) \subseteq DOMAIN dir
  BY DEF Range
<1>2. dir' = [x \in (DOMAIN dir \ Range(move)) \cup T |->
                IF x \in T THEN dir[move[x]] ELSE dir[x]]
  BY DEF Renamed
<1>3. \A x \in DOMAIN dir : x \in Texts /\ dir[x] \in Digest
  BY DEF DirInv
<1>4. \A x \in T : move[x] \in DOMAIN dir
  OBVIOUS
<1>5. DOMAIN dir' = (DOMAIN dir \ Range(move)) \cup T
  BY <1>2
<1>6. DOMAIN dir' \subseteq Texts
  BY <1>3, <1>5
<1>7. dir' \in [DOMAIN dir' -> Digest]
  BY <1>2, <1>3, <1>4
<1> QED BY <1>6, <1>7 DEF DirInv

\* The entry store_set_arch() renames to s.
StampSource(s) == WithoutArch(StemOf(s)) \o SuffixOf(s)

LEMMA StampTargetFacts ==
  ASSUME DirInv, NEW a \in Architectures, NEW s \in StampTargets(a)
  PROVE  /\ s \in Texts /\ s \notin DOMAIN dir
         /\ StampSource(s) \in DOMAIN dir /\ StampSource(s) \in Bare /\ StampSource(s) \in Texts
         /\ s = Stamped(StampSource(s), a)
         /\ Reading[s] = Abstract!Stamp(Reading[StampSource(s)], a)
<1>1. PICK t \in Archless : s = Stamped(t, a) /\ s \notin DOMAIN dir /\ Size(s) < STORE_NAME_MAX
  BY DEF StampTargets
<1>2. t \in DOMAIN dir /\ t \in Bare /\ t \in Texts
  BY <1>1 DEF Archless, DirInv
<1>3. /\ s \in Texts /\ Reading[s] = Abstract!Stamp(Reading[t], a)
      /\ WithoutArch(StemOf(s)) \o SuffixOf(s) = t
  BY <1>1, <1>2, StampFacts
<1> QED BY <1>1, <1>2, <1>3 DEF StampSource

LEMMA StampMove ==
  ASSUME DirInv, NEW a \in Architectures
  PROVE  /\ StampTargets(a) \in SUBSET Texts
         /\ [s \in StampTargets(a) |-> StampSource(s)] \in [StampTargets(a) -> DOMAIN dir]
BY StampTargetFacts

LEMMA DirInvInit == DirInit => DirInv
<1> SUFFICES ASSUME DirInit PROVE DirInv
  OBVIOUS
<1>1. PICK S \in SUBSET Texts : dir \in [S -> Digest]
  BY DEF DirInit
<1> QED BY <1>1 DEF DirInv

LEMMA DirInvNext == DirInv /\ [DirNext]_dir => DirInv'
<1> SUFFICES ASSUME DirInv, [DirNext]_dir  PROVE DirInv'
  OBVIOUS
<1>1. ASSUME NEW t \in Texts, NEW d \in Digest, Publish(t, d)
      PROVE  DirInv'
  <2>1. /\ Canon[t] \in Texts
        /\ dir' = [x \in {Canon[t]} \cup DOMAIN dir |-> IF x = Canon[t] THEN d ELSE dir[x]]
    BY <1>1, PublishFacts
  <2> QED BY <2>1 DEF DirInv
<1>2. ASSUME NEW t \in Texts, Unpublish(t)
      PROVE  DirInv'
  BY <1>2 DEF DirInv, Unpublish, Without
<1>3. ASSUME Canonicalize
      PROVE  DirInv'
  <2> DEFINE T == {c \in Texts \ DOMAIN dir : SourcesFor(c) # {}}
  <2>1. PICK move \in [T -> DOMAIN dir] : dir' = Renamed(move)
    BY <1>3 DEF Canonicalize
  <2>2. T \in SUBSET Texts
    OBVIOUS
  <2> HIDE DEF T
  <2> QED BY <2>1, <2>2, RenamedInv
<1>4. ASSUME NEW a \in Architectures, SetArch(a)
      PROVE  DirInv'
  <2> DEFINE T == StampTargets(a)
             move == [s \in T |-> StampSource(s)]
  <2>1. dir' = Renamed(move)
    BY <1>4, Zenon DEF SetArch, StampSource
  <2>2. T \in SUBSET Texts /\ move \in [T -> DOMAIN dir]
    BY StampMove
  <2> HIDE DEF T, move
  <2> QED BY <2>1, <2>2, RenamedInv
<1>5. ASSUME UNCHANGED dir
      PROVE  DirInv'
  BY <1>5 DEF DirInv
<1> QED BY <1>1, <1>2, <1>3, <1>4, <1>5 DEF DirNext

LEMMA DirIsSound == DirSpec => []DirInv
BY DirInvInit, DirInvNext, PTL DEF DirSpec

(***************************************************************************)
(* The theorems.                                                           *)
(***************************************************************************)
LEMMA ClosedIfSound == DirInv => CanonicalIsClosed
<1> SUFFICES ASSUME DirInv PROVE CanonicalIsClosed
  OBVIOUS
<1>1. \A t \in DOMAIN dir : t \in Texts
  BY DEF DirInv
<1>2. ASSUME NEW t \in DOMAIN dir, NEW u \in DOMAIN dir, Reading[t] = Reading[u]
      PROVE  t = u
  BY <1>1, <1>2, ReadingsDiffer
<1>3. ASSUME NEW t \in DOMAIN dir, Canon[t] # <<>>
      PROVE  Canon[t] \in Texts /\ IsValid(Canon[t]) /\ Canon[Canon[t]] = Canon[t]
  <2>1. Canon[t] \in Texts /\ Canon[Canon[t]] = Canon[t]
    BY <1>1, <1>3, CanonFacts
  <2>2. IsValid(Canon[t])
    BY <2>1, TextFacts
  <2> QED BY <2>1, <2>2
<1> QED BY <1>2, <1>3 DEF CanonicalIsClosed

LEMMA LookupsAgreeIfSound == DirInv => LookupsAgree
<1> SUFFICES ASSUME DirInv, NEW t \in Whole
             PROVE  Resolve(t) = Abstract!ResolveError(Reading[t])
  BY DEF LookupsAgree
<1>1. t \in Texts /\ Canon[t] # <<>>
  BY DEF Whole
<1> DEFINE c == Abstract!Canonical(Reading[t])
           hits == Abstract!Hits(c)
           found == {dir[x] : x \in Looked[t] \cap DOMAIN dir}
<1>2. hits = found
  BY <1>1, HitsFacts
<1>3. c \in DOMAIN Spelling
  BY <1>1, CanonFacts, NameFacts
<1>4. Resolve(t) = IF Canon[t] = <<>> THEN "INVALID_NAME"
                   ELSE IF found = {} THEN "NOT_FOUND"
                   ELSE IF \E x, y \in found : x # y THEN "AMBIGUOUS"
                   ELSE "OK"
  BY DEF Resolve
<1>5. Abstract!ResolveError(Reading[t]) =
        IF [n \in DOMAIN Spelling |-> None][c] # None THEN "IO"
        ELSE IF hits = {} THEN "NOT_FOUND"
        ELSE IF \E x, y \in hits : x # y THEN "AMBIGUOUS"
        ELSE "OK"
  BY DEF Abstract!ResolveError, Abstract!LookupError, Abstract!Hits
<1> HIDE DEF c, hits, found
<1>6. [n \in DOMAIN Spelling |-> None][c] = None
  BY <1>3
<1>7. Resolve(t) = IF found = {} THEN "NOT_FOUND"
                   ELSE IF \E x, y \in found : x # y THEN "AMBIGUOUS" ELSE "OK"
  BY <1>1, <1>4, Zenon
<1>8. Abstract!ResolveError(Reading[t]) =
        IF found = {} THEN "NOT_FOUND"
        ELSE IF \E x, y \in found : x # y THEN "AMBIGUOUS" ELSE "OK"
  BY <1>2, <1>5, <1>6
<1> QED BY <1>7, <1>8

\* Every entry of packages/ is a valid name and points at a digest: no call
\* writes an entry that the walk would pass over.
THEOREM DirIsWellFormed == DirSpec => []DirTypeOK
<1>1. DirInv => DirTypeOK
  BY TextFacts DEF DirInv, DirTypeOK
<1> QED BY <1>1, DirIsSound, PTL

\* Whatever names are written, whatever the length of their words and whatever
\* an older release left in the directory: no two entries of packages/ read as
\* the same name, and the canonical form of an entry, where store_canonical_name()
\* makes one, is a valid name that is its own canonical form.
THEOREM NamesAreClosed == DirSpec => []CanonicalIsClosed
BY DirIsSound, ClosedIfSound, PTL

\* Where no probe of store_resolve_as() is cut off, a lookup by text answers
\* what the store of names answers, for every set of names, of architectures
\* and of widths.
THEOREM LookupsAreFaithful == DirSpec => []LookupsAgree
BY DirIsSound, LookupsAgreeIfSound, PTL

(***************************************************************************)
(* The store of texts implements the store of names.                       *)
(***************************************************************************)
\* The directory f as Store sees it.
LinkOf(f) == [n \in Abstract!Name |-> IF Spelling[n] \in DOMAIN f THEN f[Spelling[n]] ELSE None]

NoFiles == [n \in Abstract!Name |-> None]

LEMMA MapFacts ==
  /\ ReadDir = LinkOf(dir) /\ ReadDir' = LinkOf(dir')
  /\ [n \in DOMAIN Spelling |-> None] = NoFiles
BY NameFacts DEF ReadDir, LinkOf, NoFiles

LEMMA LinkOfFacts ==
  ASSUME NEW f, DOMAIN f \subseteq Texts, f \in [DOMAIN f -> Digest]
  PROVE  /\ LinkOf(f) \in [Abstract!Name -> Digest \cup {None}]
         /\ \A t \in Texts : LinkOf(f)[Reading[t]] = IF t \in DOMAIN f THEN f[t] ELSE None
         /\ \A n \in Abstract!Name : (\A t \in Texts : Reading[t] # n) => LinkOf(f)[n] = None
<1>1. \A t \in DOMAIN f : t \in Texts /\ f[t] \in Digest
  OBVIOUS
<1>2. LinkOf(f) \in [Abstract!Name -> Digest \cup {None}]
  BY <1>1 DEF LinkOf
<1>3. ASSUME NEW t \in Texts
      PROVE  LinkOf(f)[Reading[t]] = IF t \in DOMAIN f THEN f[t] ELSE None
  <2>1. Reading[t] \in Abstract!Name /\ Spelling[Reading[t]] = t
    BY NameFacts
  <2> QED BY <2>1 DEF LinkOf
<1>4. ASSUME NEW n \in Abstract!Name, \A t \in Texts : Reading[t] # n
      PROVE  LinkOf(f)[n] = None
  <2>1. Spelling[n] \notin DOMAIN f
    BY <1>1, <1>4, NameFacts
  <2> QED BY <2>1 DEF LinkOf
<1> QED BY <1>2, <1>3, <1>4

\* Two directories of names that agree on the names of the texts agree.
LEMMA SameLinks ==
  ASSUME NEW f, DOMAIN f \subseteq Texts, f \in [DOMAIN f -> Digest],
         NEW g, g = [n \in Abstract!Name |-> g[n]],
         \A t \in Texts : g[Reading[t]] = IF t \in DOMAIN f THEN f[t] ELSE None,
         \A n \in Abstract!Name : (\A t \in Texts : Reading[t] # n) => g[n] = None
  PROVE  LinkOf(f) = g
<1>1. ASSUME NEW n \in Abstract!Name
      PROVE  LinkOf(f)[n] = g[n]
  <2>1. CASE \E t \in Texts : Reading[t] = n
    BY <2>1, LinkOfFacts
  <2>2. CASE \A t \in Texts : Reading[t] # n
    BY <2>2, LinkOfFacts
  <2> QED BY <2>1, <2>2
<1>2. LinkOf(f) = [n \in Abstract!Name |-> LinkOf(f)[n]]
  BY DEF LinkOf
<1> QED BY <1>1, <1>2

\* store_publish().
LEMMA PublishImplements ==
  ASSUME DirInv, DirInv', NEW t \in Texts, NEW d \in Digest, Publish(t, d)
  PROVE  Abstract!AdoptAndPublish(Reading[t], d)
<1> DEFINE n == Reading[t]
           c == Canon[t]
           B == Digest \cup {d}
           L == LinkOf(dir)
           M == [L EXCEPT ![Reading[c]] = d]
<1>1. /\ c # <<>> /\ c \in Texts
      /\ \A x \in Looked[t] : x \notin DOMAIN dir
      /\ dir' = [x \in {c} \cup DOMAIN dir |-> IF x = c THEN d ELSE dir[x]]
  BY PublishFacts
<1>2. Abstract!Canonical(n) = Reading[c]
  BY <1>1, CanonFacts
<1>3. Abstract!Hits(Abstract!Canonical(n)) = {}
  BY <1>1, HitsFacts
<1>4. Reading[c] \in Abstract!Name
  BY <1>1, NameFacts
<1>5. Abstract!LookupError(n, {}) = "NOT_FOUND"
  <2>1. [x \in DOMAIN Spelling |-> None][Abstract!Canonical(n)] = None
    BY <1>2, <1>4, NameFacts
  <2> QED BY <1>3, <2>1 DEF Abstract!LookupError, Abstract!Hits
<1>6. Abstract!PublishError(B, n, d, {}) = "OK"
  <2>1. d \in B
    OBVIOUS
  <2>2. "NOT_FOUND" # "OK"
    OBVIOUS
  <2> HIDE DEF n, B
  <2> QED BY <1>5, <2>1, <2>2 DEF Abstract!PublishError
<1>7. Abstract!PublishedLink(B, n, d, {}) = [ReadDir EXCEPT ![Abstract!Canonical(n)] = d]
  <2> HIDE DEF n, B
  <2> QED BY <1>5, <1>6 DEF Abstract!PublishedLink
<1>8. ReadDir = L /\ ReadDir' = LinkOf(dir')
  BY MapFacts
<1>9. Abstract!PublishedLink(B, n, d, {}) = M
  BY <1>2, <1>7, <1>8, Zenon
<1>10. LinkOf(dir') = M
  <2> DEFINE f == dir'
  <2>1. DOMAIN f \subseteq Texts /\ f \in [DOMAIN f -> Digest]
    BY DEF DirInv
  <2>2. /\ L \in [Abstract!Name -> Digest \cup {None}]
        /\ \A u \in Texts : L[Reading[u]] = IF u \in DOMAIN dir THEN dir[u] ELSE None
        /\ \A m \in Abstract!Name : (\A u \in Texts : Reading[u] # m) => L[m] = None
    BY LinkOfFacts DEF DirInv
  <2> HIDE DEF L
  <2>3. M = [m \in Abstract!Name |-> IF m = Reading[c] THEN d ELSE L[m]]
    BY <1>4, <2>2
  <2>4. ASSUME NEW u \in Texts
        PROVE  M[Reading[u]] = IF u \in DOMAIN f THEN f[u] ELSE None
    <3>1. Reading[u] \in Abstract!Name
      BY NameFacts
    <3>2. CASE u = c
      BY <1>1, <2>3, <3>1, <3>2
    <3>3. CASE u # c
      <4>1. Reading[u] # Reading[c]
        BY <1>1, <3>3, ReadingsDiffer
      <4>2. M[Reading[u]] = L[Reading[u]]
        BY <2>3, <3>1, <4>1
      <4> QED BY <1>1, <2>2, <3>3, <4>2
    <3> QED BY <3>2, <3>3
  <2>5. ASSUME NEW m \in Abstract!Name, \A u \in Texts : Reading[u] # m
        PROVE  M[m] = None
    BY <1>1, <2>2, <2>3, <2>5
  <2>6. M = [m \in Abstract!Name |-> M[m]]
    BY <2>3
  <2> HIDE DEF f, M
  <2>7. LinkOf(f) = M
    BY <2>1, <2>4, <2>5, <2>6, SameLinks
  <2> QED BY <2>7 DEF f
<1>11. ReadDir' = Abstract!PublishedLink(B, n, d, {})
  BY <1>8, <1>9, <1>10, Zenon
<1>12. Digest = Digest \cup {d}
  OBVIOUS
<1> HIDE DEF n
<1>13. Abstract!AdoptAndPublish(n, d)
  <2>1. {} \in Abstract!Readings(n)
    BY DEF Abstract!Readings, Abstract!Unread
  <2> QED BY <1>11, <1>12, <2>1 DEF Abstract!AdoptAndPublish, B
<1> QED BY <1>13 DEF n

\* The signature of a spelling is too long for a name only where that of the
\* canonical name is: where this fails, store_unpublish() called with that
\* spelling leaves the signature behind.
AliasSignaturesFit ==
  \A t \in Texts : Canon[t] # <<>> /\ ~IsSignature(t) /\ SigOf[Canon[t]] # <<>> => SigOf[t] # <<>>

LEMMA SignatureOfCanonical ==
  ASSUME NEW n, n = [pkg |-> n.pkg, rel |-> n.rel, arch |-> n.arch, sig |-> n.sig]
  PROVE  /\ Abstract!Canonical(Abstract!SignatureName(n))
              = Abstract!SignatureName(Abstract!Canonical(n))
         /\ Abstract!Canonical(n).sig = n.sig
<1> DEFINE p == n.pkg
           q == n.rel
           a == n.arch
           g == n.sig
           y == TRUE
           z == Abstract!CanonicalRel(n)
<1>1. n = [pkg |-> p, rel |-> q, arch |-> a, sig |-> g]
  OBVIOUS
<1>2. PICK m : m = Abstract!SignatureName(n)
  OBVIOUS
<1>3. PICK k : k = Abstract!Canonical(n)
  OBVIOUS
<1>4. m = [n EXCEPT !.sig = y]
  BY <1>2, Zenon DEF Abstract!SignatureName
<1>5. k = [n EXCEPT !.rel = z]
  BY <1>3, Zenon DEF Abstract!Canonical
<1> HIDE DEF p, q, a, g, y, z
<1>6. m = [pkg |-> p, rel |-> q, arch |-> a, sig |-> y]
  BY <1>1, <1>4, NameUpdates
<1>7. k = [pkg |-> p, rel |-> z, arch |-> a, sig |-> g]
  BY <1>1, <1>5, NameUpdates
<1>8. Abstract!CanonicalRel(m) = z
  <2>1. m.pkg = n.pkg /\ m.rel = n.rel
    BY <1>6 DEF p, q
  <2> QED BY <2>1, Zenon DEF Abstract!CanonicalRel, z
<1>9. Abstract!Canonical(m) = [m EXCEPT !.rel = z]
  BY <1>8, Zenon DEF Abstract!Canonical
<1>10. [m EXCEPT !.rel = z] = [pkg |-> p, rel |-> z, arch |-> a, sig |-> y]
  BY <1>6, NameUpdates
<1>11. Abstract!SignatureName(k) = [k EXCEPT !.sig = y]
  BY Zenon DEF Abstract!SignatureName, y
<1>12. [k EXCEPT !.sig = y] = [pkg |-> p, rel |-> z, arch |-> a, sig |-> y]
  BY <1>7, NameUpdates
<1>13. k.sig = g
  BY <1>7
<1>14. Abstract!Canonical(m) = Abstract!SignatureName(k)
  BY <1>9, <1>10, <1>11, <1>12, Zenon
<1>15. k.sig = n.sig
  BY <1>13 DEF g
<1> QED BY <1>2, <1>3, <1>14, <1>15, Zenon

\* The entries store_unpublish() unlinks are those Store unlinks.
LEMMA UnpublishedAreTargets ==
  ASSUME AliasSignaturesFit, NEW t \in Texts, Canon[t] # <<>>, NEW u \in Texts
  PROVE  u \in UnpublishedTexts(t) <=> Reading[u] \in Abstract!UnpublishTargets(Reading[t])
<1> DEFINE n == Reading[t]
           c == Canon[t]
           s == SigOf[t]
           T == Abstract!SignatureTarget(n)
<1>1. c \in Texts /\ Reading[c] = Abstract!Canonical(n)
  BY CanonFacts
<1>2. u = c <=> Reading[u] = Abstract!Canonical(n)
  BY <1>1, ReadingsDiffer
<1>3. Abstract!UnpublishTargets(n) = T \cup {Abstract!Canonical(n)}
  BY DEF Abstract!UnpublishTargets
<1>4. UnpublishedTexts(t) = {c} \cup (IF s = <<>> THEN {} ELSE {Canon[s]})
  BY DEF UnpublishedTexts
<1>5. T = IF ~n.sig THEN {Abstract!Canonical(Abstract!SignatureName(n))} ELSE {}
  BY DEF Abstract!SignatureTarget, Abstract!HasSignatureName
<1>6. u # <<>>
  BY TextFacts
<1> HIDE DEF T
<1>7. CASE s # <<>>
  <2>1. ~n.sig /\ s \in Texts /\ Reading[s] = Abstract!SignatureName(n)
    BY <1>7, SigFacts
  <2>2. u = Canon[s] <=> Reading[u] = Abstract!Canonical(Reading[s])
    BY <1>6, <2>1, CanonFacts, ReadingsDiffer
  <2>3. u \in UnpublishedTexts(t) <=> u = c \/ u = Canon[s]
    BY <1>4, <1>7
  <2>4. T = {Abstract!Canonical(Reading[s])}
    BY <1>5, <2>1
  <2> QED BY <1>2, <1>3, <2>2, <2>3, <2>4
<1>8. CASE s = <<>>
  <2>1. u \in UnpublishedTexts(t) <=> u = c
    BY <1>4, <1>8
  <2>2. Reading[u] \notin T
    <3>1. CASE n.sig
      BY <1>5, <3>1
    <3>2. CASE ~n.sig
      <4>1. ~IsSignature(t)
        BY <3>2, SigFacts
      <4>2. SigOf[c] = <<>>
        BY <1>8, <4>1 DEF AliasSignaturesFit
      <4>3. n = [pkg |-> n.pkg, rel |-> n.rel, arch |-> n.arch, sig |-> n.sig]
        BY TextFacts DEF NameOf
      <4>4. /\ Abstract!Canonical(Abstract!SignatureName(n)) = Abstract!SignatureName(Reading[c])
            /\ Reading[c].sig = n.sig
        <5>1. PICK m : m = n
          OBVIOUS
        <5>2. m = [pkg |-> m.pkg, rel |-> m.rel, arch |-> m.arch, sig |-> m.sig]
          BY <4>3, <5>1
        <5>3. /\ Abstract!Canonical(Abstract!SignatureName(m))
                   = Abstract!SignatureName(Abstract!Canonical(m))
              /\ Abstract!Canonical(m).sig = m.sig
          BY <5>2, SignatureOfCanonical
        <5> QED BY <1>1, <5>1, <5>3, Zenon
      <4>5. ASSUME Reading[u] = Abstract!SignatureName(Reading[c])
            PROVE  FALSE
        <5>1. ~Reading[c].sig
          BY <3>2, <4>4
        <5>2. SigOf[c] = u
          BY <1>1, <4>5, <5>1, SigFacts
        <5> QED BY <1>6, <4>2, <5>2
      <4> QED BY <1>5, <3>2, <4>4, <4>5
    <3> QED BY <3>1, <3>2
  <2> QED BY <1>2, <1>3, <2>1, <2>2
<1> QED BY <1>7, <1>8

\* store_unpublish().
LEMMA UnpublishImplements ==
  ASSUME AliasSignaturesFit, DirInv, DirInv', NEW t \in Texts, Unpublish(t)
  PROVE  Abstract!Unpublish(Reading[t])
<1> DEFINE n == Reading[t]
           S == Abstract!UnpublishTargets(n)
           L == LinkOf(dir)
           M == [m \in Abstract!Name |-> IF m \in S THEN None ELSE L[m]]
           f == dir'
<1>1. Canon[t] # <<>> /\ dir' = [x \in DOMAIN dir \ UnpublishedTexts(t) |-> dir[x]]
  BY DEF Unpublish, Without
<1>2. /\ \A u \in Texts : L[Reading[u]] = IF u \in DOMAIN dir THEN dir[u] ELSE None
      /\ \A m \in Abstract!Name : (\A u \in Texts : Reading[u] # m) => L[m] = None
  BY LinkOfFacts DEF DirInv
<1>3. \A u \in Texts : u \in UnpublishedTexts(t) <=> Reading[u] \in S
  BY <1>1, UnpublishedAreTargets
<1>4. DOMAIN f \subseteq Texts /\ f \in [DOMAIN f -> Digest]
  BY DEF DirInv
<1>5. \A u \in Texts : Reading[u] \in Abstract!Name
  BY NameFacts
<1> HIDE DEF S, L
<1>6. ASSUME NEW u \in Texts
      PROVE  M[Reading[u]] = IF u \in DOMAIN f THEN f[u] ELSE None
  <2>1. CASE u \in UnpublishedTexts(t)
    BY <1>1, <1>3, <1>5, <2>1
  <2>2. CASE u \notin UnpublishedTexts(t)
    <3>1. M[Reading[u]] = L[Reading[u]]
      BY <1>3, <1>5, <2>2
    <3> QED BY <1>1, <1>2, <2>2, <3>1
  <2> QED BY <2>1, <2>2
<1>7. ASSUME NEW m \in Abstract!Name, \A u \in Texts : Reading[u] # m
      PROVE  M[m] = None
  BY <1>2, <1>7
<1>8. M = [m \in Abstract!Name |-> M[m]]
  OBVIOUS
<1>9. LinkOf(f) = M
  <2> HIDE DEF f, M
  <2> QED BY <1>4, <1>6, <1>7, <1>8, SameLinks
<1>10. ReadDir = L /\ ReadDir' = LinkOf(f)
  BY MapFacts DEF L
<1>11. DOMAIN Spelling = Abstract!Name
  BY NameFacts
<1> HIDE DEF n, f
<1>12. ReadDir' = [m \in Abstract!Name |-> IF m \in S THEN None ELSE ReadDir[m]]
  BY <1>9, <1>10, Zenon
<1>13. [m \in DOMAIN Spelling |-> None]
         = [m \in Abstract!Name |-> IF m \in S THEN None ELSE [x \in DOMAIN Spelling |-> None][m]]
  BY <1>11
<1>14. Abstract!Unlink(S)
  BY <1>12, <1>13 DEF Abstract!Unlink
<1>15. Abstract!Unpublish(n)
  BY <1>14 DEF Abstract!Unpublish, S
<1> QED BY <1>15 DEF n

\* The entries a rename moves: what Store sees of the directory afterwards.
LEMMA RenamedLinks ==
  ASSUME DirInv, DirInv', NEW T \in SUBSET (Texts \ DOMAIN dir), NEW move \in [T -> DOMAIN dir],
         dir' = Renamed(move),
         NEW g, g = [n \in Abstract!Name |-> g[n]],
         \A c \in T : g[Reading[c]] = dir[move[c]],
         \A c \in T : g[Reading[move[c]]] = None,
         \A u \in Texts : u \notin T /\ (\A c \in T : move[c] # u) =>
           g[Reading[u]] = LinkOf(dir)[Reading[u]],
         \A n \in Abstract!Name : (\A u \in Texts : Reading[u] # n) => g[n] = None
  PROVE  LinkOf(dir') = g
<1> DEFINE f == dir'
<1>1. f = [x \in (DOMAIN dir \ Range(move)) \cup T |-> IF x \in T THEN dir[move[x]] ELSE dir[x]]
  BY DEF Renamed
<1>2. DOMAIN f \subseteq Texts /\ f \in [DOMAIN f -> Digest]
  BY DEF DirInv
<1>3. \A u : u \in Range(move) <=> \E c \in T : move[c] = u
  BY DEF Range
<1> HIDE DEF f
<1>4. ASSUME NEW u \in Texts
      PROVE  g[Reading[u]] = IF u \in DOMAIN f THEN f[u] ELSE None
  <2>1. CASE u \in T
    BY <1>1, <2>1
  <2>2. CASE u \notin T /\ u \in Range(move)
    BY <1>1, <1>3, <2>2
  <2>3. CASE u \notin T /\ u \notin Range(move)
    <3>1. g[Reading[u]] = LinkOf(dir)[Reading[u]]
      BY <1>3, <2>3
    <3>2. LinkOf(dir)[Reading[u]] = IF u \in DOMAIN dir THEN dir[u] ELSE None
      BY LinkOfFacts DEF DirInv
    <3> QED BY <1>1, <2>3, <3>1, <3>2
  <2> QED BY <2>1, <2>2, <2>3
<1>5. LinkOf(f) = g
  BY <1>2, <1>4, SameLinks
<1> QED BY <1>5 DEF f

\* store_canonicalize().
LEMMA CanonicalizeImplements ==
  ASSUME DirInv, DirInv', Canonicalize
  PROVE  Abstract!Canonicalize
<1> DEFINE to == {c \in Texts \ DOMAIN dir : SourcesFor(c) # {}}
<1>1. PICK move \in [to -> DOMAIN dir] :
        (\A c \in to : move[c] \in SourcesFor(c)) /\ dir' = Renamed(move)
  BY DEF Canonicalize
<1>2. \A c \in to : c \in Texts /\ c \notin DOMAIN dir
  OBVIOUS
<1>3. to \in SUBSET (Texts \ DOMAIN dir)
  OBVIOUS
<1> HIDE DEF to
<1>4. \A t \in DOMAIN dir : t \in Texts /\ dir[t] \in Digest /\ dir[t] # None
  BY WrittenAssumption DEF DirInv
<1>5. ASSUME NEW c \in to
      PROVE  /\ move[c] \in DOMAIN dir /\ move[c] \in Texts /\ move[c] # c
             /\ Canon[move[c]] = c /\ c # <<>>
             /\ Abstract!Canonical(Reading[move[c]]) = Reading[c]
  <2>1. move[c] \in DOMAIN dir /\ move[c] # c /\ Canon[move[c]] = c
    BY <1>1 DEF SourcesFor
  <2>2. move[c] \in Texts /\ c # <<>>
    BY <1>2, <1>4, <2>1, NameFacts
  <2>3. Abstract!Canonical(Reading[move[c]]) = Reading[c]
    BY <2>1, <2>2, CanonFacts
  <2> QED BY <2>1, <2>2, <2>3
<1> DEFINE L == LinkOf(dir)
           T == {Reading[c] : c \in to}
           winner == [n \in T |-> Reading[move[Spelling[n]]]]
           g == [n \in Abstract!Name |->
                   IF n \in DOMAIN winner THEN L[winner[n]]
                   ELSE IF \E c \in DOMAIN winner : winner[c] = n THEN None
                   ELSE L[n]]
<1>6. /\ \A u \in Texts : L[Reading[u]] = IF u \in DOMAIN dir THEN dir[u] ELSE None
      /\ \A m \in Abstract!Name : (\A u \in Texts : Reading[u] # m) => L[m] = None
  BY LinkOfFacts DEF DirInv
<1>7. \A u \in Texts : Reading[u] \in Abstract!Name /\ Spelling[Reading[u]] = u
  BY NameFacts
<1>8. ASSUME NEW c \in to
      PROVE  Reading[c] \in T /\ winner[Reading[c]] = Reading[move[c]]
  <2>1. Reading[c] \in T /\ Spelling[Reading[c]] = c
    BY <1>2, <1>7
  <2> HIDE DEF T
  <2> QED BY <2>1
<1>9. ReadDir = L /\ ReadDir' = LinkOf(dir') /\ DOMAIN Spelling = Abstract!Name
  BY MapFacts, NameFacts
<1> HIDE DEF L
<1>10. ASSUME NEW c \in to
       PROVE  /\ Reading[move[c]] \in Abstract!SourcesOf(Reading[c])
              /\ Reading[move[c]] \in Abstract!Noncanonical
              /\ ~Abstract!Present(Reading[c])
  <2> DEFINE n == Reading[move[c]]
  <2>1. n \in Abstract!Name /\ Reading[c] \in Abstract!Name
    BY <1>2, <1>5, <1>7
  <2>2. ReadDir[n] # None
    BY <1>4, <1>5, <1>6, <1>9
  <2>3. Abstract!Canonical(n) # n
    BY <1>2, <1>5, ReadingsDiffer
  <2>4. n \in Abstract!Noncanonical
    BY <2>1, <2>2, <2>3 DEF Abstract!Noncanonical, Abstract!IsCanonical
  <2>5. n \in Abstract!SourcesOf(Reading[c])
    BY <1>5, <2>4 DEF Abstract!SourcesOf
  <2>6. ReadDir[Reading[c]] = None
    BY <1>2, <1>6, <1>9
  <2>7. [m \in DOMAIN Spelling |-> None][Reading[c]] = None
    BY <1>9, <2>1
  <2>8. ~Abstract!Present(Reading[c])
    BY <2>6, <2>7 DEF Abstract!Present
  <2> QED BY <2>4, <2>5, <2>8
<1>11. T \in SUBSET {n \in Abstract!Name : Abstract!SourcesOf(n) # {} /\ ~Abstract!Present(n)}
  BY <1>2, <1>7, <1>10
<1>12. /\ winner \in [T -> Abstract!Noncanonical]
       /\ \A n \in T : winner[n] \in Abstract!SourcesOf(n)
  <2>1. ASSUME NEW n \in T
        PROVE  winner[n] \in Abstract!SourcesOf(n) /\ winner[n] \in Abstract!Noncanonical
    <3>1. PICK c \in to : n = Reading[c]
      OBVIOUS
    <3> HIDE DEF T, winner
    <3> QED BY <3>1, <1>8, <1>10
  <2>2. winner = [n \in T |-> winner[n]]
    OBVIOUS
  <2> HIDE DEF T, winner
  <2> QED BY <2>1, <2>2
<1>13. DOMAIN winner = T
  OBVIOUS
<1>14. ASSUME NEW u \in Texts
       PROVE  /\ Reading[u] \in T <=> u \in to
              /\ (\E n \in T : winner[n] = Reading[u]) <=> (\E c \in to : move[c] = u)
  <2>1. Reading[u] \in T <=> u \in to
    BY <1>2, ReadingsDiffer
  <2>2. ASSUME NEW c \in to, move[c] = u
        PROVE  \E n \in T : winner[n] = Reading[u]
    <3> HIDE DEF T, winner
    <3> QED BY <1>8, <2>2
  <2>3. ASSUME NEW n \in T, winner[n] = Reading[u]
        PROVE  \E c \in to : move[c] = u
    <3>1. PICK c \in to : n = Reading[c]
      OBVIOUS
    <3> HIDE DEF T, winner
    <3>2. Reading[move[c]] = Reading[u]
      BY <1>8, <2>3, <3>1
    <3> QED BY <1>5, <3>2, ReadingsDiffer
  <2> QED BY <2>1, <2>2, <2>3
<1>15. ASSUME NEW n \in T
       PROVE  \E c \in to : n = Reading[c] /\ winner[n] = Reading[move[c]]
  <2>1. PICK c \in to : n = Reading[c]
    OBVIOUS
  <2> HIDE DEF T, winner
  <2> QED BY <1>8, <2>1
<1> HIDE DEF T, winner
<1>16. g = [n \in Abstract!Name |-> g[n]]
  OBVIOUS
<1>17. ASSUME NEW c \in to
       PROVE  g[Reading[c]] = dir[move[c]]
  <2>1. g[Reading[c]] = L[winner[Reading[c]]]
    BY <1>2, <1>7, <1>8, <1>13
  <2> QED BY <1>5, <1>6, <1>8, <2>1
<1>18. ASSUME NEW c \in to
       PROVE  g[Reading[move[c]]] = None
  <2>1. Reading[move[c]] \in Abstract!Name /\ Reading[move[c]] \notin T
    BY <1>2, <1>5, <1>7, <1>14
  <2>2. \E n \in T : winner[n] = Reading[move[c]]
    BY <1>8
  <2> QED BY <1>13, <2>1, <2>2
<1>19. ASSUME NEW u \in Texts, u \notin to, \A c \in to : move[c] # u
       PROVE  g[Reading[u]] = L[Reading[u]]
  <2>1. Reading[u] \notin T /\ ~\E n \in T : winner[n] = Reading[u]
    BY <1>14, <1>19
  <2> QED BY <1>7, <1>13, <2>1
<1>20. ASSUME NEW n \in Abstract!Name, \A u \in Texts : Reading[u] # n
       PROVE  g[n] = None
  <2>1. n \notin T /\ ~\E m \in T : winner[m] = n
    BY <1>2, <1>5, <1>15, <1>20
  <2> QED BY <1>6, <1>13, <1>20, <2>1
<1>21. LinkOf(dir') = g
  <2> HIDE DEF g
  <2> QED BY <1>1, <1>3, <1>16, <1>17, <1>18, <1>19, <1>20, RenamedLinks DEF L
<1>22. ReadDir' = Abstract!CanonicalizedLink(winner)
  BY <1>9, <1>21 DEF Abstract!CanonicalizedLink
<1>23. T \in Abstract!Doable({n \in Abstract!Name : Abstract!SourcesOf(n) # {} /\ ~Abstract!Present(n)})
  BY <1>11 DEF Abstract!Doable
<1> HIDE DEF g
<1> QED BY <1>12, <1>22, <1>23 DEF Abstract!Canonicalize

LEMMA StampTwice ==
  ASSUME NEW n \in Abstract!Name, NEW a
  PROVE  /\ Abstract!Stamp(n, a).arch = a
         /\ n.arch = "" => Abstract!Stamp(Abstract!Stamp(n, a), "") = n
         /\ n.arch = a => Abstract!Stamp(Abstract!Stamp(n, ""), a) = n
<1> DEFINE p == n.pkg
           q == n.rel
           x == n.arch
           g == n.sig
           y == ""
<1>1. n = [pkg |-> p, rel |-> q, arch |-> x, sig |-> g]
  <2> DEFINE P == PkgsOf(Range(Reading))
             R == RelsOf(Range(Reading))
  <2>1. n \in [pkg : P, rel : R, arch : Architectures \cup {""}, sig : BOOLEAN]
    BY DEF Abstract!Name
  <2> HIDE DEF P, R
  <2> QED BY <2>1
<1>2. PICK m : m = Abstract!Stamp(n, a)
  OBVIOUS
<1>3. PICK k : k = Abstract!Stamp(n, "")
  OBVIOUS
<1>4. m = [n EXCEPT !.arch = a]
  BY <1>2, Zenon DEF Abstract!Stamp
<1>5. k = [n EXCEPT !.arch = y]
  BY <1>3, Zenon DEF Abstract!Stamp
<1> HIDE DEF p, q, x, g, y
<1>6. m = [pkg |-> p, rel |-> q, arch |-> a, sig |-> g]
  BY <1>1, <1>4, NameUpdates
<1>7. k = [pkg |-> p, rel |-> q, arch |-> y, sig |-> g]
  BY <1>1, <1>5, NameUpdates
<1>8. [m EXCEPT !.arch = y] = [pkg |-> p, rel |-> q, arch |-> y, sig |-> g]
  BY <1>6, NameUpdates
<1>9. [k EXCEPT !.arch = a] = [pkg |-> p, rel |-> q, arch |-> a, sig |-> g]
  BY <1>7, NameUpdates
<1>10. Abstract!Stamp(m, "") = [m EXCEPT !.arch = y] /\ Abstract!Stamp(k, a) = [k EXCEPT !.arch = a]
  BY Zenon DEF Abstract!Stamp, y
<1>11. m.arch = a
  BY <1>6
<1>12. n.arch = "" => Abstract!Stamp(m, "") = n
  <2> SUFFICES ASSUME n.arch = ""  PROVE Abstract!Stamp(m, "") = n
    OBVIOUS
  <2>1. x = y
    BY DEF x, y
  <2> QED BY <1>1, <1>8, <1>10, <2>1, Zenon
<1>13. n.arch = a => Abstract!Stamp(k, a) = n
  <2> SUFFICES ASSUME n.arch = a  PROVE Abstract!Stamp(k, a) = n
    OBVIOUS
  <2>1. x = a
    BY DEF x
  <2> QED BY <1>1, <1>9, <1>10, <2>1, Zenon
<1> QED BY <1>2, <1>3, <1>11, <1>12, <1>13, Zenon

\* store_set_arch().
LEMMA SetArchImplements ==
  ASSUME DirInv, DirInv', NEW a \in Architectures, SetArch(a)
  PROVE  Abstract!SetArch(a)
<1> DEFINE to == StampTargets(a)
           move == [s \in to |-> StampSource(s)]
           L == LinkOf(dir)
           S == {Reading[move[s]] : s \in to}
           g == [n \in Abstract!Name |->
                   IF n \in S THEN None
                   ELSE IF n.arch = a /\ Abstract!Stamp(n, "") \in S
                        THEN L[Abstract!Stamp(n, "")] ELSE L[n]]
<1>1. dir' = Renamed(move)
  BY Zenon DEF SetArch, StampSource
<1>2. ASSUME NEW s \in to
      PROVE  /\ s \in Texts /\ s \notin DOMAIN dir
             /\ move[s] \in DOMAIN dir /\ move[s] \in Bare /\ move[s] \in Texts
             /\ Reading[s] = Abstract!Stamp(Reading[move[s]], a)
  BY StampTargetFacts
<1>3. to \in SUBSET (Texts \ DOMAIN dir) /\ move \in [to -> DOMAIN dir]
  BY <1>2, StampMove
<1>4. \A t \in DOMAIN dir : t \in Texts /\ dir[t] \in Digest /\ dir[t] # None
  BY WrittenAssumption DEF DirInv
<1>5. a # ""
  BY ArchSymbols
<1>6. /\ \A u \in Texts : L[Reading[u]] = IF u \in DOMAIN dir THEN dir[u] ELSE None
      /\ \A m \in Abstract!Name : (\A u \in Texts : Reading[u] # m) => L[m] = None
  BY LinkOfFacts DEF DirInv
<1>7. \A u \in Texts : Reading[u] \in Abstract!Name
  BY NameFacts
<1>8. ReadDir = L /\ ReadDir' = LinkOf(dir') /\ DOMAIN Spelling = Abstract!Name
  BY MapFacts, NameFacts
<1> HIDE DEF to, move, L
<1>9. ASSUME NEW s \in to
      PROVE  /\ Reading[move[s]].arch = "" /\ Reading[s].arch = a
             /\ Abstract!Stamp(Reading[s], "") = Reading[move[s]]
  <2>1. Reading[move[s]].arch = ""
    BY <1>2, StampFacts
  <2>2. PICK m \in Abstract!Name : m = Reading[move[s]]
    BY <1>2, <1>7
  <2>3. Abstract!Stamp(m, a).arch = a /\ Abstract!Stamp(Abstract!Stamp(m, a), "") = m
    BY <2>1, <2>2, StampTwice
  <2>4. Reading[s] = Abstract!Stamp(m, a)
    BY <1>2, <2>2
  <2> QED BY <2>1, <2>2, <2>3, <2>4, Zenon
<1>10. \A n \in S : n.arch = "" /\ \E s \in to : n = Reading[move[s]]
  BY <1>9
<1>11. \A s \in to : Reading[move[s]] \in S
  OBVIOUS
<1>12. S \in Abstract!Doable(Abstract!Stampable(a))
  <2>1. ASSUME NEW n \in S
        PROVE  n \in Abstract!Stampable(a)
    <3>1. PICK s \in to : n = Reading[move[s]]
      OBVIOUS
    <3>2. n \in Abstract!Name /\ ReadDir[n] # None
      BY <1>2, <1>4, <1>6, <1>7, <1>8, <3>1
    <3>3. ~Abstract!HasArch(n)
      BY <1>9, <3>1 DEF Abstract!HasArch
    <3>4. Abstract!Stamp(n, a) = Reading[s]
      BY <1>2, <3>1
    <3>5. ReadDir[Reading[s]] = None
      BY <1>2, <1>6, <1>8
    <3>6. [m \in DOMAIN Spelling |-> None][Reading[s]] = None
      BY <1>2, <1>7, <1>8
    <3>7. ~Abstract!Present(Abstract!Stamp(n, a))
      BY <3>4, <3>5, <3>6 DEF Abstract!Present
    <3> QED BY <3>2, <3>3, <3>7 DEF Abstract!Stampable
  <2> QED BY <2>1 DEF Abstract!Doable
<1>13. ASSUME NEW u \in Texts, Reading[u] \in S
       PROVE  \E s \in to : move[s] = u
  <2>1. PICK s \in to : Reading[u] = Reading[move[s]]
    BY <1>13
  <2> QED BY <1>2, <2>1, ReadingsDiffer
<1>14. ASSUME NEW n \in Abstract!Name, n.arch = a, Abstract!Stamp(n, "") \in S
       PROVE  \E s \in to : n = Reading[s]
  <2>1. PICK s \in to : Abstract!Stamp(n, "") = Reading[move[s]]
    BY <1>14
  <2>2. Abstract!Stamp(Abstract!Stamp(n, ""), a) = n
    BY <1>14, StampTwice
  <2> QED BY <1>2, <2>1, <2>2
<1> HIDE DEF S
<1>15. g = [n \in Abstract!Name |-> g[n]]
  OBVIOUS
<1>16. ASSUME NEW s \in to
       PROVE  g[Reading[s]] = dir[move[s]]
  <2>1. Reading[s] \in Abstract!Name /\ Reading[s] \notin S
    BY <1>2, <1>5, <1>7, <1>9, <1>10
  <2>2. g[Reading[s]] = L[Reading[move[s]]]
    BY <1>9, <1>11, <2>1
  <2> QED BY <1>2, <1>6, <2>2
<1>17. ASSUME NEW s \in to
       PROVE  g[Reading[move[s]]] = None
  BY <1>2, <1>7, <1>11
<1>18. ASSUME NEW u \in Texts, u \notin to, \A s \in to : move[s] # u
       PROVE  g[Reading[u]] = L[Reading[u]]
  <2>1. Reading[u] \in Abstract!Name /\ Reading[u] \notin S
    BY <1>7, <1>13, <1>18
  <2>2. ~(Reading[u].arch = a /\ Abstract!Stamp(Reading[u], "") \in S)
    <3> SUFFICES ASSUME Reading[u].arch = a, Abstract!Stamp(Reading[u], "") \in S  PROVE FALSE
      OBVIOUS
    <3>1. PICK s \in to : Reading[u] = Reading[s]
      BY <1>14, <2>1
    <3> QED BY <1>2, <1>18, <3>1, ReadingsDiffer
  <2> QED BY <2>1, <2>2
<1>19. ASSUME NEW n \in Abstract!Name, \A u \in Texts : Reading[u] # n
       PROVE  g[n] = None
  <2>1. n \notin S
    BY <1>2, <1>10, <1>19
  <2>2. ~(n.arch = a /\ Abstract!Stamp(n, "") \in S)
    BY <1>2, <1>14, <1>19
  <2> QED BY <1>6, <1>19, <2>1, <2>2
<1>20. LinkOf(dir') = g
  <2> HIDE DEF g
  <2> QED BY <1>1, <1>3, <1>15, <1>16, <1>17, <1>18, <1>19, RenamedLinks DEF L
<1>21. ReadDir' = [n \in Abstract!Name |->
                     IF n \in S THEN None
                     ELSE IF n.arch = a /\ Abstract!Stamp(n, "") \in S
                          THEN ReadDir[Abstract!Stamp(n, "")] ELSE ReadDir[n]]
  BY <1>8, <1>20, Zenon
<1> HIDE DEF g
<1> QED BY <1>12, <1>21 DEF Abstract!SetArch

LEMMA InitImplements == DirInv => Abstract!StoreInit
<1> SUFFICES ASSUME DirInv PROVE Abstract!StoreInit
  OBVIOUS
<1>1. ReadDir \in [Abstract!Name -> Digest \cup {None}]
  BY LinkFacts
<1>2. [n \in DOMAIN Spelling |-> None] = [n \in Abstract!Name |-> None]
  BY NameFacts
<1>3. Digest \in SUBSET Digest
  OBVIOUS
<1> QED BY <1>1, <1>2, <1>3 DEF Abstract!StoreInit

LEMMA NextImplements ==
  ASSUME AliasSignaturesFit, DirInv, DirInv', [DirNext]_dir
  PROVE  [Abstract!StoreNext]_(Abstract!storeVars)
<1>1. ASSUME NEW t \in Texts, NEW d \in Digest, Publish(t, d)
      PROVE  Abstract!StoreNext
  <2>1. Reading[t] \in Abstract!Name
    BY NameFacts
  <2> QED BY <1>1, <2>1, PublishImplements DEF Abstract!StoreNext
<1>2. ASSUME NEW t \in Texts, Unpublish(t)
      PROVE  Abstract!StoreNext
  <2>1. Reading[t] \in Abstract!Name
    BY NameFacts
  <2> QED BY <1>2, <2>1, UnpublishImplements DEF Abstract!StoreNext
<1>3. ASSUME Canonicalize
      PROVE  Abstract!StoreNext
  BY <1>3, CanonicalizeImplements DEF Abstract!StoreNext
<1>4. ASSUME NEW a \in Architectures, SetArch(a)
      PROVE  Abstract!StoreNext
  BY <1>4, SetArchImplements DEF Abstract!StoreNext
<1>5. ASSUME UNCHANGED dir
      PROVE  UNCHANGED Abstract!storeVars
  BY <1>5 DEF Abstract!storeVars, ReadDir
<1> QED BY <1>1, <1>2, <1>3, <1>4, <1>5 DEF DirNext

\* The store of texts implements the store of names, for every set of written
\* names, every word length and every whitelist for which the signature of a
\* spelling fits wherever that of its canonical form does: each publish,
\* delete, canonicalisation and stamping of the directory of texts is the
\* step of the same name of Store, or a stuttering step.
THEOREM TextsImplementNames ==
  ASSUME AliasSignaturesFit
  PROVE  DirSpec => ImplementsStore
<1>1. DirInv /\ DirInv' /\ [DirNext]_dir => [Abstract!StoreNext]_(Abstract!storeVars)
  BY NextImplements
<1> QED BY <1>1, DirIsSound, InitImplements, DirInvInit, PTL DEF DirSpec, ImplementsStore, Abstract!StoreSpec

=============================================================================
