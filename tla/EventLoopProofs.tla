-------------------------- MODULE EventLoopProofs --------------------------
(***************************************************************************)
(* The event loop uses no record after it is freed, loses its place in no  *)
(* sweep and forgets no hash, for any number of records, any timeouts and  *)
(* any transfer sizes.                                                     *)
(***************************************************************************)
EXTENDS EventLoop, SequenceTheorems, TLAPS

\* Record x comes before record y in the list s.
Before(s, x, y) == \E i, j \in DOMAIN s : i < j /\ s[i] = x /\ s[j] = y

In(s, x) == \E i \in DOMAIN s : s[i] = x

Once(s) == \A i, j \in DOMAIN s : s[i] = s[j] => i = j

\* g_conns holds the open records, each once; g_pending_free the closed ones.
ListInv ==
  /\ Once(g_conns)
  /\ \A a \in Addr : In(g_conns, a) <=> Open(a)
  /\ \A a \in Addr : a \in g_pending_free <=> rec[a].kind = "DEAD"

\* There are events only while the batch is walked, and a cursor only while
\* the sweep runs.
TurnInv == (pc # "batch" => batch = {}) /\ (pc # "sweep" => cursor = NULL)

\* A client has a child only from start_hash_child() on; it comes before its
\* owner in the list.
FamilyInv ==
  /\ \A a \in Addr : rec[a].child # NULL =>
       /\ rec[a].kind = "CLIENT" /\ rec[a].state \notin {"READ_REQUEST", "RECV_BODY"}
       /\ Before(g_conns, rec[a].child, a)
  /\ \A a \in Addr : rec[a].owner # NULL => rec[a].kind = "HASH_CHILD"

\* Outside the batch a client whose time is up is one the sweep has still to
\* reach.
ClockInv ==
  /\ pc = "wait" => \A a \in Addr : ~Expired(a)
  /\ pc = "sweep" => \A a \in Addr : Expired(a) =>
       cursor # NULL /\ (a = cursor \/ Before(g_conns, cursor, a))

LoopInv ==
  /\ TypeOK /\ ListInv /\ FamilyInv /\ NoStaleEvent /\ ChildOfOwner /\ HashingIsWatched
  /\ TurnInv /\ SweepOnList /\ ClockInv

-----------------------------------------------------------------------------
(***************************************************************************)
(* Lists.                                                                  *)
(***************************************************************************)

\* Taking out one position shifts those behind it by one (conn_unlink()).
LEMMA RemovedAt ==
  ASSUME NEW T, NEW s \in Seq(T), NEW k \in 1 .. Len(s)
  PROVE  /\ RemoveAt(s, k) \in Seq(T)
         /\ Len(RemoveAt(s, k)) = Len(s) - 1
         /\ \A i \in 1 .. Len(s) - 1 : RemoveAt(s, k)[i] = s[IF i < k THEN i ELSE i + 1]
<1> DEFINE l == SubSeq(s, 1, k - 1)  r == SubSeq(s, k + 1, Len(s))
<1>0. Len(s) \in Nat /\ k \in Nat /\ DOMAIN s = 1 .. Len(s)
  BY LenProperties
<1>1. /\ l \in Seq(T) /\ Len(l) = k - 1
      /\ \A i \in 1 .. k - 1 : l[i] = s[i]
  <2>1. k - 1 \in Int /\ \A i \in 1 .. k - 1 : s[i] \in T
    BY <1>0, ElementOfSeq
  <2>2. /\ l \in Seq(T)
        /\ Len(l) = IF 1 <= k - 1 THEN k - 1 - 1 + 1 ELSE 0
        /\ \A i \in 1 .. k - 1 - 1 + 1 : l[i] = s[1 + i - 1]
    BY <2>1, SubSeqProperties
  <2> HIDE DEF l
  <2>. QED  BY <1>0, <2>2
<1>2. /\ r \in Seq(T) /\ Len(r) = Len(s) - k
      /\ \A i \in 1 .. Len(s) - k : r[i] = s[i + k]
  <2>1. k + 1 \in Int /\ Len(s) \in Int /\ \A i \in k + 1 .. Len(s) : s[i] \in T
    BY <1>0, ElementOfSeq
  <2>2. /\ r \in Seq(T)
        /\ Len(r) = IF k + 1 <= Len(s) THEN Len(s) - (k + 1) + 1 ELSE 0
        /\ \A i \in 1 .. Len(s) - (k + 1) + 1 : r[i] = s[k + 1 + i - 1]
    BY <2>1, SubSeqProperties
  <2> HIDE DEF r
  <2>3. Len(r) = Len(s) - k
    <3>1. k <= Len(s) /\ Len(s) \in Int /\ k \in Int
      BY <1>0
    <3>2. CASE k + 1 <= Len(s)
      BY <2>2, <3>1, <3>2
    <3>3. CASE ~(k + 1 <= Len(s))
      <4>1. Len(s) - k = 0
        BY <3>1, <3>3
      <4>. QED  BY <2>2, <3>3, <4>1
    <3>. QED  BY <3>2, <3>3
  <2>4. ASSUME NEW i \in 1 .. Len(s) - k  PROVE r[i] = s[i + k]
    <3>1. i \in 1 .. Len(s) - (k + 1) + 1 /\ k + 1 + i - 1 = i + k
      BY <1>0
    <3>. QED  BY <2>2, <3>1
  <2>. QED  BY <2>2, <2>3, <2>4
<1>3. RemoveAt(s, k) = l \o r
  BY DEF RemoveAt
<1> HIDE DEF l, r
<1>4. /\ l \o r \in Seq(T) /\ Len(l \o r) = Len(l) + Len(r)
      /\ \A i \in 1 .. Len(l) + Len(r) :
           (l \o r)[i] = IF i <= Len(l) THEN l[i] ELSE r[i - Len(l)]
  BY <1>1, <1>2, ConcatProperties
<1>5. Len(l) + Len(r) = Len(s) - 1
  BY <1>0, <1>1, <1>2
<1>6. ASSUME NEW i \in 1 .. Len(s) - 1
      PROVE  (l \o r)[i] = s[IF i < k THEN i ELSE i + 1]
  <2>1. CASE i < k
    <3>1. i \in 1 .. k - 1 /\ i <= Len(l)
      BY <1>0, <1>1, <2>1
    <3>. QED  BY <1>1, <1>4, <1>5, <2>1, <3>1
  <2>2. CASE ~(i < k)
    <3>1. /\ ~(i <= Len(l)) /\ i - Len(l) \in 1 .. Len(s) - k
          /\ i - Len(l) + k = i + 1
      BY <1>0, <1>1, <2>2
    <3>. QED  BY <1>2, <1>4, <1>5, <2>2, <3>1
  <2>. QED  BY <2>1, <2>2
<1>. QED  BY <1>3, <1>4, <1>5, <1>6

\* What the list operations keep: the elements are told apart by In, and the
\* order by Before.
LEMMA BeforeFacts ==
  ASSUME NEW s \in Seq(Addr), Once(s), NEW x, NEW y, Before(s, x, y)
  PROVE  In(s, x) /\ In(s, y) /\ x # y /\ ~Before(s, y, x)
<1>1. DOMAIN s = 1 .. Len(s) /\ Len(s) \in Nat
  BY LenProperties
<1>2. PICK i, j \in DOMAIN s : i < j /\ s[i] = x /\ s[j] = y
  BY DEF Before
<1>3. In(s, x) /\ In(s, y)
  BY <1>2 DEF In
<1>4. x # y
  BY <1>1, <1>2 DEF Once
<1>5. ASSUME Before(s, y, x)  PROVE FALSE
  <2>1. PICK m, n \in DOMAIN s : m < n /\ s[m] = y /\ s[n] = x
    BY <1>5 DEF Before
  <2>2. m = j /\ n = i
    BY <1>2, <2>1 DEF Once
  <2>. QED  BY <1>1, <1>2, <2>1, <2>2
<1>. QED  BY <1>3, <1>4, <1>5

\* conn_unlink() takes out the record it is given and nothing else, and keeps
\* the others in their order.
LEMMA UnlinkFacts ==
  ASSUME NEW s \in Seq(Addr), Once(s), NEW a
  PROVE  /\ conn_unlink(s, a) \in Seq(Addr)
         /\ Once(conn_unlink(s, a))
         /\ \A x : In(conn_unlink(s, a), x) <=> In(s, x) /\ x # a
         /\ \A x, y : Before(s, x, y) /\ x # a /\ y # a => Before(conn_unlink(s, a), x, y)
<1> DEFINE t == conn_unlink(s, a)
<1>1. CASE ~In(s, a)
  <2>1. t = s
    BY <1>1 DEF conn_unlink, In
  <2>2. \A x : In(s, x) => x # a
    BY <1>1
  <2>. QED  BY <2>1, <2>2
<1>2. CASE In(s, a)
  <2> DEFINE k == CHOOSE i \in DOMAIN s : s[i] = a
             old(i) == IF i < k THEN i ELSE i + 1
             new(i) == IF i < k THEN i ELSE i - 1
  <2>1. DOMAIN s = 1 .. Len(s) /\ Len(s) \in Nat
    BY LenProperties
  <2>2. k \in 1 .. Len(s) /\ s[k] = a
    BY <1>2, <2>1 DEF In
  <2>3. t = RemoveAt(s, k)
    BY <1>2 DEF conn_unlink, In
  <2> HIDE DEF k
  <2>4. t \in Seq(Addr) /\ Len(t) = Len(s) - 1 /\ \A i \in 1 .. Len(s) - 1 : t[i] = s[old(i)]
    BY <2>2, <2>3, RemovedAt
  <2> HIDE DEF t
  <2>5. DOMAIN t = 1 .. Len(s) - 1
    BY <2>4, LenProperties
  <2>6. \A i \in DOMAIN t : old(i) \in DOMAIN s /\ old(i) # k /\ t[i] = s[old(i)]
    BY <2>1, <2>2, <2>4, <2>5
  <2>7. \A i \in DOMAIN s : i # k => new(i) \in DOMAIN t /\ old(new(i)) = i
    BY <2>1, <2>2, <2>5
  <2>8. \A i, j \in DOMAIN t : old(i) = old(j) => i = j
    BY <2>1, <2>2, <2>5
  <2>9. \A i, j \in DOMAIN s : i < j /\ i # k /\ j # k => new(i) < new(j)
    BY <2>1, <2>2
  <2> HIDE DEF old, new
  <2>10. Once(t)
    BY <2>6, <2>8 DEF Once
  <2>11. ASSUME NEW x, In(t, x)  PROVE In(s, x) /\ x # a
    <3>1. PICK i \in DOMAIN t : t[i] = x
      BY <2>11 DEF In
    <3>. QED  BY <2>1, <2>2, <2>6, <3>1 DEF In, Once
  <2>12. ASSUME NEW x, In(s, x), x # a  PROVE In(t, x)
    <3>1. PICK i \in DOMAIN s : s[i] = x
      BY <2>12 DEF In
    <3>2. i # k
      BY <2>2, <2>12, <3>1
    <3>. QED  BY <2>6, <2>7, <3>1, <3>2 DEF In
  <2>13. ASSUME NEW x, NEW y, Before(s, x, y), x # a, y # a  PROVE Before(t, x, y)
    <3>1. PICK i, j \in DOMAIN s : i < j /\ s[i] = x /\ s[j] = y
      BY <2>13 DEF Before
    <3>2. i # k /\ j # k
      BY <2>2, <2>13, <3>1
    <3>3. new(i) \in DOMAIN t /\ new(j) \in DOMAIN t /\ new(i) < new(j)
      BY <2>7, <2>9, <3>1, <3>2
    <3>4. t[new(i)] = x /\ t[new(j)] = y
      BY <2>6, <2>7, <3>1, <3>2, <3>3
    <3>. QED  BY <3>3, <3>4 DEF Before
  <2>. QED  BY <2>4, <2>10, <2>11, <2>12, <2>13 DEF t
<1>. QED  BY <1>1, <1>2

\* conn_new() puts the record before all others.
LEMMA ListedFacts ==
  ASSUME NEW s \in Seq(Addr), Once(s), NEW a \in Addr, ~In(s, a)
  PROVE  /\ <<a>> \o s \in Seq(Addr)
         /\ Once(<<a>> \o s)
         /\ \A x : In(<<a>> \o s, x) <=> In(s, x) \/ x = a
         /\ \A x, y : Before(s, x, y) => Before(<<a>> \o s, x, y)
         /\ \A y : In(s, y) => Before(<<a>> \o s, a, y)
<1> DEFINE t == <<a>> \o s
<1>1. DOMAIN s = 1 .. Len(s) /\ Len(s) \in Nat
  BY LenProperties
<1>2. <<a>> \in Seq(Addr) /\ Len(<<a>>) = 1 /\ <<a>>[1] = a
  OBVIOUS
<1>3. /\ t \in Seq(Addr) /\ Len(t) = 1 + Len(s)
      /\ \A i \in 1 .. 1 + Len(s) : t[i] = IF i <= 1 THEN <<a>>[i] ELSE s[i - 1]
  BY <1>2, ConcatProperties
<1>4. DOMAIN t = 1 .. 1 + Len(s)
  BY <1>3, LenProperties
<1> HIDE DEF t
<1>5. 1 \in DOMAIN t /\ t[1] = a
  BY <1>1, <1>2, <1>3, <1>4
<1>6. \A i \in DOMAIN s : i + 1 \in DOMAIN t /\ t[i + 1] = s[i]
  BY <1>1, <1>3, <1>4
<1>7. \A i \in DOMAIN t : i = 1 \/ (i - 1 \in DOMAIN s /\ t[i] = s[i - 1])
  BY <1>1, <1>3, <1>4
<1>8. Once(t)
  <2> SUFFICES ASSUME NEW i \in DOMAIN t, NEW j \in DOMAIN t, t[i] = t[j]  PROVE i = j
    BY DEF Once
  <2>1. CASE i = 1 \/ j = 1
    BY <1>5, <1>7, <2>1 DEF In
  <2>2. CASE i # 1 /\ j # 1
    <3>1. i - 1 = j - 1
      BY <1>7, <2>2 DEF Once
    <3>. QED  BY <1>1, <1>4, <3>1
  <2>. QED  BY <2>1, <2>2
<1>9. \A x : In(t, x) <=> In(s, x) \/ x = a
  BY <1>5, <1>6, <1>7 DEF In
<1>10. ASSUME NEW x, NEW y, Before(s, x, y)  PROVE Before(t, x, y)
  <2>1. PICK i, j \in DOMAIN s : i < j /\ s[i] = x /\ s[j] = y
    BY <1>10 DEF Before
  <2>2. i + 1 < j + 1
    BY <1>1, <2>1
  <2>. QED  BY <1>6, <2>1, <2>2 DEF Before
<1>11. ASSUME NEW y, In(s, y)  PROVE Before(t, a, y)
  <2>1. PICK j \in DOMAIN s : s[j] = y
    BY <1>11 DEF In
  <2>2. 1 < j + 1
    BY <1>1, <2>1
  <2>. QED  BY <1>5, <1>6, <2>1, <2>2 DEF Before
<1>. QED  BY <1>3, <1>8, <1>9, <1>10, <1>11 DEF t

\* cc->next: the record right behind cc, or NULL at the end of the list.
LEMMA FollowingFacts ==
  ASSUME NEW a \in Addr, g_conns \in Seq(Addr), Once(g_conns), In(g_conns, a)
  PROVE  /\ Following(a) \in Addr \cup {NULL}
         /\ Following(a) # NULL => Before(g_conns, a, Following(a))
         /\ \A y : Before(g_conns, a, y) =>
              Following(a) # NULL /\ (y = Following(a) \/ Before(g_conns, Following(a), y))
<1> DEFINE s == g_conns  i == CHOOSE i \in DOMAIN s : s[i] = a
<1>1. DOMAIN s = 1 .. Len(s) /\ Len(s) \in Nat
  BY LenProperties
<1>2. i \in 1 .. Len(s) /\ s[i] = a
  BY <1>1 DEF In
<1>3. Following(a) = IF i = Len(s) THEN NULL ELSE s[i + 1]
  BY DEF Following
<1> HIDE DEF i
<1>4. \A j \in 1 .. Len(s) : s[j] \in Addr
  BY ElementOfSeq
<1>5. CASE i = Len(s)
  <2>1. ASSUME NEW y, Before(s, a, y)  PROVE FALSE
    <3>1. PICK m, n \in DOMAIN s : m < n /\ s[m] = a /\ s[n] = y
      BY <2>1 DEF Before
    <3>2. m = i
      BY <1>1, <1>2, <3>1 DEF Once
    <3>. QED  BY <1>1, <1>5, <3>1, <3>2
  <2>. QED  BY <1>3, <1>5, <2>1
<1>6. CASE i # Len(s)
  <2>1. i + 1 \in DOMAIN s /\ i < i + 1 /\ Following(a) = s[i + 1]
    <3>1. i \in Nat /\ i <= Len(s) /\ 1 <= i
      BY <1>1, <1>2
    <3>2. \A m, n \in Nat : m <= n /\ m # n => m + 1 \in 1 .. n /\ m < m + 1
      OBVIOUS
    <3>3. i + 1 \in 1 .. Len(s) /\ i < i + 1
      BY <1>1, <1>6, <3>1, <3>2
    <3>. QED  BY <1>1, <1>3, <1>6, <3>3
  <2>2. Following(a) \in Addr
    BY <1>1, <1>4, <2>1
  <2>3. Before(s, a, Following(a))
    <3>1. i \in DOMAIN s
      BY <1>1, <1>2
    <3>. QED  BY <1>2, <2>1, <3>1 DEF Before
  <2>4. ASSUME NEW y, Before(s, a, y)
        PROVE  y = Following(a) \/ Before(s, Following(a), y)
    <3>1. PICK m, n \in DOMAIN s : m < n /\ s[m] = a /\ s[n] = y
      BY <2>4 DEF Before
    <3>2. m = i
      BY <1>1, <1>2, <3>1 DEF Once
    <3>3. n = i + 1 \/ i + 1 < n
      BY <1>1, <3>1, <3>2
    <3>. QED  BY <2>1, <3>1, <3>3 DEF Before
  <2>5. Following(a) # NULL
    BY <2>2, EventLoopAssumption
  <2>. QED  BY <2>2, <2>3, <2>4, <2>5
<1>. QED  BY <1>5, <1>6

\* Where the sweep starts: at the head of the list, before everyone else.
LEMMA HeadFacts ==
  ASSUME NEW s \in Seq(Addr)
  PROVE  /\ s = <<>> => \A x : ~In(s, x)
         /\ s # <<>> => /\ Head(s) \in Addr /\ In(s, Head(s))
                        /\ \A x : In(s, x) => x = Head(s) \/ Before(s, Head(s), x)
<1>1. DOMAIN s = 1 .. Len(s) /\ Len(s) \in Nat /\ (s = <<>> <=> Len(s) = 0)
  BY LenProperties, EmptySeq
<1>2. CASE s = <<>>
  BY <1>1, <1>2 DEF In
<1>3. CASE s # <<>>
  <2>1. 1 \in DOMAIN s /\ Head(s) = s[1] /\ s[1] \in Addr
    BY <1>1, <1>3, ElementOfSeq
  <2>2. ASSUME NEW x, In(s, x)  PROVE x = Head(s) \/ Before(s, Head(s), x)
    <3>1. PICK j \in DOMAIN s : s[j] = x
      BY <2>2 DEF In
    <3>2. j = 1 \/ 1 < j
      BY <1>1
    <3>. QED  BY <2>1, <3>1, <3>2 DEF Before
  <2>. QED  BY <1>3, <2>1, <2>2 DEF In
<1>. QED  BY <1>2, <1>3

-----------------------------------------------------------------------------
(***************************************************************************)
(* What the handlers do to the records.                                    *)
(***************************************************************************)
CoreInv == TypeOK /\ ListInv /\ FamilyInv /\ NoStaleEvent /\ ChildOfOwner /\ HashingIsWatched

\* A blank record is a record.
LEMMA BlankIsRecord ==
  ASSUME NEW k \in Kind
  PROVE  /\ Blank(k) \in Record /\ Blank(k).kind = k /\ Blank(k).state = "READ_REQUEST"
         /\ Blank(k).owner = NULL /\ Blank(k).child = NULL
BY EventLoopAssumption DEF Blank, Record, State, Clock

\* So is a record that goes on in another state.
LEMMA LeftIsRecord ==
  ASSUME NEW r \in Record, NEW s \in State, NEW n \in 0 .. Chunks
  PROVE  /\ [r EXCEPT !.state = s, !.left = n, !.idle = 0] \in Record
         /\ [r EXCEPT !.state = s, !.left = n, !.idle = 0].kind = r.kind
         /\ [r EXCEPT !.state = s, !.left = n, !.idle = 0].child = r.child
         /\ [r EXCEPT !.state = s, !.left = n, !.idle = 0].owner = r.owner
         /\ [r EXCEPT !.state = s, !.left = n, !.idle = 0].state = s
<1>1. 0 \in Clock
  BY EventLoopAssumption DEF Clock
<1>. QED  BY <1>1 DEF Record

\* While the batch is walked the sweep has not begun.
LEMMA InBatch ==
  ASSUME LoopInv, NEW e, Take(e)
  PROVE  (TurnInv /\ SweepOnList /\ ClockInv)'
BY DEF LoopInv, Take, TurnInv, SweepOnList, ClockInv

\* A handler that leaves the record of a client open, in another state.
LEMMA LeaveIsSound ==
  ASSUME CoreInv, NEW a \in Addr, NEW s \in State, NEW n \in 0 .. Chunks,
         Leave(a, s, n), rec[a].kind = "CLIENT",
         s = "HASHING" => rec[a].state = "HASHING",
         s \in {"READ_REQUEST", "RECV_BODY"} => rec[a].child = NULL,
         batch' \subseteq batch, UNCHANGED <<pc, cursor>>, g_import_running' \in BOOLEAN
  PROVE  CoreInv'
<1> USE DEF CoreInv
<1>1. /\ rec' = [rec EXCEPT ![a] = [rec[a] EXCEPT !.state = s, !.left = n, !.idle = 0]]
      /\ UNCHANGED <<g_conns, g_pending_free, interest, exited>>
  BY DEF Leave, TypeOK
<1>2. rec[a] \in Record
  BY DEF TypeOK
<1>3. [rec[a] EXCEPT !.state = s, !.left = n, !.idle = 0] \in Record
  BY <1>2, LeftIsRecord
<1>4. TypeOK'
  BY <1>1, <1>3 DEF TypeOK
<1>5. \A x \in Addr : /\ rec'[x].kind = rec[x].kind
                      /\ rec'[x].child = rec[x].child
                      /\ rec'[x].owner = rec[x].owner
                      /\ rec'[x].state = IF x = a THEN s ELSE rec[x].state
  BY <1>1, <1>2 DEF TypeOK, Record
<1>6. \A x \in Addr : Open(x)' <=> Open(x)
  BY <1>5 DEF Open
<1>7. ListInv'
  BY <1>1, <1>5, <1>6 DEF ListInv
<1>8. FamilyInv'
  BY <1>1, <1>5 DEF FamilyInv
<1>9. NoStaleEvent'
  <2>1. \A e \in batch : e[1] # Listener => e[1] \in Addr
    BY DEF TypeOK, Event
  <2>. QED  BY <1>1, <1>5, <1>6, <2>1 DEF NoStaleEvent, TypeOK
<1>10. ChildOfOwner'
  <2>1. \A x \in Addr : rec[x].child \in Addr \cup {NULL} /\ rec[x].owner \in Addr \cup {NULL}
    BY DEF TypeOK, Record
  <2>. QED  BY <1>5, <1>6, <2>1 DEF ChildOfOwner
<1>11. HashingIsWatched'
  BY <1>1, <1>5 DEF HashingIsWatched
<1>. QED  BY <1>4, <1>7, <1>8, <1>9, <1>10, <1>11

\* The fields of a record and the addresses in it.
LEMMA RecordFacts ==
  ASSUME TypeOK, NEW x \in Addr
  PROVE  /\ rec[x] \in Record /\ rec[x].kind \in Kind /\ rec[x].state \in State
         /\ rec[x].child \in Addr \cup {NULL} /\ rec[x].owner \in Addr \cup {NULL}
BY DEF TypeOK, Record

\* The events of the batch stay sound when no record in it is freed.
LEMMA BatchIsSound ==
  ASSUME TypeOK, NoStaleEvent, batch' \subseteq batch,
         \A x \in Addr : rec[x].kind # "FREE" => rec'[x].kind # "FREE",
         \A x \in interest' : Open(x)'
  PROVE  NoStaleEvent'
<1>1. \A e \in batch : e[1] # Listener => e[1] \in Addr
  BY DEF TypeOK, Event
<1>. QED  BY <1>1 DEF NoStaleEvent

\* conn_close() of a record without an owner: the record and its child leave
\* the list, the interest list and each other, and no one else is touched.
LEMMA CloseIsSound ==
  ASSUME CoreInv, NEW a \in Addr, Open(a), rec[a].owner = NULL, conn_close(a),
         batch' \subseteq batch, pc' \in {"wait", "batch", "sweep"},
         cursor' \in Addr \cup {NULL}, g_import_running' \in BOOLEAN
  PROVE  /\ CoreInv'
         /\ \A x \in Addr : Expired(x)' => Expired(x) /\ x \notin WithChild(a)
         /\ \A x, y \in Addr \ WithChild(a) : Before(g_conns, x, y) => Before(g_conns', x, y)
         /\ \A x \in Addr \ WithChild(a) : In(g_conns, x) => In(g_conns', x)
<1> DEFINE S == WithChild(a)  c == rec[a].child
<1> USE DEF CoreInv
<1>0. NULL \notin Addr
  BY EventLoopAssumption
<1>1. c \in Addr \cup {NULL} /\ S \subseteq Addr /\ a \in S /\ (c # NULL => c \in S)
  BY <1>0, RecordFacts DEF WithChild
<1>2. \A x \in S : Open(x) /\ (x = a \/ (x = c /\ rec[x].owner = a))
  BY <1>0, <1>1 DEF WithChild, ChildOfOwner
<1>3. ASSUME NEW x \in Addr, x \notin S  PROVE rec[x].child \notin S
  BY <1>0, <1>1, <1>2, <1>3 DEF ChildOfOwner
<1>4. ASSUME NEW x \in Addr, x \notin S  PROVE rec[x].owner \notin S
  <2>1. ASSUME rec[x].owner \in S  PROVE FALSE
    <3>1. rec[x].owner # NULL /\ rec[rec[x].owner].child = x
      BY <1>0, <1>1, <2>1 DEF ChildOfOwner
    <3>2. rec[x].owner # a
      BY <1>0, <1>1, <1>4, <3>1
    <3>3. rec[x].owner = c /\ rec[c].owner = a /\ rec[c].child = x /\ c \in Addr
      BY <1>1, <1>2, <2>1, <3>1, <3>2
    <3>. QED  BY <1>0, <3>3 DEF FamilyInv
  <2>. QED  BY <2>1
<1>5. rec' = [x \in Addr |-> IF x \in S THEN Blank("DEAD") ELSE rec[x]]
  BY <1>3 DEF conn_close, Dead
<1>6. /\ g_pending_free' = g_pending_free \cup S
      /\ interest' = interest \ S
      /\ exited' = exited \ S
      /\ g_conns' = conn_unlink(conn_unlink(g_conns, c), a)
  BY DEF conn_close, Deregistered, Unlisted
<1>7. /\ g_conns' \in Seq(Addr) /\ Once(g_conns')
      /\ \A x : In(g_conns', x) <=> In(g_conns, x) /\ x # c /\ x # a
      /\ \A x, y : Before(g_conns, x, y) /\ x \notin {a, c} /\ y \notin {a, c} =>
           Before(g_conns', x, y)
  <2> DEFINE t == conn_unlink(g_conns, c)
  <2>1. /\ t \in Seq(Addr) /\ Once(t)
        /\ \A x : In(t, x) <=> In(g_conns, x) /\ x # c
        /\ \A x, y : Before(g_conns, x, y) /\ x # c /\ y # c => Before(t, x, y)
    BY UnlinkFacts DEF TypeOK, ListInv
  <2> HIDE DEF t
  <2>2. /\ conn_unlink(t, a) \in Seq(Addr) /\ Once(conn_unlink(t, a))
        /\ \A x : In(conn_unlink(t, a), x) <=> In(t, x) /\ x # a
        /\ \A x, y : Before(t, x, y) /\ x # a /\ y # a => Before(conn_unlink(t, a), x, y)
    BY <2>1, UnlinkFacts
  <2>3. g_conns' = conn_unlink(t, a)
    BY <1>6 DEF t
  <2> HIDE DEF c
  <2>. QED  BY <2>1, <2>2, <2>3
<1>8. \A x \in Addr : x \in S <=> x = a \/ x = c
  BY <1>0 DEF WithChild
<1> HIDE DEF S, c
<1>9. /\ Blank("DEAD") \in Record /\ Blank("DEAD").kind = "DEAD"
      /\ Blank("DEAD").owner = NULL /\ Blank("DEAD").child = NULL
  BY BlankIsRecord DEF Kind
<1>10. \A x \in Addr : rec'[x] = IF x \in S THEN Blank("DEAD") ELSE rec[x]
  BY <1>5
<1>11. TypeOK'
  <2>1. rec' \in [Addr -> Record]
    BY <1>5, <1>9, RecordFacts
  <2>. QED  BY <1>1, <1>6, <1>7, <2>1 DEF TypeOK
<1>12. \A x \in Addr : Open(x)' <=> Open(x) /\ x \notin S
  BY <1>9, <1>10 DEF Open
<1>13. ListInv'
  <2>1. \A x \in Addr : In(g_conns', x) <=> Open(x)'
    BY <1>7, <1>8, <1>12 DEF ListInv
  <2>2. \A x \in Addr : x \in g_pending_free' <=> rec'[x].kind = "DEAD"
    BY <1>6, <1>9, <1>10 DEF ListInv
  <2>. QED  BY <1>7, <2>1, <2>2 DEF ListInv
<1>14. FamilyInv'
  <2>1. ASSUME NEW x \in Addr, rec'[x].child # NULL
        PROVE  /\ rec'[x].kind = "CLIENT"
               /\ rec'[x].state \notin {"READ_REQUEST", "RECV_BODY"}
               /\ Before(g_conns', rec'[x].child, x)
    <3>1. x \notin S /\ rec'[x] = rec[x]
      BY <1>9, <1>10, <2>1
    <3>2. rec[x].child \notin S /\ rec[x].child \in Addr
      BY <1>3, <2>1, <3>1, RecordFacts
    <3>. QED  BY <1>7, <1>8, <2>1, <3>1, <3>2 DEF FamilyInv
  <2>2. ASSUME NEW x \in Addr, rec'[x].owner # NULL  PROVE rec'[x].kind = "HASH_CHILD"
    BY <1>9, <1>10, <2>2 DEF FamilyInv
  <2>. QED  BY <2>1, <2>2 DEF FamilyInv
<1>15. NoStaleEvent'
  <2>1. \A x \in interest' : Open(x)'
    BY <1>6, <1>12 DEF NoStaleEvent, TypeOK
  <2>2. \A x \in Addr : rec[x].kind # "FREE" => rec'[x].kind # "FREE"
    BY <1>9, <1>10
  <2>. QED  BY <2>1, <2>2, BatchIsSound
<1>16. ChildOfOwner'
  <2> SUFFICES ASSUME NEW x \in Addr
      PROVE /\ rec'[x].child # NULL => Open(x)' /\ rec'[rec'[x].child].owner = x
            /\ rec'[x].owner # NULL => Open(x)' /\ rec'[rec'[x].owner].child = x
    BY DEF ChildOfOwner
  <2>1. CASE x \in S
    BY <1>9, <1>10, <2>1
  <2>2. CASE x \notin S
    BY <1>3, <1>4, <1>10, <1>12, <2>2, RecordFacts DEF ChildOfOwner
  <2>. QED  BY <2>1, <2>2
<1>17. HashingIsWatched'
  <2> SUFFICES ASSUME NEW x \in Addr, rec'[x].kind = "CLIENT", rec'[x].state = "HASHING"
               PROVE  rec'[x].child \in interest'
    BY DEF HashingIsWatched
  <2>1. x \notin S /\ rec'[x] = rec[x]
    BY <1>9, <1>10
  <2>. QED  BY <1>3, <1>6, <2>1 DEF HashingIsWatched
<1>18. \A x \in Addr : Expired(x)' => Expired(x) /\ x \notin S
  BY <1>9, <1>10 DEF Expired
<1>19. \A x, y \in Addr \ S : Before(g_conns, x, y) => Before(g_conns', x, y)
  BY <1>7, <1>8
<1>20. \A x \in Addr \ S : In(g_conns, x) => In(g_conns', x)
  BY <1>7, <1>8
<1>. QED  BY <1>11, <1>13, <1>14, <1>15, <1>16, <1>17, <1>18, <1>19, <1>20 DEF S

\* The exit of sha256sum, when the connection still waits for it: the child
\* is closed and its owner forgets it and answers.
LEMMA AnswerIsSound ==
  ASSUME CoreInv, NEW k \in Addr, HashDone(k), rec[k].owner # NULL
  PROVE  CoreInv'
<1> DEFINE o == rec[k].owner
<1> USE DEF CoreInv
<1>0. NULL \notin Addr
  BY EventLoopAssumption
<1>1. /\ rec[k].kind = "HASH_CHILD" /\ o \in Addr /\ rec[o].child = k
      /\ rec[o].kind = "CLIENT" /\ o # k /\ rec[k].child = NULL
      /\ rec[o].owner = NULL /\ Open(k)
  BY <1>0, RecordFacts DEF HashDone, ChildOfOwner, FamilyInv
<1>2. PICK n \in 1 .. Chunks :
        rec' = [Dead(rec, {k}) EXCEPT ![o].state = "SEND_HEADER", ![o].left = n,
                                      ![o].idle = 0]
  BY DEF HashDone
<1>3. /\ g_conns' = conn_unlink(g_conns, k)
      /\ g_pending_free' = g_pending_free \cup {k}
      /\ interest' = interest \ {k}
      /\ exited' = exited \ {k}
      /\ UNCHANGED <<pc, cursor, g_import_running>>
      /\ batch' \subseteq batch
  BY DEF HashDone, Deregistered, Take
<1> DEFINE q == [[rec[o] EXCEPT !.child = NULL]
                   EXCEPT !.state = "SEND_HEADER", !.left = n, !.idle = 0]
<1>4. /\ q \in Record /\ q.kind = "CLIENT" /\ q.child = NULL /\ q.owner = NULL
      /\ q.state = "SEND_HEADER"
  <2> DEFINE p == [rec[o] EXCEPT !.child = NULL]
  <2>1. p \in Record /\ p.kind = "CLIENT" /\ p.child = NULL /\ p.owner = NULL
    BY <1>1, RecordFacts DEF Record
  <2> HIDE DEF p
  <2>2. "SEND_HEADER" \in State /\ n \in 0 .. Chunks
    BY EventLoopAssumption DEF State
  <2>3. q = [p EXCEPT !.state = "SEND_HEADER", !.left = n, !.idle = 0]
    BY DEF p
  <2> HIDE DEF q
  <2>4. /\ [p EXCEPT !.state = "SEND_HEADER", !.left = n, !.idle = 0] \in Record
        /\ [p EXCEPT !.state = "SEND_HEADER", !.left = n, !.idle = 0].kind = p.kind
        /\ [p EXCEPT !.state = "SEND_HEADER", !.left = n, !.idle = 0].child = p.child
        /\ [p EXCEPT !.state = "SEND_HEADER", !.left = n, !.idle = 0].owner = p.owner
        /\ [p EXCEPT !.state = "SEND_HEADER", !.left = n, !.idle = 0].state = "SEND_HEADER"
    BY <2>1, <2>2, LeftIsRecord
  <2>. QED  BY <2>1, <2>3, <2>4
<1>5. \A x \in Addr : x # k /\ x # o => rec[x].child # k
  BY <1>0, <1>1 DEF ChildOfOwner
<1>6. \A x \in Addr :
        Dead(rec, {k})[x] = IF x = k THEN Blank("DEAD")
                            ELSE IF x = o THEN [rec[o] EXCEPT !.child = NULL] ELSE rec[x]
  BY <1>1, <1>5 DEF Dead
<1>7. DOMAIN Dead(rec, {k}) = Addr
  BY DEF Dead
<1>8. /\ rec' = [Dead(rec, {k}) EXCEPT ![o] =
                  [Dead(rec, {k})[o] EXCEPT !.state = "SEND_HEADER", !.left = n, !.idle = 0]]
  BY <1>1, <1>2, <1>7
<1>9. Dead(rec, {k})[o] = [rec[o] EXCEPT !.child = NULL]
  BY <1>1, <1>6
<1>10. rec' = [Dead(rec, {k}) EXCEPT ![o] = q]
  BY <1>8, <1>9
<1> HIDE DEF q, o
<1>11. DOMAIN rec' = Addr
  BY <1>7, <1>10
<1>12. \A x \in Addr : rec'[x] = IF x = k THEN Blank("DEAD") ELSE IF x = o THEN q ELSE rec[x]
  BY <1>1, <1>6, <1>7, <1>10
<1>13. /\ Blank("DEAD") \in Record /\ Blank("DEAD").kind = "DEAD"
       /\ Blank("DEAD").owner = NULL /\ Blank("DEAD").child = NULL
  BY BlankIsRecord DEF Kind
<1>14. /\ g_conns' \in Seq(Addr) /\ Once(g_conns')
       /\ \A x : In(g_conns', x) <=> In(g_conns, x) /\ x # k
       /\ \A x, y : Before(g_conns, x, y) /\ x # k /\ y # k => Before(g_conns', x, y)
  BY <1>3, UnlinkFacts DEF TypeOK, ListInv
<1>15. TypeOK'
  <2>0. rec' = [x \in Addr |-> rec'[x]]
    BY <1>7, <1>10
  <2>1. \A x \in Addr : rec'[x] \in Record
    BY <1>4, <1>12, <1>13, RecordFacts
  <2>2. rec' \in [Addr -> Record]
    BY <2>0, <2>1
  <2>. QED  BY <1>3, <1>14, <2>2 DEF TypeOK
<1>16. \A x \in Addr : Open(x)' <=> Open(x) /\ x # k
  BY <1>1, <1>4, <1>12, <1>13 DEF Open
<1>17. ListInv'
  <2>1. \A x \in Addr : In(g_conns', x) <=> Open(x)'
    BY <1>14, <1>16 DEF ListInv
  <2>2. \A x \in Addr : x \in g_pending_free' <=> rec'[x].kind = "DEAD"
    BY <1>1, <1>3, <1>4, <1>12, <1>13 DEF ListInv
  <2>. QED  BY <1>14, <2>1, <2>2 DEF ListInv
<1>18. FamilyInv'
  <2>1. ASSUME NEW x \in Addr, rec'[x].child # NULL
        PROVE  /\ rec'[x].kind = "CLIENT"
               /\ rec'[x].state \notin {"READ_REQUEST", "RECV_BODY"}
               /\ Before(g_conns', rec'[x].child, x)
    <3>1. x # k /\ x # o /\ rec'[x] = rec[x]
      BY <1>4, <1>12, <1>13, <2>1
    <3>2. rec[x].child # k
      BY <1>5, <3>1
    <3>. QED  BY <1>14, <2>1, <3>1, <3>2 DEF FamilyInv
  <2>2. ASSUME NEW x \in Addr, rec'[x].owner # NULL  PROVE rec'[x].kind = "HASH_CHILD"
    BY <1>4, <1>12, <1>13, <2>2 DEF FamilyInv
  <2>. QED  BY <2>1, <2>2 DEF FamilyInv
<1>19. NoStaleEvent'
  <2>1. \A x \in interest' : Open(x)'
    BY <1>3, <1>16 DEF NoStaleEvent, TypeOK
  <2>2. \A x \in Addr : rec[x].kind # "FREE" => rec'[x].kind # "FREE"
    BY <1>4, <1>12, <1>13
  <2>. QED  BY <1>3, <2>1, <2>2, BatchIsSound
<1>20. ChildOfOwner'
  <2> SUFFICES ASSUME NEW x \in Addr
      PROVE /\ rec'[x].child # NULL => Open(x)' /\ rec'[rec'[x].child].owner = x
            /\ rec'[x].owner # NULL => Open(x)' /\ rec'[rec'[x].owner].child = x
    BY DEF ChildOfOwner
  <2>1. CASE x = k \/ x = o
    BY <1>4, <1>12, <1>13, <2>1
  <2>2. CASE x # k /\ x # o
    <3>1. rec'[x] = rec[x] /\ (Open(x)' <=> Open(x))
      BY <1>12, <1>16, <2>2
    <3>2. ASSUME rec[x].child # NULL
          PROVE  rec[x].child \in Addr /\ rec'[rec[x].child].owner = x
      <4>1. rec[x].child \in Addr /\ rec[rec[x].child].owner = x
        BY <3>2, RecordFacts DEF ChildOfOwner
      <4>2. rec[x].child # k /\ rec[x].child # o
        BY <1>0, <1>1, <1>5, <2>2, <4>1
      <4>. QED  BY <1>12, <4>1, <4>2
    <3>3. ASSUME rec[x].owner # NULL
          PROVE  rec[x].owner \in Addr /\ rec'[rec[x].owner].child = x
      <4>1. rec[x].owner \in Addr /\ rec[rec[x].owner].child = x
        BY <3>3, RecordFacts DEF ChildOfOwner
      <4>2. rec[x].owner # k /\ rec[x].owner # o
        BY <1>0, <1>1, <2>2, <4>1
      <4>. QED  BY <1>12, <4>1, <4>2
    <3>. QED  BY <3>1, <3>2, <3>3 DEF ChildOfOwner
  <2>. QED  BY <2>1, <2>2
<1>21. HashingIsWatched'
  <2> SUFFICES ASSUME NEW x \in Addr, rec'[x].kind = "CLIENT", rec'[x].state = "HASHING"
               PROVE  rec'[x].child \in interest'
    BY DEF HashingIsWatched
  <2>1. x # k /\ x # o /\ rec'[x] = rec[x]
    BY <1>4, <1>12, <1>13
  <2>. QED  BY <1>3, <1>5, <2>1 DEF HashingIsWatched
<1>. QED  BY <1>15, <1>17, <1>18, <1>19, <1>20, <1>21

\* conn_new(): nobody points at an address that calloc() returns.
LEMMA FreshRecord ==
  ASSUME CoreInv, NEW k \in Free, g_conns' = Listed(k)
  PROVE  /\ k \in Addr /\ rec[k].kind = "FREE" /\ k \notin interest /\ ~Open(k)
         /\ rec[k].child = NULL /\ rec[k].owner = NULL
         /\ \A x \in Addr : rec[x].child # k /\ rec[x].owner # k
         /\ g_conns' \in Seq(Addr) /\ Once(g_conns')
         /\ \A x : In(g_conns', x) <=> In(g_conns, x) \/ x = k
         /\ \A x, y : Before(g_conns, x, y) => Before(g_conns', x, y)
         /\ \A y : In(g_conns, y) => Before(g_conns', k, y)
<1> USE DEF CoreInv
<1>0. NULL \notin Addr
  BY EventLoopAssumption
<1>1. k \in Addr /\ rec[k].kind = "FREE" /\ ~Open(k)
  BY DEF Free, Open
<1>2. k \notin interest /\ ~In(g_conns, k)
  BY <1>1 DEF NoStaleEvent, ListInv
<1>3. rec[k].child = NULL /\ rec[k].owner = NULL
  BY <1>1 DEF ChildOfOwner
<1>4. \A x \in Addr : rec[x].child # k /\ rec[x].owner # k
  BY <1>0, <1>1, <1>3 DEF ChildOfOwner
<1>5. g_conns' = <<k>> \o g_conns
  BY DEF Listed
<1>6. g_conns \in Seq(Addr) /\ Once(g_conns)
  BY DEF TypeOK, ListInv
<1>. QED  BY <1>1, <1>2, <1>3, <1>4, <1>5, <1>6, ListedFacts

\* accept_loop() with a new connection.
LEMMA AcceptIsSound ==
  ASSUME CoreInv, NEW k \in Free, NEW r \in Record,
         r.kind = "CLIENT", r.state = "READ_REQUEST", r.child = NULL, r.owner = NULL,
         rec' = [rec EXCEPT ![k] = r],
         g_conns' = Listed(k), interest' = interest \cup {k},
         batch' \subseteq batch,
         UNCHANGED <<g_pending_free, exited, pc, cursor, g_import_running>>
  PROVE  CoreInv'
<1> USE DEF CoreInv
<1>1. /\ k \in Addr /\ rec[k].kind = "FREE" /\ k \notin interest /\ ~Open(k)
      /\ rec[k].child = NULL /\ rec[k].owner = NULL
      /\ \A x \in Addr : rec[x].child # k /\ rec[x].owner # k
      /\ g_conns' \in Seq(Addr) /\ Once(g_conns')
      /\ \A x : In(g_conns', x) <=> In(g_conns, x) \/ x = k
      /\ \A x, y : Before(g_conns, x, y) => Before(g_conns', x, y)
  BY FreshRecord
<1>2. TypeOK'
  BY <1>1 DEF TypeOK
<1>3. \A x \in Addr : rec'[x] = IF x = k THEN r ELSE rec[x]
  BY <1>1 DEF TypeOK
<1>4. \A x \in Addr : Open(x)' <=> Open(x) \/ x = k
  BY <1>3 DEF Open
<1>5. ListInv'
  <2>1. \A x \in Addr : In(g_conns', x) <=> Open(x)'
    BY <1>1, <1>4 DEF ListInv
  <2>2. \A x \in Addr : x \in g_pending_free' <=> rec'[x].kind = "DEAD"
    BY <1>1, <1>3 DEF ListInv
  <2>. QED  BY <1>1, <2>1, <2>2 DEF ListInv
<1>6. FamilyInv'
  BY <1>1, <1>3 DEF FamilyInv
<1>7. NoStaleEvent'
  <2>1. \A x \in interest' : Open(x)'
    BY <1>1, <1>4 DEF NoStaleEvent, TypeOK
  <2>2. \A x \in Addr : rec[x].kind # "FREE" => rec'[x].kind # "FREE"
    BY <1>3
  <2>. QED  BY <2>1, <2>2, BatchIsSound
<1>8. ChildOfOwner'
  BY <1>1, <1>3, <1>4, RecordFacts DEF ChildOfOwner
<1>9. HashingIsWatched'
  BY <1>3 DEF HashingIsWatched
<1>. QED  BY <1>2, <1>5, <1>6, <1>7, <1>8, <1>9

\* A client that starts a process: its record goes to q and the record of the
\* process, which it may or may not wait for, is r.
LEMMA StartIsSound ==
  ASSUME CoreInv, NEW a \in Addr, rec[a].kind = "CLIENT", rec[a].child = NULL,
         NEW k \in Free, NEW q \in Record, NEW r \in Record,
         q.kind = "CLIENT", q.owner = rec[a].owner,
         q.state \in {"HASHING", "SEND_HEADER"},
         r.kind \in {"HASH_CHILD", "IMPORT_CHILD"}, r.child = NULL,
         \/ r.kind = "HASH_CHILD" /\ r.owner = a /\ q.child = k
         \/ r.owner = NULL /\ q.child = NULL,
         q.state = "HASHING" => q.child = k /\ k \in interest',
         rec' = [x \in Addr |-> IF x = a THEN q ELSE IF x = k THEN r ELSE rec[x]],
         g_conns' = Listed(k), interest' \in {interest, interest \cup {k}},
         batch' \subseteq batch, g_import_running' \in BOOLEAN,
         UNCHANGED <<g_pending_free, exited, pc, cursor>>
  PROVE  CoreInv'
<1> USE DEF CoreInv
<1>0. NULL \notin Addr
  BY EventLoopAssumption
<1>1. /\ k \in Addr /\ rec[k].kind = "FREE" /\ k \notin interest /\ ~Open(k)
      /\ rec[k].child = NULL /\ rec[k].owner = NULL
      /\ \A x \in Addr : rec[x].child # k /\ rec[x].owner # k
      /\ g_conns' \in Seq(Addr) /\ Once(g_conns')
      /\ \A x : In(g_conns', x) <=> In(g_conns, x) \/ x = k
      /\ \A x, y : Before(g_conns, x, y) => Before(g_conns', x, y)
      /\ \A y : In(g_conns, y) => Before(g_conns', k, y)
  BY FreshRecord
<1>2. a # k /\ Open(a) /\ In(g_conns, a) /\ rec[a].owner = NULL
  BY <1>1 DEF Open, ListInv, FamilyInv
<1>3. \A x \in Addr : rec[x].child # a /\ rec[x].owner # a
  BY <1>0, <1>2 DEF ChildOfOwner
<1>4. \A x \in Addr : rec'[x] = IF x = a THEN q ELSE IF x = k THEN r ELSE rec[x]
  OBVIOUS
<1>5. TypeOK'
  <2>1. rec' \in [Addr -> Record]
    BY RecordFacts
  <2>. QED  BY <1>1, <2>1 DEF TypeOK
<1>6. \A x \in Addr : Open(x)' <=> Open(x) \/ x = k
  BY <1>2, <1>4 DEF Open
<1>7. ListInv'
  <2>1. \A x \in Addr : In(g_conns', x) <=> Open(x)'
    BY <1>1, <1>6 DEF ListInv
  <2>2. \A x \in Addr : x \in g_pending_free' <=> rec'[x].kind = "DEAD"
    BY <1>1, <1>2, <1>4 DEF ListInv
  <2>. QED  BY <1>1, <2>1, <2>2 DEF ListInv
<1>8. FamilyInv'
  <2>1. ASSUME NEW x \in Addr, rec'[x].child # NULL
        PROVE  /\ rec'[x].kind = "CLIENT"
               /\ rec'[x].state \notin {"READ_REQUEST", "RECV_BODY"}
               /\ Before(g_conns', rec'[x].child, x)
    BY <1>1, <1>2, <1>4, <2>1 DEF FamilyInv
  <2>2. ASSUME NEW x \in Addr, rec'[x].owner # NULL  PROVE rec'[x].kind = "HASH_CHILD"
    BY <1>2, <1>4, <2>2 DEF FamilyInv
  <2>. QED  BY <2>1, <2>2 DEF FamilyInv
<1>9. NoStaleEvent'
  <2>1. \A x \in interest' : Open(x)'
    BY <1>1, <1>6 DEF NoStaleEvent, TypeOK
  <2>2. \A x \in Addr : rec[x].kind # "FREE" => rec'[x].kind # "FREE"
    BY <1>4
  <2>. QED  BY <2>1, <2>2, BatchIsSound
<1>10. ChildOfOwner'
  <2> SUFFICES ASSUME NEW x \in Addr
      PROVE /\ rec'[x].child # NULL => Open(x)' /\ rec'[rec'[x].child].owner = x
            /\ rec'[x].owner # NULL => Open(x)' /\ rec'[rec'[x].owner].child = x
    BY DEF ChildOfOwner
  <2>1. CASE x = a
    BY <1>1, <1>2, <1>4, <1>6, <2>1
  <2>2. CASE x = k
    BY <1>1, <1>2, <1>4, <1>6, <2>2
  <2>3. CASE x # a /\ x # k
    BY <1>1, <1>3, <1>4, <1>6, <2>3, RecordFacts DEF ChildOfOwner
  <2>. QED  BY <2>1, <2>2, <2>3
<1>11. HashingIsWatched'
  BY <1>1, <1>4 DEF HashingIsWatched
<1>. QED  BY <1>5, <1>7, <1>8, <1>9, <1>10, <1>11

-----------------------------------------------------------------------------
(***************************************************************************)
(* One turn of the loop.                                                   *)
(***************************************************************************)

\* epoll_wait(): only open records are reported, and time passes for clients
\* whose time is not up yet.
LEMMA WaitIsSound ==
  ASSUME LoopInv, NEW ticks \in BOOLEAN, Wait(ticks)
  PROVE  LoopInv'
<1> USE DEF LoopInv
<1>1. /\ pc = "wait" /\ pc' = "batch" /\ cursor = NULL /\ \A x \in Addr : ~Expired(x)
      /\ UNCHANGED <<g_conns, g_pending_free, interest, exited, cursor, g_import_running>>
  BY DEF Wait, TurnInv, ClockInv
<1>2. PICK f \in [interest \cup {Listener} -> {"NONE", "IN", "OUT", "HUP"}] :
        batch' = {<<x, f[x]>> : x \in {y \in DOMAIN f : f[y] # "NONE"}}
  BY DEF Wait
<1>3. \A e \in batch' : e \in Event /\ (e[1] # Listener => e[1] \in interest)
  <2> SUFFICES ASSUME NEW e \in batch'
               PROVE  e \in Event /\ (e[1] # Listener => e[1] \in interest)
    OBVIOUS
  <2>1. PICK x \in interest \cup {Listener} : e = <<x, f[x]>> /\ f[x] # "NONE"
    BY <1>2
  <2>. QED  BY <2>1 DEF Event, TypeOK
<1>4. \A x \in Addr : /\ rec'[x] \in Record /\ rec'[x].kind = rec[x].kind
                      /\ rec'[x].state = rec[x].state
                      /\ rec'[x].child = rec[x].child /\ rec'[x].owner = rec[x].owner
  <2> SUFFICES ASSUME NEW x \in Addr
               PROVE  /\ rec'[x] \in Record /\ rec'[x].kind = rec[x].kind
                      /\ rec'[x].state = rec[x].state
                      /\ rec'[x].child = rec[x].child /\ rec'[x].owner = rec[x].owner
    OBVIOUS
  <2>1. rec[x] \in Record
    BY RecordFacts
  <2>2. CASE rec'[x] = rec[x]
    BY <2>1, <2>2
  <2>3. CASE rec'[x] # rec[x]
    <3>1. rec[x].kind = "CLIENT" /\ rec'[x] = [rec[x] EXCEPT !.idle = @ + 1]
      BY <2>3 DEF Wait, Aged
    <3>2. rec[x].idle + 1 \in Clock
      <4>1. rec[x].idle \in Clock /\ ~(rec[x].idle > Limit(rec[x].state))
        BY <1>1, <2>1, <3>1 DEF Expired, Record
      <4>2. Limit(rec[x].state) \in Nat /\ Limit(rec[x].state) <= XferTimeout
        BY EventLoopAssumption DEF Limit
      <4>. QED  BY <4>1, <4>2, EventLoopAssumption DEF Clock
    <3>. QED  BY <2>1, <3>1, <3>2 DEF Record
  <2>. QED  BY <2>2, <2>3
<1>5. rec' \in [Addr -> Record]
  <2>1. rec' = [x \in Addr |-> rec'[x]]
    BY DEF Wait, Aged, TypeOK
  <2>. QED  BY <1>4, <2>1
<1>6. TypeOK'
  BY <1>1, <1>3, <1>5 DEF TypeOK
<1>7. \A x \in Addr : Open(x)' <=> Open(x)
  BY <1>4 DEF Open
<1>8. ListInv'
  BY <1>1, <1>4, <1>7 DEF ListInv
<1>9. FamilyInv'
  BY <1>1, <1>4 DEF FamilyInv
<1>10. NoStaleEvent'
  <2>1. \A x \in interest : x \in Addr /\ Open(x)' /\ rec'[x].kind # "FREE"
    BY <1>7 DEF NoStaleEvent, TypeOK, Open
  <2>. QED  BY <1>1, <1>3, <2>1 DEF NoStaleEvent
<1>11. ChildOfOwner'
  BY <1>4, <1>7, RecordFacts DEF ChildOfOwner
<1>12. HashingIsWatched'
  BY <1>1, <1>4 DEF HashingIsWatched
<1>13. (TurnInv /\ SweepOnList /\ ClockInv)'
  BY <1>1 DEF TurnInv, SweepOnList, ClockInv
<1>. QED  BY <1>6, <1>8, <1>9, <1>10, <1>11, <1>12, <1>13

\* The sweep starts at the head of the list, so that every client is ahead of
\* it.
LEMMA EndBatchIsSound ==
  ASSUME LoopInv, EndBatch
  PROVE  LoopInv'
<1> USE DEF LoopInv
<1>1. /\ pc' = "sweep" /\ batch = {} /\ cursor' = IF g_conns = <<>> THEN NULL ELSE Head(g_conns)
      /\ UNCHANGED <<rec, g_conns, g_pending_free, interest, exited, batch, g_import_running>>
  BY DEF EndBatch
<1>2. g_conns \in Seq(Addr) /\ NULL \notin Addr
  BY EventLoopAssumption DEF TypeOK
<1>3. /\ g_conns = <<>> => \A x : ~In(g_conns, x)
      /\ g_conns # <<>> => /\ Head(g_conns) \in Addr /\ In(g_conns, Head(g_conns))
                           /\ \A x : In(g_conns, x) =>
                                x = Head(g_conns) \/ Before(g_conns, Head(g_conns), x)
  BY <1>2, HeadFacts
<1>4. TypeOK'
  BY <1>1, <1>2, <1>3 DEF TypeOK
<1>5. /\ ListInv' /\ FamilyInv' /\ NoStaleEvent' /\ ChildOfOwner' /\ HashingIsWatched'
  BY <1>1 DEF ListInv, FamilyInv, NoStaleEvent, ChildOfOwner, HashingIsWatched, Open
<1>6. TurnInv'
  BY <1>1 DEF TurnInv
<1>7. SweepOnList'
  BY <1>1, <1>3 DEF SweepOnList, In, Range
<1>8. ClockInv'
  <2>1. ASSUME NEW x \in Addr, Expired(x)'
        PROVE  cursor' # NULL /\ (x = cursor' \/ Before(g_conns', cursor', x))
    <3>1. In(g_conns, x)
      BY <1>1, <2>1 DEF Expired, Open, ListInv
    <3>2. g_conns # <<>>
      BY <1>3, <3>1
    <3>. QED  BY <1>1, <1>2, <1>3, <3>1, <3>2
  <2>. QED  BY <1>1, <2>1 DEF ClockInv
<1>. QED  BY <1>4, <1>5, <1>6, <1>7, <1>8

\* sweep_timeouts(): the record it goes to is neither the one it closes nor
\* that one's child, because a child comes before its owner.
LEMMA SweepIsSound ==
  ASSUME LoopInv, Sweep
  PROVE  LoopInv'
<1> USE DEF LoopInv
<1> DEFINE n == Following(cursor)
<1>0. NULL \notin Addr
  BY EventLoopAssumption
<1>1. /\ pc = "sweep" /\ cursor \in Addr /\ cursor # NULL /\ cursor' = n /\ batch = {}
      /\ UNCHANGED <<batch, pc, g_import_running>>
  BY DEF Sweep, TypeOK, TurnInv
<1>2. In(g_conns, cursor) /\ Open(cursor)
  BY <1>1 DEF SweepOnList, In, Range, ListInv
<1>3. g_conns \in Seq(Addr) /\ Once(g_conns)
  BY DEF TypeOK, ListInv
<1>4. /\ n \in Addr \cup {NULL}
      /\ n # NULL => Before(g_conns, cursor, n)
      /\ \A y : Before(g_conns, cursor, y) =>
           n # NULL /\ (y = n \/ Before(g_conns, n, y))
  BY <1>1, <1>2, <1>3, FollowingFacts
<1>5. TurnInv'
  BY <1>1 DEF TurnInv
<1>6. \A x \in Addr : Expired(x) => x = cursor \/ Before(g_conns, cursor, x)
  BY <1>1 DEF ClockInv
<1> HIDE DEF n
<1>7. n # NULL => In(g_conns, n) /\ n \notin WithChild(cursor)
  <2> SUFFICES ASSUME n # NULL  PROVE In(g_conns, n) /\ n # cursor /\ n # rec[cursor].child
    BY DEF WithChild
  <2>1. In(g_conns, n) /\ n # cursor /\ ~Before(g_conns, n, cursor)
    BY <1>3, <1>4, BeforeFacts
  <2>. QED  BY <1>1, <2>1 DEF FamilyInv
<1>8. CASE Expired(cursor)
  <2>1. conn_close(cursor) /\ rec[cursor].owner = NULL
    BY <1>1, <1>8 DEF Sweep, Expired, FamilyInv
  <2>2. CoreInv
    BY DEF CoreInv
  <2>3. /\ batch' \subseteq batch /\ pc' \in {"wait", "batch", "sweep"}
        /\ cursor' \in Addr \cup {NULL} /\ g_import_running' \in BOOLEAN
    BY <1>1, <1>4 DEF TypeOK
  <2>4. /\ CoreInv'
        /\ \A x \in Addr : Expired(x)' => Expired(x) /\ x \notin WithChild(cursor)
        /\ \A x, y \in Addr \ WithChild(cursor) :
             Before(g_conns, x, y) => Before(g_conns', x, y)
        /\ \A x \in Addr \ WithChild(cursor) : In(g_conns, x) => In(g_conns', x)
    BY <1>1, <1>2, <2>1, <2>2, <2>3, CloseIsSound
  <2>5. SweepOnList'
    <3>1. cursor' # NULL => In(g_conns', cursor')
      BY <1>1, <1>4, <1>7, <2>4
    <3>. QED  BY <3>1 DEF SweepOnList, In, Range
  <2>6. ClockInv'
    <3>1. ASSUME NEW x \in Addr, Expired(x)'
          PROVE  cursor' # NULL /\ (x = cursor' \/ Before(g_conns', cursor', x))
      <4>1. Expired(x) /\ x \notin WithChild(cursor)
        BY <2>4, <3>1
      <4>2. Before(g_conns, cursor, x)
        BY <1>1, <1>6, <4>1 DEF WithChild
      <4>3. n # NULL /\ (x = n \/ Before(g_conns, n, x))
        BY <1>4, <4>2
      <4>. QED  BY <1>1, <1>4, <1>7, <2>4, <4>1, <4>3
    <3>. QED  BY <1>1, <3>1 DEF ClockInv
  <2>. QED  BY <1>5, <2>4, <2>5, <2>6 DEF CoreInv
<1>9. CASE ~Expired(cursor)
  <2>1. UNCHANGED <<rec, g_conns, g_pending_free, interest, exited>>
    BY <1>9 DEF Sweep
  <2>2. /\ TypeOK' /\ ListInv' /\ FamilyInv' /\ NoStaleEvent' /\ ChildOfOwner'
        /\ HashingIsWatched'
    BY <1>1, <1>4, <2>1
       DEF TypeOK, ListInv, FamilyInv, NoStaleEvent, ChildOfOwner, HashingIsWatched, Open
  <2>3. SweepOnList'
    BY <1>1, <1>7, <2>1 DEF SweepOnList, In, Range
  <2>4. ClockInv'
    <3>1. ASSUME NEW x \in Addr, Expired(x)'
          PROVE  cursor' # NULL /\ (x = cursor' \/ Before(g_conns', cursor', x))
      <4>1. Expired(x)
        BY <2>1, <3>1 DEF Expired
      <4>. QED  BY <1>1, <1>4, <1>6, <1>9, <2>1, <4>1
    <3>. QED  BY <1>1, <3>1 DEF ClockInv
  <2>. QED  BY <1>5, <2>2, <2>3, <2>4
<1>. QED  BY <1>8, <1>9

\* drain_pending_free(): what is freed is closed, and nothing points at it.
LEMMA DrainIsSound ==
  ASSUME LoopInv, drain_pending_free
  PROVE  LoopInv'
<1> USE DEF LoopInv
<1>1. /\ pc = "sweep" /\ pc' = "wait" /\ cursor = NULL /\ batch = {} /\ g_pending_free' = {}
      /\ rec' = [a \in Addr |-> IF a \in g_pending_free THEN Blank("FREE") ELSE rec[a]]
      /\ UNCHANGED <<g_conns, interest, exited, batch, cursor, g_import_running>>
  BY DEF drain_pending_free, TurnInv
<1>2. /\ Blank("FREE") \in Record /\ Blank("FREE").kind = "FREE"
      /\ Blank("FREE").owner = NULL /\ Blank("FREE").child = NULL
  BY BlankIsRecord DEF Kind
<1>3. \A x \in Addr : rec'[x] = IF rec[x].kind = "DEAD" THEN Blank("FREE") ELSE rec[x]
  BY <1>1 DEF ListInv
<1>4. \A x \in Addr : /\ rec'[x].owner = rec[x].owner /\ rec'[x].child = rec[x].child
                      /\ Open(x)' <=> Open(x)
  <2>1. \A x \in Addr : rec[x].kind = "DEAD" => rec[x].owner = NULL /\ rec[x].child = NULL
    BY DEF ChildOfOwner, Open
  <2>. QED  BY <1>2, <1>3, <2>1 DEF Open
<1>5. TypeOK'
  <2>1. rec' \in [Addr -> Record]
    BY <1>1, <1>2, RecordFacts
  <2>. QED  BY <1>1, <2>1 DEF TypeOK
<1>6. ListInv'
  <2>1. \A x \in Addr : rec'[x].kind # "DEAD"
    BY <1>2, <1>3
  <2>. QED  BY <1>1, <1>4, <2>1 DEF ListInv
<1>7. FamilyInv'
  <2>1. \A x \in Addr : rec[x].kind \in {"CLIENT", "HASH_CHILD"} => rec'[x] = rec[x]
    BY <1>3
  <2>. QED  BY <1>1, <1>4, <2>1 DEF FamilyInv
<1>8. NoStaleEvent'
  BY <1>1, <1>4 DEF NoStaleEvent, TypeOK
<1>9. ChildOfOwner'
  BY <1>4, RecordFacts DEF ChildOfOwner
<1>10. HashingIsWatched'
  BY <1>1, <1>2, <1>3 DEF HashingIsWatched
<1>11. \A x \in Addr : ~Expired(x)'
  <2>1. \A x \in Addr : ~Expired(x)
    BY <1>1 DEF ClockInv
  <2>. QED  BY <1>2, <1>3, <2>1 DEF Expired
<1>12. (TurnInv /\ SweepOnList /\ ClockInv)'
  BY <1>1, <1>11 DEF TurnInv, SweepOnList, ClockInv
<1>. QED  BY <1>5, <1>6, <1>7, <1>8, <1>9, <1>10, <1>12

-----------------------------------------------------------------------------
(***************************************************************************)
(* The handlers.                                                           *)
(***************************************************************************)

\* What every handler of an event leaves alone.
LEMMA TakeFacts ==
  ASSUME LoopInv, NEW e, Take(e)
  PROVE  /\ CoreInv /\ batch' \subseteq batch /\ UNCHANGED <<pc, cursor>>
         /\ pc' \in {"wait", "batch", "sweep"} /\ cursor' \in Addr \cup {NULL}
BY DEF LoopInv, CoreInv, Take, TypeOK

\* The state and the child of a client in a handler.
LEMMA ClientFacts ==
  ASSUME CoreInv, NEW a \in Addr, rec[a].kind = "CLIENT"
  PROVE  /\ Open(a) /\ rec[a].owner = NULL /\ rec[a].state \in State
         /\ rec[a].state \in {"READ_REQUEST", "RECV_BODY"} => rec[a].child = NULL
         /\ rec[a].left \in Nat /\ rec[a].left <= Chunks
         /\ g_import_running \in BOOLEAN
BY EventLoopAssumption DEF CoreInv, TypeOK, Record, FamilyInv, Open

\* A handler that goes on in the state the record is in.
LEMMA PartIsSound ==
  ASSUME LoopInv, NEW a \in Addr, NEW ev, Client(a, ev), g_import_running' = g_import_running,
         NEW n \in 1 .. rec[a].left - 1, Leave(a, rec[a].state, n)
  PROVE  CoreInv'
<1>1. Take(<<a, ev>>) /\ rec[a].kind = "CLIENT"
  BY DEF Client
<1>2. CoreInv /\ batch' \subseteq batch /\ UNCHANGED <<pc, cursor>>
  BY <1>1, TakeFacts
<1>3. /\ rec[a].state \in State /\ rec[a].left \in Nat /\ rec[a].left <= Chunks
      /\ rec[a].state \in {"READ_REQUEST", "RECV_BODY"} => rec[a].child = NULL
      /\ g_import_running' \in BOOLEAN
  BY <1>1, <1>2, ClientFacts
<1>4. n \in 0 .. Chunks
  BY <1>3, EventLoopAssumption
<1>. QED  BY <1>1, <1>2, <1>3, <1>4, LeaveIsSound

\* A handler that goes on to send, or to receive the body of a request.
LEMMA OnwardIsSound ==
  ASSUME LoopInv, NEW a \in Addr, NEW ev, Client(a, ev), g_import_running' = g_import_running,
         NEW s \in {"RECV_BODY", "SEND_HEADER", "SEND_BODY"},
         s = "RECV_BODY" => rec[a].state = "READ_REQUEST",
         NEW n \in 1 .. Chunks, Leave(a, s, n)
  PROVE  CoreInv'
<1>1. Take(<<a, ev>>) /\ rec[a].kind = "CLIENT"
  BY DEF Client
<1>2. CoreInv /\ batch' \subseteq batch /\ UNCHANGED <<pc, cursor>>
  BY <1>1, TakeFacts
<1>3. /\ rec[a].state \in {"READ_REQUEST", "RECV_BODY"} => rec[a].child = NULL
      /\ g_import_running' \in BOOLEAN
  BY <1>1, <1>2, ClientFacts
<1>4. n \in 0 .. Chunks /\ s \in State /\ s # "HASHING"
  BY EventLoopAssumption DEF State
<1>5. s \in {"READ_REQUEST", "RECV_BODY"} => rec[a].child = NULL
  BY <1>3
<1>. QED  BY <1>1, <1>2, <1>3, <1>4, <1>5, LeaveIsSound

\* A handler that closes the connection.
LEMMA DropIsSound ==
  ASSUME LoopInv, NEW a \in Addr, NEW e, Take(e), Open(a), rec[a].owner = NULL,
         conn_close(a), g_import_running' \in BOOLEAN
  PROVE  CoreInv'
BY TakeFacts, CloseIsSound

\* begin_response().
LEMMA RespondIsSound ==
  ASSUME LoopInv, NEW a \in Addr, NEW ev, Client(a, ev), g_import_running' = g_import_running,
         Respond(a)
  PROVE  CoreInv'
<1>1. Take(<<a, ev>>) /\ rec[a].kind = "CLIENT"
  BY DEF Client
<1>2. CoreInv
  BY <1>1, TakeFacts
<1>3. Open(a) /\ rec[a].owner = NULL /\ g_import_running' \in BOOLEAN
  BY <1>1, <1>2, ClientFacts
<1>4. CASE \E n \in 1 .. Chunks : Leave(a, "SEND_HEADER", n)
  BY <1>4, OnwardIsSound
<1>5. CASE conn_close(a)
  BY <1>1, <1>3, <1>5, DropIsSound
<1>. QED  BY <1>4, <1>5 DEF Respond

\* accept_loop().
LEMMA AcceptStep ==
  ASSUME LoopInv, Accept
  PROVE  CoreInv'
<1>1. Take(<<Listener, "IN">>) /\ UNCHANGED g_import_running
  BY DEF Accept
<1>2. CoreInv /\ batch' \subseteq batch /\ UNCHANGED <<pc, cursor>>
  BY <1>1, TakeFacts
<1>3. ASSUME NEW k \in Free, NEW n \in 1 .. Chunks,
             rec' = [rec EXCEPT ![k] = [Blank("CLIENT") EXCEPT !.left = n]],
             g_conns' = Listed(k), interest' = interest \cup {k},
             UNCHANGED <<g_pending_free, exited>>
      PROVE  CoreInv'
  <2> DEFINE r == [Blank("CLIENT") EXCEPT !.left = n]
  <2>1. n \in 0 .. Chunks /\ Blank("CLIENT") \in Record
    BY BlankIsRecord, EventLoopAssumption DEF Kind
  <2>2. /\ r \in Record /\ r.kind = "CLIENT" /\ r.state = "READ_REQUEST"
        /\ r.child = NULL /\ r.owner = NULL
    BY <2>1 DEF Record, Blank
  <2> HIDE DEF r
  <2>3. rec' = [rec EXCEPT ![k] = r]
    BY <1>3 DEF r
  <2>. QED  BY <1>1, <1>2, <1>3, <2>2, <2>3, AcceptIsSound
<1>4. CASE UNCHANGED <<rec, g_conns, g_pending_free, interest, exited>>
  <2>1. TypeOK'
    BY <1>1, <1>2, <1>4 DEF CoreInv, TypeOK
  <2>. QED  BY <1>2, <1>4, <2>1
       DEF CoreInv, ListInv, FamilyInv, NoStaleEvent, ChildOfOwner, HashingIsWatched, Open
<1>. QED  BY <1>3, <1>4 DEF Accept

\* start_hash_child().
LEMMA StartHashStep ==
  ASSUME LoopInv, NEW a \in Addr, StartHash(a)
  PROVE  CoreInv'
<1>1. /\ Take(<<a, "IN">>) /\ rec[a].kind = "CLIENT" /\ rec[a].state = "RECV_BODY"
      /\ UNCHANGED <<g_pending_free, exited, g_import_running>>
  BY DEF StartHash, Client
<1>2. CoreInv /\ batch' \subseteq batch /\ UNCHANGED <<pc, cursor>>
  BY <1>1, TakeFacts
<1>3. rec[a].owner = NULL /\ rec[a].child = NULL /\ g_import_running' \in BOOLEAN
  BY <1>1, <1>2, ClientFacts
<1>4. PICK k \in Free :
        /\ g_conns' = Listed(k)
        /\ \/ /\ rec' = Hashing(a, k)
              /\ interest' = interest \cup {k}
           \/ /\ \E n \in 1 .. Chunks :
                   rec' = [Hashing(a, k) EXCEPT ![a].state = "SEND_HEADER", ![a].left = n]
              /\ interest' = interest
  BY DEF StartHash
<1>5. k \in Addr /\ a # k /\ TypeOK
  BY <1>1, <1>2 DEF Free, CoreInv
<1> DEFINE p == [rec[a] EXCEPT !.state = "HASHING", !.idle = 0, !.left = 0, !.child = k]
           r == [Blank("HASH_CHILD") EXCEPT !.owner = a]
<1>6. rec[a] \in Record /\ 0 \in Clock /\ 0 \in 0 .. Chunks /\ "HASHING" \in State
  BY <1>5, RecordFacts, EventLoopAssumption DEF Clock, State
<1>7. /\ p \in Record /\ p.kind = "CLIENT" /\ p.owner = rec[a].owner /\ p.state = "HASHING"
      /\ p.child = k
  BY <1>1, <1>5, <1>6 DEF Record
<1>8. r \in Record /\ r.kind = "HASH_CHILD" /\ r.owner = a /\ r.child = NULL
  <2>1. Blank("HASH_CHILD") \in Record
    BY BlankIsRecord DEF Kind
  <2>. QED  BY <2>1 DEF Record, Blank
<1>9. Hashing(a, k) = [x \in Addr |-> IF x = a THEN p ELSE IF x = k THEN r ELSE rec[x]]
  BY <1>5 DEF Hashing, TypeOK
<1> HIDE DEF p, r
<1>10. CASE rec' = Hashing(a, k) /\ interest' = interest \cup {k}
  BY <1>1, <1>2, <1>3, <1>4, <1>7, <1>8, <1>9, <1>10, StartIsSound
<1>11. ASSUME NEW n \in 1 .. Chunks,
              rec' = [Hashing(a, k) EXCEPT ![a].state = "SEND_HEADER", ![a].left = n],
              interest' = interest
       PROVE  CoreInv'
  <2> DEFINE q == [p EXCEPT !.state = "SEND_HEADER", !.left = n]
  <2>1. n \in 0 .. Chunks /\ "SEND_HEADER" \in State
    BY EventLoopAssumption DEF State
  <2>2. /\ q \in Record /\ q.kind = "CLIENT" /\ q.owner = rec[a].owner
        /\ q.state = "SEND_HEADER" /\ q.child = k
    BY <1>7, <2>1 DEF Record
  <2>3. rec' = [x \in Addr |-> IF x = a THEN q ELSE IF x = k THEN r ELSE rec[x]]
    BY <1>5, <1>9, <1>11
  <2> HIDE DEF q
  <2>4. g_conns' = Listed(k) /\ interest' \in {interest, interest \cup {k}}
    BY <1>4, <1>11
  <2>. QED  BY <1>1, <1>2, <1>3, <1>8, <2>2, <2>3, <2>4, StartIsSound
<1>. QED  BY <1>4, <1>10, <1>11

\* api_import_start().
LEMMA StartImportStep ==
  ASSUME LoopInv, NEW a \in Addr, StartImport(a)
  PROVE  CoreInv'
<1>1. /\ Take(<<a, "IN">>) /\ rec[a].kind = "CLIENT" /\ rec[a].state = "READ_REQUEST"
      /\ UNCHANGED <<g_pending_free, exited>> /\ g_import_running' \in BOOLEAN
  BY DEF StartImport, Client
<1>2. CoreInv /\ batch' \subseteq batch /\ UNCHANGED <<pc, cursor>>
  BY <1>1, TakeFacts
<1>3. rec[a].owner = NULL /\ rec[a].child = NULL
  BY <1>1, <1>2, ClientFacts
<1>4. PICK k \in Free, n \in 1 .. Chunks :
        /\ rec' = [rec EXCEPT ![a].state = "SEND_HEADER", ![a].left = n, ![a].idle = 0,
                              ![k] = Blank("IMPORT_CHILD")]
        /\ g_conns' = Listed(k)
        /\ interest' \in {interest, interest \cup {k}}
  BY DEF StartImport
<1>5. k \in Addr /\ a # k /\ TypeOK
  BY <1>1, <1>2 DEF Free, CoreInv
<1> DEFINE q == [rec[a] EXCEPT !.state = "SEND_HEADER", !.left = n, !.idle = 0]
           r == Blank("IMPORT_CHILD")
<1>6. rec[a] \in Record /\ n \in 0 .. Chunks /\ 0 \in Clock /\ "SEND_HEADER" \in State
  BY <1>5, RecordFacts, EventLoopAssumption DEF Clock, State
<1>7. /\ q \in Record /\ q.kind = "CLIENT" /\ q.owner = rec[a].owner
      /\ q.state = "SEND_HEADER" /\ q.child = NULL
  BY <1>1, <1>3, <1>6 DEF Record
<1>8. r \in Record /\ r.kind = "IMPORT_CHILD" /\ r.owner = NULL /\ r.child = NULL
  BY BlankIsRecord DEF Kind
<1>9. rec' = [x \in Addr |-> IF x = a THEN q ELSE IF x = k THEN r ELSE rec[x]]
  BY <1>4, <1>5 DEF TypeOK
<1>10. g_conns' = Listed(k) /\ interest' \in {interest, interest \cup {k}}
  BY <1>4
<1> HIDE DEF q, r
<1>. QED  BY <1>1, <1>2, <1>3, <1>7, <1>8, <1>9, <1>10, StartIsSound

\* The exit of a process of the daemon.
LEMMA DoneIsSound ==
  ASSUME LoopInv, NEW k \in Addr, HashDone(k) \/ ImportDone(k)
  PROVE  CoreInv'
<1>1. /\ Take(<<k, "IN">>) /\ g_import_running' \in BOOLEAN
      /\ rec[k].kind \in {"HASH_CHILD", "IMPORT_CHILD"} /\ Open(k)
  BY DEF HashDone, ImportDone, Open, LoopInv, TypeOK
<1>2. CoreInv
  BY <1>1, TakeFacts
<1>3. CASE HashDone(k) /\ rec[k].owner # NULL
  BY <1>2, <1>3, AnswerIsSound
<1>4. CASE HashDone(k) /\ rec[k].owner = NULL
  <2>1. conn_close(k)
    BY <1>4 DEF HashDone
  <2>. QED  BY <1>1, <1>4, <2>1, DropIsSound
<1>5. CASE ImportDone(k)
  <2>1. conn_close(k) /\ rec[k].owner = NULL
    BY <1>2, <1>5 DEF ImportDone, CoreInv, FamilyInv
  <2>. QED  BY <1>1, <2>1, DropIsSound
<1>. QED  BY <1>3, <1>4, <1>5

\* A step that leaves the records alone, and may take an event.
LEMMA IdleIsSound ==
  ASSUME CoreInv, batch' \subseteq batch, exited' \subseteq Addr,
         UNCHANGED <<rec, g_conns, g_pending_free, interest, pc, cursor, g_import_running>>
  PROVE  CoreInv'
<1>1. TypeOK'
  BY DEF CoreInv, TypeOK
<1>. QED  BY <1>1
     DEF CoreInv, ListInv, FamilyInv, NoStaleEvent, ChildOfOwner, HashingIsWatched, Open

\* Every step keeps the invariant.
LEMMA StepIsSound ==
  ASSUME LoopInv, [Next]_vars
  PROVE  LoopInv'
<1>0. ASSUME NEW e, Take(e), CoreInv'  PROVE LoopInv'
  BY <1>0, InBatch DEF LoopInv, CoreInv
<1>1. ASSUME NEW ticks \in BOOLEAN, Wait(ticks)  PROVE LoopInv'
  BY <1>1, WaitIsSound
<1>2. CASE EndBatch
  BY <1>2, EndBatchIsSound
<1>3. CASE Sweep
  BY <1>3, SweepIsSound
<1>4. CASE drain_pending_free
  BY <1>4, DrainIsSound
<1>5. CASE Accept
  BY <1>0, <1>5, AcceptStep DEF Accept
<1>6. ASSUME NEW a \in Addr, SkipDead(a) \/ NothingYet(a)  PROVE LoopInv'
  <2>1. PICK ev : Take(<<a, ev>>)
    BY <1>6 DEF SkipDead, NothingYet, Client
  <2>2. UNCHANGED <<rec, g_conns, g_pending_free, interest, exited, g_import_running>>
    BY <1>6 DEF SkipDead, NothingYet
  <2>3. CoreInv /\ batch' \subseteq batch /\ UNCHANGED <<pc, cursor>>
    BY <2>1, TakeFacts
  <2>4. exited' \subseteq Addr
    BY <2>2 DEF LoopInv, TypeOK
  <2>. QED  BY <1>0, <2>1, <2>2, <2>3, <2>4, IdleIsSound
<1>7. ASSUME NEW a \in Addr, Drop(a)  PROVE LoopInv'
  <2>1. PICK ev : Client(a, ev)
    BY <1>7 DEF Drop
  <2>2. Take(<<a, ev>>) /\ rec[a].kind = "CLIENT"
    BY <2>1 DEF Client
  <2>3. CoreInv
    BY <2>2, TakeFacts
  <2>4. Open(a) /\ rec[a].owner = NULL /\ g_import_running \in BOOLEAN
    BY <2>2, <2>3, ClientFacts
  <2>5. conn_close(a) /\ g_import_running' = g_import_running
    BY <1>7 DEF Drop
  <2>6. CoreInv'
    BY <2>2, <2>4, <2>5, DropIsSound
  <2>. QED  BY <1>0, <2>2, <2>6
<1>8. ASSUME NEW a \in Addr,
             ReadPart(a) \/ BeginBody(a) \/ ReadAndRespond(a) \/ CannotHash(a)
      PROVE  LoopInv'
  <2>1. Client(a, "IN") /\ g_import_running' = g_import_running
    BY <1>8 DEF ReadPart, BeginBody, ReadAndRespond, CannotHash
  <2>2. Take(<<a, "IN">>)
    BY <2>1 DEF Client
  <2>3. CASE ReadPart(a)
    <3>1. CoreInv'
      BY <2>1, <2>3, PartIsSound DEF ReadPart
    <3>. QED  BY <1>0, <2>2, <3>1
  <2>4. CASE BeginBody(a)
    <3>1. CoreInv'
      BY <2>1, <2>4, OnwardIsSound DEF BeginBody
    <3>. QED  BY <1>0, <2>2, <3>1
  <2>5. CASE ReadAndRespond(a) \/ CannotHash(a)
    <3>1. Respond(a)
      BY <2>5 DEF ReadAndRespond, CannotHash
    <3>2. CoreInv'
      BY <2>1, <3>1, RespondIsSound
    <3>. QED  BY <1>0, <2>2, <3>2
  <2>. QED  BY <1>8, <2>3, <2>4, <2>5
<1>9. ASSUME NEW a \in Addr, StartHash(a)  PROVE LoopInv'
  BY <1>0, <1>9, StartHashStep DEF StartHash, Client
<1>10. ASSUME NEW a \in Addr, StartImport(a)  PROVE LoopInv'
  BY <1>0, <1>10, StartImportStep DEF StartImport, Client
<1>11. ASSUME NEW a \in Addr, WritePart(a)  PROVE LoopInv'
  <2>1. Client(a, "OUT") /\ g_import_running' = g_import_running
    BY <1>11 DEF WritePart
  <2>2. Take(<<a, "OUT">>)
    BY <2>1 DEF Client
  <2>3. CASE \E n \in 1 .. rec[a].left - 1 : Leave(a, rec[a].state, n)
    <3>1. CoreInv'
      BY <2>1, <2>3, PartIsSound
    <3>. QED  BY <1>0, <2>2, <3>1
  <2>4. CASE \E n \in 1 .. Chunks : Leave(a, "SEND_BODY", n)
    <3>1. CoreInv'
      BY <2>1, <2>4, OnwardIsSound
    <3>. QED  BY <1>0, <2>2, <3>1
  <2>. QED  BY <1>11, <2>3, <2>4 DEF WritePart
<1>12. ASSUME NEW k \in Addr, HashDone(k) \/ ImportDone(k)  PROVE LoopInv'
  BY <1>0, <1>12, DoneIsSound DEF HashDone, ImportDone
<1>13. ASSUME NEW k \in Addr, NEW kind, Exits(k, kind)  PROVE LoopInv'
  <2>1. /\ exited' = exited \cup {k}
        /\ UNCHANGED <<rec, g_conns, g_pending_free, interest, batch, pc, cursor,
                       g_import_running>>
    BY <1>13 DEF Exits
  <2>2. CoreInv'
    BY <2>1, IdleIsSound DEF LoopInv, CoreInv, TypeOK
  <2>3. (TurnInv /\ SweepOnList /\ ClockInv)'
    BY <2>1 DEF LoopInv, TurnInv, SweepOnList, ClockInv, Expired
  <2>. QED  BY <2>2, <2>3 DEF LoopInv, CoreInv
<1>14. CASE UNCHANGED vars
  <2>1. CoreInv'
    BY <1>14, IdleIsSound DEF vars, LoopInv, CoreInv, TypeOK
  <2>2. (TurnInv /\ SweepOnList /\ ClockInv)'
    BY <1>14 DEF vars, LoopInv, TurnInv, SweepOnList, ClockInv, Expired
  <2>. QED  BY <2>1, <2>2 DEF LoopInv, CoreInv
<1>15. CASE Loop
  BY <1>1, <1>2, <1>3, <1>4, <1>5, <1>6, <1>7, <1>8, <1>9, <1>10, <1>11, <1>12, <1>15 DEF Loop
<1>. QED  BY <1>13, <1>14, <1>15 DEF Next

\* The daemon starts with nothing open.
LEMMA StartIsClean == Init => LoopInv
<1> SUFFICES ASSUME Init  PROVE LoopInv
  OBVIOUS
<1>1. /\ Blank("FREE") \in Record /\ Blank("FREE").kind = "FREE"
      /\ Blank("FREE").owner = NULL /\ Blank("FREE").child = NULL
  BY BlankIsRecord DEF Kind
<1>2. \A x \in Addr : rec[x] = Blank("FREE")
  BY DEF Init
<1>3. TypeOK
  <2>1. rec \in [Addr -> Record]
    BY <1>1 DEF Init
  <2>2. g_conns \in Seq(Addr)
    BY DEF Init
  <2>. QED  BY <2>1, <2>2 DEF Init, TypeOK
<1>4. ListInv
  <2>1. g_conns = <<>> /\ DOMAIN g_conns = {} /\ g_pending_free = {}
    BY DEF Init
  <2>2. Once(g_conns) /\ \A x \in Addr : ~In(g_conns, x)
    BY <2>1 DEF Once, In
  <2>. QED  BY <1>1, <1>2, <2>1, <2>2 DEF ListInv, Open
<1>5. FamilyInv /\ ChildOfOwner /\ HashingIsWatched /\ ClockInv
  BY <1>1, <1>2 DEF Init, FamilyInv, ChildOfOwner, HashingIsWatched, ClockInv, Expired
<1>6. TurnInv /\ SweepOnList /\ NoStaleEvent
  BY DEF Init, TurnInv, SweepOnList, NoStaleEvent
<1>. QED  BY <1>3, <1>4, <1>5, <1>6 DEF LoopInv

\* The invariant of the event loop (main.c), for any number of connections.
THEOREM LoopIsSound == Spec => []LoopInv
<1>1. Init => LoopInv
  BY StartIsClean
<1>2. LoopInv /\ [Next]_vars => LoopInv'
  BY StepIsSound
<1>. QED  BY <1>1, <1>2, PTL DEF Spec

\* No handler is given a freed record, and epoll holds none: what conn_close()
\* leaves in the batch is freed only after it, by drain_pending_free().
THEOREM NoUseAfterFree == Spec => []NoStaleEvent
<1>1. LoopInv => NoStaleEvent
  BY DEF LoopInv
<1>. QED  BY <1>1, LoopIsSound, PTL

\* sweep_timeouts() never stands on a record that it, or the close of another
\* record, has taken out of the list.
THEOREM SweepStaysOnList == Spec => []SweepOnList
<1>1. LoopInv => SweepOnList
  BY DEF LoopInv
<1>. QED  BY <1>1, LoopIsSound, PTL

\* The two ends of a hash know each other, whichever is closed first
\* (start_hash_child(), conn_close()).
THEOREM HashEndsAgree == Spec => []ChildOfOwner
<1>1. LoopInv => ChildOfOwner
  BY DEF LoopInv
<1>. QED  BY <1>1, LoopIsSound, PTL

\* A connection that waits for a hash is woken by it (start_hash_child(),
\* finish_upload()).
THEOREM HashesAreAnswered == Spec => []HashingIsWatched
<1>1. LoopInv => HashingIsWatched
  BY DEF LoopInv
<1>. QED  BY <1>1, LoopIsSound, PTL

\* The records, the list, the registrations with epoll and the counters keep
\* their shape through every batch of events (main.c), for any number of
\* connections.
THEOREM LoopStateIsWellFormed == Spec => []TypeOK
<1>1. LoopInv => TypeOK
  BY DEF LoopInv
<1>. QED  BY <1>1, LoopIsSound, PTL

=============================================================================
