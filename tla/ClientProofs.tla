---------------------------- MODULE ClientProofs ----------------------------
(***************************************************************************)
(* What cixcachectl reports and what `log -f` prints is right, for any     *)
(* number of clients, commands, broken connections and restarts, and for   *)
(* any size of the daemon's activity ring.                                 *)
(***************************************************************************)
EXTENDS Client, TLAPS

Running(c) == call[c].state \in {"SENT", "ANSWERED"}

\* What the bookkeeping of a command knows of it: the attempts made, how many
\* of them were lost, and whether the answer at hand is about an effect.
CallOf(c) ==
  /\ ~Running(c) => call[c].cmd = NoCommand
  /\ Running(c) =>
       /\ call[c].cmd \in Command /\ report[c] = "NONE"
       /\ call[c].attempt = broken[c] + 1
  /\ call[c].state = "SENT" => effects[c] <= broken[c]
  /\ call[c].state = "ANSWERED" =>
       IF call[c].reply.status \in 200..299 THEN effects[c] \in 1..broken[c] + 1
       ELSE effects[c] <= broken[c]

\* What its report says (ReportIsTrue, of one client).
ReportOf(c) ==
  /\ report[c] = "DONE" => effects[c] \in 1..broken[c] + 1
  /\ report[c] \in {"REJECTED", "UNREACHABLE"} => effects[c] <= broken[c]

CallInv == \A c \in Ctl : CallOf(c) /\ ReportOf(c)

\* The ring holds the last LOG_RING lines, each in its slot.
Holds(r, s) == \A i \in 1..s : i > s - LOG_RING => r[(i - 1) % LOG_RING] = i

RingInv == Holds(ring, seq)

\* Of an answer on its way to the follower: it is about the cursor the follower
\* still has, holds only later lines, and misses none that the ring held.
ReplyInv ==
  LET r == call[Follower].reply IN
  call[Follower].state = "ANSWERED" =>
    /\ r.boot \in 1..boot /\ from <= r.boot
    /\ r.boot = boot =>
         /\ r.seq <= seq
         /\ \A i \in 1..r.seq : i > after => i \in r.entries \/ i <= seq - LOG_RING
    /\ r.boot = from => after <= r.seq
    /\ \A i \in r.entries : after < i /\ i <= r.seq

\* The cursor is about a daemon that has run, and nothing past it is printed.
CursorInv ==
  /\ from <= boot
  /\ from = boot => after <= seq
  /\ \A e \in shown : e[1] <= from /\ (~cut /\ e[1] = from => e[2] <= after)

TailInv == ReplyInv /\ CursorInv /\ NothingMissed /\ NothingRepeated

ClientInv == TypeOK /\ CallInv /\ RingInv /\ TailInv

-----------------------------------------------------------------------------
(***************************************************************************)
(* The ring.                                                               *)
(***************************************************************************)

\* Two lines less than a ring apart have different slots.
LEMMA SlotsApart ==
  ASSUME NEW N \in Nat \ {0}, NEW i \in Nat, NEW j \in Nat, i < j, j - i < N
  PROVE  i % N # j % N
<1> DEFINE p == i \div N  q == j \div N
<1>1. /\ i = N * p + (i % N) /\ p \in Nat
      /\ j = N * q + (j % N) /\ q \in Nat
      /\ i % N \in 0..N - 1 /\ j % N \in 0..N - 1
  OBVIOUS
<1> HIDE DEF p, q
<1> SUFFICES ASSUME i % N = j % N  PROVE FALSE
  OBVIOUS
<1>2. \A x, y \in Nat : x < y => N * y - N * x >= N
  OBVIOUS
<1>3. \A x, y \in Nat : x <= y => N * y - N * x >= 0
  OBVIOUS
<1>4. N * p \in Nat /\ N * q \in Nat /\ j - i = N * q - N * p
  BY <1>1
<1>5. CASE p < q
  BY <1>1, <1>2, <1>4, <1>5
<1>6. CASE q <= p
  BY <1>1, <1>3, <1>4, <1>6
<1>. QED  BY <1>1, <1>5, <1>6

\* A slot is one of the ring's.
LEMMA SlotInRing ==
  ASSUME NEW i \in Nat \ {0}
  PROVE  i - 1 \in Nat /\ (i - 1) % LOG_RING \in 0..LOG_RING - 1
BY ClientAssumption

\* server_log(): the last LOG_RING lines are in their slots after one or two
\* more lines as well.
LEMMA LoggedFacts ==
  ASSUME NEW r \in [0..LOG_RING - 1 -> Nat], NEW s \in Nat, NEW k \in 0..2, Holds(r, s)
  PROVE  Logged(r, s, k) \in [0..LOG_RING - 1 -> Nat] /\ Holds(Logged(r, s, k), s + k)
<1> DEFINE N == LOG_RING
           new(x) == {j \in s + 1..s + k : (j - 1) % N = x}
           top(x) == CHOOSE j \in new(x) : \A h \in new(x) : h <= j
           t == Logged(r, s, k)
<1>0. N \in Nat \ {0} /\ k \in Nat
  BY ClientAssumption
<1>1. t = [x \in 0..N - 1 |-> IF new(x) = {} THEN r[x] ELSE top(x)]
  BY DEF Logged
<1>2. ASSUME NEW x, new(x) # {}
      PROVE  top(x) \in new(x) /\ \A h \in new(x) : h <= top(x)
  <2>1. new(x) \subseteq {s + 1, s + 2}
    BY <1>0
  <2>2. \E j \in new(x) : \A h \in new(x) : h <= j
    <3> HIDE DEF new
    <3>0. s + 1 <= s + 2 /\ s + 1 <= s + 1 /\ s + 2 <= s + 2
      OBVIOUS
    <3>1. CASE s + 2 \in new(x)
      BY <2>1, <3>0, <3>1
    <3>2. CASE s + 2 \notin new(x)
      <4>1. s + 1 \in new(x) /\ \A h \in new(x) : h = s + 1
        BY <1>2, <2>1, <3>2
      <4>. QED  BY <3>0, <4>1
    <3>. QED  BY <3>1, <3>2
  <2> HIDE DEF new
  <2>. QED  BY <2>2
<1>3. \A x : \A j \in new(x) : j \in Nat /\ s < j /\ j <= s + k /\ (j - 1) % N = x
  BY <1>0
<1>4. \A i \in s + 1..s + k : i \in new((i - 1) % N)
  OBVIOUS
<1> HIDE DEF new, top, t
<1>5. t \in [0..N - 1 -> Nat]
  BY <1>1, <1>2, <1>3
<1>6. ASSUME NEW i \in 1..s + k, i > s + k - N  PROVE t[(i - 1) % N] = i
  <2> DEFINE x == (i - 1) % N
  <2>0. i \in Nat /\ i - 1 \in Nat /\ x \in 0..N - 1
    BY <1>0, SlotInRing
  <2>1. ASSUME NEW h \in new(x), i < h  PROVE FALSE
    <3>1. h \in Nat /\ h <= s + k /\ (h - 1) % N = x
      BY <1>3
    <3>2. h - 1 \in Nat /\ i - 1 < h - 1 /\ (h - 1) - (i - 1) < N
      BY <1>0, <1>6, <2>0, <2>1, <3>1
    <3>. QED  BY <1>0, <2>0, <3>1, <3>2, SlotsApart
  <2>2. CASE i <= s
    <3>1. new(x) = {}
      BY <1>3, <2>0, <2>1, <2>2
    <3>2. r[x] = i
      BY <1>0, <1>6, <2>0, <2>2 DEF Holds
    <3>. QED  BY <1>1, <2>0, <3>1, <3>2
  <2>3. CASE s < i
    <3>1. i \in new(x)
      BY <1>0, <1>4, <2>0, <2>3
    <3>2. top(x) \in new(x) /\ i <= top(x)
      BY <1>2, <3>1
    <3>3. top(x) = i
      BY <1>3, <2>0, <2>1, <3>2
    <3>. QED  BY <1>1, <2>0, <3>1, <3>3
  <2>. QED  BY <1>0, <2>0, <2>2, <2>3
<1>7. Holds(t, s + k)
  <2> SUFFICES ASSUME NEW i \in 1..s + k, i > s + k - N  PROVE t[(i - 1) % N] = i
    BY <1>0 DEF Holds
  <2>. QED  BY <1>6
<1>. QED  BY <1>5, <1>7 DEF t

\* A new daemon's ring holds the one line that main() logs.
LEMMA FreshRing ==
  Logged(EmptyRing, 0, 1) \in [0..LOG_RING - 1 -> Nat] /\ Holds(Logged(EmptyRing, 0, 1), 1)
<1>1. EmptyRing \in [0..LOG_RING - 1 -> Nat] /\ Holds(EmptyRing, 0)
  BY ClientAssumption DEF EmptyRing, Holds
<1>2. Holds(Logged(EmptyRing, 0, 1), 0 + 1) /\ Logged(EmptyRing, 0, 1) \in [0..LOG_RING - 1 -> Nat]
  BY <1>1, LoggedFacts
<1>. QED  BY <1>2

-----------------------------------------------------------------------------
(***************************************************************************)
(* The commands.                                                           *)
(***************************************************************************)
Statuses == {0, 200, 201, 202, 204, 400, 401, 404, 409, 500}

\* What dispatch() answers: success is reported exactly when the command was
\* carried out.
IsAnswer(a) ==
  /\ a.entry \in [Name -> Digest \cup {None}] /\ a.importing \in BOOLEAN
  /\ a.lines \in 0..2 /\ a.status \in Statuses
  /\ IF a.status \in 200..299 THEN a.done = TRUE ELSE a.done = FALSE

LEMMA DeleteAnswerCases ==
  ASSUME NEW n, NEW a \in DeleteAnswers(n)
  PROVE  \/ a = Answer(404, Unsigned(n), importing, FALSE, 1)
         \/ a = Answer(204, [Unsigned(n) EXCEPT ![n] = None], importing, TRUE, 2)
         \/ a = Answer(400, entry, importing, FALSE, 1)
         \/ a = Answer(400, Unsigned(n), importing, FALSE, 1)
<1> DEFINE S == IF StoreFaults THEN {entry, Unsigned(n)} ELSE {}
           one == IF entry[n] = None THEN Answer(404, Unsigned(n), importing, FALSE, 1)
                  ELSE Answer(204, [Unsigned(n) EXCEPT ![n] = None], importing, TRUE, 2)
<1>1. a = one \/ \E e \in S : a = Answer(400, e, importing, FALSE, 1)
  BY ZenonT(40) DEF DeleteAnswers
<1>2. \A e \in S : e = entry \/ e = Unsigned(n)
  OBVIOUS
<1> HIDE DEF S
<1>3. (\E e \in S : a = Answer(400, e, importing, FALSE, 1)) =>
        \/ a = Answer(400, entry, importing, FALSE, 1)
        \/ a = Answer(400, Unsigned(n), importing, FALSE, 1)
  BY <1>2, Zenon
<1>. QED  BY <1>1, <1>3, Zenon

LEMMA AnswerFacts ==
  ASSUME TypeOK, NEW m \in Command, NEW a \in Answers(m)
  PROVE  IsAnswer(a)
<1>1. /\ m.op \in {"publish", "delete", "gc", "import"}
      /\ m.op = "publish" => m.name \in Name /\ m.digest \in Digest
      /\ m.op = "delete" => m.name \in Name
  BY DEF Command, PublishCommand
<1>2. entry \in [Name -> Digest \cup {None}] /\ importing \in BOOLEAN
  BY DEF TypeOK
<1>3. ASSUME NEW st \in {400, 401, 404, 409, 500}, NEW l \in {1, 2}  PROVE IsAnswer(Refuse(st, l))
  BY <1>2 DEF Refuse, Answer, Statuses, IsAnswer
<1>4. IsAnswer(Answer(200, entry, importing, TRUE, 1)) /\ IsAnswer(Answer(202, entry, TRUE, TRUE, 0))
  BY <1>2 DEF Answer, Statuses, IsAnswer
<1>5. m.op = "publish" =>
        IsAnswer(Answer(201, [entry EXCEPT ![m.name] = m.digest], importing, TRUE, 2))
  BY <1>1, <1>2 DEF Answer, Statuses, IsAnswer
<1>6. ASSUME NEW e \in [Name -> Digest \cup {None}], NEW n \in Name
       PROVE  IsAnswer(Answer(204, [e EXCEPT ![n] = None], importing, TRUE, 2))
  BY <1>2 DEF Answer, Statuses, IsAnswer
<1>7. CASE ~m.token
  BY <1>3, <1>7 DEF Answers
<1>8. CASE m.token /\ a = Refuse(500, 1)
  BY <1>3, <1>8
<1>9. CASE m.token /\ a # Refuse(500, 1)
  <2>1. CASE m.op = "publish"
    <3>1. \/ a = Refuse(409, 2)
          \/ a = Answer(201, [entry EXCEPT ![m.name] = m.digest], importing, TRUE, 2)
      BY <1>9, <2>1, ZenonT(40) DEF Answers
    <3>2. IsAnswer(Refuse(409, 2))
      BY <1>3
    <3>. QED  BY <1>5, <2>1, <3>1, <3>2, Zenon
  <2>2. CASE m.op = "delete"
    <3>1. a \in DeleteAnswers(m.name)
      BY <1>9, <2>2, ZenonT(40) DEF Answers
    <3>2. \/ a = Answer(404, Unsigned(m.name), importing, FALSE, 1)
          \/ a = Answer(204, [Unsigned(m.name) EXCEPT ![m.name] = None], importing, TRUE, 2)
          \/ a = Answer(400, entry, importing, FALSE, 1)
          \/ a = Answer(400, Unsigned(m.name), importing, FALSE, 1)
      BY <3>1, DeleteAnswerCases, Zenon
    <3>3. Unsigned(m.name) \in [Name -> Digest \cup {None}] /\ m.name \in Name
      BY <1>1, <1>2, <2>2 DEF Unsigned
    <3> DEFINE u == Unsigned(m.name)
    <3>4. IsAnswer(Answer(404, u, importing, FALSE, 1))
      <4>1. u \in [Name -> Digest \cup {None}]
        BY <3>3
      <4> HIDE DEF u
      <4> QED BY <1>2, <4>1 DEF Answer, Statuses, IsAnswer
    <3>5. IsAnswer(Answer(400, u, importing, FALSE, 1))
      <4>1. u \in [Name -> Digest \cup {None}]
        BY <3>3
      <4> HIDE DEF u
      <4> QED BY <1>2, <4>1 DEF Answer, Statuses, IsAnswer
    <3>6. IsAnswer(Answer(400, entry, importing, FALSE, 1))
      BY <1>2 DEF Answer, Statuses, IsAnswer
    <3>7. IsAnswer(Answer(204, [u EXCEPT ![m.name] = None], importing, TRUE, 2))
      BY <1>6, <3>3
    <3> DEFINE x == Answer(404, u, importing, FALSE, 1)
               y == Answer(400, entry, importing, FALSE, 1)
               z == Answer(400, u, importing, FALSE, 1)
               w == Answer(204, [u EXCEPT ![m.name] = None], importing, TRUE, 2)
    <3>8. IsAnswer(x) /\ IsAnswer(y) /\ IsAnswer(z) /\ IsAnswer(w)
      BY <3>4, <3>5, <3>6, <3>7
    <3>9. a = x \/ a = y \/ a = z \/ a = w
      BY <3>2, Zenon
    <3> HIDE DEF x, y, z, w
    <3>. QED  BY <3>8, <3>9
  <2>3. CASE m.op \in {"gc", "import"}
    <3>1. \/ a = Refuse(409, 1)
          \/ a = Answer(200, entry, importing, TRUE, 1)
          \/ a = Answer(202, entry, TRUE, TRUE, 0)
      BY <1>9, <2>3, ZenonT(40) DEF Answers
    <3>2. IsAnswer(Refuse(409, 1))
      BY <1>3
    <3>. QED  BY <1>4, <3>1, <3>2, Zenon
  <2>. QED  BY <1>1, <2>1, <2>2, <2>3
<1>. QED  BY <1>7, <1>8, <1>9

\* A refusal that changes the store is that of a DELETE, and what it has changed
\* is the signature of the name it was given.
LEMMA RefusalFacts ==
  ASSUME TypeOK, NEW m \in Command, NEW a \in Answers(m), ~a.done,
         NEW x \in Name, a.entry[x] # entry[x]
  PROVE  m.name \in Name /\ x \in SignatureOf[m.name]
<1>1. ASSUME NEW st, NEW l, a = Refuse(st, l)  PROVE FALSE
  BY <1>1 DEF Refuse, Answer
<1>2. ASSUME NEW st, NEW e, NEW i, NEW l, a = Answer(st, e, i, TRUE, l)  PROVE FALSE
  BY <1>2 DEF Answer
<1>3. m.op = "delete" /\ a \in DeleteAnswers(m.name)
  <2>1. m.op \in {"publish", "delete", "gc", "import"}
    BY DEF Command, PublishCommand
  <2>2. (\E st, l : a = Refuse(st, l)) \/ (\E st, e, i, l : a = Answer(st, e, i, TRUE, l))
          \/ (m.op = "delete" /\ a \in DeleteAnswers(m.name))
    <3>1. CASE m.op = "delete"
      <4>1. m.token => a \in DeleteAnswers(m.name)
        BY <3>1, ZenonT(40) DEF Answers
      <4>2. ~m.token => a = Refuse(401, 1)
        BY <3>1, Zenon DEF Answers
      <4>. QED  BY <3>1, <4>1, <4>2, ZenonT(40)
    <3>2. CASE m.op # "delete"
      <4>1. CASE ~m.token
        BY <4>1, Zenon DEF Answers
      <4>2. CASE m.token /\ a = Refuse(500, 1)
        BY <4>2, Zenon
      <4>3. CASE m.token /\ a # Refuse(500, 1)
        <5>1. \/ a = Refuse(409, 2) \/ a = Refuse(409, 1)
              \/ a = Answer(201, [entry EXCEPT ![m.name] = m.digest], importing, TRUE, 2)
              \/ a = Answer(200, entry, importing, TRUE, 1)
              \/ a = Answer(202, entry, TRUE, TRUE, 0)
          BY <3>2, <4>3, ZenonT(40) DEF Answers
        <5>. QED  BY <5>1, ZenonT(40)
      <4>. QED  BY <4>1, <4>2, <4>3
    <3>. QED  BY <3>1, <3>2
  <2>. QED  BY <1>1, <1>2, <2>2, Zenon
<1>4. m.name \in Name
  BY <1>3 DEF Command, PublishCommand
<1>5. \/ a = Answer(404, Unsigned(m.name), importing, FALSE, 1)
      \/ a = Answer(400, entry, importing, FALSE, 1)
      \/ a = Answer(400, Unsigned(m.name), importing, FALSE, 1)
  <2>1. a # Answer(204, [Unsigned(m.name) EXCEPT ![m.name] = None], importing, TRUE, 2)
    BY <1>2
  <2>. QED  BY <1>3, <2>1, DeleteAnswerCases, Zenon
<1>6. a.entry \in {entry, Unsigned(m.name)}
  BY <1>5 DEF Answer
<1>7. Unsigned(m.name)[x] = IF x \in SignatureOf[m.name] THEN None ELSE entry[x]
  BY DEF Unsigned
<1>. QED  BY <1>4, <1>6, <1>7

CallRecord ==
  [state : {"IDLE", "SENT", "ANSWERED", "STOPPED"}, cmd : Command \cup {NoCommand},
   attempt : 0..MAX_ATTEMPTS, reply : Reply]

\* The calls that clients make are calls.
LEMMA CallFacts ==
  /\ NoReply \in Reply
  /\ Idle \in CallRecord /\ [Idle EXCEPT !.state = "STOPPED"] \in CallRecord
  /\ \A m \in Command \cup {NoCommand}, k \in 1..MAX_ATTEMPTS : Attempt(m, k) \in CallRecord
<1>1. NoReply \in Reply
  BY DEF NoReply, Reply
<1>2. 0 \in 0..MAX_ATTEMPTS /\ \A k \in 1..MAX_ATTEMPTS : k \in 0..MAX_ATTEMPTS
  BY ClientAssumption
<1>. QED  BY <1>1, <1>2 DEF Idle, Attempt, CallRecord

\* A call's type, and that a step of one client changes no other's.
LEMMA OneCall ==
  ASSUME TypeOK, NEW c \in Client, NEW r \in CallRecord, call' = [call EXCEPT ![c] = r]
  PROVE  /\ call' \in [Client -> CallRecord] /\ call'[c] = r
         /\ \A b \in Client : b # c => call'[b] = call[b]
BY DEF TypeOK, CallRecord

\* A client that is left alone.
LEMMA ClientKept ==
  ASSUME NEW b \in Ctl, CallOf(b), ReportOf(b), call'[b] = call[b],
         report'[b] = report[b], effects'[b] = effects[b], broken'[b] = broken[b]
  PROVE  CallOf(b)' /\ ReportOf(b)'
BY DEF CallOf, ReportOf, Running

\* Steps of the follower change nothing for the commands.
LEMMA CommandsKept ==
  ASSUME CallInv, UNCHANGED ctlVars, \A b \in Ctl : call'[b] = call[b]
  PROVE  CallInv'
BY ClientKept DEF CallInv, ctlVars

\* Commands change nothing for the follower but the number of lines.
LEMMA TailKept ==
  ASSUME TypeOK, TailInv, call'[Follower] = call[Follower], UNCHANGED <<tailVars, boot>>,
         seq' \in Nat, seq <= seq'
  PROVE  TailInv'
<1>1. /\ UNCHANGED <<after, shown, repeated, from, skipped, cut, boot>>
      /\ seq \in Nat /\ LOG_RING \in Nat /\ boot \in Nat /\ after \in Nat
      /\ call[Follower].reply \in Reply
  BY ClientAssumption DEF tailVars, TypeOK, Client
<1>2. \A i \in Nat : i <= seq - LOG_RING => i <= seq' - LOG_RING
  <2>1. \A i, x, y, n \in Nat : i <= x - n /\ x <= y => i <= y - n
    OBVIOUS
  <2>. QED  BY <1>1, <2>1
<1>3. ReplyInv'
  <2> DEFINE r == call[Follower].reply
  <2>1. r.boot \in Nat /\ r.seq \in Nat /\ r.entries \in SUBSET Nat
    BY <1>1 DEF Reply
  <2> SUFFICES ASSUME call[Follower].state = "ANSWERED"
      PROVE /\ r.boot \in 1..boot /\ from <= r.boot
            /\ r.boot = boot =>
                 /\ r.seq <= seq'
                 /\ \A i \in 1..r.seq :
                      i > after => i \in r.entries \/ i <= seq' - LOG_RING
            /\ r.boot = from => after <= r.seq
            /\ \A i \in r.entries : after < i /\ i <= r.seq
    BY <1>1 DEF ReplyInv
  <2>2. /\ r.boot \in 1..boot /\ from <= r.boot
        /\ r.boot = boot =>
             /\ r.seq <= seq
             /\ \A i \in 1..r.seq : i > after => i \in r.entries \/ i <= seq - LOG_RING
        /\ r.boot = from => after <= r.seq
        /\ \A i \in r.entries : after < i /\ i <= r.seq
    BY DEF TailInv, ReplyInv
  <2> HIDE DEF r
  <2>3. ASSUME r.boot = boot, NEW i \in 1..r.seq, i > after
        PROVE  i \in r.entries \/ i <= seq' - LOG_RING
    <3>1. i \in Nat /\ (i \in r.entries \/ i <= seq - LOG_RING)
      BY <2>1, <2>2, <2>3
    <3>. QED  BY <1>2, <3>1
  <2>4. r.boot = boot => r.seq <= seq'
    BY <1>1, <2>1, <2>2
  <2>. QED  BY <2>2, <2>3, <2>4
<1>4. CursorInv'
  BY <1>1 DEF TailInv, CursorInv
<1>5. NothingMissed'
  <2> SUFFICES ASSUME from = boot, NEW i \in 1..after
               PROVE  <<boot, i>> \in shown \/ i <= seq' - LOG_RING \/ i <= skipped
    BY <1>1 DEF NothingMissed
  <2>1. i \in Nat /\ (<<boot, i>> \in shown \/ i <= seq - LOG_RING \/ i <= skipped)
    BY <1>1 DEF TailInv, NothingMissed
  <2>. QED  BY <1>2, <2>1
<1>6. NothingRepeated'
  BY <1>1 DEF TailInv, NothingRepeated
<1>. QED  BY <1>3, <1>4, <1>5, <1>6 DEF TailInv

\* The rest of the types: what a client's step leaves alone.
LEMMA TypesKept ==
  ASSUME TypeOK, UNCHANGED <<daemonVars, tailVars>>,
         call' \in [Client -> CallRecord],
         report' \in [Ctl -> {"NONE", "DONE", "REJECTED", "UNREACHABLE"}],
         effects' \in [Ctl -> Nat], broken' \in [Ctl -> Nat],
         strayed' \in [Ctl -> SUBSET (Name \X Name)],
         commands' \in 0..MaxCommands, breaks' \in 0..MaxBreaks
  PROVE  TypeOK'
BY DEF TypeOK, daemonVars, tailVars, CallRecord

\* Bookkeeping that a command's step leaves alone.
LEMMA OthersKept ==
  ASSUME TypeOK, CallInv, NEW c \in Ctl, CallOf(c)', ReportOf(c)',
         \A b \in Client : b # c => call'[b] = call[b],
         \A b \in Ctl : b # c => /\ report'[b] = report[b] /\ effects'[b] = effects[b]
                                 /\ broken'[b] = broken[b]
  PROVE  CallInv' /\ call'[Follower] = call[Follower]
<1>1. ASSUME NEW b \in Ctl, b # c  PROVE CallOf(b)' /\ ReportOf(b)'
  BY <1>1, ClientKept DEF CallInv, Client
<1>2. call'[Follower] = call[Follower]
  BY ClientAssumption DEF Client
<1>. QED  BY <1>1, <1>2 DEF CallInv

\* A client that has nothing under way.
LEMMA IdleFacts ==
  /\ Idle.state = "IDLE" /\ Idle.cmd = NoCommand
  /\ \A m, k : Attempt(m, k).state = "SENT" /\ Attempt(m, k).cmd = m /\ Attempt(m, k).attempt = k
BY DEF Idle, Attempt

\* dispatch_command().
LEMMA GiveIsSound ==
  ASSUME ClientInv, NEW c \in Ctl, NEW m \in Commands[c], Give(c, m)
  PROVE  ClientInv'
<1> USE DEF ClientInv
<1>1. /\ call' = [call EXCEPT ![c] = Attempt(m, 1)]
      /\ report' = [report EXCEPT ![c] = "NONE"]
      /\ effects' = [effects EXCEPT ![c] = 0]
      /\ strayed' = [strayed EXCEPT ![c] = {}]
      /\ broken' = [broken EXCEPT ![c] = 0]
      /\ commands' = commands + 1 /\ commands < MaxCommands
      /\ UNCHANGED daemonVars /\ UNCHANGED tailVars /\ UNCHANGED breaks
  BY DEF Give
<1>2. m \in Command /\ c \in Client /\ 1 \in 1..MAX_ATTEMPTS
  BY ClientAssumption DEF Client
<1>3. Attempt(m, 1) \in CallRecord
  BY <1>2, CallFacts
<1>4. /\ call' \in [Client -> CallRecord] /\ call'[c] = Attempt(m, 1)
      /\ \A b \in Client : b # c => call'[b] = call[b]
  BY <1>1, <1>2, <1>3, OneCall
<1>5. /\ report \in [Ctl -> {"NONE", "DONE", "REJECTED", "UNREACHABLE"}]
      /\ effects \in [Ctl -> Nat] /\ broken \in [Ctl -> Nat]
      /\ strayed \in [Ctl -> SUBSET (Name \X Name)]
      /\ commands' \in 0..MaxCommands /\ breaks \in 0..MaxBreaks
  BY <1>1, ClientAssumption DEF TypeOK
<1>6. TypeOK'
  BY <1>1, <1>4, <1>5, TypesKept
<1>7. /\ report'[c] = "NONE" /\ effects'[c] = 0 /\ broken'[c] = 0
      /\ \A b \in Ctl : b # c => /\ report'[b] = report[b] /\ effects'[b] = effects[b]
                                 /\ broken'[b] = broken[b]
  BY <1>1, <1>5
<1>8. CallOf(c)' /\ ReportOf(c)'
  BY <1>2, <1>4, <1>7, IdleFacts DEF CallOf, ReportOf, Running
<1>9. CallInv' /\ call'[Follower] = call[Follower]
  BY <1>4, <1>7, <1>8, OthersKept
<1>10. seq' \in Nat /\ seq <= seq' /\ UNCHANGED boot
  BY <1>1 DEF TypeOK, daemonVars
<1>11. TailInv'
  BY <1>1, <1>9, <1>10, TailKept
<1>12. RingInv'
  BY <1>1 DEF RingInv, daemonVars
<1>. QED  BY <1>6, <1>9, <1>11, <1>12

\* The daemon handles a command: the effect, the answer and the lines logged.
LEMMA HandleIsSound ==
  ASSUME ClientInv, NEW c \in Ctl, HandleCommand(c)
  PROVE  ClientInv'
<1> USE DEF ClientInv
<1>1. call[c].state = "SENT" /\ c \in Client /\ call[c] \in CallRecord
  BY DEF HandleCommand, Client, TypeOK, CallRecord
<1>2. /\ call[c].cmd \in Command /\ report[c] = "NONE" /\ effects[c] <= broken[c]
      /\ call[c].attempt = broken[c] + 1
  BY <1>1 DEF CallInv, CallOf, Running
<1>3. PICK a \in Answers(call[c].cmd) :
        /\ entry' = a.entry /\ importing' = a.importing
        /\ ring' = Logged(ring, seq, a.lines) /\ seq' = seq + a.lines
        /\ effects' = [effects EXCEPT ![c] = IF a.done THEN @ + 1 ELSE @]
        /\ strayed' = [strayed EXCEPT
                         ![c] = IF a.done THEN @
                                ELSE @ \cup {<<call[c].cmd.name, n>> :
                                               n \in {x \in Name : a.entry[x] # entry[x]}}]
        /\ call' = [call EXCEPT ![c].state = "ANSWERED",
                                ![c].reply = [NoReply EXCEPT !.status = a.status]]
  BY DEF HandleCommand
<1>4. UNCHANGED <<boot, report, broken, tailVars, commands, breaks>>
  BY DEF HandleCommand
<1>5. IsAnswer(a)
  BY <1>2, AnswerFacts
<1>6. /\ a.entry \in [Name -> Digest \cup {None}] /\ a.importing \in BOOLEAN
      /\ a.lines \in 0..2 /\ a.status \in Statuses
      /\ IF a.status \in 200..299 THEN a.done = TRUE ELSE a.done = FALSE
  BY <1>5 DEF IsAnswer
<1> DEFINE q == [NoReply EXCEPT !.status = a.status]
           r == [call[c] EXCEPT !.state = "ANSWERED", !.reply = q]
<1>7. q \in Reply /\ q.status = a.status
  BY <1>6 DEF NoReply, Reply, Statuses
<1> HIDE DEF q
<1>8. /\ r \in CallRecord /\ r.state = "ANSWERED" /\ r.reply = q
      /\ r.cmd = call[c].cmd /\ r.attempt = call[c].attempt
  BY <1>1, <1>7 DEF CallRecord
<1>9. call' = [call EXCEPT ![c] = r]
  BY <1>1, <1>3 DEF TypeOK, q
<1> HIDE DEF r
<1>10. /\ call' \in [Client -> CallRecord] /\ call'[c] = r
       /\ \A b \in Client : b # c => call'[b] = call[b]
  BY <1>1, <1>8, <1>9, OneCall
<1>11. effects \in [Ctl -> Nat] /\ broken \in [Ctl -> Nat] /\ effects[c] \in Nat /\ broken[c] \in Nat
  BY DEF TypeOK
<1>12. /\ effects' \in [Ctl -> Nat]
       /\ effects'[c] = IF a.status \in 200..299 THEN effects[c] + 1 ELSE effects[c]
       /\ \A b \in Ctl : b # c => effects'[b] = effects[b]
  <2>1. CASE a.status \in 200..299
    BY <1>3, <1>6, <1>11, <2>1
  <2>2. CASE a.status \notin 200..299
    BY <1>3, <1>6, <1>11, <2>2
  <2>. QED  BY <2>1, <2>2
<1>12a. strayed' \in [Ctl -> SUBSET (Name \X Name)]
  <2> DEFINE X == {x \in Name : a.entry[x] # entry[x]}
             P == {<<call[c].cmd.name, n>> : n \in X}
  <2>1. strayed \in [Ctl -> SUBSET (Name \X Name)]
    BY DEF TypeOK
  <2>2. strayed' = [strayed EXCEPT ![c] = IF a.done THEN @ ELSE @ \cup P]
    BY <1>3
  <2>3. ~a.done => \A x \in X : call[c].cmd.name \in Name
    BY <1>2, RefusalFacts
  <2> HIDE DEF X
  <2>4. ~a.done => P \subseteq Name \X Name
    BY <2>3 DEF X
  <2> HIDE DEF P
  <2>5. CASE a.done
    BY <2>1, <2>2, <2>5
  <2>6. CASE ~a.done
    BY <2>1, <2>2, <2>4, <2>6
  <2>. QED  BY <2>5, <2>6
<1>13. seq \in Nat \ {0} /\ seq' \in Nat \ {0} /\ seq <= seq'
  <2>1. seq \in Nat \ {0}
    BY DEF TypeOK
  <2>. QED  BY <1>3, <1>6, <2>1
<1>14. ring' \in [0..LOG_RING - 1 -> Nat] /\ Holds(ring', seq')
  <2>1. ring \in [0..LOG_RING - 1 -> Nat] /\ seq \in Nat /\ Holds(ring, seq)
    BY DEF TypeOK, RingInv
  <2>2. /\ Logged(ring, seq, a.lines) \in [0..LOG_RING - 1 -> Nat]
        /\ Holds(Logged(ring, seq, a.lines), seq + a.lines)
    BY <1>6, <2>1, LoggedFacts
  <2>. QED  BY <1>3, <2>2
<1>15. TypeOK'
  BY <1>3, <1>4, <1>6, <1>10, <1>12, <1>12a, <1>13, <1>14 DEF TypeOK, tailVars, CallRecord
<1>16. CallOf(c)' /\ ReportOf(c)'
  BY <1>2, <1>4, <1>7, <1>8, <1>10, <1>11, <1>12 DEF CallOf, ReportOf, Running
<1>17. CallInv' /\ call'[Follower] = call[Follower]
  BY <1>4, <1>10, <1>12, <1>16, OthersKept
<1>18. TailInv'
  BY <1>4, <1>13, <1>17, TailKept
<1>. QED  BY <1>14, <1>15, <1>17, <1>18 DEF RingInv

\* An attempt is lost: it is counted, and the command is sent again or given up.
LEMMA BreakIsSound ==
  ASSUME ClientInv, NEW c \in Ctl, Retry(c) \/ GiveUp(c)
  PROVE  ClientInv'
<1> USE DEF ClientInv
<1>1. /\ Running(c) /\ c \in Client /\ call[c] \in CallRecord /\ breaks' \in 0..MaxBreaks
      /\ UNCHANGED daemonVars /\ UNCHANGED tailVars /\ UNCHANGED commands /\ UNCHANGED effects
      /\ UNCHANGED strayed
  BY ClientAssumption
     DEF Retry, GiveUp, Breaks, Running, Client, TypeOK, CallRecord
<1>2. /\ call[c].cmd \in Command /\ report[c] = "NONE" /\ effects[c] <= broken[c] + 1
      /\ call[c].attempt = broken[c] + 1
  <2>1. effects[c] \in Nat /\ broken[c] \in Nat
    BY DEF TypeOK
  <2>. QED  BY <1>1, <2>1 DEF CallInv, CallOf, Running
<1>3. /\ report \in [Ctl -> {"NONE", "DONE", "REJECTED", "UNREACHABLE"}]
      /\ effects \in [Ctl -> Nat] /\ broken \in [Ctl -> Nat] /\ effects[c] \in Nat
      /\ strayed \in [Ctl -> SUBSET (Name \X Name)]
      /\ broken[c] \in Nat /\ commands \in 0..MaxCommands
      /\ call[c].attempt \in 0..MAX_ATTEMPTS /\ MAX_ATTEMPTS \in Nat
  BY <1>1, ClientAssumption DEF TypeOK, CallRecord
<1>4. broken' = [broken EXCEPT ![c] = broken[c] + 1]
  BY <1>3 DEF Retry, GiveUp
<1>5. /\ broken' \in [Ctl -> Nat] /\ broken'[c] = broken[c] + 1
      /\ \A b \in Ctl : b # c => broken'[b] = broken[b]
  BY <1>3, <1>4
<1>6. CASE Retry(c)
  <2> DEFINE r == Attempt(call[c].cmd, call[c].attempt + 1)
  <2>1. /\ call' = [call EXCEPT ![c] = r] /\ UNCHANGED report
        /\ Retries(call[c].cmd) /\ call[c].attempt < MAX_ATTEMPTS
    BY <1>6 DEF Retry, MayRetry
  <2>2. call[c].attempt + 1 \in 1..MAX_ATTEMPTS
    BY <1>3, <2>1
  <2>3. r \in CallRecord
    BY <1>2, <2>2, CallFacts
  <2>4. r.state = "SENT" /\ r.cmd = call[c].cmd /\ r.attempt = call[c].attempt + 1
    BY IdleFacts
  <2> HIDE DEF r
  <2>5. /\ call' \in [Client -> CallRecord] /\ call'[c] = r
        /\ \A b \in Client : b # c => call'[b] = call[b]
    BY <1>1, <2>1, <2>3, OneCall
  <2>6. TypeOK'
    BY <1>1, <1>3, <1>5, <2>1, <2>5, TypesKept
  <2>7. CallOf(c)' /\ ReportOf(c)'
    BY <1>1, <1>2, <1>3, <1>5, <2>1, <2>4, <2>5 DEF CallOf, ReportOf, Running
  <2>8. CallInv' /\ call'[Follower] = call[Follower]
    BY <1>1, <1>5, <2>1, <2>5, <2>7, OthersKept
  <2>9. seq' \in Nat /\ seq <= seq' /\ UNCHANGED boot
    BY <1>1 DEF TypeOK, daemonVars
  <2>10. TailInv' /\ RingInv'
    BY <1>1, <2>8, <2>9, TailKept DEF RingInv, daemonVars
  <2>. QED  BY <2>6, <2>8, <2>10
<1>7. CASE GiveUp(c)
  <2>1. call' = [call EXCEPT ![c] = Idle] /\ report' = [report EXCEPT ![c] = "UNREACHABLE"]
    BY <1>7 DEF GiveUp
  <2>2. /\ call' \in [Client -> CallRecord] /\ call'[c] = Idle
        /\ \A b \in Client : b # c => call'[b] = call[b]
    BY <1>1, <2>1, CallFacts, OneCall
  <2>3. /\ report' \in [Ctl -> {"NONE", "DONE", "REJECTED", "UNREACHABLE"}]
        /\ report'[c] = "UNREACHABLE" /\ \A b \in Ctl : b # c => report'[b] = report[b]
    BY <1>3, <2>1
  <2>4. TypeOK'
    BY <1>1, <1>3, <1>5, <2>2, <2>3, TypesKept
  <2>5. CallOf(c)' /\ ReportOf(c)'
    BY <1>1, <1>2, <1>3, <1>5, <2>2, <2>3, IdleFacts DEF CallOf, ReportOf, Running
  <2>6. CallInv' /\ call'[Follower] = call[Follower]
    BY <1>1, <1>5, <2>2, <2>3, <2>5, OthersKept
  <2>7. seq' \in Nat /\ seq <= seq' /\ UNCHANGED boot
    BY <1>1 DEF TypeOK, daemonVars
  <2>8. TailInv' /\ RingInv'
    BY <1>1, <2>6, <2>7, TailKept DEF RingInv, daemonVars
  <2>. QED  BY <2>4, <2>6, <2>8
<1>. QED  BY <1>6, <1>7

\* emit(): the status is the report.
LEMMA FinishIsSound ==
  ASSUME ClientInv, NEW c \in Ctl, Finish(c)
  PROVE  ClientInv'
<1> USE DEF ClientInv
<1>1. /\ call[c].state = "ANSWERED" /\ c \in Client
      /\ call' = [call EXCEPT ![c] = Idle]
      /\ report' = [report EXCEPT
                      ![c] = IF call[c].reply.status \in 200..299 THEN "DONE" ELSE "REJECTED"]
      /\ UNCHANGED daemonVars /\ UNCHANGED tailVars
      /\ UNCHANGED effects /\ UNCHANGED strayed /\ UNCHANGED broken
      /\ UNCHANGED commands /\ UNCHANGED breaks
  BY DEF Finish, Client
<1>2. /\ report \in [Ctl -> {"NONE", "DONE", "REJECTED", "UNREACHABLE"}]
      /\ effects \in [Ctl -> Nat] /\ broken \in [Ctl -> Nat]
      /\ strayed \in [Ctl -> SUBSET (Name \X Name)]
      /\ commands \in 0..MaxCommands /\ breaks \in 0..MaxBreaks
  BY DEF TypeOK
<1>3. /\ call' \in [Client -> CallRecord] /\ call'[c] = Idle
      /\ \A b \in Client : b # c => call'[b] = call[b]
  BY <1>1, CallFacts, OneCall
<1>4. /\ report' \in [Ctl -> {"NONE", "DONE", "REJECTED", "UNREACHABLE"}]
      /\ report'[c] = IF call[c].reply.status \in 200..299 THEN "DONE" ELSE "REJECTED"
      /\ \A b \in Ctl : b # c => report'[b] = report[b]
  BY <1>1, <1>2
<1>5. TypeOK'
  BY <1>1, <1>2, <1>3, <1>4, TypesKept
<1>6. IF call[c].reply.status \in 200..299 THEN effects[c] \in 1..broken[c] + 1
      ELSE effects[c] <= broken[c]
  BY <1>1 DEF CallInv, CallOf
<1>7. CallOf(c)' /\ ReportOf(c)'
  BY <1>1, <1>3, <1>4, <1>6, IdleFacts DEF CallOf, ReportOf, Running
<1>8. CallInv' /\ call'[Follower] = call[Follower]
  BY <1>1, <1>3, <1>4, <1>7, OthersKept
<1>9. seq' \in Nat /\ seq <= seq' /\ UNCHANGED boot
  BY <1>1 DEF TypeOK, daemonVars
<1>10. TailInv' /\ RingInv'
  BY <1>1, <1>8, <1>9, TailKept DEF RingInv, daemonVars
<1>. QED  BY <1>5, <1>8, <1>10

-----------------------------------------------------------------------------
(***************************************************************************)
(* The follower and the daemon it follows.                                 *)
(***************************************************************************)

\* A step of the follower's request changes no command's.
LEMMA FollowerStep ==
  ASSUME TypeOK, CallInv, NEW r \in CallRecord, call' = [call EXCEPT ![Follower] = r],
         UNCHANGED ctlVars
  PROVE  CallInv' /\ call' \in [Client -> CallRecord] /\ call'[Follower] = r
<1>1. Follower \in Client /\ \A b \in Ctl : b \in Client /\ b # Follower
  BY ClientAssumption DEF Client
<1>2. /\ call' \in [Client -> CallRecord] /\ call'[Follower] = r
      /\ \A b \in Client : b # Follower => call'[b] = call[b]
  BY <1>1, OneCall
<1>. QED  BY <1>1, <1>2, CommandsKept

\* The follower's request is sent, sent again or given up: there is no answer
\* to it yet, and the cursor stays.
LEMMA AskIsSound ==
  ASSUME ClientInv, Poll \/ Retry(Follower) \/ Stop
  PROVE  ClientInv'
<1> USE DEF ClientInv
<1>1. /\ UNCHANGED daemonVars /\ UNCHANGED tailVars /\ UNCHANGED commands
      /\ breaks' \in 0..MaxBreaks
  <2>1. breaks \in 0..MaxBreaks /\ MaxBreaks \in Nat
    BY ClientAssumption DEF TypeOK
  <2>. QED  BY <2>1 DEF Poll, Retry, Stop, Breaks
<1>2. UNCHANGED ctlVars
  <2>1. CASE Retry(Follower)
    <3>1. broken' = [b \in Ctl |-> broken[b]]
      BY <2>1, ClientAssumption DEF Retry
    <3>2. broken = [b \in Ctl |-> broken[b]]
      BY DEF TypeOK
    <3>. QED  BY <2>1, <3>1, <3>2 DEF Retry, ctlVars
  <2>. QED  BY <2>1 DEF Poll, Stop
<1>3. PICK r \in CallRecord : call' = [call EXCEPT ![Follower] = r] /\ r.state # "ANSWERED"
  <2>0. call[Follower] \in CallRecord /\ 1 \in 1..MAX_ATTEMPTS /\ MAX_ATTEMPTS \in Nat
    BY ClientAssumption DEF TypeOK, Client, CallRecord
  <2>1. CASE Poll
    <3>1. Attempt(NoCommand, 1) \in CallRecord /\ Attempt(NoCommand, 1).state = "SENT"
      BY <2>0, CallFacts, IdleFacts
    <3>. QED  BY <2>1, <3>1 DEF Poll
  <2>2. CASE Retry(Follower)
    <3> DEFINE q == Attempt(call[Follower].cmd, call[Follower].attempt + 1)
    <3>1. call[Follower].attempt + 1 \in 1..MAX_ATTEMPTS /\ call[Follower].cmd \in Command \cup {NoCommand}
      BY <2>0, <2>2 DEF Retry, MayRetry, CallRecord
    <3>2. q \in CallRecord /\ q.state = "SENT"
      BY <3>1, CallFacts, IdleFacts
    <3>3. call' = [call EXCEPT ![Follower] = q]
      BY <2>2 DEF Retry
    <3> HIDE DEF q
    <3>. QED  BY <3>2, <3>3
  <2>3. CASE Stop
    <3> DEFINE q == [Idle EXCEPT !.state = "STOPPED"]
    <3>1. q \in CallRecord /\ q.state = "STOPPED"
      BY CallFacts DEF Idle
    <3>2. call' = [call EXCEPT ![Follower] = q]
      BY <2>3 DEF Stop
    <3> HIDE DEF q
    <3>. QED  BY <3>1, <3>2
  <2>. QED  BY <2>1, <2>2, <2>3
<1>4. CallInv' /\ call' \in [Client -> CallRecord] /\ call'[Follower] = r
  BY <1>2, <1>3, FollowerStep
<1>5. TypeOK'
  BY <1>1, <1>2, <1>4, TypesKept DEF TypeOK, ctlVars
<1>6. TailInv'
  BY <1>1, <1>3, <1>4
     DEF TailInv, ReplyInv, CursorInv, NothingMissed, NothingRepeated, tailVars, daemonVars
<1>7. RingInv'
  BY <1>1 DEF RingInv, daemonVars
<1>. QED  BY <1>4, <1>5, <1>6, <1>7

\* api_log(): the answer has every line after the cursor that the ring holds.
LEMMA HandleLogIsSound ==
  ASSUME ClientInv, HandleLog
  PROVE  ClientInv'
<1> USE DEF ClientInv
<1> DEFINE q == [status |-> 200, boot |-> boot, seq |-> seq, entries |-> Entries(after)]
           r == [call[Follower] EXCEPT !.state = "ANSWERED", !.reply = q]
<1>1. /\ UNCHANGED daemonVars /\ UNCHANGED tailVars /\ UNCHANGED ctlVars
      /\ UNCHANGED commands /\ UNCHANGED breaks
  BY DEF HandleLog
<1>2. /\ seq \in Nat \ {0} /\ after \in Nat /\ boot \in Nat /\ boot \in 1..boot /\ LOG_RING \in Nat \ {0}
      /\ call[Follower] \in CallRecord /\ from \in Nat
  BY ClientAssumption DEF TypeOK, CallRecord, Client
<1>3. /\ \A i \in Entries(after) : i \in Nat /\ after < i /\ i <= seq
      /\ \A i \in 1..seq : after < i => i \in Entries(after) \/ i <= seq - LOG_RING
  <2> DEFINE lo == IF after < Oldest THEN Oldest ELSE after
  <2>1. /\ lo \in Nat /\ after <= lo
        /\ \A i \in 1..seq : after < i /\ ~(i <= seq - LOG_RING) => lo < i
    BY <1>2 DEF Oldest
  <2>2. Entries(after) = {i \in lo + 1..seq : ring[(i - 1) % LOG_RING] = i}
    BY DEF Entries
  <2> HIDE DEF lo
  <2>3. \A i \in Entries(after) : i \in Nat /\ after < i /\ i <= seq
    BY <1>2, <2>1, <2>2
  <2>4. ASSUME NEW i \in 1..seq, after < i, ~(i <= seq - LOG_RING)  PROVE i \in Entries(after)
    <3>1. i \in lo + 1..seq
      BY <1>2, <2>1, <2>4
    <3>2. i > seq - LOG_RING
      BY <1>2, <2>4
    <3>3. ring[(i - 1) % LOG_RING] = i
      BY <3>2 DEF RingInv, Holds
    <3>. QED  BY <2>2, <3>1, <3>3
  <2>. QED  BY <2>3, <2>4
<1>4. q \in Reply /\ q.boot = boot /\ q.seq = seq /\ q.entries = Entries(after)
  BY <1>2, <1>3 DEF Reply
<1> HIDE DEF q
<1>5. r \in CallRecord /\ r.state = "ANSWERED" /\ r.reply = q
  BY <1>2, <1>4 DEF CallRecord
<1>6. call' = [call EXCEPT ![Follower] = r]
  BY ClientAssumption DEF HandleLog, TypeOK, Client, q
<1> HIDE DEF r
<1>7. CallInv' /\ call' \in [Client -> CallRecord] /\ call'[Follower] = r
  BY <1>1, <1>5, <1>6, FollowerStep
<1>8. TypeOK'
  BY <1>1, <1>7, TypesKept DEF TypeOK, ctlVars
<1>9. ReplyInv'
  <2>1. UNCHANGED <<boot, seq, from, after>>
    BY <1>1 DEF daemonVars, tailVars
  <2>2. from <= boot /\ (from = boot => after <= seq)
    BY DEF TailInv, CursorInv
  <2>. QED  BY <1>2, <1>3, <1>4, <1>5, <1>7, <2>1, <2>2 DEF ReplyInv
<1>10. (CursorInv /\ NothingMissed /\ NothingRepeated /\ RingInv)'
  BY <1>1 DEF TailInv, CursorInv, NothingMissed, NothingRepeated, RingInv, tailVars, daemonVars
<1>. QED  BY <1>7, <1>8, <1>9, <1>10 DEF TailInv

\* A whole answer is printed: nothing of it was printed before, and with it
\* everything up to the new cursor has been.
LEMMA ShowIsSound ==
  ASSUME ClientInv, Show
  PROVE  ClientInv'
<1> USE DEF ClientInv
<1> DEFINE r == call[Follower].reply
           new == {<<r.boot, i>> : i \in r.entries}
<1>1. /\ call[Follower].state = "ANSWERED" /\ call' = [call EXCEPT ![Follower] = Idle]
      /\ shown' = shown \cup new
      /\ repeated' = (repeated \/ new \cap shown # {})
      /\ after' = r.seq /\ from' = r.boot
      /\ skipped' = IF r.boot = from THEN skipped ELSE IF r.seq < after THEN r.seq ELSE after
      /\ UNCHANGED daemonVars /\ UNCHANGED ctlVars
      /\ UNCHANGED cut /\ UNCHANGED commands /\ UNCHANGED breaks
  BY DEF Show, Cursor
<1>2. /\ r \in Reply /\ seq \in Nat /\ after \in Nat /\ boot \in 1..MaxBoots
      /\ from \in Nat /\ skipped \in Nat /\ shown \subseteq (1..MaxBoots) \X Nat /\ MaxBoots \in Nat
  BY ClientAssumption DEF TypeOK, Client
<1>3. r.boot \in Nat /\ r.seq \in Nat /\ r.entries \in SUBSET Nat
  BY <1>2 DEF Reply
<1>4. /\ r.boot \in 1..boot /\ from <= r.boot
      /\ r.boot = boot =>
           /\ r.seq <= seq
           /\ \A i \in 1..r.seq : i > after => i \in r.entries \/ i <= seq - LOG_RING
      /\ r.boot = from => after <= r.seq
      /\ \A i \in r.entries : after < i /\ i <= r.seq
  BY <1>1 DEF TailInv, ReplyInv
<1>5. CallInv' /\ call' \in [Client -> CallRecord] /\ call'[Follower] = Idle
  BY <1>1, CallFacts, FollowerStep
<1> HIDE DEF r
<1>6. \A e : e \in new <=> \E i \in r.entries : e = <<r.boot, i>>
  OBVIOUS
<1>7. \A e \in new : /\ e \in (1..MaxBoots) \X Nat /\ e[1] = r.boot
                     /\ e[2] \in r.entries
  BY <1>2, <1>3, <1>4
<1>8. \A i \in r.entries : <<r.boot, i>> \in new
  OBVIOUS
<1> HIDE DEF new
<1>9. UNCHANGED <<entry, importing, boot, seq, ring, report, effects, strayed, broken>>
  BY <1>1 DEF daemonVars, ctlVars
<1>10. repeated' \in BOOLEAN
  BY <1>1
<1>11. shown' \in SUBSET ((1..MaxBoots) \X Nat)
  BY <1>1, <1>2, <1>7
<1>12. after' \in Nat /\ from' \in 0..MaxBoots /\ skipped' \in Nat
  BY <1>1, <1>2, <1>3, <1>4
<1>13. TypeOK'
  BY <1>1, <1>5, <1>9, <1>10, <1>11, <1>12 DEF TypeOK, CallRecord
<1>14. ReplyInv'
  BY <1>5, IdleFacts DEF ReplyInv
<1>15. CursorInv'
  <2>1. from' <= boot' /\ (from' = boot' => after' <= seq')
    BY <1>1, <1>2, <1>3, <1>4, <1>9
  <2>2. ASSUME NEW e \in shown'  PROVE e[1] <= from' /\ (~cut' /\ e[1] = from' => e[2] <= after')
    <3>1. CASE e \in new
      BY <1>1, <1>3, <1>4, <1>7, <3>1
    <3>2. CASE e \in shown
      <4>1. e[1] \in Nat /\ e[2] \in Nat
        BY <1>2, <3>2
      <4>2. e[1] <= from /\ (~cut /\ e[1] = from => e[2] <= after)
        BY <3>2 DEF TailInv, CursorInv
      <4>3. e[1] <= r.boot /\ (e[1] = r.boot => e[1] = from /\ r.boot = from)
        BY <1>2, <1>3, <1>4, <4>1, <4>2
      <4>4. ~cut /\ e[1] = r.boot => e[2] <= r.seq
        BY <1>2, <1>3, <1>4, <4>1, <4>2, <4>3
      <4>. QED  BY <1>1, <4>3, <4>4
    <3>. QED  BY <1>1, <2>2, <3>1, <3>2
  <2>. QED  BY <2>1, <2>2 DEF CursorInv
<1>16. NothingMissed'
  <2> SUFFICES ASSUME r.boot = boot, NEW i \in 1..r.seq
               PROVE  <<boot, i>> \in shown' \/ i <= seq - LOG_RING \/ i <= skipped'
    BY <1>1, <1>9 DEF NothingMissed
  <2>1. i \in Nat /\ 1 <= i /\ i <= r.seq
    BY <1>3
  <2>2. CASE i > after
    BY <1>1, <1>4, <1>8, <2>2
  <2>3. CASE i <= after /\ from = boot
    <3>1. i \in 1..after
      BY <1>2, <2>1, <2>3
    <3>2. <<boot, i>> \in shown \/ i <= seq - LOG_RING \/ i <= skipped
      BY <2>3, <3>1 DEF TailInv, NothingMissed
    <3>3. skipped' = skipped
      BY <1>1, <2>3
    <3>. QED  BY <1>1, <3>2, <3>3
  <2>4. CASE i <= after /\ from # boot
    <3>1. skipped' = IF r.seq < after THEN r.seq ELSE after
      BY <1>1, <2>4
    <3>. QED  BY <2>1, <2>4, <3>1
  <2>. QED  BY <1>2, <2>1, <2>2, <2>3, <2>4
<1>17. NothingRepeated'
  <2>1. ASSUME ~cut, NEW e \in new, e \in shown  PROVE FALSE
    <3>1. e[1] = r.boot /\ e[2] \in Nat /\ after < e[2]
      BY <1>3, <1>4, <1>7
    <3>2. e[1] <= from /\ (e[1] = from => e[2] <= after)
      BY <2>1 DEF TailInv, CursorInv
    <3>3. e[1] = from
      BY <1>2, <1>3, <1>4, <3>1, <3>2
    <3>. QED  BY <1>2, <3>1, <3>2, <3>3
  <2>2. ~cut => new \cap shown = {}
    BY <2>1
  <2>. QED  BY <1>1, <2>2 DEF TailInv, NothingRepeated
<1>18. RingInv'
  BY <1>9 DEF RingInv
<1>. QED  BY <1>5, <1>13, <1>14, <1>15, <1>16, <1>17, <1>18 DEF TailInv

\* An answer that is cut short puts the cursor back to 0.
LEMMA ShowCutIsSound ==
  ASSUME ClientInv, ShowCut
  PROVE  ClientInv'
<1> USE DEF ClientInv
<1>1. /\ call' = [call EXCEPT ![Follower] = Idle]
      /\ after' = 0 /\ skipped' = 0 /\ cut' = TRUE
      /\ UNCHANGED <<entry, importing, boot, seq, ring, report, effects, strayed, broken, shown,
                     repeated, from, commands>>
      /\ UNCHANGED ctlVars /\ breaks' \in 0..MaxBreaks
  BY ClientAssumption DEF ShowCut, daemonVars, ctlVars, Breaks, TypeOK
<1>2. CallInv' /\ call' \in [Client -> CallRecord] /\ call'[Follower] = Idle
  BY <1>1, CallFacts, FollowerStep
<1>3. TypeOK'
  BY <1>1, <1>2 DEF TypeOK, CallRecord
<1>4. ReplyInv'
  BY <1>2, IdleFacts DEF ReplyInv
<1>5. CursorInv'
  BY <1>1 DEF TailInv, CursorInv, TypeOK
<1>6. NothingMissed' /\ NothingRepeated' /\ RingInv'
  BY <1>1 DEF NothingMissed, NothingRepeated, RingInv
<1>. QED  BY <1>2, <1>3, <1>4, <1>5, <1>6 DEF TailInv

\* A restart: whatever the follower knows is about an earlier daemon.
LEMMA RestartIsSound ==
  ASSUME ClientInv, Restart
  PROVE  ClientInv'
<1> USE DEF ClientInv
<1>1. /\ boot < MaxBoots /\ boot' = boot + 1 /\ importing' = FALSE /\ seq' = 1
      /\ ring' = Logged(EmptyRing, 0, 1)
      /\ UNCHANGED <<entry, call, report, effects, strayed, broken, after, shown, repeated, from,
                     skipped, cut, commands, breaks>>
  BY DEF Restart, ctlVars, tailVars
<1>2. boot \in 1..MaxBoots /\ MaxBoots \in Nat /\ from \in Nat /\ call[Follower].reply \in Reply
  BY ClientAssumption DEF TypeOK, Client
<1>3. boot' \in 1..MaxBoots /\ \A b \in Nat : b <= boot => b <= boot' /\ b # boot'
  BY <1>1, <1>2
<1>4. TypeOK'
  <2>1. ring' \in [0..LOG_RING - 1 -> Nat]
    BY <1>1, FreshRing
  <2>2. seq' \in Nat \ {0}
    BY <1>1
  <2>3. importing' \in BOOLEAN
    BY <1>1
  <2>. QED  BY <1>1, <1>3, <2>1, <2>2, <2>3 DEF TypeOK
<1>5. CallInv'
  BY <1>1, CommandsKept DEF ctlVars
<1>6. RingInv'
  BY <1>1, FreshRing DEF RingInv
<1>7. from <= boot' /\ from # boot'
  BY <1>2, <1>3 DEF TailInv, CursorInv
<1>8. CursorInv' /\ NothingMissed' /\ NothingRepeated'
  BY <1>1, <1>7 DEF TailInv, CursorInv, NothingMissed, NothingRepeated
<1>9. ReplyInv'
  <2> DEFINE r == call[Follower].reply
  <2>1. call[Follower].state = "ANSWERED" =>
          /\ r.boot \in 1..boot /\ from <= r.boot
          /\ r.boot = from => after <= r.seq
          /\ \A i \in r.entries : after < i /\ i <= r.seq
    BY DEF TailInv, ReplyInv
  <2>2. r.boot \in 1..boot => r.boot \in 1..boot' /\ r.boot # boot'
    BY <1>1, <1>2
  <2>3. UNCHANGED <<call, from, after>>
    BY <1>1
  <2> SUFFICES ASSUME call[Follower].state = "ANSWERED"
      PROVE /\ r.boot \in 1..boot' /\ from <= r.boot
            /\ r.boot # boot'
            /\ r.boot = from => after <= r.seq
            /\ \A i \in r.entries : after < i /\ i <= r.seq
    BY <2>3 DEF ReplyInv
  <2> HIDE DEF r
  <2>. QED  BY <2>1, <2>2
<1>. QED  BY <1>4, <1>5, <1>6, <1>8, <1>9 DEF TailInv

-----------------------------------------------------------------------------
\* Every step keeps the invariant.
LEMMA StepKeepsClientInv ==
  ASSUME ClientInv, [Next]_vars
  PROVE  ClientInv'
<1>1. ASSUME NEW c \in Ctl, NEW m \in Commands[c], Give(c, m)  PROVE ClientInv'
  BY <1>1, GiveIsSound
<1>2. ASSUME NEW c \in Ctl, HandleCommand(c) \/ GiveUp(c) \/ Finish(c)  PROVE ClientInv'
  BY <1>2, HandleIsSound, BreakIsSound, FinishIsSound
<1>3. ASSUME NEW c \in Client, Retry(c)  PROVE ClientInv'
  BY <1>3, BreakIsSound, AskIsSound DEF Client
<1>4. CASE Poll \/ Stop
  BY <1>4, AskIsSound
<1>5. CASE HandleLog
  BY <1>5, HandleLogIsSound
<1>6. CASE Show
  BY <1>6, ShowIsSound
<1>7. CASE ShowCut
  BY <1>7, ShowCutIsSound
<1>8. CASE ImportEnds \/ UNCHANGED vars
  <2>1. /\ importing' \in BOOLEAN
        /\ UNCHANGED <<entry, boot, seq, ring, call, ctlVars, tailVars, commands, breaks>>
    BY <1>8 DEF ImportEnds, vars, daemonVars, ClientInv, TypeOK
  <2>2. TypeOK'
    BY <2>1 DEF ClientInv, TypeOK, ctlVars, tailVars
  <2>3. CallInv' /\ TailInv' /\ RingInv'
    <3>1. seq' \in Nat /\ seq <= seq'
      BY <2>1 DEF ClientInv, TypeOK
    <3>. QED  BY <2>1, <3>1, CommandsKept, TailKept DEF ClientInv, RingInv
  <2>. QED  BY <2>2, <2>3 DEF ClientInv
<1>9. CASE Restart
  BY <1>9, RestartIsSound
<1>. QED  BY <1>1, <1>2, <1>3, <1>4, <1>5, <1>6, <1>7, <1>8, <1>9 DEF Next

\* At the start no command is under way and nothing is printed.
LEMMA StartKeepsClientInv == Init => ClientInv
<1> SUFFICES ASSUME Init  PROVE ClientInv
  OBVIOUS
<1>1. call = [c \in Client |-> Idle] /\ \A c \in Client : call[c] = Idle
  BY DEF Init
<1>2. Follower \in Client /\ Ctl \subseteq Client
  BY DEF Client
<1>3. TypeOK
  <2>1. call \in [Client -> CallRecord]
    BY <1>1, CallFacts
  <2>2. 1 \in 1..MaxBoots /\ 0 \in 0..MaxBoots /\ 0 \in 0..MaxCommands /\ 0 \in 0..MaxBreaks
    BY ClientAssumption
  <2>3. ring \in [0..LOG_RING - 1 -> Nat]
    BY FreshRing DEF Init
  <2>4. entry \in [Name -> Digest \cup {None}]
    BY DEF Init
  <2>5. /\ report \in [Ctl -> {"NONE", "DONE", "REJECTED", "UNREACHABLE"}]
        /\ effects \in [Ctl -> Nat] /\ broken \in [Ctl -> Nat]
        /\ strayed \in [Ctl -> SUBSET (Name \X Name)]
    BY DEF Init
  <2>6. /\ seq \in Nat \ {0} /\ boot = 1
        /\ importing \in BOOLEAN
    <3>1. seq \in Nat \ {0} /\ boot = 1
      BY DEF Init
    <3>2. importing \in BOOLEAN
      BY DEF Init
    <3>. QED  BY <3>1, <3>2
  <2>7. /\ after \in Nat /\ from = 0 /\ skipped \in Nat
        /\ shown \in SUBSET ((1..MaxBoots) \X Nat)
        /\ repeated \in BOOLEAN /\ cut \in BOOLEAN /\ commands = 0 /\ breaks = 0
    BY DEF Init
  <2>. QED  BY <2>1, <2>2, <2>3, <2>4, <2>5, <2>6, <2>7 DEF TypeOK, CallRecord
<1>4. CallInv
  BY <1>1, <1>2, IdleFacts DEF Init, CallInv, CallOf, ReportOf, Running
<1>5. RingInv
  BY FreshRing DEF Init, RingInv
<1>6. TailInv
  BY <1>1, <1>2, IdleFacts
     DEF Init, TailInv, ReplyInv, CursorInv, NothingMissed, NothingRepeated
<1>. QED  BY <1>3, <1>4, <1>5, <1>6 DEF ClientInv

\* The invariant of the clients and the ring.
THEOREM ClientIsSound == Spec => []ClientInv
<1>1. ClientInv /\ [Next]_vars => ClientInv'
  BY StepKeepsClientInv
<1>. QED  BY <1>1, StartKeepsClientInv, PTL DEF Spec

\* What refused requests have changed (ReportIsTrue, the last part).
StrayInv == \A c \in Ctl : \A s \in strayed[c] : s[2] \in SignatureOf[s[1]]

LEMMA StepKeepsStrayInv ==
  ASSUME TypeOK, CallInv, StrayInv, [Next]_vars
  PROVE  StrayInv'
<1>0. strayed \in [Ctl -> SUBSET (Name \X Name)]
  BY DEF TypeOK
<1>1. ASSUME NEW c \in Ctl, NEW m \in Commands[c], Give(c, m)  PROVE StrayInv'
  BY <1>0, <1>1 DEF Give, StrayInv
<1>2. ASSUME NEW c \in Ctl, HandleCommand(c)  PROVE StrayInv'
  <2>1. call[c].cmd \in Command
    BY <1>2 DEF HandleCommand, CallInv, CallOf, Running
  <2>2. PICK a \in Answers(call[c].cmd) :
          strayed' = [strayed EXCEPT
                        ![c] = IF a.done THEN @
                               ELSE @ \cup {<<call[c].cmd.name, n>> :
                                              n \in {x \in Name : a.entry[x] # entry[x]}}]
    BY <1>2 DEF HandleCommand
  <2>3. ASSUME NEW s \in strayed'[c], s \notin strayed[c]  PROVE s[2] \in SignatureOf[s[1]]
    <3>1. ~a.done /\ \E n \in Name : a.entry[n] # entry[n] /\ s = <<call[c].cmd.name, n>>
      <4>1. CASE a.done
        BY <1>0, <2>2, <2>3, <4>1
      <4>2. CASE ~a.done
        BY <1>0, <2>2, <2>3, <4>2
      <4>. QED  BY <4>1, <4>2
    <3>2. PICK n \in Name : a.entry[n] # entry[n] /\ s = <<call[c].cmd.name, n>>
      BY <3>1
    <3>3. n \in SignatureOf[call[c].cmd.name]
      BY <2>1, <3>1, <3>2, RefusalFacts
    <3>. QED  BY <3>2, <3>3
  <2>4. \A b \in Ctl : b # c => strayed'[b] = strayed[b]
    BY <1>0, <2>2
  <2>. QED  BY <2>3, <2>4 DEF StrayInv
<1>3. CASE UNCHANGED strayed
  BY <1>3 DEF StrayInv
<1>4. ASSUME NEW c \in Client, GiveUp(c) \/ Finish(c) \/ Retry(c)  PROVE UNCHANGED strayed
  BY <1>4 DEF GiveUp, Finish, Retry
<1>5. CASE Poll \/ HandleLog \/ Show \/ ShowCut \/ Stop \/ ImportEnds \/ Restart \/ UNCHANGED vars
  BY <1>3, <1>5 DEF Poll, HandleLog, Show, ShowCut, Stop, ImportEnds, Restart, vars, ctlVars
<1>. QED  BY <1>1, <1>2, <1>3, <1>4, <1>5 DEF Next, Client

\* What cixcachectl reports is what the daemon did, whatever attempts were
\* lost (cix_client_request_with_auth, one_call(), emit()), and a refused request
\* has changed no artifact (store_unpublish()).
THEOREM ReportsAreTrue == Spec => [](TypeOK /\ ReportIsTrue)
<1>1. Init => StrayInv
  BY DEF Init, StrayInv
<1>2. ClientInv /\ StrayInv /\ [Next]_vars => StrayInv'
  BY StepKeepsStrayInv DEF ClientInv
<1>3. ClientInv /\ StrayInv => TypeOK /\ ReportIsTrue
  BY DEF ClientInv, CallInv, ReportOf, StrayInv, ReportIsTrue
<1>. QED  BY <1>1, <1>2, <1>3, ClientIsSound, PTL DEF Spec

\* `log -f` passes over no line that the ring still held, for any size of the
\* ring (server_log(), api_log(), cmd_log_follow()).
THEOREM FollowerIsFaithful == Spec => []NothingMissed
<1>1. ClientInv => NothingMissed
  BY DEF ClientInv, TailInv
<1>. QED  BY <1>1, ClientIsSound, PTL

\* `log -f` prints no line twice, whichever replies were lost and whatever the
\* ring dropped between two polls (cmd_log_follow()'s cursor).
THEOREM FollowerPrintsOnce == Spec => []NothingRepeated
<1>1. ClientInv => NothingRepeated
  BY DEF ClientInv, TailInv
<1>. QED  BY <1>1, ClientIsSound, PTL

=============================================================================
