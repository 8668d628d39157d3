--------------------------- MODULE FramingProofs ---------------------------
(***************************************************************************)
(* Requests are put together right for every cap, buffer size and request, *)
(* however the network cuts them up.                                       *)
(***************************************************************************)
EXTENDS Framing, TLAPS

\* While headers are expected, everything read is in the buffer, and neither
\* the blank line nor the cap has been reached.
HeadersInv ==
  state = "READ_REQUEST" =>
    /\ len = pos /\ headers_end = 0 /\ staged = 0 /\ status = 0
    /\ len < req.head /\ len <= HTTP_MAX_HEADERS

\* Once the body is expected, the headers were in order.
AcceptedInv ==
  state \in {"RECV_BODY", "HASHING"} =>
    /\ headers_end = req.head /\ req.head <= HTTP_MAX_HEADERS
    /\ HeaderStatus = 0 /\ status = 0
    /\ req.head <= len /\ len <= pos

\* What is staged: all that was read after the headers, or, once the body is
\* whole, the body or what shared a read with the headers.
BodyInv ==
  /\ state = "RECV_BODY" => staged = pos - req.head /\ staged < req.len
  /\ state = "HASHING" =>
       /\ req.len <= pos - req.head
       /\ staged = req.len \/ (staged = len - req.head /\ staged > req.len)

FramingInv ==
  TypeOK /\ HeadersInv /\ AcceptedInv /\ BodyInv /\ BufferIsBounded /\ SplitDoesNotMatter

\* The statuses begin_upload() and dispatch() give are those of the type.
LEMMA HeaderStatusType == HeaderStatus \in {0, 200, 400, 401, 409, 411, 413}
BY DEF HeaderStatus

\* The fields of a request.
LEMMA RequestFields ==
  ASSUME req \in Request
  PROVE  /\ req.head \in 1..MaxHead /\ req.sent \in 0..MaxHead + MaxSent
         /\ req.len \in Nat /\ req.len <= UPLOAD_MAX_BYTES + 1
         /\ req.honest \in BOOLEAN
BY FramingAssumption DEF Request

\* The constants are numbers.
LEMMA Constants ==
  /\ HTTP_MAX_HEADERS \in Nat \ {0} /\ READ_BUF \in Nat \ {0}
  /\ UPLOAD_MAX_BYTES \in Nat \ {0} /\ MaxHead \in Nat \ {0} /\ MaxSent \in Nat \ {0}
BY FramingAssumption

\* A connection is accepted with nothing read.
LEMMA InitIsSound == Init => FramingInv
BY RequestFields, Constants
DEF Init, FramingInv, TypeOK, HeadersInv, AcceptedInv, BodyInv, BufferIsBounded, SplitDoesNotMatter

\* The answer a request deserves does not change while it is being read.
LEMMA DeservedStays == req' = req => Deserved' = Deserved /\ HeaderStatus' = HeaderStatus
BY DEF Deserved, HeaderStatus

\* A read that finds headers only.
LEMMA ReadHeadersIsSound ==
  ASSUME FramingInv, NEW n \in 1..READ_BUF, pos + n <= req.sent, pos' = pos + n,
         req' = req, ReadHeaders(n)
  PROVE  FramingInv'
<1> USE RequestFields, Constants, HeaderStatusType, DeservedStays
<1>1. /\ state = "READ_REQUEST" /\ len = pos /\ headers_end = 0 /\ staged = 0 /\ status = 0
      /\ len < req.head /\ len <= HTTP_MAX_HEADERS /\ req \in Request
      /\ len \in Nat /\ pos \in Nat /\ n \in Nat /\ READ_BUF \in Nat
  BY DEF FramingInv, TypeOK, HeadersInv, ReadHeaders
<1>2. /\ len' = pos' /\ len' \in 0..MaxHead + MaxSent /\ pos' \in 0..req.sent
      /\ headers_end' = IF len' >= req.head THEN req.head ELSE 0
      /\ len' <= HTTP_MAX_HEADERS + READ_BUF
  BY <1>1 DEF ReadHeaders
<1>3. BufferIsBounded'
  BY <1>2 DEF BufferIsBounded
<1>4. CASE TooLarge(len', headers_end') /\ Respond(413) /\ staged' = 0
  <2>1. Deserved = 413
    BY <1>1, <1>2, <1>4 DEF Deserved, TooLarge
  <2> QED BY <1>1, <1>2, <1>3, <1>4, <2>1
    DEF FramingInv, TypeOK, HeadersInv, AcceptedInv, BodyInv, SplitDoesNotMatter, Respond
<1>5. CASE /\ ~TooLarge(len', headers_end') /\ headers_end' = 0
           /\ UNCHANGED <<state, staged, status>>
  BY <1>1, <1>2, <1>3, <1>5
  DEF FramingInv, TypeOK, HeadersInv, AcceptedInv, BodyInv, SplitDoesNotMatter, TooLarge
<1>6. CASE /\ ~TooLarge(len', headers_end') /\ headers_end' # 0 /\ HeaderStatus # 0
           /\ Respond(HeaderStatus) /\ staged' = 0
  <2>1. Deserved = HeaderStatus
    BY <1>1, <1>2, <1>6 DEF Deserved, TooLarge
  <2> QED BY <1>1, <1>2, <1>3, <1>6, <2>1
    DEF FramingInv, TypeOK, HeadersInv, AcceptedInv, BodyInv, SplitDoesNotMatter, Respond
<1>7. CASE /\ ~TooLarge(len', headers_end') /\ headers_end' # 0 /\ HeaderStatus = 0
           /\ staged' = RodeIn(len')
           /\ state' = IF Whole(staged') THEN "HASHING" ELSE "RECV_BODY"
           /\ UNCHANGED status
  BY <1>1, <1>2, <1>3, <1>7
  DEF FramingInv, TypeOK, HeadersInv, AcceptedInv, BodyInv, SplitDoesNotMatter, TooLarge,
      RodeIn, Whole
<1> QED BY <1>4, <1>5, <1>6, <1>7 DEF ReadHeaders

\* A read of body bytes only: what belongs to the body is staged, no more.
LEMMA ReadBodyIsSound ==
  ASSUME FramingInv, NEW n \in 1..READ_BUF, pos + n <= req.sent, pos' = pos + n,
         req' = req, ReadBody(n)
  PROVE  FramingInv'
BY RequestFields, Constants, HeaderStatusType, DeservedStays
DEF FramingInv, TypeOK, HeadersInv, AcceptedInv, BodyInv, BufferIsBounded, SplitDoesNotMatter,
    ReadBody, Take, Whole

\* finish_upload() compares all that was staged with what was declared.
LEMMA HashedIsSound ==
  ASSUME FramingInv, Hashed
  PROVE  FramingInv'
<1> USE RequestFields, Constants, DeservedStays
<1>1. /\ state = "HASHING" /\ req' = req /\ state' = "ANSWERED"
      /\ status' = IF req.honest /\ staged = req.len THEN 201 ELSE 400
      /\ UNCHANGED <<pos, len, headers_end, staged>> /\ req \in Request
  BY DEF Hashed, Respond, FramingInv, TypeOK
<1>2. Deserved = IF req.honest THEN 201 ELSE 400
  BY <1>1 DEF FramingInv, TypeOK, AcceptedInv, BodyInv, Deserved
<1>3. SplitDoesNotMatter'
  BY <1>1, <1>2 DEF FramingInv, TypeOK, AcceptedInv, BodyInv, SplitDoesNotMatter
<1> QED BY <1>1, <1>3
  DEF FramingInv, TypeOK, HeadersInv, AcceptedInv, BodyInv, BufferIsBounded

\* Every step keeps the invariant.
LEMMA StepIsSound == FramingInv /\ [Next]_vars => FramingInv'
<1> SUFFICES ASSUME FramingInv, [Next]_vars PROVE FramingInv'
  OBVIOUS
<1>1. CASE Read
  BY <1>1, ReadHeadersIsSound, ReadBodyIsSound DEF Read
<1>2. CASE Hashed
  BY <1>2, HashedIsSound
<1>3. CASE Hangup
  BY <1>3, DeservedStays
  DEF Hangup, FramingInv, TypeOK, HeadersInv, AcceptedInv, BodyInv, BufferIsBounded,
      SplitDoesNotMatter
<1>4. CASE UNCHANGED vars
  BY <1>4, DeservedStays
  DEF vars, FramingInv, TypeOK, HeadersInv, AcceptedInv, BodyInv, BufferIsBounded,
      SplitDoesNotMatter
<1> QED BY <1>1, <1>2, <1>3, <1>4 DEF Next

\* However a request is cut up into reads, its answer is the one it deserves
\* as a whole, but for the one exception SplitDoesNotMatter names: for every
\* cap, buffer size and request.
THEOREM AnswerIsDeserved == Spec => []SplitDoesNotMatter
<1>1. FramingInv => SplitDoesNotMatter
  BY DEF FramingInv
<1> QED BY <1>1, InitIsSound, StepIsSound, PTL DEF Spec

\* The header buffer never holds more than the cap and one read.
THEOREM BufferStaysBounded == Spec => [](TypeOK /\ BufferIsBounded)
<1>1. FramingInv => TypeOK /\ BufferIsBounded
  BY DEF FramingInv
<1> QED BY <1>1, InitIsSound, StepIsSound, PTL DEF Spec

=============================================================================
