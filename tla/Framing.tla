------------------------------ MODULE Framing ------------------------------
(***************************************************************************)
(* How a request is put together from what read() returns: http_conn_feed  *)
(* and http_conn_try_parse (src/http.c), driven by handle_read and         *)
(* begin_upload (src/main.c).                                              *)
(*                                                                         *)
(* A peer sends a header section of some length and then bytes of a body.  *)
(* The kernel hands them over in pieces of any size, and a piece may end   *)
(* inside the headers, inside the blank line, or well into the body.  Of   *)
(* the bytes only their number matters, and of the headers only what the   *)
(* daemon will object to.                                                  *)
(***************************************************************************)
EXTENDS Naturals

CONSTANTS
  HTTP_MAX_HEADERS,   \* the cap on the header section
  READ_BUF,           \* the most one read() returns
  UPLOAD_MAX_BYTES,   \* the cap on a body
  MaxHead, MaxSent,   \* bounds: bytes of headers, and after them, a peer sends
  Flaws               \* bound: the sets of flaws a request may have

\* What can be wrong with a header section, in the order in which it is found
\* out: the request line (or the escapes in its path), the number in
\* Content-Length, the token, the name, the digest, the signature that is
\* asked for first.
Flaw == {"line", "length", "token", "name", "digest", "unsigned"}

ASSUME FramingAssumption ==
  /\ {HTTP_MAX_HEADERS, READ_BUF, UPLOAD_MAX_BYTES, MaxHead, MaxSent} \subseteq Nat \ {0}
  /\ Flaws \subseteq SUBSET Flaw

\* What a peer sends: head bytes of headers, blank line included, of which only
\* the first sent arrive if that is less; a Content-Length (0 when there is
\* none); and whether the declared digest is that of the first len bytes after
\* the headers.
Request ==
  [head : 1..MaxHead, sent : 0..MaxHead + MaxSent, len : 0..UPLOAD_MAX_BYTES + 1,
   put : BOOLEAN, flaws : Flaws, honest : BOOLEAN]

VARIABLES
  req,          \* what the peer sends
  pos,          \* how much of it has been read
  state,        \* the connection's state; ANSWERED from begin_response() on
  len,          \* http_conn.len: bytes in the header buffer
  headers_end,  \* http_conn.headers_end; 0 for -1
  staged,       \* up_received: bytes written to the staged file
  status        \* the answer; 0 before there is one

vars == <<req, pos, state, len, headers_end, staged, status>>

Init ==
  /\ req \in Request
  /\ pos = 0 /\ state = "READ_REQUEST"
  /\ len = 0 /\ headers_end = 0 /\ staged = 0 /\ status = 0

Respond(code) == state' = "ANSWERED" /\ status' = code

\* begin_upload() up to the gate, and dispatch() of anything that is not a PUT
\* of an artifact (200 stands for whatever that is answered).
HeaderStatus ==
  IF req.flaws \cap {"line", "length"} # {} THEN 400
  ELSE IF ~req.put THEN 200
  ELSE IF "token" \in req.flaws THEN 401
  ELSE IF "name" \in req.flaws THEN 400
  ELSE IF req.len = 0 THEN 411
  ELSE IF req.len > UPLOAD_MAX_BYTES THEN 413
  ELSE IF "digest" \in req.flaws THEN 400
  ELSE IF "unsigned" \in req.flaws THEN 409
  ELSE 0

\* Mutants of TooLarge: the whole buffer is measured (#1); a section is measured
\* only before, or only after, its end has been seen.
MutCapOnBuffer(l, e) == l > HTTP_MAX_HEADERS

MutCapUnterminated(l, e) == e = 0 /\ l > HTTP_MAX_HEADERS

MutCapTerminated(l, e) == e > HTTP_MAX_HEADERS

\* http_conn_feed()'s two limits.
TooLarge(l, e) == (e = 0 /\ l > HTTP_MAX_HEADERS) \/ e > HTTP_MAX_HEADERS

\* The body is whole when this much has been staged.
Whole(s) == s >= req.len

\* Mutant of RodeIn: what came with the headers is forgotten.
MutRodeInNothing(l) == 0

\* Body bytes that rode in with the headers: all that is in the buffer.
RodeIn(l) == l - headers_end'

\* handle_read() with n more bytes while headers are expected: feed the buffer,
\* look for the blank line, parse, dispatch.
ReadHeaders(n) ==
  /\ state = "READ_REQUEST"
  /\ len' = len + n
  /\ headers_end' = IF len' >= req.head THEN req.head ELSE 0
  /\ \/ /\ TooLarge(len', headers_end')
        /\ Respond(413) /\ staged' = 0
     \/ /\ ~TooLarge(len', headers_end') /\ headers_end' = 0
        /\ UNCHANGED <<state, staged, status>>
     \/ /\ ~TooLarge(len', headers_end') /\ headers_end' # 0 /\ HeaderStatus # 0
        /\ Respond(HeaderStatus) /\ staged' = 0
     \/ /\ ~TooLarge(len', headers_end') /\ headers_end' # 0 /\ HeaderStatus = 0
        /\ staged' = RodeIn(len')
        /\ state' = IF Whole(staged') THEN "HASHING" ELSE "RECV_BODY"
        /\ UNCHANGED status

\* Of a piece of n bytes, what still belongs to the body.
Take(n) == IF n > req.len - staged THEN req.len - staged ELSE n

\* handle_read() with n more bytes of the body.
ReadBody(n) ==
  /\ state = "RECV_BODY"
  /\ staged' = staged + Take(n)
  /\ state' = IF Whole(staged') THEN "HASHING" ELSE state
  /\ UNCHANGED <<len, headers_end, status>>

\* read() returns between 1 and READ_BUF of the bytes the peer has sent.
Read ==
  /\ \E n \in 1..READ_BUF :
       /\ pos + n <= req.sent
       /\ pos' = pos + n
       /\ ReadHeaders(n) \/ ReadBody(n)
  /\ UNCHANGED req

\* finish_upload(): the staged bytes are the declared ones if they are the
\* first len bytes of the body and no more.
Hashed ==
  /\ state = "HASHING"
  /\ Respond(IF req.honest /\ staged = req.len THEN 201 ELSE 400)
  /\ UNCHANGED <<req, pos, len, headers_end, staged>>

\* The peer hangs up, or the timeout sweep closes a connection that waits for
\* bytes which do not come.
Hangup ==
  /\ state \in {"READ_REQUEST", "RECV_BODY"} /\ pos = req.sent
  /\ state' = "CLOSED"
  /\ UNCHANGED <<req, pos, len, headers_end, staged, status>>

Next == Read \/ Hashed \/ Hangup

\* The loop reads what is there and notices the exit of the hash.
Spec == Init /\ [][Next]_vars /\ WF_vars(Read) /\ WF_vars(Hashed)

-----------------------------------------------------------------------------
(* Properties.                                                             *)

TypeOK ==
  /\ req \in Request
  /\ pos \in 0..req.sent
  /\ state \in {"READ_REQUEST", "RECV_BODY", "HASHING", "ANSWERED", "CLOSED"}
  /\ len \in 0..MaxHead + MaxSent /\ headers_end \in 0..MaxHead
  /\ staged \in 0..MaxHead + MaxSent
  /\ status \in {0, 200, 201, 400, 401, 409, 411, 413}

\* What a request deserves, whoever delivers it: the answer to the bytes as a
\* whole.  0 when too few have been sent for any answer.
Deserved ==
  IF req.head > HTTP_MAX_HEADERS
    THEN IF req.sent > HTTP_MAX_HEADERS THEN 413 ELSE 0
  ELSE IF req.sent < req.head THEN 0
  ELSE IF HeaderStatus # 0 THEN HeaderStatus
  ELSE IF req.sent - req.head < req.len THEN 0
  ELSE IF req.honest THEN 201 ELSE 400

\* The answer depends on what was sent and not on how the network cut it up:
\* the header cap measures the headers, whatever shares a read with them, a
\* body is the same whether it rode in with the headers or not, and what comes
\* after it is not part of it.  The one exception: bytes after the body that
\* are read together with the headers are staged too, and a push that would
\* be accepted is refused.
SplitDoesNotMatter ==
  state = "ANSWERED" =>
    \/ status = Deserved
    \/ Deserved = 201 /\ status = 400 /\ len - headers_end > req.len

\* The header buffer holds at most the cap and one read, whatever is sent: a
\* body goes to the staged file, and headers that do not end are refused.
BufferIsBounded == len <= HTTP_MAX_HEADERS + READ_BUF

\* A request that deserves an answer gets one: no split leaves the daemon
\* waiting for bytes it already has.
EverythingIsAnswered == Deserved # 0 ~> state = "ANSWERED"

=============================================================================
