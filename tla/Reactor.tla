------------------------------ MODULE Reactor ------------------------------
(***************************************************************************)
(* The request handlers of the daemon (src/main.c) over the store.         *)
(*                                                                         *)
(* One thread runs the event loop, so each handler is one step, and a push *)
(* is several of them: the headers (begin_upload), the body, the exit of   *)
(* the forked sha256sum, finish_upload, the response.  Between any two of  *)
(* them the loop runs the handlers of other connections, and a connection  *)
(* may be dropped: by its peer, by an error, or by the timeout sweep.      *)
(*                                                                         *)
(* A body that arrives in the same read as its headers takes the step from *)
(* begin_upload to HASHING at once; that is BeginUpload followed by        *)
(* ReceiveBody with nothing in between.                                    *)
(***************************************************************************)
EXTENDS Store

CONSTANTS
  Conns,      \* connection slots
  TmpPath,    \* names under tmp/
  NoPath,     \* conn.up_path when empty
  Partial,    \* the content of a staged file whose body is still arriving
  Requests,   \* the names clients ask for
  NoName,     \* conn.up_name before an upload
  Crashes     \* whether the daemon may be killed and started again

ASSUME ReactorAssumption ==
  /\ Requests \subseteq Name
  /\ NoName \notin Name
  /\ NoPath \notin TmpPath
  /\ Partial \notin Digest /\ Partial # None
  /\ Crashes \in BOOLEAN

VARIABLES
  conn,        \* per connection: state, up_name, up_digest, up_path, child
  tmp,         \* tmp[p]: what the staged file p holds; None when there is none
  acked,       \* history: the digest a 201 promised under a requested name,
               \*   until a DELETE reaches an entry that could answer for it
  withdrawn    \* history: the artifacts whose last signature a DELETE took,
               \*   until an upload of them passes the gate again

reactorVars == <<conn, tmp, acked, withdrawn>>
vars == <<storeVars, reactorVars>>

ConnState == {"CLOSED", "READ_REQUEST", "RECV_BODY", "HASHING", "SEND"}

ConnRecord ==
  [state : ConnState, up_name : Name \cup {NoName},
   up_digest : Digest \cup {None}, up_path : TmpPath \cup {NoPath},
   child : {"NONE", "RUNNING", "EXITED"}]

TypeOK ==
  /\ StoreTypeOK
  /\ conn \in [Conns -> ConnRecord]
  /\ tmp \in [TmpPath -> Digest \cup {None, Partial}]
  /\ acked \in [Requests -> Digest \cup {None}]
  /\ withdrawn \in SUBSET Name

Fresh ==
  [state |-> "CLOSED", up_name |-> NoName, up_digest |-> None,
   up_path |-> NoPath, child |-> "NONE"]

\* A daemon started on an empty root: store_init() made the directories.
Init ==
  /\ blobs = {}
  /\ link = [n \in Name |-> None]
  /\ file = [n \in Name |-> None]
  /\ conn = [c \in Conns |-> Fresh]
  /\ tmp = [p \in TmpPath |-> None]
  /\ acked = [n \in Requests |-> None]
  /\ withdrawn = {}

(***************************************************************************)
(* Connection bookkeeping.                                                 *)
(***************************************************************************)
Accept(c) ==
  /\ conn[c].state = "CLOSED"
  /\ conn' = [conn EXCEPT ![c].state = "READ_REQUEST"]
  /\ UNCHANGED <<storeVars, tmp, acked, withdrawn>>

\* begin_response(): whatever is staged stays until the connection closes.
Respond(c) == conn' = [conn EXCEPT ![c].state = "SEND"]

\* Mutant of Close: the staged file is left behind.
MutCloseKeepsFile(c) ==
  /\ conn[c].state # "CLOSED"
  /\ conn' = [conn EXCEPT ![c] = Fresh]
  /\ UNCHANGED <<storeVars, tmp, acked, withdrawn>>

\* conn_close(): the staged file goes with the connection.  A hash child that
\* is still running is no longer watched, and its output is never read.
Close(c) ==
  /\ conn[c].state # "CLOSED"
  /\ conn' = [conn EXCEPT ![c] = Fresh]
  /\ tmp' = [p \in TmpPath |-> IF p = conn[c].up_path THEN None ELSE tmp[p]]
  /\ UNCHANGED <<storeVars, acked, withdrawn>>

(***************************************************************************)
(* dispatch(): requests that change nothing in the store.  A lookup, a     *)
(* listing, a dry run of the collector and every refusal made from the     *)
(* headers alone (no token, bad name, no length, too large, no digest).    *)
(***************************************************************************)
ReadOnlyRequest(c) ==
  /\ conn[c].state = "READ_REQUEST"
  /\ Respond(c)
  /\ UNCHANGED <<storeVars, tmp, acked, withdrawn>>

(***************************************************************************)
(* PUT.                                                                    *)
(***************************************************************************)
\* Mutant of GateOpen: nobody is asked for a signature.
MutGateAlwaysOpen(n, U) == TRUE

\* The gate: a name whose suffix the policy lists is refused from its headers
\* unless its signature's name resolves.
GateOpen(n, U) == NeedsSignature(n) => LookupError(SignatureName(n), U) = "OK"

\* begin_upload() up to the staging of the body, with d declared.
BeginUpload(c, n, d) ==
  /\ conn[c].state = "READ_REQUEST"
  /\ \E U \in Readings(SignatureName(n)) : GateOpen(n, U)
  /\ \E p \in TmpPath :
       /\ tmp[p] = None
       /\ tmp' = [tmp EXCEPT ![p] = Partial]
       /\ conn' = [conn EXCEPT ![c] = [state |-> "RECV_BODY", up_name |-> n,
                                       up_digest |-> d, up_path |-> p, child |-> "NONE"]]
  /\ withdrawn' = {m \in withdrawn : Canonical(m) # Canonical(n)}
  /\ UNCHANGED <<storeVars, acked>>

\* begin_upload() answering 409 (the gate) or 500 (the body cannot be staged).
RefuseUpload(c, n) ==
  /\ conn[c].state = "READ_REQUEST"
  /\ IOFaults \/ \E U \in Readings(SignatureName(n)) : ~GateOpen(n, U)
  /\ Respond(c)
  /\ UNCHANGED <<storeVars, tmp, acked, withdrawn>>

\* handle_read() takes the last of the body, whose bytes hash to e, and
\* start_hash_child() forks.  The socket's events are off from here on.
ReceiveBody(c, e) ==
  /\ conn[c].state = "RECV_BODY"
  /\ tmp' = [tmp EXCEPT ![conn[c].up_path] = e]
  /\ conn' = [conn EXCEPT ![c] = [@ EXCEPT !.state = "HASHING", !.child = "RUNNING"]]
  /\ UNCHANGED <<storeVars, acked, withdrawn>>

\* A short write of the body, or no pipe, process or pidfd for the child: 500.
FailBody(c) ==
  /\ IOFaults
  /\ conn[c].state = "RECV_BODY"
  /\ Respond(c)
  /\ UNCHANGED <<storeVars, tmp, acked, withdrawn>>

\* sha256sum exits; its pidfd becomes readable.
HashExits(c) ==
  /\ conn[c].child = "RUNNING"
  /\ conn' = [conn EXCEPT ![c].child = "EXITED"]
  /\ UNCHANGED <<storeVars, tmp, acked, withdrawn>>

\* The child's event: the loop detaches and closes the child's record before
\* it calls finish_upload().
Reaped(c) == conn[c].state = "HASHING" /\ conn[c].child = "EXITED"

AfterHash(c, path) ==
  conn' = [conn EXCEPT ![c] = [state |-> "SEND", up_name |-> conn[c].up_name,
                               up_digest |-> conn[c].up_digest, up_path |-> path,
                               child |-> "NONE"]]

Discard(p) == tmp' = [tmp EXCEPT ![p] = None]

Matches(c) == tmp[conn[c].up_path] = conn[c].up_digest

\* finish_upload() answering 500 (no digest could be read) or 400 (the body is
\* not what was declared): the staged file is left to conn_close().
RejectBody(c) ==
  /\ Reaped(c)
  /\ ~Matches(c) \/ IOFaults
  /\ AfterHash(c, conn[c].up_path)
  /\ UNCHANGED <<storeVars, tmp, acked, withdrawn>>

\* Mutant of Refused: only store_publish() decides, after the adoption (#7).
MutRefusedLater(c, U) == FALSE

\* The name is resolved before the body is adopted.
Refused(c, U) ==
  \/ LookupError(conn[c].up_name, U) \notin {"OK", "NOT_FOUND"}
  \/ /\ LookupError(conn[c].up_name, U) = "OK"
     /\ conn[c].up_digest \notin Found(Canonical(conn[c].up_name), U)

\* finish_upload() answering 409, or 500 for an entry that cannot be read.
RefuseName(c) ==
  /\ Reaped(c) /\ Matches(c)
  /\ \E U \in Readings(conn[c].up_name) : Refused(c, U)
  /\ Discard(conn[c].up_path)
  /\ AfterHash(c, NoPath)
  /\ UNCHANGED <<storeVars, acked, withdrawn>>

\* finish_upload() adopting and publishing: 201.  store_publish() looks the name
\* up once more.  acked keeps the promise made to the pusher under the name it
\* used.
FinishUpload(c) ==
  LET n == conn[c].up_name  d == conn[c].up_digest IN
  /\ Reaped(c) /\ Matches(c)
  /\ \E U \in Readings(n) : ~Refused(c, U)
  /\ \E U \in Readings(n) :
       /\ PublishError(blobs \cup {d}, n, d, U) = "OK"
       /\ link' = PublishedLink(blobs \cup {d}, n, d, U)
  /\ blobs' = blobs \cup {d}
  /\ acked' = [acked EXCEPT ![n] = d]
  /\ Discard(conn[c].up_path)
  /\ AfterHash(c, NoPath)
  /\ UNCHANGED <<file, withdrawn>>

\* finish_upload() answering 500 or 409 after the adoption.  A body whose
\* rename() into blobs/ fails stays where it is, under a path the connection
\* has forgotten; one whose publication fails is a blob without a name.
FailAfterCheck(c) ==
  LET n == conn[c].up_name  d == conn[c].up_digest IN
  /\ Reaped(c) /\ Matches(c)
  /\ \E U \in Readings(n) : ~Refused(c, U)
  /\ \/ IOFaults /\ d \notin blobs /\ UNCHANGED <<blobs, tmp>>
     \/ /\ IOFaults \/ \E U \in Readings(n) : PublishError(blobs \cup {d}, n, d, U) # "OK"
        /\ blobs' = blobs \cup {d}
        /\ Discard(conn[c].up_path)
  /\ AfterHash(c, NoPath)
  /\ UNCHANGED <<link, file, acked, withdrawn>>

(***************************************************************************)
(* DELETE and POST /api/v1/gc.                                             *)
(***************************************************************************)
\* Some signature that the gate of n accepts is published: for a name with an
\* architecture its own, for a bare name its own or that of any architecture.
Signed(n) == \E s \in Candidates(Canonical(SignatureName(n))) : link[s] # None

Delete(c, n) ==
  /\ conn[c].state = "READ_REQUEST"
  /\ Unpublish(n)
  /\ acked' = [m \in Requests |->
                 IF Candidates(Canonical(m)) \cap UnpublishTargets(n) # {}
                 THEN None ELSE acked[m]]
  /\ withdrawn' = withdrawn \cup {m \in Name : NeedsSignature(m) /\ Signed(m) /\ ~Signed(m)'}
  /\ Respond(c)
  /\ UNCHANGED tmp

CollectGarbage(c) ==
  /\ conn[c].state = "READ_REQUEST"
  /\ Collect
  /\ Respond(c)
  /\ UNCHANGED <<tmp, acked, withdrawn>>

\* SIGTERM ends the loop without closing its connections, and SIGKILL does no
\* more: tmp/ is left as it is, and store_init() of the next daemon does not
\* look into it.  What the system calls did is still there.  (After a power
\* failure it need not be: nothing is fsynced.  That is not modelled.)
Restart ==
  /\ Crashes
  /\ conn' = [c \in Conns |-> Fresh]
  /\ UNCHANGED <<storeVars, tmp, acked, withdrawn>>

Handler(c) ==
  \/ Accept(c)
  \/ Close(c)
  \/ ReadOnlyRequest(c)
  \/ \E n \in Requests, d \in Digest : BeginUpload(c, n, d)
  \/ \E n \in Requests : RefuseUpload(c, n)
  \/ \E e \in Digest : ReceiveBody(c, e)
  \/ FailBody(c)
  \/ HashExits(c)
  \/ RejectBody(c)
  \/ RefuseName(c)
  \/ FinishUpload(c)
  \/ FailAfterCheck(c)
  \/ \E n \in Requests : Delete(c, n)
  \/ CollectGarbage(c)

Next == (\E c \in Conns : Handler(c)) \/ Restart

Spec == Init /\ [][Next]_vars

(***************************************************************************)
(* Properties.  NoDangling and the type invariant are Store's.             *)
(***************************************************************************)

\* What a 201 promised holds until a DELETE reaches the name: whoever asks for
\* it is served exactly those bytes, or refused because the name has become
\* ambiguous; never other bytes, never a 404.  Pushes of other spellings and
\* architectures, collections, failing rename(), symlink() and unlink() calls and
\* kills of the daemon do not break it, as long as the directory can be read.
AckedIsServed ==
  \A n \in Requests : acked[n] # None =>
    \/ OpenError(n) = "OK" /\ Meaning(n) = acked[n]
    \/ OpenError(n) = "AMBIGUOUS"

\* Every published artifact that the policy wants signed has a signature that
\* its gate accepts (Signed), unless a DELETE took the last of them after the
\* gate had passed its last upload: passing the gate at header time and
\* publishing several handlers later, with other pushes, refusals, collections,
\* failures and kills in between, lets an unsigned artifact in in no other way.
SignedOrWithdrawn ==
  \A n \in Name : link[n] # None /\ NeedsSignature(n) => Signed(n) \/ n \in withdrawn

\* A connection's path names a staged file, which is no other connection's:
\* no body is written over, hashed, adopted or removed by another's handlers.
PathsAreOwn ==
  /\ \A c \in Conns : conn[c].up_path # NoPath => tmp[conn[c].up_path] # None
  /\ \A c, k \in Conns : conn[c].up_path = conn[k].up_path /\ c # k => conn[c].up_path = NoPath

\* Every staged file belongs to exactly one connection: a dropped, refused or
\* finished upload leaves nothing in tmp/.
StagedIsOwned ==
  /\ PathsAreOwn
  /\ \A p \in TmpPath : tmp[p] # None => \E c \in Conns : conn[c].up_path = p

\* Bytes enter blobs/ only together with a name for them: a push that is
\* refused, for whatever happened to its name while the body was received and
\* hashed, leaves nothing for the collector (ADR-0003 as amended by #7).
AdoptedIsNamed == [][blobs' \ blobs \subseteq Live({})']_vars

\* The daemon implements the write-once map of Registry: the bytes that can be
\* had under an entry are those it points at, if their blob is there.
Served == [n \in Name |-> IF link[n] \in blobs THEN link[n] ELSE None]

R == INSTANCE Registry WITH reg <- Served

ImplementsRegistry == R!Spec

(***************************************************************************)
(* What a document says, and the code does not do.                         *)
(***************************************************************************)

\* "the cache will not accept an unsigned bootable" (docs/adr/0010): whenever
\* an artifact that needs a signature is published, its signature resolves.
\* The gate looks when the headers arrive; the name is published when the
\* body has been received and hashed, and a DELETE may come in between.
UnsignedNeverPublished ==
  [][\A n \in Name :
       NeedsSignature(n) /\ link[n] = None /\ link'[n] # None =>
         ResolveError(SignatureName(n)) = "OK"]_vars

\* "It does promise the signature this finds was published for the name it is
\* about to accept" (begin_upload): an upload is begun only if the signature of
\* that very name is published.  The lookup of a bare signature probes the
\* architectures, and the signature of another artifact answers it.
GateFindsOwnSignature ==
  [][\A c \in Conns :
       /\ conn[c].state = "READ_REQUEST" /\ conn'[c].state = "RECV_BODY"
       /\ NeedsSignature(conn'[c].up_name)
       => link[Canonical(SignatureName(conn'[c].up_name))] # None]_vars

=============================================================================
