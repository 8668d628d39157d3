--------------------------- MODULE ReactorProofs ---------------------------
(***************************************************************************)
(* The daemon keeps its promises, for any number of connections, staging   *)
(* paths, names and digests.                                               *)
(***************************************************************************)
EXTENDS Reactor, StoreProofs

Uploading(c) == conn[c].state \in {"RECV_BODY", "HASHING"}

\* What begin_upload() recorded is there until finish_upload() has used it.
UploadInv ==
  \A c \in Conns : Uploading(c) =>
    /\ conn[c].up_name \in Requests
    /\ conn[c].up_digest \in Digest
    /\ conn[c].up_path \in TmpPath

NoFiles == \A n \in Name : file[n] = None

\* The daemon's own files and links are well formed: what every other proof
\* needs.  That the links are whole takes a directory that can be read.
ReactorInv == TypeOK /\ (~ReadFaults => NoDangling) /\ UploadInv /\ NoFiles

\* A lookup for which no readlink() can fail reads every candidate.
LEMMA EverythingIsRead ==
  ASSUME ~ReadFaults, NEW n
  PROVE  Readings(n) = {{}}
BY DEF Readings, Unread

\* The daemon starts on an empty store, with no connections.
LEMMA InitIsSound == Init => ReactorInv
BY ReactorAssumption
DEF Init, ReactorInv, TypeOK, StoreTypeOK, NoDangling, UploadInv, Uploading, NoFiles,
    Fresh, ConnRecord, ConnState

\* start_hash_child() leaves a well formed connection.
LEMMA StartHashIsTyped ==
  ASSUME NEW r \in ConnRecord,
         NEW q, q = [r EXCEPT !.state = "HASHING", !.child = "RUNNING"]
  PROVE  /\ q \in ConnRecord
         /\ q.up_name = r.up_name /\ q.up_digest = r.up_digest /\ q.up_path = r.up_path
BY DEF ConnRecord, ConnState

\* The handlers that leave the store alone keep connections and staged files
\* well formed.
LEMMA QuietStepIsSound ==
  ASSUME ReactorInv, NEW c \in Conns,
         \/ Accept(c) \/ Close(c) \/ ReadOnlyRequest(c) \/ FailBody(c) \/ HashExits(c)
         \/ RejectBody(c) \/ RefuseName(c)
         \/ \E n \in Requests : RefuseUpload(c, n)
  PROVE  ReactorInv'
<1> USE DEF ReactorInv, TypeOK, StoreTypeOK, NoDangling, UploadInv, Uploading, NoFiles,
            ConnRecord, ConnState, storeVars
<1>1. CASE Accept(c)
  BY <1>1 DEF Accept
<1>2. CASE Close(c)
  BY <1>2, ReactorAssumption DEF Close, Fresh
<1>3. CASE ReadOnlyRequest(c)
  BY <1>3 DEF ReadOnlyRequest, Respond
<1>4. CASE FailBody(c)
  BY <1>4 DEF FailBody, Respond
<1>5. CASE HashExits(c)
  BY <1>5 DEF HashExits
<1>6. CASE RejectBody(c)
  BY <1>6 DEF RejectBody, AfterHash, Reaped
<1>7. CASE RefuseName(c)
  BY <1>7 DEF RefuseName, AfterHash, Reaped, Discard
<1>8. ASSUME NEW n \in Requests, RefuseUpload(c, n) PROVE ReactorInv'
  BY <1>8 DEF RefuseUpload, Respond
<1> QED BY <1>1, <1>2, <1>3, <1>4, <1>5, <1>6, <1>7, <1>8

\* A push's headers and body, likewise.
LEMMA UploadStepIsSound ==
  ASSUME ReactorInv, NEW c \in Conns,
         \/ \E n \in Requests, d \in Digest : BeginUpload(c, n, d)
         \/ \E e \in Digest : ReceiveBody(c, e)
  PROVE  ReactorInv'
<1> USE DEF ReactorInv, TypeOK, StoreTypeOK, NoDangling, UploadInv, Uploading, NoFiles, storeVars
<1>1. ASSUME NEW n \in Requests, NEW d \in Digest, BeginUpload(c, n, d) PROVE ReactorInv'
  <2>1. PICK p \in TmpPath :
          /\ tmp' = [tmp EXCEPT ![p] = Partial]
          /\ conn' = [conn EXCEPT ![c] = [state |-> "RECV_BODY", up_name |-> n,
                                          up_digest |-> d, up_path |-> p, child |-> "NONE"]]
    BY <1>1 DEF BeginUpload
  <2>2. conn' \in [Conns -> ConnRecord]
    BY <2>1, ReactorAssumption DEF ConnRecord, ConnState
  <2>3. UploadInv'
    BY <2>1
  <2>4. tmp' \in [TmpPath -> Digest \cup {None, Partial}]
    BY <2>1
  <2> QED BY <1>1, <2>2, <2>3, <2>4 DEF BeginUpload
<1>2. ASSUME NEW e \in Digest, ReceiveBody(c, e) PROVE ReactorInv'
  <2> DEFINE q == [conn[c] EXCEPT !.state = "HASHING", !.child = "RUNNING"]
  <2>2. /\ q \in ConnRecord
        /\ q.up_name = conn[c].up_name /\ q.up_digest = conn[c].up_digest
        /\ q.up_path = conn[c].up_path
    <3>1. conn[c] \in ConnRecord
      OBVIOUS
    <3> QED BY <3>1, StartHashIsTyped, Zenon
  <2>3. conn' = [conn EXCEPT ![c] = q]
    BY <1>2, Zenon DEF ReceiveBody
  <2> HIDE DEF q
  <2>4. tmp' \in [TmpPath -> Digest \cup {None, Partial}]
    BY <1>2 DEF ReceiveBody
  <2> QED BY <1>2, <2>2, <2>3, <2>4 DEF ReceiveBody
<1> QED BY <1>1, <1>2

\* Answering a connection leaves it well formed, with or without its upload.
LEMMA AnswerIsSound ==
  ASSUME TypeOK, UploadInv, NEW c \in Conns,
         Respond(c) \/ \E path \in TmpPath \cup {NoPath} : AfterHash(c, path)
  PROVE  conn' \in [Conns -> ConnRecord] /\ UploadInv'
<1> USE DEF TypeOK, UploadInv, Uploading, ConnRecord, ConnState
<1>1. CASE Respond(c)
  BY <1>1 DEF Respond
<1>2. ASSUME NEW path \in TmpPath \cup {NoPath}, AfterHash(c, path)
      PROVE  conn' \in [Conns -> ConnRecord] /\ UploadInv'
  <2>1. conn' \in [Conns -> ConnRecord]
    BY <1>2 DEF AfterHash
  <2>2. \A k \in Conns : conn'[k] = conn[k] \/ (k = c /\ conn'[k].state = "SEND")
    BY <1>2 DEF AfterHash
  <2> QED BY <2>1, <2>2
<1> QED BY <1>1, <1>2

\* finish_upload(), whether it publishes or stops half way, leaves the store
\* sound: the entry it makes points at the blob adopted just before.
LEMMA FinishIsSound ==
  ASSUME ReactorInv, NEW c \in Conns, FinishUpload(c) \/ FailAfterCheck(c)
  PROVE  ReactorInv'
<1> DEFINE n == conn[c].up_name
           d == conn[c].up_digest
<1>1. n \in Requests /\ d \in Digest /\ conn[c].up_path \in TmpPath /\ n \in Name
  BY ReactorAssumption DEF FinishUpload, FailAfterCheck, Reaped, ReactorInv, UploadInv, Uploading
<1>2. conn' \in [Conns -> ConnRecord] /\ UploadInv'
  BY AnswerIsSound DEF FinishUpload, FailAfterCheck, ReactorInv
<1>3. tmp' \in [TmpPath -> Digest \cup {None, Partial}]
  BY <1>1 DEF FinishUpload, FailAfterCheck, Discard, ReactorInv, TypeOK
<1>4. StoreInv
  BY DEF ReactorInv, TypeOK, StoreInv
<1>5. CASE FinishUpload(c)
  <2>1. blobs' = blobs \cup {d} /\ file' = file
    BY <1>5 DEF FinishUpload
  <2>1a. PICK U : link' = PublishedLink(blobs \cup {d}, n, d, U)
    BY <1>5 DEF FinishUpload
  <2>1b. link' \in [Name -> Digest \cup {None}]
    BY <1>1, <1>4, <2>1a, PublishedLinkIsSound
  <2>1c. NoDangling => NoDangling'
    BY <1>1, <1>4, <2>1, <2>1a, PublishedLinkIsSound DEF NoDangling
  <2>2. StoreInv'
    BY <1>1, <1>4, <2>1, <2>1b, <2>1c DEF StoreInv, StoreTypeOK
  <2>3. acked' \in [Requests -> Digest \cup {None}] /\ withdrawn' = withdrawn
    BY <1>1, <1>5 DEF FinishUpload, ReactorInv, TypeOK
  <2> QED BY <1>2, <1>3, <2>1, <2>2, <2>3 DEF ReactorInv, TypeOK, NoFiles, StoreInv
<1>6. CASE FailAfterCheck(c)
  <2>1. /\ blobs' \in {blobs, blobs \cup {d}}
        /\ link' = link /\ file' = file /\ acked' = acked /\ withdrawn' = withdrawn
    BY <1>6 DEF FailAfterCheck
  <2>2. StoreInv'
    BY <1>1, <1>4, <2>1 DEF StoreInv, StoreTypeOK, NoDangling
  <2> QED BY <1>2, <1>3, <2>1, <2>2 DEF ReactorInv, TypeOK, NoFiles, StoreInv
<1> QED BY <1>5, <1>6

\* DELETE and the collector, likewise.
LEMMA MaintenanceIsSound ==
  ASSUME ReactorInv, NEW c \in Conns,
         (\E n \in Requests : Delete(c, n)) \/ CollectGarbage(c)
  PROVE  ReactorInv'
<1>1. StoreInv
  BY DEF ReactorInv, TypeOK, StoreInv
<1>2. conn' \in [Conns -> ConnRecord] /\ UploadInv'
  BY AnswerIsSound DEF Delete, CollectGarbage, ReactorInv
<1>3. ASSUME NEW n \in Requests, Delete(c, n) PROVE ReactorInv'
  <2>1. n \in Name
    BY ReactorAssumption
  <2>2. StoreInv'
    BY <1>1, <1>3, <2>1, UnpublishIsSound DEF Delete
  <2>3. NoFiles'
    BY <1>3 DEF Delete, Unpublish, Unlink, ReactorInv, NoFiles
  <2>4. acked' \in [Requests -> Digest \cup {None}]
    BY <1>3 DEF Delete, ReactorInv, TypeOK
  <2>5. withdrawn' \in SUBSET Name /\ tmp' = tmp
    BY <1>3 DEF Delete, ReactorInv, TypeOK
  <2> QED BY <1>2, <2>2, <2>3, <2>4, <2>5 DEF ReactorInv, TypeOK, StoreInv
<1>4. CASE CollectGarbage(c)
  <2>1. StoreInv'
    BY <1>1, <1>4, CollectIsSound DEF CollectGarbage
  <2> QED BY <1>2, <1>4, <2>1 DEF CollectGarbage, Collect, ReactorInv, TypeOK, StoreInv, NoFiles
<1> QED BY <1>3, <1>4

\* Every step of the daemon keeps it well formed.
LEMMA StepIsSound ==
  ASSUME ReactorInv, [Next]_vars
  PROVE  ReactorInv'
<1>1. ASSUME NEW c \in Conns, Handler(c) PROVE ReactorInv'
  BY <1>1, QuietStepIsSound, UploadStepIsSound, FinishIsSound, MaintenanceIsSound DEF Handler
<1>2. CASE Restart
  BY <1>2, ReactorAssumption
  DEF Restart, Fresh, ReactorInv, TypeOK, StoreTypeOK, NoDangling, UploadInv, Uploading, NoFiles,
      storeVars, ConnRecord, ConnState
<1>3. CASE UNCHANGED vars
  BY <1>3 DEF vars, reactorVars, storeVars, ReactorInv, TypeOK, StoreTypeOK, NoDangling,
      UploadInv, Uploading, NoFiles
<1> QED BY <1>1, <1>2, <1>3 DEF Next

\* The daemon's state is well formed and no published name is ever without its
\* bytes, however pushes, deletes, collections, failures of calls that write,
\* dropped connections and restarts are interleaved, as long as the directory
\* can be read.
THEOREM DaemonNeverDangles == ASSUME ~ReadFaults PROVE Spec => [](TypeOK /\ NoDangling)
<1>1. ReactorInv => TypeOK /\ NoDangling
  BY DEF ReactorInv
<1> QED BY <1>1, InitIsSound, StepIsSound, PTL DEF Spec

(***************************************************************************)
(* What a 201 promised.  The digest stays among what a lookup of the name  *)
(* finds: the directory only grows, except by a DELETE, and one that       *)
(* reaches the name ends the promise.                                      *)
(***************************************************************************)
AckInv == \A n \in Requests : acked[n] # None => acked[n] \in Hits(Canonical(n))

\* store_publish() leaves every entry that is there as it is.
LEMMA PublishedLinkGrows ==
  ASSUME StoreInv, NEW n \in Name, NEW d \in Digest, NEW U, NEW x \in Name, link[x] # None
  PROVE  PublishedLink(blobs \cup {d}, n, d, U)[x] = link[x]
<1>1. CASE LookupError(n, U) = "NOT_FOUND"
  <2>1. Canonical(n) \in Name /\ link[Canonical(n)] = None
    BY <1>1, LookupNotFound, CanonicalIsName
  <2> QED BY <2>1 DEF PublishedLink, StoreInv, StoreTypeOK
<1>2. CASE LookupError(n, U) # "NOT_FOUND"
  BY <1>2 DEF PublishedLink
<1> QED BY <1>1, <1>2

\* A push that is answered 201 has its bytes under its name, by its own entry
\* or by one that had them already.
LEMMA PublishedIsHit ==
  ASSUME ReactorInv, NEW c \in Conns, FinishUpload(c),
         NEW n \in Requests, n = conn[c].up_name, NEW d \in Digest, d = conn[c].up_digest
  PROVE  d \in Hits(Canonical(n))'
<1>1. n \in Name
  BY ReactorAssumption
<1>2. Canonical(n) \in Name /\ Canonical(n) \in Candidates(Canonical(n))
  BY <1>1, CanonicalIsName, CandidatesAreNames
<1>3. PICK U : /\ PublishError(blobs \cup {d}, n, d, U) = "OK"
               /\ link' = PublishedLink(blobs \cup {d}, n, d, U)
  BY DEF FinishUpload
<1>4. CASE LookupError(n, U) = "NOT_FOUND"
  <2>1. link'[Canonical(n)] = d
    BY <1>2, <1>3, <1>4 DEF PublishedLink, ReactorInv, TypeOK, StoreTypeOK
  <2> QED BY <1>1, <1>2, <2>1, DigestAssumption DEF Hits, Found
<1>5. CASE LookupError(n, U) = "OK"
  <2>1. d \in Found(Canonical(n), U)
    BY <1>3, <1>5 DEF PublishError
  <2>2. d \in Hits(Canonical(n))
    BY <2>1 DEF Hits, Found
  <2>3. link' = link
    BY <1>3, <1>5 DEF PublishedLink
  <2> QED BY <2>2, <2>3 DEF Hits, Found
<1> QED BY <1>3, <1>4, <1>5 DEF PublishError

\* No step of the daemon breaks a promise that no DELETE has ended.
LEMMA StepKeepsAcks ==
  ASSUME ReactorInv, AckInv, [Next]_vars
  PROVE  AckInv'
<1>1. ASSUME UNCHANGED <<link, acked>> PROVE AckInv'
  BY <1>1 DEF AckInv, Hits, Found
<1>2. ASSUME NEW c \in Conns, FinishUpload(c) PROVE AckInv'
  <2>1. PICK n \in Requests, d \in Digest : n = conn[c].up_name /\ d = conn[c].up_digest
    BY <1>2 DEF FinishUpload, Reaped, ReactorInv, UploadInv, Uploading
  <2>2. n \in Name
    BY ReactorAssumption
  <2>2a. PICK U : link' = PublishedLink(blobs \cup {d}, n, d, U)
    BY <1>2, <2>1 DEF FinishUpload
  <2>3. \A x \in Name : link[x] # None => link'[x] = link[x]
    BY <2>2, <2>2a, PublishedLinkGrows DEF ReactorInv, TypeOK, StoreInv
  <2>4. \A m \in Requests : Hits(Canonical(m)) \subseteq Hits(Canonical(m))'
    BY <2>3, CanonicalIsName, CandidatesAreNames, ReactorAssumption DEF Hits, Found
  <2>5. d \in Hits(Canonical(n))'
    BY <1>2, <2>1, PublishedIsHit
  <2>6. acked' = [acked EXCEPT ![n] = d]
    BY <1>2, <2>1 DEF FinishUpload
  <2> QED BY <2>4, <2>5, <2>6 DEF AckInv, ReactorInv, TypeOK
<1>3. ASSUME NEW c \in Conns, NEW n \in Requests, Delete(c, n) PROVE AckInv'
  <2>1. PICK S \in {UnpublishTargets(n), {}, SignatureTarget(n)} : Unlink(S)
    BY <1>3 DEF Delete, Unpublish
  <2>2. S \subseteq UnpublishTargets(n)
    BY DEF UnpublishTargets
  <2>3. SUFFICES ASSUME NEW m \in Requests, acked'[m] # None
                 PROVE  acked'[m] \in Hits(Canonical(m))'
    BY DEF AckInv
  <2>4. acked'[m] = acked[m] /\ Candidates(Canonical(m)) \cap S = {}
    BY <1>3, <2>2, <2>3 DEF Delete
  <2>5. Candidates(Canonical(m)) \subseteq Name
    BY CanonicalIsName, CandidatesAreNames, ReactorAssumption
  <2>6. \A x \in Candidates(Canonical(m)) : link'[x] = link[x]
    BY <2>1, <2>4, <2>5 DEF Unlink
  <2>7. Hits(Canonical(m))' = Hits(Canonical(m))
    BY <2>6 DEF Hits, Found
  <2> QED BY <2>3, <2>4, <2>7 DEF AckInv
<1>4. CASE Next
  BY <1>1, <1>2, <1>3, <1>4
  DEF Next, Handler, Restart, Accept, Close, ReadOnlyRequest, BeginUpload, RefuseUpload,
      ReceiveBody, FailBody, HashExits, RejectBody, RefuseName, FailAfterCheck, CollectGarbage,
      Collect, storeVars
<1> QED BY <1>1, <1>4 DEF vars, reactorVars, storeVars

\* A name that was promised is served with the promised bytes, or refused as
\* ambiguous: the blob is there, and a single meaning is the promised one.
LEMMA AckInvServes ==
  ASSUME ReactorInv, AckInv, ~ReadFaults
  PROVE  AckedIsServed
<1> SUFFICES ASSUME NEW n \in Requests, acked[n] # None, OpenError(n) # "AMBIGUOUS"
             PROVE  OpenError(n) = "OK" /\ Meaning(n) = acked[n]
  BY DEF AckedIsServed
<1>1. n \in Name /\ Canonical(n) \in Name /\ Candidates(Canonical(n)) \subseteq Name
  BY CanonicalIsName, CandidatesAreNames, ReactorAssumption
<1>2. acked[n] \in Hits(Canonical(n))
  BY DEF AckInv
<1>3. file[Canonical(n)] = None
  BY <1>1 DEF ReactorInv, NoFiles
<1>4. ResolveError(n) = "OK"
  BY <1>2, <1>3 DEF OpenError, ResolveError, LookupError, Hits
<1>5. Hits(Canonical(n)) = {Meaning(n)}
  BY <1>1, <1>4, MeaningIsHit DEF ReactorInv, TypeOK
<1>6. Hits(Canonical(n)) \subseteq blobs
  BY <1>1 DEF Hits, ReactorInv, NoDangling, Found
<1> QED BY <1>2, <1>4, <1>5, <1>6 DEF OpenError

\* A 201 is a promise: until a DELETE reaches the name, whoever asks for it is
\* served the pushed bytes or refused because the name has become ambiguous,
\* whatever the other connections, the collector, calls that fail to write and
\* restarts do, as long as the directory can be read.
THEOREM AcksAreKept == ASSUME ~ReadFaults PROVE Spec => []AckedIsServed
<1>1. Init => AckInv
  BY DEF Init, AckInv
<1>2. ReactorInv /\ AckInv /\ [Next]_vars => ReactorInv' /\ AckInv'
  BY StepIsSound, StepKeepsAcks
<1> QED BY <1>1, <1>2, InitIsSound, AckInvServes, PTL DEF Spec

(***************************************************************************)
(* The daemon implements the write-once map.  No link dangles, so what can *)
(* be had under the entries is exactly what they point at, and only the    *)
(* end of a push and a DELETE change that.                                 *)
(***************************************************************************)

\* The map's own operators on names are the store's.
LEMMA RegistryNames ==
  /\ R!Name = Name
  /\ \A n : R!Canonical(n) = Canonical(n)
  /\ \A n : R!IsCanonical(n) = IsCanonical(n)
  /\ \A n : R!SignatureName(n) = SignatureName(n)
  /\ \A n : R!Candidates(n) = Candidates(n)
BY DEF R!Name, Name, R!Canonical, Canonical, R!CanonicalRel, CanonicalRel, R!Unpadded, Unpadded,
       R!FirstRel, FirstRel, R!IsCanonical, IsCanonical, R!SignatureName, SignatureName,
       R!Candidates, Candidates, R!HasArch, HasArch, R!Stamp, Stamp

\* What is served is what is linked.
LEMMA ServedIsLinked ==
  ASSUME ~ReadFaults
  PROVE  (StoreInv => Served = link) /\ (StoreInv' => Served' = link')
BY DEF Served, StoreInv, StoreTypeOK, NoDangling

\* finish_upload() is a Publish of the canonical name, or is not seen.
LEMMA FinishImplements ==
  ASSUME ReactorInv, ~ReadFaults, NEW c \in Conns, FinishUpload(c), link' # link
  PROVE  \E n \in Name, d \in Digest :
           /\ IsCanonical(n)
           /\ \A x \in Candidates(n) : link[x] = None
           /\ link' = [link EXCEPT ![n] = d]
<1>1. PICK m \in Requests, d \in Digest : m = conn[c].up_name /\ d = conn[c].up_digest
  BY DEF FinishUpload, Reaped, ReactorInv, UploadInv, Uploading
<1>2. m \in Name /\ Canonical(m) \in Name /\ IsCanonical(Canonical(m))
  BY ReactorAssumption, CanonicalIsName, CanonicalIsFixpoint
<1>2a. link' = PublishedLink(blobs \cup {d}, m, d, {})
  BY <1>1, EverythingIsRead DEF FinishUpload
<1>3. ResolveError(m) = "NOT_FOUND" /\ link' = [link EXCEPT ![Canonical(m)] = d]
  BY <1>2a DEF PublishedLink, ResolveError
<1>4. \A x \in Candidates(Canonical(m)) : link[x] = None
  BY <1>2, <1>3, NotFoundIsFree
<1> QED BY <1>2, <1>3, <1>4

\* A DELETE, whole or stopped between its two unlinks, is a Withdraw of the
\* artifact or of the signature alone, or is not seen.
LEMMA DeleteImplements ==
  ASSUME ReactorInv, NEW m \in Name, Unpublish(m), link' # link
  PROVE  \E n \in Name :
           /\ IsCanonical(n)
           /\ link' = [x \in Name |-> IF x \in {n, SignatureName(n)} THEN None ELSE link[x]]
<1>1. PICK S \in {UnpublishTargets(m), {}, SignatureTarget(m)} : Unlink(S)
  BY DEF Unpublish
<1>2. link' = [x \in Name |-> IF x \in S THEN None ELSE link[x]]
  BY <1>1 DEF Unlink
<1>3. S # {}
  BY <1>2 DEF ReactorInv, TypeOK, StoreTypeOK
<1>4. /\ Canonical(m) \in Name /\ IsCanonical(Canonical(m))
      /\ SignatureName(m) \in Name
      /\ Canonical(SignatureName(m)) = SignatureName(Canonical(m))
  BY CanonicalIsName, CanonicalIsFixpoint, SignatureOfName
<1>5. CASE S = UnpublishTargets(m)
  <2>1. S = {Canonical(m), SignatureName(Canonical(m))}
    <3>1. CASE m.sig
      <4>1. SignatureName(Canonical(m)) = Canonical(m)
        BY <3>1 DEF SignatureName, Canonical, Name
      <4> QED BY <1>5, <3>1, <4>1 DEF UnpublishTargets, SignatureTarget, HasSignatureName
    <3>2. CASE ~m.sig
      BY <1>4, <1>5, <3>2 DEF UnpublishTargets, SignatureTarget, HasSignatureName
    <3> QED BY <3>1, <3>2
  <2> QED BY <1>2, <1>4, <2>1
<1>6. CASE S = SignatureTarget(m)
  <2> DEFINE s == Canonical(SignatureName(m))
  <2>1. S = {s}
    BY <1>3, <1>6 DEF SignatureTarget
  <2>2. s \in Name /\ IsCanonical(s)
    BY <1>4, CanonicalIsName, CanonicalIsFixpoint
  <2>3. SignatureName(s) = s
    BY <1>4 DEF SignatureName, Name
  <2> HIDE DEF s
  <2> QED BY <1>2, <2>1, <2>2, <2>3
<1> QED BY <1>1, <1>3, <1>5, <1>6

\* Every step of the daemon is a step of the map, or changes nothing in it.
LEMMA StepImplements ==
  ASSUME ReactorInv, ReactorInv', [Next]_vars, ~ReadFaults
  PROVE  [R!Next]_Served
<1>1. StoreInv /\ StoreInv'
  BY DEF ReactorInv, TypeOK, StoreInv
<1>2. Served = link /\ Served' = link'
  BY <1>1, ServedIsLinked
<1> SUFFICES ASSUME link' # link PROVE R!Next
  BY <1>2
<1>3. ASSUME NEW c \in Conns, FinishUpload(c) PROVE R!Next
  BY <1>2, <1>3, FinishImplements, RegistryNames DEF R!Next, R!Publish
<1>4. ASSUME NEW c \in Conns, NEW m \in Requests, Delete(c, m) PROVE R!Next
  <2>1. m \in Name /\ Unpublish(m)
    BY <1>4, ReactorAssumption DEF Delete
  <2> QED BY <1>2, <2>1, DeleteImplements, RegistryNames DEF R!Next, R!Withdraw
<1> QED
  BY <1>3, <1>4
  DEF vars, Next, Handler, Restart, Accept, Close, ReadOnlyRequest, BeginUpload, RefuseUpload,
      ReceiveBody, FailBody, HashExits, RejectBody, RefuseName, FailAfterCheck, CollectGarbage,
      Collect, storeVars

\* Seen from outside, the daemon is a write-once map: staging, hashing,
\* sharing of blobs, collection, calls that fail to write and restarts are not
\* visible, as long as the directory can be read.
THEOREM DaemonImplementsRegistry == ASSUME ~ReadFaults PROVE Spec => ImplementsRegistry
<1>1. Init => R!Init
  BY RegistryNames DEF Init, R!Init, Served
<1>2. Spec => []ReactorInv
  BY InitIsSound, StepIsSound, PTL DEF Spec
<1> QED BY <1>1, <1>2, StepImplements, PTL DEF Spec, ImplementsRegistry, R!Spec

(***************************************************************************)
(* The gate.  A signature found when the headers arrive is still published *)
(* when the body has been hashed, or a DELETE took the last one since:     *)
(* that holds for the pushes under way as it does for the entries.         *)
(***************************************************************************)
Covered(n) == Signed(n) \/ n \in withdrawn

SignedInv ==
  /\ \A n \in Name : link[n] # None /\ NeedsSignature(n) => Covered(n)
  /\ \A c \in Conns : Uploading(c) /\ NeedsSignature(conn[c].up_name)
                       => Covered(Canonical(conn[c].up_name))

\* A name and its canonical spelling have the same signatures, and are asked
\* for them alike (needs_signature(), store_signature_name()).
LEMMA CanonicalIsSignedAlike ==
  ASSUME NEW n \in Name
  PROVE  /\ Canonical(SignatureName(Canonical(n))) = Canonical(SignatureName(n))
         /\ NeedsSignature(Canonical(n)) <=> NeedsSignature(n)
<1>1. Canonical(n) \in Name /\ Canonical(Canonical(n)) = Canonical(n)
  BY CanonicalIsName, CanonicalIsFixpoint DEF IsCanonical
<1>2. Canonical(SignatureName(Canonical(n))) = SignatureName(Canonical(Canonical(n)))
  BY <1>1, SignatureOfName
<1>3. Canonical(SignatureName(n)) = SignatureName(Canonical(n))
  BY SignatureOfName
<1>4. NeedsSignature(Canonical(n)) <=> NeedsSignature(n)
  BY DEF NeedsSignature, Canonical, Name
<1> QED BY <1>1, <1>2, <1>3, <1>4

\* Spellings of one canonical name are signed alike.
LEMMA SignedAlike ==
  ASSUME NEW n \in Name, NEW m \in Name, Canonical(n) = Canonical(m)
  PROVE  (Signed(n) <=> Signed(m)) /\ (NeedsSignature(n) <=> NeedsSignature(m))
<1>1. Canonical(SignatureName(n)) = Canonical(SignatureName(m))
  BY SignatureOfName
<1>2. NeedsSignature(n) <=> NeedsSignature(m)
  BY CanonicalIsSignedAlike
<1> QED BY <1>1, <1>2 DEF Signed

\* The gate opens only for a name that is signed, whatever its lookup could
\* not read.
LEMMA GateFindsSignature ==
  ASSUME NEW n, NEW U, GateOpen(n, U), NeedsSignature(n)
  PROVE  Signed(n)
BY DEF GateOpen, LookupError, Found, Signed

\* What was signed stays signed, or its last signature is withdrawn; and what
\* passes the gate again is signed.
LEMMA CoveredStays ==
  ASSUME ReactorInv, Next, NEW n \in Name, NeedsSignature(n), Covered(n)
  PROVE  Covered(n)'
<1>1. Candidates(Canonical(SignatureName(n))) \subseteq Name
  BY CandidatesAreNames, CanonicalIsName, SignatureOfName
<1>2. CASE UNCHANGED <<link, withdrawn>>
  BY <1>2 DEF Covered, Signed
<1>3. ASSUME NEW c \in Conns, FinishUpload(c) PROVE Covered(n)'
  <2>1. PICK m \in Requests, d \in Digest : m = conn[c].up_name /\ d = conn[c].up_digest
    BY <1>3 DEF FinishUpload, Reaped, ReactorInv, UploadInv, Uploading
  <2>2. PICK U : link' = PublishedLink(blobs \cup {d}, m, d, U)
    BY <1>3, <2>1 DEF FinishUpload
  <2>3. m \in Name /\ withdrawn' = withdrawn
    BY <1>3, ReactorAssumption DEF FinishUpload
  <2>4. \A s \in Name : link[s] # None => link'[s] # None
    BY <2>2, <2>3, PublishedLinkGrows DEF ReactorInv, TypeOK, StoreInv
  <2> QED BY <1>1, <2>3, <2>4 DEF Covered, Signed
<1>4. ASSUME NEW c \in Conns, NEW m \in Requests, Delete(c, m) PROVE Covered(n)'
  <2>1. withdrawn' = withdrawn \cup {x \in Name : NeedsSignature(x) /\ Signed(x) /\ ~Signed(x)'}
    BY <1>4 DEF Delete
  <2>2. Signed(n) /\ ~Signed(n)' => n \in withdrawn'
    BY <2>1
  <2>3. n \in withdrawn => n \in withdrawn'
    BY <2>1
  <2> QED BY <2>2, <2>3 DEF Covered
<1>5. ASSUME NEW c \in Conns, NEW m \in Requests, NEW d \in Digest, BeginUpload(c, m, d)
      PROVE  Covered(n)'
  <2>1. UNCHANGED link /\ withdrawn' = {x \in withdrawn : Canonical(x) # Canonical(m)}
    BY <1>5 DEF BeginUpload, storeVars
  <2>2. Signed(n) => Signed(n)'
    BY <2>1 DEF Signed
  <2>3. PICK U : GateOpen(m, U)
    BY <1>5 DEF BeginUpload
  <2>4. CASE Canonical(n) = Canonical(m)
    <3>1. m \in Name
      BY ReactorAssumption
    <3>2. NeedsSignature(m)
      BY <2>4, <3>1, SignedAlike
    <3>3. Signed(m)
      BY <2>3, <3>2, GateFindsSignature
    <3> QED BY <2>2, <2>4, <3>1, <3>3, SignedAlike DEF Covered
  <2>5. CASE Canonical(n) # Canonical(m)
    BY <2>1, <2>2, <2>5 DEF Covered
  <2> QED BY <2>4, <2>5
<1> QED
  BY <1>2, <1>3, <1>4, <1>5
  DEF Next, Handler, Restart, Accept, Close, ReadOnlyRequest, RefuseUpload,
      ReceiveBody, FailBody, HashExits, RejectBody, RefuseName, FailAfterCheck, CollectGarbage,
      Collect, storeVars

\* A push under way was under way before, for the same name, or has just
\* passed the gate.
LEMMA UploadsGoOn ==
  ASSUME ReactorInv, Next, NEW k \in Conns, Uploading(k)'
  PROVE  \/ Uploading(k) /\ conn'[k].up_name = conn[k].up_name
         \/ \E n \in Requests :
              /\ conn'[k].up_name = n
              /\ NeedsSignature(n) => Signed(n)
              /\ UNCHANGED link
<1> USE DEF Uploading, ReactorInv, TypeOK
<1>1. ASSUME NEW c \in Conns, Accept(c) \/ Close(c) PROVE Uploading(k) /\ conn'[k] = conn[k]
  BY <1>1 DEF Accept, Close, Fresh, ConnRecord
<1>2. ASSUME NEW c \in Conns, Respond(c) PROVE Uploading(k) /\ conn'[k] = conn[k]
  BY <1>2 DEF Respond, ConnRecord
<1>3. ASSUME NEW c \in Conns, NEW path, AfterHash(c, path) PROVE Uploading(k) /\ conn'[k] = conn[k]
  BY <1>3 DEF AfterHash, ConnRecord
<1>4. ASSUME NEW c \in Conns, HashExits(c)
      PROVE  Uploading(k) /\ conn'[k].up_name = conn[k].up_name
  BY <1>4 DEF HashExits, ConnRecord
<1>5. ASSUME NEW c \in Conns, NEW n \in Requests, NEW d \in Digest, BeginUpload(c, n, d)
      PROVE  \/ Uploading(k) /\ conn'[k] = conn[k]
             \/ conn'[k].up_name = n /\ (NeedsSignature(n) => Signed(n)) /\ UNCHANGED link
  <2>1. PICK U : GateOpen(n, U)
    BY <1>5 DEF BeginUpload
  <2>2. NeedsSignature(n) => Signed(n)
    BY <2>1, GateFindsSignature
  <2> QED BY <1>5, <2>2 DEF BeginUpload, storeVars
<1>6. ASSUME NEW c \in Conns, NEW e \in Digest, ReceiveBody(c, e)
      PROVE  Uploading(k) /\ conn'[k].up_name = conn[k].up_name
  <2>1. conn[c] \in ConnRecord
    OBVIOUS
  <2>2. conn'[c].up_name = conn[c].up_name
    BY <1>6, <2>1, StartHashIsTyped DEF ReceiveBody
  <2>3. conn[c].state = "RECV_BODY" /\ (k # c => conn'[k] = conn[k])
    BY <1>6 DEF ReceiveBody
  <2> QED BY <2>2, <2>3
<1>7. CASE Restart
  BY <1>7 DEF Restart, Fresh
<1> QED
  BY <1>1, <1>2, <1>3, <1>4, <1>5, <1>6, <1>7
  DEF Next, Handler, ReadOnlyRequest, RefuseUpload, FailBody, RejectBody, RefuseName, FinishUpload,
      FailAfterCheck, Delete, CollectGarbage

\* An entry was there before, or is the canonical name of a push under way.
LEMMA EntriesComeFromUploads ==
  ASSUME ReactorInv, Next, NEW n \in Name, link'[n] # None
  PROVE  \/ link[n] # None
         \/ \E c \in Conns : Uploading(c) /\ n = Canonical(conn[c].up_name)
<1>1. ASSUME NEW c \in Conns, FinishUpload(c), link[n] = None
      PROVE  Uploading(c) /\ n = Canonical(conn[c].up_name)
  BY <1>1 DEF FinishUpload, Reaped, Uploading, PublishedLink, ReactorInv, TypeOK, StoreTypeOK
<1>2. ASSUME NEW c \in Conns, NEW m \in Requests, Delete(c, m) PROVE link[n] # None
  BY <1>2 DEF Delete, Unpublish, Unlink
<1>3. CASE UNCHANGED link
  BY <1>3
<1> QED
  BY <1>1, <1>2, <1>3
  DEF Next, Handler, Restart, Accept, Close, ReadOnlyRequest, BeginUpload, RefuseUpload,
      ReceiveBody, FailBody, HashExits, RejectBody, RefuseName, FailAfterCheck, CollectGarbage,
      Collect, storeVars

\* Every step keeps entries and pushes covered.
LEMMA StepKeepsSigned ==
  ASSUME ReactorInv, SignedInv, Next
  PROVE  SignedInv'
<1>1. ASSUME NEW n \in Name, link'[n] # None, NeedsSignature(n) PROVE Covered(n)'
  <2>1. CASE link[n] # None
    BY <1>1, <2>1, CoveredStays DEF SignedInv
  <2>2. ASSUME NEW c \in Conns, Uploading(c), n = Canonical(conn[c].up_name) PROVE Covered(n)'
    <3>1. PICK m \in Name : m = conn[c].up_name
      BY <2>2, ReactorAssumption DEF ReactorInv, UploadInv
    <3>2. NeedsSignature(m)
      BY <1>1, <2>2, <3>1, CanonicalIsSignedAlike
    <3>3. Covered(n)
      BY <2>2, <3>1, <3>2 DEF SignedInv
    <3> QED BY <1>1, <3>3, CoveredStays
  <2> QED BY <1>1, <2>1, <2>2, EntriesComeFromUploads
<1>2. ASSUME NEW k \in Conns, Uploading(k)', NEW m \in Name, m = conn'[k].up_name, NeedsSignature(m)
      PROVE  Covered(Canonical(m))'
  <2>1. Canonical(m) \in Name /\ NeedsSignature(Canonical(m))
    BY <1>2, CanonicalIsName, CanonicalIsSignedAlike
  <2>2. CASE Uploading(k) /\ conn'[k].up_name = conn[k].up_name
    <3>1. Covered(Canonical(m))
      BY <1>2, <2>2 DEF SignedInv
    <3> QED BY <2>1, <3>1, CoveredStays
  <2>3. CASE Signed(m) /\ UNCHANGED link
    <3>1. Canonical(Canonical(m)) = Canonical(m)
      BY CanonicalIsFixpoint DEF IsCanonical
    <3>2. Signed(Canonical(m))
      BY <2>1, <2>3, <3>1, SignedAlike
    <3>3. Signed(Canonical(m))'
      BY <2>3, <3>2 DEF Signed
    <3> QED BY <3>3 DEF Covered
  <2> QED BY <1>2, <2>2, <2>3, UploadsGoOn
<1>3. ASSUME NEW k \in Conns, Uploading(k)' PROVE conn'[k].up_name \in Name
  BY <1>3, StepIsSound, ReactorAssumption DEF ReactorInv, UploadInv
<1>4. ASSUME NEW k \in Conns, Uploading(k)', NeedsSignature(conn'[k].up_name)
      PROVE  Covered(Canonical(conn[k].up_name))'
  <2>1. PICK m \in Name : m = conn'[k].up_name
    BY <1>3, <1>4
  <2>2. Covered(Canonical(m))'
    BY <1>2, <1>4, <2>1
  <2> QED BY <2>1, <2>2 DEF Covered, Signed
<1> QED BY <1>1, <1>4 DEF SignedInv

\* An artifact the policy wants signed is published only while a signature that
\* its gate accepts is, or after a DELETE has taken the last such signature
\* and before the gate has passed an upload of it again: several handlers lie
\* between the gate and the publication, and no push, collection, failing call,
\* unreadable entry or restart among them opens another way in.
THEOREM GateHolds == Spec => []SignedOrWithdrawn
<1>1. Init => SignedInv
  BY DEF Init, SignedInv, Uploading, Fresh
<1>2. ReactorInv /\ SignedInv /\ [Next]_vars => ReactorInv' /\ SignedInv'
  <2>1. ReactorInv /\ SignedInv /\ UNCHANGED vars => SignedInv'
    BY DEF vars, storeVars, reactorVars, SignedInv, Covered, Signed, Uploading
  <2> QED BY <2>1, StepIsSound, StepKeepsSigned
<1>3. SignedInv => SignedOrWithdrawn
  BY DEF SignedInv, Covered, SignedOrWithdrawn
<1> QED BY <1>1, <1>2, <1>3, InitIsSound, PTL DEF Spec

(***************************************************************************)
(* The files under tmp/.  With failing calls a body may be forgotten there *)
(* and a restart forgets them all; but no connection ever touches the file *)
(* of another.                                                             *)
(***************************************************************************)

\* What a handler does to paths: it leaves them alone, takes a free one, fills
\* its own, or gives its own up and perhaps removes the file.
LEMMA StepOnPaths ==
  ASSUME ReactorInv, NEW c \in Conns, Handler(c)
  PROVE  /\ \A k \in Conns \ {c} : conn'[k].up_path = conn[k].up_path
         /\ \/ conn'[c].up_path = conn[c].up_path /\ tmp' = tmp
            \/ /\ conn'[c].up_path \in TmpPath /\ tmp[conn'[c].up_path] = None
               /\ tmp' = [tmp EXCEPT ![conn'[c].up_path] = Partial]
               /\ conn[c].state = "READ_REQUEST"
            \/ /\ conn'[c].up_path = conn[c].up_path
               /\ \E e \in Digest : tmp' = [tmp EXCEPT ![conn[c].up_path] = e]
            \/ /\ conn'[c].up_path = NoPath
               /\ tmp' = [p \in TmpPath |-> IF p = conn[c].up_path THEN None ELSE tmp[p]]
            \/ IOFaults /\ conn'[c].up_path = NoPath /\ tmp' = tmp
<1> USE DEF ReactorInv, TypeOK
<1>1. ASSUME NEW n \in Requests, NEW d \in Digest, BeginUpload(c, n, d)
      PROVE  /\ \A k \in Conns \ {c} : conn'[k].up_path = conn[k].up_path
             /\ conn'[c].up_path \in TmpPath /\ tmp[conn'[c].up_path] = None
             /\ tmp' = [tmp EXCEPT ![conn'[c].up_path] = Partial]
             /\ conn[c].state = "READ_REQUEST"
  BY <1>1 DEF BeginUpload
<1>2. ASSUME NEW e \in Digest, ReceiveBody(c, e)
      PROVE  /\ \A k \in Conns : conn'[k].up_path = conn[k].up_path
             /\ tmp' = [tmp EXCEPT ![conn[c].up_path] = e]
  BY <1>2 DEF ReceiveBody, ConnRecord
<1>3. ASSUME \/ Accept(c) \/ ReadOnlyRequest(c) \/ FailBody(c) \/ HashExits(c) \/ RejectBody(c)
             \/ \E n \in Requests : RefuseUpload(c, n) \/ Delete(c, n)
             \/ CollectGarbage(c)
      PROVE  (\A k \in Conns : conn'[k].up_path = conn[k].up_path) /\ tmp' = tmp
  BY <1>3
  DEF Accept, ReadOnlyRequest, FailBody, HashExits, RejectBody, RefuseUpload, Delete,
      CollectGarbage, Respond, AfterHash, ConnRecord
<1>4. ASSUME Close(c) \/ RefuseName(c) \/ FinishUpload(c) \/ FailAfterCheck(c)
      PROVE  /\ \A k \in Conns \ {c} : conn'[k].up_path = conn[k].up_path
             /\ conn'[c].up_path = NoPath
             /\ \/ tmp' = [p \in TmpPath |-> IF p = conn[c].up_path THEN None ELSE tmp[p]]
                \/ IOFaults /\ tmp' = tmp
  BY <1>4
  DEF Close, RefuseName, FinishUpload, FailAfterCheck, Discard, AfterHash, Fresh
<1> QED BY <1>1, <1>2, <1>3, <1>4 DEF Handler

\* A path is a connection's own from begin_upload() until it is given up.
LEMMA StepKeepsPaths ==
  ASSUME ReactorInv, PathsAreOwn, [Next]_vars
  PROVE  PathsAreOwn'
<1>1. ASSUME NEW c \in Conns, Handler(c) PROVE PathsAreOwn'
  <2>1. \A k \in Conns : conn[k].up_path \in TmpPath \cup {NoPath}
    BY DEF ReactorInv, TypeOK, ConnRecord
  <2> QED BY <1>1, <2>1, StepOnPaths, ReactorAssumption, DigestAssumption
    DEF PathsAreOwn, ReactorInv, TypeOK
<1>2. CASE Restart
  BY <1>2 DEF Restart, Fresh, PathsAreOwn
<1>3. CASE UNCHANGED vars
  BY <1>3 DEF vars, reactorVars, PathsAreOwn
<1> QED BY <1>1, <1>2, <1>3 DEF Next

\* No upload touches the staged file of another, whatever fails and however
\* often the daemon is restarted over the files an earlier one left in tmp/.
THEOREM UploadsAreApart == Spec => []PathsAreOwn
<1>1. Init => PathsAreOwn
  BY DEF Init, PathsAreOwn, Fresh
<1>2. ReactorInv /\ PathsAreOwn /\ [Next]_vars => ReactorInv' /\ PathsAreOwn'
  BY StepIsSound, StepKeepsPaths
<1> QED BY <1>1, <1>2, InitIsSound, PTL DEF Spec

\* A connection that waits for a request has nothing staged.
WaitingInv == \A c \in Conns : conn[c].state \in {"CLOSED", "READ_REQUEST"} => conn[c].up_path = NoPath

\* Without failures every handler that gives up a path removes its file.
LEMMA StepKeepsStaged ==
  ASSUME ReactorInv, StagedIsOwned, WaitingInv, [Next]_vars, ~IOFaults, ~Crashes
  PROVE  StagedIsOwned' /\ WaitingInv'
<1>1. PathsAreOwn'
  BY StepKeepsPaths DEF StagedIsOwned
<1>2. ASSUME NEW c \in Conns, Handler(c) PROVE StagedIsOwned' /\ WaitingInv'
  <2>1. \A k \in Conns : conn[k].up_path \in TmpPath \cup {NoPath}
    BY DEF ReactorInv, TypeOK, ConnRecord
  <2>2. \A k \in Conns \ {c} : conn'[k] = conn[k]
    BY <1>2
    DEF ReactorInv, TypeOK, Handler, BeginUpload, ReceiveBody, Accept, ReadOnlyRequest, FailBody,
        HashExits, RejectBody, RefuseUpload, Delete, CollectGarbage, Respond, AfterHash, Close,
        RefuseName, FinishUpload, FailAfterCheck
  <2>3. conn'[c].state \in {"CLOSED", "READ_REQUEST"} => conn'[c].up_path = NoPath
    <3> USE DEF ReactorInv, TypeOK, WaitingInv, ConnRecord
    <3>1. CASE Accept(c) \/ HashExits(c)
      BY <3>1 DEF Accept, HashExits
    <3>2. CASE Close(c)
      BY <3>2 DEF Close, Fresh
    <3>3. CASE RejectBody(c) \/ RefuseName(c) \/ FinishUpload(c) \/ FailAfterCheck(c)
      BY <3>3 DEF RejectBody, RefuseName, FinishUpload, FailAfterCheck, AfterHash
    <3>4. ASSUME NEW n \in Requests, NEW d \in Digest,
                 BeginUpload(c, n, d)
          PROVE  conn'[c].state = "RECV_BODY"
      BY <3>4 DEF BeginUpload
    <3>5. CASE ReadOnlyRequest(c) \/ FailBody(c) \/ CollectGarbage(c) \/
               \E n \in Requests : RefuseUpload(c, n) \/ Delete(c, n)
      BY <3>5 DEF ReadOnlyRequest, FailBody, CollectGarbage, RefuseUpload, Delete, Respond
    <3>6. ASSUME NEW d \in Digest, ReceiveBody(c, d)
          PROVE  conn'[c].state = "HASHING"
      BY <3>6 DEF ReceiveBody
    <3> QED BY <1>2, <3>1, <3>2, <3>3, <3>4, <3>5, <3>6 DEF Handler
  <2>4. WaitingInv'
    BY <2>2, <2>3 DEF WaitingInv
  <2>5. ASSUME NEW p \in TmpPath, tmp'[p] # None PROVE \E k \in Conns : conn'[k].up_path = p
    BY <1>2, <2>1, <2>5, StepOnPaths, ReactorAssumption
    DEF StagedIsOwned, WaitingInv, ReactorInv, TypeOK
  <2> QED BY <1>1, <2>4, <2>5 DEF StagedIsOwned
<1>3. CASE UNCHANGED vars
  BY <1>3 DEF vars, reactorVars, PathsAreOwn, StagedIsOwned, WaitingInv
<1> QED BY <1>2, <1>3 DEF Next, Restart

\* A daemon whose system calls do not fail leaves nothing in tmp/ for which no
\* open connection is responsible.
THEOREM NothingIsLeftStaged == ASSUME ~IOFaults, ~Crashes PROVE Spec => []StagedIsOwned
<1>1. Init => StagedIsOwned /\ WaitingInv
  BY DEF Init, StagedIsOwned, PathsAreOwn, WaitingInv, Fresh
<1>2. ReactorInv /\ StagedIsOwned /\ WaitingInv /\ [Next]_vars
        => ReactorInv' /\ StagedIsOwned' /\ WaitingInv'
  BY StepIsSound, StepKeepsStaged
<1> QED BY <1>1, <1>2, InitIsSound, PTL DEF Spec

\* The lookup before the adoption decides as store_publish() will: nothing is
\* adopted for a name that is then refused.
LEMMA AdoptionIsNamed ==
  ASSUME ReactorInv, [Next]_vars, ~IOFaults, ~ReadFaults
  PROVE  blobs' \ blobs \subseteq Live({})'
<1>1. ASSUME NEW c \in Conns, FinishUpload(c) PROVE blobs' \ blobs \subseteq Live({})'
  <2>1. PICK n \in Requests, d \in Digest : n = conn[c].up_name /\ d = conn[c].up_digest
    BY <1>1 DEF FinishUpload, Reaped, ReactorInv, UploadInv, Uploading
  <2>2. d \in Hits(Canonical(n))'
    BY <1>1, <2>1, PublishedIsHit
  <2>3. Candidates(Canonical(n)) \subseteq Name
    BY CanonicalIsName, CandidatesAreNames, ReactorAssumption
  <2>4. d \in Live({})'
    BY <2>2, <2>3 DEF Hits, Live, Found
  <2> QED BY <1>1, <2>1, <2>4 DEF FinishUpload
<1>2. ASSUME NEW c \in Conns, FailAfterCheck(c) PROVE FALSE
  <2>1. ~Refused(c, {}) /\ PublishError(blobs \cup {conn[c].up_digest}, conn[c].up_name, conn[c].up_digest, {}) # "OK"
    BY <1>2, EverythingIsRead DEF FailAfterCheck
  <2> QED BY <2>1 DEF Refused, PublishError
<1>3. ASSUME blobs' \subseteq blobs PROVE blobs' \ blobs \subseteq Live({})'
  BY <1>3
<1>4. CASE Next
  BY <1>1, <1>2, <1>3, <1>4
  DEF Next, Handler, Restart, Accept, Close, ReadOnlyRequest, BeginUpload, RefuseUpload,
      ReceiveBody, FailBody, HashExits, RejectBody, RefuseName, Delete, Unpublish, CollectGarbage,
      Collect, storeVars
<1> QED BY <1>3, <1>4 DEF vars, storeVars

\* Bytes enter blobs/ only with a name for them, unless a system call fails: a
\* push refused for whatever became of its name while its body was received
\* and hashed leaves nothing to collect.
THEOREM AdoptionsAreNamed == ASSUME ~IOFaults, ~ReadFaults PROVE Spec => AdoptedIsNamed
<1>1. ReactorInv /\ [Next]_vars => [blobs' \ blobs \subseteq Live({})']_vars
  BY AdoptionIsNamed
<1>2. ReactorInv /\ [Next]_vars => ReactorInv'
  BY StepIsSound
<1> QED BY <1>1, <1>2, InitIsSound, PTL DEF Spec, AdoptedIsNamed

=============================================================================
