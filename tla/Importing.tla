----------------------------- MODULE Importing -----------------------------
(***************************************************************************)
(* The importer (src/importer.c) beside the daemon: two processes on one   *)
(* store, with no lock between them.  POST /api/v1/import forks the        *)
(* importer, and the reactor goes on serving, publishing, deleting and     *)
(* collecting while it runs; cixcached --import is the same code started   *)
(* by hand.                                                                *)
(*                                                                         *)
(* So the library calls of Store.tla are taken apart here: one step is one *)
(* system call on the shared directories, together with the computation up *)
(* to the next one.  Two simplifications: a lookup of one name (a few      *)
(* readlink()s) is one step, and so is the creation of the temporary       *)
(* symlink together with the rename() that publishes it, since nobody else *)
(* touches the temporary.                                                  *)
(***************************************************************************)
EXTENDS Store

CONSTANTS
  Files,       \* the names under which a regular file may await import
  Pushes       \* the names clients push and delete

ASSUME ImportingAssumption == Files \subseteq Name /\ Pushes \subseteq Name

VARIABLES
  via,         \* via[d]: the digest blobs/<d> links to, if it is a symlink
  proc,        \* the two processes: what each is about to do, and with what
  seen,        \* the names the importer's readdir() has returned
  live,        \* the collector's live set so far
  unread,      \* the names its walk has still to read
  export,      \* history: the bytes that awaited import under each name,
               \*   until a client deletes the name
  acked,       \* history: what a 201 promised under a name, until a DELETE
  disturbed    \* history: of "overlap", an import and a collection have run at
               \*   once, and "kill", an import has been killed

processVars == <<proc, seen, live, unread, export, acked, disturbed>>
vars == <<storeVars, via, processVars>>

Server == "server"
Importer == "importer"

PC == {"idle", "check", "hash", "access", "drop", "move", "exists", "resolve",
       "rename", "unlink_sig", "unlink", "walk", "sweep", "scan"}

TypeOK ==
  /\ StoreTypeOK
  /\ via \in [Digest -> Digest \cup {None}]
  /\ proc \in [{Server, Importer} ->
                 [pc : PC, name : Name \cup {None}, digest : Digest \cup {None}]]
  /\ seen \in SUBSET Name
  /\ live \in SUBSET Digest
  /\ unread \in SUBSET Name
  /\ export \in [Name -> Digest \cup {None}]
  /\ acked \in [Name -> Digest \cup {None}]
  /\ disturbed \subseteq {"overlap", "kill"}

\* A process between two calls holds no name.
Between(pc) == [pc |-> pc, name |-> None, digest |-> None]

\* A static export put into packages/, over an empty store: each of Files is
\* there or not.
Init ==
  /\ blobs = {}
  /\ link = [n \in Name |-> None]
  /\ file \in {f \in [Name -> Digest \cup {None}] : \A n \in Name \ Files : f[n] = None}
  /\ proc = [p \in {Server, Importer} |-> Between("idle")]
  /\ via = [d \in Digest |-> None]
  /\ seen = {} /\ live = {} /\ unread = {}
  /\ export = file
  /\ acked = [n \in Name |-> None]
  /\ disturbed = {}

At(p, pc) == proc[p].pc = pc

\* The next step of the call a process is in, and the end of the call.
Goto(p, pc) ==
  proc' = IF pc \in {"idle", "scan"} THEN [proc EXCEPT ![p] = Between(pc)]
          ELSE [proc EXCEPT ![p].pc = pc]

\* Where a process goes after a publication: the server to its next request,
\* the importer to the next directory entry.
Done(p) == IF p = Server THEN "idle" ELSE "scan"

historyVars == <<export, acked, disturbed>>
scanVars == <<seen, live, unread>>

(***************************************************************************)
(* store_blob_adopt(): access(), then unlink() or rename() of the body.    *)
(* The server's body is its own staged file; the importer's is             *)
(* packages/<name> itself.                                                 *)
(***************************************************************************)
\* stat(), access() and open() follow a symlink; a longer chain than one does
\* not come up with two racing processes.
BlobExists(d) == d \in blobs /\ (via[d] # None => via[d] \in blobs)

AdoptAccess(p) ==
  /\ At(p, "access")
  /\ Goto(p, IF BlobExists(proc[p].digest) THEN "drop" ELSE "move")
  /\ UNCHANGED <<storeVars, via, scanVars, historyVars>>

Gone(n) ==
  /\ link' = [link EXCEPT ![n] = None]
  /\ file' = [file EXCEPT ![n] = None]

\* Mutant of AdoptDrop: a duplicate is dropped and its name forgotten.
MutDropUnnamed(p) ==
  /\ At(p, "drop")
  /\ IF p = Importer THEN Gone(proc[p].name) ELSE UNCHANGED <<link, file>>
  /\ Goto(p, Done(p))
  /\ UNCHANGED <<blobs, via, scanVars, historyVars>>

\* The bytes are there already: the body is unlinked, whatever that path is
\* by now and whether or not it still is anything.
AdoptDrop(p) ==
  /\ At(p, "drop")
  /\ IF p = Importer THEN Gone(proc[p].name) ELSE UNCHANGED <<link, file>>
  /\ Goto(p, "exists")
  /\ UNCHANGED <<blobs, via, scanVars, historyVars>>

\* rename() into blobs/.  The server moves the file it staged.
MoveStaged ==
  LET d == proc[Server].digest IN
  /\ At(Server, "move")
  /\ blobs' = blobs \cup {d}
  /\ via' = [via EXCEPT ![d] = None]
  /\ Goto(Server, "exists")
  /\ UNCHANGED <<link, file, scanVars, historyVars>>

\* The importer moves packages/<name>, and the file it hashed may by now be
\* gone (the rename() fails), or replaced by a symlink that a client published:
\* then it is the symlink that goes into blobs/.  One that points at its own
\* new path is as good as nothing there.
MoveFile ==
  LET n == proc[Importer].name  d == proc[Importer].digest IN
  /\ At(Importer, "move")
  /\ \/ /\ file[n] # None
        /\ blobs' = blobs \cup {d}
        /\ via' = [via EXCEPT ![d] = None]
        /\ Gone(n)
        /\ Goto(Importer, "exists")
     \/ /\ link[n] # None
        /\ blobs' = IF link[n] = d THEN blobs \ {d} ELSE blobs \cup {d}
        /\ via' = [via EXCEPT ![d] = IF link[n] = d THEN None ELSE link[n]]
        /\ Gone(n)
        /\ Goto(Importer, "exists")
     \/ /\ ~Present(n)
        /\ Goto(Importer, "scan")
        /\ UNCHANGED <<storeVars, via>>
  /\ UNCHANGED <<scanVars, historyVars>>

(***************************************************************************)
(* store_publish(): stat() of the blob, the lookup, the rename().          *)
(***************************************************************************)
PublishExists(p) ==
  /\ At(p, "exists")
  /\ Goto(p, IF BlobExists(proc[p].digest) THEN "resolve" ELSE Done(p))
  /\ UNCHANGED <<storeVars, via, scanVars, historyVars>>

Promise(p) ==
  acked' = IF p = Server THEN [acked EXCEPT ![proc[p].name] = proc[p].digest] ELSE acked

\* A lookup of n that cannot read U answers with digest d.
Finds(n, d, U) == LookupError(n, U) = "OK" /\ d \in Found(Canonical(n), U)

PublishResolve(p) ==
  /\ At(p, "resolve")
  /\ \E U \in Readings(proc[p].name) :
       IF LookupError(proc[p].name, U) = "NOT_FOUND"
       THEN Goto(p, "rename") /\ UNCHANGED acked
       ELSE /\ Goto(p, Done(p))
            /\ IF Finds(proc[p].name, proc[p].digest, U) THEN Promise(p) ELSE UNCHANGED acked
  /\ UNCHANGED <<storeVars, via, scanVars, export, disturbed>>

\* rename() replaces whatever is at the path.
PublishRename(p) ==
  /\ At(p, "rename")
  /\ link' = [link EXCEPT ![Canonical(proc[p].name)] = proc[p].digest]
  /\ file' = [file EXCEPT ![Canonical(proc[p].name)] = None]
  /\ Promise(p)
  /\ Goto(p, Done(p))
  /\ UNCHANGED <<blobs, via, scanVars, export, disturbed>>

(***************************************************************************)
(* The server: finish_upload() for a body that matches what was declared,  *)
(* DELETE, and the collector.                                              *)
(***************************************************************************)
StartPut(n, d) ==
  /\ At(Server, "idle")
  /\ proc' = [proc EXCEPT ![Server] = [pc |-> "check", name |-> n, digest |-> d]]
  /\ UNCHANGED <<storeVars, via, scanVars, historyVars>>

\* The lookup before the adoption: a refused push keeps nothing.
CheckPut ==
  /\ At(Server, "check")
  /\ \E U \in Readings(proc[Server].name) :
       Goto(Server,
            IF \/ LookupError(proc[Server].name, U) = "NOT_FOUND"
               \/ Finds(proc[Server].name, proc[Server].digest, U)
            THEN "access" ELSE "idle")
  /\ UNCHANGED <<storeVars, via, scanVars, historyVars>>

StartDelete(n) ==
  /\ At(Server, "idle")
  /\ proc' = [proc EXCEPT ![Server] = [pc |-> "unlink_sig", name |-> n, digest |-> None]]
  /\ UNCHANGED <<storeVars, via, scanVars, historyVars>>

Withdrawn(h, S) == [n \in Name |-> IF Canonical(n) \in S THEN None ELSE h[n]]

DeleteSignature ==
  /\ At(Server, "unlink_sig")
  /\ Unlink(SignatureTarget(proc[Server].name))
  /\ export' = Withdrawn(export, SignatureTarget(proc[Server].name))
  /\ acked' = Withdrawn(acked, SignatureTarget(proc[Server].name))
  /\ Goto(Server, "unlink")
  /\ UNCHANGED <<blobs, via, scanVars, disturbed>>

DeleteArtifact ==
  /\ At(Server, "unlink")
  /\ Unlink({Canonical(proc[Server].name)})
  /\ export' = Withdrawn(export, {Canonical(proc[Server].name)})
  /\ acked' = Withdrawn(acked, {Canonical(proc[Server].name)})
  /\ Goto(Server, "idle")
  /\ UNCHANGED <<blobs, via, scanVars, disturbed>>

\* store_gc(): a walk that reads the entries one by one ...
StartCollect ==
  /\ At(Server, "idle")
  /\ Goto(Server, "walk")
  /\ live' = {} /\ unread' = Name
  /\ disturbed' = IF At(Importer, "idle") THEN disturbed ELSE disturbed \cup {"overlap"}
  /\ UNCHANGED <<storeVars, via, seen, export, acked>>

\* Mutant of WalkEntry: the result of readlink() is not checked.
MutWalkUnchecked(n) ==
  /\ At(Server, "walk")
  /\ n \in unread
  /\ unread' = unread \ {n}
  /\ live' = live \cup {link[n]}
  /\ UNCHANGED <<storeVars, via, proc, seen, historyVars>>

\* An entry whose readlink() fails is passed over.
WalkEntry(n) ==
  /\ At(Server, "walk")
  /\ n \in unread
  /\ unread' = unread \ {n}
  /\ \E U \in Unread({n}) : live' = live \cup ({link[m] : m \in {n} \ U} \ {None})
  /\ UNCHANGED <<storeVars, via, proc, seen, historyVars>>

\* Mutant of WalkEnd: an entry that is a regular file ends the walk, instead of
\* being passed over.
MutWalkStops ==
  /\ At(Server, "walk")
  /\ unread = {} \/ \E n \in unread : file[n] # None
  /\ Goto(Server, "sweep")
  /\ UNCHANGED <<storeVars, via, scanVars, historyVars>>

\* An error of readdir() is taken for the end, here as in SweepEnd and ScanEnd.
WalkEnd ==
  /\ At(Server, "walk")
  /\ unread = {} \/ ReadFaults
  /\ Goto(Server, "sweep")
  /\ UNCHANGED <<storeVars, via, scanVars, historyVars>>

\* ... then an unlink() of each blob it did not see.
SweepBlob(d) ==
  /\ At(Server, "sweep")
  /\ d \in blobs \ live
  /\ blobs' = blobs \ {d}
  /\ via' = [via EXCEPT ![d] = None]
  /\ UNCHANGED <<link, file, processVars>>

SweepEnd ==
  /\ At(Server, "sweep")
  /\ blobs \subseteq live \/ ReadFaults
  /\ Goto(Server, "idle")
  /\ live' = {}
  /\ UNCHANGED <<storeVars, via, seen, unread, historyVars>>

(***************************************************************************)
(* The importer: import_dir() over packages/.                              *)
(***************************************************************************)
\* api_import_start(), a handler of the server; one import at a time.
StartImport ==
  /\ At(Importer, "idle")
  /\ At(Server, "idle")
  /\ Goto(Importer, "scan")
  /\ UNCHANGED <<storeVars, via, scanVars, historyVars>>

\* lstat() says a regular file; a symlink is counted as imported already.
ScanFile(n) ==
  /\ At(Importer, "scan")
  /\ n \notin seen /\ file[n] # None
  /\ seen' = seen \cup {n}
  /\ proc' = [proc EXCEPT ![Importer] = [pc |-> "hash", name |-> n, digest |-> None]]
  /\ UNCHANGED <<storeVars, via, live, unread, historyVars>>

ScanEnd ==
  /\ At(Importer, "scan")
  /\ (\A n \in Name : file[n] # None => n \in seen) \/ ReadFaults
  /\ Goto(Importer, "idle")
  /\ seen' = {}
  /\ UNCHANGED <<storeVars, via, live, unread, historyVars>>

\* sha256sum reads whatever the path leads to by now.
BytesAt(n) ==
  IF file[n] # None THEN file[n]
  ELSE IF link[n] # None /\ BlobExists(link[n]) THEN link[n] ELSE None

HashFile ==
  /\ At(Importer, "hash")
  /\ BytesAt(proc[Importer].name) # None
  /\ proc' = [proc EXCEPT ![Importer].pc = "access",
                          ![Importer].digest = BytesAt(proc[Importer].name)]
  /\ UNCHANGED <<storeVars, via, scanVars, historyVars>>

\* The file could not be hashed, or the export's MANIFEST.json records another
\* digest for it: it is left alone.
SkipFile ==
  /\ At(Importer, "hash")
  /\ Goto(Importer, "scan")
  /\ UNCHANGED <<storeVars, via, scanVars, historyVars>>

\* The importer is killed; what its system calls did is still there, and the
\* import may be started again.
KillImport ==
  /\ ~At(Importer, "idle")
  /\ Goto(Importer, "idle")
  /\ seen' = {}
  /\ disturbed' = disturbed \cup {"kill"}
  /\ UNCHANGED <<storeVars, via, live, unread, export, acked>>

Next ==
  \/ \E p \in {Server, Importer} :
       \/ AdoptAccess(p) \/ AdoptDrop(p)
       \/ PublishExists(p) \/ PublishResolve(p) \/ PublishRename(p)
  \/ \E n \in Pushes, d \in Digest : StartPut(n, d)
  \/ CheckPut \/ MoveStaged
  \/ \E n \in Pushes : StartDelete(n)
  \/ DeleteSignature \/ DeleteArtifact
  \/ StartCollect
  \/ \E n \in Name : WalkEntry(n)
  \/ WalkEnd
  \/ \E d \in Digest : SweepBlob(d)
  \/ SweepEnd
  \/ StartImport
  \/ \E n \in Name : ScanFile(n)
  \/ ScanEnd
  \/ HashFile \/ SkipFile \/ MoveFile
  \/ KillImport

Spec == Init /\ [][Next]_vars

(***************************************************************************)
(* Properties.                                                             *)
(***************************************************************************)

\* What a client was promised for its own names is not touched by an import of
\* other names, whatever bytes the two share, however their steps and those of
\* a collection interleave, and whenever the import is killed: the name still
\* resolves to the promised bytes and their blob is there.
PushesSurviveImport ==
  \A n \in Name : acked[n] # None =>
    ResolvesTo(n, acked[n]) /\ BlobExists(acked[n])

\* When an import that nothing disturbed has nothing left to do, every exported
\* name resolves to the bytes it had in the export: each file was moved into
\* blobs/ AND a symlink was left behind under its published name, whatever was
\* pushed and deleted meanwhile.
Imported ==
  At(Importer, "idle") /\ (\A n \in Name : file[n] = None) =>
    \A n \in Name : export[n] # None => ResolvesTo(n, export[n]) /\ BlobExists(export[n])

ImportIsComplete == disturbed = {} => Imported

\* Until an import and a collection have run at once no entry is left without
\* its blob: not by pushes and deletes during an import, and not by an import
\* killed between any two of its system calls.
EntriesHaveBlobs == "overlap" \notin disturbed => NoDangling

(***************************************************************************)
(* What comments and documents say, and the code does not do.              *)
(***************************************************************************)

\* "There is no single call that silently replaces content under a live name"
\* (docs/adr/0003): a name means one byte sequence from the moment a 201 says so,
\* and a publication by the other process does not replace it.
PromiseKept ==
  \A n \in Name : acked[n] # None /\ ResolveError(n) = "OK" => Meaning(n) = acked[n]

\* "<root>/blobs/<sha256>  the bytes, mode 0444" (docs/adr/0001): a blob is the
\* bytes it is named for, not a symlink to others.  Between the hash and the
\* rename() into blobs/ a client can delete the file and publish its name.
BlobHoldsItsBytes == \A d \in Digest : via[d] = None

=============================================================================
