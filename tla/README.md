# cix-cache in TLA+

cix-cache is a content-addressed artifact registry: one C daemon (`cixcached`)
that accepts signed and unsigned packages over HTTP, stores each byte sequence
once, and serves it under one or several names. This directory holds a TLA+
model of it, the TLC configurations that check the model on small instances,
and TLAPS proofs about it for instances of any size.

Paths below are relative to the repository (`src/store.c` is the daemon's
source file).

## The system

| part | state it keeps | operations | what makes it correct |
|---|---|---|---|
| names (`src/store.c`) | none | canonical form, architecture, signature name, lookup candidates | canonical form is a fixpoint; every spelling of a name leads to one entry |
| store (`src/store.c`) | `blobs/<sha256>`, `packages/<name>` symlinks, `tmp/` | adopt, publish, resolve, open, unpublish, gc, canonicalize, set-arch | no entry without its blob; a name means one byte sequence until it is deleted |
| request handlers (`src/main.c`) | per connection: upload name, digest, staged path, hash child | GET/HEAD, PUT, DELETE, gc, import, listings | what a 201 promised is served; nothing unsigned gets in; nothing is left in `tmp/` |
| event loop (`src/main.c`) | `g_conns`, the epoll interest list and batch, `g_pending_free`, timeouts | accept, read, write, close, sweep, reap | no record is used after it is freed; every connection ends |
| importer (`src/importer.c`) | a scan of `packages/` in a process of its own | hash, adopt, publish every regular file | every exported name ends up published; the server's names are not disturbed |
| activity ring (`src/main.c`, `cli/src/main.c`) | a ring of numbered log lines; a follower's cursor | append, read after a number, follow | a follower catches up, misses nothing it could have had, repeats nothing |
| version order, listing, manifest, totals (`src/store.c`, `src/main.c`, `src/manifest.c`) | none | compare, group, rank, count | each artifact once; ranks follow versions; the answer does not depend on `readdir()` |
| HTTP framing (`src/http.c`, `src/main.c`) | header buffer, bytes staged | feed, find the end of the headers, take the body | the answer does not depend on how the network cuts the bytes |
| client library, `cixcachectl` (`client/`, `cli/`) | attempts, the answer | request, retry, publish, report | what is reported is what happened |
| configuration, JSON, dashboard, deployment | settings | parsing and formatting | tested and fuzzed by the repository |

How the parts meet. The event loop calls one handler at a time, on one thread,
so handlers are atomic with respect to each other, but a push is many of them:
its headers, its body, the exit of a forked `sha256sum`, the publication, the
response. Handlers call the store. The importer is forked by a handler (or run
by hand) and works on the same directories with no lock: there the store's
system calls interleave with the server's. The client sends a request again
when its answer is lost, whether or not the daemon has carried it out. Maintenance (canonicalize, set-arch)
runs offline, on a store that may hold the spellings of older releases.

What is hard. Names are not one-to-one with entries: a release may be spelled
several ways, and a name without an architecture is answered by any one of
several entries. The signature gate looks at one moment and the publication
happens at another. Deletes, collections and stamping change what a name could
be answered by. Two processes share the directories. Records of the event loop
are closed while a batch that mentions them is being walked. Names are rewritten
into buffers of 256 bytes. Requests arrive in pieces. The hazards, each
at its line, are listed in `PROJECT.json`.

## The modules

| module | models | composed from |
|---|---|---|
| `StoreNames` | names as the store reads them | |
| `Store` | the store; each library call is one step | `StoreNames` |
| `Registry` | the abstract promise: a write-once map | `StoreNames` |
| `Reactor` | the request handlers over the store; refines `Registry` | `Store`, `Registry` |
| `Importing` | importer and server, one system call per step | `Store` |
| `EventLoop` | records, epoll batches, timeouts, children | |
| `NameText` | the text of a name: suffix, architecture, release, version order, lengths | |
| `NamedStore` | the store's directory with texts for names; refines `Store` | `NameText`, `Store` |
| `Listing` | artifacts, manifest and status over that directory | `NamedStore` |
| `Framing` | how a request is put together from reads | |
| `Client` | `cixcachectl`, its retries, the activity ring and its follower | |
| `MC...` | small instances of these for TLC | |
| `StoreNamesProofs`, `StoreProofs`, `ReactorProofs`, `ImportingProofs`, `EventLoopProofs`, `FramingProofs`, `ClientProofs`, `NamedStoreProofs` | theorems and their proofs | the module of that name |

**StoreNames.** A name is a record: the package (base, version, suffix), the
release *as spelled* (absent, or a number of leading zeros and the digits after
them), the architecture if one is spelled, and whether the suffix is a signature's. That is what
`store_canonical_name()`, `store_arch_of()` and `store_signature_name()` read
out of the string; two spellings of one release stay two names, because they
are two files. `Canonical` adds release 1 to a versioned name without one,
drops leading zeros, and never adds an architecture. `Candidates` is what
`store_resolve_as()` looks at.

**Store.** `blobs` is the set of digests with a file, `link` and `file` are the
entries of `packages/` (a symlink, or a regular file before an import).
`ResolveError`, `OpenError`, `PublishError` and `UnpublishError` are the error
codes of the calls; `AdoptAndPublish`, `Unpublish`, `Collect`, `Canonicalize`
and `SetArch` the calls that change something, whole: the renames of the
maintenance commands are collected first and applied in any order of
`readdir()`. With `IOFaults` any `rename()`, `symlink()` and `unlink()` may
fail. With `ReadFaults` any `readlink()` and `readdir()` may: the set `U` of
`LookupError(n, U)`, `Found` and `Live(U)` is what goes unread, and the code
takes it for an absent entry (a probe for an architecture), for an I/O error
(the canonical path), or for something that is not there to be walked. `stat()`,
`lstat()`, `access()` and `open()` are assumed to say what is on disk.

**Reactor.** `conn` holds the part of `struct conn` a push uses, `tmp` the
staged files. One action per handler and outcome: `BeginUpload`/`RefuseUpload`
(headers and gate), `ReceiveBody`, `HashExits`, and then `finish_upload()` as
`RejectBody` (the body is not what was declared), `RefuseName` (the name means
other bytes), `FinishUpload` (201) or `FailAfterCheck` (failures after the
check). `Close` may happen at any time: hangup, error, timeout. `acked` and
`withdrawn` are history variables that no guard reads: what was promised by a
201, and the artifacts whose last signature, of those their gate accepts, a
DELETE has taken, until a push of them passes the gate again. Requests that
change nothing (lookups, listings, refusals) are one step that responds.
`Restart` is SIGTERM or SIGKILL, after which the directories are as the last
system call left them. A power failure is not modelled: the code never calls
`fsync()`, and what it acknowledged need not be on disk.

**Importing.** Two processes with a program counter each. A step is one system
call on the shared directories with the computation up to the next: `access`,
`unlink` or `rename` of a body, `stat` of the blob, the lookup, the `rename`
that publishes; the two unlinks of a delete; the entries of the collector's
walk and the unlinks of its sweep; `lstat`, hash, adopt, publish of the
importer. `via` records that a "blob" is really a symlink, which `rename()` of
a path that changed under the importer can bring about. With `ReadFaults` the
walk may pass over an entry (`unread`) or end early. `disturbed` is a
history variable: whether an import and a collection have run at once, and
whether an import has been killed; the promises that survive neither say so.

**EventLoop.** A record is an address in `rec`; `g_conns`, `g_pending_free`,
`interest` (what epoll knows), `batch` and `cursor` are everything that refers
to one. A turn is `Wait`, the events in any order, the sweep record by record,
and the freeing. A handler is what it does to records: it leaves the record
open in some state, creates a child, or closes. How far a transfer has got is
`left`, a number of chunks.

**Registry.** A map from names to bytes in which a name that means nothing, and
has no candidate that means anything, may be given bytes, and a name may be
withdrawn together with its signature. Nothing else.

**NameText.** A text is a sequence of symbols: digits and punctuation one by
one, because the grammar looks at them, and every other word as one symbol with
a width in bytes. `SuffixOf`, `ArchOf`, `ReleaseOf`, `CanonicalText`,
`SignatureText` and `Display` are the functions of `src/store.c` that take a
string apart and put it together again, with the check of every `snprintf()`
the code checks; `VersionCmp` and `CmpByVersion` the comparators, as orders on
the runs `part_cmp()` reads. A comparison symbol by symbol is `strcmp()` as
long as no word begins another.

**NamedStore.** `dir` is `packages/` with texts for names. `Publish`,
`Unpublish`, `Canonicalize` and `SetArch` are those of `Store` with the parsing
and the lengths put back; `Probed` cuts a probe off where the code does. Its
names (`Texts`) are the valid ones among those that are written, with every
canonical form, signature name and stamped name that the store makes of them
and that fits; the proofs show that this set is closed under making more.
`Abstract` is `Store` under the mapping that reads every text (`Read`), and
`ImplementsStore` says that every step is one of `Store`'s: this is what makes
it sound that the other modules begin with names already parsed. What the
parser makes of the names is a constant, `Parsed`, which `ParsedAssumption`
says is the table of the parser's operators (`ParseAll`); `Compared` in
`Listing` is the same for the comparators. TLC then parses every name once.

**Listing.** Adds the time of publication and the last answer. A handler reads
the directory in any order (`Walks`), filters, sorts, groups, ranks and sums
as the code does. Of the JSON only the values are kept. `ByAge` is the
reference for ranks: the stems of the instance, oldest first, written down by
hand.

**Framing.** Of the bytes only their number matters: `req` says how long the
headers are, how many bytes arrive and what the daemon will object to; `Read`
takes between one byte and a buffer full. `Deserved` is the reference: the
answer to the same bytes seen at once.

**Client.** The daemon is what the other modules show it to be, a write-once
map that handles a request in one step, plus `server_log()` and `api_log()`
and how many lines each request leaves. A DELETE that is refused may have done
half its work: `store_unpublish()` unlinks the signature first, and answers 404
or 400 when the artifact is not there or cannot be unlinked (`DeleteAnswers`).
A client has an attempt under way,
which may end without a status line before or after the daemon handled it
(`Retry`, `GiveUp`), and the follower may get an answer that ends after its
status line (`ShowCut`). `effects`, `strayed` (what refused requests have
removed), `broken`, `shown`, `repeated`, `from`, `skipped` and `cut` are
histories. Left out: a connection that stays open and silent (the client reads
without a timeout and would wait for ever), and the follower that stops because
it was answered with an error status.

Mutants (`Mut...`) stand before the definition they vary: a plausible mistake
in the code, under which the property it is paired with in `PROJECT.json` is
violated. They are used by nothing else.

The type invariants of `Store`, `Reactor`, `Importing`, `EventLoop`, `Framing`,
`Client` and `NamedStore` are proved; those of `Importing` and `EventLoop` are
also checked by their runs. That of `Listing` holds on the instance of its run
and is kept out of it (add `INVARIANT TypeOK` to check it).

## The runs

Passing:

| run | module | instance | shows |
|---|---|---|---|
| `store_renames` | `MCStore` | 1 versioned package in its canonical and two other spellings, with and without an architecture, any of them in the directory to begin with; 2 digests, failing calls that write | `NoDangling`, `MeaningIsStable`, `StampingIsInvisible`, `RenamesLoseNothing` |
| `reactor_arches` | `MCReactor` | 2 connections, 1 artifact under an alias and for 2 architectures, no failures | `NoDangling`, `AckedIsServed`, `StagedIsOwned`, `AdoptedIsNamed`, `ImplementsRegistry` |
| `reactor_faults` | `MCReactor` | 2 connections, a bare artifact that needs a signature, its signature with and without an architecture; failing calls that write, restarts | `AckedIsServed`, `SignedOrWithdrawn`, `ImplementsRegistry` |
| `importing` | `MCImporting` | 2 exported packages, 1 pushed; collections and kills at any point | `EntriesHaveBlobs` and `ImportIsComplete` as far as nothing disturbed the import; `PushesSurviveImport` whatever did |
| `loop_safe` | `MCEventLoop` | 4 records, failing calls | `NoStaleEvent`, `SweepOnList`, `ChildOfOwner`, `HashingIsWatched` |
| `loop_live` | `MCEventLoop` | 2 records, transfers of 2 chunks, timeouts of 1 and 2 seconds, failing calls | `EveryConnectionEnds`, `ImportIsNoticed` |
| `names` | `MCNamedStore` | names of 3 to 255 bytes: one whose canonical form does not fit, one whose signature cannot be stamped, two spellings of a release; up to 2 legacy entries, 3 in all | `CanonicalIsClosed`, `LookupsAgree`, `ImplementsStore` |
| `listing` | `MCListing` | up to 3 of 13 entries (7 stems, 3 formats, signatures, a stem that sorts inside another's encodings), 2 seconds | `ListingIsExact`, `RankIsAge`, `ManifestIsDetermined`, `StatusAddsUp` |
| `framing` | `MCFraming` | header cap 3, body cap 3, reads of up to 6, headers and bodies on both sides of the caps, up to 2 flaws | `SplitDoesNotMatter`, `BufferIsBounded`, `EverythingIsAnswered` |
| `client` | `MCClient` | an operator (delete, gc, import), a builder (publish, an artifact and its signature) and a follower; ring of 2, 2 attempts, 2 commands, 2 broken connections, 1 restart, failing calls | `ReportIsTrue`, `NothingMissed`, `NothingRepeated`, `CommandsReturn`, `CatchesUp` |

Violated: what a comment or document says and the code does not do. Both are
findings in `PROJECT.json`, with the text they contradict.

| run | what happens |
|---|---|
| `import_clobber` | importer and server publish one name; the later `rename()` replaces what a 201 promised |
| `manifest_signature` | the manifest names a signature file that does not exist, because the lookup was answered by another architecture's signature |

Further disagreements of this kind have a configuration of their own, for
anyone who wants to see the trace (`tlc -config <cfg> <module>`). Each line
names what is contradicted:

| configuration | module, property | what the repository says | what happens |
|---|---|---|---|
| `MCStoreReadError.cfg` | `MCStore`, `NoDangling` | a dangling symlink "should not be reachable, and if it is, it is a bug worth seeing" (`docs/adr/0001-content-addressed-artifact-store.md`:113-115) | `store_walk()` takes a failing `readdir()` for the end of the directory (`src/store.c`:981) and passes over an entry whose `readlink()` fails (1002), returns 0, and `store_gc()` frees the bytes of the names it has not seen |
| `MCReactorArchGate.cfg` | `MCReactor`, `GateFindsOwnSignature` | the gate "does promise the signature this finds was published for the name it is about to accept" (`src/main.c`:772-773) | the lookup of a bare signature is answered by any architecture's: with only that of `pkg-x86_64` published, a push of bare `pkg` passes |
| `MCReactorGate.cfg` | `MCReactor`, `UnsignedNeverPublished` | "Some suffixes may not be published unsigned" (`src/main.c`:759) | the signature is deleted while the body uploads; the artifact is published unsigned |
| `MCImportSymlink.cfg` | `MCImporting`, `BlobHoldsItsBytes` | `blobs/<sha256>` is "the bytes, mode 0444" (`docs/adr/0001-content-addressed-artifact-store.md`:58) | the name is deleted and published between the importer's hash and its `rename()`: the new symlink is moved into `blobs/` under the digest of the deleted file |
| `MCImportDangling.cfg` | `MCImporting`, `NoDangling` | as for `MCStoreReadError.cfg` | a collection during an import frees a blob that has just been named |
| `MCImportKilled.cfg` | `MCImporting`, `Imported` | "so a re-run after an interruption resumes" (`include/importer.h`:10) | an import killed between move and publication has lost the name; a second import finds no file |
| `MCNameDelete.cfg` | `MCNamedStore`, `DeleteTakesSignature` | "an alias-named delete removes the canonically named signature rather than missing it" (`src/store.c`:892-894) | a DELETE through an alias of more than 247 bytes (a leading zero in the release) has no signature name: the artifact goes, its signature stays |

Two more are consequences of what the code documents, not contradictions:
`MCStoreStamp.cfg` (`MCStore`, `SignatureStaysWithArtifact`: set-arch skips an
artifact whose target is taken and moves its signature to the other artifact)
and `MCClientTwice.cfg` (`MCClient`, `AtMostOneEffect`: a DELETE whose 204 was
lost is sent again and deletes what was published in between).

Met while modelling and visible in the same models, without a run of their own:

- a bare name that resolves through an architecture's entry cannot be deleted
  by that name: `UnpublishError` looks at the canonical entry alone (404);
- the gate accepts a signature published for any architecture, so
  `SignedOrWithdrawn` says of an artifact only that its gate would find *a*
  signature; that it is its own does not hold (`MCReactorArchGate.cfg`);
- a DELETE of an artifact that is not there removes its signature, and answers
  404 (`strayed` in `ReportIsTrue`);
- an import that `epoll_add()` failed for is never noticed to have ended, and
  no other can be started (`ImportIsNoticed` is about the ones epoll knows of);
- canonicalize settles two disagreeing non-canonical spellings of one name by
  `readdir()` order (`CanonicalizedLink`);
- a failed `rename()` into `blobs/` leaves the staged file in `tmp/` with no
  connection to remove it (`FailAfterCheck`), so `StagedIsOwned` is stated for
  a daemon whose system calls succeed;
- the importer moves a file into `blobs/` before it knows whether its name will
  be published, and if it is not (`import_clobber` reaches this), the bytes are
  left without a name;
- the probes of `store_resolve_as()` are not checked for length: a bare
  signature name of 255 bytes with an architecture put in is cut off, and what
  is left may be the name of an artifact, which then answers for the signature
  (`CutOff`; `LookupsAgree` is about the lookups where nothing is cut);
- set-arch can rename a non-canonical legacy entry of 246 or 247 bytes to a
  name that has no canonical form and is therefore out of reach;
- bytes that follow a body and are read together with its headers are staged
  with it, so a push that would be accepted is refused (`SplitDoesNotMatter`
  makes the exception explicit);
- an answer cut off after its status line counts as a success: a listing prints
  nothing, and the follower starts over from 0 (`NothingRepeated` excepts it);
- after a restart the follower's old cursor hides the new daemon's first lines
  (`skipped` in `NothingMissed`);
- a stem that itself ends in a suffix (`foo.iso.tar.gz`) is read as a name by
  `rank_identities()`, which ranks and shows `foo`.

**Bounds.** Two digests are enough to disagree, and three or four spellings of
one package to have aliases, candidates and signatures; packages do not
interact except through shared blobs, which two digests over several names
give. Two connections give every interleaving of two pushes, or of a push with
a delete or a collection; a third only repeats them. Four records give two
clients, one of them with a hash child, beside an import. `MaxLegacy` bounds
the entries of an old directory (publishing adds more), `MaxEntries` what a
directory of texts may hold: three entries have two encodings of one stem with
one between them, or an artifact, a signature and another architecture. The
lengths of `names` are the real ones: the limit is 255 bytes, and `LongName`
puts the interesting operations on both sides of it. `LOG_RING` and the caps of
`framing` are small so that bursts and reads go past them; the code uses them
only to compare and take remainders. `MaxCommands`, `MaxBreaks` and `MaxBoots`
bound what a behaviour of `client` may contain. `Chunks` the reads and
writes of one transfer, `Addr` the memory. Symmetry is over connections,
staging paths, digests and addresses, none of which the model orders.

**Deadlock** is checked in every run but two: a request ends (`framing`), and a
`client` behaviour ends when its commands are given and its follower has
stopped. Elsewhere the system can always take a step.

**Fairness.** In `loop_live` the loop goes on (`epoll_wait()` returns within a
second and no handler blocks), so its steps are weakly fair; time passes,
however many events there are, so a wait that lasts a second is strongly fair;
an import ends. Nothing is assumed of peers, and a hash need not return. In
`framing` the loop reads what is there and notices the end of a hash: the event
loop's own model shows that it does, or closes the connection; nothing is
assumed of the peer. In `client` the daemon answers a request that reached it
and the clients go on running; nothing is assumed of connections but that
finitely many fail, and nothing of restarts, imports or what users do.

## The proofs

`StoreNamesProofs` proves that the canonical form of a name is a name and a
fixpoint, and that the candidates of a canonical name are canonical names.

`StoreProofs` proves, for every set of packages, spellings, architectures and
digests, with or without failing calls:

- `StoreNeverDangles`: `~ReadFaults => (StoreSpec => [](StoreTypeOK /\ NoDangling))`,
  a part of `StoreIsSound` (`StoreSpec => []StoreInv`, where `StoreInv` is
  `StoreTypeOK /\ (~ReadFaults => NoDangling)`). The hypothesis is needed: see
  `MCStoreReadError.cfg`. The invariant is inductive as it stands. One lemma per call: publishing names
  bytes that are in `blobs`; deleting removes names; the collector removes only
  what no symlink mentions; a rename moves a target that was there before.
- `MeaningNeverChanges`: `StoreSpec => MeaningIsStable`, whichever calls fail,
  those that read included. A step can only add
  hits to a name (then it keeps its meaning or becomes ambiguous), unless it
  deletes one of the name's candidates; a renamed entry stays among the
  candidates of every name it could answer before.
- `StampingNeverShows`: `StoreSpec => StampingIsInvisible`. Stamping moves an
  entry from one candidate of a bare name to another, so the set of hits is
  the same before and after.
- `RenamesKeepEveryName`: `StoreSpec => RenamesLoseNothing`, for finitely many
  names (they are at most 255 bytes long). Each call comes with a map that says
  where an entry goes and one that says where an entry came from; they are
  inverse to each other on the entries of one digest, because a rename's target
  is free and no two renames share it (`MovesKeepNumber`).

`ReactorProofs` proves, for any number of connections, staging paths, names and
digests, with or without failing calls that write and restarts; the first, the
second and the fourth for a directory that can be read (`~ReadFaults`), since
all three are about bytes the collector must not free:

- `DaemonNeverDangles`: `Spec => [](TypeOK /\ NoDangling)`. The inductive
  invariant `ReactorInv` adds that a push under way still has the name, digest
  and path its headers recorded (`UploadInv`: `finish_upload()` uses them
  several handlers later) and that the daemon makes no regular files
  (`NoFiles`).
- `AcksAreKept`: `Spec => []AckedIsServed`. `AckedIsServed` is not inductive: a
  name that has become ambiguous says nothing of which bytes are among its
  answers. `AckInv` does: a promised digest stays among the hits of its name.
  The directory only grows, except by a DELETE, and one that reaches the name
  ends the promise.
- `GateHolds`: `Spec => []SignedOrWithdrawn`, with failing reads too. An
  artifact is `Covered` while its gate would find a signature or a DELETE has
  taken the last one it would find. The signature is looked for when the
  headers arrive and needed when the body is published, so `SignedInv` says of
  pushes under way what the property says of entries: each is `Covered`. Only a
  DELETE takes signatures away, and then records what it withdrew
  (`CoveredStays`); a push that passes the gate ends that record, and has found
  a signature (`GateFindsSignature`).
- `DaemonImplementsRegistry`: `Spec => ImplementsRegistry`. By `NoDangling` the
  map a user sees (`Served`) is `link`; `finish_upload()` is a `Publish` of the
  canonical name or a stutter, a DELETE, whole or stopped between its two
  unlinks, a `Withdraw` of the artifact or of the signature alone, and
  everything else a stutter.

- `UploadsAreApart`: `Spec => []PathsAreOwn`, no two connections stage into one
  file; and from it `NothingIsLeftStaged`: `Spec => []StagedIsOwned` for a
  daemon that neither crashes nor sees a system call fail. `StagedIsOwned`
  needs `WaitingInv` (a connection that waits for a request has no path): the
  headers of the next push put a new path over the old one.
- `AdoptionsAreNamed`: `Spec => AdoptedIsNamed` without failures of any kind. The lookup
  that `finish_upload()` makes before it adopts is the one `store_publish()`
  makes after, because nothing comes between.

`ImportingProofs` is about two processes on one directory, for any names and
digests and any interleaving of their system calls. `import_clobber` shows what
happens when both work on one name, so the theorems assume that they do not.
These are hypotheses of the theorems and not of the module, since the run needs
instances without them; they hold in the run `importing`:

- `FilesApart`: neither an import nor a push or delete writes a path that a
  lookup of one of the other's names considers. For `PromisesSurviveImport`,
  `PushesApart` in addition: no package is pushed both with and without an
  architecture (its bare name would become ambiguous, with no import involved).
  For `ImportLosesNothing`, `ExportsApart`: no name is exported in two
  spellings (`store_publish()` would refuse the second).
- `~ReadFaults`, in all of them: the collector's walk can read the directory.
- `ImportIsSafe` (`Spec => []EntriesHaveBlobs`) and `ImportStateIsWellFormed`
  (`Spec => []TypeOK`), both parts of `ImportIsSound` (`Spec => []ImportInv`).
  The invariant `ImportInv` follows what each process knows between two of its
  system calls: from the hash to the move the importer's file is still there
  and is the one it hashed (`ImporterInv`); a digest that is about to be
  published has its blob (`ServerInv`; for the importer until a collection has
  run beside it); the regular files are those of the export, unchanged
  (`FileInv`); the collector's live set holds what its walk has read, for the
  server's own names whatever the importer does, for all names when no import
  runs (`WalkInv`).
- `PromisesSurviveImport`: `Spec => []PushesSurviveImport`, also while an
  import and a collection overlap: `AckInv` says that the promised entry is the
  only one a lookup of its name finds, and `WalkInv` that the sweep has seen
  it. It also says that a push about to `rename()` still has its name free:
  the lookup and the `rename()` are two steps.
- `ImportLosesNothing`: `Spec => []ImportIsComplete`. `ExportInv` says where
  the bytes of an exported name are: in their file, in the importer's hands
  between the move and the `rename()`, or published. A kill is exactly what
  empties the importer's hands, which is why `disturbed` excepts it.

`EventLoopProofs` proves, for any number of records, timeouts and transfer
sizes, from one inductive invariant, `LoopInv` (`LoopIsSound`):

- `NoUseAfterFree` (`NoStaleEvent`), `SweepStaysOnList` (`SweepOnList`),
  `HashEndsAgree` (`ChildOfOwner`), `HashesAreAnswered` (`HashingIsWatched`)
  and `LoopStateIsWellFormed` (`TypeOK`).
- None of them is inductive. The list holds every open record once and the
  pending list the dead ones (`ListInv`). A hash child comes before its owner
  in `g_conns` (`FamilyInv`): this is why the sweep, which stands on an owner
  and has saved the next record, does not lose its place when the close of the
  owner closes the child too. Events exist only in the batch and a cursor only
  in the sweep (`TurnInv`), and a client whose time is up is one that the sweep
  has still to reach (`ClockInv`).

`FramingProofs` proves, for every cap, buffer size and request,
`AnswerIsDeserved` (`SplitDoesNotMatter`) and `BufferStaysBounded`. `FramingInv`
says for each state what has been read, what is in the buffer and what is
staged: everything read after the headers, or, when it shared a read with them,
more than the body, the exception that `SplitDoesNotMatter` names.

`ClientProofs` proves, for any number of clients, commands, broken connections
and restarts, and a ring of any size, from `ClientInv` (`ClientIsSound`):

- `ReportsAreTrue`: `CallInv` counts, for a command under way, the attempts made
  and those that were lost, which bound the effects it can have had; `StrayInv`
  says that all a refused request has removed is the signature of the name a
  DELETE was given.
- `FollowerIsFaithful` (`NothingMissed`) and `FollowerPrintsOnce`
  (`NothingRepeated`): the ring holds the last `LOG_RING` lines, each in its
  slot (`RingInv`, from the fact that two numbers less than N apart differ
  modulo N); an answer on its way is about the cursor the follower still has
  and misses nothing the ring held (`ReplyInv`); nothing past the cursor has
  been printed (`CursorInv`).

`NamedStoreProofs` is about the parser: whatever names are written, of whatever
words, architectures and lengths,

- `DirIsWellFormed`: `DirSpec => []DirTypeOK`, no call writes an entry that
  `store_name_is_valid()` would refuse;
- `NamesAreClosed`: `DirSpec => []CanonicalIsClosed`, no two entries read as one
  name, and a canonical form is valid and its own canonical form;
- `LookupsAreFaithful`: `DirSpec => []LookupsAgree`, a lookup none of whose
  probes is cut off answers what `Store` answers;
- `TextsImplementNames`: `DirSpec => ImplementsStore`.

The last one has a hypothesis, `AliasSignaturesFit`: where the signature of a
canonical name fits into 255 bytes, so does that of each of its spellings. It
is needed: `MCNameDelete.cfg` is an instance without it, in which a DELETE
through the longer spelling leaves the signature behind, a step `Store` does
not have. It holds in the run `names`, where the signature of a name fits in
all of its spellings or in none.

The argument. A text with a known suffix is read in one way as base, release,
architecture and suffix (`TextIsSpelled`, `PartsAreRead`), so two texts that
read as one name are one text (`ReadingIsInjective`). What the store makes of a
text spells the same parts with one of them changed: the release
(`CanonicalSpells`), the suffix (`SignatureSpells`), the architecture
(`StampSpells`). Lengths add up (`SizeOfConcat`), so whether a text made in
several steps fits does not depend on their order, and the tables are closed
(`TextsAreClosed`). The invariant, `DirInv`, then only has to say that entries
are texts of the tables and point at digests. Each call
is the one of `Store` on what the texts read as: `PublishImplements`,
`UnpublishImplements`, `CanonicalizeImplements`, `SetArchImplements`, where a
rename that is refused for its length is one that `Store` lets fail. A fact
about every length of a text (`Size`, the zeros and the digits of a release)
is proved by its least counterexample (`LeastExists`), because the library's
induction theorems cannot be instantiated here.

The inductive invariants were checked by TLC on the instances of the runs
before they were proved.

All proofs rest on the assumptions named in the modules: `NamesAssumption`
(the packages with a version and those that need a signature are packages, no
release other than the absent one lacks digits, unpadding a release gives a
release), `DigestAssumption`, `ReactorAssumption` and `ImportingAssumption`
(the markers for "nothing" are not values, requests are names),
`EventLoopAssumption` (idle connections time out no later than transfers),
`FramingAssumption` and `ClientAssumption` (caps, ring and attempts are
positive numbers), `TextAssumption` (no symbol occurs twice, the ones the store
writes are among them, each has a length, digits and separators that of one
byte, and an architecture is neither), `WrittenAssumption` (names are written
in these symbols) and `ParsedAssumption` (the tables are the parser's). TLC evaluates them in every run. The other hypotheses are
written in the theorems that need them: those on names above, `IsFiniteSet(Name)`,
and that calls which read, or any system calls, do not fail, or the daemon does
not crash.

Only model-checked: the liveness properties (`EveryConnectionEnds`,
`ImportIsNoticed`, `EverythingIsAnswered`, `CommandsReturn`, `CatchesUp`:
fairness and `ENABLED` are out of the prover's reach) and everything about
`Listing` (`ListingIsExact`, `RankIsAge`, `ManifestIsDetermined`,
`StatusAddsUp`): its answers are folds over sequences sorted with `SortSeq`,
which the prover knows nothing of, and what the folds compute for every input
needs an induction over data. `RankIsAge` also compares with an order written
down for the instance.

## Not modelled, and the plan

Not modelled: character-level parsing of HTTP headers, of the configuration
(`require_signature` included; its result is a constant) and of JSON; the
formatting of answers and of the CLI's output; static files, the dashboard and
the deployment scripts: pure functions of their input or presentation, which
the repository tests and fuzzes. In `Listing`, entries whose blob is missing
(they are listed with no size) and failing allocations; in the instances,
versions that contain an architecture's name, which `part_cmp()` would read as
letters and digits. Children that are dropped and never waited for are not
counted.

Left to do, in order:

1. The parts of `Listing` that hold whatever the sort computes, from a sort
   specified by its result.
2. The theorems of `StoreProofs` read through `TextsImplementNames`: what they
   say of names, said of texts.
