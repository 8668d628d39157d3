-------------------------- MODULE ImportingProofs --------------------------
(***************************************************************************)
(* An import beside the daemon harms no other name, for any names, any     *)
(* bytes and any interleaving of the two processes' system calls.          *)
(*                                                                         *)
(* What goes wrong when the two work on one name is in the run             *)
(* import_clobber; the theorems assume that they work on different ones,   *)
(* in the sense of FilesApart, and that the directories can be read: with  *)
(* ReadFaults the collector alone frees the bytes of a name                *)
(* (MCStoreReadError.cfg).                                                 *)
(***************************************************************************)
EXTENDS Importing, StoreProofs

(***************************************************************************)
(* What the theorems assume of the names.                                  *)
(***************************************************************************)

\* Neither an import nor a push or delete writes a path that a lookup of one
\* of the other's names considers.
FilesApart ==
  \A f \in Files, m \in Pushes :
    /\ {f, Canonical(f)} \cap Candidates(Canonical(m)) = {}
    /\ UnpublishTargets(m) \cap ({f} \cup Candidates(Canonical(f))) = {}

\* No push or delete writes a path that a lookup of another pushed name
\* considers: no package is pushed both with and without an architecture.
PushesApart ==
  \A m, n \in Pushes : UnpublishTargets(m) \cap Candidates(Canonical(n)) \subseteq {Canonical(n)}

\* The same of the export: no name is in it twice, under two spellings.
ExportsApart ==
  \A f, g \in Files : f # g => {g, Canonical(g)} \cap Candidates(Canonical(f)) = {}

(***************************************************************************)
(* The invariant.                                                          *)
(***************************************************************************)
Holding == {"drop", "exists", "resolve", "rename"}

\* What each process is about to do, and with what.
ServerInv ==
  LET s == proc[Server] IN
  /\ s.pc \in {"check", "access", "move"} \cup Holding => s.name \in Pushes /\ s.digest \in Digest
  /\ s.pc \in {"unlink_sig", "unlink"} => s.name \in Pushes
  /\ s.pc \in Holding => s.digest \in blobs
  /\ s.pc \notin {"hash", "scan"}

ImporterInv ==
  LET i == proc[Importer] IN
  /\ i.pc \in {"idle", "scan", "hash", "access", "move"} \cup Holding
  /\ i.pc \notin {"idle", "scan"} => i.name \in Files
  /\ i.pc \in {"access", "move"} \cup Holding => i.digest \in Digest
  /\ i.pc \in {"hash", "access", "drop", "move"} => file[i.name] # None
  /\ i.pc \in {"access", "drop", "move"} => i.digest = file[i.name]
  /\ "overlap" \notin disturbed /\ i.pc \in Holding => i.digest \in blobs

\* Files lie only where the export put them, where no symlink is, and are as
\* they were.
FileInv ==
  \A n \in Name : file[n] # None => n \in Files /\ link[n] = None /\ file[n] = export[n]

\* The paths that lookups of pushed names consider.
Pushed == {x \in Name : \E m \in Pushes : x \in Candidates(Canonical(m))}

\* What the collector's walk has read is in its live set: what only the server
\* writes, and, when no import runs beside it, everything.
WalkInv ==
  /\ proc[Server].pc \in {"walk", "sweep"} =>
       /\ "overlap" \notin disturbed => proc[Importer].pc = "idle"
       /\ \A x \in Name \ unread : link[x] # None /\ (x \in Pushed \/ "overlap" \notin disturbed) =>
            link[x] \in live
  /\ proc[Server].pc = "sweep" => unread = {}

ImportInv ==
  /\ TypeOK /\ ServerInv /\ ImporterInv /\ FileInv /\ WalkInv
  /\ BlobHoldsItsBytes /\ EntriesHaveBlobs

\* What was promised is the one thing that a lookup finds.
AckInv ==
  /\ \A n \in Pushes : \A x \in Candidates(Canonical(n)) : link[x] # None => x = Canonical(n)
  /\ \A n \in Name : acked[n] # None =>
       n \in Pushes /\ link[Canonical(n)] = acked[n] /\ acked[n] \in blobs
  /\ proc[Server].pc = "rename" => link[Canonical(proc[Server].name)] = None

\* Where the bytes of an exported name are: in their file, in the importer's
\* hands, or published.
Publishing == {"exists", "resolve", "rename"}

Whereabouts(f) ==
  \/ file[f] # None /\ link[Canonical(f)] = None
  \/ /\ proc[Importer].name = f /\ proc[Importer].pc \in Publishing
     /\ link[Canonical(f)] = None
  \/ link[Canonical(f)] = export[f]

ExportInv ==
  /\ \A f \in Files : \A x \in Candidates(Canonical(f)) : link[x] # None => x = Canonical(f)
  /\ \A n \in Name : export[n] # None => n \in Files
  /\ proc[Importer].pc \in Publishing =>
       export[proc[Importer].name] \in {None, proc[Importer].digest}
  /\ disturbed = {} => \A f \in Files : export[f] # None => Whereabouts(f)

(***************************************************************************)
(* Names apart.                                                            *)
(***************************************************************************)

\* What FilesApart says of one file and one pushed name.
LEMMA ApartFacts ==
  ASSUME FilesApart, NEW f \in Files, NEW m \in Pushes
  PROVE  /\ f \in Name /\ Canonical(f) \in Name /\ m \in Name /\ Canonical(m) \in Name
         /\ f \notin Candidates(Canonical(m)) /\ Canonical(f) \notin Candidates(Canonical(m))
         /\ f # Canonical(m) /\ Canonical(f) # Canonical(m)
         /\ f \notin UnpublishTargets(m) /\ Canonical(f) \notin UnpublishTargets(m)
         /\ Candidates(Canonical(f)) \cap UnpublishTargets(m) = {}
<1>1. f \in Name /\ m \in Name
  BY ImportingAssumption
<1>2. Canonical(f) \in Name /\ Canonical(m) \in Name
  BY <1>1, CanonicalIsName
<1>3. Canonical(f) \in Candidates(Canonical(f)) /\ Canonical(m) \in Candidates(Canonical(m))
  BY <1>2, CandidatesAreNames
<1> QED BY <1>1, <1>2, <1>3 DEF FilesApart

\* No path of the export is one that a lookup of a pushed name considers.
LEMMA FilesAreNotPushed ==
  ASSUME FilesApart, NEW f \in Files
  PROVE  f \notin Pushed /\ Canonical(f) \notin Pushed
BY ApartFacts DEF Pushed

(***************************************************************************)
(* Steps that write nothing but a process's own state.                     *)
(***************************************************************************)

LEMMA GotoFacts ==
  ASSUME TypeOK, NEW p \in {Server, Importer}, NEW pc \in PC, Goto(p, pc)
  PROVE  /\ proc' \in [{Server, Importer} ->
                         [pc : PC, name : Name \cup {None}, digest : Digest \cup {None}]]
         /\ proc'[p].pc = pc
         /\ \A q \in {Server, Importer} : q # p => proc'[q] = proc[q]
         /\ pc \notin {"idle", "scan"} =>
              proc'[p].name = proc[p].name /\ proc'[p].digest = proc[p].digest
<1>1. CASE pc \in {"idle", "scan"}
  BY <1>1 DEF Goto, Between, TypeOK
<1>2. CASE pc \notin {"idle", "scan"}
  BY <1>2 DEF Goto, TypeOK
<1> QED BY <1>1, <1>2

\* A step that leaves the directories, the walk and the histories alone, and
\* does not let an import begin beside a collection.
LEMMA QuietKeeps ==
  ASSUME ImportInv, TypeOK', ServerInv', ImporterInv',
         UNCHANGED <<storeVars, via, live, unread, export, disturbed>>,
         \/ proc'[Server].pc \notin {"walk", "sweep"}
         \/ /\ proc'[Server] = proc[Server]
            /\ proc[Importer].pc = "idle" => proc'[Importer].pc = "idle"
  PROVE  ImportInv'
<1>1. FileInv' /\ BlobHoldsItsBytes' /\ EntriesHaveBlobs'
  BY DEF ImportInv, FileInv, BlobHoldsItsBytes, EntriesHaveBlobs, NoDangling, storeVars
<1>2. WalkInv'
  BY DEF ImportInv, WalkInv, storeVars
<1> QED BY <1>1, <1>2 DEF ImportInv

\* The system calls of store_blob_adopt() and store_publish() that only look.
LEMMA LooksKeep ==
  ASSUME ImportInv, NEW p \in {Server, Importer},
         AdoptAccess(p) \/ PublishExists(p) \/ PublishResolve(p)
  PROVE  ImportInv'
<1> USE DEF Server, Importer
<1>1. PICK pc \in PC :
        /\ Goto(p, pc)
        /\ \/ At(p, "access") /\ pc \in {"drop", "move"}
              /\ (pc = "drop" => proc[p].digest \in blobs)
           \/ At(p, "exists") /\ pc \in {"resolve", Done(p)}
              /\ (pc = "resolve" => proc[p].digest \in blobs)
           \/ At(p, "resolve") /\ pc \in {"rename", Done(p)}
  <2>1. {"drop", "move", "resolve", "rename", Done(p)} \subseteq PC
    BY DEF PC, Done
  <2>2. CASE AdoptAccess(p)
    BY <2>1, <2>2 DEF AdoptAccess, BlobExists
  <2>3. CASE PublishExists(p)
    <3>1. Done(p) # "resolve"
      BY DEF Done
    <3> QED BY <2>1, <2>3, <3>1 DEF PublishExists, BlobExists
  <2>4. CASE PublishResolve(p)
    BY <2>1, <2>4 DEF PublishResolve
  <2> QED BY <2>2, <2>3, <2>4
<1>2. UNCHANGED <<storeVars, via, seen, live, unread, export, disturbed>>
  BY DEF AdoptAccess, PublishExists, PublishResolve, scanVars, historyVars
<1>3. /\ proc' \in [{Server, Importer} ->
                      [pc : PC, name : Name \cup {None}, digest : Digest \cup {None}]]
      /\ proc'[p].pc = pc
      /\ \A q \in {Server, Importer} : q # p => proc'[q] = proc[q]
      /\ pc \notin {"idle", "scan"} =>
           proc'[p].name = proc[p].name /\ proc'[p].digest = proc[p].digest
  <2> HIDE DEF Server, Importer
  <2> QED BY <1>1, GotoFacts DEF ImportInv
<1>4. acked' \in [Name -> Digest \cup {None}]
  <2>1. CASE UNCHANGED acked
    BY <2>1 DEF ImportInv, TypeOK
  <2>2. CASE Promise(p)
    BY <2>2 DEF Promise, ImportInv, TypeOK
  <2> QED BY <2>1, <2>2 DEF AdoptAccess, PublishExists, PublishResolve, historyVars
<1>5. TypeOK'
  BY <1>2, <1>3, <1>4 DEF ImportInv, TypeOK, StoreTypeOK, storeVars
<1>6. ServerInv'
  BY <1>1, <1>2, <1>3 DEF ImportInv, ServerInv, Holding, At, Done, storeVars
<1>7. ImporterInv'
  BY <1>1, <1>2, <1>3 DEF ImportInv, ImporterInv, Holding, At, Done, storeVars
<1>8. \/ proc'[Server].pc \notin {"walk", "sweep"}
      \/ /\ proc'[Server] = proc[Server]
         /\ proc[Importer].pc = "idle" => proc'[Importer].pc = "idle"
  BY <1>1, <1>3 DEF At, Done
<1> QED BY <1>2, <1>5, <1>6, <1>7, <1>8, QuietKeeps DEF ImportInv

\* A request of the server begins, and the lookup before an adoption.
LEMMA RequestsKeep ==
  ASSUME ImportInv,
         \/ \E n \in Pushes, d \in Digest : StartPut(n, d)
         \/ \E n \in Pushes : StartDelete(n)
         \/ CheckPut
  PROVE  ImportInv'
<1> USE DEF Server, Importer
<1>1. UNCHANGED <<storeVars, via, seen, live, unread, export, acked, disturbed>>
  BY DEF StartPut, StartDelete, CheckPut, scanVars, historyVars
<1>2. PICK s \in [pc : {"check", "unlink_sig", "access", "idle"}, name : Name \cup {None},
                  digest : Digest \cup {None}] :
        /\ proc' = [proc EXCEPT ![Server] = s]
        /\ s.pc # "idle" => s.name \in Pushes
        /\ s.pc \in {"check", "access"} => s.digest \in Digest
  <2>1. CASE \E n \in Pushes, d \in Digest : StartPut(n, d)
    <3>1. PICK n \in Pushes, d \in Digest : StartPut(n, d)
      BY <2>1
    <3>2. [pc |-> "check", name |-> n, digest |-> d] \in
            [pc : {"check", "unlink_sig", "access", "idle"}, name : Name \cup {None},
             digest : Digest \cup {None}]
      BY ImportingAssumption
    <3> QED BY <3>1, <3>2 DEF StartPut
  <2>2. CASE \E n \in Pushes : StartDelete(n)
    <3>1. PICK n \in Pushes : StartDelete(n)
      BY <2>2
    <3>2. [pc |-> "unlink_sig", name |-> n, digest |-> None] \in
            [pc : {"check", "unlink_sig", "access", "idle"}, name : Name \cup {None},
             digest : Digest \cup {None}]
      BY ImportingAssumption
    <3> QED BY <3>1, <3>2 DEF StartDelete
  <2>3. CASE CheckPut
    <3>1. PICK pc \in {"access", "idle"} : Goto(Server, pc) /\ At(Server, "check")
      BY <2>3 DEF CheckPut
    <3>2. proc[Server].name \in Pushes /\ proc[Server].digest \in Digest
      BY <3>1 DEF ImportInv, ServerInv, At
    <3>3. CASE pc = "idle"
      <4> DEFINE s == Between("idle")
      <4>1. s.pc = "idle" /\ s \in [pc : {"check", "unlink_sig", "access", "idle"},
                                   name : Name \cup {None}, digest : Digest \cup {None}]
        BY DEF Between
      <4>2. proc' = [proc EXCEPT ![Server] = s]
        BY <3>1, <3>3 DEF Goto
      <4> HIDE DEF s
      <4> QED BY <4>1, <4>2
    <3>4. CASE pc = "access"
      <4> DEFINE s == [proc[Server] EXCEPT !.pc = "access"]
      <4>1. proc[Server] \in [pc : PC, name : Name \cup {None}, digest : Digest \cup {None}]
        BY DEF ImportInv, TypeOK
      <4>2. s.pc = "access" /\ s.name = proc[Server].name /\ s.digest = proc[Server].digest
            /\ s \in [pc : {"check", "unlink_sig", "access", "idle"}, name : Name \cup {None},
                      digest : Digest \cup {None}]
        BY <4>1
      <4>3. proc' = [proc EXCEPT ![Server] = s]
        BY <3>1, <3>4 DEF Goto
      <4> QED BY <3>2, <4>2, <4>3
    <3> QED BY <3>3, <3>4
  <2> QED BY <2>1, <2>2, <2>3
<1>3. proc'[Server] = s /\ proc'[Importer] = proc[Importer]
  BY <1>2 DEF ImportInv, TypeOK
<1>4. TypeOK'
  <2>1. s \in [pc : PC, name : Name \cup {None}, digest : Digest \cup {None}]
    BY DEF PC
  <2> QED BY <1>1, <1>2, <2>1 DEF ImportInv, TypeOK, StoreTypeOK, storeVars
<1>5. ServerInv'
  BY <1>1, <1>2, <1>3 DEF ServerInv, Holding
<1>6. ImporterInv'
  BY <1>1, <1>3 DEF ImportInv, ImporterInv, storeVars
<1>7. proc'[Server].pc \notin {"walk", "sweep"}
  BY <1>2, <1>3
<1> QED BY <1>1, <1>4, <1>5, <1>6, <1>7, QuietKeeps

\* The steps of import_dir() that write nothing.
LEMMA ImporterKeeps ==
  ASSUME ImportInv,
         \/ StartImport \/ (\E n \in Name : ScanFile(n)) \/ ScanEnd \/ HashFile \/ SkipFile
  PROVE  ImportInv'
<1> USE DEF Server, Importer
<1>1. UNCHANGED <<storeVars, via, live, unread, export, acked, disturbed>>
  BY DEF StartImport, ScanFile, ScanEnd, HashFile, SkipFile, scanVars, historyVars
<1>2. seen' \in SUBSET Name
  BY DEF StartImport, ScanFile, ScanEnd, HashFile, SkipFile, scanVars, ImportInv, TypeOK
<1>3. PICK i \in [pc : {"idle", "scan", "hash", "access"}, name : Name \cup {None},
                  digest : Digest \cup {None}] :
        /\ proc' = [proc EXCEPT ![Importer] = i]
        /\ i.pc \in {"hash", "access"} => i.name \in Files /\ file[i.name] # None
        /\ i.pc = "access" => i.digest = file[i.name]
        /\ proc[Importer].pc = "idle" => proc[Server].pc = "idle"
  <2>0. ASSUME NEW pc \in {"idle", "scan"}, Goto(Importer, pc)
        PROVE  \E i \in [pc : {"idle", "scan", "hash", "access"}, name : Name \cup {None},
                         digest : Digest \cup {None}] :
                 proc' = [proc EXCEPT ![Importer] = i] /\ i.pc \in {"idle", "scan"}
    <3> DEFINE i == Between(pc)
    <3>1. i.pc = pc /\ i \in [pc : {"idle", "scan", "hash", "access"}, name : Name \cup {None},
                              digest : Digest \cup {None}]
      BY DEF Between
    <3>2. proc' = [proc EXCEPT ![Importer] = i]
      BY <2>0 DEF Goto
    <3> HIDE DEF i
    <3> QED BY <3>1, <3>2
  <2>1. CASE StartImport
    <3>1. Goto(Importer, "scan") /\ proc[Server].pc = "idle"
      BY <2>1 DEF StartImport, At
    <3> QED BY <2>0, <3>1
  <2>2. CASE \E n \in Name : ScanFile(n)
    <3>1. PICK n \in Name : ScanFile(n)
      BY <2>2
    <3>2. n \in Files /\ file[n] # None /\ proc[Importer].pc = "scan"
      BY <3>1 DEF ScanFile, At, ImportInv, FileInv
    <3> QED BY <3>1, <3>2 DEF ScanFile
  <2>3. CASE ScanEnd
    <3>1. Goto(Importer, "idle") /\ proc[Importer].pc # "idle"
      BY <2>3 DEF ScanEnd, At
    <3> QED BY <2>0, <3>1
  <2>4. CASE SkipFile
    <3>1. Goto(Importer, "scan") /\ proc[Importer].pc # "idle"
      BY <2>4 DEF SkipFile, At
    <3> QED BY <2>0, <3>1
  <2>5. CASE HashFile
    <3> DEFINE i == [[proc[Importer] EXCEPT !.pc = "access"] EXCEPT !.digest = BytesAt(proc[Importer].name)]
    <3>1. proc[Importer] \in [pc : PC, name : Name \cup {None}, digest : Digest \cup {None}]
      BY DEF ImportInv, TypeOK
    <3>2. proc[Importer].pc = "hash"
      BY <2>5 DEF HashFile, At
    <3>3. proc[Importer].name \in Files /\ file[proc[Importer].name] # None
      BY <3>2 DEF ImportInv, ImporterInv
    <3>4. BytesAt(proc[Importer].name) = file[proc[Importer].name]
      BY <3>3 DEF BytesAt
    <3>5. file[proc[Importer].name] \in Digest
      BY <3>3, ImportingAssumption DEF ImportInv, TypeOK, StoreTypeOK
    <3>6. i.pc = "access" /\ i.name = proc[Importer].name /\ i.digest = file[proc[Importer].name]
          /\ i \in [pc : {"idle", "scan", "hash", "access"}, name : Name \cup {None},
                    digest : Digest \cup {None}]
      BY <3>1, <3>4, <3>5
    <3>7. proc' = [proc EXCEPT ![Importer] = i]
      BY <2>5 DEF HashFile, ImportInv, TypeOK
    <3> QED BY <3>2, <3>3, <3>6, <3>7
  <2> QED BY <2>1, <2>2, <2>3, <2>4, <2>5
<1>4. proc'[Importer] = i /\ proc'[Server] = proc[Server]
  BY <1>3 DEF ImportInv, TypeOK
<1>5. TypeOK'
  <2>1. i \in [pc : PC, name : Name \cup {None}, digest : Digest \cup {None}]
    BY DEF PC
  <2> QED BY <1>1, <1>2, <1>3, <2>1 DEF ImportInv, TypeOK, StoreTypeOK, storeVars
<1>6. ServerInv'
  BY <1>1, <1>4 DEF ImportInv, ServerInv, storeVars
<1>7. ImporterInv'
  <2>1. i.pc = "access" => i.digest \in Digest
    BY <1>3, ImportingAssumption DEF ImportInv, TypeOK, StoreTypeOK
  <2> QED BY <1>1, <1>3, <1>4, <2>1 DEF ImporterInv, Holding, storeVars
<1>8. \/ proc'[Server].pc \notin {"walk", "sweep"}
      \/ proc'[Server] = proc[Server] /\ proc[Importer].pc # "idle"
  BY <1>3, <1>4
<1> QED BY <1>1, <1>5, <1>6, <1>7, <1>8, QuietKeeps

\* A kill ends the import wherever it is.
LEMMA KillKeeps ==
  ASSUME ImportInv, KillImport
  PROVE  ImportInv'
<1> USE DEF Server, Importer
<1>1. proc'[Importer] = Between("idle") /\ proc'[Server] = proc[Server]
      /\ proc' \in [{Server, Importer} ->
                      [pc : PC, name : Name \cup {None}, digest : Digest \cup {None}]]
  BY DEF KillImport, Goto, Between, ImportInv, TypeOK, PC
<1>2. UNCHANGED <<blobs, link, file, via, live, unread, export, acked>> /\ seen' = {}
      /\ disturbed' = disturbed \cup {"kill"}
  BY DEF KillImport, storeVars
<1>3. TypeOK'
  BY <1>1, <1>2 DEF ImportInv, TypeOK, StoreTypeOK
<1>4. ServerInv' /\ ImporterInv'
  BY <1>1, <1>2 DEF ImportInv, ServerInv, ImporterInv, Between, Holding
<1>5. "overlap" \in disturbed' <=> "overlap" \in disturbed
  BY <1>2
<1>6. FileInv' /\ BlobHoldsItsBytes' /\ EntriesHaveBlobs'
  BY <1>2, <1>5 DEF ImportInv, FileInv, BlobHoldsItsBytes, EntriesHaveBlobs, NoDangling
<1>7. WalkInv'
  BY <1>1, <1>2, <1>5 DEF ImportInv, WalkInv, Between
<1> QED BY <1>3, <1>4, <1>6, <1>7 DEF ImportInv

(***************************************************************************)
(* The collector.                                                          *)
(***************************************************************************)

\* Its walk begins, reads an entry, ends; its sweep ends.  What is read stays
\* in the live set.
LEMMA WalkKeeps ==
  ASSUME ImportInv, ~ReadFaults,
         StartCollect \/ (\E n \in Name : WalkEntry(n)) \/ WalkEnd \/ SweepEnd
  PROVE  ImportInv'
<1> USE DEF Server, Importer
<1>1. UNCHANGED <<blobs, link, file, via, seen, export, acked>>
  BY DEF StartCollect, WalkEntry, WalkEnd, SweepEnd, storeVars, scanVars, historyVars
<1>2. /\ proc' \in [{Server, Importer} ->
                      [pc : PC, name : Name \cup {None}, digest : Digest \cup {None}]]
      /\ proc'[Server].pc \in {"walk", "sweep", "idle"} /\ proc'[Importer] = proc[Importer]
  <2>1. ASSUME NEW pc \in {"walk", "sweep", "idle"}, Goto(Server, pc)
        PROVE  /\ proc' \in [{Server, Importer} ->
                      [pc : PC, name : Name \cup {None}, digest : Digest \cup {None}]]
               /\ proc'[Server].pc = pc /\ proc'[Importer] = proc[Importer]
    <3>1. pc \in PC
      BY DEF PC
    <3> HIDE DEF Server, Importer
    <3>2. Importer # Server
      BY DEF Server, Importer
    <3> QED BY <2>1, <3>1, <3>2, GotoFacts DEF ImportInv
  <2>2. CASE \E n \in Name : WalkEntry(n)
    BY <2>2 DEF WalkEntry, At, ImportInv, TypeOK
  <2>3. CASE StartCollect
    BY <2>1, <2>3 DEF StartCollect
  <2>4. CASE WalkEnd
    BY <2>1, <2>4 DEF WalkEnd
  <2>5. CASE SweepEnd
    BY <2>1, <2>5 DEF SweepEnd
  <2> QED BY <2>2, <2>3, <2>4, <2>5
<1>2a. ASSUME NEW n \in Name, WalkEntry(n)
       PROVE  live' = live \cup ({link[n]} \ {None})
  BY <1>2a DEF WalkEntry, Unread
<1>3. /\ live' \in SUBSET Digest /\ unread' \in SUBSET Name
      /\ disturbed' \in {disturbed, disturbed \cup {"overlap"}}
  <2>1. /\ live \in SUBSET Digest /\ unread \in SUBSET Name
        /\ \A n \in Name : link[n] \in Digest \cup {None}
    BY DEF ImportInv, TypeOK, StoreTypeOK
  <2>2. ASSUME NEW n \in Name, WalkEntry(n)
        PROVE  live' \in SUBSET Digest /\ unread' \in SUBSET Name /\ disturbed' = disturbed
    BY <1>2a, <2>1, <2>2 DEF WalkEntry, historyVars
  <2>3. CASE StartCollect \/ WalkEnd \/ SweepEnd
    BY <2>1, <2>3 DEF StartCollect, WalkEnd, SweepEnd, scanVars, historyVars
  <2> QED BY <2>2, <2>3
<1>4. TypeOK'
  BY <1>1, <1>2, <1>3 DEF ImportInv, TypeOK, StoreTypeOK
<1>5. ServerInv'
  BY <1>2 DEF ServerInv, Holding
<1>6. "overlap" \notin disturbed' => "overlap" \notin disturbed
  BY <1>3
<1>7. ImporterInv'
  BY <1>1, <1>2, <1>6 DEF ImportInv, ImporterInv
<1>8. FileInv' /\ BlobHoldsItsBytes' /\ EntriesHaveBlobs'
  BY <1>1, <1>6 DEF ImportInv, FileInv, BlobHoldsItsBytes, EntriesHaveBlobs, NoDangling
<1>9. WalkInv'
  <2> USE <1>1, <1>2
  <2>0. \A pc \in {"walk", "sweep", "idle"} : Goto(Server, pc) => proc'[Server].pc = pc
    <3>1. \A pc \in {"walk", "sweep", "idle"} : pc \in PC
      BY DEF PC
    <3> HIDE DEF Server, Importer
    <3> QED BY <3>1, GotoFacts DEF ImportInv
  <2>1. CASE StartCollect
    <3>1. unread' = Name /\ proc'[Server].pc = "walk"
      BY <2>0, <2>1 DEF StartCollect
    <3>2. "overlap" \notin disturbed' => proc[Importer].pc = "idle"
      BY <2>1 DEF StartCollect, At
    <3> QED BY <3>1, <3>2 DEF WalkInv
  <2>2. ASSUME NEW n \in Name, WalkEntry(n) PROVE WalkInv'
    <3>1. UNCHANGED <<proc, disturbed>> /\ proc[Server].pc = "walk"
      BY <2>2 DEF WalkEntry, historyVars, At
    <3>2. live \subseteq live' /\ (link[n] # None => link[n] \in live') /\ unread' = unread \ {n}
      BY <1>2a, <2>2 DEF WalkEntry
    <3>3. \A x \in Name \ unread' : x = n \/ x \in Name \ unread
      BY <3>2
    <3> QED BY <3>1, <3>2, <3>3 DEF ImportInv, WalkInv, Pushed
  <2>3. CASE WalkEnd
    <3>1. proc[Server].pc = "walk" /\ unread = {} /\ UNCHANGED <<live, unread, disturbed>>
      BY <2>3 DEF WalkEnd, At, scanVars, historyVars
    <3> QED BY <3>1 DEF ImportInv, WalkInv, Pushed
  <2>4. CASE SweepEnd
    <3>1. proc'[Server].pc = "idle"
      BY <2>0, <2>4 DEF SweepEnd
    <3> QED BY <3>1 DEF WalkInv
  <2> QED BY <2>1, <2>2, <2>3, <2>4
<1> QED BY <1>4, <1>5, <1>7, <1>8, <1>9 DEF ImportInv

\* A blob that is swept is neither published, unless an import ran beside the
\* collection, nor in the server's hands, who is the collector.
LEMMA SweepKeeps ==
  ASSUME ImportInv, NEW d \in Digest, SweepBlob(d)
  PROVE  ImportInv'
<1> USE DEF Server, Importer
<1>1. proc[Server].pc = "sweep" /\ d \in blobs \ live
      /\ blobs' = blobs \ {d} /\ via' = [via EXCEPT ![d] = None]
      /\ UNCHANGED <<link, file, proc, seen, live, unread, export, acked, disturbed>>
  BY DEF SweepBlob, At, processVars
<1>2. TypeOK'
  BY <1>1 DEF ImportInv, TypeOK, StoreTypeOK
<1>3. ServerInv'
  BY <1>1 DEF ImportInv, ServerInv, Holding
<1>4. ImporterInv'
  BY <1>1 DEF ImportInv, ImporterInv, WalkInv, Holding
<1>5. FileInv' /\ WalkInv'
  BY <1>1 DEF ImportInv, FileInv, WalkInv
<1>6. BlobHoldsItsBytes'
  BY <1>1 DEF ImportInv, BlobHoldsItsBytes, TypeOK
<1>7. EntriesHaveBlobs'
  <2> SUFFICES ASSUME "overlap" \notin disturbed', NEW n \in Name, link'[n] # None
               PROVE  link'[n] \in blobs'
    BY DEF EntriesHaveBlobs, NoDangling
  <2>1. link[n] \in live
    BY <1>1 DEF ImportInv, WalkInv
  <2>2. link[n] \in blobs
    BY <1>1 DEF ImportInv, EntriesHaveBlobs, NoDangling
  <2> QED BY <1>1, <2>1, <2>2
<1> QED BY <1>2, <1>3, <1>4, <1>5, <1>6, <1>7 DEF ImportInv

(***************************************************************************)
(* The steps that write the directories.                                   *)
(***************************************************************************)

\* The body of an adoption: unlinked when its bytes are there, or moved into
\* blobs/.  What the importer moves is the file it hashed.
LEMMA AdoptKeeps ==
  ASSUME ImportInv,
         AdoptDrop(Server) \/ AdoptDrop(Importer) \/ MoveStaged \/ MoveFile
  PROVE  ImportInv'
<1> USE DEF Server, Importer
<1>1. PICK p \in {Server, Importer} :
        /\ proc[p].pc \in {"drop", "move"} /\ Goto(p, "exists")
        /\ proc[p].pc = "drop" => UNCHANGED <<blobs, via>>
        /\ proc[p].pc = "move" => /\ blobs' = blobs \cup {proc[p].digest}
                                  /\ via' = [via EXCEPT ![proc[p].digest] = None]
        /\ p = Server => UNCHANGED <<link, file>>
        /\ p = Importer => Gone(proc[p].name)
        /\ UNCHANGED <<seen, live, unread, export, acked, disturbed>>
  <2>1. CASE AdoptDrop(Server)
    BY <2>1 DEF AdoptDrop, At, scanVars, historyVars
  <2>2. CASE AdoptDrop(Importer)
    BY <2>2 DEF AdoptDrop, At, scanVars, historyVars
  <2>3. CASE MoveStaged
    BY <2>3 DEF MoveStaged, At, scanVars, historyVars
  <2>4. CASE MoveFile
    <3>1. proc[Importer].pc = "move" /\ proc[Importer].name \in Files
          /\ file[proc[Importer].name] # None
      BY <2>4 DEF MoveFile, At, ImportInv, ImporterInv
    <3>2. link[proc[Importer].name] = None
      BY <3>1, ImportingAssumption DEF ImportInv, FileInv
    <3> QED BY <2>4, <3>1, <3>2 DEF MoveFile, At, scanVars, historyVars, Present
  <2> QED BY <2>1, <2>2, <2>3, <2>4
<1>2. /\ proc' \in [{Server, Importer} ->
                      [pc : PC, name : Name \cup {None}, digest : Digest \cup {None}]]
      /\ proc'[p].pc = "exists" /\ \A q \in {Server, Importer} : q # p => proc'[q] = proc[q]
      /\ proc'[p].name = proc[p].name /\ proc'[p].digest = proc[p].digest
  <2>1. "exists" \in PC
    BY DEF PC
  <2> HIDE DEF Server, Importer
  <2> QED BY <1>1, <2>1, GotoFacts DEF ImportInv
<1>3. proc[p].digest \in Digest /\ proc[p].name \in Name
  BY <1>1, ImportingAssumption DEF ImportInv, ServerInv, ImporterInv, Holding
<1>4. /\ blobs \subseteq blobs' /\ blobs' \in SUBSET Digest
      /\ via' \in [Digest -> Digest \cup {None}] /\ BlobHoldsItsBytes'
  BY <1>1, <1>3 DEF ImportInv, TypeOK, StoreTypeOK, BlobHoldsItsBytes
<1>5. /\ link' \in [Name -> Digest \cup {None}] /\ file' \in [Name -> Digest \cup {None}]
      /\ \A n \in Name : link'[n] \in {link[n], None} /\ file'[n] \in {file[n], None}
  BY <1>1, <1>3 DEF ImportInv, TypeOK, StoreTypeOK, Gone
<1>6. proc[p].digest \in blobs' \/ (p = Importer /\ "overlap" \in disturbed)
  BY <1>1 DEF ImportInv, ServerInv, ImporterInv, Holding
<1>7. TypeOK'
  BY <1>1, <1>2, <1>4, <1>5 DEF ImportInv, TypeOK, StoreTypeOK
<1>8. ServerInv'
  BY <1>1, <1>2, <1>4, <1>6 DEF ImportInv, ServerInv, Holding
<1>9. ImporterInv'
  BY <1>1, <1>2, <1>4, <1>5, <1>6 DEF ImportInv, ImporterInv, Holding
<1>10. FileInv'
  BY <1>1, <1>5 DEF ImportInv, FileInv
<1>11. WalkInv'
  BY <1>1, <1>2, <1>5 DEF ImportInv, WalkInv
<1>12. EntriesHaveBlobs'
  BY <1>1, <1>4, <1>5 DEF ImportInv, EntriesHaveBlobs, NoDangling
<1> QED BY <1>4, <1>7, <1>8, <1>9, <1>10, <1>11, <1>12 DEF ImportInv

\* rename() of the symlink: what it replaces is no file of the export's, for
\* the server, and no pushed entry, for the importer.
LEMMA RenameKeeps ==
  ASSUME FilesApart, ImportInv, NEW p \in {Server, Importer}, PublishRename(p)
  PROVE  ImportInv'
<1> USE DEF Server, Importer
<1> DEFINE n == proc[p].name  d == proc[p].digest  c == Canonical(proc[p].name)
<1>1. proc[p].pc = "rename" /\ Goto(p, Done(p)) /\ Promise(p)
      /\ link' = [link EXCEPT ![c] = d] /\ file' = [file EXCEPT ![c] = None]
      /\ UNCHANGED <<blobs, via, seen, live, unread, export, disturbed>>
  BY DEF PublishRename, At, scanVars
<1>2. /\ proc' \in [{Server, Importer} ->
                      [pc : PC, name : Name \cup {None}, digest : Digest \cup {None}]]
      /\ proc'[p].pc = Done(p) /\ \A q \in {Server, Importer} : q # p => proc'[q] = proc[q]
  <2>1. Done(p) \in PC
    BY DEF PC, Done
  <2> HIDE DEF Server, Importer
  <2> QED BY <1>1, <2>1, GotoFacts DEF ImportInv
<1>3. d \in Digest /\ n \in Name /\ (p = Server => n \in Pushes) /\ (p = Importer => n \in Files)
  BY <1>1, ImportingAssumption DEF ImportInv, ServerInv, ImporterInv, Holding
<1>4. c \in Name
  BY <1>3, CanonicalIsName
<1> HIDE DEF n, d, c
<1>5. /\ link' \in [Name -> Digest \cup {None}] /\ file' \in [Name -> Digest \cup {None}]
      /\ link'[c] = d /\ file'[c] = None
      /\ \A x \in Name : x # c => link'[x] = link[x] /\ file'[x] = file[x]
  BY <1>1, <1>3, <1>4 DEF ImportInv, TypeOK, StoreTypeOK
<1>6. TypeOK'
  <2>1. acked' \in [Name -> Digest \cup {None}]
    BY <1>1, <1>3 DEF Promise, ImportInv, TypeOK, n, d
  <2> QED BY <1>1, <1>2, <1>5, <2>1 DEF ImportInv, TypeOK, StoreTypeOK
<1>7. ServerInv'
  BY <1>1, <1>2 DEF ImportInv, ServerInv, Holding, Done
<1>8. ImporterInv'
  <2>1. CASE p = Importer
    BY <1>2, <2>1 DEF ImporterInv, Holding, Done
  <2>2. CASE p = Server
    <3>1. proc'[Importer] = proc[Importer]
      BY <1>2, <2>2
    <3>2. proc[Importer].name \in Files => proc[Importer].name \in Name /\ proc[Importer].name # c
      BY <1>3, <2>2, ApartFacts DEF c, n
    <3> QED BY <1>1, <1>5, <3>1, <3>2 DEF ImportInv, ImporterInv, Holding
  <2> QED BY <2>1, <2>2
<1>9. FileInv'
  BY <1>1, <1>5 DEF ImportInv, FileInv
<1>10. WalkInv'
  <2>1. CASE p = Server
    BY <1>2, <2>1 DEF WalkInv, Done
  <2>2. CASE p = Importer
    <3>1. proc'[Server] = proc[Server]
      BY <1>2, <2>2
    <3>2. c \notin Pushed
      BY <1>3, <2>2, FilesAreNotPushed DEF c, n
    <3>3. proc[Server].pc \in {"walk", "sweep"} => "overlap" \in disturbed
      BY <1>1, <2>2 DEF ImportInv, WalkInv
    <3> QED BY <1>1, <1>5, <3>1, <3>2, <3>3 DEF ImportInv, WalkInv
  <2> QED BY <2>1, <2>2
<1>11. BlobHoldsItsBytes'
  BY <1>1 DEF ImportInv, BlobHoldsItsBytes
<1>12. EntriesHaveBlobs'
  <2>1. "overlap" \notin disturbed => d \in blobs
    BY <1>1, <1>3 DEF ImportInv, ServerInv, ImporterInv, Holding, d
  <2> QED BY <1>1, <1>5, <2>1 DEF ImportInv, EntriesHaveBlobs, NoDangling
<1> QED BY <1>6, <1>7, <1>8, <1>9, <1>10, <1>11, <1>12 DEF ImportInv

\* unlink() of a signature's entry and of the artifact's: neither is a file of
\* the export's.
LEMMA DeleteKeeps ==
  ASSUME FilesApart, ImportInv, DeleteSignature \/ DeleteArtifact
  PROVE  ImportInv'
<1> USE DEF Server, Importer
<1> DEFINE m == proc[Server].name
<1>1. PICK S \in {SignatureTarget(m), {Canonical(m)}}, pc \in {"unlink", "idle"} :
        /\ Unlink(S) /\ export' = Withdrawn(export, S) /\ acked' = Withdrawn(acked, S)
        /\ Goto(Server, pc) /\ (pc = "unlink" => proc[Server].pc = "unlink_sig")
        /\ UNCHANGED <<blobs, via, seen, live, unread, disturbed>>
  <2>1. CASE DeleteSignature
    BY <2>1 DEF DeleteSignature, At, scanVars
  <2>2. CASE DeleteArtifact
    BY <2>2 DEF DeleteArtifact, At, scanVars
  <2> QED BY <2>1, <2>2
<1>2. m \in Pushes
  BY DEF DeleteSignature, DeleteArtifact, At, ImportInv, ServerInv
<1>3. m \in Name /\ S \subseteq UnpublishTargets(m) /\ S \subseteq Name
  BY <1>1, <1>2, ImportingAssumption, SignatureTargetIsNames DEF UnpublishTargets
<1>4. /\ proc' \in [{Server, Importer} ->
                      [pc : PC, name : Name \cup {None}, digest : Digest \cup {None}]]
      /\ proc'[Server].pc = pc /\ proc'[Importer] = proc[Importer]
      /\ pc = "unlink" => proc'[Server].name = m
  <2>1. pc \in PC
    BY DEF PC
  <2>2. Importer # Server
    OBVIOUS
  <2> HIDE DEF Server, Importer
  <2> QED BY <1>1, <2>1, <2>2, GotoFacts DEF ImportInv
<1>5. /\ link' \in [Name -> Digest \cup {None}] /\ file' \in [Name -> Digest \cup {None}]
      /\ \A x \in Name : link'[x] = (IF x \in S THEN None ELSE link[x])
                      /\ file'[x] = (IF x \in S THEN None ELSE file[x])
  BY <1>1 DEF Unlink, ImportInv, TypeOK, StoreTypeOK
<1>6. /\ export' \in [Name -> Digest \cup {None}] /\ acked' \in [Name -> Digest \cup {None}]
      /\ \A x \in Name : Canonical(x) \notin S => export'[x] = export[x]
  BY <1>1 DEF Withdrawn, ImportInv, TypeOK
<1>7. \A f \in Files : f \in Name /\ f \notin S /\ Canonical(f) \notin S
  BY <1>2, <1>3, ApartFacts
<1> HIDE DEF m
<1>8. TypeOK'
  BY <1>1, <1>4, <1>5, <1>6 DEF ImportInv, TypeOK, StoreTypeOK
<1>9. ServerInv'
  BY <1>1, <1>2, <1>4 DEF ServerInv, Holding
<1>10. ImporterInv'
  BY <1>1, <1>4, <1>5, <1>7 DEF ImportInv, ImporterInv, Holding
<1>11. FileInv'
  BY <1>5, <1>6, <1>7 DEF ImportInv, FileInv
<1>12. WalkInv' /\ BlobHoldsItsBytes'
  BY <1>1, <1>4 DEF ImportInv, WalkInv, BlobHoldsItsBytes
<1>13. EntriesHaveBlobs'
  BY <1>1, <1>5 DEF ImportInv, EntriesHaveBlobs, NoDangling
<1> QED BY <1>8, <1>9, <1>10, <1>11, <1>12, <1>13 DEF ImportInv

LEMMA InitIsSound ==
  ASSUME Init
  PROVE  ImportInv
<1> USE DEF Server, Importer
<1>1. TypeOK
  BY DEF Init, TypeOK, StoreTypeOK, Between, PC
<1>2. proc[Server].pc = "idle" /\ proc[Importer].pc = "idle"
  BY DEF Init, Between
<1>3. ServerInv /\ ImporterInv /\ WalkInv
  BY <1>2 DEF ServerInv, ImporterInv, WalkInv, Holding
<1>4. FileInv /\ BlobHoldsItsBytes /\ EntriesHaveBlobs
  BY DEF Init, FileInv, BlobHoldsItsBytes, EntriesHaveBlobs, NoDangling
<1> QED BY <1>1, <1>3, <1>4 DEF ImportInv

LEMMA StutterKeeps ==
  ASSUME ImportInv, UNCHANGED vars
  PROVE  ImportInv'
<1>1. UNCHANGED <<storeVars, via, proc, seen, live, unread, export, acked, disturbed>>
  BY DEF vars, processVars
<1>2. TypeOK' /\ ServerInv' /\ ImporterInv'
  BY <1>1 DEF ImportInv, TypeOK, StoreTypeOK, ServerInv, ImporterInv, storeVars
<1> QED BY <1>1, <1>2, QuietKeeps

LEMMA StepKeepsImportInv ==
  ASSUME FilesApart, ~ReadFaults, ImportInv, [Next]_vars
  PROVE  ImportInv'
<1>1. ASSUME NEW p \in {Server, Importer},
             \/ AdoptAccess(p) \/ AdoptDrop(p)
             \/ PublishExists(p) \/ PublishResolve(p) \/ PublishRename(p)
      PROVE  ImportInv'
  BY <1>1, LooksKeep, AdoptKeeps, RenameKeeps
<1>2. CASE (\E n \in Pushes, d \in Digest : StartPut(n, d)) \/ CheckPut \/ (\E n \in Pushes : StartDelete(n))
  BY <1>2, RequestsKeep
<1>3. CASE MoveStaged \/ MoveFile
  BY <1>3, AdoptKeeps
<1>4. CASE DeleteSignature \/ DeleteArtifact
  BY <1>4, DeleteKeeps
<1>5. CASE StartCollect \/ (\E n \in Name : WalkEntry(n)) \/ WalkEnd \/ SweepEnd
  BY <1>5, WalkKeeps
<1>6. CASE \E d \in Digest : SweepBlob(d)
  BY <1>6, SweepKeeps
<1>7. CASE StartImport \/ (\E n \in Name : ScanFile(n)) \/ ScanEnd \/ HashFile \/ SkipFile
  BY <1>7, ImporterKeeps
<1>8. CASE KillImport
  BY <1>8, KillKeeps
<1>9. CASE UNCHANGED vars
  BY <1>9, StutterKeeps
<1> QED BY <1>1, <1>2, <1>3, <1>4, <1>5, <1>6, <1>7, <1>8, <1>9 DEF Next

\* While the two processes work on different names the invariant holds,
\* however the system calls interleave and wherever the import is killed.
THEOREM ImportIsSound ==
  ASSUME FilesApart, ~ReadFaults
  PROVE  Spec => []ImportInv
<1>1. Init => ImportInv
  BY InitIsSound
<1>2. ImportInv /\ [Next]_vars => ImportInv'
  BY StepKeepsImportInv
<1> QED BY <1>1, <1>2, PTL DEF Spec

\* Until an import and a collection have run at once no entry is without its
\* blob (store_blob_adopt() before store_publish(), store_gc()).
THEOREM ImportIsSafe ==
  ASSUME FilesApart, ~ReadFaults
  PROVE  Spec => []EntriesHaveBlobs
<1>1. ImportInv => EntriesHaveBlobs
  BY DEF ImportInv
<1> QED BY <1>1, ImportIsSound, PTL

\* The two processes' program counters and what they have read stay well
\* formed (importer.c, store_gc(), the daemon's handlers).
THEOREM ImportStateIsWellFormed ==
  ASSUME FilesApart, ~ReadFaults
  PROVE  Spec => []TypeOK
<1>1. ImportInv => TypeOK
  BY DEF ImportInv
<1> QED BY <1>1, ImportIsSound, PTL

(***************************************************************************)
(* Lookups where nothing but the canonical entry is published.             *)
(***************************************************************************)

LEMMA LoneEntryResolves ==
  ASSUME StoreTypeOK, NEW n \in Name, NEW d \in Digest,
         link[Canonical(n)] = d, file[Canonical(n)] = None,
         \A x \in Candidates(Canonical(n)) : link[x] # None => x = Canonical(n)
  PROVE  ResolvesTo(n, d)
<1> DEFINE c == Canonical(n)
<1>1. c \in Name /\ c \in Candidates(c)
  BY CanonicalIsName, CandidatesAreNames
<1>2. Hits(c) = {d}
  BY <1>1, DigestAssumption DEF Hits, Found
<1>3. ResolveError(n) = "OK"
  BY <1>2 DEF ResolveError, LookupError, Hits
<1>4. Hits(c) = {Meaning(n)}
  BY <1>3, MeaningIsHit
<1> QED BY <1>2, <1>3, <1>4 DEF ResolvesTo

LEMMA LoneEntryIsMeant ==
  ASSUME StoreTypeOK, NEW n \in Name, NEW d, ResolvesTo(n, d),
         \A x \in Candidates(Canonical(n)) : link[x] # None => x = Canonical(n)
  PROVE  link[Canonical(n)] = d /\ d \in Digest
<1>1. Hits(Canonical(n)) = {d} /\ d \in Digest
  BY MeaningIsHit DEF ResolvesTo
<1>2. PICK x \in Candidates(Canonical(n)) : link[x] = d
  BY <1>1 DEF Hits, Found
<1> QED BY <1>1, <1>2, DigestAssumption

\* A lookup that can read everything answers with the one meaning of the name.
LEMMA FindsMeaning ==
  ASSUME StoreTypeOK, NEW n \in Name, NEW d, Finds(n, d, {})
  PROVE  ResolvesTo(n, d)
<1>1. ResolveError(n) = "OK" /\ d \in Hits(Canonical(n))
  BY DEF Finds, ResolveError, Hits
<1> QED BY <1>1, MeaningIsHit DEF ResolvesTo

\* What PublishResolve does when nothing can go unread.
LEMMA ResolveReadsAll ==
  ASSUME ~ReadFaults, NEW p, PublishResolve(p)
  PROVE  IF ResolveError(proc[p].name) = "NOT_FOUND"
         THEN Goto(p, "rename") /\ UNCHANGED acked
         ELSE /\ Goto(p, Done(p))
              /\ IF Finds(proc[p].name, proc[p].digest, {}) THEN Promise(p) ELSE UNCHANGED acked
<1>1. Readings(proc[p].name) = {{}}
  BY DEF Readings, Unread
<1> QED BY <1>1 DEF PublishResolve, ResolveError

(***************************************************************************)
(* What was promised.                                                      *)
(***************************************************************************)

\* A step that writes no entry, promises nothing and brings no push before its
\* rename().
LEMMA AckQuiet ==
  ASSUME AckInv, UNCHANGED <<link, acked>>, blobs \subseteq blobs',
         proc'[Server].pc = "rename" => proc'[Server] = proc[Server]
  PROVE  AckInv'
BY DEF AckInv

LEMMA QuietStepsKeepAck ==
  ASSUME ImportInv, AckInv,
         \/ \E p \in {Server, Importer} : AdoptAccess(p) \/ PublishExists(p)
         \/ PublishResolve(Importer) \/ AdoptDrop(Server) \/ MoveStaged
         \/ (\E n \in Pushes, d \in Digest : StartPut(n, d))
         \/ (\E n \in Pushes : StartDelete(n)) \/ CheckPut
         \/ StartCollect \/ (\E n \in Name : WalkEntry(n)) \/ WalkEnd \/ SweepEnd
         \/ StartImport \/ (\E n \in Name : ScanFile(n)) \/ ScanEnd \/ HashFile \/ SkipFile
         \/ KillImport \/ UNCHANGED vars
  PROVE  AckInv'
<1> USE DEF Server, Importer
<1>1. UNCHANGED <<link, acked>>
  BY DEF AdoptAccess, PublishExists, PublishResolve, Promise, AdoptDrop, MoveStaged, StartPut,
         StartDelete, CheckPut, StartCollect, WalkEntry, WalkEnd, SweepEnd, StartImport, ScanFile,
         ScanEnd, HashFile, SkipFile, KillImport, vars, storeVars, processVars, historyVars
<1>2. blobs \subseteq blobs'
  BY DEF AdoptAccess, PublishExists, PublishResolve, AdoptDrop, MoveStaged, StartPut,
         StartDelete, CheckPut, StartCollect, WalkEntry, WalkEnd, SweepEnd, StartImport, ScanFile,
         ScanEnd, HashFile, SkipFile, KillImport, vars, storeVars
<1>3. ASSUME NEW pc \in PC, Goto(Server, pc), pc # "rename" PROVE proc'[Server].pc # "rename"
  <2> HIDE DEF Server, Importer
  <2> QED BY <1>3, GotoFacts DEF ImportInv
<1>4. ASSUME NEW pc \in PC, Goto(Importer, pc) PROVE proc'[Server] = proc[Server]
  <2>1. Server # Importer
    OBVIOUS
  <2> HIDE DEF Server, Importer
  <2> QED BY <1>4, <2>1, GotoFacts DEF ImportInv
<1>5. {"idle", "scan", "drop", "move", "exists", "resolve", "access", "walk", "sweep", "rename"} \subseteq PC
  BY DEF PC
<1>6. proc'[Server].pc = "rename" => proc'[Server] = proc[Server]
  <2>1. ASSUME NEW p \in {Server, Importer}, AdoptAccess(p) \/ PublishExists(p)
        PROVE  proc'[Server].pc = "rename" => proc'[Server] = proc[Server]
    <3>1. PICK pc \in {"drop", "move", "resolve", "idle", "scan"} : Goto(p, pc)
      BY <2>1 DEF AdoptAccess, PublishExists, Done
    <3> QED BY <1>3, <1>4, <1>5, <3>1
  <2>2. CASE PublishResolve(Importer)
    BY <1>4, <1>5, <2>2 DEF PublishResolve, Done
  <2>3. CASE AdoptDrop(Server) \/ MoveStaged
    BY <1>3, <1>5, <2>3 DEF AdoptDrop, MoveStaged
  <2>4. CASE (\E n \in Pushes, d \in Digest : StartPut(n, d)) \/ (\E n \in Pushes : StartDelete(n))
    BY <2>4 DEF StartPut, StartDelete, ImportInv, TypeOK
  <2>5. CASE CheckPut
    BY <1>3, <1>5, <2>5 DEF CheckPut
  <2>6. CASE StartCollect \/ WalkEnd \/ SweepEnd
    BY <1>3, <1>5, <2>6 DEF StartCollect, WalkEnd, SweepEnd
  <2>7. CASE (\E n \in Name : WalkEntry(n)) \/ UNCHANGED vars
    BY <2>7 DEF WalkEntry, vars, processVars
  <2>8. CASE StartImport \/ ScanEnd \/ SkipFile \/ KillImport
    BY <1>4, <1>5, <2>8 DEF StartImport, ScanEnd, SkipFile, KillImport
  <2>9. CASE (\E n \in Name : ScanFile(n)) \/ HashFile
    BY <2>9 DEF ScanFile, HashFile, ImportInv, TypeOK
  <2> QED BY <2>1, <2>2, <2>3, <2>4, <2>5, <2>6, <2>7, <2>8, <2>9
<1> QED BY <1>1, <1>2, <1>6, AckQuiet

\* A push that finds its bytes under its name already is answered as if it had
\* published them; one that finds nothing goes on to its rename().
LEMMA ResolveKeepsAck ==
  ASSUME FilesApart, ~ReadFaults, ImportInv, AckInv, PublishResolve(Server)
  PROVE  AckInv'
<1> USE DEF Server, Importer
<1> DEFINE n == proc[Server].name  d == proc[Server].digest  c == Canonical(proc[Server].name)
<1>1. n \in Pushes /\ d \in Digest /\ d \in blobs /\ proc[Server].pc = "resolve"
  BY DEF PublishResolve, At, ImportInv, ServerInv, Holding
<1>2. n \in Name /\ c \in Name /\ c \in Candidates(c)
  BY <1>1, ImportingAssumption, CanonicalIsName, CandidatesAreNames
<1>3. UNCHANGED <<blobs, link, file>>
  BY DEF PublishResolve, storeVars
<1>4. CASE ResolveError(n) = "NOT_FOUND"
  <2>1. link[c] = None /\ UNCHANGED acked /\ Goto(Server, "rename")
    BY <1>2, <1>4, NotFoundIsFree, ResolveReadsAll
  <2>2. proc'[Server].name = n
    BY <2>1 DEF Goto, ImportInv, TypeOK
  <2> QED BY <1>3, <2>1, <2>2 DEF AckInv
<1>5. CASE ResolveError(n) # "NOT_FOUND"
  <2>1. Goto(Server, "idle")
    BY <1>5, ResolveReadsAll DEF Done
  <2>2. proc'[Server].pc = "idle"
    BY <2>1 DEF Goto, Between, ImportInv, TypeOK
  <2>3. CASE UNCHANGED acked
    BY <1>3, <2>2, <2>3 DEF AckInv
  <2>4. CASE ResolvesTo(n, d) /\ Promise(Server)
    <3>1. link[c] = d
      BY <1>1, <1>2, <2>4, LoneEntryIsMeant DEF AckInv, ImportInv, TypeOK
    <3>2. acked' = [acked EXCEPT ![n] = d]
      BY <2>4 DEF Promise
    <3> HIDE DEF n, d
    <3>3. \A x \in Name : acked'[x] = (IF x = n THEN d ELSE acked[x])
      BY <1>2, <3>2 DEF ImportInv, TypeOK
    <3> QED BY <1>1, <1>3, <2>2, <3>1, <3>3 DEF AckInv, n
  <2>5. UNCHANGED acked \/ (Finds(n, d, {}) /\ Promise(Server))
    BY <1>5, ResolveReadsAll
  <2>6. Finds(n, d, {}) => ResolvesTo(n, d)
    BY <1>2, FindsMeaning DEF ImportInv, TypeOK
  <2> QED BY <2>3, <2>4, <2>5, <2>6
<1> QED BY <1>4, <1>5

\* The server's rename() goes to a free name, which no other pushed name's
\* lookup considers; the importer's to a name of the export's.
LEMMA RenameKeepsAck ==
  ASSUME FilesApart, PushesApart, ImportInv, ImportInv', AckInv,
         NEW p \in {Server, Importer}, PublishRename(p)
  PROVE  AckInv'
<1> USE DEF Server, Importer
<1> DEFINE n == proc[p].name  d == proc[p].digest  c == Canonical(proc[p].name)
<1>1. proc[p].pc = "rename" /\ Goto(p, Done(p)) /\ Promise(p)
      /\ link' = [link EXCEPT ![c] = d] /\ UNCHANGED blobs
  BY DEF PublishRename, At
<1>2. /\ n \in Name /\ c \in Name /\ c \in Candidates(c) /\ (p = Importer => n \in Files)
      /\ p = Server => n \in Pushes /\ d \in blobs /\ d \in Digest
  <2>1. (p = Importer => n \in Files) /\ (p = Server => n \in Pushes /\ d \in blobs /\ d \in Digest)
    BY <1>1 DEF ImportInv, ServerInv, ImporterInv, Holding
  <2> QED BY <2>1, ImportingAssumption, CanonicalIsName, CandidatesAreNames
<1>3. proc'[Server].pc = "rename" => p = Importer /\ proc'[Server] = proc[Server]
  <2>1. proc'[p].pc = Done(p) /\ \A q \in {Server, Importer} : q # p => proc'[q] = proc[q]
    <3>1. Done(p) \in PC
      BY DEF PC, Done
    <3> HIDE DEF Server, Importer
    <3> QED BY <1>1, <3>1, GotoFacts DEF ImportInv
  <2> QED BY <2>1 DEF Done
<1>4. \A x \in Name : x # c => link'[x] = link[x]
  BY <1>1, <1>2 DEF ImportInv, TypeOK, StoreTypeOK
<1>5. \A m \in Pushes : m \in Name /\ Canonical(m) \in Name /\ Candidates(Canonical(m)) \subseteq Name
                        /\ Canonical(m) \in Candidates(Canonical(m))
  BY ImportingAssumption, CanonicalIsName, CandidatesAreNames
<1>6. CASE p = Importer
  <2>1. \A m \in Pushes : c \notin Candidates(Canonical(m))
    BY <1>2, <1>6, ApartFacts
  <2>2. UNCHANGED acked
    BY <1>1, <1>6 DEF Promise
  <2>3. \A m \in Pushes : \A x \in Candidates(Canonical(m)) : link'[x] = link[x]
    BY <1>4, <1>5, <2>1
  <2>4. proc[Server].pc = "rename" => proc[Server].name \in Pushes
    BY DEF ImportInv, ServerInv, Holding
  <2> HIDE DEF n, c, d
  <2> QED BY <1>1, <1>3, <1>5, <2>2, <2>3, <2>4 DEF AckInv
<1>7. CASE p = Server
  <2>1. link[c] = None /\ link'[c] = d
    BY <1>1, <1>2, <1>7 DEF AckInv, ImportInv, TypeOK, StoreTypeOK
  <2>2. \A m \in Pushes : c \in Candidates(Canonical(m)) => c = Canonical(m)
    BY <1>2, <1>7 DEF PushesApart, UnpublishTargets
  <2>3. acked' = [acked EXCEPT ![n] = d]
    BY <1>1, <1>7 DEF Promise
  <2>4. \A x \in Name : acked'[x] = (IF x = n THEN d ELSE acked[x])
    BY <1>2, <2>3 DEF ImportInv, TypeOK
  <2>5. \A m \in Pushes : \A x \in Candidates(Canonical(m)) : link'[x] # None => x = Canonical(m)
    BY <1>4, <1>5, <2>2 DEF AckInv
  <2>6. ASSUME NEW m \in Name, acked'[m] # None
        PROVE  m \in Pushes /\ link'[Canonical(m)] = acked'[m] /\ acked'[m] \in blobs'
    <3>1. CASE m = n
      BY <1>1, <1>2, <1>7, <2>1, <2>4, <3>1
    <3>2. CASE m # n
      <4>1. m \in Pushes /\ link[Canonical(m)] = acked[m] /\ acked[m] \in blobs /\ acked[m] # None
        BY <2>4, <2>6, <3>2 DEF AckInv
      <4>2. Canonical(m) # c
        BY <2>1, <4>1
      <4> HIDE DEF n, c, d
      <4> QED BY <1>1, <1>4, <1>5, <2>4, <3>2, <4>1, <4>2
    <3> QED BY <3>1, <3>2
  <2> HIDE DEF n, c, d
  <2> QED BY <1>3, <1>7, <2>5, <2>6 DEF AckInv
<1> QED BY <1>6, <1>7

\* What the importer takes away is a file of the export's.
LEMMA TakeKeepsAck ==
  ASSUME FilesApart, ImportInv, AckInv, AdoptDrop(Importer) \/ MoveFile
  PROVE  AckInv'
<1> USE DEF Server, Importer
<1> DEFINE f == proc[Importer].name
<1>1. f \in Files /\ file[f] # None /\ link[f] = None
  <2>1. f \in Files /\ file[f] # None
    BY DEF AdoptDrop, MoveFile, At, ImportInv, ImporterInv, Holding
  <2> QED BY <2>1, ImportingAssumption DEF ImportInv, FileInv
<1>2. Gone(f) /\ UNCHANGED acked /\ blobs \subseteq blobs'
  BY <1>1 DEF AdoptDrop, MoveFile, historyVars, Present
<1>3. proc'[Server] = proc[Server]
  BY <1>1 DEF AdoptDrop, MoveFile, Goto, ImportInv, TypeOK, Present
<1>4. UNCHANGED link
  BY <1>1, <1>2, ImportingAssumption DEF Gone, ImportInv, TypeOK, StoreTypeOK
<1> QED BY <1>2, <1>3, <1>4, AckQuiet

\* The collector has read every pushed entry by the time it sweeps.
LEMMA SweepKeepsAck ==
  ASSUME ImportInv, AckInv, NEW d \in Digest, SweepBlob(d)
  PROVE  AckInv'
<1>1. proc[Server].pc = "sweep" /\ d \notin live
      /\ blobs' = blobs \ {d} /\ UNCHANGED <<link, proc, live, acked>>
  BY DEF SweepBlob, At, processVars
<1>2. ASSUME NEW n \in Name, acked[n] # None PROVE acked[n] \in blobs'
  <2>1. n \in Pushes /\ link[Canonical(n)] = acked[n] /\ acked[n] \in blobs
    BY <1>2 DEF AckInv
  <2>2. Canonical(n) \in Name /\ Canonical(n) \in Pushed
    BY <2>1, CanonicalIsName, CandidatesAreNames DEF Pushed
  <2>3. link[Canonical(n)] \in live
    BY <1>1, <1>2, <2>1, <2>2 DEF ImportInv, WalkInv
  <2> QED BY <1>1, <2>1, <2>3
<1> QED BY <1>1, <1>2 DEF AckInv

\* A delete withdraws the promises it breaks.
LEMMA DeleteKeepsAck ==
  ASSUME ImportInv, AckInv, DeleteSignature \/ DeleteArtifact
  PROVE  AckInv'
<1> USE DEF Server, Importer
<1>1. PICK S \in {SignatureTarget(proc[Server].name), {Canonical(proc[Server].name)}},
           pc \in {"unlink", "idle"} :
        Unlink(S) /\ acked' = Withdrawn(acked, S) /\ Goto(Server, pc) /\ UNCHANGED blobs
  BY DEF DeleteSignature, DeleteArtifact
<1>2. proc'[Server].pc # "rename"
  <2>1. pc \in PC /\ pc # "rename"
    BY DEF PC
  <2> HIDE DEF Server, Importer
  <2> QED BY <1>1, <2>1, GotoFacts DEF ImportInv
<1>3. \A x \in Name : /\ link'[x] = (IF x \in S THEN None ELSE link[x])
                      /\ acked'[x] = (IF Canonical(x) \in S THEN None ELSE acked[x])
  BY <1>1 DEF Unlink, Withdrawn
<1>4. \A m \in Pushes : \A x \in Candidates(Canonical(m)) : link'[x] # None => x = Canonical(m)
  <2>1. \A m \in Pushes : Candidates(Canonical(m)) \subseteq Name
    BY ImportingAssumption, CanonicalIsName, CandidatesAreNames
  <2> QED BY <1>3, <2>1 DEF AckInv
<1>5. \A n \in Name : acked'[n] # None =>
        n \in Pushes /\ link'[Canonical(n)] = acked'[n] /\ acked'[n] \in blobs'
  BY <1>1, <1>3, CanonicalIsName DEF AckInv
<1> QED BY <1>2, <1>4, <1>5 DEF AckInv

LEMMA StepKeepsAckInv ==
  ASSUME FilesApart, PushesApart, ~ReadFaults, ImportInv, ImportInv', AckInv, [Next]_vars
  PROVE  AckInv'
<1>1. ASSUME NEW p \in {Server, Importer}, AdoptAccess(p) \/ PublishExists(p) PROVE AckInv'
  BY <1>1, QuietStepsKeepAck
<1>2. ASSUME NEW p \in {Server, Importer}, AdoptDrop(p) PROVE AckInv'
  BY <1>2, QuietStepsKeepAck, TakeKeepsAck
<1>3. ASSUME NEW p \in {Server, Importer}, PublishResolve(p) PROVE AckInv'
  BY <1>3, QuietStepsKeepAck, ResolveKeepsAck
<1>4. ASSUME NEW p \in {Server, Importer}, PublishRename(p) PROVE AckInv'
  BY <1>4, RenameKeepsAck
<1>5. CASE \/ (\E n \in Pushes, d \in Digest : StartPut(n, d))
           \/ (\E n \in Pushes : StartDelete(n)) \/ CheckPut \/ MoveStaged
           \/ StartCollect \/ (\E n \in Name : WalkEntry(n)) \/ WalkEnd \/ SweepEnd
           \/ StartImport \/ (\E n \in Name : ScanFile(n)) \/ ScanEnd \/ HashFile \/ SkipFile
           \/ KillImport \/ UNCHANGED vars
  BY <1>5, QuietStepsKeepAck
<1>6. CASE MoveFile
  BY <1>6, TakeKeepsAck
<1>7. CASE DeleteSignature \/ DeleteArtifact
  BY <1>7, DeleteKeepsAck
<1>8. CASE \E d \in Digest : SweepBlob(d)
  BY <1>8, SweepKeepsAck
<1> QED BY <1>1, <1>2, <1>3, <1>4, <1>5, <1>6, <1>7, <1>8 DEF Next

\* What a 201 promised holds through an import, a collection, both at once and
\* a kill of the import at any system call: the name resolves to the promised
\* bytes and their blob is there, until the name is deleted.
THEOREM PromisesSurviveImport ==
  ASSUME FilesApart, PushesApart, ~ReadFaults
  PROVE  Spec => []PushesSurviveImport
<1>1. Init => ImportInv /\ AckInv
  <2>1. Init => AckInv
    BY ImportingAssumption, CanonicalIsName, CandidatesAreNames DEF Init, AckInv, Between, Server
  <2> QED BY <2>1, InitIsSound
<1>2. ImportInv /\ AckInv /\ [Next]_vars => (ImportInv /\ AckInv)'
  BY StepKeepsImportInv, StepKeepsAckInv
<1>3. ImportInv /\ AckInv => PushesSurviveImport
  <2> SUFFICES ASSUME ImportInv, AckInv, NEW n \in Name, acked[n] # None
               PROVE  ResolvesTo(n, acked[n]) /\ BlobExists(acked[n])
    BY DEF PushesSurviveImport
  <2>1. n \in Pushes /\ link[Canonical(n)] = acked[n] /\ acked[n] \in blobs /\ acked[n] \in Digest
    BY DEF AckInv, ImportInv, TypeOK
  <2>2. Canonical(n) \in Name /\ Canonical(n) \notin Files
    BY <2>1, CanonicalIsName, ApartFacts
  <2>3. file[Canonical(n)] = None
    BY <2>2 DEF ImportInv, FileInv
  <2>4. ResolvesTo(n, acked[n])
    BY <2>1, <2>3, LoneEntryResolves DEF AckInv, ImportInv, TypeOK
  <2>5. BlobExists(acked[n])
    BY <2>1 DEF BlobExists, ImportInv, BlobHoldsItsBytes
  <2> QED BY <2>4, <2>5
<1> QED BY <1>1, <1>2, <1>3, PTL DEF Spec

(***************************************************************************)
(* What was exported.                                                      *)
(***************************************************************************)

\* What ExportsApart says of two files.
LEMMA ExportFacts ==
  ASSUME ExportsApart, NEW f \in Files, NEW g \in Files, f # g
  PROVE  /\ g \notin Candidates(Canonical(f)) /\ Canonical(g) \notin Candidates(Canonical(f))
         /\ Canonical(g) # Canonical(f) /\ Canonical(g) # f /\ g # Canonical(f)
<1>1. /\ Canonical(f) \in Candidates(Canonical(f)) /\ Canonical(g) \in Candidates(Canonical(g))
  BY ImportingAssumption, CanonicalIsName, CandidatesAreNames
<1> QED BY <1>1 DEF ExportsApart

LEMMA FileNames ==
  ASSUME NEW f \in Files
  PROVE  /\ f \in Name /\ Canonical(f) \in Name
         /\ Candidates(Canonical(f)) \subseteq Name /\ Canonical(f) \in Candidates(Canonical(f))
BY ImportingAssumption, CanonicalIsName, CandidatesAreNames

\* A step that leaves the entries, files and bytes of the export alone, and
\* leaves none in the importer's hands that was not there.
LEMMA ExportQuiet ==
  ASSUME ExportInv,
         \A f \in Files : \A x \in Candidates(Canonical(f)) : link'[x] = link[x],
         \A f \in Files : file'[f] = file[f],
         \A n \in Name : export'[n] \in {None, export[n]},
         disturbed' = {} => disturbed = {},
         \/ proc'[Importer] = proc[Importer]
         \/ /\ proc[Importer].pc \notin Publishing
            /\ proc'[Importer].pc \notin Publishing
         \/ /\ proc'[Importer].name = proc[Importer].name
            /\ proc'[Importer].digest = proc[Importer].digest
            /\ proc[Importer].pc \in Publishing /\ proc'[Importer].pc \in Publishing,
         proc[Importer].pc \in Publishing => proc[Importer].name \in Name
  PROVE  ExportInv'
<1>1. \A f \in Files : f \in Name /\ link'[Canonical(f)] = link[Canonical(f)]
  BY FileNames
<1>2. \A f \in Files : \A x \in Candidates(Canonical(f)) : link'[x] # None => x = Canonical(f)
  BY DEF ExportInv
<1>3. \A n \in Name : export'[n] # None => n \in Files
  BY DEF ExportInv
<1>4. proc'[Importer].pc \in Publishing =>
        export'[proc'[Importer].name] \in {None, proc'[Importer].digest}
  BY DEF ExportInv
<1>5. ASSUME disturbed' = {}, NEW f \in Files, export'[f] # None PROVE Whereabouts(f)'
  <2>1. export'[f] = export[f] /\ Whereabouts(f)
    BY <1>1, <1>5 DEF ExportInv
  <2> QED BY <1>1, <2>1 DEF Whereabouts
<1> QED BY <1>2, <1>3, <1>4, <1>5 DEF ExportInv

\* The server's steps.
LEMMA ServerKeepsExport ==
  ASSUME FilesApart, ImportInv, ExportInv,
         \/ AdoptAccess(Server) \/ AdoptDrop(Server) \/ MoveStaged
         \/ PublishExists(Server) \/ PublishResolve(Server) \/ PublishRename(Server)
         \/ (\E n \in Pushes, d \in Digest : StartPut(n, d))
         \/ (\E n \in Pushes : StartDelete(n)) \/ CheckPut
         \/ DeleteSignature \/ DeleteArtifact
         \/ StartCollect \/ (\E n \in Name : WalkEntry(n)) \/ WalkEnd \/ SweepEnd
         \/ (\E d \in Digest : SweepBlob(d)) \/ UNCHANGED vars
  PROVE  ExportInv'
<1> USE DEF Server, Importer
<1>1. proc'[Importer] = proc[Importer]
  <2>1. ASSUME NEW pc, Goto(Server, pc) PROVE proc'[Importer] = proc[Importer]
    BY <2>1 DEF Goto, ImportInv, TypeOK
  <2>2. CASE \/ AdoptAccess(Server) \/ AdoptDrop(Server) \/ MoveStaged
             \/ PublishExists(Server) \/ PublishResolve(Server) \/ PublishRename(Server)
             \/ CheckPut \/ DeleteSignature \/ DeleteArtifact
             \/ StartCollect \/ WalkEnd \/ SweepEnd
    <3>1. \E pc : Goto(Server, pc)
      BY <2>2 DEF AdoptAccess, AdoptDrop, MoveStaged, PublishExists, PublishResolve, PublishRename,
                  CheckPut, DeleteSignature, DeleteArtifact, StartCollect, WalkEnd, SweepEnd
    <3> QED BY <2>1, <3>1
  <2>3. CASE (\E n \in Pushes, d \in Digest : StartPut(n, d)) \/ (\E n \in Pushes : StartDelete(n))
    BY <2>3 DEF StartPut, StartDelete, ImportInv, TypeOK
  <2>4. CASE (\E n \in Name : WalkEntry(n)) \/ (\E d \in Digest : SweepBlob(d)) \/ UNCHANGED vars
    BY <2>4 DEF WalkEntry, SweepBlob, vars, processVars
  <2> QED BY <2>2, <2>3, <2>4
<1>2. disturbed' = {} => disturbed = {}
  BY DEF AdoptAccess, AdoptDrop, MoveStaged, PublishExists, PublishResolve, PublishRename,
         StartPut, StartDelete, CheckPut, DeleteSignature, DeleteArtifact, StartCollect, WalkEntry,
         WalkEnd, SweepEnd, SweepBlob, vars, processVars, historyVars
<1>3. /\ \A f \in Files : \A x \in Candidates(Canonical(f)) : link'[x] = link[x]
      /\ \A f \in Files : file'[f] = file[f]
      /\ \A n \in Name : export'[n] \in {None, export[n]}
  <2>1. CASE DeleteSignature \/ DeleteArtifact
    <3> DEFINE m == proc[Server].name
    <3>1. PICK S \in {SignatureTarget(m), {Canonical(m)}} : Unlink(S) /\ export' = Withdrawn(export, S)
      BY <2>1 DEF DeleteSignature, DeleteArtifact
    <3>2. m \in Pushes /\ S \subseteq UnpublishTargets(m)
      BY <2>1, <3>1 DEF DeleteSignature, DeleteArtifact, At, ImportInv, ServerInv, UnpublishTargets
    <3>3. \A f \in Files : f \notin S /\ Candidates(Canonical(f)) \cap S = {}
      BY <3>2, ApartFacts
    <3> HIDE DEF m
    <3> QED BY <3>1, <3>3, FileNames DEF Unlink, Withdrawn
  <2>2. CASE PublishRename(Server)
    <3> DEFINE m == proc[Server].name
    <3>1. m \in Pushes
      BY <2>2 DEF PublishRename, At, ImportInv, ServerInv, Holding
    <3>2. \A f \in Files : f # Canonical(m) /\ Canonical(m) \notin Candidates(Canonical(f))
      BY <3>1, ApartFacts DEF UnpublishTargets
    <3>3. link' = [link EXCEPT ![Canonical(m)] = proc[Server].digest]
          /\ file' = [file EXCEPT ![Canonical(m)] = None] /\ UNCHANGED export
      BY <2>2 DEF PublishRename
    <3> HIDE DEF m
    <3> QED BY <3>2, <3>3, FileNames DEF ImportInv, TypeOK, StoreTypeOK
  <2>3. CASE UNCHANGED <<link, file, export>>
    BY <2>3
  <2> QED BY <2>1, <2>2, <2>3
          DEF AdoptAccess, AdoptDrop, MoveStaged, PublishExists, PublishResolve, StartPut,
              StartDelete, CheckPut, StartCollect, WalkEntry, WalkEnd, SweepEnd, SweepBlob,
              vars, storeVars, processVars, historyVars
<1>4. proc[Importer].pc \in Publishing => proc[Importer].name \in Name
  BY ImportingAssumption DEF ImportInv, ImporterInv, Publishing
<1> QED BY <1>1, <1>2, <1>3, <1>4, ExportQuiet

\* The importer's steps up to the adoption, and its end.
LEMMA ScanKeepsExport ==
  ASSUME ImportInv, ExportInv,
         \/ AdoptAccess(Importer) \/ StartImport \/ (\E n \in Name : ScanFile(n))
         \/ ScanEnd \/ HashFile \/ SkipFile
  PROVE  ExportInv'
<1> USE DEF Server, Importer
<1>1. UNCHANGED <<link, file, export, disturbed>>
  BY DEF AdoptAccess, StartImport, ScanFile, ScanEnd, HashFile, SkipFile, storeVars, historyVars
<1>2. proc[Importer].pc \notin Publishing
  BY DEF AdoptAccess, StartImport, ScanFile, ScanEnd, HashFile, SkipFile, At, Publishing
<1>3. proc'[Importer].pc \notin Publishing
  <2>1. ASSUME NEW pc \in {"drop", "move", "idle", "scan"}, Goto(Importer, pc)
        PROVE  proc'[Importer].pc \notin Publishing
    <3>1. pc \in PC /\ pc \notin Publishing
      BY DEF PC, Publishing
    <3> HIDE DEF Server, Importer
    <3> QED BY <2>1, <3>1, GotoFacts DEF ImportInv
  <2>2. CASE AdoptAccess(Importer) \/ StartImport \/ ScanEnd \/ SkipFile
    BY <2>1, <2>2 DEF AdoptAccess, StartImport, ScanEnd, SkipFile
  <2>3. ASSUME NEW n \in Name, ScanFile(n) PROVE proc'[Importer].pc \notin Publishing
    BY <2>3 DEF ScanFile, ImportInv, TypeOK, Publishing
  <2>4. CASE HashFile
    <3>1. proc'[Importer].pc = "access"
      BY <2>4 DEF HashFile, ImportInv, TypeOK
    <3> QED BY <3>1 DEF Publishing
  <2> QED BY <2>2, <2>3, <2>4
<1> QED BY <1>1, <1>2, <1>3, ExportQuiet

\* The file goes into blobs/, or away: from here to the rename() only the
\* importer knows that its name is still to be published.
LEMMA TakeKeepsExport ==
  ASSUME ExportsApart, ImportInv, ExportInv, AdoptDrop(Importer) \/ MoveFile
  PROVE  ExportInv'
<1> USE DEF Server, Importer
<1> DEFINE g == proc[Importer].name
<1>1. g \in Files /\ g \in Name /\ file[g] # None /\ link[g] = None /\ export[g] = file[g]
      /\ proc[Importer].digest = file[g]
  <2>1. g \in Files /\ file[g] # None /\ proc[Importer].digest = file[g]
    BY DEF AdoptDrop, MoveFile, At, ImportInv, ImporterInv, Holding
  <2> QED BY <2>1, ImportingAssumption DEF ImportInv, FileInv
<1>2. Gone(g) /\ UNCHANGED <<export, disturbed>> /\ Goto(Importer, "exists")
  BY <1>1 DEF AdoptDrop, MoveFile, historyVars, Present
<1>3. proc'[Importer].pc = "exists" /\ proc'[Importer].name = g
      /\ proc'[Importer].digest = proc[Importer].digest
  <2>1. "exists" \in PC
    BY DEF PC
  <2> HIDE DEF Server, Importer
  <2> QED BY <1>2, <2>1, GotoFacts DEF ImportInv
<1>4. UNCHANGED link /\ \A x \in Name : x # g => file'[x] = file[x]
  BY <1>1, <1>2 DEF Gone, ImportInv, TypeOK, StoreTypeOK
<1>5. export'[proc'[Importer].name] \in {None, proc'[Importer].digest}
  BY <1>1, <1>2, <1>3
<1> HIDE DEF g
<1>6. ASSUME disturbed' = {}, NEW f \in Files, export'[f] # None PROVE Whereabouts(f)'
  <2>1. Whereabouts(f) /\ f \in Name
    BY <1>2, <1>6, FileNames DEF ExportInv
  <2>2. proc[Importer].pc \notin Publishing
    BY DEF AdoptDrop, MoveFile, At, Publishing
  <2>3. CASE f = g
    BY <1>2, <1>3, <1>4, <2>1, <2>2, <2>3 DEF Whereabouts, Publishing
  <2>4. CASE f # g
    BY <1>2, <1>4, <2>1, <2>2, <2>4 DEF Whereabouts
  <2> QED BY <2>3, <2>4
<1> QED BY <1>2, <1>4, <1>5, <1>6 DEF ExportInv

\* store_publish() of the importer finds the blob, until a collection has run
\* beside it, and finds the name free.
LEMMA PublishKeepsExport ==
  ASSUME ExportsApart, ~ReadFaults, ImportInv, ExportInv,
         PublishExists(Importer) \/ PublishResolve(Importer)
  PROVE  ExportInv'
<1> USE DEF Server, Importer
<1> DEFINE g == proc[Importer].name
<1>1. UNCHANGED <<link, file, export, disturbed>>
  BY DEF PublishExists, PublishResolve, storeVars, historyVars
<1>2. proc[Importer].pc \in {"exists", "resolve"} /\ g \in Files /\ g \in Name
      /\ proc[Importer].digest \in Digest
      /\ (disturbed = {} => proc[Importer].digest \in blobs)
  BY ImportingAssumption DEF PublishExists, PublishResolve, At, ImportInv, ImporterInv, Holding
<1>3. PICK pc \in {"resolve", "rename", "scan"} : Goto(Importer, pc)
  BY DEF PublishExists, PublishResolve, Done
<1>4. proc'[Importer].pc = pc
      /\ (pc # "scan" => proc'[Importer].name = g /\ proc'[Importer].digest = proc[Importer].digest)
  <2>1. pc \in PC /\ (pc # "scan" => pc \notin {"idle", "scan"})
    BY DEF PC
  <2> HIDE DEF Server, Importer
  <2> QED BY <1>3, <2>1, GotoFacts DEF ImportInv
<1>5. CASE pc # "scan"
  <2>1. proc[Importer].pc \in Publishing /\ proc'[Importer].pc \in Publishing
    BY <1>2, <1>4, <1>5 DEF Publishing
  <2> QED BY <1>1, <1>2, <1>4, <1>5, <2>1, ExportQuiet
<1>6. CASE pc = "scan"
  <2>1. proc'[Importer].pc \notin Publishing
    BY <1>4, <1>6 DEF Publishing
  <2>2. ASSUME disturbed = {}, export[g] # None, file[g] = None, link[Canonical(g)] = None
        PROVE  FALSE
    <3>1. CASE PublishExists(Importer)
      <4>1. BlobExists(proc[Importer].digest)
        BY <1>2, <2>2 DEF BlobExists, ImportInv, BlobHoldsItsBytes
      <4>2. Goto(Importer, "resolve")
        BY <3>1, <4>1 DEF PublishExists
      <4>3. proc'[Importer].pc = "resolve"
        BY <4>2 DEF Goto, ImportInv, TypeOK
      <4> QED BY <1>4, <1>6, <4>3
    <3>2. CASE PublishResolve(Importer)
      <4>1. Hits(Canonical(g)) = {}
        BY <1>2, <2>2 DEF Hits, ExportInv, Found
      <4>2. file[Canonical(g)] = None
        <5>1. CASE Canonical(g) \in Files /\ Canonical(g) # g
          BY <1>2, <5>1, ExportFacts, FileNames DEF ExportsApart
        <5>2. CASE Canonical(g) \notin Files
          BY <1>2, <5>2, FileNames DEF ImportInv, FileInv
        <5> QED BY <2>2, <5>1, <5>2
      <4>3. ResolveError(g) = "NOT_FOUND"
        BY <4>1, <4>2 DEF ResolveError, LookupError, Hits
      <4>4. Goto(Importer, "rename")
        BY <3>2, <4>3, ResolveReadsAll
      <4>5. proc'[Importer].pc = "rename"
        BY <4>4 DEF Goto, ImportInv, TypeOK
      <4> QED BY <1>4, <1>6, <4>5
    <3> QED BY <3>1, <3>2
  <2> HIDE DEF g
  <2>3. ASSUME disturbed' = {}, NEW f \in Files, export'[f] # None PROVE Whereabouts(f)'
    <3>1. Whereabouts(f)
      BY <1>1, <2>3 DEF ExportInv
    <3>2. CASE f = g
      BY <1>1, <2>2, <2>3, <3>1, <3>2 DEF Whereabouts
    <3>3. CASE f # g
      BY <1>1, <3>1, <3>3 DEF Whereabouts, g
    <3> QED BY <3>2, <3>3
  <2> QED BY <1>1, <2>1, <2>3 DEF ExportInv
<1> QED BY <1>5, <1>6

\* The rename() leaves the name where a lookup finds it, and touches no other
\* name of the export.
LEMMA RenameKeepsExport ==
  ASSUME ExportsApart, ImportInv, ExportInv, PublishRename(Importer)
  PROVE  ExportInv'
<1> USE DEF Server, Importer
<1> DEFINE g == proc[Importer].name  d == proc[Importer].digest  c == Canonical(proc[Importer].name)
<1>1. /\ proc[Importer].pc = "rename" /\ Goto(Importer, "scan")
      /\ link' = [link EXCEPT ![c] = d] /\ file' = [file EXCEPT ![c] = None]
      /\ UNCHANGED <<export, disturbed>>
  BY DEF PublishRename, At, Done
<1>2. g \in Files /\ g \in Name /\ c \in Name /\ export[g] \in {None, d}
  BY <1>1, FileNames DEF ImportInv, ImporterInv, Holding, ExportInv, Publishing
<1>3. proc'[Importer].pc = "scan"
  BY <1>1 DEF Goto, Between, ImportInv, TypeOK
<1>4. /\ link'[c] = d /\ \A x \in Name : x # c => link'[x] = link[x] /\ file'[x] = file[x]
  BY <1>1, <1>2 DEF ImportInv, TypeOK, StoreTypeOK
<1>5. \A f \in Files : f # g => /\ c \notin Candidates(Canonical(f)) /\ c # f /\ c # Canonical(f)
  BY <1>2, ExportFacts
<1>6. c = Canonical(g) /\ g = proc[Importer].name
  OBVIOUS
<1> HIDE DEF g, d, c
<1>7. \A f \in Files : \A x \in Candidates(Canonical(f)) : link'[x] # None => x = Canonical(f)
  <2> SUFFICES ASSUME NEW f \in Files, NEW x \in Candidates(Canonical(f)), link'[x] # None
               PROVE  x = Canonical(f)
    OBVIOUS
  <2>1. x \in Name
    BY FileNames
  <2> QED BY <1>4, <1>5, <1>6, <2>1 DEF ExportInv
<1>8. ASSUME disturbed' = {}, NEW f \in Files, export'[f] # None PROVE Whereabouts(f)'
  <2>1. Whereabouts(f) /\ f \in Name /\ Canonical(f) \in Name
    BY <1>1, <1>8, FileNames DEF ExportInv
  <2>2. CASE f = g
    BY <1>1, <1>2, <1>4, <1>6, <1>8, <2>2 DEF Whereabouts
  <2>3. CASE f # g
    BY <1>1, <1>4, <1>5, <1>6, <2>1, <2>3 DEF Whereabouts
  <2> QED BY <2>2, <2>3
<1> QED BY <1>1, <1>3, <1>7, <1>8 DEF ExportInv, Publishing

\* After a kill nothing is claimed of the export any more.
LEMMA KillKeepsExport ==
  ASSUME ImportInv, ExportInv, KillImport
  PROVE  ExportInv'
<1> USE DEF Server, Importer
<1>1. UNCHANGED <<link, export>> /\ disturbed' # {}
  BY DEF KillImport, storeVars
<1>2. proc'[Importer].pc = "idle"
  BY DEF KillImport, Goto, Between, ImportInv, TypeOK
<1> QED BY <1>1, <1>2 DEF ExportInv, Publishing

LEMMA StepKeepsExportInv ==
  ASSUME FilesApart, ExportsApart, ~ReadFaults, ImportInv, ExportInv, [Next]_vars
  PROVE  ExportInv'
<1>1. CASE \E p \in {Server, Importer} :
             \/ AdoptAccess(p) \/ AdoptDrop(p)
             \/ PublishExists(p) \/ PublishResolve(p) \/ PublishRename(p)
  BY <1>1, ServerKeepsExport, ScanKeepsExport, TakeKeepsExport, PublishKeepsExport, RenameKeepsExport
<1>2. CASE \/ (\E n \in Pushes, d \in Digest : StartPut(n, d))
           \/ (\E n \in Pushes : StartDelete(n)) \/ CheckPut \/ MoveStaged
           \/ DeleteSignature \/ DeleteArtifact
           \/ StartCollect \/ (\E n \in Name : WalkEntry(n)) \/ WalkEnd \/ SweepEnd
           \/ (\E d \in Digest : SweepBlob(d)) \/ UNCHANGED vars
  BY <1>2, ServerKeepsExport
<1>3. CASE StartImport \/ (\E n \in Name : ScanFile(n)) \/ ScanEnd \/ HashFile \/ SkipFile
  BY <1>3, ScanKeepsExport
<1>4. CASE MoveFile
  BY <1>4, TakeKeepsExport
<1>5. CASE KillImport
  BY <1>5, KillKeepsExport
<1> QED BY <1>1, <1>2, <1>3, <1>4, <1>5 DEF Next

\* When an import that nothing disturbed has nothing left to do, every exported
\* name that no client has deleted resolves to the bytes it had in the export,
\* whatever was pushed, deleted and collected before and meanwhile.
THEOREM ImportLosesNothing ==
  ASSUME FilesApart, ExportsApart, ~ReadFaults
  PROVE  Spec => []ImportIsComplete
<1>1. Init => ImportInv /\ ExportInv
  <2>1. Init => ExportInv
    <3> SUFFICES ASSUME Init PROVE ExportInv
      OBVIOUS
    <3>1. proc[Importer].pc \notin Publishing
      BY DEF Init, Between, Server, Importer, Publishing
    <3>2. \A x \in Name : link[x] = None
      BY DEF Init
    <3>3. \A x \in Name : export[x] = file[x] /\ (file[x] # None => x \in Files)
      BY DEF Init
    <3> QED BY <3>1, <3>2, <3>3, FileNames DEF ExportInv, Whereabouts
  <2> QED BY <2>1, InitIsSound
<1>2. ImportInv /\ ExportInv /\ [Next]_vars => (ImportInv /\ ExportInv)'
  BY StepKeepsImportInv, StepKeepsExportInv
<1>3. ImportInv /\ ExportInv => ImportIsComplete
  <2> SUFFICES ASSUME ImportInv, ExportInv, disturbed = {}, proc[Importer].pc = "idle",
                      \A x \in Name : file[x] = None, NEW n \in Name, export[n] # None
               PROVE  ResolvesTo(n, export[n]) /\ BlobExists(export[n])
    BY DEF ImportIsComplete, Imported, At
  <2>1. n \in Files /\ Canonical(n) \in Name /\ export[n] \in Digest
    BY CanonicalIsName DEF ExportInv, ImportInv, TypeOK
  <2>2. link[Canonical(n)] = export[n]
    BY <2>1 DEF ExportInv, Whereabouts, Publishing
  <2>3. export[n] \in blobs
    BY <2>1, <2>2 DEF ImportInv, EntriesHaveBlobs, NoDangling
  <2>4. ResolvesTo(n, export[n])
    BY <2>1, <2>2, LoneEntryResolves DEF ExportInv, ImportInv, TypeOK
  <2>5. BlobExists(export[n])
    BY <2>1, <2>3 DEF BlobExists, ImportInv, BlobHoldsItsBytes
  <2> QED BY <2>4, <2>5
<1> QED BY <1>1, <1>2, <1>3, PTL DEF Spec
=============================================================================
