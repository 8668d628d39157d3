----------------------------- MODULE EventLoop -----------------------------
(***************************************************************************)
(* The event loop of the daemon (src/main.c): the records of g_conns, the  *)
(* epoll batch that is being walked, the list of records to be freed, and  *)
(* the timeout sweep.  What a request does to the store is in Reactor.tla; *)
(* here a handler is what it does to its record: the state it leaves it    *)
(* in, the records it makes and the records it closes.                     *)
(*                                                                         *)
(* A record is an address.  It is handed to epoll as the event's data, so  *)
(* it is reachable from g_conns, from the interest list of epoll, from the *)
(* rest of the batch, from its owner or child, and from the cursor of the  *)
(* sweep; the allocator may reuse it as soon as it is freed.               *)
(***************************************************************************)
EXTENDS Integers, Sequences, FiniteSets, SequencesExt

CONSTANTS
  Addr,          \* the addresses calloc() returns for records; a bound
  NULL,
  Listener,      \* the record of the listening socket; it is never closed
  Chunks,        \* reads or writes that use up a header or a body; a bound
  IdleTimeout,   \* IDLE_TIMEOUT_MS and XFER_TIMEOUT_MS, in turns of the loop
  XferTimeout,   \*   that last a second
  Faults         \* whether a system call made for a child may fail

ASSUME EventLoopAssumption ==
  /\ NULL \notin Addr /\ Listener \notin Addr
  /\ Chunks \in Nat \ {0}
  /\ IdleTimeout \in Nat /\ XferTimeout \in Nat /\ IdleTimeout <= XferTimeout
  /\ Faults \in BOOLEAN

VARIABLES
  rec,             \* the memory: what is at each address
  g_conns,         \* the addresses of the open records, newest first
  g_pending_free,  \* the addresses to be freed at the end of the turn
  interest,        \* the addresses registered with epoll
  exited,          \* the addresses of child records whose process has exited
  batch,           \* the events of this turn that are not handled yet
  pc,              \* where in its turn the loop is
  cursor,          \* sweep_timeouts(): the record to look at
  g_import_running

vars == <<rec, g_conns, g_pending_free, interest, exited, batch, pc, cursor,
          g_import_running>>

State == {"READ_REQUEST", "RECV_BODY", "HASHING", "SEND_HEADER", "SEND_BODY"}
Kind == {"FREE", "CLIENT", "HASH_CHILD", "IMPORT_CHILD", "DEAD"}

Clock == 0 .. XferTimeout + 1

\* idle is the time since last_ms; left the chunks that remain of the header
\* or body being read or written.
Record ==
  [kind : Kind, state : State, owner : Addr \cup {NULL}, child : Addr \cup {NULL},
   idle : Clock, left : 0 .. Chunks]

Event == ((Addr \cup {Listener}) \X {"IN", "OUT", "HUP"})

TypeOK ==
  /\ rec \in [Addr -> Record]
  /\ g_conns \in Seq(Addr)
  /\ g_pending_free \in SUBSET Addr
  /\ interest \in SUBSET Addr
  /\ exited \in SUBSET Addr
  /\ batch \in SUBSET Event
  /\ pc \in {"wait", "batch", "sweep"}
  /\ cursor \in Addr \cup {NULL}
  /\ g_import_running \in BOOLEAN

\* calloc(): also what is left at an address once it is closed or freed, none
\* of which is read again.
Blank(kind) ==
  [kind |-> kind, state |-> "READ_REQUEST", owner |-> NULL, child |-> NULL,
   idle |-> 0, left |-> 0]

Init ==
  /\ rec = [a \in Addr |-> Blank("FREE")]
  /\ g_conns = <<>>
  /\ g_pending_free = {} /\ interest = {} /\ exited = {} /\ batch = {}
  /\ pc = "wait"
  /\ cursor = NULL
  /\ g_import_running = FALSE

(***************************************************************************)
(* Connection bookkeeping.  conn_new() puts a record at the head of        *)
(* g_conns; conn_close() takes a record and its child out of everything    *)
(* but the batch, and leaves the freeing to the end of the turn.           *)
(***************************************************************************)
Free == {a \in Addr : rec[a].kind = "FREE"}

\* Mutant of Listed: a new record goes to the end of the list.
MutListedLast(a) == Append(g_conns, a)

Listed(a) == <<a>> \o g_conns

WithChild(a) == {a, rec[a].child} \ {NULL}

\* Mutant of Dead: the owner of a closed child is not told.
MutDeadUntold(m, S) == [a \in Addr |-> IF a \in S THEN Blank("DEAD") ELSE m[a]]

\* The memory m once the records of S are closed in it.
Dead(m, S) ==
  [a \in Addr |->
     IF a \in S THEN Blank("DEAD")
     ELSE IF m[a].child \in S THEN [m[a] EXCEPT !.child = NULL]
     ELSE m[a]]

\* Mutant of Deregistered: close() without EPOLL_CTL_DEL.
MutCloseOnly(S) == IF g_import_running THEN interest ELSE interest \ S

\* The addresses epoll knows once those of S are closed.  EPOLL_CTL_DEL is
\* made before close(): an importer that was forked meanwhile holds copies of
\* the descriptors, and close() alone would leave them registered.
Deregistered(S) == interest \ S

\* The list s without record a.
conn_unlink(s, a) ==
  IF \E i \in DOMAIN s : s[i] = a THEN RemoveAt(s, CHOOSE i \in DOMAIN s : s[i] = a) ELSE s

\* The child is closed first; a record without one has child NULL.
Unlisted(a) == conn_unlink(conn_unlink(g_conns, rec[a].child), a)

\* Mutant of conn_close: the records are freed at once.
MutFreeAtOnce(a) ==
  LET S == WithChild(a) IN
  /\ rec' = [x \in Addr |-> IF x \in S THEN Blank("FREE") ELSE rec[x]]
  /\ g_conns' = Unlisted(a)
  /\ interest' = Deregistered(S)
  /\ exited' = exited \ S
  /\ UNCHANGED g_pending_free

conn_close(a) ==
  LET S == WithChild(a) IN
  /\ rec' = Dead(rec, S)
  /\ g_conns' = Unlisted(a)
  /\ g_pending_free' = g_pending_free \cup S
  /\ interest' = Deregistered(S)
  /\ exited' = exited \ S

\* A handler that leaves the record open, in state s with n chunks to go.
Leave(a, s, n) ==
  /\ rec' = [rec EXCEPT ![a].state = s, ![a].left = n, ![a].idle = 0]
  /\ UNCHANGED <<g_conns, g_pending_free, interest, exited>>

\* begin_response(); a header that cannot be formatted, or no memory for the
\* body, closes the connection instead.
Respond(a) == \/ \E n \in 1 .. Chunks : Leave(a, "SEND_HEADER", n)
              \/ Faults /\ conn_close(a)

(***************************************************************************)
(* One turn of the loop: wait, the batch, the sweep, the freeing.          *)
(***************************************************************************)
\* Mutant of Aged: a connection is kept fresh while its child runs.
MutHashKeepsFresh(m) ==
  [a \in Addr |->
     IF m[a].kind = "CLIENT" /\ m[a].state # "HASHING" THEN [m[a] EXCEPT !.idle = @ + 1]
     ELSE m[a]]

Aged(m) ==
  [a \in Addr |->
     IF m[a].kind = "CLIENT" THEN [m[a] EXCEPT !.idle = @ + 1] ELSE m[a]]

\* What epoll_wait() may report for a registered descriptor: anything it asks
\* for, and a hangup in any case; the exit of a child for certain once it has
\* happened.  (The instances have fewer than MAX_EVENTS descriptors.)
Reports(a) ==
  IF a = Listener THEN {"NONE", "IN"}
  ELSE CASE rec[a].kind # "CLIENT" -> {IF a \in exited THEN "IN" ELSE "NONE"}
         [] rec[a].state \in {"READ_REQUEST", "RECV_BODY"} -> {"NONE", "IN", "HUP"}
         [] rec[a].state = "HASHING" -> {"NONE", "HUP"}
         [] OTHER -> {"NONE", "OUT", "HUP"}

\* An empty batch is a timeout: a second has passed.
Wait(ticks) ==
  /\ pc = "wait"
  /\ \E f \in [interest \cup {Listener} -> {"NONE", "IN", "OUT", "HUP"}] :
       /\ \A a \in DOMAIN f : f[a] \in Reports(a)
       /\ batch' = {<<a, f[a]>> : a \in {x \in DOMAIN f : f[x] # "NONE"}}
  /\ batch' = {} => ticks
  /\ rec' = IF ticks THEN Aged(rec) ELSE rec
  /\ pc' = "batch"
  /\ UNCHANGED <<g_conns, g_pending_free, interest, exited, cursor, g_import_running>>

\* The event e is taken from the batch; one for a record that was closed
\* earlier in the turn is dropped.
Take(e) ==
  /\ pc = "batch"
  /\ e \in batch
  /\ batch' = batch \ {e}
  /\ UNCHANGED <<pc, cursor>>

SkipDead(a) ==
  /\ \E ev \in {"IN", "OUT", "HUP"} : Take(<<a, ev>>)
  /\ rec[a].kind = "DEAD"
  /\ UNCHANGED <<rec, g_conns, g_pending_free, interest, exited, g_import_running>>

EndBatch ==
  /\ pc = "batch" /\ batch = {}
  /\ pc' = "sweep"
  /\ cursor' = IF g_conns = <<>> THEN NULL ELSE Head(g_conns)
  /\ UNCHANGED <<rec, g_conns, g_pending_free, interest, exited, batch, g_import_running>>

Limit(s) ==
  IF s \in {"SEND_BODY", "RECV_BODY", "HASHING"} THEN XferTimeout ELSE IdleTimeout

\* Mutant of Expired: one second late.
MutExpiredLate(a) == rec[a].kind = "CLIENT" /\ rec[a].idle > Limit(rec[a].state) + 1

Expired(a) == rec[a].kind = "CLIENT" /\ rec[a].idle > Limit(rec[a].state)

Following(a) ==
  LET i == CHOOSE i \in DOMAIN g_conns : g_conns[i] = a
  IN IF i = Len(g_conns) THEN NULL ELSE g_conns[i + 1]

\* sweep_timeouts() reads cc->next before it closes cc, and closing cc may
\* close its child as well.
Sweep ==
  /\ pc = "sweep" /\ cursor # NULL
  /\ cursor' = Following(cursor)
  /\ IF Expired(cursor) THEN conn_close(cursor)
     ELSE UNCHANGED <<rec, g_conns, g_pending_free, interest, exited>>
  /\ UNCHANGED <<batch, pc, g_import_running>>

drain_pending_free ==
  /\ pc = "sweep" /\ cursor = NULL
  /\ rec' = [a \in Addr |-> IF a \in g_pending_free THEN Blank("FREE") ELSE rec[a]]
  /\ g_pending_free' = {}
  /\ pc' = "wait"
  /\ UNCHANGED <<g_conns, interest, exited, batch, cursor, g_import_running>>

(***************************************************************************)
(* Handlers.                                                               *)
(***************************************************************************)

\* accept_loop(): one connection, or none if it is gone again or there is no
\* memory for it.  (A second one waits for the next turn.)
Accept ==
  /\ Take(<<Listener, "IN">>)
  /\ \/ \E a \in Free, n \in 1 .. Chunks :
          /\ rec' = [rec EXCEPT ![a] = [Blank("CLIENT") EXCEPT !.left = n]]
          /\ g_conns' = Listed(a)
          /\ interest' = interest \cup {a}
          /\ UNCHANGED <<g_pending_free, exited>>
     \/ UNCHANGED <<rec, g_conns, g_pending_free, interest, exited>>
  /\ UNCHANGED g_import_running

Client(a, ev) == Take(<<a, ev>>) /\ rec[a].kind = "CLIENT"

\* EPOLLHUP or EPOLLERR, end of file, or an error: also while HASHING, when
\* no event was asked for.
Drop(a) ==
  /\ \E ev \in {"IN", "OUT", "HUP"} : Client(a, ev)
  /\ conn_close(a)
  /\ UNCHANGED g_import_running

\* read() brings part of the headers or of the body.
ReadPart(a) ==
  /\ Client(a, "IN")
  /\ \E n \in 1 .. rec[a].left - 1 : Leave(a, rec[a].state, n)
  /\ UNCHANGED g_import_running

\* handle_read() refusing a request, or dispatch() answering it.  A write of
\* the body to its staged file may fail as well.
ReadAndRespond(a) ==
  /\ Client(a, "IN")
  /\ rec[a].state = "READ_REQUEST" \/ Faults
  /\ Respond(a)
  /\ UNCHANGED g_import_running

\* begin_upload().
BeginBody(a) ==
  /\ Client(a, "IN")
  /\ rec[a].state = "READ_REQUEST"
  /\ \E n \in 1 .. Chunks : Leave(a, "RECV_BODY", n)
  /\ UNCHANGED g_import_running

\* The owner of a new hash child, and the child's record.  The child is made
\* after its owner, so it comes before it in g_conns.
Hashing(a, k) ==
  [rec EXCEPT ![a].state = "HASHING", ![a].idle = 0, ![a].left = 0, ![a].child = k,
              ![k] = [Blank("HASH_CHILD") EXCEPT !.owner = a]]

\* Mutant of StartHash: the result of epoll_add() is not looked at.
MutStartHashUnchecked(a) ==
  /\ Client(a, "IN")
  /\ rec[a].state = "RECV_BODY"
  /\ \E k \in Free :
       /\ g_conns' = Listed(k)
       /\ rec' = Hashing(a, k)
       /\ interest' \in {interest \cup {k}} \cup (IF Faults THEN {interest} ELSE {})
  /\ UNCHANGED <<g_pending_free, exited, g_import_running>>

\* start_hash_child().  When the child cannot be registered the client gets a
\* 500 and keeps the child's record until it is closed.
StartHash(a) ==
  /\ Client(a, "IN")
  /\ rec[a].state = "RECV_BODY"
  /\ \E k \in Free :
       /\ g_conns' = Listed(k)
       /\ \/ /\ rec' = Hashing(a, k)
             /\ interest' = interest \cup {k}
          \/ /\ Faults
             /\ \E n \in 1 .. Chunks :
                  rec' = [Hashing(a, k) EXCEPT ![a].state = "SEND_HEADER", ![a].left = n]
             /\ UNCHANGED interest
  /\ UNCHANGED <<g_pending_free, exited, g_import_running>>

\* No pipe, no process, no pidfd or no memory: 500.
CannotHash(a) ==
  /\ Client(a, "IN")
  /\ rec[a].state = "RECV_BODY"
  /\ Faults \/ Free = {}
  /\ Respond(a)
  /\ UNCHANGED g_import_running

\* api_import_start().  epoll_add()'s result is not looked at.
StartImport(a) ==
  /\ Client(a, "IN")
  /\ rec[a].state = "READ_REQUEST"
  /\ ~g_import_running
  /\ \E k \in Free, n \in 1 .. Chunks :
       /\ rec' = [rec EXCEPT ![a].state = "SEND_HEADER", ![a].left = n, ![a].idle = 0,
                             ![k] = Blank("IMPORT_CHILD")]
       /\ g_conns' = Listed(k)
       /\ interest' \in {interest \cup {k}} \cup (IF Faults THEN {interest} ELSE {})
  /\ g_import_running' = TRUE
  /\ UNCHANGED <<g_pending_free, exited>>

\* write() or sendfile() takes part of the header or body, or the last of the
\* header with a body to follow; the last of all closes the connection (Drop).
WritePart(a) ==
  /\ Client(a, "OUT")
  /\ \/ \E n \in 1 .. rec[a].left - 1 : Leave(a, rec[a].state, n)
     \/ rec[a].state = "SEND_HEADER" /\ \E n \in 1 .. Chunks : Leave(a, "SEND_BODY", n)
  /\ UNCHANGED g_import_running

\* read(), write() or sendfile() would block after all.
NothingYet(a) ==
  /\ \E ev \in {"IN", "OUT"} : Client(a, ev)
  /\ UNCHANGED <<rec, g_conns, g_pending_free, interest, exited, g_import_running>>

\* The exit of sha256sum: the record is detached and closed, and then the
\* owner is answered by finish_upload().
HashDone(k) ==
  /\ Take(<<k, "IN">>)
  /\ rec[k].kind = "HASH_CHILD"
  /\ LET o == rec[k].owner IN
     IF o = NULL
     THEN conn_close(k)
     ELSE /\ \E n \in 1 .. Chunks :
               rec' = [Dead(rec, {k}) EXCEPT ![o].state = "SEND_HEADER", ![o].left = n,
                                             ![o].idle = 0]
          /\ g_conns' = conn_unlink(g_conns, k)
          /\ g_pending_free' = g_pending_free \cup {k}
          /\ interest' = Deregistered({k})
          /\ exited' = exited \ {k}
  /\ UNCHANGED g_import_running

\* Mutant of ImportDone: g_import_running is not reset.
MutImportDoneUnnoticed(k) ==
  /\ Take(<<k, "IN">>)
  /\ rec[k].kind = "IMPORT_CHILD"
  /\ conn_close(k)
  /\ UNCHANGED g_import_running

ImportDone(k) ==
  /\ Take(<<k, "IN">>)
  /\ rec[k].kind = "IMPORT_CHILD"
  /\ conn_close(k)
  /\ g_import_running' = FALSE

(***************************************************************************)
(* The child processes.                                                    *)
(***************************************************************************)
Exits(k, kind) ==
  /\ rec[k].kind = kind /\ k \notin exited
  /\ exited' = exited \cup {k}
  /\ UNCHANGED <<rec, g_conns, g_pending_free, interest, batch, pc, cursor, g_import_running>>

\* A step of the loop itself.
Loop ==
  \/ \E ticks \in BOOLEAN : Wait(ticks)
  \/ EndBatch \/ Sweep \/ drain_pending_free
  \/ Accept
  \/ \E a \in Addr :
       \/ SkipDead(a) \/ Drop(a)
       \/ ReadPart(a) \/ ReadAndRespond(a) \/ BeginBody(a)
       \/ StartHash(a) \/ CannotHash(a) \/ StartImport(a)
       \/ WritePart(a) \/ NothingYet(a)
       \/ HashDone(a) \/ ImportDone(a)

Next ==
  \/ Loop
  \/ \E k \in Addr : Exits(k, "HASH_CHILD") \/ Exits(k, "IMPORT_CHILD")

Spec == Init /\ [][Next]_vars

\* The loop goes on: epoll_wait() returns within a second, and no handler
\* blocks.  Time passes, however many events there are.  An import ends; a
\* hash may not (the disk hangs), and a peer need not do anything at all.
Fairness ==
  /\ WF_vars(Loop)
  /\ SF_vars(Wait(TRUE))
  /\ \A k \in Addr : WF_vars(Exits(k, "IMPORT_CHILD"))

FairSpec == Spec /\ Fairness

(***************************************************************************)
(* Properties.                                                             *)
(***************************************************************************)
Open(a) == rec[a].kind \notin {"FREE", "DEAD"}

\* No use after free: whatever events are still to be handled, records closed
\* by earlier events of the batch included, each carries the address of a
\* record that has not been freed; and epoll will never report one that has.
NoStaleEvent ==
  /\ \A e \in batch : e[1] # Listener => rec[e[1]].kind # "FREE"
  /\ \A a \in interest : Open(a)

\* The sweep always stands on an open record, although it closes records,
\* and children of records, as it goes: the next one it remembered is never
\* among those it has just closed.
SweepOnList == cursor # NULL => cursor \in Range(g_conns)

\* Owner and child point at each other and at open records, whichever of the
\* two goes first: a finished hash never answers a connection that is closed.
ChildOfOwner ==
  \A a \in Addr :
    /\ rec[a].child # NULL => Open(a) /\ rec[rec[a].child].owner = a
    /\ rec[a].owner # NULL => Open(a) /\ rec[rec[a].owner].child = a

\* A connection that waits for a hash is woken when it is done: its child is
\* registered.  Nothing else would ever answer it.
HashingIsWatched ==
  \A a \in Addr : rec[a].kind = "CLIENT" /\ rec[a].state = "HASHING" =>
    rec[a].child \in interest

\* Every connection ends, whatever its peer does or does not do and even if
\* the hash of its body never returns: by its last byte, an error, or the
\* timeout sweep.
EveryConnectionEnds ==
  \A a \in Addr : []<>(rec[a].kind # "CLIENT")

\* The end of an import whose child epoll knows of is noticed, so that another
\* can be started.  One that epoll_add() failed for runs on unnoticed.
ImportIsNoticed ==
  (\E a \in interest : rec[a].kind = "IMPORT_CHILD") ~> ~g_import_running

=============================================================================
