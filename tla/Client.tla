------------------------------- MODULE Client -------------------------------
(***************************************************************************)
(* cixcachectl (cli/src/main.c) and its HTTP library                       *)
(* (client/src/httpclient.c) against a daemon that may be restarted, over  *)
(* connections that may break at any point.                                *)
(*                                                                         *)
(* Every subcommand but publish goes through cix_client_request_with_auth, *)
(* which sends the request again when an attempt ends without a status     *)
(* line; publish makes one attempt by hand.  `log -f` is a loop of such    *)
(* requests that follows the daemon's activity ring with a cursor.         *)
(*                                                                         *)
(* The daemon is what its other models show it to be: the store is the     *)
(* write-once map of Registry, and a request is handled in one step.  New  *)
(* here are the ring (server_log, api_log) and how many lines each request *)
(* leaves in it.                                                           *)
(***************************************************************************)
EXTENDS Naturals, FiniteSets

CONSTANTS
  Ctl,           \* invocations of cixcachectl that run one command at a time
  Follower,      \* the one that runs `log -f`
  Name, Digest, None,
  SignatureOf,   \* per name: the name of its signature, if it can have one
  Commands,      \* per Ctl: the commands it may be given
  NoCommand,
  LOG_RING,      \* entries the activity ring holds
  MAX_ATTEMPTS,  \* CIX_CLIENT_MAX_ATTEMPTS
  MaxBoots,      \* bound: daemons started
  MaxCommands,   \* bound: commands given
  MaxBreaks,     \* bound: connections broken or cut short
  StoreFaults    \* whether a handler's system calls may fail

PublishCommand == [op : {"publish"}, name : Name, digest : Digest, token : BOOLEAN]

Command ==
  PublishCommand
    \cup [op : {"delete"}, name : Name, token : BOOLEAN]
    \cup [op : {"gc", "import"}, token : BOOLEAN]

ASSUME ClientAssumption ==
  /\ Follower \notin Ctl
  /\ None \notin Digest
  /\ SignatureOf \in [Name -> SUBSET Name]
  /\ Commands \in [Ctl -> SUBSET Command] /\ NoCommand \notin Command
  /\ LOG_RING \in Nat \ {0} /\ MAX_ATTEMPTS \in Nat \ {0}
  /\ MaxBoots \in Nat \ {0} /\ MaxCommands \in Nat /\ MaxBreaks \in Nat
  /\ StoreFaults \in BOOLEAN

Client == Ctl \cup {Follower}

VARIABLES
  entry,       \* the daemon's store: entry[n], the bytes published under n
  importing,   \* g_import_running
  boot,        \* which daemon is running, counted from 1
  seq,         \* g_log_seq
  ring,        \* g_log[i].seq
  call,        \* per client: the request under way
  report,      \* per Ctl: what the last command told its user
  after,       \* the follower's cursor
  \* Histories.
  effects,     \* per Ctl: how often the daemon has carried out the command
  strayed,     \* per Ctl: the pairs of a name a refused request was about and a
               \*   name whose entry the daemon changed all the same
  broken,      \* per Ctl: attempts of the command that ended without a status
  shown,       \* the entries <<boot, seq>> the follower has printed
  repeated,    \* whether it has printed one twice
  from,        \* the boot its cursor is about
  skipped,     \* the last entry of that boot that its first poll passed over
  cut,         \* whether an answer to it has been cut short
  \* Bounds.
  commands, breaks

daemonVars == <<entry, importing, boot, seq, ring>>
ctlVars == <<report, effects, strayed, broken>>
tailVars == <<after, shown, repeated, from, skipped, cut>>
vars == <<daemonVars, call, ctlVars, tailVars, commands, breaks>>

-----------------------------------------------------------------------------
(* The daemon.                                                             *)

\* server_log(), k times: entry j goes to slot (j - 1) % LOG_RING.
Logged(r, s, k) ==
  [i \in 0..LOG_RING - 1 |->
     LET new == {j \in s + 1..s + k : (j - 1) % LOG_RING = i}
     IN IF new = {} THEN r[i] ELSE CHOOSE j \in new : \A h \in new : h <= j]

EmptyRing == [i \in 0..LOG_RING - 1 |-> 0]

Oldest == IF seq > LOG_RING THEN seq - LOG_RING ELSE 0

\* Mutants of Entries: the entry at the cursor is sent again; for a cursor that
\* fell out of the ring nothing older than the present is sent.
MutEntriesAgain(a) ==
  {i \in (IF a < Oldest THEN Oldest ELSE a)..seq : i > 0 /\ ring[(i - 1) % LOG_RING] = i}

MutEntriesOverrun(a) ==
  {i \in (IF a < Oldest THEN seq ELSE a) + 1..seq : ring[(i - 1) % LOG_RING] = i}

\* api_log(): the entries after a that are still in the ring.
Entries(a) ==
  {i \in (IF a < Oldest THEN Oldest ELSE a) + 1..seq : ring[(i - 1) % LOG_RING] = i}

\* What dispatch() makes of command m: the status it answers, the store and
\* g_import_running afterwards, whether the command was carried out, and how
\* many lines server_log() wrote.  begin_response() adds one for a failure and
\* for every artifact path, none for a success under /api/v1/.
Answer(status, ent, imp, done, lines) ==
  [status |-> status, entry |-> ent, importing |-> imp, done |-> done, lines |-> lines]

Refuse(status, lines) == Answer(status, entry, importing, FALSE, lines)

\* The store after store_unpublish(n) has unlinked the signature, which it does
\* first and whether or not the artifact is there.
Unsigned(n) == [x \in Name |-> IF x \in SignatureOf[n] THEN None ELSE entry[x]]

\* Mutant of DeleteAnswers: the artifact goes first.
MutDeleteArtifactFirst(n) ==
  {IF entry[n] = None THEN Answer(404, entry, importing, FALSE, 1)
   ELSE Answer(204, [Unsigned(n) EXCEPT ![n] = None], importing, TRUE, 2)} \cup
  {Answer(400, e, importing, FALSE, 1) :
     e \in IF StoreFaults THEN {entry, [entry EXCEPT ![n] = None]} ELSE {}}

\* DELETE: 404 when the artifact is not there, 400 when an unlink() fails, and
\* the signature may be gone in either case.
DeleteAnswers(n) ==
  {IF entry[n] = None THEN Answer(404, Unsigned(n), importing, FALSE, 1)
   ELSE Answer(204, [Unsigned(n) EXCEPT ![n] = None], importing, TRUE, 2)} \cup
  {Answer(400, e, importing, FALSE, 1) : e \in IF StoreFaults THEN {entry, Unsigned(n)} ELSE {}}

Answers(m) ==
  IF ~m.token THEN {Refuse(401, 1)}
  ELSE (IF StoreFaults /\ m.op # "delete" THEN {Refuse(500, 1)} ELSE {}) \cup
       IF m.op = "publish"
       THEN IF entry[m.name] \notin {None, m.digest} THEN {Refuse(409, 2)}
            ELSE {Answer(201, [entry EXCEPT ![m.name] = m.digest], importing, TRUE, 2)}
       ELSE IF m.op = "delete" THEN DeleteAnswers(m.name)
       ELSE IF m.op = "gc" THEN {Answer(200, entry, importing, TRUE, 1)}
       ELSE IF importing THEN {Refuse(409, 1)}
       ELSE {Answer(202, entry, TRUE, TRUE, 0)}

Reply == [status : {0, 200, 201, 202, 204, 400, 401, 404, 409, 500},
          boot : Nat, seq : Nat, entries : SUBSET Nat]

NoReply == [status |-> 0, boot |-> 0, seq |-> 0, entries |-> {}]

\* The daemon reads a command's request and answers it.
HandleCommand(c) ==
  /\ c \in Ctl /\ call[c].state = "SENT"
  /\ \E a \in Answers(call[c].cmd) :
       /\ entry' = a.entry
       /\ importing' = a.importing
       /\ ring' = Logged(ring, seq, a.lines)
       /\ seq' = seq + a.lines
       /\ effects' = [effects EXCEPT ![c] = IF a.done THEN @ + 1 ELSE @]
       /\ strayed' = [strayed EXCEPT
                        ![c] = IF a.done THEN @
                               ELSE @ \cup {<<call[c].cmd.name, n>> :
                                              n \in {x \in Name : a.entry[x] # entry[x]}}]
       /\ call' = [call EXCEPT ![c].state = "ANSWERED",
                               ![c].reply = [NoReply EXCEPT !.status = a.status]]
  /\ UNCHANGED <<boot, report, broken, tailVars, commands, breaks>>

\* GET /api/v1/log?after=: nothing is logged about it.
HandleLog ==
  /\ call[Follower].state = "SENT"
  /\ call' = [call EXCEPT ![Follower].state = "ANSWERED",
                          ![Follower].reply = [status |-> 200, boot |-> boot, seq |-> seq,
                                               entries |-> Entries(after)]]
  /\ UNCHANGED <<daemonVars, ctlVars, tailVars, commands, breaks>>

\* The importer exits and the daemon notices.
ImportEnds ==
  /\ importing
  /\ importing' = FALSE
  /\ UNCHANGED <<entry, boot, seq, ring, call, ctlVars, tailVars, commands, breaks>>

\* A new daemon on the same store: the ring and its numbers start again, with
\* the line main() logs about serving.  A request that was on its way reaches
\* the new daemon if its client was still connecting, or else breaks.
Restart ==
  /\ boot < MaxBoots
  /\ boot' = boot + 1
  /\ importing' = FALSE
  /\ seq' = 1
  /\ ring' = Logged(EmptyRing, 0, 1)
  /\ UNCHANGED <<entry, call, ctlVars, tailVars, commands, breaks>>

-----------------------------------------------------------------------------
(* The clients.                                                            *)

Idle == [state |-> "IDLE", cmd |-> NoCommand, attempt |-> 0, reply |-> NoReply]

Attempt(m, k) == [state |-> "SENT", cmd |-> m, attempt |-> k, reply |-> NoReply]

\* dispatch_command(): one_call() or cmd_put() begins.
Give(c, m) ==
  /\ c \in Ctl /\ call[c].state = "IDLE" /\ commands < MaxCommands
  /\ call' = [call EXCEPT ![c] = Attempt(m, 1)]
  /\ report' = [report EXCEPT ![c] = "NONE"]
  /\ effects' = [effects EXCEPT ![c] = 0]
  /\ strayed' = [strayed EXCEPT ![c] = {}]
  /\ broken' = [broken EXCEPT ![c] = 0]
  /\ commands' = commands + 1
  /\ UNCHANGED <<daemonVars, tailVars, breaks>>

\* cmd_put() writes to a socket of its own, outside the retrying library.
Retries(m) == m \notin PublishCommand

MayRetry(c) == Retries(call[c].cmd) /\ call[c].attempt < MAX_ATTEMPTS

Breaks(c) ==
  /\ call[c].state \in {"SENT", "ANSWERED"}
  /\ breaks < MaxBreaks
  /\ breaks' = breaks + 1

\* An attempt ends without a status line (no connection, a write or a read
\* that fails, end of file too soon), whether or not the daemon has handled it;
\* and another one is made.
Retry(c) ==
  /\ Breaks(c) /\ MayRetry(c)
  /\ call' = [call EXCEPT ![c] = Attempt(call[c].cmd, call[c].attempt + 1)]
  /\ broken' = [b \in Ctl |-> IF b = c THEN broken[b] + 1 ELSE broken[b]]
  /\ UNCHANGED <<daemonVars, report, effects, strayed, tailVars, commands>>

\* The same, and it was the last attempt.
GiveUp(c) ==
  /\ c \in Ctl /\ Breaks(c) /\ ~MayRetry(c)
  /\ call' = [call EXCEPT ![c] = Idle]
  /\ report' = [report EXCEPT ![c] = "UNREACHABLE"]
  /\ broken' = [broken EXCEPT ![c] = @ + 1]
  /\ UNCHANGED <<daemonVars, effects, strayed, tailVars, commands>>

\* Mutant of Finish: whatever is not a server error counts as done.
MutFinishLoosely(c) ==
  /\ c \in Ctl /\ call[c].state = "ANSWERED"
  /\ call' = [call EXCEPT ![c] = Idle]
  /\ report' = [report EXCEPT ![c] = IF call[c].reply.status < 500 THEN "DONE" ELSE "REJECTED"]
  /\ UNCHANGED <<daemonVars, effects, strayed, broken, tailVars, commands, breaks>>

\* Mutant of Finish: the answer is waited for until it has a body.
MutFinishBody(c) ==
  /\ c \in Ctl /\ call[c].state = "ANSWERED" /\ call[c].reply.status \notin {201, 202, 204}
  /\ call' = [call EXCEPT ![c] = Idle]
  /\ report' = [report EXCEPT ![c] = IF call[c].reply.status = 200 THEN "DONE" ELSE "REJECTED"]
  /\ UNCHANGED <<daemonVars, effects, strayed, broken, tailVars, commands, breaks>>

\* emit(), and the end of cmd_put(): the status decides, whatever arrived of
\* the body.
Finish(c) ==
  /\ c \in Ctl /\ call[c].state = "ANSWERED"
  /\ call' = [call EXCEPT ![c] = Idle]
  /\ report' = [report EXCEPT
                  ![c] = IF call[c].reply.status \in 200..299 THEN "DONE" ELSE "REJECTED"]
  /\ UNCHANGED <<daemonVars, effects, strayed, broken, tailVars, commands, breaks>>

-----------------------------------------------------------------------------
(* cmd_log_follow().                                                       *)

Poll ==
  /\ call[Follower].state = "IDLE"
  /\ call' = [call EXCEPT ![Follower] = Attempt(NoCommand, 1)]
  /\ UNCHANGED <<daemonVars, ctlVars, tailVars, commands, breaks>>

\* Mutant of Cursor: it is the number of the next entry to come.
MutCursorNext(r) == r.seq + 1

Cursor(r) == r.seq

\* A whole answer: its entries are printed and its seq is the new cursor.
Show ==
  LET r == call[Follower].reply
      new == {<<r.boot, i>> : i \in r.entries}
  IN /\ call[Follower].state = "ANSWERED"
     /\ call' = [call EXCEPT ![Follower] = Idle]
     /\ shown' = shown \cup new
     /\ repeated' = (repeated \/ new \cap shown # {})
     /\ after' = Cursor(r)
     /\ from' = r.boot
     /\ skipped' = IF r.boot = from THEN skipped
                   ELSE IF r.seq < after THEN r.seq ELSE after
     /\ UNCHANGED <<daemonVars, ctlVars, cut, commands, breaks>>

\* An answer that ends after its status line: there is no JSON, nothing is
\* printed, and the "seq" that is not there reads as 0.
ShowCut ==
  /\ call[Follower].state = "ANSWERED" /\ Breaks(Follower)
  /\ call' = [call EXCEPT ![Follower] = Idle]
  /\ after' = 0
  /\ skipped' = 0
  /\ cut' = TRUE
  /\ UNCHANGED <<daemonVars, ctlVars, shown, repeated, from, commands>>

\* "could not reach server": the loop returns.
Stop ==
  /\ Breaks(Follower) /\ ~MayRetry(Follower)
  /\ call' = [call EXCEPT ![Follower] = [Idle EXCEPT !.state = "STOPPED"]]
  /\ UNCHANGED <<daemonVars, ctlVars, tailVars, commands>>

-----------------------------------------------------------------------------
Init ==
  /\ entry = [n \in Name |-> None]
  /\ importing = FALSE
  /\ boot = 1 /\ seq = 1 /\ ring = Logged(EmptyRing, 0, 1)
  /\ call = [c \in Client |-> Idle]
  /\ report = [c \in Ctl |-> "NONE"]
  /\ effects = [c \in Ctl |-> 0]
  /\ strayed = [c \in Ctl |-> {}]
  /\ broken = [c \in Ctl |-> 0]
  /\ after = 0 /\ shown = {} /\ repeated = FALSE
  /\ from = 0 /\ skipped = 0 /\ cut = FALSE
  /\ commands = 0 /\ breaks = 0

Next ==
  \/ \E c \in Ctl : \E m \in Commands[c] : Give(c, m)
  \/ \E c \in Ctl : HandleCommand(c)
  \/ \E c \in Ctl : GiveUp(c)
  \/ \E c \in Ctl : Finish(c)
  \/ \E c \in Client : Retry(c)
  \/ Poll
  \/ HandleLog
  \/ Show
  \/ ShowCut
  \/ Stop
  \/ ImportEnds
  \/ Restart

Spec == Init /\ [][Next]_vars

\* The daemon goes on answering and the clients go on running; nothing is
\* assumed about the connections but that MaxBreaks bounds their failures.
Fairness ==
  /\ \A c \in Ctl : WF_vars(HandleCommand(c)) /\ WF_vars(Finish(c))
  /\ WF_vars(Poll) /\ WF_vars(HandleLog) /\ WF_vars(Show)

FairSpec == Spec /\ Fairness

-----------------------------------------------------------------------------
(* Properties.                                                             *)

TypeOK ==
  /\ entry \in [Name -> Digest \cup {None}]
  /\ importing \in BOOLEAN /\ boot \in 1..MaxBoots
  /\ seq \in Nat \ {0}
  /\ ring \in [0..LOG_RING - 1 -> Nat]
  /\ call \in [Client -> [state : {"IDLE", "SENT", "ANSWERED", "STOPPED"},
                          cmd : Command \cup {NoCommand},
                          attempt : 0..MAX_ATTEMPTS, reply : Reply]]
  /\ report \in [Ctl -> {"NONE", "DONE", "REJECTED", "UNREACHABLE"}]
  /\ effects \in [Ctl -> Nat] /\ broken \in [Ctl -> Nat]
  /\ strayed \in [Ctl -> SUBSET (Name \X Name)]
  /\ after \in Nat /\ from \in 0..MaxBoots /\ skipped \in Nat
  /\ shown \in SUBSET ((1..MaxBoots) \X Nat)
  /\ repeated \in BOOLEAN /\ cut \in BOOLEAN
  /\ commands \in 0..MaxCommands /\ breaks \in 0..MaxBreaks

\* What cixcachectl tells its user is what happened: "done" means that the
\* daemon carried the command out while it ran, and any other report means that
\* it did so at most once for every attempt whose answer was lost.  A request
\* that is refused changes the store only when it is a DELETE that has taken the
\* signature of the name it was given, and not the artifact: so a rejection with
\* every answer received means that no artifact was published or withdrawn.
\* Retries, restarts and other clients do not change that.
ReportIsTrue ==
  \A c \in Ctl :
    /\ report[c] = "DONE" => effects[c] \in 1..broken[c] + 1
    /\ report[c] \in {"REJECTED", "UNREACHABLE"} => effects[c] <= broken[c]
    /\ \A s \in strayed[c] : s[2] \in SignatureOf[s[1]]

\* The follower passes over no line of the running daemon's log, except lines
\* that had left the ring before it asked and, after a restart, lines that had
\* been written when it first asked the new daemon (its cursor was the old
\* one's).  Whatever was lost, repeated or cut short in between.
NothingMissed ==
  from = boot =>
    \A i \in 1..after :
      <<boot, i>> \in shown \/ i <= seq - LOG_RING \/ i <= skipped

\* The follower prints no line twice as long as no answer to it was cut short
\* after its status line.
NothingRepeated == repeated => cut

\* Every command comes to an end and reports.
CommandsReturn == \A c \in Ctl : []<>(call[c].state = "IDLE")

\* A follower that has not given up keeps catching up with the running daemon,
\* after every burst and every restart; with NothingMissed, every line is
\* printed unless it left the ring or the restart hid it.
CatchesUp ==
  []<>(call[Follower].state = "STOPPED" \/ (from = boot /\ after = seq))

(* What a comment says, and the code does not do.                          *)

\* "every subcommand is exactly one HTTP call" (cli/src/main.c): the daemon
\* carries out a command at most once.  A DELETE whose 204 is lost is sent
\* again, and removes what was published under the name in between.
AtMostOneEffect == \A c \in Ctl : effects[c] <= 1

=============================================================================
