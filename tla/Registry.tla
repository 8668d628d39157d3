------------------------------ MODULE Registry ------------------------------
(***************************************************************************)
(* What the registry promises its users: a write-once map from names to    *)
(* bytes (docs/adr/0003).  Bytes appear under a canonical name that means  *)
(* nothing yet, they never change while the name means something, and a    *)
(* name loses its bytes only when it is withdrawn, together with its       *)
(* signature's.  Nothing else happens to the map: how bytes are staged,    *)
(* hashed, shared, collected or lost with a crash is not visible in it.    *)
(***************************************************************************)
EXTENDS StoreNames

CONSTANTS Digest, None

VARIABLE reg    \* reg[n]: the bytes that can be had under entry n

TypeOK == reg \in [Name -> Digest \cup {None}]

Init == reg = [n \in Name |-> None]

\* Under n, and under every entry a request for n could be answered by, there
\* is nothing yet.
Publish(n, d) ==
  /\ IsCanonical(n)
  /\ \A x \in Candidates(n) : reg[x] = None
  /\ reg' = [reg EXCEPT ![n] = d]

\* Withdrawing an artifact withdraws its signature; a signature may go alone.
Withdraw(n) ==
  /\ IsCanonical(n)
  /\ reg' = [x \in Name |-> IF x \in {n, SignatureName(n)} THEN None ELSE reg[x]]

Next ==
  /\ reg' # reg
  /\ \/ \E n \in Name, d \in Digest : Publish(n, d)
     \/ \E n \in Name : Withdraw(n)

Spec == Init /\ [][Next]_reg

=============================================================================
