------------------------------ MODULE MCClient ------------------------------
(***************************************************************************)
(* Small instances of Client for TLC.                                      *)
(***************************************************************************)
EXTENDS Client, TLC

CONSTANTS operator, builder, n1, s1, d1, d2

\* An artifact and its signature.
MCSignatureOf == n1 :> {s1} @@ s1 :> {}

Publish(n, d) == [op |-> "publish", name |-> n, digest |-> d, token |-> TRUE]
Delete(t) == [op |-> "delete", name |-> n1, token |-> t]
Call(o) == [op |-> o, token |-> TRUE]

\* An operator who deletes, collects and imports beside a builder that publishes
\* an artifact and its signature.
MCCommands ==
  operator :> {Delete(TRUE), Call("gc"), Call("import")}
    @@ builder :> {Publish(n1, d1), Publish(s1, d2)}

\* An operator who deletes, with and without the token, beside a builder that
\* publishes two builds under one name.
MCDeletes ==
  operator :> {Delete(TRUE), Delete(FALSE)}
    @@ builder :> {Publish(n1, d1), Publish(n1, d2)}

=============================================================================
