------------------------------ MODULE MCFraming ------------------------------
(***************************************************************************)
(* A small instance of Framing for TLC: at most two flaws per request, so  *)
(* that the order in which they are found shows.                           *)
(***************************************************************************)
EXTENDS Framing, FiniteSets

MCFlaws == {F \in SUBSET Flaw : Cardinality(F) <= 2}

=============================================================================
