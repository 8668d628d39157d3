---------------------------- MODULE MCEventLoop ----------------------------
(***************************************************************************)
(* Small instances of EventLoop for TLC.                                   *)
(***************************************************************************)
EXTENDS EventLoop, TLC

\* Addresses are interchangeable.
MCSymmetry == Permutations(Addr)

=============================================================================
