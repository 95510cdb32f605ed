---------------------------- MODULE MCConnection -----------------------------
(***************************************************************************)
(* The network library for TLC: connections are interchangeable.           *)
(***************************************************************************)
EXTENDS Connection

Symmetry == Permutations(Conns)

=============================================================================
