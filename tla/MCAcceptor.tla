------------------------------ MODULE MCAcceptor ------------------------------
(* Small instances of Acceptor.                                               *)
EXTENDS Acceptor, TLC

Symmetry == Permutations(Conns)
=============================================================================
