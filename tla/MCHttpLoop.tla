------------------------------ MODULE MCHttpLoop ------------------------------
(* Small instances of HttpLoop.                                               *)
EXTENDS HttpLoop, TLC

Symmetry == Permutations(Conns)
=============================================================================
