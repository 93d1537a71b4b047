----------------------------- MODULE MCLoopThread -----------------------------
(* A small instance of LoopThread.                                            *)
EXTENDS LoopThread, TLC
=============================================================================
