----------------------------- MODULE MCEventLoop -----------------------------
(* Two threads and the loop itself compete to queue three functors; any of   *)
(* them may also quit the loop.                                              *)
EXTENDS EventLoop
=============================================================================
