--------------------------- MODULE MCThreadPoolTest ---------------------------
(* The test program on a small pool.                                          *)
EXTENDS ThreadPoolTest
=============================================================================
