---------------------------- MODULE MCThreadPool ----------------------------
(* A small instance of ThreadPool for TLC. *)
EXTENDS ThreadPool

CONSTANTS w1, w2, w3, t1, t2, t3
=============================================================================
