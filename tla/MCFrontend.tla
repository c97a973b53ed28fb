----------------------------- MODULE MCFrontend -----------------------------
(* A small instance of Frontend for TLC. *)
EXTENDS Frontend, TLC

CONSTANTS c1, c2, s1, s2, k1, v1

ShardOf2 == k1 :> s2

\* A write, a read, a delete and a lookup of a key, a read that lacks the key,
\* and a QUIT.
Lines1 == {[verb |-> "SET", key |-> k1, rest |-> v1],
           [verb |-> "GET", key |-> k1, rest |-> Absent],
           [verb |-> "DEL", key |-> k1, rest |-> Absent],
           [verb |-> "EXISTS", key |-> k1, rest |-> Absent],
           [verb |-> "GET", key |-> Absent, rest |-> Absent],
           [verb |-> "QUIT", key |-> Absent, rest |-> Absent]}
=============================================================================
