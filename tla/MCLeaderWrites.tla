--------------------------- MODULE MCLeaderWrites ---------------------------
(* A small instance of LeaderWrites for TLC. *)
EXTENDS LeaderWrites, TLC, Sequences

CONSTANTS n1, n2, c1

\* Two nodes; the first one lists itself too.
Config2 == (n1 :> <<n1, n2>>) @@ (n2 :> <<n1>>)
=============================================================================
