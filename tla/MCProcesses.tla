---------------------------- MODULE MCProcesses -----------------------------
(* A small instance of Processes for TLC. *)
EXTENDS Processes

CONSTANTS t1, t2, c1, c2

\* Every set of flags, and a request answered without and one with the server.  A long
\* command is executed, refused or cut short; others are only the first or the last.
AllArgs == SUBSET Flag
SomeRequests == {"page", "long"}

\* One command line whose start may fail behind its metrics endpoint.
MetricsArgs == {{"metrics"}}
=============================================================================
