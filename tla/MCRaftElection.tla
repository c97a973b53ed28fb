--------------------------- MODULE MCRaftElection ---------------------------
(* Instances of RaftElection for TLC. *)
EXTENDS RaftElection, TLC, Sequences

CONSTANTS n1, n2, n3

\* Three nodes, each listing the cluster in its own way: the others only, with
\* itself among them, with an entry repeated.
Config3 == (n1 :> <<n2, n3>>) @@ (n2 :> <<n2, n1, n3>>) @@ (n3 :> <<n1, n2, n1>>)

\* Only the set of peers matters to the model, and it is the same for all.
Symmetry3 == Permutations({n1, n2, n3})
=============================================================================
