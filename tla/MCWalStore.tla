----------------------------- MODULE MCWalStore -----------------------------
(* Small instances of WalStore for TLC. *)
EXTENDS WalStore, TLC

CONSTANTS k1, k2, k3, v1, v2

\* Keys, and values, are only compared for equality.
Symmetry == Permutations(Key) \cup Permutations(Value)
=============================================================================
