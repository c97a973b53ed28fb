---------------------------- MODULE MCDiskStore -----------------------------
(* Small instances of DiskStore for TLC. *)
EXTENDS DiskStore, TLC

CONSTANTS k1, k2, v1, v2

\* Keys, and values, are only compared for equality.
Symmetry == Permutations(Key) \cup Permutations(Value)
=============================================================================
