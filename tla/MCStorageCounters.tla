------------------------- MODULE MCStorageCounters -------------------------
(* The instances of StorageCounters that TLC explores. *)
EXTENDS StorageCounters, TLC

Symmetry == Permutations(Hashes)
=============================================================================
