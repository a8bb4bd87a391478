------------------------------ MODULE MCMmCid -------------------------------
(* An instance of MmCid.                                                     *)
EXTENDS MmCid, TLC

Symmetry == Permutations(Threads) \cup Permutations(Cpus)
=============================================================================
