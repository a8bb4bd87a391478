------------------------------- MODULE MCCpu --------------------------------
(* Instances of HvfCpu.                                                      *)
EXTENDS HvfCpu

Symmetry == Permutations(Tasks)
=============================================================================
