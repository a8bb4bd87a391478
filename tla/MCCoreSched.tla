----------------------------- MODULE MCCoreSched -----------------------------
(* Instance of CoreSched: two siblings, an HVF task and a fair one. *)
EXTENDS CoreSched, TLC
CONSTANTS a, b
Symmetry == Permutations(Cpus) \cup Permutations(Users)

MCClass == a :> "hvf" @@ b :> "fair"
==============================================================================
