------------------------------ MODULE MCGroups ------------------------------
(* Module Groups for TLC: r -> {g -> h, k}.                                *)
EXTENDS Groups, TLC

CONSTANTS r, g, h, k, w1, w2, t1, c1, c2

MCGroupSet == {r, g, h, k}
MCParent   == g :> r @@ h :> g @@ k :> r
MCCreated  == {r, g}
MCWriters  == {w1, w2}
MCTimers   == {t1}
MCCpus     == {c1, c2}
MCQuotas   == {0, 1, 2, 5, RUNTIME_INF}

Sym == Permutations(MCWriters) \cup Permutations(MCCpus)
=============================================================================
