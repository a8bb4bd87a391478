------------------------------ MODULE MCPolicy ------------------------------
(* Module Policy for TLC.                                                  *)
EXTENDS Policy, TLC

CONSTANTS a, b, c, x, y

MCAttrs ==
    {[policy |-> "fifo",   prio |-> 1, nice |-> Legacy, reset |-> TRUE,  keep |-> FALSE],
     [policy |-> "fifo",   prio |-> 2, nice |-> Legacy, reset |-> FALSE, keep |-> FALSE],
     [policy |-> "normal", prio |-> 0, nice |-> 5,      reset |-> FALSE, keep |-> FALSE],
     [policy |-> "hvf",    prio |-> 0, nice |-> Legacy, reset |-> FALSE, keep |-> FALSE],
     [policy |-> Same,     prio |-> 1, nice |-> Legacy, reset |-> FALSE, keep |-> FALSE],
     [policy |-> Same,     prio |-> 0, nice |-> 3,      reset |-> FALSE, keep |-> TRUE]}

MCTasks   == {a, b, c}
MCFirst   == {a, b}
MCCallers == {x, y}
MCNice    == {3, 5}

Sym == Permutations(MCFirst) \cup Permutations(MCCallers)
=============================================================================
