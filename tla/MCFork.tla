------------------------------- MODULE MCFork -------------------------------
(* Instances of Fork: a process of two threads that forks, clones and vforks. *)
EXTENDS Fork, TLC

Symmetry == Permutations(Tasks \ {Leader, Thread})

MCFlagSets == {{"PIDFD"}, {"VM", "VFORK"}, {"VM", "SIGHAND", "THREAD", "FS", "FILES"},
               {"VM", "THREAD"}}

MCAreas == <<[copy |-> TRUE, account |-> TRUE, wipe |-> FALSE],
             [copy |-> FALSE, account |-> TRUE, wipe |-> FALSE],
             [copy |-> TRUE, account |-> TRUE, wipe |-> TRUE]>>
=============================================================================
