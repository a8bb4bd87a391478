------------------------------- MODULE MCLife -------------------------------
(* Instance of Life: two CPUs, two threads, a kernel thread. *)
EXTENDS Life, TLC
CONSTANTS c1, c2, i1, i2
MCIdle == c1 :> i1 @@ c2 :> i2
=============================================================================
