------------------------------ MODULE MCEntity ------------------------------
(***************************************************************************)
(* Instances of HvfEntity: a task that may promise 100 ms or 900 ms before *)
(* deadlines one or two seconds apart, promise a negative time, or ask for *)
(* equal deadlines, which the system call refuses.                         *)
(***************************************************************************)
EXTENDS HvfEntity

MCParams == { <<1, 2, 900>>, <<1, 3, 100>>, <<2, 3, -100>>, <<2, 2, 100>> }
NoSteps == {}
ForwardSteps == {300}
=============================================================================
