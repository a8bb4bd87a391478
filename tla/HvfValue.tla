------------------------------ MODULE HvfValue ------------------------------
(***************************************************************************)
(* The arithmetic of the HVF (Highest Value First) scheduling class and of *)
(* its system calls: the scheduling value of a task, how it ages and how   *)
(* it is punished, and the time slice it buys.  Times are milliseconds,    *)
(* deadlines are seconds, as in kernel/sched/hvf.c.  C longs are modelled  *)
(* as integers; the README states the ranges in which that is exact.       *)
(***************************************************************************)
EXTENDS Integers

K == 1000       \* milliseconds per second; also the largest slice
H == 100        \* the largest scheduling value

\* C division of longs truncates towards zero; every divisor here is positive.
CDiv(a, b) == IF a >= 0 THEN a \div b ELSE -((-a) \div b)

\* The value of a task that entered the class at first_time and promised
\* ctime ms of computation before the deadlines d1 and d2.
compute_init_sched_value(first_time, ctime, d1, d2) ==
    LET X == first_time + ctime
    IN  IF X < d1 * K THEN H
        ELSE IF d2 * K < X THEN 0
        ELSE CDiv((d2 * K - X) * H, (d2 - d1) * K)

\* Mutant: the result is not kept above zero.
FlooredUnchecked(new, old) == new

\* A value never drops below 0, and one that is already 0 is lifted to 10.
Floored(new, old) == IF new > 0 THEN new ELSE IF old = 0 THEN 10 ELSE 0

\* Ageing when a slice expires: time_used percent are lost.
reduce_sched_value(time_used, old) ==
    Floored(old - CDiv(time_used * old, 100), old)

\* The penalty on every enqueue of a task that used more than it promised.
penalty_hvf_entity(time_used, ctime, old) ==
    LET diff == time_used - ctime
    IN  Floored(old - CDiv(diff * diff * old, 100), old)

exceeded_time(time_used, ctime) == time_used > ctime

\* The slice, in milliseconds, that a value buys.
time_slice(value) ==
    LET scaled == IF value < 1 THEN 1 ELSE IF value > K THEN K ELSE value
    IN  CDiv(scaled * (K - 10), K) + 10

\* The system call that reports the caller's score at second now_s.
get_scheduling_score(now_s, d1, d2) ==
    IF now_s < d1 THEN H
    ELSE IF d2 < now_s THEN 0
    ELSE CDiv((d2 - now_s) * 100, d2 - d1)

\* What set_scheduling_params accepts.
ParamsAccepted(now_ms, d1, d2, ctime) ==
    /\ d1 > 0 /\ d2 > 0 /\ d1 < d2
    /\ (now_ms \div K) * K + ctime < d2 * K
=============================================================================
