------------------------------ MODULE HvfPlace ------------------------------
(***************************************************************************)
(* Where the HVF class puts a task that is woken or forked (hvf.c): the    *)
(* allowed CPUs are sorted by load and the value of the task chooses one,  *)
(* "low load if small sched_value high load if higher sched_value".  The   *)
(* CPU numbers kept in the entity only go to the trace and are left out.   *)
(***************************************************************************)
EXTENDS HvfValue, FiniteSets

\* sort_cpu_loads_in_mask: the CPUs of the mask by rising nr_running, each read
\* without its lock.  sort() is not stable, so that equal loads come in any order.
sort_cpu_loads_in_mask(mask, nr_running) ==
    {loads \in [1 .. Cardinality(mask) -> mask] :
        \A i, j \in 1 .. Cardinality(mask) :
            i < j => /\ loads[i] # loads[j]
                     /\ nr_running[loads[i]] =< nr_running[loads[j]]}

\* The first of the nr_cpus chunks of 0 .. H whose end is above the value, or the
\* last one.
RightChunk(sched_value, nr_cpus) ==
    LET chunk_size == H \div nr_cpus
        above(j)   == sched_value < j * chunk_size
    IN  IF \E j \in 1 .. nr_cpus : above(j)
        THEN CHOOSE j \in 1 .. nr_cpus : above(j) /\ \A i \in 1 .. j - 1 : ~above(i)
        ELSE nr_cpus

get_right_cpu(loads, sched_value, nr_cpus) ==
    loads[RightChunk(sched_value, nr_cpus)]

\* The CPUs select_task_rq_hvf may answer for a wakeup, with the loads and the
\* value at their ranges.
select_task_rq_hvf(prev_cpu, cpus_ptr, nr_cpus_allowed, Nr, SchedValues) ==
    IF nr_cpus_allowed = 1 THEN {prev_cpu}
    ELSE {get_right_cpu(loads, v, nr_cpus_allowed) :
            v \in SchedValues,
            loads \in UNION {sort_cpu_loads_in_mask(cpus_ptr, nr) : nr \in [cpus_ptr -> Nr]}}

\* A higher value never goes to a CPU with a lower load.
ByValue(loads, nr_running, nr_cpus, SchedValues) ==
    \A v, w \in SchedValues :
        v =< w => nr_running[get_right_cpu(loads, v, nr_cpus)]
                     =< nr_running[get_right_cpu(loads, w, nr_cpus)]
=============================================================================
