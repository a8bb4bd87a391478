-------------------------------- MODULE Life --------------------------------
(***************************************************************************)
(* How long the things a CPU runs on live: the address space (mm_users,    *)
(* mm_count and the lazy TLB references of context_switch), the task       *)
(* struct (usage, rcu_users) and the kernel stack (stack_refcount and the  *)
(* per-CPU cache of stacks).  Threads of one process and a kernel thread   *)
(* are switched on several CPUs, created and exit, while an observer (proc *)
(* or ptrace) takes references.                                            *)
(***************************************************************************)
EXTENDS Integers, FiniteSets

CONSTANTS
    Cpus,
    Threads,   \* the task structs of user threads, reused when freed
    Kthread,   \* a kernel thread ...
    Home,      \* ... and the CPU it is bound to
    Idle,      \* the idle task of each CPU
    Mm,        \* the address space of the process
    InitMm,    \* init_mm
    Stacks,    \* kernel stacks for threads
    Cached,    \* NR_CACHED_STACKS
    Spawns,    \* how many threads are created
    None

Tasks == Threads \cup {Kthread} \cup {Idle[c] : c \in Cpus}
Mms == {Mm, InitMm}

ASSUME LifeAssumption ==
    /\ Idle \in [Cpus -> {Idle[c] : c \in Cpus}]
    /\ \A c, d \in Cpus : Idle[c] = Idle[d] => c = d
    /\ Cached \in Nat /\ Spawns \in Nat
    /\ Mm # InitMm /\ None \notin Tasks \cup Mms \cup Stacks

VARIABLES
    curr,      \* rq->curr
    sw,        \* what is left of the context switch of each CPU
    task,      \* the task structs
    mm,        \* the address spaces
    cache,     \* cached_stacks
    rcu,       \* callbacks that wait for a grace period
    obs,       \* the references the observer holds
    spawned    \* how many threads were created

vars == <<curr, sw, task, mm, cache, rcu, obs, spawned>>

NoSwitch == [pc |-> "run", prev |-> None, dead |-> FALSE, mm |-> None]
NoObs == [kind |-> "none", of |-> None]

\* st: "free", "live", "exiting" (no mm any more), "dead" (TASK_DEAD).
\* seen: release_task has not unhashed the task.
KernelTask(active) ==
    [st |-> "live", mm |-> None, active |-> active, on_cpu |-> active # None, usage |-> 1,
     rcu_users |-> 2, stack |-> None, stack_refs |-> 1, seen |-> FALSE]
UserTask(stack) ==
    [st |-> "live", mm |-> Mm, active |-> Mm, on_cpu |-> FALSE, usage |-> 1,
     rcu_users |-> 2, stack |-> stack, stack_refs |-> 1, seen |-> TRUE]
FreeTask == [UserTask(None) EXCEPT !.st = "free", !.mm = None, !.active = None,
             !.usage = 0, !.rcu_users = 0, !.stack_refs = 0, !.seen = FALSE]

\* One thread at first.
Init ==
    /\ curr = [c \in Cpus |-> Idle[c]]
    /\ sw = [c \in Cpus |-> NoSwitch]
    /\ LET first == CHOOSE t \in Threads : TRUE
       IN  task = [u \in Tasks |-> IF u = first THEN UserTask(CHOOSE s \in Stacks : TRUE)
                                  ELSE IF u \in Threads THEN FreeTask
                                  ELSE KernelTask(IF u = Kthread THEN None ELSE InitMm)]
    /\ mm = [m \in Mms |-> IF m = Mm THEN [users |-> 1, count |-> 1, st |-> "mapped"]
                           ELSE [users |-> 0, count |-> 1 + Cardinality(Cpus), st |-> "mapped"]]
    /\ cache = [c \in Cpus |-> {}]
    /\ rcu = {} /\ obs = NoObs /\ spawned = 0

\* mmdrop: the last reference frees the mm.
mmdrop(m, f) == IF m = None THEN f
                ELSE [f EXCEPT ![m].count = @ - 1,
                               ![m].st = IF f[m].count = 1 THEN "freed" ELSE @]

-----------------------------------------------------------------------------
\* context_switch and finish_task_switch

\* Mutant: the lazy use of a user address space is not counted.
LazyUncounted(p) == FALSE

\* A user address space is lent to a kernel task: mmgrab_lazy_tlb.
Grabs(p) == task[p].mm # None

\* context_switch from p to n, under the lock of the run queue.
Switch(c, n) ==
    LET p == curr[c]
        toKernel == task[n].mm = None
        active == task[p].active
    IN  /\ sw[c].pc = "run" /\ n # p
        /\ task[n].st \in {"live", "exiting"} /\ ~task[n].on_cpu
        /\ n \in {Idle[d] : d \in Cpus} => n = Idle[c]
        /\ n = Kthread => c = Home
        /\ curr' = [curr EXCEPT ![c] = n]
        /\ task' = [task EXCEPT ![n].on_cpu = TRUE,
                                ![n].active = IF toKernel THEN active ELSE @,
                                ![p].active = IF task[p].mm = None THEN None ELSE @]
        /\ mm' = IF toKernel /\ Grabs(p) THEN [mm EXCEPT ![active].count = @ + 1] ELSE mm
        /\ sw' = [sw EXCEPT ![c] =
                    [pc |-> "finish", prev |-> p, dead |-> FALSE,
                     mm |-> IF ~toKernel /\ task[p].mm = None THEN active ELSE None]]
        /\ UNCHANGED <<cache, rcu, obs, spawned>>

\* finish_task_switch: prev->__state is read before on_cpu is cleared; then the lock
\* is released, and prev may run elsewhere.
finish_task(c) ==
    LET p == sw[c].prev
    IN  /\ sw[c].pc = "finish"
        /\ task' = [task EXCEPT ![p].on_cpu = FALSE]
        /\ sw' = [sw EXCEPT ![c].pc = "drop", ![c].dead = task[p].st = "dead"]
        /\ UNCHANGED <<curr, mm, cache, rcu, obs, spawned>>

\* The address space a kernel task had borrowed is dropped outside the lock.
mmdrop_lazy_tlb_sched(c) ==
    /\ sw[c].pc = "drop"
    /\ mm' = mmdrop(sw[c].mm, mm)
    /\ sw' = [sw EXCEPT ![c] = IF sw[c].dead THEN [@ EXCEPT !.pc = "dead", !.mm = None]
                                             ELSE NoSwitch]
    /\ UNCHANGED <<curr, task, cache, rcu, obs, spawned>>

\* try_release_thread_stack_to_cache, on the CPU that releases.
Fits(c) == Cardinality(cache[c]) < Cached


\* put_task_stack: the last reference gives the stack to the cache of this CPU, or
\* to RCU.
ToCache(t, c) == IF task[t].stack_refs = 1 /\ Fits(c) THEN {task[t].stack} ELSE {}
ToRcu(t, c) == IF task[t].stack_refs = 1 /\ ~Fits(c) THEN {<<"stack", task[t].stack>>} ELSE {}
Unstacked(t) == [task EXCEPT ![t].stack_refs = @ - 1,
                             ![t].stack = IF task[t].stack_refs = 1 THEN None ELSE @]

\* Mutants: the first of the two puts frees the task; no put does.
PutRcuUserFirst(t) == {<<"task", t>>}
PutRcuUserNever(t) == IF task[t].rcu_users = 0 THEN {<<"task", t>>} ELSE {}

\* put_task_struct_rcu_user: two of them, by the scheduler and by release_task.
PutRcuUser(t) == IF task[t].rcu_users = 1 THEN {<<"task", t>>} ELSE {}

\* The dead task is done with its stack and with its use as current.
task_dead(c) ==
    LET p == sw[c].prev
    IN  /\ sw[c].pc = "dead"
        /\ task' = [Unstacked(p) EXCEPT ![p].rcu_users = @ - 1]
        /\ cache' = [cache EXCEPT ![c] = @ \cup ToCache(p, c)]
        /\ rcu' = rcu \cup ToRcu(p, c) \cup PutRcuUser(p)
        /\ sw' = [sw EXCEPT ![c] = NoSwitch]
        /\ UNCHANGED <<curr, mm, obs, spawned>>

-----------------------------------------------------------------------------
\* What the threads do

Runs(t, c) == curr[c] = t /\ t \in Threads /\ sw[c].pc = "run"

\* mmput: the last user takes the address space down, in a later step.
mmput(m, f) == [f EXCEPT ![m].users = @ - 1, ![m].st = IF f[m].users = 1 THEN "ending" ELSE @]

\* exit_mm: the thread goes on as a lazy user.
exit_mm(c) ==
    \E t \in Threads :
        /\ Runs(t, c) /\ task[t].mm # None
        /\ mm' = mmput(Mm, [mm EXCEPT ![Mm].count = @ + 1])
        /\ task' = [task EXCEPT ![t].mm = None, ![t].st = "exiting"]
        /\ UNCHANGED <<curr, sw, cache, rcu, obs, spawned>>

\* __mmput, by the last user or by a worker: exit_mmap, then mmdrop.
__mmput ==
    /\ mm[Mm].st = "ending"
    /\ mm' = mmdrop(Mm, [mm EXCEPT ![Mm].st = "unmapped"])
    /\ UNCHANGED <<curr, sw, task, cache, rcu, obs, spawned>>

\* do_task_dead: only a switch away from this task follows.
do_task_dead(c) ==
    \E t \in Threads :
        /\ Runs(t, c) /\ task[t].st = "exiting"
        /\ task' = [task EXCEPT ![t].st = "dead"]
        /\ UNCHANGED <<curr, sw, mm, cache, rcu, obs, spawned>>

\* release_task, by the parent or by the task itself, before or after its last
\* switch.
release_task(t) ==
    /\ task[t].st \in {"exiting", "dead"} /\ task[t].seen
    /\ task' = [task EXCEPT ![t].rcu_users = @ - 1, ![t].seen = FALSE]
    /\ rcu' = rcu \cup PutRcuUser(t)
    /\ UNCHANGED <<curr, sw, mm, cache, obs, spawned>>

\* alloc_thread_stack_node: from the cache of this CPU, else a new one; the charge
\* may fail, and a cached stack is freed then.
Placed == UNION {cache[c] : c \in Cpus} \cup {task[t].stack : t \in Threads}
          \cup {x[2] : x \in {y \in rcu : y[1] = "stack"}}

Unused == IF Stacks \subseteq Placed THEN {} ELSE {CHOOSE s \in Stacks : s \notin Placed}

\* A thread creates a thread: dup_task_struct and copy_mm.
Spawn(c, n) ==
    /\ \E t \in Threads : Runs(t, c) /\ task[t].mm # None
    /\ task[n].st = "free" /\ n \in Threads /\ spawned < Spawns
    /\ spawned' = spawned + 1
    /\ \E s \in IF cache[c] # {} THEN cache[c] ELSE Unused :
          /\ cache' = [cache EXCEPT ![c] = @ \ {s}]
          /\ \/ /\ task' = [task EXCEPT ![n] = UserTask(s)]
                /\ mm' = [mm EXCEPT ![Mm].users = @ + 1]
             \/ UNCHANGED <<task, mm>>
    /\ UNCHANGED <<curr, sw, rcu, obs>>

-----------------------------------------------------------------------------
\* RCU callbacks

\* put_task_struct: the last reference frees the task struct.
put_task_struct(t) ==
    IF task[t].usage = 1 THEN [task EXCEPT ![t] = [FreeTask EXCEPT !.stack_refs = task[t].stack_refs]]
    ELSE [task EXCEPT ![t].usage = @ - 1]

\* delayed_put_task_struct.
RcuTask(t) ==
    /\ <<"task", t>> \in rcu
    /\ rcu' = rcu \ {<<"task", t>>}
    /\ task' = put_task_struct(t)
    /\ UNCHANGED <<curr, sw, mm, cache, obs, spawned>>

\* thread_stack_free_rcu: tries the cache of this CPU again.
thread_stack_free_rcu(s, c) ==
    /\ <<"stack", s>> \in rcu
    /\ rcu' = rcu \ {<<"stack", s>>}
    /\ cache' = IF Fits(c) THEN [cache EXCEPT ![c] = @ \cup {s}] ELSE cache
    /\ UNCHANGED <<curr, sw, task, mm, obs, spawned>>

\* free_vm_stack_cache: the CPU, left by all but its idle task, goes away.
free_vm_stack_cache(c) ==
    /\ cache[c] # {} /\ curr[c] = Idle[c] /\ sw[c].pc = "run"
    /\ cache' = [cache EXCEPT ![c] = {}]
    /\ UNCHANGED <<curr, sw, task, mm, rcu, obs, spawned>>

-----------------------------------------------------------------------------
\* The observer: one reference at a time, a stack together with its task.

get_task_mm(t) ==
    /\ obs = NoObs /\ task[t].seen /\ task[t].mm # None
    /\ mm' = [mm EXCEPT ![task[t].mm].users = @ + 1]
    /\ obs' = [kind |-> "mm", of |-> task[t].mm]
    /\ UNCHANGED <<curr, sw, task, cache, rcu, spawned>>

\* mmput or mmput_async, after mmgrab and mmdrop of the mm it keeps.
ObsMmput ==
    /\ obs.kind = "mm"
    /\ mm' = mmput(obs.of, mm)
    /\ obs' = NoObs
    /\ UNCHANGED <<curr, sw, task, cache, rcu, spawned>>

get_task_struct(t) ==
    /\ obs = NoObs /\ task[t].seen
    /\ task' = [task EXCEPT ![t].usage = @ + 1]
    /\ obs' = [kind |-> "task", of |-> t]
    /\ UNCHANGED <<curr, sw, mm, cache, rcu, spawned>>

\* try_get_task_stack: refcount_inc_not_zero.
try_get_task_stack ==
    /\ obs.kind = "task" /\ task[obs.of].stack_refs > 0
    /\ task' = [task EXCEPT ![obs.of].stack_refs = @ + 1]
    /\ obs' = [obs EXCEPT !.kind = "stack"]
    /\ UNCHANGED <<curr, sw, mm, cache, rcu, spawned>>

ObsPutStack(c) ==
    /\ obs.kind = "stack"
    /\ cache' = [cache EXCEPT ![c] = @ \cup ToCache(obs.of, c)]
    /\ rcu' = rcu \cup ToRcu(obs.of, c)
    /\ task' = Unstacked(obs.of)
    /\ obs' = [obs EXCEPT !.kind = "put"]
    /\ UNCHANGED <<curr, sw, mm, spawned>>

ObsPutTask ==
    /\ obs.kind \in {"task", "put"}
    /\ task' = put_task_struct(obs.of)
    /\ obs' = NoObs
    /\ UNCHANGED <<curr, sw, mm, cache, rcu, spawned>>

-----------------------------------------------------------------------------
Finish(c) == finish_task(c) \/ mmdrop_lazy_tlb_sched(c) \/ task_dead(c)
SwitchAny(c) == \E n \in Tasks : Switch(c, n)

Next ==
    \/ \E c \in Cpus :
          \/ SwitchAny(c)
          \/ Finish(c)
          \/ exit_mm(c)
          \/ do_task_dead(c)
          \/ \E n \in Threads : Spawn(c, n)
          \/ \E s \in Stacks : thread_stack_free_rcu(s, c)
          \/ free_vm_stack_cache(c)
          \/ ObsPutStack(c)
    \/ \E t \in Threads : release_task(t) \/ RcuTask(t) \/ get_task_mm(t) \/ get_task_struct(t)
    \/ __mmput
    \/ ObsMmput
    \/ try_get_task_stack
    \/ ObsPutTask

Spec == Init /\ [][Next]_vars

\* A switch that began ends; a CPU does not run one task for ever; RCU grace
\* periods end; a zombie is reaped; the observer is done some time.
Fairness ==
    /\ \A c \in Cpus : WF_vars(SwitchAny(c)) /\ WF_vars(Finish(c))
    /\ \A t \in Threads : WF_vars(release_task(t)) /\ WF_vars(RcuTask(t))
    /\ WF_vars(__mmput) /\ WF_vars(ObsMmput) /\ WF_vars(ObsPutTask)
    /\ WF_vars(\E c \in Cpus : ObsPutStack(c))

FairSpec == Spec /\ Fairness

-----------------------------------------------------------------------------
\* Properties

TypeOK ==
    /\ curr \in [Cpus -> Tasks]
    /\ \A t \in Tasks : /\ task[t].st \in {"free", "live", "exiting", "dead"}
                        /\ task[t].mm \in {Mm, None} /\ task[t].active \in Mms \cup {None}
                        /\ task[t].usage >= 0 /\ task[t].rcu_users >= 0 /\ task[t].stack_refs >= 0
    /\ \A c \in Cpus : Cardinality(cache[c]) <= Cached
    /\ \A m \in Mms : mm[m].users >= 0 /\ mm[m].count >= 0

\* Every CPU runs on an address space that exists, mapped if the task is a user
\* thread; nobody who counts as a user sees it taken down; and mm_count is the
\* number of lazy users, of switches that still have to drop it, and one for all
\* the users (context_switch, finish_task_switch, mmput).
MmAlive ==
    /\ \A c \in Cpus : /\ task[curr[c]].active # None
                       /\ mm[task[curr[c]].active].st # "freed"
                       /\ task[curr[c]].mm # None => mm[task[curr[c]].mm].st = "mapped"
    /\ obs.kind = "mm" => mm[obs.of].st = "mapped"
    /\ \A m \in Mms :
          mm[m].count = Cardinality({t \in Tasks : task[t].mm = None /\ task[t].active = m})
                        + Cardinality({c \in Cpus : sw[c].mm = m})
                        + (IF m = InitMm \/ mm[m].st \in {"mapped", "ending"} THEN 1 ELSE 0)


\* A task struct is not freed while a CPU runs it or has yet to finish the switch
\* away from it, nor while the observer holds it; and it is freed without a stack.
TaskAlive ==
    /\ \A c \in Cpus : task[curr[c]].st # "free"
    /\ \A c \in Cpus : sw[c].prev # None /\ (sw[c].pc = "finish" \/ sw[c].dead) =>
          task[sw[c].prev].st # "free"
    /\ obs.kind \in {"task", "stack", "put"} => task[obs.of].st # "free"
    /\ \A t \in Threads : task[t].st = "free" => task[t].stack_refs = 0

\* A thread that has exited is freed, whatever the observer does.
EventuallyFreed == \A t \in Threads : task[t].st = "dead" ~> task[t].st = "free"
=============================================================================
