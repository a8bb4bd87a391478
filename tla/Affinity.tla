------------------------------ MODULE Affinity ------------------------------
(***************************************************************************)
(* One task on several CPUs: it blocks and is woken (try_to_wake_up, with  *)
(* the wake list of a remote CPU), disables its own migration, has its CPU *)
(* mask changed by other tasks (__set_cpus_allowed_ptr, affine_move_task   *)
(* and the stopper migration_cpu_stop), and is pushed off a CPU that is    *)
(* taken down (balance_push, sched_cpu_deactivate ... sched_cpu_dying).    *)
(*                                                                         *)
(* A step is what happens under the locks that the code holds; the locks   *)
(* that are held across steps are pi (p->pi_lock) of a wakeup and the run  *)
(* queue lock of a switch in progress.                                     *)
(***************************************************************************)
EXTENDS HvfPlace

CONSTANTS
    Cpus,
    Hot,        \* the CPU that is taken down and up again
    Masks,      \* the masks that are asked for
    Setters,    \* the callers of set_cpus_allowed_ptr
    Prompt,     \* the stopper is done before the task is picked again, on any CPU, and
                \* preempts it before it disables migration again
    Nr,         \* the loads the placement may read
    SchedValues,  \* the values the task may have
    None

ASSUME AffinityAssumption ==
    /\ IsFiniteSet(Cpus) /\ Hot \in Cpus /\ Cpus # {Hot}
    /\ Masks \subseteq SUBSET Cpus /\ {} \notin Masks
    /\ Prompt \in BOOLEAN
    /\ Nr \subseteq Nat /\ SchedValues \subseteq 0 .. H
    /\ None \notin Cpus \cup Setters

VARIABLES
    t,          \* the task
    pi,         \* who holds p->pi_lock across steps
    waker,      \* where try_to_wake_up is
    wakelist,   \* the CPU whose wake list the task is on
    works,      \* the stopper works of migration_cpu_stop
    push,       \* the push_work of Hot is queued
    nr_pinned,  \* rq->nr_pinned
    req,        \* the setters and their set_affinity_pending
    hp,         \* how far the hotplug of Hot is
    warn        \* the assertions of the code that failed

vars == <<t, pi, waker, wakelist, works, push, nr_pinned, req, hp, warn>>

\* ptr: the CPU that cpus_ptr is pinned to, None when it points to cpus_mask.
\* sw: how far __schedule is with the task as prev.
\* enabling: migrate_enable has reset cpus_ptr, not yet migration_disabled.
FirstTask(c) ==
    [state |-> "running", on_rq |-> TRUE, on_cpu |-> TRUE, sw |-> "no", cpu |-> c,
     mask |-> Cpus, ptr |-> None, disabled |-> FALSE, enabling |-> FALSE, pending |-> None]

NoReq == [pc |-> "idle", on |-> None, refs |-> 0, stop |-> FALSE, done |-> FALSE, dest |-> None]

Init ==
    /\ t = FirstTask(CHOOSE c \in Cpus : c # Hot)
    /\ pi = None /\ waker = "idle" /\ wakelist = None
    /\ works = {} /\ push = FALSE
    /\ nr_pinned = [c \in Cpus |-> 0]
    /\ req = [s \in Setters |-> NoReq]
    /\ hp = "fresh" /\ warn = {}

\* The masks of the CPUs.  cpu_dying is set for the whole way down.
active(c) == c # Hot \/ hp \in {"fresh", "up"}
online(c) == c # Hot \/ hp # "down"
dying(c) == c = Hot /\ hp \in {"inactive", "synced", "vacated", "down"}

cpus_ptr(p) == IF p.ptr = None THEN p.mask ELSE {p.ptr}
RqFree(c) == ~(t.sw # "no" /\ t.cpu = c)
StopperRuns(c) == online(c) /\ ~(t.on_cpu /\ t.cpu = c) /\ RqFree(c)
StopperDue(c) == (c = Hot /\ push) \/ \E w \in works : w.cpu = c
task_rq_lock == pi = None /\ RqFree(t.cpu)

\* is_cpu_allowed, for a task that is not a kernel thread.
is_cpu_allowed(p, c) == c \in cpus_ptr(p) /\ IF p.disabled THEN online(c) ELSE active(c)

\* The assertions of set_task_cpu.
SetCpuWarn(p, c) ==
    IF c = p.cpu THEN {}
    ELSE (IF online(c) THEN {} ELSE {"offline"}) \cup (IF p.disabled THEN {"disabled"} ELSE {})

\* The mask is changed with the task off its queue, which is put back; migrate_disable and
\* migrate_enable move cpus_ptr and leave it alone.
__do_set_cpus_allowed(p, mask) == [p EXCEPT !.mask = mask]

\* The task with the mask and the CPU select_fallback_rq leaves it: an allowed CPU, or,
\* when there is none, any active one of the mask of all CPUs.
select_fallback_rq(p) ==
    IF \E c \in Cpus : is_cpu_allowed(p, c)
    THEN {[p EXCEPT !.cpu = c] : c \in {d \in Cpus : is_cpu_allowed(p, d)}}
    ELSE LET q == __do_set_cpus_allowed(p, Cpus)
         IN  {[q EXCEPT !.cpu = c] : c \in {d \in Cpus : is_cpu_allowed(q, d)}}

\* set_cpus_allowed_common keeps the number of CPUs of cpus_mask, not of cpus_ptr.
nr_cpus_allowed(p) == Cardinality(p.mask)

\* select_task_rq: the class places the task, unless it has no choice.  The placement is
\* that of the HVF class and reaches every CPU of the mask, as those of other classes do.
\* hvf_sched_class has no set_cpus_allowed: masks change while the task is of a class
\* with set_cpus_allowed_common.
select_task_rq(p) ==
    LET chosen == IF nr_cpus_allowed(p) > 1 /\ ~p.disabled
                  THEN select_task_rq_hvf(p.cpu, cpus_ptr(p), nr_cpus_allowed(p), Nr, SchedValues)
                  ELSE cpus_ptr(p)
    IN  {[p EXCEPT !.cpu = c] : c \in {d \in chosen : is_cpu_allowed(p, d)}}
        \cup (IF \E c \in chosen : ~is_cpu_allowed(p, c) THEN select_fallback_rq(p) ELSE {})

-----------------------------------------------------------------------------
\* The task on its CPU

Runs == t.on_cpu /\ t.sw = "no" /\ ~t.enabling

\* set_current_state before schedule().
set_current_state ==
    /\ Runs /\ t.state = "running"
    /\ t' = [t EXCEPT !.state = "sleeping"]
    /\ UNCHANGED <<pi, waker, wakelist, works, push, nr_pinned, req, hp, warn>>

\* __schedule blocks the task: from here to finish_task it holds the run queue lock.
block_task ==
    /\ Runs /\ t.state = "sleeping" /\ RqFree(t.cpu)
    /\ t' = [t EXCEPT !.on_rq = FALSE, !.sw = "blocked"]
    /\ UNCHANGED <<pi, waker, wakelist, works, push, nr_pinned, req, hp, warn>>

\* migrate_disable_switch: a task that leaves its CPU inside migrate_disable is pinned.
migrate_disable_switch(p) == IF p.disabled /\ p.ptr = None THEN p.cpu ELSE p.ptr

\* The task is switched out after it was blocked ...
SwitchOut ==
    /\ t.sw = "blocked"
    /\ t' = [t EXCEPT !.sw = "switched", !.ptr = migrate_disable_switch(t)]
    /\ UNCHANGED <<pi, waker, wakelist, works, push, nr_pinned, req, hp, warn>>

\* ... and is let go by the next one.
finish_task ==
    /\ t.sw = "switched"
    /\ t' = [t EXCEPT !.sw = "no", !.on_cpu = FALSE]
    /\ UNCHANGED <<pi, waker, wakelist, works, push, nr_pinned, req, hp, warn>>

\* It is preempted: it stays queued, and the lock is held until on_cpu is clear.
Preempt ==
    /\ Runs /\ RqFree(t.cpu)
    /\ t' = [t EXCEPT !.on_cpu = FALSE, !.ptr = migrate_disable_switch(t)]
    /\ UNCHANGED <<pi, waker, wakelist, works, push, nr_pinned, req, hp, warn>>

\* It is picked, when the stopper has nothing to do; balance_push queues the push of
\* a task that starts to run on a CPU on its way down.
Pick ==
    /\ t.on_rq /\ ~t.on_cpu /\ RqFree(t.cpu) /\ online(t.cpu)
    /\ ~StopperDue(t.cpu) /\ (Prompt => works = {})
    /\ t' = [t EXCEPT !.on_cpu = TRUE]
    /\ push' = (push \/ (dying(t.cpu) /\ ~t.disabled))
    /\ UNCHANGED <<pi, waker, wakelist, works, nr_pinned, req, hp, warn>>

\* The outermost migrate_disable; the nested calls only count up and down.
migrate_disable ==
    /\ Runs /\ ~t.disabled
    /\ Prompt => ~StopperDue(t.cpu)
    /\ t' = [t EXCEPT !.disabled = TRUE]
    /\ nr_pinned' = [nr_pinned EXCEPT ![t.cpu] = @ + 1]
    /\ UNCHANGED <<pi, waker, wakelist, works, push, req, hp, warn>>

-----------------------------------------------------------------------------
\* affine_move_task, for a task p whose mask has been set.  s is the setter, or None
\* for migrate_enable (SCA_MIGRATE_ENABLE).

\* Mutant: nobody is let go.
StaysSilent(p) == t' = p /\ UNCHANGED <<req, works, warn>>

\* The task may stay where it is: waiters of an earlier request are let go, unless the
\* stopper is on its way.
Stays(p) ==
    LET completes == p.pending # None /\ ~req[p.pending].stop
    IN  /\ t' = IF completes THEN [p EXCEPT !.pending = None] ELSE p
        /\ req' = IF completes THEN [req EXCEPT ![p.pending].done = TRUE] ELSE req
        /\ UNCHANGED <<works, warn>>

\* Mutant: a second setter waits for the request without a reference.
InstallUncounted(p, s, dest) ==
    IF s = None THEN req
    ELSE IF p.pending = None
    THEN [req EXCEPT ![s] = [pc |-> "wait", on |-> s, refs |-> 1, stop |-> FALSE,
                             done |-> FALSE, dest |-> dest]]
    ELSE [req EXCEPT ![p.pending].dest = dest, ![s] = [NoReq EXCEPT !.pc = "wait", !.on = p.pending]]

\* The requests with the one of s installed, or added to the one that is pending.
Install(p, s, dest) ==
    IF s = None THEN req
    ELSE IF p.pending = None
    THEN [req EXCEPT ![s] = [pc |-> "wait", on |-> s, refs |-> 1, stop |-> FALSE,
                             done |-> FALSE, dest |-> dest]]
    ELSE [req EXCEPT ![p.pending].refs = @ + 1, ![p.pending].dest = dest,
                     ![s] = [NoReq EXCEPT !.pc = "wait", !.on = p.pending]]

\* The task is running or on a wake list: the stopper of its CPU has to do it.
KickStopper(p, o, r) ==
    /\ t' = [p EXCEPT !.pending = o]
    /\ req' = [r EXCEPT ![o].stop = TRUE]
    /\ works' = IF r[o].stop THEN works ELSE works \cup {[cpu |-> p.cpu, of |-> o]}
    /\ UNCHANGED warn

\* The task does not run: it is moved here, unless it has disabled its migration.
MoveNow(p, o, r, dest) ==
    LET moves == ~p.disabled /\ p.on_rq
        completes == ~p.disabled /\ ~r[o].stop
    IN  /\ t' = [p EXCEPT !.cpu = IF moves THEN dest ELSE @,
                          !.pending = IF completes THEN None ELSE o]
        /\ req' = IF completes THEN [r EXCEPT ![o].done = TRUE] ELSE r
        /\ warn' = warn \cup (IF moves THEN SetCpuWarn(p, dest) ELSE {})
        /\ UNCHANGED works

affine_move_task(p, s, dest) ==
    LET o == IF p.pending = None THEN s ELSE p.pending
        r == Install(p, s, dest)
    IN  IF p.cpu \in p.mask THEN Stays(p)
        ELSE IF o = None
        THEN t' = p /\ warn' = warn \cup {"no pending"} /\ UNCHANGED <<req, works>>
        ELSE IF p.on_cpu \/ p.state = "waking" THEN KickStopper(p, o, r)
        ELSE MoveNow(p, o, r, dest)

\* The CPUs __set_cpus_allowed_ptr_locked takes the destination from.
cpu_valid_mask(p) == {c \in Cpus : IF p.disabled THEN online(c) ELSE active(c)}

\* __set_cpus_allowed_ptr by s: an unchanged mask, or one without a valid CPU, changes
\* nothing.
set_cpus_allowed_ptr(s, mask) ==
    /\ req[s].pc = "idle" /\ task_rq_lock
    /\ mask # t.mask
    /\ \E dest \in mask \cap cpu_valid_mask(t) :
          affine_move_task(__do_set_cpus_allowed(t, mask), s, dest)
    /\ UNCHANGED <<pi, waker, wakelist, push, nr_pinned, hp>>

\* wait_for_completion, and the reference to the request is put.
wait_for_completion(s) ==
    LET o == req[s].on
    IN  /\ req[s].pc = "wait" /\ req[o].done
        /\ req' = IF o = s THEN [req EXCEPT ![s].pc = "refs", ![s].refs = @ - 1]
                  ELSE [req EXCEPT ![s] = NoReq, ![o].refs = @ - 1]
        /\ UNCHANGED <<t, pi, waker, wakelist, works, push, nr_pinned, hp, warn>>

\* wait_var_event: the request is on the stack of its owner.
RefsGone(s) == req[s].refs = 0

\* The owner returns.
AffineReturn(s) ==
    /\ req[s].pc = "refs" /\ RefsGone(s)
    /\ warn' = warn \cup (IF req[s].stop THEN {"stop pending"} ELSE {})
    /\ req' = [req EXCEPT ![s] = NoReq]
    /\ UNCHANGED <<t, pi, waker, wakelist, works, push, nr_pinned, hp>>

\* Mutant: cpus_ptr is left alone when the task may stay on its CPU.
NeedsResetMoved(p) == p.ptr # None /\ p.cpu \notin p.mask

\* cpus_ptr does not point to cpus_mask.
NeedsReset(p) == p.ptr # None

\* migrate_enable, preemption off, points cpus_ptr back to cpus_mask first; without a
\* valid CPU in the mask __set_cpus_allowed_ptr fails, which is not looked at.
MigrateEnableReset ==
    /\ Runs /\ t.disabled
    /\ LET p == [t EXCEPT !.enabling = TRUE]
           valid == t.mask \cap cpu_valid_mask(t)
       IN  IF ~NeedsReset(t) \/ valid = {}
           THEN t' = p /\ UNCHANGED <<req, works, warn>>
           ELSE \E dest \in valid : affine_move_task([p EXCEPT !.ptr = None], None, dest)
    /\ NeedsReset(t) => task_rq_lock
    /\ UNCHANGED <<pi, waker, wakelist, push, nr_pinned, hp>>

\* this_rq()->nr_pinned--
Unpin(c) == nr_pinned[c] - 1

MigrateEnableClear ==
    /\ t.enabling
    /\ t' = [t EXCEPT !.enabling = FALSE, !.disabled = FALSE]
    /\ nr_pinned' = [nr_pinned EXCEPT ![t.cpu] = Unpin(t.cpu)]
    /\ UNCHANGED <<pi, waker, wakelist, works, push, req, hp, warn>>

-----------------------------------------------------------------------------
\* try_to_wake_up

\* A task that is still queued only gets its state back.
ttwu_runnable ==
    /\ t.state = "sleeping" /\ t.on_rq /\ task_rq_lock
    /\ t' = [t EXCEPT !.state = "running"]
    /\ UNCHANGED <<pi, waker, wakelist, works, push, nr_pinned, req, hp, warn>>

\* One that is not is marked; pi_lock is held until it is queued.
TtwuMark ==
    /\ t.state = "sleeping" /\ ~t.on_rq /\ pi = None
    /\ t' = [t EXCEPT !.state = "waking"]
    /\ pi' = "ttwu" /\ waker' = "marked"
    /\ UNCHANGED <<wakelist, works, push, nr_pinned, req, hp, warn>>

\* ttwu_queue_cond, when the waker runs on another CPU.
ttwu_queue_cond(c) == active(c) /\ c \in cpus_ptr(t)

ttwu_queue_wakelist ==
    /\ waker = "placed" \/ (waker = "marked" /\ t.on_cpu)
    /\ ttwu_queue_cond(t.cpu)
    /\ wakelist' = t.cpu
    /\ pi' = None /\ waker' = "idle"
    /\ UNCHANGED <<t, works, push, nr_pinned, req, hp, warn>>


\* smp_cond_load_acquire(&p->on_cpu, !VAL).
SeenOff == ~t.on_cpu

\* The task is given a CPU.
TtwuPlace ==
    /\ waker = "marked" /\ SeenOff
    /\ IF select_task_rq(t) = {} THEN warn' = warn \cup {"BUG"} /\ UNCHANGED t
       ELSE \E p \in select_task_rq(t) : t' = p /\ warn' = warn \cup SetCpuWarn(t, p.cpu)
    /\ waker' = "placed"
    /\ UNCHANGED <<pi, wakelist, works, push, nr_pinned, req, hp>>

Activated(p) == [p EXCEPT !.on_rq = TRUE, !.state = "running"]

\* ttwu_do_activate by the waker.
TtwuActivate ==
    /\ waker = "placed" /\ RqFree(t.cpu)
    /\ t' = Activated(t)
    /\ pi' = None /\ waker' = "idle"
    /\ UNCHANGED <<wakelist, works, push, nr_pinned, req, hp, warn>>

\* What sched_ttwu_pending asserts of a task on the wake list of c.
PendingWarn(c) == (IF t.on_cpu THEN {"on_cpu"} ELSE {}) \cup (IF t.cpu # c THEN {"moved"} ELSE {})

\* The interrupt of the wake list, on the CPU of the list.
sched_ttwu_pending(c) ==
    /\ wakelist = c /\ RqFree(c)
    /\ t' = [Activated(t) EXCEPT !.cpu = c]
    /\ wakelist' = None
    /\ warn' = warn \cup PendingWarn(c)
    /\ UNCHANGED <<pi, waker, works, push, nr_pinned, req, hp>>

-----------------------------------------------------------------------------
\* The stoppers

\* flush_smp_call_function_queue: the wake list of this CPU is emptied first.
Flushed(c) == IF wakelist = c THEN Activated(t) ELSE t

\* A task inside migrate_disable is left alone, its request pending.
StopBails(p) == p.disabled


\* __migrate_task: the destination may not be allowed any more.
\* A blocked task is placed when it is woken.
migrated(p, dest) == IF p.on_rq /\ is_cpu_allowed(p, dest) THEN [p EXCEPT !.cpu = dest] ELSE p

\* migration_cpu_stop on c for the request of o: the task is still here (it is moved
\* when its mask says so), or somewhere it is allowed, or is chased to its new CPU.
migration_cpu_stop(c, w) ==
    LET o == w.of
        p == Flushed(c)
        q == IF p.cpu \in p.mask THEN p ELSE migrated(p, req[o].dest)
        answered == /\ t' = [q EXCEPT !.pending = None]
                    /\ req' = [req EXCEPT ![o].stop = FALSE, ![o].done = TRUE]
                    /\ works' = works \ {w}
    IN  /\ w.cpu = c /\ StopperRuns(c) /\ pi = None
        /\ wakelist' = IF wakelist = c THEN None ELSE wakelist
        /\ \/ /\ p.cpu = c /\ StopBails(p)
              /\ t' = p /\ req' = [req EXCEPT ![o].stop = FALSE]
              /\ works' = works \ {w}
           \/ p.cpu = c /\ ~StopBails(p) /\ answered
           \/ p.cpu # c /\ RqFree(p.cpu) /\ p.cpu \in cpus_ptr(p) /\ answered
           \/ /\ p.cpu # c /\ p.cpu \notin cpus_ptr(p)
              /\ t' = p /\ UNCHANGED req
              /\ works' = (works \ {w}) \cup {[cpu |-> p.cpu, of |-> o]}
        /\ warn' = warn \cup (IF t.pending # o THEN {"not pending"} ELSE {})
                        \cup (IF wakelist = c THEN PendingWarn(c) ELSE {})
                        \cup SetCpuWarn(p, t'.cpu)
        /\ UNCHANGED <<pi, waker, push, nr_pinned, hp>>

\* Where __balance_push_cpu_stop sends a task.
PushedTo(p) == select_fallback_rq(p)

__balance_push_cpu_stop ==
    /\ push /\ StopperRuns(Hot) /\ pi = None
    /\ push' = FALSE
    /\ IF t.cpu = Hot /\ t.on_rq
       THEN \E p \in PushedTo(t) : t' = p /\ warn' = warn \cup SetCpuWarn(t, p.cpu)
       ELSE UNCHANGED <<t, warn>>
    /\ UNCHANGED <<pi, waker, wakelist, works, nr_pinned, req, hp>>

\* migrate_swap_stop, with the stoppers of both CPUs: NUMA balancing exchanges the task,
\* queued but not running, with one of another CPU.  A blocked one only notes its new
\* CPU for the next wakeup.
migrate_swap_stop(dst) ==
    /\ dst # t.cpu /\ StopperRuns(t.cpu) /\ StopperRuns(dst) /\ pi = None
    /\ active(t.cpu) /\ active(dst)
    /\ dst \in cpus_ptr(t) /\ t.on_rq
    /\ t' = [t EXCEPT !.cpu = dst]
    /\ warn' = warn \cup SetCpuWarn(t, dst)
    /\ UNCHANGED <<pi, waker, wakelist, works, push, nr_pinned, req, hp>>

-----------------------------------------------------------------------------
\* The hotplug of Hot, by its control thread on that CPU

HotFree == ~(t.on_cpu /\ t.cpu = Hot) /\ RqFree(Hot)

\* sched_cpu_deactivate: the CPU is no longer active and pushes tasks away.
sched_cpu_deactivate ==
    /\ hp \in {"fresh", "up"} /\ HotFree
    /\ hp' = "inactive"
    /\ UNCHANGED <<t, pi, waker, wakelist, works, push, nr_pinned, req, warn>>

\* synchronize_rcu waits for the wakeups in progress, and for the interrupts they sent.
RcuSync == waker = "idle" /\ wakelist # Hot

\* The rest of sched_cpu_deactivate.
SyncedDeactivate ==
    /\ hp = "inactive" /\ HotFree /\ RcuSync
    /\ hp' = "synced"
    /\ UNCHANGED <<t, pi, waker, wakelist, works, push, nr_pinned, req, warn>>

\* Only the control thread is left, and nothing is pinned here.
HotEmpty == ~(t.on_rq /\ t.cpu = Hot) /\ nr_pinned[Hot] = 0

\* sched_cpu_wait_empty, balance_hotplug_wait
balance_hotplug_wait ==
    /\ hp = "synced" /\ HotFree /\ HotEmpty
    /\ hp' = "vacated"
    /\ UNCHANGED <<t, pi, waker, wakelist, works, push, nr_pinned, req, warn>>

\* sched_cpu_dying, from the stopper after its other works.
sched_cpu_dying ==
    /\ hp = "vacated" /\ HotFree /\ ~StopperDue(Hot)
    /\ hp' = "down"
    /\ warn' = warn \cup (IF (t.on_rq /\ t.cpu = Hot) \/ nr_pinned[Hot] # 0 THEN {"not vacated"} ELSE {})
    /\ UNCHANGED <<t, pi, waker, wakelist, works, push, nr_pinned, req>>

\* sched_cpu_starting, then sched_cpu_activate.
sched_cpu_starting ==
    /\ hp = "down" /\ hp' = "starting"
    /\ UNCHANGED <<t, pi, waker, wakelist, works, push, nr_pinned, req, warn>>
sched_cpu_activate ==
    /\ hp = "starting" /\ hp' = "up"
    /\ UNCHANGED <<t, pi, waker, wakelist, works, push, nr_pinned, req, warn>>

-----------------------------------------------------------------------------

Sched == set_current_state \/ block_task \/ SwitchOut \/ finish_task \/ Preempt \/ Pick
Migrate == \/ migrate_disable \/ MigrateEnableReset \/ MigrateEnableClear
Set == \E s \in Setters : \/ \E mask \in Masks : set_cpus_allowed_ptr(s, mask)
                          \/ wait_for_completion(s) \/ AffineReturn(s)
Wake == \/ ttwu_runnable \/ TtwuMark \/ ttwu_queue_wakelist \/ TtwuPlace \/ TtwuActivate
        \/ \E c \in Cpus : sched_ttwu_pending(c)
Stop == \/ \E c \in Cpus : \E w \in works : migration_cpu_stop(c, w)
        \/ __balance_push_cpu_stop
        \/ \E c \in Cpus : migrate_swap_stop(c)
Plug == \/ sched_cpu_deactivate \/ SyncedDeactivate \/ balance_hotplug_wait \/ sched_cpu_dying
        \/ sched_cpu_starting \/ sched_cpu_activate

Next == Sched \/ Migrate \/ Set \/ Wake \/ Stop \/ Plug

Spec == Init /\ [][Next]_vars

\* The steps that follow of themselves: a switch ends, a queued task is picked, a marked
\* one is placed and queued, the interrupt of a wake list comes.
TaskGoesOn == \/ SwitchOut \/ finish_task \/ Pick \/ MigrateEnableClear
              \/ ttwu_queue_wakelist \/ TtwuPlace \/ TtwuActivate
              \/ \E c \in Cpus : sched_ttwu_pending(c)

\* The locks are fair, the stoppers preempt, the hotplug thread runs on its CPU; a region
\* of migrate_disable ends, and a task that sleeps in it is woken.
Fairness ==
    /\ WF_vars(TaskGoesOn)
    /\ SF_vars(Preempt /\ ~t.disabled /\ (push \/ works # {} \/ dying(t.cpu)))
    /\ SF_vars(\E c \in Cpus : \E w \in works : migration_cpu_stop(c, w))
    /\ SF_vars(__balance_push_cpu_stop)
    /\ SF_vars(MigrateEnableReset)
    /\ WF_vars(t.disabled /\ (ttwu_runnable \/ TtwuMark))
    /\ SF_vars(SyncedDeactivate \/ balance_hotplug_wait \/ sched_cpu_dying)
    /\ \A s \in Setters : WF_vars(wait_for_completion(s) \/ AffineReturn(s))

FairSpec == Spec /\ Fairness

-----------------------------------------------------------------------------
\* The fields keep their ranges; one setter is the owner of a request that the others
\* refer to at most once each.
TypeOK ==
    /\ t.state \in {"running", "sleeping", "waking"}
    /\ t.cpu \in Cpus /\ t.mask \in (SUBSET Cpus) \ {{}}
    /\ t.ptr \in Cpus \cup {None} /\ t.disabled \in BOOLEAN
    /\ t.pending \in Setters \cup {None}
    /\ pi \in {None, "ttwu"}
    /\ wakelist \in Cpus \cup {None}
    /\ works \subseteq [cpu : Cpus, of : Setters]
    /\ \A c \in Cpus : nr_pinned[c] \in 0..1
    /\ \A s \in Setters : req[s].refs \in 0..Cardinality(Setters)


\* affine_move_task: "Either way, we really should have a @pending here".
HasPending == "no pending" \notin warn

\* A set_affinity_pending lives on the stack of its owner: the stopper works and
\* migration_pending only refer to one whose owner is still in affine_move_task.
PendingAlive ==
    /\ \A w \in works : req[w.of].on = w.of
    /\ t.pending # None => req[t.pending].on = t.pending /\ ~req[t.pending].done
    /\ \A s \in Setters : req[s].pc = "wait" => req[req[s].on].on = req[s].on


\* select_task_rq_hvf allocates nr_cpus_allowed loads and fills one for each CPU of
\* cpus_ptr: outside migrate_disable, where it is called, it fills them all.
LoadsFit == ~t.disabled => Cardinality(cpus_ptr(t)) = nr_cpus_allowed(t)

\* When the class is about to place the task, whatever the loads are, a higher value gets
\* a CPU that is loaded at least as much (get_right_cpu: "low load if small sched_value
\* high load if higher sched_value").
PlacesByValue ==
    waker = "marked" /\ ~t.disabled =>
        \A nr \in [cpus_ptr(t) -> Nr] : \A loads \in sort_cpu_loads_in_mask(cpus_ptr(t), nr) :
            ByValue(loads, nr, nr_cpus_allowed(t), SchedValues)

\* The placement of the HVF class is sound: no load is left out and values are obeyed.
Placement == LoadsFit /\ PlacesByValue

\* Whoever changes the mask of the task returns from affine_move_task, and a CPU that is
\* taken down gets rid of the task and goes down.
RequestsEnd == /\ \A s \in Setters : req[s].pc = "wait" ~> req[s].pc = "idle"
               /\ hp = "inactive" ~> hp = "down"
=============================================================================
