------------------------------- MODULE Policy -------------------------------
(***************************************************************************)
(* The policy and the priority of tasks: sched_setscheduler and its        *)
(* relatives (syscalls.c), set_user_nice, priority inheritance as the      *)
(* scheduler sees it (rt_mutex_setprio, core.c), what fork gives a child   *)
(* and set_scheduling_params.                                              *)
(*                                                                         *)
(* A setter checks its arguments against the task's policy with no lock    *)
(* held and applies them later under the task's locks; the priority walk   *)
(* along a chain of mutexes drops its locks between two owners; fork       *)
(* copies the parent and reads the parent's priority again later.  Each of *)
(* these is a step of its own.                                             *)
(*                                                                         *)
(* One policy stands for each scheduling class below the deadline class:   *)
(* "normal" (fair), "fifo" (real time) and "hvf".  Callers are privileged. *)
(***************************************************************************)
EXTENDS Naturals, FiniteSets

CONSTANTS Tasks,        \* task slots
          First,        \* the tasks that exist at the start
          Callers,      \* threads that call the setters
          Attrs,        \* the sched_attr arguments passed
          NicePrios,    \* the static priorities set_user_nice is asked for
          MaxRtPrio,    \* MAX_RT_PRIO: priorities below it are real-time
          DefaultPrio,  \* DEFAULT_PRIO, the static priority of nice 0
          MaxPrio,      \* MAX_PRIO - 1
          MaxCalls,     \* system calls in one behaviour
          SteadyFork,   \* nobody changes a task in the middle of its fork
          None

Policies == {"normal", "fifo", "hvf"}
Same     == "same"      \* SETPARAM_POLICY
Legacy   == 0           \* no nice value is passed: the task's own is used
Prios    == 0 .. MaxPrio

ASSUME PrioAssumption == /\ MaxRtPrio \in Nat /\ DefaultPrio \in Nat
                         /\ MaxPrio \in Nat
                         /\ MaxRtPrio > 1
                         /\ MaxRtPrio <= DefaultPrio /\ DefaultPrio <= MaxPrio

ASSUME NiceAssumption == NicePrios \subseteq MaxRtPrio .. MaxPrio

ASSUME AttrAssumption ==
    Attrs \subseteq [policy : Policies \cup {Same}, prio : 0 .. MaxRtPrio - 1,
                     nice : NicePrios \cup {Legacy}, reset : BOOLEAN,
                     keep : BOOLEAN]

ASSUME SlotAssumption == /\ First \subseteq Tasks
                         /\ MaxCalls \in Nat

ASSUME NoneAssumption ==
    /\ None \notin Tasks \cup Policies
    /\ None \notin [p : Tasks, policy : Policies \cup {Same},
                    prio : 0 .. MaxRtPrio - 1, keep : BOOLEAN]

VARIABLES task,    \* the fields of task_struct this module is about
          wait,    \* the owner of the rt_mutex a task waits for, or None
          wprio,   \* the priority its waiter is queued with
          walks,   \* tasks from which a priority walk goes on
          call,    \* the setters' local variables
          oops,    \* the sched_class method called through a NULL pointer
          left     \* calls left

vars == <<task, wait, wprio, walks, call, oops, left>>

-----------------------------------------------------------------------------
(* Priorities and classes.                                                 *)

rt_prio(prio) == prio < MaxRtPrio

__normal_prio(policy, rt, static) ==
    IF policy = "fifo" THEN MaxRtPrio - 1 - rt ELSE static

__rt_effective_prio(T, donor, prio) ==
    IF donor # None /\ T[donor].prio < prio THEN T[donor].prio ELSE prio

effective_prio(t, normal) == IF rt_prio(t.prio) THEN t.prio ELSE normal

__setscheduler_class(policy, prio) ==
    CASE rt_prio(prio)                       -> "rt"
      [] ~rt_prio(prio) /\ policy = "hvf"    -> "hvf"
      [] OTHER                               -> "fair"

(* hvf.c: entering the class gives default parameters to a task that has   *)
(* none, leaving it clears them.                                           *)
ParamsAfter(t, class) ==
    CASE t.class # "hvf" /\ class = "hvf" /\ t.pars = "unset" -> "default"
      [] t.class = "hvf" /\ class # "hvf"                     -> "unset"
      [] OTHER                                                -> t.pars

(* check_class_changing, the assignment and check_class_changed.           *)
Switched(t, class, prio) ==
    [t EXCEPT !.class = class, !.prio = prio, !.pars = ParamsAfter(t, class)]

(* check_class_changed calls prio_changed of a class that has none.        *)
NullPrioChanged(t, class, prio) ==
    t.class = "hvf" /\ class = "hvf" /\ prio # t.prio

-----------------------------------------------------------------------------
(* Priority inheritance.                                                   *)

(* rt_mutex_setprio: the table after task p got donor as its top waiter.   *)
rt_mutex_setprio(T, p, donor) ==
    LET prio == __rt_effective_prio(T, donor, T[p].normal)
        t    == [T[p] EXCEPT !.top = donor]
    IN [T EXCEPT ![p] =
          IF prio = t.prio THEN t
          ELSE Switched(t, __setscheduler_class(t.policy, prio), prio)]

NullInSetprio(T, p, donor) ==
    LET prio == __rt_effective_prio(T, donor, T[p].normal)
    IN NullPrioChanged(T[p], __setscheduler_class(T[p].policy, prio), prio)

(* rtmutex.c: waiters below real time are queued with the default priority. *)
__waiter_prio(prio) == IF rt_prio(prio) THEN prio ELSE DefaultPrio

Waiters(W, a) == {b \in Tasks : W[b] = a}

(* The donors the mutex code may name: a first waiter, or none.            *)
TopWaiters(W, P, a) ==
    IF Waiters(W, a) = {} THEN {None}
    ELSE {b \in Waiters(W, a) : \A d \in Waiters(W, a) : P[b] <= P[d]}

(* A call through a NULL pointer under the runqueue lock ends the run.     *)
Up == oops = "none"

Alive == {p \in Tasks : task[p].st = "alive"}

(* The owners reached from a by following the mutexes they wait for.       *)
OwnersFrom(a) ==
    LET next(S) == S \cup {wait[p] : p \in {q \in S : wait[q] # None}}
    IN next(next({a}))      \* walks of up to three tasks

Donate(T, a, donor) ==
    /\ task' = rt_mutex_setprio(T, a, donor)
    /\ oops' = IF NullInSetprio(T, a, donor) THEN "prio_changed" ELSE oops

(* Task b blocks on a mutex of a, which is given its first waiter's        *)
(* priority at once; the walk goes on from a.                              *)
Block(b, a) ==
    /\ Up
    /\ b \in Alive /\ a \in Alive /\ b \notin OwnersFrom(a)
    /\ wait[b] = None
    /\ left > 0
    /\ wait' = [wait EXCEPT ![b] = a]
    /\ wprio' = [wprio EXCEPT ![b] = __waiter_prio(task[b].prio)]
    /\ \E donor \in TopWaiters(wait', wprio', a) : Donate(task, a, donor)
    /\ walks' = walks \cup {a}
    /\ left' = left - 1
    /\ UNCHANGED call

(* One step of the walk: p's waiter is queued again with p's priority and  *)
(* the owner gets its new first waiter.                                    *)
Walk(p) ==
    /\ Up
    /\ p \in walks
    /\ IF wait[p] = None \/ wprio[p] = __waiter_prio(task[p].prio)
       THEN /\ walks' = walks \ {p}
            /\ UNCHANGED <<task, wprio, oops>>
       ELSE /\ wprio' = [wprio EXCEPT ![p] = __waiter_prio(task[p].prio)]
            /\ \E donor \in TopWaiters(wait, wprio', wait[p]) :
                  Donate(task, wait[p], donor)
            /\ walks' = (walks \ {p}) \cup {wait[p]}
    /\ UNCHANGED <<wait, call, left>>

(* Owner a hands its mutex to the first waiter b and loses its boost; the  *)
(* other waiters wait for b now.                                           *)
Unlock(a) ==
    /\ Up
    /\ wait[a] = None
    /\ Waiters(wait, a) # {}
    /\ \E b \in TopWaiters(wait, wprio, a) :
          /\ wait' = [q \in Tasks |-> CASE q = b           -> None
                                        [] q # b /\ wait[q] = a -> b
                                        [] OTHER            -> wait[q]]
          /\ \E donor \in TopWaiters(wait', wprio, b) :
                LET T == rt_mutex_setprio(task, a, None)
                IN /\ task' = rt_mutex_setprio(T, b, donor)
                   /\ oops' = IF \/ NullInSetprio(task, a, None)
                                 \/ NullInSetprio(T, b, donor)
                              THEN "prio_changed" ELSE oops
    /\ UNCHANGED <<wprio, walks, call, left>>

-----------------------------------------------------------------------------
(* The setters.                                                            *)

Idle == [pc |-> "idle", p |-> None, policy |-> Same, old |-> None,
         prio |-> 0, nice |-> DefaultPrio, reset |-> FALSE, keep |-> FALSE]

(* A fork of p is between the copy and sched_fork.                         *)
Forking(p) == \E q \in Tasks : task[q].st = "dup" /\ task[q].parent = p

Changeable(p) == p \in Alive /\ (SteadyFork => ~Forking(p))

Request(c, p, a, prio, nice) ==
    /\ Up
    /\ call[c].pc = "idle"
    /\ p \in Alive
    /\ left > 0
    /\ call' = [call EXCEPT ![c] =
          [pc |-> "check", p |-> p, policy |-> a.policy, old |-> None,
           prio |-> prio, nice |-> nice, reset |-> a.reset, keep |-> a.keep]]
    /\ left' = left - 1
    /\ UNCHANGED <<task, wait, wprio, walks, oops>>

(* sched_setscheduler and sched_setparam read the task's nice value here.  *)
_sched_setscheduler(c, p, a) ==
    /\ a.nice = Legacy /\ ~a.keep
    /\ Request(c, p, a, a.prio, task[p].static)

(* sched_setattr: with the keep flag, get_params reads what to keep.       *)
sched_setattr(c, p, a) ==
    LET rt == task[p].policy = "fifo"
    IN /\ a.nice # Legacy
       /\ Request(c, p, a, IF a.keep /\ rt THEN task[p].rtprio ELSE a.prio,
                           IF a.keep /\ ~rt THEN task[p].static ELSE a.nice)

(* The checks before the locks: a call that keeps the policy reads it.     *)
Check(c) ==
    LET r      == call[c]
        policy == IF r.policy = Same THEN task[r.p].policy ELSE r.policy
        reset  == IF r.policy = Same THEN task[r.p].reset ELSE r.reset
        old    == IF r.policy = Same THEN task[r.p].policy ELSE r.old
    IN /\ Up
       /\ r.pc = "check"
       /\ call' = [call EXCEPT ![c] =
            IF (policy = "fifo") # (r.prio # 0) THEN Idle    \* -EINVAL
            ELSE [r EXCEPT !.pc = "apply", !.policy = policy,
                           !.reset = reset, !.old = old]]
       /\ UNCHANGED <<task, wait, wprio, walks, oops, left>>

(* Nothing to change under the lock but reset_on_fork.                     *)
OnlyReset(r, t) ==
    /\ r.policy = t.policy
    /\ \/ r.policy = "hvf"
       \/ r.policy = "fifo" /\ r.prio = t.rtprio
       \/ r.policy = "normal" /\ r.nice = t.static

Stale(r, t) == r.old # None /\ r.old # t.policy

(* Mutant: the donor is not taken into account.                            *)
AppliedUnboosted(T, r) ==
    LET t     == T[r.p]
        prio  == __normal_prio(r.policy, r.prio, r.nice)
        static == IF r.policy = "normal" THEN r.nice ELSE t.static
        policy == IF r.old = None THEN r.policy ELSE t.policy
        set   == [t EXCEPT !.policy = policy, !.rtprio = r.prio,
                           !.static = static, !.reset = r.reset,
                           !.normal = __normal_prio(policy, r.prio, static)]
    IN IF r.keep THEN [t EXCEPT !.reset = r.reset]
       ELSE Switched(set, __setscheduler_class(r.policy, prio), prio)

(* Mutant: the class is left alone when the effective priority stays.      *)
AppliedSameClass(T, r) ==
    LET t     == T[r.p]
        prio  == __rt_effective_prio(T, t.top,
                                     __normal_prio(r.policy, r.prio, r.nice))
        static == IF r.policy = "normal" THEN r.nice ELSE t.static
        policy == IF r.old = None THEN r.policy ELSE t.policy
        set   == [t EXCEPT !.policy = policy, !.rtprio = r.prio,
                           !.static = static, !.reset = r.reset,
                           !.normal = __normal_prio(policy, r.prio, static)]
    IN IF r.keep THEN [t EXCEPT !.reset = r.reset]
       ELSE Switched(set, IF prio = t.prio THEN t.class
                          ELSE __setscheduler_class(r.policy, prio), prio)

(* Mutant: nothing is stored when the effective priority stays.            *)
AppliedNothing(T, r) ==
    LET t     == T[r.p]
        prio  == __rt_effective_prio(T, t.top,
                                     __normal_prio(r.policy, r.prio, r.nice))
        static == IF r.policy = "normal" THEN r.nice ELSE t.static
        policy == IF r.old = None THEN r.policy ELSE t.policy
        set   == [t EXCEPT !.policy = policy, !.rtprio = r.prio,
                           !.static = static, !.reset = r.reset,
                           !.normal = __normal_prio(policy, r.prio, static)]
    IN IF r.keep \/ prio = t.prio THEN [t EXCEPT !.reset = r.reset]
       ELSE Switched(set, __setscheduler_class(r.policy, prio), prio)

(* __setscheduler_params, then the class and the effective priority.       *)
Applied(T, r) ==
    LET t     == T[r.p]
        prio  == __rt_effective_prio(T, t.top,
                                     __normal_prio(r.policy, r.prio, r.nice))
        static == IF r.policy = "normal" THEN r.nice ELSE t.static
        policy == IF r.old = None THEN r.policy ELSE t.policy
        set   == [t EXCEPT !.policy = policy, !.rtprio = r.prio,
                           !.static = static, !.reset = r.reset,
                           !.normal = __normal_prio(policy, r.prio, static)]
    IN IF r.keep THEN [t EXCEPT !.reset = r.reset]
       ELSE Switched(set, __setscheduler_class(r.policy, prio), prio)

NullInApply(T, r) ==
    LET prio == __rt_effective_prio(T, T[r.p].top,
                                    __normal_prio(r.policy, r.prio, r.nice))
    IN /\ ~r.keep
       /\ NullPrioChanged(T[r.p], __setscheduler_class(r.policy, prio), prio)

(* The part of __sched_setscheduler under the task's locks, and the start  *)
(* of rt_mutex_adjust_pi once they are dropped.                            *)
__sched_setscheduler(c) ==
    LET r == call[c]
        t == task[r.p]
    IN /\ Up
       /\ r.pc = "apply"
       /\ Changeable(r.p)
       /\ \/ /\ OnlyReset(r, t)
             /\ task' = [task EXCEPT ![r.p].reset = r.reset]
             /\ call' = [call EXCEPT ![c] = Idle]
             /\ UNCHANGED <<walks, oops>>
          \/ /\ ~OnlyReset(r, t) /\ Stale(r, t)
             /\ call' = [call EXCEPT ![c] = [r EXCEPT !.pc = "check",
                                              !.policy = Same, !.old = None]]
             /\ UNCHANGED <<task, walks, oops>>
          \/ /\ ~OnlyReset(r, t) /\ ~Stale(r, t)
             /\ task' = [task EXCEPT ![r.p] = Applied(task, r)]
             /\ oops' = IF NullInApply(task, r) THEN "prio_changed" ELSE oops
             /\ walks' = walks \cup {r.p}
             /\ call' = [call EXCEPT ![c] = Idle]
       /\ UNCHANGED <<wait, wprio, left>>

set_user_nice(p, prio) ==
    LET t      == task[p]
        normal == __normal_prio(t.policy, t.rtprio, prio)
    IN /\ Up
       /\ Changeable(p)
       /\ left > 0
       /\ t.static # prio
       /\ task' = [task EXCEPT ![p] =
             IF t.policy = "fifo" THEN [t EXCEPT !.static = prio]
             ELSE [t EXCEPT !.static = prio, !.normal = normal,
                            !.prio = effective_prio(t, normal)]]
       /\ oops' = IF t.policy # "fifo" /\ t.class = "hvf"
                  THEN "prio_changed" ELSE oops
       /\ left' = left - 1
       /\ UNCHANGED <<wait, wprio, walks, call>>

(* sched_yield of a running task calls yield_task of its class.            *)
do_sched_yield(p) ==
    /\ Up
    /\ p \in Alive
    /\ wait[p] = None
    /\ left > 0
    /\ oops' = IF task[p].class = "hvf" THEN "yield_task" ELSE oops
    /\ left' = left - 1
    /\ UNCHANGED <<task, wait, wprio, walks, call>>

(* set_scheduling_params of a running task with arguments it accepts.      *)
set_scheduling_params(p) ==
    /\ Up
    /\ p \in Alive
    /\ wait[p] = None
    /\ left > 0
    /\ task[p].pars # "user"
    /\ task' = [task EXCEPT ![p].pars = "user"]
    /\ left' = left - 1
    /\ UNCHANGED <<wait, wprio, walks, call, oops>>

-----------------------------------------------------------------------------
(* fork.                                                                   *)

(* dup_task_struct copies the running parent a.                            *)
dup_task_struct(a, c) ==
    /\ Up
    /\ a \in Alive
    /\ wait[a] = None
    /\ task[c].st = "none"
    /\ left > 0
    /\ task' = [task EXCEPT ![c] = [task[a] EXCEPT !.st = "dup", !.parent = a,
                                                   !.top = None]]
    /\ left' = left - 1
    /\ UNCHANGED <<wait, wprio, walks, call, oops>>

(* Mutant: a child keeps the priority copied from its boosted parent.      *)
RevertedBoosted(t, normal) ==
    IF t.reset
    THEN [t EXCEPT !.policy = "normal", !.static = DefaultPrio, !.rtprio = 0,
                   !.prio = DefaultPrio, !.normal = DefaultPrio,
                   !.reset = FALSE]
    ELSE t

(* The policy part of sched_fork: the parent's normal priority is read     *)
(* now, and reset_on_fork takes the child back to the defaults.            *)
Reverted(t, normal) ==
    LET static == IF t.policy = "fifo" \/ t.static < DefaultPrio
                  THEN DefaultPrio ELSE t.static
        policy == IF t.policy = "fifo" THEN "normal" ELSE t.policy
        rtprio == IF t.policy = "fifo" THEN 0 ELSE t.rtprio
    IN IF t.reset
       THEN [t EXCEPT !.policy = policy, !.static = static, !.rtprio = rtprio,
                      !.prio = static, !.normal = static, !.reset = FALSE]
       ELSE [t EXCEPT !.prio = normal]

(* sched_fork, sched_cgroup_fork (neither class has a task_fork to call    *)
(* that touches these fields) and the end of copy_process.                 *)
sched_fork(c) ==
    LET t == Reverted(task[c], task[task[c].parent].normal)
    IN /\ Up
       /\ task[c].st = "dup"
       /\ task' = [task EXCEPT ![c] =
             [t EXCEPT !.class = IF rt_prio(t.prio) THEN "rt" ELSE "fair",
                       !.st = "alive", !.pars = "unset"]]
       /\ UNCHANGED <<wait, wprio, walks, call, oops, left>>

-----------------------------------------------------------------------------
NewTask(p) ==
    [st |-> IF p \in First THEN "alive" ELSE "none", parent |-> None,
     policy |-> "normal", rtprio |-> 0, static |-> DefaultPrio,
     normal |-> DefaultPrio, prio |-> DefaultPrio, class |-> "fair",
     top |-> None, reset |-> FALSE, pars |-> "unset"]

Init ==
    /\ task = [p \in Tasks |-> NewTask(p)]
    /\ wait = [p \in Tasks |-> None]
    /\ wprio = [p \in Tasks |-> DefaultPrio]
    /\ walks = {}
    /\ call = [c \in Callers |-> Idle]
    /\ oops = "none"
    /\ left = MaxCalls

Next ==
    \/ \E p \in Tasks :
          \/ \E a \in Tasks : Block(p, a) \/ dup_task_struct(a, p)
          \/ \E n \in NicePrios : set_user_nice(p, n)
          \/ Walk(p) \/ Unlock(p)
          \/ do_sched_yield(p) \/ set_scheduling_params(p) \/ sched_fork(p)
    \/ \E c \in Callers :
          \/ \E p \in Tasks, a \in Attrs :
                _sched_setscheduler(c, p, a) \/ sched_setattr(c, p, a)
          \/ Check(c) \/ __sched_setscheduler(c)

Spec == Init /\ [][Next]_vars

-----------------------------------------------------------------------------
Records == [st : {"none", "dup", "alive"}, parent : Tasks \cup {None},
            policy : Policies, rtprio : 0 .. MaxRtPrio - 1,
            static : MaxRtPrio .. MaxPrio, normal : Prios, prio : Prios,
            class : {"rt", "hvf", "fair"}, top : Tasks \cup {None},
            reset : BOOLEAN, pars : {"unset", "default", "user"}]

Calls == [pc : {"idle", "check", "apply"}, p : Tasks \cup {None},
          policy : Policies \cup {Same}, old : Policies \cup {None},
          prio : 0 .. MaxRtPrio - 1, nice : MaxRtPrio .. MaxPrio,
          reset : BOOLEAN, keep : BOOLEAN]

(* Types: every priority stays in the range its policy gives it.           *)
TypeOK ==
    /\ task \in [Tasks -> Records]
    /\ wait \in [Tasks -> Tasks \cup {None}]
    /\ wprio \in [Tasks -> Prios]
    /\ walks \subseteq Tasks
    /\ call \in [Callers -> Calls]
    /\ oops \in {"none", "prio_changed", "yield_task"}
    /\ left \in 0 .. MaxCalls
    /\ \A p \in Tasks : rt_prio(task[p].normal) <=> task[p].policy = "fifo"

(* A task has a real-time priority exactly when its policy is real-time,   *)
(* although setters check the pair before they take the task's locks and   *)
(* another setter may change the policy in between (__sched_setscheduler's *)
(* "Re-check policy now with rq lock held").                               *)
RtParams == \A p \in Tasks : task[p].policy = "fifo" <=> task[p].rtprio # 0

(* The donor a task points to waits for it (rt_mutex_setprio: "This        *)
(* ensures the pointer points to a blocked task").                         *)
DonorWaits == \A p \in Tasks : task[p].top # None => wait[task[p].top] = p

(* No priority inversion is left: once no walk is under way, the owner of  *)
(* a mutex runs with at least the priority of every real-time waiter,      *)
(* whatever setters, nice calls and forks happened to both of them; and    *)
(* the priority it borrows is that of a task that waits for it.            *)
NoInversion ==
    DonorWaits /\ (walks = {} /\ oops = "none" =>
        \A b \in Tasks :
            wait[b] # None /\ rt_prio(task[b].prio) =>
                task[wait[b]].prio <= task[b].prio)

(* A boost does not outlive the mutex: a task with a real-time priority    *)
(* has a real-time policy or somebody waits for it, and a forked child     *)
(* does not inherit a boost (sched_fork: "Make sure we do not leak PI      *)
(* boosting priority to the child").                                       *)
NoLeftBoost ==
    \A p \in Alive :
        rt_prio(task[p].prio) =>
            task[p].policy = "fifo" \/ Waiters(wait, p) # {}

(* The class a task is queued in is the class of its policy and effective  *)
(* priority, after any mix of setters and boosts.  The exception is a      *)
(* child forked with the HVF policy: sched_fork gives it the fair class    *)
(* until its policy or its priority is set.                                *)
ClassIsEffective ==
    \A p \in Alive :
        \/ task[p].class = __setscheduler_class(task[p].policy, task[p].prio)
        \/ task[p].policy = "hvf" /\ task[p].class = "fair"
              /\ task[p].parent # None

(* The methods the core calls are defined by the class: sched_yield,       *)
(* set_user_nice and a change of priority within the class call yield_task *)
(* and prio_changed without a test for NULL.                               *)
MethodsPresent == oops = "none"

(* Parameters a task has set stay set while it keeps the HVF policy.       *)
ParamsKept ==
    [][\A p \in Alive : task[p].pars = "user" /\ task[p].policy = "hvf"
           /\ task'[p].policy = "hvf" => task'[p].pars = "user"]_vars

-----------------------------------------------------------------------------
(* The refinement: what a caller has asked for and not yet got.            *)
Asked(r) ==
    IF r.pc = "idle" THEN None
    ELSE [p |-> r.p, policy |-> IF r.old = None THEN r.policy ELSE Same,
          prio |-> r.prio, keep |-> r.keep]

Abs == INSTANCE TaskPolicy WITH
         RtPrios <- 0 .. MaxRtPrio - 1,
         pol <- [p \in Tasks |-> <<task[p].policy, task[p].rtprio>>],
         req <- [c \in Callers |-> Asked(call[c])]

(* The setters implement the atomic register of module TaskPolicy: each    *)
(* request takes effect in one step, on the policy the task has then.      *)
Atomic == Abs!Spec
=============================================================================
