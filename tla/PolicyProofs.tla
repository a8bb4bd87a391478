---------------------------- MODULE PolicyProofs ----------------------------
(***************************************************************************)
(* Proofs about module Policy: types, the agreement of policy and          *)
(* real-time priority, and the refinement of TaskPolicy, for any number of *)
(* tasks, callers, requests and priority levels.                           *)
(***************************************************************************)
EXTENDS Policy, TLAPS

PairOK(t) == t.policy = "fifo" <=> t.rtprio # 0

TaskOK(t) == /\ t \in Records
             /\ rt_prio(t.normal) <=> t.policy = "fifo"
             /\ PairOK(t)
             /\ t.st = "dup" => t.parent # None

CallOK(r) == /\ r \in Calls
             /\ r.pc # "idle" => r.p \in Tasks
             /\ r.pc = "check" => r.old = None
             /\ r.pc = "apply" => /\ r.policy \in Policies
                                  /\ r.policy = "fifo" <=> r.prio # 0
                                  /\ r.old = None \/ r.old = r.policy

-----------------------------------------------------------------------------
(* Facts about the operators.                                              *)

SameKept(t, u) == /\ u.policy = t.policy /\ u.rtprio = t.rtprio
                  /\ u.normal = t.normal /\ u.st = t.st
                  /\ u.parent = t.parent

(* The priority computed from a valid policy and priority is in range and  *)
(* real-time exactly for a real-time policy.                               *)
LEMMA NormalPrio ==
    ASSUME NEW policy, NEW rt \in 0 .. MaxRtPrio - 1,
           NEW static \in MaxRtPrio .. MaxPrio
    PROVE  /\ __normal_prio(policy, rt, static) \in Prios
           /\ rt_prio(__normal_prio(policy, rt, static)) <=> policy = "fifo"
BY PrioAssumption DEF __normal_prio, rt_prio, Prios

(* A donor only ever gives a priority in range.                            *)
LEMMA EffectivePrio ==
    ASSUME NEW T \in [Tasks -> Records], NEW donor \in Tasks \cup {None},
           NEW prio \in Prios
    PROVE  __rt_effective_prio(T, donor, prio) \in Prios
BY DEF __rt_effective_prio, Records

(* __setscheduler_class returns one of the three classes.                  *)
LEMMA ClassType ==
    ASSUME NEW policy, NEW prio
    PROVE  __setscheduler_class(policy, prio) \in {"rt", "hvf", "fair"}
BY DEF __setscheduler_class

(* Changing the class and the effective priority keeps what was asked for. *)
LEMMA SwitchedKeeps ==
    ASSUME NEW t \in Records, NEW class \in {"rt", "hvf", "fair"},
           NEW prio \in Prios
    PROVE  Switched(t, class, prio) \in Records
           /\ SameKept(t, Switched(t, class, prio))
<1>1. PICK q : q = ParamsAfter(t, class)
  OBVIOUS
<1>2. q \in {"unset", "default", "user"}
  BY <1>1 DEF ParamsAfter, Records
<1>3. Switched(t, class, prio)
        = [t EXCEPT !.class = class, !.prio = prio, !.pars = q]
  BY <1>1 DEF Switched
<1> QED
  BY <1>2, <1>3 DEF Records, SameKept

(* A task that keeps its policy, priorities and state stays well formed.   *)
LEMMA KeptOK ==
    ASSUME NEW t, NEW u \in Records, TaskOK(t), SameKept(t, u)
    PROVE  TaskOK(u)
BY DEF TaskOK, SameKept, PairOK

(* rt_mutex_setprio touches neither policy nor normal priority.            *)
LEMMA SetprioKeeps ==
    ASSUME NEW T \in [Tasks -> Records], NEW p \in Tasks,
           NEW donor \in Tasks \cup {None}
    PROVE  /\ rt_mutex_setprio(T, p, donor) \in [Tasks -> Records]
           /\ \A q \in Tasks : SameKept(T[q], rt_mutex_setprio(T, p, donor)[q])
<1>1. PICK prio : prio = __rt_effective_prio(T, donor, T[p].normal)
  OBVIOUS
<1>2. prio \in Prios
  BY <1>1, EffectivePrio DEF Records
<1>3. PICK t : t = [T[p] EXCEPT !.top = donor]
  OBVIOUS
<1>4. t \in Records /\ SameKept(T[p], t)
  BY <1>3 DEF Records, SameKept
<1>5. PICK u : u = IF prio = t.prio THEN t
                   ELSE Switched(t, __setscheduler_class(t.policy, prio), prio)
  OBVIOUS
<1>6. u \in Records /\ SameKept(t, u)
  <2>1. CASE prio = t.prio
    BY <2>1, <1>4, <1>5 DEF SameKept
  <2>2. CASE prio # t.prio
    BY <2>2, <1>2, <1>4, <1>5, ClassType, SwitchedKeeps
  <2> QED BY <2>1, <2>2
<1>7. SameKept(T[p], u)
  BY <1>4, <1>6 DEF SameKept
<1>8. rt_mutex_setprio(T, p, donor) = [T EXCEPT ![p] = u]
  BY <1>1, <1>3, <1>5 DEF rt_mutex_setprio
<1>9. \A q \in Tasks : SameKept(T[q], T[q])
  BY DEF SameKept
<1> QED
  BY <1>6, <1>7, <1>8, <1>9

(* What __setscheduler_params stores is valid: the call was checked, and   *)
(* the policy it read is still the task's.                                 *)
LEMMA AppliedOK ==
    ASSUME NEW T \in [Tasks -> Records], NEW r, CallOK(r), r.pc = "apply",
           TaskOK(T[r.p]), ~Stale(r, T[r.p])
    PROVE  /\ TaskOK(Applied(T, r))
           /\ Applied(T, r).st = T[r.p].st
           /\ r.keep => /\ Applied(T, r).policy = T[r.p].policy
                        /\ Applied(T, r).rtprio = T[r.p].rtprio
           /\ ~r.keep => /\ Applied(T, r).policy = r.policy
                         /\ Applied(T, r).rtprio = r.prio
<1>0. /\ r \in Calls /\ r.p \in Tasks /\ r.policy \in Policies
      /\ r.policy = "fifo" <=> r.prio # 0
      /\ r.old = None \/ r.old = r.policy
  BY DEF CallOK
<1>1. PICK t : t = T[r.p]
  OBVIOUS
<1>2. t \in Records /\ TaskOK(t)
  BY <1>0, <1>1
<1>3. PICK prio : prio = __rt_effective_prio(T, t.top,
                            __normal_prio(r.policy, r.prio, r.nice))
  OBVIOUS
<1>4. prio \in Prios
  <2>1. __normal_prio(r.policy, r.prio, r.nice) \in Prios
    BY <1>0, NormalPrio DEF Calls
  <2>2. t.top \in Tasks \cup {None}
    BY <1>2 DEF Records
  <2> QED
    BY <1>3, <2>1, <2>2, EffectivePrio
<1>5. PICK static : static = IF r.policy = "normal" THEN r.nice ELSE t.static
  OBVIOUS
<1>6. static \in MaxRtPrio .. MaxPrio
  BY <1>0, <1>2, <1>5 DEF Calls, Records
<1>7. PICK policy : policy = IF r.old = None THEN r.policy ELSE t.policy
  OBVIOUS
<1>8. policy = r.policy
  BY <1>0, <1>1, <1>7 DEF Stale
<1>9. PICK normal : normal = __normal_prio(policy, r.prio, static)
  OBVIOUS
<1>10. normal \in Prios /\ (rt_prio(normal) <=> policy = "fifo")
  BY <1>0, <1>6, <1>9, NormalPrio DEF Calls
<1>11. PICK set : set = [t EXCEPT !.policy = policy, !.rtprio = r.prio,
                                  !.static = static, !.reset = r.reset,
                                  !.normal = normal]
  OBVIOUS
<1>12. /\ set \in Records
       /\ set.policy = policy /\ set.rtprio = r.prio /\ set.normal = normal
       /\ set.st = t.st /\ set.parent = t.parent
  BY <1>0, <1>2, <1>6, <1>8, <1>10, <1>11 DEF Records, Calls
<1>13. TaskOK(set)
  BY <1>0, <1>2, <1>8, <1>10, <1>12 DEF TaskOK, PairOK
<1>14. CASE r.keep
  <2>1. PICK u : u = [t EXCEPT !.reset = r.reset]
    OBVIOUS
  <2>2. Applied(T, r) = u
    BY <1>1, <1>14, <2>1 DEF Applied
  <2>3. u \in Records /\ SameKept(t, u)
    BY <1>0, <1>2, <2>1 DEF Records, Calls, SameKept
  <2> QED
    BY <1>1, <1>2, <1>14, <2>2, <2>3, KeptOK DEF SameKept
<1>15. CASE ~r.keep
  <2>1. PICK u : u = Switched(set, __setscheduler_class(r.policy, prio), prio)
    OBVIOUS
  <2>2. Applied(T, r) = u
    BY <1>1, <1>3, <1>5, <1>7, <1>9, <1>11, <1>15, <2>1 DEF Applied
  <2>3. u \in Records /\ SameKept(set, u)
    BY <1>4, <1>12, <2>1, ClassType, SwitchedKeeps
  <2> QED
    BY <1>1, <1>8, <1>12, <1>13, <1>15, <2>2, <2>3, KeptOK DEF SameKept
<1> QED
  BY <1>14, <1>15

(* A child reverted to the defaults is well formed.                        *)
LEMMA RevertedOK ==
    ASSUME NEW t, TaskOK(t), NEW normal \in Prios
    PROVE  /\ TaskOK(Reverted(t, normal))
           /\ Reverted(t, normal).st = t.st
           /\ \/ /\ Reverted(t, normal).policy = t.policy
                 /\ Reverted(t, normal).rtprio = t.rtprio
              \/ /\ Reverted(t, normal).policy = "normal"
                 /\ Reverted(t, normal).rtprio = 0
<1>0. t \in Records
  BY DEF TaskOK
<1>1. CASE ~t.reset
  <2>1. PICK u : u = [t EXCEPT !.prio = normal]
    OBVIOUS
  <2>2. u \in Records /\ SameKept(t, u)
    BY <1>0, <2>1 DEF Records, SameKept
  <2>3. Reverted(t, normal) = u
    BY <1>1, <2>1 DEF Reverted
  <2> QED
    BY <2>2, <2>3, KeptOK DEF SameKept
<1>2. CASE t.reset
  <2>1. PICK static, policy, rtprio :
           /\ static = IF t.policy = "fifo" \/ t.static < DefaultPrio
                       THEN DefaultPrio ELSE t.static
           /\ policy = IF t.policy = "fifo" THEN "normal" ELSE t.policy
           /\ rtprio = IF t.policy = "fifo" THEN 0 ELSE t.rtprio
    OBVIOUS
  <2>2. static \in MaxRtPrio .. MaxPrio /\ static \in Prios
    BY <1>0, <2>1, PrioAssumption DEF Records, Prios
  <2>3. /\ policy \in Policies /\ rtprio \in 0 .. MaxRtPrio - 1
        /\ policy # "fifo" /\ rtprio = 0
    BY <1>0, <2>1, PrioAssumption DEF Records, Policies, TaskOK, PairOK
  <2>4. PICK u : u = [t EXCEPT !.policy = policy, !.static = static,
                               !.rtprio = rtprio, !.prio = static,
                               !.normal = static, !.reset = FALSE]
    OBVIOUS
  <2>5. /\ u \in Records /\ u.policy = policy /\ u.rtprio = rtprio
        /\ u.normal = static /\ u.st = t.st /\ u.parent = t.parent
    BY <1>0, <2>2, <2>3, <2>4 DEF Records
  <2>6. Reverted(t, normal) = u
    BY <1>2, <2>1, <2>4 DEF Reverted
  <2>7. ~rt_prio(static)
    BY <2>2, PrioAssumption DEF rt_prio
  <2>8. TaskOK(u)
    BY <2>3, <2>5, <2>7 DEF TaskOK, PairOK
  <2>9. (policy = t.policy /\ rtprio = t.rtprio) \/ policy = "normal"
    BY <2>1
  <2> QED
    BY <2>3, <2>5, <2>6, <2>8, <2>9
<1> QED
  BY <1>1, <1>2

-----------------------------------------------------------------------------
(* The inductive invariant.                                                *)

(* Every task keeps its policy, priorities and state.                      *)
Kept(T, U) == /\ U \in [Tasks -> Records]
              /\ \A q \in Tasks : SameKept(T[q], U[q])

LEMMA KeptTable ==
    ASSUME NEW T, NEW U, \A q \in Tasks : TaskOK(T[q]), Kept(T, U)
    PROVE  \A q \in Tasks : TaskOK(U[q])
BY KeptOK DEF Kept

LEMMA KeptTwice ==
    ASSUME NEW T, NEW U, NEW V, Kept(T, U), Kept(U, V)
    PROVE  Kept(T, V)
BY DEF Kept, SameKept

LEMMA SetprioKept ==
    ASSUME NEW T \in [Tasks -> Records], NEW p \in Tasks,
           NEW donor \in Tasks \cup {None}
    PROVE  Kept(T, rt_mutex_setprio(T, p, donor))
BY SetprioKeeps DEF Kept

LEMMA TopWaiterType ==
    ASSUME NEW W, NEW P, NEW a
    PROVE  TopWaiters(W, P, a) \subseteq Tasks \cup {None}
BY DEF TopWaiters, Waiters

LEMMA WaiterPrioType ==
    ASSUME NEW prio \in Prios
    PROVE  __waiter_prio(prio) \in Prios
BY PrioAssumption DEF __waiter_prio, Prios

(* The inductive invariant is Frame, Table and Requests: every task is     *)
(* well formed, and what a setter has checked stays true of its call; if   *)
(* it read the task's policy it remembers which one.                       *)
Frame == /\ wait \in [Tasks -> Tasks \cup {None}]
         /\ wprio \in [Tasks -> Prios]
         /\ walks \subseteq Tasks
         /\ oops \in {"none", "prio_changed", "yield_task"}
         /\ left \in 0 .. MaxCalls

Table == task \in [Tasks -> Records] /\ \A p \in Tasks : TaskOK(task[p])

Requests == call \in [Callers -> Calls] /\ \A c \in Callers : CallOK(call[c])

(* The mutex steps change effective priorities only.                       *)
LEMMA MutexSteps ==
    ASSUME Frame, Table,
           \/ \E b, a \in Tasks : Block(b, a)
           \/ \E p \in Tasks : Walk(p) \/ Unlock(p)
    PROVE  Kept(task, task') /\ Frame' /\ call' = call
<1>1. \A p \in Tasks : task[p].prio \in Prios
  BY DEF Table, Records
<1>2. Kept(task, task)
  BY DEF Kept, SameKept, Table
<1>3. ASSUME NEW b \in Tasks, NEW a \in Tasks, Block(b, a)
      PROVE  Kept(task, task') /\ Frame' /\ call' = call
  <2>1. PICK donor \in TopWaiters(wait', wprio', a) : Donate(task, a, donor)
    BY <1>3 DEF Block
  <2>2. donor \in Tasks \cup {None}
    BY <2>1, TopWaiterType
  <2>3. Kept(task, task')
    BY <2>1, <2>2, SetprioKept DEF Donate, Table
  <2>4. oops' \in {"none", "prio_changed", "yield_task"}
    BY <2>1 DEF Donate, Frame
  <2>5. wait' \in [Tasks -> Tasks \cup {None}]
    BY <1>3 DEF Block, Frame
  <2>6. wprio' \in [Tasks -> Prios]
    BY <1>3, <1>1, WaiterPrioType DEF Block, Frame
  <2>7. walks' \subseteq Tasks /\ left' \in 0 .. MaxCalls /\ call' = call
    BY <1>3, SlotAssumption DEF Block, Frame
  <2> QED BY <2>3, <2>4, <2>5, <2>6, <2>7 DEF Frame
<1>4. ASSUME NEW p \in Tasks, Walk(p)
      PROVE  Kept(task, task') /\ Frame' /\ call' = call
  <2>1. CASE wait[p] = None \/ wprio[p] = __waiter_prio(task[p].prio)
    BY <1>2, <1>4, <2>1 DEF Walk, Frame
  <2>2. CASE ~(wait[p] = None \/ wprio[p] = __waiter_prio(task[p].prio))
    <3>1. PICK donor \in TopWaiters(wait, wprio', wait[p]) :
             Donate(task, wait[p], donor)
      BY <1>4, <2>2 DEF Walk
    <3>2. donor \in Tasks \cup {None} /\ wait[p] \in Tasks
      BY <2>2, <3>1, TopWaiterType DEF Frame
    <3>3. Kept(task, task')
      BY <3>1, <3>2, SetprioKept DEF Donate, Table
    <3>4. oops' \in {"none", "prio_changed", "yield_task"}
      BY <3>1 DEF Donate, Frame
    <3>5. wprio' \in [Tasks -> Prios]
      BY <1>4, <2>2, <1>1, WaiterPrioType DEF Walk, Frame
    <3>6. walks' \subseteq Tasks /\ wait' = wait /\ left' = left /\ call' = call
      BY <1>4, <2>2, <3>2 DEF Walk, Frame
    <3> QED BY <3>3, <3>4, <3>5, <3>6 DEF Frame
  <2> QED BY <2>1, <2>2
<1>5. ASSUME NEW a \in Tasks, Unlock(a)
      PROVE  Kept(task, task') /\ Frame' /\ call' = call
  <2>1. PICK b \in TopWaiters(wait, wprio, a) :
          /\ wait' = [q \in Tasks |-> CASE q = b           -> None
                                        [] q # b /\ wait[q] = a -> b
                                        [] OTHER            -> wait[q]]
          /\ \E donor \in TopWaiters(wait', wprio, b) :
                LET T == rt_mutex_setprio(task, a, None)
                IN /\ task' = rt_mutex_setprio(T, b, donor)
                   /\ oops' = IF \/ NullInSetprio(task, a, None)
                                 \/ NullInSetprio(T, b, donor)
                              THEN "prio_changed" ELSE oops
    BY <1>5 DEF Unlock
  <2>2. b \in Tasks
    BY <1>5, <2>1 DEF Unlock, TopWaiters, Waiters
  <2>3. PICK donor \in TopWaiters(wait', wprio, b) :
           /\ task' = rt_mutex_setprio(rt_mutex_setprio(task, a, None), b, donor)
           /\ oops' \in {"prio_changed", oops}
    BY <2>1
  <2>4. donor \in Tasks \cup {None}
    BY TopWaiterType
  <2>5. PICK T : T = rt_mutex_setprio(task, a, None)
    OBVIOUS
  <2>6. Kept(task, T)
    BY <2>5, SetprioKept DEF Table
  <2>7. Kept(T, task')
    BY <2>2, <2>3, <2>4, <2>5, <2>6, SetprioKept DEF Kept
  <2>8. wait' \in [Tasks -> Tasks \cup {None}]
    BY <2>1, <2>2 DEF Frame
  <2> QED
    BY <1>5, <2>3, <2>6, <2>7, <2>8, KeptTwice DEF Unlock, Frame
<1> QED
  BY <1>3, <1>4, <1>5

(* The steps that change no task and no call but their own, and fork.      *)
LEMMA TaskSteps ==
    ASSUME Frame, Table, NEW p \in Tasks,
           \/ \E n \in NicePrios : set_user_nice(p, n)
           \/ do_sched_yield(p) \/ set_scheduling_params(p)
    PROVE  /\ Frame' /\ Table' /\ call' = call
           /\ \A q \in Tasks : /\ task'[q].policy = task[q].policy
                               /\ task'[q].rtprio = task[q].rtprio
<1>0. task \in [Tasks -> Records] /\ task[p] \in Records /\ TaskOK(task[p])
  BY DEF Table
<1>1. ASSUME NEW n \in NicePrios, set_user_nice(p, n)
      PROVE  /\ Frame' /\ Table' /\ call' = call
             /\ \A q \in Tasks : /\ task'[q].policy = task[q].policy
                                 /\ task'[q].rtprio = task[q].rtprio
  <2>1. PICK t, normal : /\ t = task[p]
                         /\ normal = __normal_prio(t.policy, t.rtprio, n)
    OBVIOUS
  <2>2. n \in MaxRtPrio .. MaxPrio
    BY NiceAssumption
  <2>3. normal \in Prios /\ (rt_prio(normal) <=> t.policy = "fifo")
    BY <1>0, <2>1, <2>2, NormalPrio DEF Records
  <2>4. effective_prio(t, normal) \in Prios
    BY <1>0, <2>1, <2>3 DEF effective_prio, Records
  <2>5. PICK e : e = effective_prio(t, normal)
    OBVIOUS
  <2>6. PICK u : u = IF t.policy = "fifo" THEN [t EXCEPT !.static = n]
                     ELSE [t EXCEPT !.static = n, !.normal = normal,
                                    !.prio = e]
    OBVIOUS
  <2>7. /\ u \in Records /\ u.policy = t.policy /\ u.rtprio = t.rtprio
        /\ u.st = t.st /\ u.parent = t.parent
        /\ u.normal \in {t.normal, normal}
    <3>1. CASE t.policy = "fifo"
      BY <1>0, <2>1, <2>2, <2>6, <3>1 DEF Records
    <3>2. CASE t.policy # "fifo"
      BY <1>0, <2>1, <2>2, <2>3, <2>4, <2>5, <2>6, <3>2 DEF Records
    <3> QED BY <3>1, <3>2
  <2>8. TaskOK(u)
    BY <1>0, <2>1, <2>3, <2>7 DEF TaskOK, PairOK
  <2>9. task' = [task EXCEPT ![p] = u]
    BY <1>1, <2>1, <2>5, <2>6 DEF set_user_nice
  <2>10. Table'
    BY <1>0, <2>7, <2>8, <2>9 DEF Table
  <2>11. Frame' /\ call' = call
    <3>1. /\ wait' = wait /\ wprio' = wprio /\ walks' = walks /\ call' = call
          /\ left > 0 /\ left' = left - 1
          /\ oops' \in {"prio_changed", oops}
      BY <1>1, Zenon DEF set_user_nice
    <3> QED BY <3>1, SlotAssumption DEF Frame
  <2> QED BY <1>0, <2>1, <2>7, <2>9, <2>10, <2>11
<1>2. ASSUME do_sched_yield(p)
      PROVE  Frame' /\ call' = call /\ task' = task
  BY <1>2, SlotAssumption DEF do_sched_yield, Frame
<1>3. ASSUME set_scheduling_params(p)
      PROVE  Frame' /\ call' = call /\ Kept(task, task')
  <2>1. Frame' /\ call' = call
    BY <1>3, SlotAssumption DEF set_scheduling_params, Frame
  <2>2. PICK u : u = [task[p] EXCEPT !.pars = "user"]
    OBVIOUS
  <2>3. u \in Records /\ SameKept(task[p], u)
    BY <1>0, <2>2 DEF Records, SameKept
  <2>4. task' = [task EXCEPT ![p] = u]
    BY <1>3, <2>2 DEF set_scheduling_params
  <2>5. \A q \in Tasks : SameKept(task[q], task[q])
    BY DEF SameKept
  <2> QED BY <1>0, <2>1, <2>3, <2>4, <2>5 DEF Kept
<1>4. do_sched_yield(p) => Table'
  BY <1>2 DEF Table
<1>5. set_scheduling_params(p) => Table'
  BY <1>3, KeptTable DEF Table, Kept
<1> QED
  BY <1>1, <1>2, <1>3, <1>4, <1>5 DEF Kept, SameKept

(* fork makes a child with its parent's policy or with the defaults.       *)
LEMMA ForkSteps ==
    ASSUME Frame, Table, NEW q \in Tasks,
           (\E p \in Tasks : dup_task_struct(p, q)) \/ sched_fork(q)
    PROVE  /\ Frame' /\ Table' /\ call' = call
           /\ \E u : /\ task' = [task EXCEPT ![q] = u]
                     /\ \/ \E p \in Tasks : /\ u.policy = task[p].policy
                                             /\ u.rtprio = task[p].rtprio
                        \/ u.policy = "normal" /\ u.rtprio = 0
<1>0. task \in [Tasks -> Records] /\ \A p \in Tasks : TaskOK(task[p])
  BY DEF Table
<1>1. ASSUME NEW p \in Tasks, dup_task_struct(p, q)
      PROVE  /\ Frame' /\ Table' /\ call' = call
             /\ \E u : /\ task' = [task EXCEPT ![q] = u]
                       /\ u.policy = task[p].policy
                       /\ u.rtprio = task[p].rtprio
  <2>1. Frame' /\ call' = call
    <3>1. /\ wait' = wait /\ wprio' = wprio /\ walks' = walks /\ call' = call
          /\ left > 0 /\ left' = left - 1 /\ oops' = oops
      BY <1>1, Zenon DEF dup_task_struct
    <3> QED BY <3>1, SlotAssumption DEF Frame
  <2>2. PICK u : u = [task[p] EXCEPT !.st = "dup", !.parent = p, !.top = None]
    OBVIOUS
  <2>3. /\ u \in Records /\ u.policy = task[p].policy
        /\ u.rtprio = task[p].rtprio /\ u.normal = task[p].normal
        /\ u.parent = p
    BY <1>0, <2>2 DEF Records
  <2>4. TaskOK(u)
    BY <1>0, <2>3, NoneAssumption DEF TaskOK, PairOK
  <2>5. task' = [task EXCEPT ![q] = u]
    BY <1>1, <2>2 DEF dup_task_struct
  <2>6. Table'
    BY <1>0, <2>3, <2>4, <2>5 DEF Table
  <2> QED BY <2>1, <2>3, <2>5, <2>6
<1>2. ASSUME sched_fork(q)
      PROVE  /\ Frame' /\ Table' /\ call' = call
             /\ \E u : /\ task' = [task EXCEPT ![q] = u]
                       /\ \/ /\ u.policy = task[q].policy
                             /\ u.rtprio = task[q].rtprio
                          \/ u.policy = "normal" /\ u.rtprio = 0
  <2>1. Frame' /\ call' = call
    BY <1>2 DEF sched_fork, Frame
  <2>2. task[q].parent \in Tasks
    BY <1>0, <1>2 DEF sched_fork, TaskOK, Records
  <2>3. PICK n : n = task[task[q].parent].normal
    OBVIOUS
  <2>4. n \in Prios
    BY <1>0, <2>2, <2>3 DEF Records
  <2>5. PICK t : t = Reverted(task[q], n)
    OBVIOUS
  <2>6. /\ TaskOK(t)
        /\ \/ t.policy = task[q].policy /\ t.rtprio = task[q].rtprio
           \/ t.policy = "normal" /\ t.rtprio = 0
    BY <1>0, <2>4, <2>5, RevertedOK
  <2>7. PICK class : class = IF rt_prio(t.prio) THEN "rt" ELSE "fair"
    OBVIOUS
  <2>8. PICK u : u = [t EXCEPT !.class = class, !.st = "alive",
                               !.pars = "unset"]
    OBVIOUS
  <2>9. /\ u \in Records /\ u.policy = t.policy /\ u.rtprio = t.rtprio
        /\ u.normal = t.normal /\ u.st = "alive"
    BY <2>6, <2>7, <2>8 DEF Records, TaskOK
  <2>10. TaskOK(u)
    BY <2>6, <2>9 DEF TaskOK, PairOK
  <2>11. task' = [task EXCEPT ![q] = u]
    BY <1>2, <2>3, <2>5, <2>7, <2>8 DEF sched_fork
  <2>12. Table'
    BY <1>0, <2>9, <2>10, <2>11 DEF Table
  <2> QED BY <2>1, <2>6, <2>9, <2>11, <2>12
<1> QED
  BY <1>1, <1>2

(* The setters' steps: asking, checking, and the step under the locks.     *)
LEMMA RequestCases ==
    ASSUME Table, NEW c \in Callers, NEW p \in Tasks, NEW a \in Attrs,
           _sched_setscheduler(c, p, a) \/ sched_setattr(c, p, a)
    PROVE  \E prio \in 0 .. MaxRtPrio - 1, nice \in MaxRtPrio .. MaxPrio :
              Request(c, p, a, prio, nice)
<1>1. a \in [policy : Policies \cup {Same}, prio : 0 .. MaxRtPrio - 1,
             nice : NicePrios \cup {Legacy}, reset : BOOLEAN, keep : BOOLEAN]
  BY AttrAssumption, Zenon
<1>2. a.prio \in 0 .. MaxRtPrio - 1 /\ a.nice \in NicePrios \cup {Legacy}
  BY <1>1
<1>3. /\ task[p].rtprio \in 0 .. MaxRtPrio - 1
      /\ task[p].static \in MaxRtPrio .. MaxPrio
  BY DEF Table, Records
<1>4. CASE _sched_setscheduler(c, p, a)
  BY <1>2, <1>3, <1>4, Zenon DEF _sched_setscheduler
<1>5. CASE sched_setattr(c, p, a)
  <2>1. PICK prio, nice :
          /\ prio = IF a.keep /\ task[p].policy = "fifo" THEN task[p].rtprio
                    ELSE a.prio
          /\ nice = IF a.keep /\ ~(task[p].policy = "fifo")
                    THEN task[p].static ELSE a.nice
    OBVIOUS
  <2>2. a.nice # Legacy /\ Request(c, p, a, prio, nice)
    BY <1>5, <2>1, Zenon DEF sched_setattr
  <2>3. a.nice \in MaxRtPrio .. MaxPrio
    BY <1>2, <2>2, NiceAssumption
  <2>4. prio \in {task[p].rtprio, a.prio} /\ nice \in {task[p].static, a.nice}
    BY <2>1
  <2>5. prio \in 0 .. MaxRtPrio - 1 /\ nice \in MaxRtPrio .. MaxPrio
    BY <1>2, <1>3, <2>3, <2>4, Zenon
  <2> QED BY <2>2, <2>5
<1> QED BY <1>4, <1>5

LEMMA RequestStep ==
    ASSUME Frame, Table, Requests,
           NEW c \in Callers, NEW p \in Tasks, NEW a \in Attrs,
           _sched_setscheduler(c, p, a) \/ sched_setattr(c, p, a)
    PROVE  /\ Frame' /\ Requests' /\ task' = task
           /\ call[c].pc = "idle"
           /\ \E r : /\ call' = [call EXCEPT ![c] = r]
                     /\ r.pc = "check" /\ r.old = None /\ r.p = p
                     /\ r.policy \in Policies \cup {Same}
                     /\ r.prio \in 0 .. MaxRtPrio - 1 /\ r.keep \in BOOLEAN
<1>0. PICK prio \in 0 .. MaxRtPrio - 1, n \in MaxRtPrio .. MaxPrio :
         Request(c, p, a, prio, n)
  BY RequestCases
<1>1. /\ wait' = wait /\ wprio' = wprio /\ walks' = walks /\ oops' = oops
      /\ left > 0 /\ left' = left - 1 /\ task' = task /\ call[c].pc = "idle"
  BY <1>0, Zenon DEF Request
<1>2. Frame'
  BY <1>1, SlotAssumption DEF Frame
<1>4. a \in [policy : Policies \cup {Same}, prio : 0 .. MaxRtPrio - 1,
             nice : NicePrios \cup {Legacy}, reset : BOOLEAN, keep : BOOLEAN]
  BY AttrAssumption, Zenon
<1>5. /\ a.policy \in Policies \cup {Same} /\ a.reset \in BOOLEAN
      /\ a.keep \in BOOLEAN
  BY <1>4
<1>6. PICK r : r = [pc |-> "check", p |-> p, policy |-> a.policy,
                    old |-> None, prio |-> prio, nice |-> n,
                    reset |-> a.reset, keep |-> a.keep]
  OBVIOUS
<1>7. call' = [call EXCEPT ![c] = r]
  BY <1>0, <1>6 DEF Request
<1>8. /\ r \in Calls /\ r.pc = "check" /\ r.old = None /\ r.p = p
      /\ r.policy = a.policy /\ r.prio = prio /\ r.keep = a.keep
  BY <1>5, <1>6 DEF Calls
<1>9. CallOK(r)
  BY <1>8 DEF CallOK
<1>10. Requests'
  BY <1>7, <1>8, <1>9 DEF Requests
<1> QED
  BY <1>1, <1>2, <1>5, <1>7, <1>8, <1>10

LEMMA IdleOK == Idle \in Calls /\ CallOK(Idle)
BY PrioAssumption DEF Idle, Calls, CallOK

(* A check that fails ends the call; one that passes is remembered.        *)
LEMMA CheckStep ==
    ASSUME Frame, Table, Requests, NEW c \in Callers, Check(c)
    PROVE  /\ Frame' /\ Requests' /\ task' = task
           /\ call[c].pc = "check" /\ call[c].old = None
           /\ \E policy \in Policies :
                 /\ call[c].policy = Same => policy = task[call[c].p].policy
                 /\ call[c].policy # Same => policy = call[c].policy
                 /\ \/ /\ (policy = "fifo") # (call[c].prio # 0)
                       /\ call' = [call EXCEPT ![c] = Idle]
                    \/ \E r : /\ call' = [call EXCEPT ![c] = r]
                              /\ r.pc = "apply" /\ r.p = call[c].p
                              /\ r.policy = policy
                              /\ r.prio = call[c].prio
                              /\ r.keep = call[c].keep
                              /\ call[c].policy = Same => r.old = policy
                              /\ call[c].policy # Same => r.old = None
<1>1. /\ wait' = wait /\ wprio' = wprio /\ walks' = walks /\ oops' = oops
      /\ left' = left /\ task' = task /\ call[c].pc = "check"
  BY Zenon DEF Check
<1>2. Frame'
  BY <1>1 DEF Frame
<1>3. PICK s : s = call[c]
  OBVIOUS
<1>4. s \in Calls /\ s.p \in Tasks /\ s.old = None /\ s.pc = "check"
  BY <1>1, <1>3 DEF Requests, CallOK
<1>5. PICK policy, reset, old :
        /\ policy = IF s.policy = Same THEN task[s.p].policy ELSE s.policy
        /\ reset = IF s.policy = Same THEN task[s.p].reset ELSE s.reset
        /\ old = IF s.policy = Same THEN task[s.p].policy ELSE s.old
  OBVIOUS
<1>6. task[s.p] \in Records
  BY <1>4 DEF Table
<1>7. /\ policy \in Policies /\ reset \in BOOLEAN
      /\ old = None \/ old = policy
      /\ s.policy = Same => policy = task[s.p].policy /\ old = policy
      /\ s.policy # Same => policy = s.policy /\ old = None
  BY <1>4, <1>5, <1>6 DEF Calls, Records
<1>8. PICK r : r = [s EXCEPT !.pc = "apply", !.policy = policy,
                             !.reset = reset, !.old = old]
  OBVIOUS
<1>9. /\ r \in Calls /\ r.pc = "apply" /\ r.p = s.p /\ r.policy = policy
      /\ r.prio = s.prio /\ r.keep = s.keep /\ r.old = old
  BY <1>4, <1>7, <1>8 DEF Calls
<1>10. call' = [call EXCEPT ![c] =
                 IF (policy = "fifo") # (s.prio # 0) THEN Idle ELSE r]
  BY <1>3, <1>5, <1>8 DEF Check
<1>11. CASE (policy = "fifo") # (s.prio # 0)
  <2>1. call' = [call EXCEPT ![c] = Idle]
    BY <1>10, <1>11
  <2>2. Requests'
    BY <2>1, IdleOK DEF Requests
  <2> QED BY <1>1, <1>2, <1>3, <1>4, <1>7, <1>11, <2>1, <2>2
<1>12. CASE ~((policy = "fifo") # (s.prio # 0))
  <2>1. call' = [call EXCEPT ![c] = r]
    BY <1>10, <1>12
  <2>2. CallOK(r)
    BY <1>4, <1>7, <1>9, <1>12 DEF CallOK
  <2>3. Requests'
    BY <1>9, <2>1, <2>2 DEF Requests
  <2> QED BY <1>1, <1>2, <1>3, <1>4, <1>7, <1>9, <2>1, <2>3
<1> QED
  BY <1>11, <1>12

(* The outcomes of the step under the locks: nothing changes, the call     *)
(* starts again, or a valid pair is stored.                                *)
Unchanged(r) ==
    /\ \A q \in Tasks : /\ task'[q].policy = task[q].policy
                        /\ task'[q].rtprio = task[q].rtprio
    /\ r.policy = task[r.p].policy /\ r.prio = task[r.p].rtprio

Stored(r) ==
    \E u : /\ task' = [task EXCEPT ![r.p] = u]
           /\ r.keep => /\ u.policy = task[r.p].policy
                        /\ u.rtprio = task[r.p].rtprio
           /\ ~r.keep => u.policy = r.policy /\ u.rtprio = r.prio
           /\ r.old = None \/ r.policy = task[r.p].policy

Restarted(c) ==
    \E s : /\ call' = [call EXCEPT ![c] = s]
           /\ s.pc = "check" /\ s.old = None /\ s.policy = Same
           /\ s.p = call[c].p /\ s.prio = call[c].prio
           /\ s.keep = call[c].keep

LEMMA ApplyStep ==
    ASSUME Frame, Table, Requests, NEW c \in Callers, __sched_setscheduler(c)
    PROVE  /\ Frame' /\ Table' /\ Requests'
           /\ call[c].pc = "apply"
           /\ \/ /\ Unchanged(call[c]) \/ Stored(call[c])
                 /\ call' = [call EXCEPT ![c] = Idle]
              \/ /\ Restarted(c) /\ call[c].old # None
                 /\ task' = task
<1>0. task \in [Tasks -> Records] /\ \A p \in Tasks : TaskOK(task[p])
  BY DEF Table
<1>1. PICK r, t : r = call[c] /\ t = task[r.p]
  OBVIOUS
<1>2. /\ CallOK(r) /\ r \in Calls /\ r.p \in Tasks /\ r.pc = "apply"
      /\ r.policy = "fifo" <=> r.prio # 0
      /\ r.old = None \/ r.old = r.policy
  BY <1>1 DEF Requests, CallOK, __sched_setscheduler
<1>3. t \in Records /\ TaskOK(t)
  BY <1>0, <1>1, <1>2
<1>4. wait' = wait /\ wprio' = wprio /\ left' = left
  BY Zenon DEF __sched_setscheduler
<1>5. \/ /\ OnlyReset(r, t)
         /\ task' = [task EXCEPT ![r.p].reset = r.reset]
         /\ call' = [call EXCEPT ![c] = Idle]
         /\ walks' = walks /\ oops' = oops
      \/ /\ Stale(r, t)
         /\ call' = [call EXCEPT ![c] = [r EXCEPT !.pc = "check",
                                          !.policy = Same, !.old = None]]
         /\ task' = task /\ walks' = walks /\ oops' = oops
      \/ /\ ~Stale(r, t)
         /\ task' = [task EXCEPT ![r.p] = Applied(task, r)]
         /\ oops' \in {"prio_changed", oops}
         /\ walks' = walks \cup {r.p}
         /\ call' = [call EXCEPT ![c] = Idle]
  BY <1>1, Zenon DEF __sched_setscheduler
<1>6. Frame'
  BY <1>2, <1>4, <1>5 DEF Frame
<1>7. call' = [call EXCEPT ![c] = Idle] => Requests'
  BY IdleOK DEF Requests
<1>8. CASE /\ OnlyReset(r, t)
           /\ task' = [task EXCEPT ![r.p].reset = r.reset]
           /\ call' = [call EXCEPT ![c] = Idle]
  <2>1. PICK u : u = [t EXCEPT !.reset = r.reset]
    OBVIOUS
  <2>2. u \in Records /\ SameKept(t, u)
    BY <1>2, <1>3, <2>1 DEF Records, Calls, SameKept
  <2>3. task' = [task EXCEPT ![r.p] = u]
    BY <1>1, <1>8, <2>1
  <2>4. TaskOK(u)
    BY <1>3, <2>2, KeptOK
  <2>5. Table'
    BY <1>0, <1>2, <2>2, <2>3, <2>4 DEF Table
  <2>6. r.policy = t.policy /\ r.prio = t.rtprio
    BY <1>2, <1>3, <1>8 DEF OnlyReset, TaskOK, PairOK
  <2>7. Unchanged(r)
    BY <1>0, <1>1, <1>2, <2>2, <2>3, <2>6 DEF Unchanged, SameKept
  <2> QED BY <1>1, <1>2, <1>6, <1>7, <1>8, <2>5, <2>7
<1>9. CASE /\ Stale(r, t)
           /\ call' = [call EXCEPT ![c] = [r EXCEPT !.pc = "check",
                                           !.policy = Same, !.old = None]]
           /\ task' = task
  <2>1. PICK s : s = [r EXCEPT !.pc = "check", !.policy = Same, !.old = None]
    OBVIOUS
  <2>2. /\ s \in Calls /\ s.pc = "check" /\ s.policy = Same /\ s.old = None
        /\ s.p = r.p /\ s.prio = r.prio /\ s.keep = r.keep
    BY <1>2, <2>1 DEF Calls
  <2>3. CallOK(s)
    BY <1>2, <2>2 DEF CallOK
  <2>4. call' = [call EXCEPT ![c] = s]
    BY <1>9, <2>1
  <2>5. Requests'
    BY <2>2, <2>3, <2>4 DEF Requests
  <2>6. r.old # None
    BY <1>9 DEF Stale
  <2>7. Restarted(c)
    BY <1>1, <2>2, <2>4 DEF Restarted
  <2> QED BY <1>1, <1>2, <1>6, <1>9, <2>5, <2>6, <2>7 DEF Table
<1>10. CASE /\ ~Stale(r, t)
            /\ task' = [task EXCEPT ![r.p] = Applied(task, r)]
            /\ call' = [call EXCEPT ![c] = Idle]
  <2>1. PICK u : u = Applied(task, r)
    OBVIOUS
  <2>2. /\ TaskOK(u)
        /\ r.keep => u.policy = t.policy /\ u.rtprio = t.rtprio
        /\ ~r.keep => u.policy = r.policy /\ u.rtprio = r.prio
    BY <1>0, <1>1, <1>2, <1>3, <1>10, <2>1, AppliedOK
  <2>3. Table'
    BY <1>0, <1>2, <1>10, <2>1, <2>2 DEF Table, TaskOK
  <2>4. r.old = None \/ r.policy = t.policy
    BY <1>2, <1>10 DEF Stale
  <2>5. Stored(r)
    BY <1>1, <1>10, <2>1, <2>2, <2>4 DEF Stored
  <2> QED BY <1>1, <1>2, <1>6, <1>7, <1>10, <2>3, <2>5
<1> QED
  BY <1>5, <1>8, <1>9, <1>10

LEMMA InitIInv == Init => Frame /\ Table /\ Requests
<1> SUFFICES ASSUME Init PROVE Frame /\ Table /\ Requests
  OBVIOUS
<1>1. Frame
  BY PrioAssumption, SlotAssumption DEF Init, Frame, Prios
<1>2. \A p \in Tasks : NewTask(p) \in Records
  BY PrioAssumption DEF NewTask, Records, Policies, Prios
<1>3. \A p \in Tasks : TaskOK(NewTask(p))
  <2> SUFFICES ASSUME NEW p \in Tasks PROVE TaskOK(NewTask(p))
    OBVIOUS
  <2>1. /\ NewTask(p).policy = "normal" /\ NewTask(p).rtprio = 0
        /\ NewTask(p).normal = DefaultPrio /\ NewTask(p).st # "dup"
    BY DEF NewTask
  <2> QED BY <1>2, <2>1, PrioAssumption DEF TaskOK, PairOK, rt_prio
<1>4. Table
  BY <1>2, <1>3 DEF Init, Table
<1>5. Requests
  BY IdleOK DEF Init, Requests
<1> QED BY <1>1, <1>4, <1>5

LEMMA NextIInv ==
    ASSUME Frame, Table, Requests, [Next]_vars
    PROVE  Frame' /\ Table' /\ Requests'
<1>1. Kept(task, task') => Table'
  BY KeptTable DEF Table, Kept
<1>2. call' = call => Requests'
  BY DEF Requests
<1>3. CASE \/ \E b, a \in Tasks : Block(b, a)
           \/ \E p \in Tasks : Walk(p) \/ Unlock(p)
  BY <1>1, <1>2, <1>3, MutexSteps
<1>4. CASE \E p \in Tasks : \/ \E n \in NicePrios : set_user_nice(p, n)
                            \/ do_sched_yield(p) \/ set_scheduling_params(p)
  BY <1>2, <1>4, TaskSteps
<1>5. CASE \E q \in Tasks : \/ \E p \in Tasks : dup_task_struct(p, q)
                            \/ sched_fork(q)
  BY <1>2, <1>5, ForkSteps
<1>6. CASE \E c \in Callers, p \in Tasks, a \in Attrs :
              _sched_setscheduler(c, p, a) \/ sched_setattr(c, p, a)
  BY <1>6, RequestStep DEF Table
<1>7. CASE \E c \in Callers : Check(c)
  BY <1>7, CheckStep DEF Table
<1>8. CASE \E c \in Callers : __sched_setscheduler(c)
  BY <1>8, ApplyStep
<1>9. CASE UNCHANGED vars
  BY <1>9 DEF vars, Frame, Table, Requests
<1> QED
  BY <1>3, <1>4, <1>5, <1>6, <1>7, <1>8, <1>9 DEF Next

LEMMA Invariance == Spec => [](Frame /\ Table /\ Requests)
<1>1. Init => Frame /\ Table /\ Requests
  BY InitIInv
<1>2. Frame /\ Table /\ Requests /\ [Next]_vars
        => (Frame /\ Table /\ Requests)'
  BY NextIInv
<1> QED BY <1>1, <1>2, PTL DEF Spec

(* Types: priorities stay in the range of their policy, for any number of  *)
(* levels, whatever boosts, setters, nice calls and forks happen.          *)
THEOREM PolicyTypes == Spec => []TypeOK
<1>1. Frame /\ Table /\ Requests => TypeOK
  BY DEF Frame, Table, Requests, TypeOK, TaskOK
<1> QED BY <1>1, Invariance, PTL

(* __sched_setscheduler keeps policy and real-time priority in agreement   *)
(* although the check precedes the lock.                                   *)
THEOREM PolicyRtParams == Spec => []RtParams
<1>1. Table => RtParams
  BY DEF Table, RtParams, TaskOK, PairOK
<1> QED BY <1>1, Invariance, PTL

-----------------------------------------------------------------------------
(* The refinement of TaskPolicy.                                           *)

Pol == [p \in Tasks |-> <<task[p].policy, task[p].rtprio>>]
Req == [c \in Callers |-> Asked(call[c])]

(* The same pairs and the same calls are a stuttering step.                *)
LEMMA SamePol ==
    ASSUME \A q \in Tasks : /\ task'[q].policy = task[q].policy
                            /\ task'[q].rtprio = task[q].rtprio
    PROVE  Pol' = Pol
BY DEF Pol

(* What a call under way has asked for is never mistaken for "nothing".    *)
LEMMA AskedSome ==
    ASSUME NEW r, CallOK(r), r.pc # "idle"
    PROVE  /\ Asked(r) # None
           /\ Asked(r).p = r.p /\ Asked(r).prio = r.prio
           /\ Asked(r).keep = r.keep
           /\ r.old = None => Asked(r).policy = r.policy
           /\ r.old # None => Asked(r).policy = Same
<1>1. PICK y : y = IF r.old = None THEN r.policy ELSE Same
  OBVIOUS
<1>2. Asked(r) = [p |-> r.p, policy |-> y, prio |-> r.prio, keep |-> r.keep]
  BY <1>1 DEF Asked
<1>3. /\ r.p \in Tasks /\ y \in Policies \cup {Same}
      /\ r.prio \in 0 .. MaxRtPrio - 1 /\ r.keep \in BOOLEAN
  BY <1>1 DEF CallOK, Calls
<1>4. Asked(r) \in [p : Tasks, policy : Policies \cup {Same},
                    prio : 0 .. MaxRtPrio - 1, keep : BOOLEAN]
  BY <1>2, <1>3
<1>5. Asked(r) # None
  BY <1>4, NoneAssumption, Zenon
<1> QED BY <1>1, <1>2, <1>5

LEMMA AskedIdle == Asked(Idle) = None
BY DEF Asked, Idle

(* A request becomes an Ask.                                               *)
LEMMA RefineRequest ==
    ASSUME Frame, Table, Requests,
           NEW c \in Callers, NEW p \in Tasks, NEW a \in Attrs,
           _sched_setscheduler(c, p, a) \/ sched_setattr(c, p, a)
    PROVE  Abs!Ask(c)
<1>1. PICK r : /\ call' = [call EXCEPT ![c] = r]
               /\ r.pc = "check" /\ r.old = None /\ r.p = p
               /\ r.policy \in Policies \cup {Same}
               /\ r.prio \in 0 .. MaxRtPrio - 1 /\ r.keep \in BOOLEAN
  BY RequestStep
<1>2. task' = task /\ call[c].pc = "idle" /\ call \in [Callers -> Calls]
  BY RequestStep DEF Requests
<1>3. Pol' = Pol
  BY <1>2 DEF Pol
<1>4. Req[c] = None
  BY <1>2 DEF Req, Asked
<1>5. Asked(r) = [p |-> r.p, policy |-> r.policy, prio |-> r.prio,
                  keep |-> r.keep]
  BY <1>1 DEF Asked
<1>6. Req' = [Req EXCEPT ![c] = Asked(r)]
  BY <1>1, <1>2 DEF Req
<1>7. \E q \in Tasks, policy \in Policies \cup {Same},
        prio \in 0 .. MaxRtPrio - 1, keep \in BOOLEAN :
        Req' = [Req EXCEPT ![c] = [p |-> q, policy |-> policy,
                                   prio |-> prio, keep |-> keep]]
  BY <1>1, <1>5, <1>6
<1> QED BY <1>3, <1>4, <1>7 DEF Abs!Ask, Pol, Req

(* A refused check is a Refuse; one that passes changes nothing abstract.  *)
LEMMA RefineCheck ==
    ASSUME Frame, Table, Requests, NEW c \in Callers, Check(c)
    PROVE  Abs!Refuse(c) \/ (Pol' = Pol /\ Req' = Req)
<1>1. PICK s : s = call[c]
  OBVIOUS
<1>2. PICK policy \in Policies :
        /\ s.policy = Same => policy = task[s.p].policy
        /\ s.policy # Same => policy = s.policy
        /\ \/ /\ (policy = "fifo") # (s.prio # 0)
              /\ call' = [call EXCEPT ![c] = Idle]
           \/ \E r : /\ call' = [call EXCEPT ![c] = r]
                     /\ r.pc = "apply" /\ r.p = s.p /\ r.policy = policy
                     /\ r.prio = s.prio /\ r.keep = s.keep
                     /\ s.policy = Same => r.old = policy
                     /\ s.policy # Same => r.old = None
  BY <1>1, CheckStep
<1>3. /\ s.pc = "check" /\ s.old = None /\ CallOK(s) /\ s.p \in Tasks
      /\ task' = task /\ call \in [Callers -> Calls]
  BY <1>1, CheckStep DEF Requests, CallOK
<1>4. Pol' = Pol
  BY <1>3 DEF Pol
<1>5. Req[c] = Asked(s) /\ Asked(s) # None
  BY <1>1, <1>3, AskedSome DEF Req
<1>6. /\ Asked(s).p = s.p /\ Asked(s).policy = s.policy
      /\ Asked(s).prio = s.prio
  BY <1>3, AskedSome
<1>7. CASE /\ (policy = "fifo") # (s.prio # 0)
           /\ call' = [call EXCEPT ![c] = Idle]
  <2>1. Req' = [Req EXCEPT ![c] = None]
    BY <1>3, <1>7, AskedIdle DEF Req
  <2>2. PICK v : v = <<IF Req[c].policy = Same THEN Pol[Req[c].p][1]
                       ELSE Req[c].policy, Req[c].prio>>
    OBVIOUS
  <2>3. Pol[s.p][1] = task[s.p].policy
    BY <1>3 DEF Pol
  <2>4. v[1] = policy /\ v[2] = s.prio
    BY <1>2, <1>5, <1>6, <2>2, <2>3
  <2>5. ~(v[1] = "fifo" <=> v[2] # 0)
    BY <1>7, <2>4
  <2>6. ~Abs!Valid(Abs!Result(Req[c]))
    BY <2>2, <2>5 DEF Abs!Valid, Abs!Result, Pol
  <2> QED BY <1>4, <1>5, <2>1, <2>6 DEF Abs!Refuse, Pol, Req
<1>8. CASE \E r : /\ call' = [call EXCEPT ![c] = r]
                  /\ r.pc = "apply" /\ r.p = s.p /\ r.policy = policy
                  /\ r.prio = s.prio /\ r.keep = s.keep
                  /\ s.policy = Same => r.old = policy
                  /\ s.policy # Same => r.old = None
  <2>1. PICK r : /\ call' = [call EXCEPT ![c] = r]
                 /\ r.pc = "apply" /\ r.p = s.p /\ r.policy = policy
                 /\ r.prio = s.prio /\ r.keep = s.keep
                 /\ s.policy = Same => r.old = policy
                 /\ s.policy # Same => r.old = None
    BY <1>8
  <2>2. policy # None
    BY NoneAssumption
  <2>3. (IF r.old = None THEN r.policy ELSE Same) = s.policy
    BY <1>2, <2>1, <2>2
  <2>4. Asked(r) = [p |-> r.p, policy |-> s.policy, prio |-> r.prio,
                    keep |-> r.keep]
    BY <2>1, <2>3 DEF Asked
  <2>5. Asked(s) = [p |-> s.p, policy |-> s.policy, prio |-> s.prio,
                    keep |-> s.keep]
    BY <1>3 DEF Asked
  <2>6. Asked(r) = Asked(s)
    BY <2>1, <2>4, <2>5
  <2>7. Req' = [Req EXCEPT ![c] = Asked(r)]
    BY <1>3, <2>1 DEF Req
  <2> QED BY <1>4, <1>5, <2>6, <2>7 DEF Req
<1> QED BY <1>2, <1>7, <1>8

(* The step under the locks is the Commit, or starts the check again.      *)
LEMMA RefineApply ==
    ASSUME Frame, Table, Requests, NEW c \in Callers, __sched_setscheduler(c)
    PROVE  Abs!Commit(c) \/ (Pol' = Pol /\ Req' = Req)
<1>1. PICK r : r = call[c]
  OBVIOUS
<1>2. /\ r.pc = "apply" /\ CallOK(r) /\ r.p \in Tasks
      /\ r.policy = "fifo" <=> r.prio # 0
      /\ r.old = None \/ r.old = r.policy
      /\ call \in [Callers -> Calls]
      /\ task \in [Tasks -> Records] /\ task' \in [Tasks -> Records]
  BY <1>1, ApplyStep DEF Requests, CallOK, Table
<1>3. Req[c] = Asked(r) /\ Asked(r) # None
  BY <1>1, <1>2, AskedSome DEF Req
<1>4. CASE Restarted(c) /\ r.old # None /\ task' = task
  <2>1. PICK s : /\ call' = [call EXCEPT ![c] = s]
                 /\ s.pc = "check" /\ s.old = None /\ s.policy = Same
                 /\ s.p = r.p /\ s.prio = r.prio /\ s.keep = r.keep
    BY <1>1, <1>4 DEF Restarted
  <2>2. Asked(s) = [p |-> s.p, policy |-> Same, prio |-> s.prio,
                    keep |-> s.keep]
    BY <2>1 DEF Asked
  <2>3. Asked(r) = [p |-> r.p, policy |-> Same, prio |-> r.prio,
                    keep |-> r.keep]
    BY <1>2, <1>4 DEF Asked
  <2>4. Req' = [Req EXCEPT ![c] = Asked(s)]
    BY <1>2, <2>1 DEF Req
  <2>5. Pol' = Pol
    BY <1>4 DEF Pol
  <2> QED BY <1>3, <2>1, <2>2, <2>3, <2>4, <2>5 DEF Req
<1>5. CASE /\ Unchanged(r) \/ Stored(r)
           /\ call' = [call EXCEPT ![c] = Idle]
  <2>1. Req' = [Req EXCEPT ![c] = None]
    BY <1>2, <1>5, AskedIdle DEF Req
  <2>2. PICK v : v = <<IF Req[c].policy = Same THEN Pol[Req[c].p][1]
                       ELSE Req[c].policy, Req[c].prio>>
    OBVIOUS
  <2>3. /\ Req[c].p = r.p /\ Req[c].prio = r.prio /\ Req[c].keep = r.keep
        /\ r.old = None => Req[c].policy = r.policy
        /\ r.old # None => Req[c].policy = Same
    BY <1>2, <1>3, AskedSome
  <2>4. r.old # None => r.policy = task[r.p].policy
    BY <1>5 DEF Unchanged, Stored
  <2>5. r.policy # Same
    BY <1>2 DEF CallOK, Policies, Same
  <2>6. Pol[r.p] = <<task[r.p].policy, task[r.p].rtprio>>
    BY <1>2 DEF Pol
  <2>7. v = <<r.policy, r.prio>>
    BY <2>2, <2>3, <2>4, <2>5, <2>6
  <2>8. Abs!Valid(v)
    BY <1>2, <2>7 DEF Abs!Valid
  <2>9. IF r.keep THEN Pol' = Pol ELSE Pol' = [Pol EXCEPT ![r.p] = v]
    <3>1. CASE Unchanged(r)
      <4>1. Pol' = Pol
        BY <3>1, SamePol DEF Unchanged
      <4>2. v = Pol[r.p]
        BY <2>6, <2>7, <3>1 DEF Unchanged
      <4>3. Pol = [Pol EXCEPT ![r.p] = Pol[r.p]]
        BY <1>2 DEF Pol
      <4> QED BY <4>1, <4>2, <4>3
    <3>2. CASE Stored(r)
      <4>1. PICK u : /\ task' = [task EXCEPT ![r.p] = u]
                     /\ r.keep => /\ u.policy = task[r.p].policy
                                  /\ u.rtprio = task[r.p].rtprio
                     /\ ~r.keep => u.policy = r.policy /\ u.rtprio = r.prio
        BY <3>2 DEF Stored
      <4>2. Pol' = [Pol EXCEPT ![r.p] = <<u.policy, u.rtprio>>]
        BY <1>2, <4>1 DEF Pol
      <4>3. CASE r.keep
        <5>1. Pol = [Pol EXCEPT ![r.p] = Pol[r.p]]
          BY <1>2 DEF Pol
        <5> QED BY <2>6, <4>1, <4>2, <4>3, <5>1
      <4>4. CASE ~r.keep
        BY <2>7, <4>1, <4>2, <4>4
      <4> QED BY <4>3, <4>4
    <3> QED BY <1>5, <3>1, <3>2
  <2>10. v = Abs!Result(Req[c])
    BY <2>2 DEF Abs!Result, Pol
  <2>11. IF Req[c].keep THEN Pol' = Pol
         ELSE /\ Abs!Valid(Abs!Result(Req[c]))
              /\ Pol' = [Pol EXCEPT ![Req[c].p] = Abs!Result(Req[c])]
    BY <2>3, <2>8, <2>9, <2>10
  <2> QED BY <1>3, <2>1, <2>11 DEF Abs!Commit, Pol, Req
<1> QED BY <1>1, <1>4, <1>5, ApplyStep

(* fork is a Fork of the register.                                         *)
LEMMA RefineFork ==
    ASSUME Frame, Table, Requests, NEW q \in Tasks,
           (\E p \in Tasks : dup_task_struct(p, q)) \/ sched_fork(q)
    PROVE  \E p \in Tasks : Abs!Fork(p, q)
<1>1. PICK u : /\ task' = [task EXCEPT ![q] = u]
               /\ \/ \E p \in Tasks : /\ u.policy = task[p].policy
                                       /\ u.rtprio = task[p].rtprio
                  \/ u.policy = "normal" /\ u.rtprio = 0
  BY ForkSteps
<1>2. call' = call /\ task \in [Tasks -> Records]
  BY ForkSteps DEF Table
<1>3. Req' = Req
  BY <1>2 DEF Req
<1>4. Pol' = [Pol EXCEPT ![q] = <<u.policy, u.rtprio>>]
  BY <1>1, <1>2 DEF Pol
<1>5. PICK p \in Tasks : <<u.policy, u.rtprio>> \in {Pol[p], <<"normal", 0>>}
  BY <1>1 DEF Pol
<1>6. Pol' \in {[Pol EXCEPT ![q] = Pol[p]],
                [Pol EXCEPT ![q] = <<"normal", 0>>]}
  BY <1>4, <1>5
<1> QED BY <1>3, <1>6 DEF Abs!Fork, Pol, Req

(* Every step of module Policy is a step of TaskPolicy or a stutter.       *)
LEMMA RefineNext ==
    ASSUME Frame, Table, Requests, [Next]_vars
    PROVE  Abs!Next \/ (Pol' = Pol /\ Req' = Req)
<1>1. call' = call => Req' = Req
  BY DEF Req
<1>2. Kept(task, task') => Pol' = Pol
  BY SamePol DEF Kept, SameKept
<1>3. CASE \/ \E b, a \in Tasks : Block(b, a)
           \/ \E p \in Tasks : Walk(p) \/ Unlock(p)
  BY <1>1, <1>2, <1>3, MutexSteps
<1>4. CASE \E p \in Tasks : \/ \E n \in NicePrios : set_user_nice(p, n)
                            \/ do_sched_yield(p) \/ set_scheduling_params(p)
  BY <1>1, <1>4, TaskSteps, SamePol
<1>5. CASE \E q \in Tasks : \/ \E p \in Tasks : dup_task_struct(p, q)
                            \/ sched_fork(q)
  BY <1>5, RefineFork DEF Abs!Next
<1>6. CASE \E c \in Callers, p \in Tasks, a \in Attrs :
              _sched_setscheduler(c, p, a) \/ sched_setattr(c, p, a)
  BY <1>6, RefineRequest DEF Abs!Next
<1>7. CASE \E c \in Callers : Check(c)
  BY <1>7, RefineCheck DEF Abs!Next
<1>8. CASE \E c \in Callers : __sched_setscheduler(c)
  BY <1>8, RefineApply DEF Abs!Next
<1>9. CASE UNCHANGED vars
  BY <1>9 DEF vars, Pol, Req
<1> QED
  BY <1>3, <1>4, <1>5, <1>6, <1>7, <1>8, <1>9 DEF Next

(* The setters, priority inheritance and fork implement the atomic         *)
(* register of module TaskPolicy.                                          *)
THEOREM PolicyAtomic == Spec => Atomic
<1>1. Init => Abs!Init
  <2> SUFFICES ASSUME Init PROVE Abs!Init
    OBVIOUS
  <2>1. Pol = [p \in Tasks |-> <<"normal", 0>>]
    BY DEF Init, NewTask, Pol
  <2>2. Req = [c \in Callers |-> None]
    BY AskedIdle DEF Init, Req
  <2> QED BY <2>1, <2>2 DEF Abs!Init, Pol, Req
<1>2. Frame /\ Table /\ Requests /\ [Next]_vars
        => Abs!Next \/ (Pol' = Pol /\ Req' = Req)
  BY RefineNext
<1>3. Frame /\ Table /\ Requests /\ [Next]_vars
        => [Abs!Next]_<<Pol, Req>>
  BY <1>2
<1> QED
  BY <1>1, <1>3, Invariance, PTL DEF Spec, Atomic, Abs!Spec, Pol, Req
=============================================================================
