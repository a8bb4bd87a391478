------------------------------- MODULE HvfCpu -------------------------------
(***************************************************************************)
(* One CPU: the HVF class driven by the core scheduler (kernel/sched/      *)
(* core.c and syscalls.c) together with the fair class above it and the    *)
(* idle task below it.  Every section under rq->lock is one action.  The   *)
(* fair class is external: a set of tasks of which any may be picked.      *)
(***************************************************************************)
EXTENDS HvfRq, FiniteSets

CONSTANT Ops    \* what the workload does beyond sleeping, waking and computing:
                \*   "exit"     tasks exit
                \*   "kpreempt" the kernel is preemptible, so a task may lose the
                \*              CPU between set_current_state() and schedule()
                \*   "requeue"  the running task is moved between task groups
                \*   "join"     the running task enters the HVF class
                \*   "leave"    the running task leaves the HVF class

ASSUME OpsAssumption ==
    Ops \subseteq {"exit", "kpreempt", "requeue", "join", "leave"}

VARIABLES
    rq,       \* the run queue and the entities, see HvfRq
    state,    \* p->__state: "running", "sleeping" or "dead"
    on_rq,    \* p->on_rq = TASK_ON_RQ_QUEUED
    class,    \* p->sched_class
    curr,     \* rq->curr
    resched,  \* TIF_NEED_RESCHED of curr
    dying,    \* the dead task finish_task_switch has still to bury, or NULL
    oops      \* the CPU was made to run something that is not a runnable task

vars == <<rq, state, on_rq, class, curr, resched, dying, oops>>

Classes == {"fair", "hvf"}
IsRunning(t) == state[t] = "running"

Init ==
    /\ rq = EmptyRq
    /\ state = [t \in Tasks |-> "sleeping"]
    /\ on_rq = [t \in Tasks |-> FALSE]
    /\ class = [t \in Tasks |-> "fair"]
    /\ curr = Idle
    /\ resched = FALSE
    /\ dying = NULL
    /\ oops = FALSE

-----------------------------------------------------------------------------
\* Dispatch to the methods of a class.  Of the fair class only the membership
\* and the counter are kept; it never refuses to dequeue.

enqueue_task(k, t, c, how) ==
    IF c = "hvf" THEN enqueue_task_hvf(k, t, how)
    ELSE {IncRunning([k EXCEPT !.fair = @ \cup {t}])}

dequeue_task(k, t, c) ==
    IF c = "hvf" THEN dequeue_task_hvf(k, t, IsRunning(t))
    ELSE DecRunning([k EXCEPT !.fair = @ \ {t}])

put_prev_task(k, t, running) ==
    IF t \in Tasks /\ class[t] = "hvf" THEN put_prev_task_hvf(k, t, running) ELSE {k}

set_next_task(k, t, c, first) ==
    IF t \in Tasks /\ c = "hvf" THEN set_next_task_hvf(k, t, first) ELSE k

\* wakeup_preempt_hvf compares t with `current', the task of the CPU that does the
\* wakeup: rq->curr if it is this one, otherwise a task with any value, over its
\* promise or not.
wakeup_preempt_hvf(k, t) ==
    {m \in BOOLEAN : \E over \in BOOLEAN, v \in Values :
                         m = (resched \/ (over /\ k.value[t] > v))}

\* Whether wakeup_preempt marks the current task: outcomes for a task t of run
\* queue state k.
wakeup_preempt(k, t) ==
    IF curr = Idle THEN {TRUE}
    ELSE IF class[t] = "hvf" /\ class[curr] = "hvf" THEN wakeup_preempt_hvf(k, t)
    ELSE IF class[t] = "hvf" THEN {resched}
    ELSE IF class[curr] = "hvf" THEN {TRUE}
    ELSE {resched, TRUE}

-----------------------------------------------------------------------------
\* __schedule

\* __pick_next_task: the shortcut for a CPU that seems to have only fair tasks,
\* else the classes from the top.
Picks(k) ==
    IF k.nr_running = Cardinality(k.fair) % UIntMod
    THEN IF k.fair = {} THEN {Idle} ELSE k.fair
    ELSE IF k.fair # {} THEN k.fair ELSE {pick_task_hvf(k)}

\* The rest of __schedule once prev was or was not dequeued, giving k and q as
\* the values of rq and on_rq.  st is the value of state from now on.
Switch(k, st, q) ==
    \E next \in Picks(k) :
        /\ on_rq' = q
        /\ state' = st
        /\ resched' = FALSE
        /\ UNCHANGED class
        /\ curr' = next
        /\ oops' = (next \notin {t \in Tasks : q[t]} \cup {Idle})
        /\ IF next = curr
           THEN rq' = k /\ UNCHANGED dying
           ELSE /\ dying' = IF curr \in Tasks /\ st[curr] = "dead" THEN curr ELSE NULL
                /\ \E k1 \in put_prev_task(k, curr, curr \in Tasks /\ st[curr] = "running") :
                      rq' = IF next \in Tasks THEN set_next_task(k1, next, class[next], TRUE)
                                              ELSE k1

\* A CPU in finish_task_switch, or one that oopsed, does not schedule.
MaySchedule == dying = NULL /\ ~oops

\* schedule() by a task that is not to sleep, or preemption of one that runs on.
ScheduleRunning ==
    /\ MaySchedule /\ curr \in Tasks
    /\ \/ IsRunning(curr)
       \/ "kpreempt" \in Ops /\ resched /\ state[curr] = "sleeping"
    /\ Switch(rq, state, on_rq)

\* schedule() by a task that is to sleep or to die: try_to_block_task.
ScheduleBlocking ==
    /\ MaySchedule /\ curr \in Tasks
    /\ ~IsRunning(curr)
    /\ LET gone == class[curr] = "fair" \/ Dequeues(rq, curr, FALSE)
       IN  Switch(dequeue_task(rq, curr, class[curr]), state,
                  [on_rq EXCEPT ![curr] = @ /\ ~gone])

\* The same when a signal is pending: the task runs on.
ScheduleSignalled ==
    /\ MaySchedule /\ curr \in Tasks
    /\ state[curr] = "sleeping"
    /\ Switch(rq, [state EXCEPT ![curr] = "running"], on_rq)

\* schedule_idle(), from the idle loop once need_resched() holds.
ScheduleIdle ==
    /\ MaySchedule /\ curr = Idle /\ resched
    /\ IF rq.nr_running = 0
       THEN resched' = FALSE /\ UNCHANGED <<rq, state, on_rq, class, curr, dying, oops>>
       ELSE Switch(rq, state, on_rq)

\* finish_task_switch, after the lock was dropped: the class buries the task.
FinishDead ==
    /\ dying # NULL /\ ~oops
    /\ rq' = IF class[dying] = "hvf" THEN task_dead_hvf(rq, dying) ELSE rq
    /\ dying' = NULL
    /\ UNCHANGED <<state, on_rq, class, curr, resched, oops>>

-----------------------------------------------------------------------------
\* What happens to the current task between two calls of __schedule.

\* A tick that marks the slice and does not ask for a reschedule.
TickWithoutResched ==
    /\ ~oops /\ curr \in Tasks
    /\ rq' = [rq EXCEPT !.expired = [@ EXCEPT ![curr] = TRUE]]
    /\ UNCHANGED <<state, on_rq, class, curr, resched, dying, oops>>

\* sched_tick: an HVF task that used up its slice is marked, and a fair task may
\* have to give way to another.
sched_tick ==
    /\ ~oops /\ curr \in Tasks
    /\ IF class[curr] = "hvf"
       THEN rq' = [rq EXCEPT !.expired = [@ EXCEPT ![curr] = TRUE]]
       ELSE rq.fair \ {curr} # {} /\ UNCHANGED rq
    /\ resched' = TRUE
    /\ UNCHANGED <<state, on_rq, class, curr, dying, oops>>

\* set_current_state() before a wait, or do_task_dead().
SetState(s) ==
    /\ ~oops /\ dying = NULL /\ curr \in Tasks /\ IsRunning(curr)
    /\ s = "dead" => "exit" \in Ops
    /\ state' = [state EXCEPT ![curr] = s]
    /\ UNCHANGED <<rq, on_rq, class, curr, resched, dying, oops>>

\* set_scheduling_params by the current task: the next computation of its value
\* gives something else, and it may be over its new promise or within it.
SetParams(w, b) ==
    /\ ~oops /\ dying = NULL /\ curr \in Tasks /\ IsRunning(curr)
    /\ rq' = [rq EXCEPT !.worth = [@ EXCEPT ![curr] = w],
                        !.over = [@ EXCEPT ![curr] = b]]
    /\ UNCHANGED <<state, on_rq, class, curr, resched, dying, oops>>

-----------------------------------------------------------------------------
\* try_to_wake_up

\* ttwu_runnable: the task still counts as queued, so only its state changes.
WakeQueued(t) ==
    /\ ~oops /\ state[t] = "sleeping" /\ on_rq[t]
    /\ state' = [state EXCEPT ![t] = "running"]
    /\ resched' \in IF t = curr THEN {resched} ELSE wakeup_preempt(rq, t)
    /\ UNCHANGED <<rq, on_rq, class, curr, dying, oops>>

\* ttwu_do_activate: the task is enqueued with ENQUEUE_WAKEUP.
WakeBlocked(t) ==
    /\ ~oops /\ state[t] = "sleeping" /\ ~on_rq[t]
    /\ \E k \in enqueue_task(rq, t, class[t], "recompute") :
          rq' = k /\ resched' \in wakeup_preempt(k, t)
    /\ on_rq' = [on_rq EXCEPT ![t] = TRUE]
    /\ state' = [state EXCEPT ![t] = "running"]
    /\ UNCHANGED <<class, curr, dying, oops>>

-----------------------------------------------------------------------------
\* The dequeue / put_prev / enqueue / set_next sandwich around a change.

\* Take t out of the class c, do the change, and put it into the class d.
Sandwich(t, c, d, how) ==
    LET out  == IF on_rq[t] THEN dequeue_task(rq, t, c) ELSE rq
        back(k) == IF on_rq[t] THEN enqueue_task(k, t, d, how) ELSE {k}
        put  == IF t = curr THEN put_prev_task(out, t, IsRunning(t)) ELSE {out}
    IN  { IF t = curr THEN set_next_task(k, t, d, FALSE) ELSE k :
          k \in UNION { back(k1) : k1 \in put } }

\* What the change of class itself does to the parameters of t.  switching_to_hvf
\* gives default ones, and computes a value, only if the task never set its own;
\* switched_from_hvf clears them, which leaves a worth of 0.
Reparametrised(k, t, d) ==
    LET given(w, b) == [k EXCEPT !.worth = [@ EXCEPT ![t] = w],
                                 !.over = [@ EXCEPT ![t] = b]]
    IN  IF d = "hvf"
        THEN UNION { UNION { {given(w, b), compute_init_sched_value(given(w, b), t)} :
                             b \in BOOLEAN } : w \in Values }
        ELSE { given(0, b) : b \in BOOLEAN }

\* __sched_setscheduler to another class.  Entering the HVF class while queued
\* initialises the entity anew, so the defaults matter to other tasks only.
SetScheduler(t, d) ==
    /\ ~oops /\ state[t] # "dead" /\ d # class[t]
    /\ t = curr => dying = NULL /\ (IF d = "hvf" THEN "join" ELSE "leave") \in Ops
    /\ \E k \in Sandwich(t, class[t], d, "changed") :
          rq' \in IF d = "hvf" /\ on_rq[t] THEN {k} ELSE Reparametrised(k, t, d)
    /\ class' = [class EXCEPT ![t] = d]
    \* switched_to_hvf is empty; switched_to_fair may preempt.
    /\ resched' \in IF d = "fair" /\ on_rq[t] THEN {resched, TRUE} ELSE {resched}
    /\ UNCHANGED <<state, on_rq, curr, dying, oops>>

\* sched_move_task of an HVF task to another task group.
sched_move_task(t) ==
    /\ ~oops /\ class[t] = "hvf" /\ on_rq[t] /\ state[t] # "dead"
    /\ t = curr => dying = NULL /\ "requeue" \in Ops
    /\ rq' \in Sandwich(t, "hvf", "hvf", "recompute")
    /\ resched' = (resched \/ t = curr)
    /\ UNCHANGED <<state, on_rq, class, curr, dying, oops>>

-----------------------------------------------------------------------------
Next ==
    \/ ScheduleRunning
    \/ ScheduleBlocking
    \/ ScheduleSignalled
    \/ ScheduleIdle
    \/ FinishDead
    \/ sched_tick
    \/ \E s \in {"sleeping", "dead"} : SetState(s)
    \/ \E w \in Values, b \in BOOLEAN : SetParams(w, b)
    \/ \E t \in Tasks : \/ WakeQueued(t)
                       \/ WakeBlocked(t)
                       \/ \E d \in Classes : SetScheduler(t, d)
                       \/ sched_move_task(t)

Spec == Init /\ [][Next]_vars

\* The timer interrupt keeps coming, TIF_NEED_RESCHED is acted on at the next
\* return from an interrupt or system call, and finish_task_switch runs on.
Fairness ==
    /\ WF_vars(sched_tick)
    /\ WF_vars(resched /\ (ScheduleRunning \/ ScheduleBlocking \/ ScheduleSignalled))
    /\ WF_vars(ScheduleIdle)
    /\ WF_vars(FinishDead)

FairSpec == Spec /\ Fairness

-----------------------------------------------------------------------------
\* Every variable has its type; nr_running never leaves the unsigned range.
TypeOK ==
    /\ rq.queue \in Seq(Tasks)
    /\ rq.max \in Tasks \cup {NULL} /\ rq.hcurr \in Tasks \cup {NULL}
    /\ rq.nr \in Nat /\ rq.nr_running \in 0 .. UIntMod - 1
    /\ rq.fair \subseteq Tasks
    /\ rq.on \in [Tasks -> BOOLEAN] /\ rq.expired \in [Tasks -> BOOLEAN]
    /\ rq.over \in [Tasks -> BOOLEAN]
    /\ rq.value \in [Tasks -> Values] /\ rq.worth \in [Tasks -> Values]
    /\ state \in [Tasks -> {"running", "sleeping", "dead"}]
    /\ on_rq \in [Tasks -> BOOLEAN] /\ class \in [Tasks -> Classes]
    /\ curr \in Tasks \cup {Idle, NULL}
    /\ resched \in BOOLEAN /\ oops \in BOOLEAN
    /\ dying \in Tasks \cup {NULL}

\* The tree, the on_rq flags of the entities, nr_hvf_queued and the cached
\* entity agree whatever the workload does: no entity is linked twice, the
\* counter is the size of the tree, and the cache never points off the tree
\* (enqueue_hvf_entity, dequeue_hvf_entity and the guards of their callers).
TreeConsistent == Linked(rq)

\* max_value_entity is an entity of the highest value on the tree, and null only
\* when the tree is empty: moving it by one node in enqueue_hvf_entity and
\* dequeue_hvf_entity is enough.
MaxIsCached == Maximal(rq)

\* A runnable HVF task that does not run waits on the tree, where it can be
\* picked: put_prev_task_hvf, try_to_wake_up and the class changes lose none.
NoLostTask ==
    \A t \in Tasks : class[t] = "hvf" /\ on_rq[t] /\ IsRunning(t) /\ t # curr
                        => t \in Queued(rq)

\* A task is in one place at a time: the tree holds queued tasks of the HVF class
\* and neither the running one nor the class's own current one, the fair class
\* holds queued tasks of its own, and what runs is queued or idle.
OnePlace ==
    /\ \A t \in Queued(rq) :
          class[t] = "hvf" /\ on_rq[t] /\ t # curr /\ t # rq.hcurr
    /\ \A t \in rq.fair : class[t] = "fair" /\ on_rq[t]
    /\ curr = Idle \/ (curr \in Tasks /\ on_rq[curr])

\* rq->nr_running, which the HVF methods maintain by hand, is the number of
\* queued tasks: __pick_next_task compares it with the fair class's count.
NrRunningExact ==
    rq.nr_running = Cardinality({t \in Tasks : on_rq[t]}) % UIntMod

\* __schedule never switches to a task that is not queued, nor to a null one.
NoOops == ~oops

\* The CPU is idle, with no reschedule pending, only when no task can run: the
\* idle task that pick_task_hvf returns is there to wait for one.
WorkConserving ==
    curr = Idle /\ ~resched => \A t \in Tasks : ~(on_rq[t] /\ IsRunning(t))

\* Once finish_task_switch has buried a task, no HVF structure refers to it.
DeadOffTree == \A t \in Queued(rq) : state[t] = "dead" => t \in {curr, dying}

\* When the CPU turns to an HVF task, no HVF task that was waiting had a higher
\* value than the chosen one (pick_task_hvf).
PicksHighest ==
    [][curr' # curr /\ curr' \in Tasks /\ class[curr'] = "hvf" =>
          \A t \in Queued(rq) \ {curr} : rq.value[t] =< rq.value[curr']]_vars

\* A slice ends: while another HVF task waits on the tree, no HVF task keeps the
\* CPU for ever (task_tick_hvf, resched_curr and the pick).
NoMonopoly ==
    \A t \in Tasks :
        (curr = t /\ class[t] = "hvf" /\ Queued(rq) \ {t} # {})
            ~> (curr # t \/ class[t] # "hvf" \/ Queued(rq) \ {t} = {})
=============================================================================
