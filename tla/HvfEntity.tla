----------------------------- MODULE HvfEntity ------------------------------
(***************************************************************************)
(* The life of one task inside the HVF class, with the real arithmetic:    *)
(* its parameters, its scheduling entity (struct sched_hvf_entity), the    *)
(* wall clock the class reads, and where the task stands.  The other tasks *)
(* of the CPU are the environment that makes it be picked and preempted.   *)
(***************************************************************************)
EXTENDS HvfValue

CONSTANTS
    TickMs,      \* TICK_NSEC, in milliseconds
    ClockSteps,  \* what the wall clock may jump by between two events
    Params,      \* the <<d1, d2, ctime>> the task may ask for
    Requeues,    \* BOOLEAN: may the core dequeue and restore it while it runs?
    MaxNow       \* horizon of the clock in milliseconds, and the billed time
                 \* up to which Requeue is taken

ASSUME ConstAssumption ==
    /\ TickMs \in Nat \ {0}
    /\ ClockSteps \subseteq Int
    /\ Params \subseteq Int \X Int \X Int
    /\ Requeues \in BOOLEAN
    /\ MaxNow \in Nat

VARIABLES
    now,     \* ktime_get_real_ts64() in milliseconds
    par,     \* deadline_1, deadline_2, computation_time, pars_set
    ent,     \* the fields of struct sched_hvf_entity the class computes with
    place,   \* where the task stands, see Places
    spent    \* history: milliseconds on a CPU since the entity was initialised

vars == <<now, par, ent, place, spent>>

\* "outside": of another class.  "sleeping": of this class, blocked.
\* "queued": on the tree, not running.  "picked": running as hvf_rq->curr, off
\* the tree.  "joined": running and on the tree at once, the state in which
\* set_next_task(first = false) leaves a task.  "stray": of another class, its
\* entity left on the tree.  "dead": exited.
Places == {"outside", "stray", "sleeping", "queued", "picked", "joined", "dead"}
OtherClass == place \in {"outside", "stray"}
Running == place \in {"picked", "joined"}

NoParams == [d1 |-> 0, d2 |-> 0, ctime |-> 0, set |-> FALSE]

Init ==
    /\ now = 0
    /\ par = NoParams
    /\ ent = [first |-> 0, latest |-> 0, used |-> 0, runtime |-> 0,
              expired |-> FALSE, value |-> 0]
    /\ place = "outside"
    /\ spent = 0

-----------------------------------------------------------------------------
\* The functions of hvf.c on the entity.

Recomputed(e, p) ==
    [e EXCEPT !.value = compute_init_sched_value(e.first, p.ctime, p.d1, p.d2)]

give_default_hvf_values(p) ==
    IF p.set THEN p
    ELSE [d1 |-> now \div K + 4, d2 |-> now \div K + 6, ctime |-> K, set |-> TRUE]

init_sched_hvf_entity(e) ==
    [e EXCEPT !.first = now, !.latest = now, !.used = 0,
              !.expired = FALSE]

\* Mutant: only a task that has not exceeded its slice is billed.
update_used_unexpired(e) ==
    IF e.expired THEN e ELSE [e EXCEPT !.used = @ + (now - e.latest)]

update_used_se_hvf(e) == [e EXCEPT !.used = @ + (now - e.latest)]

update_latest_se_hvf(e) ==
    [e EXCEPT !.latest = now, !.runtime = 0]

\* What enqueue_hvf_entity does to the entity itself.
Enqueued(e, p) ==
    IF exceeded_time(e.used, p.ctime)
    THEN [e EXCEPT !.value = penalty_hvf_entity(e.used, p.ctime, e.value)]
    ELSE e

\* A used-up slice costs part of the value, once.
Aged(e) ==
    IF e.expired
    THEN [e EXCEPT !.value = reduce_sched_value(e.used, e.value), !.expired = FALSE]
    ELSE e

\* put_prev_task_hvf on a task that is still TASK_RUNNING.
PutBack(e, p, on_tree) ==
    LET aged == Aged(update_used_se_hvf(e))
    IN  IF on_tree THEN aged ELSE Enqueued(aged, p)

-----------------------------------------------------------------------------
\* System calls of the task itself.

\* It can only call while it runs; outside the class it runs under another one.
set_scheduling_params(d1, d2, ctime) ==
    /\ Running \/ OtherClass
    /\ ParamsAccepted(now, d1, d2, ctime)
    /\ par' = [d1 |-> d1, d2 |-> d2, ctime |-> ctime, set |-> TRUE]
    /\ UNCHANGED <<now, ent, place, spent>>

\* sched_setscheduler(SCHED_HVF) on a task that is on a run queue: switching_to,
\* then enqueue_task with ENQUEUE_CHANGED.  A task that was running stays on the
\* tree, since set_next_task is called with first = false.
JoinRunnable(where) ==
    /\ OtherClass
    /\ LET p == give_default_hvf_values(par)
           e == Recomputed(init_sched_hvf_entity(ent), p)
       IN  par' = p /\ ent' = IF place = "stray" THEN e ELSE Enqueued(e, p)
    /\ place' = where
    /\ spent' = 0
    /\ UNCHANGED now

\* The same on a blocked task: nothing is enqueued, nothing is initialised.
JoinSleeping ==
    /\ place = "outside"
    /\ par' = give_default_hvf_values(par)
    /\ ent' = IF par.set THEN ent ELSE Recomputed(ent, par')
    /\ place' = "sleeping"
    /\ UNCHANGED <<now, spent>>

\* sched_setscheduler to another class.  dequeue_task_hvf takes a waiting task
\* off the tree, but put_prev_task puts a running one back onto it.
Leave ==
    /\ place \in {"sleeping", "queued", "picked", "joined"}
    /\ ent' = IF Running THEN PutBack(ent, par, FALSE) ELSE ent
    /\ place' = IF Running THEN "stray" ELSE "outside"
    /\ par' = NoParams
    /\ UNCHANGED <<now, spent>>

-----------------------------------------------------------------------------
\* What the core does with the task.

\* try_to_wake_up: enqueue_task with ENQUEUE_WAKEUP.
Wake ==
    /\ place = "sleeping"
    /\ ent' = Enqueued(Recomputed(ent, par), par)
    /\ place' = "queued"
    /\ UNCHANGED <<now, par, spent>>

\* __schedule picks it: set_next_task(first = true).
Pick ==
    /\ place = "queued"
    /\ ent' = update_latest_se_hvf(ent)
    /\ place' = "picked"
    /\ UNCHANGED <<now, par, spent>>

\* __schedule takes the CPU from it.
Preempt ==
    /\ Running
    /\ ent' = PutBack(ent, par, place = "joined")
    /\ place' = "queued"
    /\ UNCHANGED <<now, par, spent>>

\* It blocks: dequeue_task, then put_prev_task on a task that does not run.
Block ==
    /\ Running
    /\ ent' = update_used_se_hvf(ent)
    /\ place' = "sleeping"
    /\ UNCHANGED <<now, par, spent>>

\* sched_move_task on the running task: dequeue_task (which takes it off the
\* tree if it is there), put_prev_task, enqueue_task with ENQUEUE_RESTORE,
\* set_next_task(first = false).
Requeue ==
    /\ Requeues /\ Running /\ ent.used =< MaxNow
    /\ ent' = Recomputed(PutBack(ent, par, FALSE), par)
    /\ place' = "joined"
    /\ UNCHANGED <<now, par, spent>>

\* The timer interrupt, with the time that passed since the last one.
Tick ==
    /\ now + TickMs =< MaxNow
    /\ now' = now + TickMs
    /\ IF Running
       THEN LET ran == ent.runtime + TickMs
            IN  /\ ent' = [ent EXCEPT !.runtime = ran,
                             !.expired = @ \/ ran >= time_slice(ent.value)]
                /\ spent' = spent + TickMs
       ELSE UNCHANGED <<ent, spent>>
    /\ UNCHANGED <<par, place>>

\* clock_settime, or a correction of the wall clock.
SetClock(step) ==
    /\ now + step \in 0 .. MaxNow
    /\ now' = now + step
    /\ UNCHANGED <<par, ent, place, spent>>

\* do_exit: the last put_prev_task, then task_dead_hvf.
Exit ==
    /\ Running
    /\ ent' = update_used_se_hvf(ent)
    /\ place' = "dead"
    /\ UNCHANGED <<now, par, spent>>

Next ==
    \/ \E q \in Params : set_scheduling_params(q[1], q[2], q[3])
    \/ \E where \in {"queued", "joined"} : JoinRunnable(where)
    \/ JoinSleeping
    \/ Leave
    \/ Wake
    \/ Pick
    \/ Preempt
    \/ Block
    \/ Requeue
    \/ Tick
    \/ \E step \in ClockSteps : SetClock(step)
    \/ Exit

Spec == Init /\ [][Next]_vars

-----------------------------------------------------------------------------
\* Every variable has its type; the parameters keep their flag through every
\* path that sets, defaults or clears them.
TypeOK ==
    /\ now \in Nat
    /\ par \in [d1 : Int, d2 : Int, ctime : Int, set : BOOLEAN]
    /\ ent \in [first : Int, latest : Int, used : Int, runtime : Int,
                expired : BOOLEAN, value : Int]
    /\ place \in Places
    /\ spent \in Nat

\* The scheduling value is always a score between 0 and H, whatever the order
\* of ageing, penalties, wakeups and parameter changes.
ValueInRange == ent.value \in 0 .. H

\* A task of the class always has parameters whose deadlines are apart, so
\* compute_init_sched_value never divides by zero.
DeadlinesApart == ~OtherClass => par.set /\ par.d1 < par.d2

\* What the task has been billed, with what the next put_prev_task will add.
Billed == IF Running THEN ent.used + (now - ent.latest) ELSE ent.used

\* time_used is the CPU time of the task, each millisecond of it counted once:
\* what update_used_se_hvf registers is exactly what the task has run.
BilledOnce == Billed = spent

\* No millisecond on a CPU escapes update_used_se_hvf, even when the core takes the
\* running task out and restores it and when the clock is set forward.
NeverUnderbilled == Billed >= spent

-----------------------------------------------------------------------------
\* The inductive strengthening of ValueInRange and DeadlinesApart when the wall
\* clock never goes back: no entity was picked in the future, so the CPU time it
\* is billed never shrinks, and accepted parameters always have ordered deadlines.
ValueInv ==
    /\ TypeOK
    /\ ValueInRange
    /\ DeadlinesApart
    /\ par.set => par.d1 < par.d2
    /\ ent.latest =< now
    /\ ent.used >= 0
=============================================================================
