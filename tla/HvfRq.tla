------------------------------- MODULE HvfRq --------------------------------
(***************************************************************************)
(* What rq->lock protects on one CPU, and the methods of the HVF class on  *)
(* it.  A run queue state k is a record:                                   *)
(*   queue       the red-black tree hvf_task_queue, in key order (rb_first *)
(*               to rb_last): all that rb_next, rb_prev and rb_last see    *)
(*   max, hcurr  hvf_rq->max_value_entity and hvf_rq->curr, or NULL        *)
(*   nr          hvf_rq->nr_hvf_queued                                     *)
(*   nr_running  rq->nr_running, an unsigned int: counts modulo UIntMod    *)
(*   fair        the tasks queued in the fair class, the running one too   *)
(*   on, value, expired    fields of each task's sched_hvf_entity          *)
(*   worth       what compute_init_sched_value would return for the task   *)
(*   over        exceeded_time of the task: it used more than it promised  *)
(* Values are abstracted: ageing and penalty leave any value they may      *)
(* leave by the theorems of HvfValueProofs.  A method that has several     *)
(* outcomes is the set of the states it may leave.                         *)
(***************************************************************************)
EXTENDS Integers, Sequences, SequencesExt

CONSTANTS
    Tasks,      \* the tasks that may run on this CPU
    Idle,       \* the idle task of the CPU
    NULL,       \* the null pointer
    MaxValue,   \* H, the largest value
    LiftValue,  \* what a value of 0 becomes when it is reduced (10)
    UIntMod     \* 2^32, where an unsigned int wraps

ASSUME RqAssumption ==
    /\ NULL \notin Tasks /\ Idle \notin Tasks \cup {NULL}
    /\ MaxValue \in Nat /\ LiftValue \in 1 .. MaxValue
    /\ UIntMod \in Nat \ {0}

Values == 0 .. MaxValue

EmptyRq ==
    [queue |-> <<>>, max |-> NULL, hcurr |-> NULL, nr |-> 0,
     nr_running |-> 0, fair |-> {},
     on |-> [t \in Tasks |-> FALSE], value |-> [t \in Tasks |-> 0],
     expired |-> [t \in Tasks |-> FALSE], worth |-> [t \in Tasks |-> 0],
     over |-> [t \in Tasks |-> FALSE]]

-----------------------------------------------------------------------------
\* The tree.

Queued(k) == { k.queue[i] : i \in 1 .. Len(k.queue) }
Position(s, t) == CHOOSE i \in 1 .. Len(s) : s[i] = t

rb_last(s) == IF s = <<>> THEN NULL ELSE s[Len(s)]

rb_next(s, t) == LET i == Position(s, t) IN IF i < Len(s) THEN s[i + 1] ELSE NULL

rb_prev(s, t) == LET i == Position(s, t) IN IF i > 1 THEN s[i - 1] ELSE NULL

\* Where the descent of hvf_rq_rbtree_insert may link a node of value v: it went
\* right of its predecessor, whose value is smaller, and left of its successor,
\* whose value is not.  In a sorted tree there is one such gap; in a tree whose
\* keys were changed in place the shape of the tree decides between several.
Gaps(s, value, v) ==
    { p \in 1 .. Len(s) + 1 : /\ p = 1 \/ value[s[p - 1]] < v
                              /\ p = Len(s) + 1 \/ v =< value[s[p]] }

hvf_rq_rbtree_insert(s, value, t, v) ==
    { InsertAt(s, p, t) : p \in Gaps(s, value, v) }

rb_erase(s, t) == RemoveAt(s, Position(s, t))

-----------------------------------------------------------------------------
\* The values.

\* What reduce_sched_value and penalty_hvf_entity make of a value.
Worn(v) == IF v = 0 THEN {LiftValue} ELSE 0 .. v

\* update_used_se_hvf bills time, so a task may go over its promise.
Billed(k, t) ==
    { [k EXCEPT !.over = [@ EXCEPT ![t] = b]] : b \in {k.over[t], TRUE} }

compute_init_sched_value(k, t) ==
    [k EXCEPT !.value = [@ EXCEPT ![t] = k.worth[t]]]

\* give_default_hvf_values and init_sched_hvf_entity: the entry time and so the
\* worth are new, the time used is 0 (above a negative promise even so).
Initialised(k, t) ==
    UNION { { [k EXCEPT !.worth = [@ EXCEPT ![t] = w], !.over = [@ EXCEPT ![t] = b],
                        !.expired = [@ EXCEPT ![t] = FALSE]] : b \in BOOLEAN } :
            w \in Values }

-----------------------------------------------------------------------------
\* Entities on the tree.

\* A cache that is filled once and never moves up.
MaxKept(k, s, v) == IF k.max = NULL THEN rb_last(s) ELSE k.max

\* The cached maximum after t of value v was linked into the tree s.
MaxAfterInsert(k, s, v) ==
    IF k.max = NULL THEN rb_last(s)
    ELSE IF k.value[k.max] < v THEN rb_next(s, k.max) ELSE k.max

enqueue_hvf_entity(k, t) ==
    LET penalised == IF k.over[t] THEN Worn(k.value[t]) ELSE {k.value[t]}
        linked(v) ==
            { [k EXCEPT !.queue = s, !.nr = @ + 1, !.max = MaxAfterInsert(k, s, v),
                        !.on = [@ EXCEPT ![t] = TRUE],
                        !.value = [@ EXCEPT ![t] = v]] :
              s \in hvf_rq_rbtree_insert(k.queue, k.value, t, v) }
    IN  UNION { linked(v) : v \in penalised }

dequeue_hvf_entity(k, t) ==
    [k EXCEPT !.queue = rb_erase(@, t), !.nr = @ - 1,
              !.max = IF @ = t THEN rb_prev(k.queue, t) ELSE @,
              !.on = [@ EXCEPT ![t] = FALSE]]

-----------------------------------------------------------------------------
\* The methods of the class.

SetCurr(k, c) == [k EXCEPT !.hcurr = c]
IncRunning(k) == [k EXCEPT !.nr_running = (@ + 1) % UIntMod]
DecRunning(k) == [k EXCEPT !.nr_running = (@ - 1) % UIntMod]

\* how: "changed" for ENQUEUE_INITIAL or ENQUEUE_CHANGED, "recompute" for
\* ENQUEUE_WAKEUP, ENQUEUE_MIGRATED or ENQUEUE_RESTORE.
enqueue_task_hvf(k, t, how) ==
    LET prepared == IF how = "changed" THEN Initialised(k, t) ELSE {k}
        inserted(k1) ==
            IF k1.hcurr # t /\ ~k1.on[t]
            THEN { IncRunning(k2) : k2 \in enqueue_hvf_entity(k1, t) }
            ELSE {k1}
    IN  UNION { inserted(compute_init_sched_value(k1, t)) : k1 \in prepared }

\* What dequeue_task_hvf returns; running is task_is_running(p).
Dequeues(k, t, running) ==
    \/ k.hcurr # t /\ k.on[t]
    \/ k.hcurr = t /\ ~running

\* A task that blocks is not taken off nr_running.
BlockUncounted(k, t, running) ==
    LET off == IF k.on[t] THEN dequeue_hvf_entity(k, t) ELSE k
    IN  IF ~Dequeues(k, t, running) THEN k
        ELSE IF k.hcurr = t THEN SetCurr(off, NULL)
        ELSE DecRunning(off)

dequeue_task_hvf(k, t, running) ==
    LET off == IF k.on[t] THEN dequeue_hvf_entity(k, t) ELSE k
    IN  IF ~Dequeues(k, t, running) THEN k
        ELSE IF k.hcurr = t THEN DecRunning(SetCurr(off, NULL))
        ELSE DecRunning(off)

\* A switch that leaves the chosen task on the tree.
NextKept(k, t, first) == IF first THEN SetCurr(k, t) ELSE k

set_next_task_hvf(k, t, first) ==
    LET off == IF k.on[t] THEN dequeue_hvf_entity(k, t) ELSE k
    IN  IF first THEN SetCurr(off, t) ELSE k

\* A used-up slice costs part of the value, once.
Aged(k, t) ==
    IF k.expired[t]
    THEN { [k EXCEPT !.value = [@ EXCEPT ![t] = v],
                     !.expired = [@ EXCEPT ![t] = FALSE]] : v \in Worn(k.value[t]) }
    ELSE {k}

\* A preempted task that is not put back on the tree.
PutNowhere(k, t) == {SetCurr(k, NULL)}

put_prev_hvf_entity(k, t) ==
    { SetCurr(k1, NULL) :
      k1 \in IF k.on[t] THEN {k} ELSE enqueue_hvf_entity(k, t) }

put_prev_task_hvf(k, t, running) ==
    IF running
    THEN UNION { UNION { put_prev_hvf_entity(k2, t) : k2 \in Aged(k1, t) } :
                 k1 \in Billed(k, t) }
    ELSE Billed(k, t)

task_dead_hvf(k, t) ==
    LET off == IF k.on[t] THEN dequeue_hvf_entity(k, t) ELSE k
    IN  SetCurr(off, NULL)

\* A pick from the wrong end of the tree.
PickFirst(k) == IF k.queue = <<>> THEN Idle ELSE k.queue[1]

pick_task_hvf(k) == IF k.queue = <<>> THEN Idle ELSE k.max

-----------------------------------------------------------------------------
\* What the fields owe each other.

\* Tree, on_rq flags, nr_hvf_queued and the cache describe the same entities.
Linked(k) ==
    /\ \A i, j \in 1 .. Len(k.queue) : k.queue[i] = k.queue[j] => i = j
    /\ \A t \in Tasks : k.on[t] <=> t \in Queued(k)
    /\ k.nr = Len(k.queue)
    /\ k.max # NULL => k.max \in Queued(k)

\* The tree is in the order of the values.
Sorted(k) ==
    \A i, j \in 1 .. Len(k.queue) :
        i < j => k.value[k.queue[i]] =< k.value[k.queue[j]]

\* The cache holds an entity of the highest value.
Maximal(k) ==
    IF k.queue = <<>> THEN k.max = NULL
    ELSE /\ k.max \in Queued(k)
         /\ \A t \in Queued(k) : k.value[t] =< k.value[k.max]
=============================================================================
