---------------------------- MODULE HvfCpuProofs ----------------------------
(***************************************************************************)
(* What one CPU keeps, for any number of tasks and any range of values:    *)
(*   - under any workload, the types and the agreement of tree, flags,     *)
(*     counter and cache (Typed);                                          *)
(*   - while no running task changes class or task group, the order of the *)
(*     tree and one place for every task (Placed), which give the cached   *)
(*     maximum, the pick of the highest value and a CPU that only runs     *)
(*     runnable tasks.                                                     *)
(***************************************************************************)
EXTENDS HvfCpu, HvfRqProofs

\* The inductive invariant of any workload.
Typed ==
    /\ Good(rq)
    /\ state \in [Tasks -> {"running", "sleeping", "dead"}]
    /\ on_rq \in [Tasks -> BOOLEAN] /\ class \in [Tasks -> Classes]
    /\ curr \in Tasks \cup {Idle, NULL}
    /\ resched \in BOOLEAN /\ oops \in BOOLEAN
    /\ dying \in Tasks \cup {NULL}

RunsHvf(t) == t \in Tasks /\ class[t] = "hvf"

\* Whether dequeue_task_hvf lets t go.
Lets(k, t) == Dequeues(k, t, IsRunning(t))

\* set_next_task with first set: what __schedule makes of its choice.
Given(k, t) ==
    IF RunsHvf(t)
    THEN SetCurr(IF k.on[t] THEN dequeue_hvf_entity(k, t) ELSE k, t)
    ELSE k

-----------------------------------------------------------------------------
\* The dispatch to the classes.

\* An entity's flag tells whether it is on the tree.
LEMMA FlagOfQueued ==
    ASSUME NEW k, Good(k), NEW t \in Tasks
    PROVE  /\ k.on[t] <=> t \in Queued(k)
           /\ Queued(k) \subseteq Tasks
           /\ k.max = NULL \/ k.max \in Queued(k)
BY DEF Good, Linked, IsRq, Queued

\* The members of the fair class are no business of the tree.
LEMMA FairSet ==
    ASSUME NEW k, Good(k), NEW S, S \subseteq Tasks,
           NEW r, r = [k EXCEPT !.fair = S]
    PROVE  /\ Good(r) /\ Queued(r) = Queued(k)
           /\ r.hcurr = k.hcurr /\ r.fair = S /\ r.value = k.value
           /\ Ordered(k) => Ordered(r)
<1>1. /\ DOMAIN r = RqFields /\ r.hcurr = k.hcurr
      /\ r.queue = k.queue /\ r.max = k.max /\ r.nr = k.nr /\ r.on = k.on
      /\ r.nr_running = k.nr_running /\ r.fair = S /\ r.value = k.value
      /\ r.expired = k.expired /\ r.worth = k.worth /\ r.over = k.over
  BY DEF Good, IsRq, RqFields
<1> QED BY <1>1 DEF Good, IsRq, Linked, Queued, Ordered, Sorted

\* What enqueue_task leaves of k.
EnqueuedAs(k, t, c, r) ==
    /\ Good(r) /\ r.hcurr = k.hcurr
    /\ r.fair = IF c = "fair" THEN k.fair \cup {t} ELSE k.fair
    /\ Queued(r) = IF c = "hvf" /\ k.hcurr # t THEN Queued(k) \cup {t}
                                                ELSE Queued(k)
    /\ t \notin Queued(k) /\ Ordered(k) => Ordered(r)

\* enqueue_task: an HVF task that is not the class's current one goes on the tree.
LEMMA EnqueueClass ==
    ASSUME NEW k, Good(k), NEW t \in Tasks, NEW c \in Classes, NEW how,
           NEW r \in enqueue_task(k, t, c, how)
    PROVE  EnqueuedAs(k, t, c, r)
<1>1. CASE c = "hvf"
  <2>1. r \in enqueue_task_hvf(k, t, how)
    BY <1>1 DEF enqueue_task
  <2>2. k.on[t] <=> t \in Queued(k)
    BY FlagOfQueued
  <2>3. /\ Good(r) /\ r.hcurr = k.hcurr /\ r.fair = k.fair
        /\ Queued(r) = IF k.hcurr = t THEN Queued(k) ELSE Queued(k) \cup {t}
        /\ ~k.on[t] /\ Ordered(k) => Ordered(r)
    BY <2>1, EnqueueTask
  <2> QED BY <1>1, <2>2, <2>3 DEF EnqueuedAs
<1>2. CASE c = "fair"
  <2>1. PICK l : l = [k EXCEPT !.fair = k.fair \cup {t}]
    OBVIOUS
  <2>2. r = IncRunning(l)
    BY <1>2, <2>1 DEF enqueue_task
  <2>3. k.fair \cup {t} \subseteq Tasks
    BY DEF Good, IsRq
  <2>4. /\ Good(l) /\ Queued(l) = Queued(k)
        /\ l.hcurr = k.hcurr /\ l.fair = k.fair \cup {t}
        /\ Ordered(k) => Ordered(l)
    BY <2>1, <2>3, FairSet
  <2>5. /\ Good(r) /\ Queued(r) = Queued(l)
        /\ r.hcurr = l.hcurr /\ r.fair = l.fair
        /\ Ordered(l) => Ordered(r)
    BY <2>2, <2>4, CountersGood
  <2> QED BY <1>2, <2>4, <2>5 DEF EnqueuedAs
<1> QED BY <1>1, <1>2 DEF Classes

\* What dequeue_task leaves of k.
DequeuedAs(k, t, c, r) ==
    /\ Good(r) /\ r.value = k.value
    /\ r.fair = IF c = "fair" THEN k.fair \ {t} ELSE k.fair
    /\ c = "fair" => r.hcurr = k.hcurr /\ Queued(r) = Queued(k)
    /\ c = "hvf" =>
          /\ r.hcurr = IF k.hcurr = t /\ Lets(k, t)
                       THEN NULL ELSE k.hcurr
          /\ Queued(r) = IF Lets(k, t)
                         THEN Queued(k) \ {t} ELSE Queued(k)
    /\ Ordered(k) => Ordered(r)

\* dequeue_task: the fair class never refuses; the HVF class may.
LEMMA DequeueClass ==
    ASSUME NEW k, Good(k), NEW t \in Tasks, NEW c \in Classes,
           NEW r, r = dequeue_task(k, t, c)
    PROVE  DequeuedAs(k, t, c, r)
<1>1. CASE c = "hvf"
  <2>1. r = dequeue_task_hvf(k, t, IsRunning(t))
    BY <1>1 DEF dequeue_task
  <2>2. PICK b : b = IsRunning(t)
    OBVIOUS
  <2>3. r = dequeue_task_hvf(k, t, b)
    BY <2>1, <2>2
  <2>4. /\ Good(r) /\ r.fair = k.fair /\ r.value = k.value
        /\ r.hcurr = IF k.hcurr = t /\ Dequeues(k, t, b) THEN NULL ELSE k.hcurr
        /\ Queued(r) = IF Dequeues(k, t, b) THEN Queued(k) \ {t} ELSE Queued(k)
        /\ Ordered(k) => Ordered(r)
    BY <2>3, DequeueTask
  <2>5. Dequeues(k, t, b) <=> Lets(k, t)
    BY <2>2 DEF Lets
  <2> QED BY <1>1, <2>4, <2>5 DEF DequeuedAs
<1>2. CASE c = "fair"
  <2>1. PICK l : l = [k EXCEPT !.fair = k.fair \ {t}]
    OBVIOUS
  <2>2. r = DecRunning(l)
    BY <1>2, <2>1 DEF dequeue_task
  <2>3. k.fair \ {t} \subseteq Tasks
    BY DEF Good, IsRq
  <2>4. /\ Good(l) /\ Queued(l) = Queued(k)
        /\ l.hcurr = k.hcurr /\ l.fair = k.fair \ {t} /\ l.value = k.value
        /\ Ordered(k) => Ordered(l)
    BY <2>1, <2>3, FairSet
  <2>5. /\ Good(r) /\ Queued(r) = Queued(l)
        /\ r.hcurr = l.hcurr /\ r.fair = l.fair /\ r.value = l.value
        /\ Ordered(l) => Ordered(r)
    BY <2>2, <2>4, CountersGood
  <2> QED BY <1>2, <2>4, <2>5 DEF DequeuedAs
<1> QED BY <1>1, <1>2 DEF Classes

\* put_prev_task: an HVF task that is still running goes back on the tree.
LEMMA PutPrevClass ==
    ASSUME NEW k, Good(k), NEW t, NEW running \in BOOLEAN,
           NEW r \in put_prev_task(k, t, running)
    PROVE  /\ Good(r) /\ r.fair = k.fair
           /\ r.hcurr = IF RunsHvf(t) /\ running THEN NULL ELSE k.hcurr
           /\ Queued(r) = IF RunsHvf(t) /\ running THEN Queued(k) \cup {t}
                                                   ELSE Queued(k)
           /\ t \notin Queued(k) /\ Ordered(k) => Ordered(r)
<1>1. CASE RunsHvf(t)
  <2>1. t \in Tasks /\ r \in put_prev_task_hvf(k, t, running)
    BY <1>1 DEF put_prev_task, RunsHvf
  <2>2. k.on[t] <=> t \in Queued(k)
    BY <2>1, FlagOfQueued
  <2>3. /\ Good(r) /\ r.fair = k.fair
        /\ r.hcurr = IF running THEN NULL ELSE k.hcurr
        /\ Queued(r) = IF running THEN Queued(k) \cup {t} ELSE Queued(k)
        /\ ~k.on[t] /\ Ordered(k) => Ordered(r)
    BY <2>1, PutPrevTask
  <2> QED BY <1>1, <2>2, <2>3
<1>2. CASE ~RunsHvf(t)
  <2>1. r = k
    BY <1>2 DEF put_prev_task, RunsHvf
  <2> QED BY <1>2, <2>1
<1> QED BY <1>1, <1>2

\* set_next_task: an HVF task leaves the tree and becomes the class's current one.
LEMMA SetNextClass ==
    ASSUME NEW k, Good(k), NEW t, NEW r, r = Given(k, t)
    PROVE  /\ Good(r) /\ r.fair = k.fair
           /\ r.hcurr = IF RunsHvf(t) THEN t ELSE k.hcurr
           /\ Queued(r) = IF RunsHvf(t) THEN Queued(k) \ {t} ELSE Queued(k)
           /\ Ordered(k) => Ordered(r)
<1>1. CASE RunsHvf(t)
  <2> PICK o : o = IF k.on[t] THEN dequeue_hvf_entity(k, t) ELSE k
    OBVIOUS
  <2>1. t \in Tasks /\ r = SetCurr(o, t)
    BY <1>1 DEF RunsHvf, Given
  <2>2. /\ Good(r) /\ r.fair = k.fair
        /\ r.hcurr = t /\ Queued(r) = Queued(k) \ {t}
        /\ Ordered(k) => Ordered(r)
    BY <2>1, SetNextTask
  <2> QED BY <1>1, <2>2
<1>2. CASE ~RunsHvf(t)
  BY <1>2 DEF Given
<1> QED BY <1>1, <1>2

\* What __pick_next_task may return.
LEMMA PickOf ==
    ASSUME NEW k, Good(k), NEW t \in Picks(k)
    PROVE  /\ t = Idle \/ t \in k.fair \/ t = k.max
           /\ t \in Tasks \cup {Idle, NULL}
           /\ Ordered(k) => \/ t = Idle \/ t \in k.fair
                            \/ t \in Queued(k) /\ t = k.max
<1>1. t = Idle \/ t \in k.fair \/ (k.queue # <<>> /\ t = k.max)
  BY DEF Picks, pick_task_hvf
<1>2. k.fair \subseteq Tasks /\ k.queue \in Seq(Tasks)
  BY DEF Good, IsRq
<1>3. k.max = NULL \/ k.max \in Tasks
  BY <1>2 DEF Good, Linked, Queued
<1>4. Ordered(k) /\ k.queue # <<>> => k.max \in Queued(k)
  <2> SUFFICES ASSUME Ordered(k), k.queue # <<>> PROVE k.max \in Queued(k)
    OBVIOUS
  <2>1. k.max = k.queue[Len(k.queue)]
    BY DEF Ordered, rb_last
  <2>2. Len(k.queue) \in 1 .. Len(k.queue)
    BY <1>2
  <2> QED BY <2>1, <2>2 DEF Queued
<1> QED BY <1>1, <1>2, <1>3, <1>4

\* The outcome of __schedule, prev having been dequeued or not, in one formula.
LEMMA SwitchOf ==
    ASSUME NEW k, Good(k), NEW st, NEW q, Switch(k, st, q)
    PROVE  /\ curr' \in Picks(k) /\ state' = st /\ on_rq' = q
           /\ class' = class /\ resched' = FALSE
           /\ oops' = (curr' \notin {t \in Tasks : q[t]} \cup {Idle})
           /\ Good(rq') /\ rq'.fair = k.fair
           /\ dying' \in {dying, curr, NULL}
           /\ dying' # dying => dying' \in Tasks \cup {NULL}
           /\ curr' = curr => rq' = k
           /\ curr' # curr =>
                 LET back == RunsHvf(curr) /\ st[curr] = "running"
                     left == IF back THEN Queued(k) \cup {curr} ELSE Queued(k)
                 IN  /\ Queued(rq') = IF RunsHvf(curr') THEN left \ {curr'} ELSE left
                     /\ rq'.hcurr = IF RunsHvf(curr') THEN curr'
                                    ELSE IF back THEN NULL ELSE k.hcurr
                     /\ curr \notin Queued(k) /\ Ordered(k) => Ordered(rq')
<1>1. PICK next \in Picks(k) :
        /\ on_rq' = q /\ state' = st /\ resched' = FALSE /\ class' = class
        /\ curr' = next
        /\ oops' = (next \notin {t \in Tasks : q[t]} \cup {Idle})
        /\ IF next = curr
           THEN rq' = k /\ dying' = dying
           ELSE /\ dying' = IF curr \in Tasks /\ st[curr] = "dead" THEN curr ELSE NULL
                /\ \E k1 \in put_prev_task(k, curr, curr \in Tasks /\ st[curr] = "running") :
                      rq' = IF next \in Tasks THEN set_next_task(k1, next, class[next], TRUE)
                                              ELSE k1
  BY DEF Switch
<1>2. CASE curr' = curr
  BY <1>1, <1>2
<1>3. CASE curr' # curr
  <2>1. PICK b \in BOOLEAN : b = (curr \in Tasks /\ st[curr] = "running")
    OBVIOUS
  <2>2. PICK k1 \in put_prev_task(k, curr, b) :
          rq' = IF next \in Tasks THEN set_next_task(k1, next, class[next], TRUE) ELSE k1
    BY <1>1, <1>3, <2>1
  <2>3. /\ Good(k1) /\ k1.fair = k.fair
        /\ k1.hcurr = IF RunsHvf(curr) /\ b THEN NULL ELSE k.hcurr
        /\ Queued(k1) = IF RunsHvf(curr) /\ b THEN Queued(k) \cup {curr} ELSE Queued(k)
        /\ curr \notin Queued(k) /\ Ordered(k) => Ordered(k1)
    BY <2>2, PutPrevClass
  <2>4. /\ Good(rq') /\ rq'.fair = k1.fair
        /\ rq'.hcurr = IF RunsHvf(next) THEN next ELSE k1.hcurr
        /\ Queued(rq') = IF RunsHvf(next) THEN Queued(k1) \ {next} ELSE Queued(k1)
        /\ Ordered(k1) => Ordered(rq')
    <3>1. rq' = Given(k1, next)
      BY <2>2 DEF set_next_task, set_next_task_hvf, RunsHvf, Given
    <3> QED BY <2>3, <3>1, SetNextClass
  <2>5. (RunsHvf(curr) /\ b) <=> (RunsHvf(curr) /\ st[curr] = "running")
    BY <2>1 DEF RunsHvf
  <2> QED BY <1>1, <1>3, <2>3, <2>4, <2>5
<1> QED BY <1>2, <1>3

\* The dequeue / put_prev / enqueue / set_next sandwich, step by step: the last of
\* them changes nothing, because it is not the first set_next of the task.
LEMMA SandwichOf ==
    ASSUME NEW t \in Tasks, NEW c, NEW d, NEW how, NEW r \in Sandwich(t, c, d, how)
    PROVE  \E out, put :
              /\ out = IF on_rq[t] THEN dequeue_task(rq, t, c) ELSE rq
              /\ IF t = curr THEN put \in put_prev_task(out, t, IsRunning(t))
                             ELSE put = out
              /\ IF on_rq[t] THEN r \in enqueue_task(put, t, d, how) ELSE r = put
<1> DEFINE out == IF on_rq[t] THEN dequeue_task(rq, t, c) ELSE rq
           back(k) == IF on_rq[t] THEN enqueue_task(k, t, d, how) ELSE {k}
           puts == IF t = curr THEN put_prev_task(out, t, IsRunning(t)) ELSE {out}
<1>1. \A k : (IF t = curr THEN set_next_task(k, t, d, FALSE) ELSE k) = k
  BY DEF set_next_task, set_next_task_hvf
<1>2. r \in UNION { back(k1) : k1 \in puts }
  <2> DEFINE S == UNION { back(k1) : k1 \in puts }
  <2>1. r \in { IF t = curr THEN set_next_task(k, t, d, FALSE) ELSE k : k \in S }
    BY DEF Sandwich
  <2> HIDE DEF S
  <2>2. PICK k \in S : r = IF t = curr THEN set_next_task(k, t, d, FALSE) ELSE k
    BY <2>1
  <2>3. r \in S
    BY <1>1, <2>2
  <2> QED BY <2>3 DEF S
<1>3. PICK put \in puts : r \in back(put)
  BY <1>2
<1> HIDE DEF out
<1>4. /\ IF t = curr THEN put \in put_prev_task(out, t, IsRunning(t)) ELSE put = out
      /\ IF on_rq[t] THEN r \in enqueue_task(put, t, d, how) ELSE r = put
  BY <1>3
<1> QED BY <1>4 DEF out

\* The sandwich keeps a run queue in order of its kind, whatever the task is.
LEMMA SandwichGood ==
    ASSUME Typed, NEW t \in Tasks, NEW d \in Classes, NEW how,
           NEW r \in Sandwich(t, class[t], d, how)
    PROVE  Good(r)
<1>1. PICK out, put :
        /\ out = IF on_rq[t] THEN dequeue_task(rq, t, class[t]) ELSE rq
        /\ IF t = curr THEN put \in put_prev_task(out, t, IsRunning(t)) ELSE put = out
        /\ IF on_rq[t] THEN r \in enqueue_task(put, t, d, how) ELSE r = put
  BY SandwichOf
<1>2. Good(rq) /\ class[t] \in Classes
  BY DEF Typed
<1>3. Good(out)
  BY <1>1, <1>2, DequeueClass DEF DequeuedAs
<1>4. Good(put)
  <2>1. PICK b \in BOOLEAN : b = IsRunning(t)
    BY DEF IsRunning
  <2> QED BY <1>1, <1>3, <2>1, PutPrevClass
<1> QED BY <1>1, <1>4, EnqueueClass DEF EnqueuedAs

\* A change of the parameters of t touches nothing but t.
LEMMA GivenParams ==
    ASSUME NEW k, Good(k), NEW t \in Tasks, NEW w \in Values, NEW b \in BOOLEAN,
           NEW r, r = [k EXCEPT !.worth = [@ EXCEPT ![t] = w],
                                !.over = [@ EXCEPT ![t] = b]]
    PROVE  Touched(k, r, t)
BY DEF Good, IsRq, RqFields, Touched

\* So does what a change of class does to them.
LEMMA ReparametrisedTouches ==
    ASSUME NEW k, Good(k), NEW t \in Tasks, NEW d, NEW r \in Reparametrised(k, t, d)
    PROVE  Touched(k, r, t)
<1> DEFINE given(w, b) == [k EXCEPT !.worth = [@ EXCEPT ![t] = w],
                                    !.over = [@ EXCEPT ![t] = b]]
<1>1. PICK w \in Values, b \in BOOLEAN :
        r = given(w, b) \/ r = compute_init_sched_value(given(w, b), t)
  <2>1. CASE d = "hvf"
    <3>1. r \in UNION { UNION { {given(w, b), compute_init_sched_value(given(w, b), t)} :
                                b \in BOOLEAN } : w \in Values }
      BY <2>1 DEF Reparametrised
    <3> HIDE DEF given
    <3> QED BY <3>1
  <2>2. CASE d # "hvf"
    <3>1. r \in { given(0, b) : b \in BOOLEAN }
      BY <2>2 DEF Reparametrised
    <3>2. 0 \in Values
      BY RqAssumption DEF Values
    <3> HIDE DEF given
    <3> QED BY <3>1, <3>2
  <2> QED BY <2>1, <2>2
<1>2. PICK g : g = given(w, b)
  OBVIOUS
<1>3. Touched(k, g, t)
  BY <1>2, GivenParams
<1>4. Good(g)
  BY <1>3, TouchedGood
<1>5. CASE r = g
  BY <1>3, <1>5
<1>6. CASE r = compute_init_sched_value(g, t)
  <2>1. Touched(g, r, t)
    BY <1>4, <1>6, ComputeTouches
  <2> QED BY <1>3, <2>1, TouchedTwice
<1> QED BY <1>1, <1>2, <1>5, <1>6

\* sched_tick marks the slice of the current task and touches nothing else.
LEMMA TickTouches ==
    ASSUME NEW k, Good(k), NEW t \in Tasks,
           NEW r, r = [k EXCEPT !.expired = [@ EXCEPT ![t] = TRUE]]
    PROVE  Touched(k, r, t)
BY DEF Good, IsRq, RqFields, Touched

-----------------------------------------------------------------------------
\* Any workload.

\* __schedule leaves everything in its type.
LEMMA SwitchTyped ==
    ASSUME Typed, NEW k, Good(k),
           NEW st \in [Tasks -> {"running", "sleeping", "dead"}],
           NEW q \in [Tasks -> BOOLEAN], Switch(k, st, q)
    PROVE  Typed'
<1>1. /\ curr' \in Picks(k) /\ state' = st /\ on_rq' = q
      /\ class' = class /\ resched' = FALSE
      /\ oops' = (curr' \notin {t \in Tasks : q[t]} \cup {Idle})
      /\ Good(rq')
      /\ dying' # dying => dying' \in Tasks \cup {NULL}
  BY SwitchOf
<1>2. curr' \in Tasks \cup {Idle, NULL}
  BY <1>1, PickOf
<1> QED BY <1>1, <1>2 DEF Typed

\* Whoever does a wakeup, the current task is marked or is not.
LEMMA PreemptBoolean ==
    ASSUME resched \in BOOLEAN, NEW k, NEW t, NEW m \in wakeup_preempt(k, t)
    PROVE  m \in BOOLEAN
<1>1. ASSUME m \in wakeup_preempt_hvf(k, t) PROVE m \in BOOLEAN
  BY <1>1, Zenon DEF wakeup_preempt_hvf
<1>2. m \in {resched, TRUE} \cup wakeup_preempt_hvf(k, t)
  BY Zenon DEF wakeup_preempt
<1> QED BY <1>1, <1>2, Zenon

\* At boot everything has its type and the tree is empty.
LEMMA TypedInit == Init => Typed
<1> SUFFICES ASSUME Init PROVE Typed
  OBVIOUS
<1>1. 0 \in Values /\ 0 \in 0 .. UIntMod - 1
  BY RqAssumption DEF Values
<1>2. /\ rq.queue = <<>> /\ rq.max = NULL /\ rq.hcurr = NULL /\ rq.nr = 0
      /\ rq.nr_running = 0 /\ rq.fair = {}
      /\ rq.on = [t \in Tasks |-> FALSE] /\ rq.value = [t \in Tasks |-> 0]
      /\ rq.expired = [t \in Tasks |-> FALSE] /\ rq.worth = [t \in Tasks |-> 0]
      /\ rq.over = [t \in Tasks |-> FALSE] /\ DOMAIN rq = RqFields
  BY DEF Init, EmptyRq, RqFields
<1>3. IsRq(rq)
  BY <1>1, <1>2 DEF IsRq
<1>4. Linked(rq)
  BY <1>2 DEF Linked, Queued
<1> QED BY <1>3, <1>4 DEF Init, Typed, Good, Classes

\* Every step of the kernel keeps the types and the tree consistent.
LEMMA TypedNext == Typed /\ [Next]_vars => Typed'
<1> SUFFICES ASSUME Typed, [Next]_vars PROVE Typed'
  OBVIOUS
<1>0. /\ Good(rq) /\ state \in [Tasks -> {"running", "sleeping", "dead"}]
      /\ on_rq \in [Tasks -> BOOLEAN] /\ class \in [Tasks -> Classes]
  BY DEF Typed
<1>1. CASE ScheduleRunning
  BY <1>0, <1>1, SwitchTyped DEF ScheduleRunning
<1>2. CASE ScheduleBlocking
  <2> DEFINE gone == class[curr] = "fair" \/ Dequeues(rq, curr, FALSE)
  <2>1. /\ curr \in Tasks
        /\ Switch(dequeue_task(rq, curr, class[curr]), state,
                  [on_rq EXCEPT ![curr] = @ /\ ~gone])
    BY <1>2 DEF ScheduleBlocking
  <2> HIDE DEF gone
  <2>2. Good(dequeue_task(rq, curr, class[curr]))
    BY <1>0, <2>1, DequeueClass DEF DequeuedAs
  <2>3. [on_rq EXCEPT ![curr] = @ /\ ~gone] \in [Tasks -> BOOLEAN]
    BY <1>0
  <2> QED BY <1>0, <2>1, <2>2, <2>3, SwitchTyped
<1>3. CASE ScheduleSignalled
  <2>1. [state EXCEPT ![curr] = "running"] \in [Tasks -> {"running", "sleeping", "dead"}]
    BY <1>0
  <2> QED BY <1>0, <1>3, <2>1, SwitchTyped DEF ScheduleSignalled
<1>4. CASE ScheduleIdle
  <2>1. CASE rq.nr_running = 0
    BY <1>4, <2>1 DEF ScheduleIdle, Typed
  <2>2. CASE rq.nr_running # 0
    BY <1>0, <1>4, <2>2, SwitchTyped DEF ScheduleIdle
  <2> QED BY <2>1, <2>2
<1>5. CASE FinishDead
  <2>1. dying \in Tasks
    BY <1>5 DEF FinishDead, Typed
  <2>2. Good(rq')
    BY <1>0, <1>5, <2>1, TaskDead DEF FinishDead
  <2> QED BY <1>5, <2>2 DEF FinishDead, Typed
<1>6. CASE sched_tick
  <2>1. CASE class[curr] = "hvf"
    <3>1. curr \in Tasks /\ rq' = [rq EXCEPT !.expired = [@ EXCEPT ![curr] = TRUE]]
      BY <1>6, <2>1 DEF sched_tick
    <3>2. Good(rq')
      BY <1>0, <3>1, TickTouches, TouchedGood
    <3> QED BY <1>6, <3>2 DEF sched_tick, Typed
  <2>2. CASE class[curr] # "hvf"
    BY <1>6, <2>2 DEF sched_tick, Typed
  <2> QED BY <2>1, <2>2
<1>7. ASSUME NEW s \in {"sleeping", "dead"}, SetState(s) PROVE Typed'
  BY <1>7 DEF SetState, Typed
<1>8. ASSUME NEW w \in Values, NEW b \in BOOLEAN, SetParams(w, b) PROVE Typed'
  <2>1. /\ curr \in Tasks
        /\ rq' = [rq EXCEPT !.worth = [@ EXCEPT ![curr] = w],
                            !.over = [@ EXCEPT ![curr] = b]]
    BY <1>8 DEF SetParams
  <2>2. Good(rq')
    BY <1>0, <2>1, GivenParams, TouchedGood
  <2> QED BY <1>8, <2>2 DEF SetParams, Typed
<1>9. ASSUME NEW t \in Tasks, WakeQueued(t) PROVE Typed'
  <2>1. resched' \in BOOLEAN
    <3>1. resched' \in {resched} \cup wakeup_preempt(rq, t)
      BY <1>9, Zenon DEF WakeQueued
    <3> QED BY <3>1, PreemptBoolean DEF Typed
  <2> QED BY <1>9, <2>1 DEF WakeQueued, Typed
<1>10. ASSUME NEW t \in Tasks, WakeBlocked(t) PROVE Typed'
  <2>1. rq' \in enqueue_task(rq, t, class[t], "recompute")
    BY <1>10 DEF WakeBlocked
  <2>2. Good(rq')
    BY <1>0, <2>1, EnqueueClass DEF EnqueuedAs
  <2>3. resched' \in BOOLEAN
    <3>1. PICK k : resched' \in wakeup_preempt(k, t)
      BY <1>10, Zenon DEF WakeBlocked
    <3> QED BY <3>1, PreemptBoolean DEF Typed
  <2> QED BY <1>10, <2>2, <2>3 DEF WakeBlocked, Typed
<1>11. ASSUME NEW t \in Tasks, NEW d \in Classes, SetScheduler(t, d) PROVE Typed'
  <2>1. PICK k \in Sandwich(t, class[t], d, "changed") :
          rq' \in IF d = "hvf" /\ on_rq[t] THEN {k} ELSE Reparametrised(k, t, d)
    BY <1>11 DEF SetScheduler
  <2>2. Good(k)
    BY <2>1, SandwichGood
  <2>3. Good(rq')
    BY <2>1, <2>2, ReparametrisedTouches, TouchedGood
  <2>4. resched' \in BOOLEAN
    BY <1>11 DEF SetScheduler, Typed
  <2> QED BY <1>11, <2>3, <2>4 DEF SetScheduler, Typed
<1>12. ASSUME NEW t \in Tasks, sched_move_task(t) PROVE Typed'
  <2>1. class[t] = "hvf" /\ rq' \in Sandwich(t, class[t], "hvf", "recompute")
    BY <1>12 DEF sched_move_task
  <2>2. Good(rq')
    BY <2>1, SandwichGood DEF Classes
  <2> QED BY <1>12, <2>2 DEF sched_move_task, Typed
<1>13. CASE UNCHANGED vars
  BY <1>13 DEF vars, Typed
<1> QED
  BY <1>1, <1>2, <1>3, <1>4, <1>5, <1>6, <1>7, <1>8, <1>9, <1>10, <1>11, <1>12, <1>13
  DEF Next

\* Every variable keeps its type, whatever the workload does, and the counter of
\* runnable tasks stays an unsigned int: TypeOK of HvfCpu.
THEOREM TypeAlwaysOK == Spec => []TypeOK
<1>1. Typed => TypeOK
  <2> SUFFICES ASSUME Typed PROVE TypeOK
    OBVIOUS
  <2>1. IsRq(rq) /\ Linked(rq)
    BY DEF Typed, Good
  <2>2. rq.max \in Tasks \cup {NULL} /\ rq.nr \in Nat
    BY <2>1 DEF IsRq, Linked, Queued
  <2> QED BY <2>1, <2>2 DEF Typed, TypeOK, IsRq
<1> QED BY <1>1, TypedInit, TypedNext, PTL DEF Spec

\* Tree, on_rq flags, nr_hvf_queued and the cached entity agree whatever the
\* workload does: enqueue_hvf_entity never links an entity twice and
\* dequeue_hvf_entity never erases one that is not linked.
THEOREM TreeAlwaysConsistent == Spec => []TreeConsistent
<1>1. Typed => TreeConsistent
  BY DEF Typed, Good, TreeConsistent
<1> QED BY <1>1, TypedInit, TypedNext, PTL DEF Spec

-----------------------------------------------------------------------------
\* Workloads in which no running task changes class or task group.

\* The inductive invariant: the order of the tree needs that no key changes in
\* place, which holds because the task that is billed, aged or given parameters
\* is not on the tree.
Placed == Typed /\ Ordered(rq) /\ OnePlace /\ NoOops

\* What prev owes when the rest of __schedule begins.
Settled(k, st, q) ==
    /\ Good(k) /\ Ordered(k)
    /\ \A t \in Queued(k) : class[t] = "hvf" /\ q[t] /\ t # curr /\ t # k.hcurr
    /\ \A t \in k.fair : class[t] = "fair" /\ q[t]
    /\ RunsHvf(curr) /\ st[curr] = "running" => q[curr]

\* The choice of __schedule is runnable, and of the highest value among the
\* waiting tasks if it is an HVF task; everyone ends up in one place.
LEMMA SwitchPlaced ==
    ASSUME Typed, curr # NULL, NEW k, NEW st, NEW q, Settled(k, st, q), Switch(k, st, q)
    PROVE  /\ Ordered(rq') /\ OnePlace' /\ NoOops'
           /\ RunsHvf(curr') => \A t \in Queued(k) : k.value[t] =< k.value[curr']
<1>1. Good(k) /\ Ordered(k)
  BY DEF Settled
<1>2. /\ curr' \in Picks(k) /\ on_rq' = q /\ class' = class
      /\ oops' = (curr' \notin {t \in Tasks : q[t]} \cup {Idle})
      /\ rq'.fair = k.fair
      /\ curr' = curr => rq' = k
      /\ curr' # curr =>
            LET back == RunsHvf(curr) /\ st[curr] = "running"
                left == IF back THEN Queued(k) \cup {curr} ELSE Queued(k)
            IN  /\ Queued(rq') = IF RunsHvf(curr') THEN left \ {curr'} ELSE left
                /\ rq'.hcurr = IF RunsHvf(curr') THEN curr'
                               ELSE IF back THEN NULL ELSE k.hcurr
                /\ curr \notin Queued(k) /\ Ordered(k) => Ordered(rq')
  BY <1>1, SwitchOf
<1>3. \/ curr' = Idle \/ curr' \in k.fair
      \/ curr' \in Queued(k) /\ curr' = k.max
  BY <1>1, <1>2, PickOf
<1>4. k.fair \subseteq Tasks /\ Queued(k) \subseteq Tasks
  BY <1>1 DEF Good, IsRq, Queued
<1>5. curr \notin Queued(k)
  BY DEF Settled
<1>6. curr' = Idle \/ (curr' \in Tasks /\ q[curr'])
  BY <1>3, <1>4 DEF Settled
<1>7. NoOops'
  BY <1>2, <1>6 DEF NoOops
<1>8. Ordered(rq')
  BY <1>1, <1>2, <1>5
<1>9. OnePlace'
  <2>1. \A t \in Queued(rq') : class[t] = "hvf" /\ q[t] /\ t # curr' /\ t # rq'.hcurr
    <3>1. CASE curr' = curr
      BY <1>2, <3>1 DEF Settled
    <3>2. CASE curr' # curr
      <4> TAKE t \in Queued(rq')
      <4>1. class[t] = "hvf" /\ q[t] /\ t \in Tasks
        BY <1>2, <1>4, <3>2 DEF Settled, RunsHvf
      <4>2. t # curr'
        <5>1. CASE RunsHvf(curr')
          BY <1>2, <3>2, <5>1
        <5>2. CASE ~RunsHvf(curr')
          BY <4>1, <5>2 DEF RunsHvf
        <5> QED BY <5>1, <5>2
      <4>3. t # rq'.hcurr
        <5>1. CASE RunsHvf(curr')
          BY <1>2, <3>2, <4>2, <5>1
        <5>2. CASE ~RunsHvf(curr') /\ RunsHvf(curr) /\ st[curr] = "running"
          <6>1. rq'.hcurr = NULL
            BY <1>2, <3>2, <5>2
          <6> QED BY <4>1, <6>1, RqAssumption
        <5>3. CASE ~RunsHvf(curr') /\ ~(RunsHvf(curr) /\ st[curr] = "running")
          <6>1. rq'.hcurr = k.hcurr /\ Queued(rq') = Queued(k)
            BY <1>2, <3>2, <5>3
          <6> QED BY <6>1 DEF Settled
        <5> QED BY <5>1, <5>2, <5>3
      <4> QED BY <4>1, <4>2, <4>3
    <3> QED BY <3>1, <3>2
  <2>2. \A t \in rq'.fair : class[t] = "fair" /\ q[t]
    BY <1>2 DEF Settled
  <2> QED BY <1>2, <1>6, <2>1, <2>2 DEF OnePlace, Queued
<1>10. ASSUME RunsHvf(curr') PROVE \A t \in Queued(k) : k.value[t] =< k.value[curr']
  <2>1. curr' = k.max /\ curr' \in Queued(k)
    <3>1. curr' \notin k.fair
      BY <1>10 DEF Settled, RunsHvf
    <3>2. curr' # Idle
      BY <1>10, RqAssumption DEF RunsHvf
    <3> QED BY <1>3, <3>1, <3>2
  <2>2. Maximal(k)
    BY <1>1, OrderedIsMaximal
  <2> QED BY <2>1, <2>2 DEF Maximal, Queued
<1> QED BY <1>7, <1>8, <1>9, <1>10

\* A run queue r in which the sandwich has moved t, of the class d from now on.
MovedTo(t, d, r) ==
    /\ Good(r) /\ Ordered(r)
    /\ \A u \in Queued(r) : /\ u # r.hcurr
                            /\ \/ u \in Queued(rq) \ {t}
                               \/ u = t /\ d = "hvf" /\ on_rq[t]
    /\ \A u \in r.fair : \/ u \in rq.fair \ {t}
                         \/ u = t /\ d = "fair" /\ on_rq[t]
    /\ rq.hcurr # t =>
          /\ r.hcurr = rq.hcurr
          /\ Queued(rq) \ {t} \subseteq Queued(r)
          /\ d = "hvf" /\ on_rq[t] => t \in Queued(r)

\* The sandwich around a task that does not run moves that task only, from where
\* it was queued to where it belongs afterwards.
LEMMA SandwichPlaced ==
    ASSUME Placed, NEW t \in Tasks, t # curr, NEW d \in Classes, NEW how,
           NEW r \in Sandwich(t, class[t], d, how)
    PROVE  MovedTo(t, d, r)
<1>1. PICK out, put :
        /\ out = IF on_rq[t] THEN dequeue_task(rq, t, class[t]) ELSE rq
        /\ IF t = curr THEN put \in put_prev_task(out, t, IsRunning(t)) ELSE put = out
        /\ IF on_rq[t] THEN r \in enqueue_task(put, t, d, how) ELSE r = put
  BY SandwichOf
<1>2. /\ Good(rq) /\ Ordered(rq) /\ class[t] \in Classes
      /\ \A u \in Queued(rq) : u # rq.hcurr
      /\ t \in Queued(rq) => class[t] = "hvf" /\ on_rq[t]
      /\ t \in rq.fair => class[t] = "fair" /\ on_rq[t]
      /\ Queued(rq) \subseteq Tasks
  BY FlagOfQueued DEF Placed, Typed, OnePlace
<1>3. /\ Good(out) /\ Ordered(out)
      /\ Queued(out) = Queued(rq) \ {t} /\ out.fair = rq.fair \ {t}
      /\ out.hcurr = NULL \/ out.hcurr = rq.hcurr
      /\ rq.hcurr # t => out.hcurr = rq.hcurr
  <2>1. CASE ~on_rq[t]
    BY <1>1, <1>2, <2>1
  <2>2. CASE on_rq[t]
    <3>1. PICK c \in Classes : c = class[t]
      BY <1>2
    <3>2. out = dequeue_task(rq, t, c)
      BY <1>1, <2>2, <3>1
    <3>3. /\ Good(out)
          /\ out.fair = IF c = "fair" THEN rq.fair \ {t} ELSE rq.fair
          /\ c = "fair" => out.hcurr = rq.hcurr /\ Queued(out) = Queued(rq)
          /\ c = "hvf" =>
                /\ out.hcurr = IF rq.hcurr = t /\ Lets(rq, t)
                               THEN NULL ELSE rq.hcurr
                /\ Queued(out) = IF Lets(rq, t)
                                 THEN Queued(rq) \ {t} ELSE Queued(rq)
          /\ Ordered(rq) => Ordered(out)
      <4>1. DequeuedAs(rq, t, c, out)
        BY <1>2, <3>2, DequeueClass
      <4> QED BY <4>1 DEF DequeuedAs
    <3>4. t \in Queued(rq) => Lets(rq, t)
      <4>1. rq.on[t] <=> t \in Queued(rq)
        BY <1>2, FlagOfQueued
      <4> QED BY <1>2, <4>1 DEF Dequeues, Lets
    <3>5. CASE c = "fair"
      BY <1>2, <3>1, <3>3, <3>5
    <3>6. CASE c = "hvf"
      BY <1>2, <3>1, <3>3, <3>4, <3>6
    <3> QED BY <3>1, <3>5, <3>6 DEF Classes
  <2> QED BY <2>1, <2>2 DEF Placed, Typed
<1>4. CASE ~on_rq[t]
  <2>1. r = out
    BY <1>1, <1>4
  <2>2. \A u \in Queued(r) : u # r.hcurr
    BY <1>2, <1>3, <2>1, RqAssumption
  <2> QED BY <1>3, <1>4, <2>1, <2>2 DEF MovedTo
<1>5. CASE on_rq[t]
  <2>1. r \in enqueue_task(out, t, d, how)
    BY <1>1, <1>5
  <2>2. /\ Good(r) /\ r.hcurr = out.hcurr
        /\ r.fair = IF d = "fair" THEN out.fair \cup {t} ELSE out.fair
        /\ Queued(r) = IF d = "hvf" /\ out.hcurr # t THEN Queued(out) \cup {t}
                                                     ELSE Queued(out)
        /\ t \notin Queued(out) /\ Ordered(out) => Ordered(r)
    <3>1. EnqueuedAs(out, t, d, r)
      BY <1>3, <2>1, EnqueueClass
    <3> QED BY <3>1 DEF EnqueuedAs
  <2>3. \A u \in Queued(r) : u # r.hcurr
    BY <1>2, <1>3, <2>2, RqAssumption
  <2> QED BY <1>3, <1>5, <2>2, <2>3 DEF MovedTo
<1> QED BY <1>4, <1>5

\* A task that is not on the tree may be marked, billed or given parameters.
LEMMA TouchedPlaced ==
    ASSUME Placed, NEW t \in Tasks, t \notin Queued(rq), NEW r, Touched(rq, r, t)
    PROVE  /\ Ordered(r) /\ Queued(r) = Queued(rq)
           /\ r.hcurr = rq.hcurr /\ r.fair = rq.fair
<1>1. Good(rq) /\ Ordered(rq)
  BY DEF Placed, Typed
<1>2. ~rq.on[t]
  BY <1>1, FlagOfQueued
<1>3. Ordered(r) /\ Queued(r) = Queued(rq)
  BY <1>1, <1>2, TouchedGood
<1> QED BY <1>3 DEF Touched

\* __schedule begins settled, whether prev blocks or not.
LEMMA PlacedSettles ==
    ASSUME Placed, NEW st
    PROVE  Settled(rq, st, on_rq) /\ curr # NULL
<1>1. curr \in Tasks => on_rq[curr]
  BY RqAssumption DEF Placed, OnePlace
<1> QED BY <1>1, RqAssumption DEF Placed, Typed, OnePlace, Settled, RunsHvf

\* A task that blocks was on neither the tree nor, afterwards, in the fair class.
LEMMA BlockingSettles ==
    ASSUME Placed, curr \in Tasks, ~IsRunning(curr), NEW gone, NEW q, NEW k,
           gone = (class[curr] = "fair" \/ Dequeues(rq, curr, FALSE)),
           q = [on_rq EXCEPT ![curr] = @ /\ ~gone],
           k = dequeue_task(rq, curr, class[curr])
    PROVE  /\ Settled(k, state, q) /\ k.value = rq.value
           /\ Queued(k) = Queued(rq)
<1>1. /\ Good(rq) /\ Ordered(rq) /\ class[curr] \in Classes
      /\ on_rq \in [Tasks -> BOOLEAN]
      /\ \A t \in Queued(rq) : class[t] = "hvf" /\ on_rq[t] /\ t # curr /\ t # rq.hcurr
      /\ \A t \in rq.fair : class[t] = "fair" /\ on_rq[t]
      /\ Queued(rq) \subseteq Tasks /\ rq.fair \subseteq Tasks
  BY FlagOfQueued DEF Placed, Typed, OnePlace, Good, IsRq
<1>2. DequeuedAs(rq, curr, class[curr], k)
  BY <1>1, DequeueClass
<1>3. Dequeues(rq, curr, FALSE) <=> Lets(rq, curr)
  BY DEF Lets, Dequeues
<1>4. /\ Good(k) /\ Ordered(k) /\ k.value = rq.value
      /\ k.fair = rq.fair \ {curr} /\ Queued(k) = Queued(rq)
      /\ k.hcurr = NULL \/ k.hcurr = rq.hcurr
  <2>1. CASE class[curr] = "fair"
    BY <1>1, <1>2, <2>1 DEF DequeuedAs
  <2>2. CASE class[curr] = "hvf"
    BY <1>1, <1>2, <2>2 DEF DequeuedAs
  <2> QED BY <1>1, <2>1, <2>2 DEF Classes
<1>5. \A t \in Tasks \ {curr} : q[t] = on_rq[t]
  BY <1>1
<1>6. \A t \in Queued(k) : class[t] = "hvf" /\ q[t] /\ t # curr /\ t # k.hcurr
  <2> TAKE t \in Queued(k)
  <2>1. t \in Queued(rq) /\ t \in Tasks
    BY <1>1, <1>4
  <2>2. class[t] = "hvf" /\ on_rq[t] /\ t # curr /\ t # rq.hcurr
    BY <1>1, <2>1
  <2>3. q[t]
    BY <1>5, <2>1, <2>2
  <2>4. t # k.hcurr
    BY <1>4, <2>1, <2>2, RqAssumption
  <2> QED BY <2>2, <2>3, <2>4
<1>7. \A t \in k.fair : class[t] = "fair" /\ q[t]
  BY <1>1, <1>4, <1>5
<1>8. state[curr] # "running"
  BY DEF IsRunning
<1> QED BY <1>4, <1>6, <1>7, <1>8 DEF Settled

\* A step of the core that goes through __schedule: where it starts from.
LEMMA Scheduling ==
    ASSUME Placed, ScheduleRunning \/ ScheduleBlocking \/ ScheduleSignalled
                   \/ (ScheduleIdle /\ rq.nr_running # 0)
    PROVE  \E k, st, q : /\ Settled(k, st, q) /\ Switch(k, st, q) /\ curr # NULL
                         /\ k.value = rq.value /\ Queued(k) = Queued(rq)
<1>1. CASE ScheduleRunning
  <2>1. Switch(rq, state, on_rq)
    BY <1>1 DEF ScheduleRunning
  <2>2. Settled(rq, state, on_rq) /\ curr # NULL
    BY PlacedSettles
  <2> QED BY <2>1, <2>2
<1>2. CASE ScheduleBlocking
  <2>1. PICK gone : gone = (class[curr] = "fair" \/ Dequeues(rq, curr, FALSE))
    OBVIOUS
  <2>2. PICK q : q = [on_rq EXCEPT ![curr] = @ /\ ~gone]
    OBVIOUS
  <2>3. PICK k : k = dequeue_task(rq, curr, class[curr])
    OBVIOUS
  <2>4. curr \in Tasks /\ ~IsRunning(curr) /\ Switch(k, state, q)
    BY <1>2, <2>1, <2>2, <2>3 DEF ScheduleBlocking
  <2>5. Settled(k, state, q) /\ k.value = rq.value /\ Queued(k) = Queued(rq)
    BY <2>1, <2>2, <2>3, <2>4, BlockingSettles
  <2>6. curr # NULL
    BY PlacedSettles
  <2> QED BY <2>4, <2>5, <2>6
<1>3. CASE ScheduleSignalled
  <2>1. PICK st : st = [state EXCEPT ![curr] = "running"]
    OBVIOUS
  <2>2. Switch(rq, st, on_rq)
    BY <1>3, <2>1 DEF ScheduleSignalled
  <2>3. Settled(rq, st, on_rq) /\ curr # NULL
    BY PlacedSettles
  <2> QED BY <2>2, <2>3
<1>4. CASE ScheduleIdle /\ rq.nr_running # 0
  <2>1. Switch(rq, state, on_rq)
    BY <1>4 DEF ScheduleIdle
  <2>2. Settled(rq, state, on_rq) /\ curr # NULL
    BY PlacedSettles
  <2> QED BY <2>1, <2>2
<1> QED BY <1>1, <1>2, <1>3, <1>4

\* At boot the tree is empty and the CPU idle.
LEMMA PlacedInit == Init => Placed
<1> SUFFICES ASSUME Init PROVE Placed
  OBVIOUS
<1>1. rq.queue = <<>> /\ rq.max = NULL /\ rq.fair = {}
  BY DEF Init, EmptyRq
<1>2. Ordered(rq)
  BY <1>1 DEF Ordered, Sorted, rb_last
<1>3. OnePlace /\ NoOops
  BY <1>1 DEF Init, OnePlace, NoOops, Queued
<1> QED BY <1>2, <1>3, TypedInit DEF Placed

\* Every step keeps the order of the tree and one place for every task.
LEMMA PlacedNext ==
    ASSUME Ops \cap {"requeue", "join", "leave"} = {}
    PROVE  Placed /\ [Next]_vars => Placed'
<1> SUFFICES ASSUME Placed, [Next]_vars
             PROVE  Ordered(rq') /\ OnePlace' /\ NoOops'
  BY TypedNext DEF Placed
<1>0. /\ Good(rq) /\ Ordered(rq) /\ ~oops
      /\ on_rq \in [Tasks -> BOOLEAN] /\ class \in [Tasks -> Classes]
      /\ Queued(rq) \subseteq Tasks /\ rq.fair \subseteq Tasks
      /\ curr # NULL
      /\ curr \in Tasks => on_rq[curr]
  BY RqAssumption DEF Placed, Typed, OnePlace, NoOops, Good, IsRq, Queued
<1>1. ASSUME ScheduleRunning \/ ScheduleBlocking \/ ScheduleSignalled
             \/ (ScheduleIdle /\ rq.nr_running # 0)
      PROVE  Ordered(rq') /\ OnePlace' /\ NoOops'
  <2>1. PICK k, st, q : Settled(k, st, q) /\ Switch(k, st, q) /\ curr # NULL
    BY <1>1, Scheduling
  <2> QED BY <2>1, SwitchPlaced DEF Placed
<1>2. CASE ScheduleIdle /\ rq.nr_running = 0
  BY <1>2 DEF ScheduleIdle, Placed, OnePlace, NoOops, Queued
<1>3. CASE FinishDead
  <2>1. PICK r : r = rq'
    OBVIOUS
  <2>2. /\ Ordered(r) /\ r.fair = rq.fair /\ Queued(r) \subseteq Queued(rq)
        /\ r.hcurr = NULL \/ r.hcurr = rq.hcurr
    <3>1. CASE class[dying] = "hvf"
      <4>1. dying \in Tasks /\ r = task_dead_hvf(rq, dying)
        BY <1>3, <2>1, <3>1 DEF FinishDead, Placed, Typed
      <4> QED BY <1>0, <4>1, TaskDead
    <3>2. CASE class[dying] # "hvf"
      BY <1>0, <1>3, <2>1, <3>2 DEF FinishDead
    <3> QED BY <3>1, <3>2
  <2>3. \A t \in Queued(r) : class[t] = "hvf" /\ on_rq[t] /\ t # curr /\ t # r.hcurr
    BY <1>0, <2>2, RqAssumption DEF Placed, OnePlace
  <2> QED BY <1>3, <2>1, <2>2, <2>3 DEF FinishDead, Placed, OnePlace, NoOops, Queued
<1>4. CASE sched_tick
  <2>1. CASE class[curr] = "hvf"
    <3>1. curr \in Tasks /\ Touched(rq, rq', curr)
      BY <1>0, <1>4, <2>1, TickTouches DEF sched_tick
    <3>2. curr \notin Queued(rq)
      BY DEF Placed, OnePlace
    <3>3. /\ Ordered(rq') /\ Queued(rq') = Queued(rq)
          /\ rq'.hcurr = rq.hcurr /\ rq'.fair = rq.fair
      BY <3>1, <3>2, TouchedPlaced
    <3> QED BY <1>4, <3>3 DEF sched_tick, Placed, OnePlace, NoOops, Queued
  <2>2. CASE class[curr] # "hvf"
    BY <1>4, <2>2 DEF sched_tick, Placed, OnePlace, NoOops, Queued
  <2> QED BY <2>1, <2>2
<1>5. ASSUME NEW s \in {"sleeping", "dead"}, SetState(s)
      PROVE  Ordered(rq') /\ OnePlace' /\ NoOops'
  BY <1>5 DEF SetState, Placed, OnePlace, NoOops, Queued
<1>6. ASSUME NEW w \in Values, NEW b \in BOOLEAN, SetParams(w, b)
      PROVE  Ordered(rq') /\ OnePlace' /\ NoOops'
  <2>1. curr \in Tasks /\ Touched(rq, rq', curr)
    BY <1>0, <1>6, GivenParams DEF SetParams
  <2>2. curr \notin Queued(rq)
    BY DEF Placed, OnePlace
  <2>3. /\ Ordered(rq') /\ Queued(rq') = Queued(rq)
        /\ rq'.hcurr = rq.hcurr /\ rq'.fair = rq.fair
    BY <2>1, <2>2, TouchedPlaced
  <2> QED BY <1>6, <2>3 DEF SetParams, Placed, OnePlace, NoOops, Queued
<1>7. ASSUME NEW t \in Tasks, WakeQueued(t)
      PROVE  Ordered(rq') /\ OnePlace' /\ NoOops'
  BY <1>7 DEF WakeQueued, Placed, OnePlace, NoOops, Queued
<1>8. ASSUME NEW t \in Tasks, WakeBlocked(t)
      PROVE  Ordered(rq') /\ OnePlace' /\ NoOops'
  <2>1. PICK r, c : r = rq' /\ c = class[t]
    OBVIOUS
  <2>2. r \in enqueue_task(rq, t, c, "recompute") /\ ~on_rq[t] /\ c \in Classes
    BY <1>0, <1>8, <2>1 DEF WakeBlocked
  <2>3. t \notin Queued(rq) /\ t # curr
    <3>1. t \notin Queued(rq)
      BY <2>2 DEF Placed, OnePlace
    <3>2. t # curr
      BY <2>2, RqAssumption DEF Placed, OnePlace
    <3> QED BY <3>1, <3>2
  <2>4. /\ Good(r) /\ r.hcurr = rq.hcurr
        /\ r.fair = IF c = "fair" THEN rq.fair \cup {t} ELSE rq.fair
        /\ Queued(r) = IF c = "hvf" /\ rq.hcurr # t THEN Queued(rq) \cup {t}
                                                    ELSE Queued(rq)
        /\ Ordered(r)
    <3>1. EnqueuedAs(rq, t, c, r)
      BY <1>0, <2>2, EnqueueClass
    <3> QED BY <1>0, <2>3, <3>1 DEF EnqueuedAs
  <2>5. on_rq' = [on_rq EXCEPT ![t] = TRUE] /\ class' = class /\ curr' = curr /\ oops' = oops
    BY <1>8 DEF WakeBlocked
  <2>6. \A u \in Tasks : on_rq[u] \/ u = t => on_rq'[u]
    BY <1>0, <2>5
  <2>7. \A u \in Queued(r) : class[u] = "hvf" /\ on_rq'[u] /\ u # curr /\ u # r.hcurr
    BY <1>0, <2>1, <2>3, <2>4, <2>6 DEF Placed, OnePlace
  <2>8. \A u \in r.fair : class[u] = "fair" /\ on_rq'[u]
    BY <1>0, <2>1, <2>4, <2>6 DEF Placed, OnePlace
  <2>9. curr = Idle \/ (curr \in Tasks /\ on_rq'[curr])
    BY <2>6 DEF Placed, OnePlace
  <2> QED BY <2>1, <2>4, <2>5, <2>7, <2>8, <2>9 DEF Placed, OnePlace, NoOops, Queued
<1>9. ASSUME NEW t \in Tasks, NEW d \in Classes, SetScheduler(t, d)
      PROVE  Ordered(rq') /\ OnePlace' /\ NoOops'
  <2>1. t # curr
    BY <1>9 DEF SetScheduler
  <2>2. PICK k \in Sandwich(t, class[t], d, "changed") :
          rq' \in IF d = "hvf" /\ on_rq[t] THEN {k} ELSE Reparametrised(k, t, d)
    BY <1>9 DEF SetScheduler
  <2>3. /\ Good(k) /\ Ordered(k)
        /\ \A u \in Queued(k) : /\ u # k.hcurr
                                /\ \/ u \in Queued(rq) \ {t}
                                   \/ u = t /\ d = "hvf" /\ on_rq[t]
        /\ \A u \in k.fair : \/ u \in rq.fair \ {t}
                             \/ u = t /\ d = "fair" /\ on_rq[t]
    <3>1. MovedTo(t, d, k)
      BY <2>1, <2>2, SandwichPlaced
    <3> QED BY <3>1 DEF MovedTo
  <2>4. PICK r : r = rq'
    OBVIOUS
  <2>5. Ordered(r) /\ Queued(r) = Queued(k) /\ r.hcurr = k.hcurr /\ r.fair = k.fair
    <3>1. CASE d = "hvf" /\ on_rq[t]
      BY <2>2, <2>3, <2>4, <3>1
    <3>2. CASE ~(d = "hvf" /\ on_rq[t])
      <4>1. Touched(k, r, t)
        BY <2>2, <2>3, <2>4, <3>2, ReparametrisedTouches
      <4>2. t \notin Queued(k)
        BY <2>3, <3>2
      <4>3. ~k.on[t]
        BY <2>3, <4>2, FlagOfQueued
      <4>4. Ordered(r) /\ Queued(r) = Queued(k)
        BY <2>3, <4>1, <4>3, TouchedGood
      <4> QED BY <4>1, <4>4 DEF Touched
    <3> QED BY <3>1, <3>2
  <2>6. /\ class' = [class EXCEPT ![t] = d] /\ on_rq' = on_rq /\ curr' = curr
        /\ oops' = oops
    BY <1>9 DEF SetScheduler
  <2>7. \A u \in Tasks : class'[u] = IF u = t THEN d ELSE class[u]
    BY <1>0, <2>6
  <2>8. \A u \in Queued(r) : class'[u] = "hvf" /\ on_rq[u] /\ u # curr /\ u # r.hcurr
    BY <1>0, <2>1, <2>3, <2>5, <2>7 DEF Placed, OnePlace
  <2>9. \A u \in r.fair : class'[u] = "fair" /\ on_rq[u]
    BY <1>0, <2>3, <2>5, <2>7 DEF Placed, OnePlace
  <2> QED BY <2>4, <2>5, <2>6, <2>8, <2>9 DEF Placed, OnePlace, NoOops, Queued
<1>10. ASSUME NEW t \in Tasks, sched_move_task(t)
       PROVE  Ordered(rq') /\ OnePlace' /\ NoOops'
  <2>1. t # curr /\ class[t] = "hvf" /\ on_rq[t]
    BY <1>10 DEF sched_move_task
  <2>2. PICK r, d : r = rq' /\ d = "hvf"
    OBVIOUS
  <2>3. r \in Sandwich(t, class[t], d, "recompute") /\ d \in Classes
    BY <1>10, <2>1, <2>2 DEF sched_move_task, Classes
  <2>4. /\ Ordered(r)
        /\ \A u \in Queued(r) : /\ u # r.hcurr
                                /\ \/ u \in Queued(rq) \ {t}
                                   \/ u = t /\ d = "hvf" /\ on_rq[t]
        /\ \A u \in r.fair : \/ u \in rq.fair \ {t}
                             \/ u = t /\ d = "fair" /\ on_rq[t]
    <3>1. MovedTo(t, d, r)
      BY <2>1, <2>3, SandwichPlaced
    <3> QED BY <3>1 DEF MovedTo
  <2>5. \A u \in Queued(r) : class[u] = "hvf" /\ on_rq[u] /\ u # curr /\ u # r.hcurr
    BY <2>1, <2>4 DEF Placed, OnePlace
  <2>6. \A u \in r.fair : class[u] = "fair" /\ on_rq[u]
    BY <2>2, <2>4 DEF Placed, OnePlace
  <2> QED BY <1>10, <2>2, <2>4, <2>5, <2>6
          DEF sched_move_task, Placed, OnePlace, NoOops, Queued
<1>11. CASE UNCHANGED vars
  BY <1>11 DEF vars, Placed, OnePlace, NoOops, Queued
<1> QED
  BY <1>1, <1>2, <1>3, <1>4, <1>5, <1>6, <1>7, <1>8, <1>9, <1>10, <1>11 DEF Next

\* While no running task changes class or task group, every task is in one place:
\* the tree holds queued tasks of the class only, never the one that runs.
THEOREM AlwaysOnePlace ==
    ASSUME Ops \cap {"requeue", "join", "leave"} = {}
    PROVE  Spec => []OnePlace
<1>1. Placed => OnePlace
  BY DEF Placed
<1> QED BY <1>1, PlacedInit, PlacedNext, PTL DEF Spec

\* Under such workloads, exits and preemption included, max_value_entity is an
\* entity of the highest value on the tree: it is enough that enqueue_hvf_entity
\* and dequeue_hvf_entity move it by one node.
THEOREM MaxAlwaysCached ==
    ASSUME Ops \cap {"requeue", "join", "leave"} = {}
    PROVE  Spec => []MaxIsCached
<1>1. Placed => MaxIsCached
  BY OrderedIsMaximal DEF Placed, Typed, MaxIsCached
<1> QED BY <1>1, PlacedInit, PlacedNext, PTL DEF Spec

\* Under such workloads __schedule never switches to a task that is not queued,
\* nor to the null pointer that an empty cache would give pick_task_hvf.
THEOREM NeverOops ==
    ASSUME Ops \cap {"requeue", "join", "leave"} = {}
    PROVE  Spec => []NoOops
<1>1. Placed => NoOops
  BY DEF Placed
<1> QED BY <1>1, PlacedInit, PlacedNext, PTL DEF Spec

\* The action of PicksHighest.
PickIsHighest ==
    curr' # curr /\ curr' \in Tasks /\ class[curr'] = "hvf" =>
        \A t \in Queued(rq) \ {curr} : rq.value[t] =< rq.value[curr']

\* Under such workloads the HVF task that __schedule turns to has the highest
\* value of all that were waiting.
THEOREM AlwaysPicksHighest ==
    ASSUME Ops \cap {"requeue", "join", "leave"} = {}
    PROVE  Spec => PicksHighest
<1>1. Placed /\ [Next]_vars => [PickIsHighest]_vars
  <2> SUFFICES ASSUME Placed, Next, curr' # curr, curr' \in Tasks, class[curr'] = "hvf"
               PROVE  \A t \in Queued(rq) \ {curr} : rq.value[t] =< rq.value[curr']
    BY DEF PickIsHighest
  <2>1. ScheduleRunning \/ ScheduleBlocking \/ ScheduleSignalled
        \/ (ScheduleIdle /\ rq.nr_running # 0)
    <3>1. ~(ScheduleIdle /\ rq.nr_running = 0)
      BY DEF ScheduleIdle
    <3> QED BY <3>1 DEF Next, FinishDead, sched_tick, SetState, SetParams, WakeQueued,
                        WakeBlocked, SetScheduler, sched_move_task
  <2>2. PICK k, st, q : /\ Settled(k, st, q) /\ Switch(k, st, q) /\ curr # NULL
                        /\ k.value = rq.value /\ Queued(k) = Queued(rq)
    BY <2>1, Scheduling
  <2>3. RunsHvf(curr')
    BY DEF RunsHvf
  <2>4. \A t \in Queued(k) : k.value[t] =< k.value[curr']
    BY <2>2, <2>3, SwitchPlaced DEF Placed
  <2> QED BY <2>2, <2>4
<1>2. Spec => [][PickIsHighest]_vars
  BY <1>1, PlacedInit, PlacedNext, PTL DEF Spec
<1> QED BY <1>2 DEF PicksHighest, PickIsHighest
=============================================================================
