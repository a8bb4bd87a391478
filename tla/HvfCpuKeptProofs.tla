-------------------------- MODULE HvfCpuKeptProofs --------------------------
(***************************************************************************)
(* No runnable HVF task is lost, for any number of tasks, while tasks only *)
(* sleep, wake, compute, set their parameters and change class or task     *)
(* group when they do not run (Ops = {}).  With exits or with kernel       *)
(* preemption the property fails: CpuExitLost shows it for exits.          *)
(***************************************************************************)
EXTENDS HvfCpuProofs

\* Nobody is dead, hvf_rq->curr is the running HVF task and nothing else, and
\* every other queued task of the class is on the tree.
Kept ==
    /\ Placed
    /\ dying = NULL /\ \A t \in Tasks : state[t] # "dead"
    /\ rq.hcurr = IF RunsHvf(curr) THEN curr ELSE NULL
    /\ \A t \in Tasks : class[t] = "hvf" /\ on_rq[t] /\ t # curr => t \in Queued(rq)

\* The same once prev was or was not dequeued.
KeptBefore(k, st, q) ==
    /\ \A t \in Tasks : st[t] # "dead"
    /\ k.hcurr = IF RunsHvf(curr) /\ q[curr] THEN curr ELSE NULL
    /\ RunsHvf(curr) /\ q[curr] => st[curr] = "running"
    /\ \A t \in Tasks : class[t] = "hvf" /\ q[t] /\ t # curr => t \in Queued(k)

\* __schedule moves prev to the tree and next off it, and loses neither.
LEMMA SwitchKept ==
    ASSUME Kept, NEW k, NEW st, NEW q, Settled(k, st, q), KeptBefore(k, st, q),
           Switch(k, st, q), Placed'
    PROVE  Kept'
<1>1. Good(k)
  BY DEF Settled
<1>2. /\ curr' \in Picks(k) /\ on_rq' = q /\ class' = class /\ state' = st
      /\ dying' \in {dying, curr, NULL}
      /\ curr' = curr => rq' = k
      /\ curr' # curr =>
            LET back == RunsHvf(curr) /\ st[curr] = "running"
                left == IF back THEN Queued(k) \cup {curr} ELSE Queued(k)
            IN  /\ Queued(rq') = IF RunsHvf(curr') THEN left \ {curr'} ELSE left
                /\ rq'.hcurr = IF RunsHvf(curr') THEN curr'
                               ELSE IF back THEN NULL ELSE k.hcurr
  BY <1>1, SwitchOf
<1>3. dying' = NULL
  <2>1. curr' = curr => dying' = dying
    BY DEF Switch
  <2>2. curr' # curr => dying' = NULL
    BY DEF Switch, KeptBefore
  <2> QED BY <2>1, <2>2 DEF Kept
<1>4. curr' = curr => ~RunsHvf(curr)
  <2>1. \/ curr' = Idle \/ curr' \in k.fair \/ curr' \in Queued(k)
    BY <1>1, <1>2, PickOf DEF Settled
  <2> QED BY <2>1, RqAssumption DEF Settled, RunsHvf
<1>5. rq'.hcurr = IF RunsHvf(curr') THEN curr' ELSE NULL
  <2>1. CASE curr' = curr
    BY <1>2, <1>4, <2>1 DEF KeptBefore
  <2>2. CASE curr' # curr
    BY <1>2, <2>2 DEF KeptBefore
  <2> QED BY <2>1, <2>2
<1>6. ASSUME NEW t \in Tasks, class[t] = "hvf", q[t], t # curr' PROVE t \in Queued(rq')
  <2>1. CASE curr' = curr
    BY <1>2, <1>6, <2>1 DEF KeptBefore
  <2>2. CASE curr' # curr /\ t # curr
    <3>1. t \in Queued(k)
      BY <1>6, <2>2 DEF KeptBefore
    <3> QED BY <1>2, <1>6, <2>2, <3>1
  <2>3. CASE curr' # curr /\ t = curr
    <3>1. RunsHvf(curr) /\ st[curr] = "running"
      BY <1>6, <2>3 DEF KeptBefore, RunsHvf
    <3> QED BY <1>2, <1>6, <2>3, <3>1
  <2> QED BY <2>1, <2>2, <2>3
<1> QED BY <1>2, <1>3, <1>5, <1>6 DEF Kept, KeptBefore, RunsHvf, Queued

\* A step through __schedule starts from a state in which nobody is lost.
LEMMA KeptScheduling ==
    ASSUME Ops = {}, Kept,
           ScheduleRunning \/ ScheduleBlocking \/ ScheduleSignalled
           \/ (ScheduleIdle /\ rq.nr_running # 0)
    PROVE  \E k, st, q : Settled(k, st, q) /\ KeptBefore(k, st, q) /\ Switch(k, st, q)
<1>0. /\ Placed /\ Idle \notin Tasks /\ Good(rq)
      /\ state \in [Tasks -> {"running", "sleeping", "dead"}]
      /\ on_rq \in [Tasks -> BOOLEAN] /\ class \in [Tasks -> Classes]
      /\ curr \in Tasks => on_rq[curr]
  BY RqAssumption DEF Kept, Placed, Typed, OnePlace
<1>1. ASSUME NEW st, \A t \in Tasks : st[t] # "dead",
             curr \in Tasks => st[curr] = "running"
      PROVE  Settled(rq, st, on_rq) /\ KeptBefore(rq, st, on_rq)
  <2>1. Settled(rq, st, on_rq)
    BY <1>0, PlacedSettles
  <2> QED BY <1>0, <1>1, <2>1 DEF Kept, KeptBefore, RunsHvf
<1>2. CASE ScheduleRunning
  <2>1. Switch(rq, state, on_rq) /\ curr \in Tasks /\ state[curr] = "running"
    BY <1>2 DEF ScheduleRunning, IsRunning
  <2> QED BY <1>1, <2>1 DEF Kept
<1>3. CASE ScheduleSignalled
  <2>1. PICK st : st = [state EXCEPT ![curr] = "running"]
    OBVIOUS
  <2>2. Switch(rq, st, on_rq) /\ curr \in Tasks
    BY <1>3, <2>1 DEF ScheduleSignalled
  <2>3. st[curr] = "running" /\ \A t \in Tasks : st[t] # "dead"
    BY <1>0, <2>1, <2>2 DEF Kept
  <2> QED BY <1>1, <2>2, <2>3
<1>4. CASE ScheduleIdle /\ rq.nr_running # 0
  <2>1. Switch(rq, state, on_rq) /\ curr \notin Tasks
    BY <1>0, <1>4 DEF ScheduleIdle
  <2> QED BY <1>1, <2>1 DEF Kept
<1>5. CASE ScheduleBlocking
  <2>1. PICK gone : gone = (class[curr] = "fair" \/ Dequeues(rq, curr, FALSE))
    OBVIOUS
  <2>2. PICK q : q = [on_rq EXCEPT ![curr] = @ /\ ~gone]
    OBVIOUS
  <2>3. PICK k : k = dequeue_task(rq, curr, class[curr])
    OBVIOUS
  <2>4. curr \in Tasks /\ ~IsRunning(curr) /\ Switch(k, state, q)
    BY <1>5, <2>1, <2>2, <2>3 DEF ScheduleBlocking
  <2>5. Settled(k, state, q) /\ Queued(k) = Queued(rq)
    BY <1>0, <2>1, <2>2, <2>3, <2>4, BlockingSettles
  <2>6. DequeuedAs(rq, curr, class[curr], k)
    BY <1>0, <2>3, <2>4, DequeueClass
  <2>7. class[curr] = "hvf" => Lets(rq, curr) /\ gone
    BY <2>1, <2>4 DEF Lets, Dequeues, Kept, RunsHvf
  <2>8. gone /\ k.hcurr = NULL
    <3>1. CASE class[curr] = "hvf"
      BY <2>4, <2>6, <2>7, <3>1 DEF DequeuedAs, Kept, RunsHvf
    <3>2. CASE class[curr] = "fair"
      BY <2>1, <2>6, <3>2 DEF DequeuedAs, Kept, RunsHvf
    <3> QED BY <1>0, <2>4, <3>1, <3>2 DEF Classes
  <2>9. q[curr] = FALSE /\ \A t \in Tasks \ {curr} : q[t] = on_rq[t]
    BY <1>0, <2>2, <2>4, <2>8
  <2>10. KeptBefore(k, state, q)
    BY <2>5, <2>8, <2>9 DEF Kept, KeptBefore
  <2> QED BY <2>4, <2>5, <2>10
<1> QED BY <1>2, <1>3, <1>4, <1>5

\* At boot there is nobody to lose.
LEMMA KeptInit == Init => Kept
<1> SUFFICES ASSUME Init PROVE Kept
  OBVIOUS
<1>1. rq.hcurr = NULL
  BY DEF Init, EmptyRq
<1>2. ~RunsHvf(curr)
  BY RqAssumption DEF Init, RunsHvf
<1> QED BY <1>1, <1>2, PlacedInit DEF Init, Kept

\* Every step keeps everybody.
LEMMA KeptNext ==
    ASSUME Ops = {}
    PROVE  Kept /\ [Next]_vars => Kept'
<1> SUFFICES ASSUME Kept, [Next]_vars PROVE Kept'
  OBVIOUS
<1>0. /\ Placed /\ Placed' /\ dying = NULL /\ Idle \notin Tasks /\ NULL \notin Tasks
      /\ state \in [Tasks -> {"running", "sleeping", "dead"}]
      /\ on_rq \in [Tasks -> BOOLEAN] /\ class \in [Tasks -> Classes] /\ Good(rq)
      /\ curr \in Tasks => on_rq[curr]
  <2>1. Placed'
    BY PlacedNext DEF Kept
  <2> QED BY <2>1, RqAssumption DEF Kept, Placed, Typed, OnePlace
<1>1. ASSUME ScheduleRunning \/ ScheduleBlocking \/ ScheduleSignalled
             \/ (ScheduleIdle /\ rq.nr_running # 0)
      PROVE  Kept'
  <2>1. PICK k, st, q : Settled(k, st, q) /\ KeptBefore(k, st, q) /\ Switch(k, st, q)
    BY <1>1, KeptScheduling
  <2> QED BY <1>0, <2>1, SwitchKept
<1>2. CASE ScheduleIdle /\ rq.nr_running = 0
  BY <1>0, <1>2 DEF ScheduleIdle, Kept, RunsHvf, Queued
<1>3. CASE FinishDead
  BY <1>0, <1>3 DEF FinishDead
<1>4. ASSUME NEW r, rq' = r, Touched(rq, r, curr), curr \in Tasks,
             UNCHANGED <<state, on_rq, class, curr, dying>>
      PROVE  Kept'
  <2>1. Queued(r) = Queued(rq) /\ r.hcurr = rq.hcurr
    BY <1>4 DEF Touched, Queued
  <2>2. Queued(rq') = Queued(rq)
    BY <1>4, <2>1
  <2> QED BY <1>0, <1>4, <2>1, <2>2 DEF Kept, RunsHvf, Queued
<1>5. CASE sched_tick
  <2>1. CASE class[curr] = "hvf"
    <3>1. curr \in Tasks /\ Touched(rq, rq', curr)
      BY <1>0, <1>5, <2>1, TickTouches DEF sched_tick
    <3> QED BY <1>4, <1>5, <3>1 DEF sched_tick
  <2>2. CASE class[curr] # "hvf"
    BY <1>0, <1>5, <2>2 DEF sched_tick, Kept, RunsHvf, Queued
  <2> QED BY <2>1, <2>2
<1>6. ASSUME NEW s \in {"sleeping", "dead"}, SetState(s) PROVE Kept'
  BY <1>0, <1>6 DEF SetState, Kept, RunsHvf, Queued
<1>7. ASSUME NEW w \in Values, NEW b \in BOOLEAN, SetParams(w, b) PROVE Kept'
  <2>1. curr \in Tasks /\ Touched(rq, rq', curr)
    BY <1>0, <1>7, GivenParams DEF SetParams
  <2> QED BY <1>4, <1>7, <2>1 DEF SetParams
<1>8. ASSUME NEW t \in Tasks, WakeQueued(t) PROVE Kept'
  BY <1>0, <1>8 DEF WakeQueued, Kept, RunsHvf, Queued
<1>9. ASSUME NEW t \in Tasks, WakeBlocked(t) PROVE Kept'
  <2>1. PICK r, c : r = rq' /\ c = class[t]
    OBVIOUS
  <2>2. r \in enqueue_task(rq, t, c, "recompute") /\ ~on_rq[t] /\ c \in Classes
    BY <1>0, <1>9, <2>1 DEF WakeBlocked
  <2>3. /\ r.hcurr = rq.hcurr
        /\ Queued(r) = IF c = "hvf" /\ rq.hcurr # t THEN Queued(rq) \cup {t}
                                                    ELSE Queued(rq)
    <3>1. EnqueuedAs(rq, t, c, r)
      BY <1>0, <2>2, EnqueueClass
    <3> QED BY <3>1 DEF EnqueuedAs
  <2>4. rq.hcurr # t
    BY <1>0, <2>2 DEF Kept
  <2>5. /\ on_rq' = [on_rq EXCEPT ![t] = TRUE] /\ class' = class /\ curr' = curr
        /\ state' = [state EXCEPT ![t] = "running"] /\ dying' = dying
    BY <1>9 DEF WakeBlocked
  <2>6. \A u \in Tasks : class[u] = "hvf" /\ on_rq'[u] /\ u # curr => u \in Queued(r)
    BY <1>0, <2>1, <2>3, <2>4, <2>5 DEF Kept
  <2>7. \A u \in Tasks : state'[u] # "dead"
    BY <1>0, <2>5 DEF Kept
  <2>8. Queued(rq') = Queued(r) /\ rq'.hcurr = rq.hcurr
    BY <2>1, <2>3
  <2> QED BY <1>0, <2>5, <2>6, <2>7, <2>8 DEF Kept, RunsHvf, Queued
<1>10. ASSUME NEW t \in Tasks, t # curr, NEW d \in Classes, NEW k, MovedTo(t, d, k),
              Queued(rq') = Queued(k), rq'.hcurr = k.hcurr,
              class' = [class EXCEPT ![t] = d], UNCHANGED <<state, on_rq, curr, dying>>
       PROVE  Kept'
  <2>1. rq.hcurr # t
    BY <1>0, <1>10 DEF Kept
  <2>2. /\ k.hcurr = rq.hcurr /\ Queued(rq) \ {t} \subseteq Queued(k)
        /\ d = "hvf" /\ on_rq[t] => t \in Queued(k)
    BY <1>10, <2>1 DEF MovedTo
  <2>3. \A u \in Tasks : class'[u] = IF u = t THEN d ELSE class[u]
    BY <1>0, <1>10
  <2>4. \A u \in Tasks : class'[u] = "hvf" /\ on_rq[u] /\ u # curr => u \in Queued(k)
    BY <2>2, <2>3 DEF Kept
  <2>5. rq'.hcurr = IF curr \in Tasks /\ class'[curr] = "hvf" THEN curr ELSE NULL
    BY <1>10, <2>2, <2>3 DEF Kept, RunsHvf
  <2> QED BY <1>0, <1>10, <2>4, <2>5 DEF Kept, RunsHvf, Queued
<1>11. ASSUME NEW t \in Tasks, NEW d \in Classes, SetScheduler(t, d) PROVE Kept'
  <2>1. t # curr
    BY <1>11 DEF SetScheduler
  <2>2. PICK k \in Sandwich(t, class[t], d, "changed") :
          rq' \in IF d = "hvf" /\ on_rq[t] THEN {k} ELSE Reparametrised(k, t, d)
    BY <1>11 DEF SetScheduler
  <2>3. MovedTo(t, d, k)
    BY <1>0, <2>1, <2>2, SandwichPlaced
  <2>4. Queued(rq') = Queued(k) /\ rq'.hcurr = k.hcurr
    <3>1. CASE d = "hvf" /\ on_rq[t]
      <4>1. rq' = k
        BY <2>2, <3>1
      <4> QED BY <4>1
    <3>2. CASE ~(d = "hvf" /\ on_rq[t])
      <4>1. PICK r : r = rq'
        OBVIOUS
      <4>2. Good(k)
        BY <2>3 DEF MovedTo
      <4>3. Touched(k, r, t)
        BY <2>2, <3>2, <4>1, <4>2, ReparametrisedTouches
      <4>4. Queued(r) = Queued(k) /\ r.hcurr = k.hcurr
        BY <4>3 DEF Touched, Queued
      <4> QED BY <4>1, <4>4
    <3> QED BY <3>1, <3>2
  <2> QED BY <1>10, <1>11, <2>1, <2>3, <2>4 DEF SetScheduler
<1>12. ASSUME NEW t \in Tasks, sched_move_task(t) PROVE Kept'
  <2>1. t # curr /\ class[t] = "hvf"
    BY <1>12 DEF sched_move_task
  <2>2. PICK r, d : r = rq' /\ d = "hvf"
    OBVIOUS
  <2>3. r \in Sandwich(t, class[t], d, "recompute") /\ d \in Classes
    BY <1>12, <2>1, <2>2 DEF sched_move_task, Classes
  <2>4. MovedTo(t, d, r)
    BY <1>0, <2>1, <2>3, SandwichPlaced
  <2>5. class' = [class EXCEPT ![t] = d] /\ UNCHANGED <<state, on_rq, curr, dying>>
    BY <1>0, <1>12, <2>1, <2>2 DEF sched_move_task
  <2>6. Queued(rq') = Queued(r) /\ rq'.hcurr = r.hcurr
    BY <2>2
  <2> QED BY <1>10, <2>1, <2>3, <2>4, <2>5, <2>6
<1>13. CASE UNCHANGED vars
  BY <1>0, <1>13 DEF vars, Kept, RunsHvf, Queued
<1> QED
  BY <1>1, <1>2, <1>3, <1>5, <1>6, <1>7, <1>8, <1>9, <1>11, <1>12, <1>13 DEF Next

\* While tasks only sleep, wake, compute, set parameters and change class when
\* they do not run, every runnable HVF task that does not run is on the tree:
\* put_prev_task_hvf and try_to_wake_up lose none.
THEOREM NeverLost ==
    ASSUME Ops = {}
    PROVE  Spec => []NoLostTask
<1>1. Kept => NoLostTask
  BY DEF Kept, NoLostTask
<1> QED BY <1>1, KeptInit, KeptNext, PTL DEF Spec
=============================================================================
