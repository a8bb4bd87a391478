-------------------------- MODULE HvfEntityProofs ---------------------------
(***************************************************************************)
(* The value of a task stays a score: HvfEntity keeps ValueInRange and     *)
(* DeadlinesApart for every tick length, every set of parameters and every *)
(* horizon, as long as the wall clock is never set back.                   *)
(***************************************************************************)
EXTENDS HvfEntity, HvfValueProofs

ParRec == [d1 : Int, d2 : Int, ctime : Int, set : BOOLEAN]
EntRec == [first : Int, latest : Int, used : Int, runtime : Int,
           expired : BOOLEAN, value : Int]

\* An entity in range, last picked no later than t.
SaneAt(e, t) ==
    e \in EntRec /\ e.value \in 0 .. H /\ e.latest =< t /\ e.used >= 0

\* Recomputing the value of an entity whose deadlines are apart keeps it sane.
LEMMA RecomputedSane ==
    ASSUME NEW e, SaneAt(e, now), NEW p \in ParRec, p.d1 < p.d2
    PROVE  SaneAt(Recomputed(e, p), now)
<1>1. compute_init_sched_value(e.first, p.ctime, p.d1, p.d2) \in 0 .. H
  BY InitValueInRange DEF SaneAt, EntRec, ParRec
<1> QED
  BY <1>1 DEF Recomputed, SaneAt, EntRec, H

\* The penalty of an enqueue keeps an entity sane.
LEMMA EnqueuedSane ==
    ASSUME NEW e, SaneAt(e, now), NEW p \in ParRec
    PROVE  SaneAt(Enqueued(e, p), now)
<1>1. penalty_hvf_entity(e.used, p.ctime, e.value) \in 0 .. H
  BY PenaltyInRange DEF SaneAt, EntRec, ParRec
<1> QED
  BY <1>1 DEF Enqueued, SaneAt, EntRec, H

\* Billing the time since the last pick keeps an entity sane.
LEMMA UpdateUsedSane ==
    ASSUME now \in Nat, NEW e, SaneAt(e, now)
    PROVE  SaneAt(update_used_se_hvf(e), now)
BY DEF update_used_se_hvf, SaneAt, EntRec

\* Ageing keeps an entity sane.
LEMMA AgedSane ==
    ASSUME NEW e, SaneAt(e, now)
    PROVE  SaneAt(Aged(e), now)
<1> DEFINE v == reduce_sched_value(e.used, e.value)
<1>1. v \in 0 .. H
  BY ReduceInRange DEF SaneAt, EntRec
<1> HIDE DEF v
<1>2. CASE e.expired
  <2>1. Aged(e) = [first |-> e.first, latest |-> e.latest, used |-> e.used,
                   runtime |-> e.runtime, expired |-> FALSE, value |-> v]
    BY <1>2 DEF Aged, v, SaneAt, EntRec
  <2> QED
    BY <1>1, <2>1 DEF SaneAt, EntRec, H
<1>3. CASE ~e.expired
  BY <1>3 DEF Aged
<1> QED
  BY <1>2, <1>3

\* Putting a running task back keeps its entity sane.
LEMMA PutBackSane ==
    ASSUME now \in Nat, NEW e, SaneAt(e, now), NEW p \in ParRec, NEW b \in BOOLEAN
    PROVE  SaneAt(PutBack(e, p, b), now)
<1>1. SaneAt(Aged(update_used_se_hvf(e)), now)
  BY UpdateUsedSane, AgedSane
<1>2. SaneAt(Enqueued(Aged(update_used_se_hvf(e)), p), now)
  BY <1>1, EnqueuedSane
<1> QED
  BY <1>1, <1>2 DEF PutBack

\* Initialising an entity, and marking it picked, keep it sane.  The provers
\* type a record one changed field at a time.
LEMMA InitSane ==
    ASSUME now \in Nat, NEW e, SaneAt(e, now)
    PROVE  SaneAt(init_sched_hvf_entity(e), now)
<1> DEFINE e1 == [e EXCEPT !.first = now]
           e2 == [e1 EXCEPT !.latest = now]
           e3 == [e2 EXCEPT !.used = 0]
           e4 == [e3 EXCEPT !.expired = FALSE]
<1>1. init_sched_hvf_entity(e) = e4
  BY DEF init_sched_hvf_entity
<1>2. e1 \in EntRec /\ e1.value = e.value
  BY DEF SaneAt, EntRec
<1> HIDE DEF e1
<1>3. e2 \in EntRec /\ e2.value = e1.value /\ e2.latest = now
  BY <1>2 DEF EntRec
<1> HIDE DEF e2
<1>4. e3 \in EntRec /\ e3.value = e2.value /\ e3.latest = e2.latest /\ e3.used = 0
  BY <1>3 DEF EntRec
<1> HIDE DEF e3
<1>5. /\ e4 \in EntRec
      /\ e4.value = e3.value /\ e4.latest = e3.latest /\ e4.used = e3.used
  BY <1>4 DEF EntRec
<1> HIDE DEF e4
<1> QED
  BY <1>1, <1>2, <1>3, <1>4, <1>5 DEF SaneAt

LEMMA LatestSane ==
    ASSUME now \in Nat, NEW e, SaneAt(e, now)
    PROVE  SaneAt(update_latest_se_hvf(e), now)
<1> DEFINE e1 == [e EXCEPT !.latest = now]
           e2 == [e1 EXCEPT !.runtime = 0]
<1>1. update_latest_se_hvf(e) = e2
  BY DEF update_latest_se_hvf
<1>2. e1 \in EntRec /\ e1.value = e.value /\ e1.used = e.used /\ e1.latest = now
  BY DEF SaneAt, EntRec
<1> HIDE DEF e1
<1>3. /\ e2 \in EntRec
      /\ e2.value = e1.value /\ e2.used = e1.used /\ e2.latest = e1.latest
  BY <1>2 DEF EntRec
<1> HIDE DEF e2
<1> QED
  BY <1>1, <1>2, <1>3 DEF SaneAt

\* The default parameters have ordered deadlines.
LEMMA DefaultsOrdered ==
    ASSUME now \in Nat, NEW p \in ParRec, p.set => p.d1 < p.d2
    PROVE  /\ give_default_hvf_values(p) \in ParRec
           /\ give_default_hvf_values(p).set
           /\ give_default_hvf_values(p).d1 < give_default_hvf_values(p).d2
BY DEF give_default_hvf_values, ParRec, K

\* ValueInv says that the entity is sane and the parameters are ordered.
LEMMA ValueInvIs ==
    ValueInv <=> /\ now \in Nat /\ par \in ParRec /\ place \in Places /\ spent \in Nat
                 /\ SaneAt(ent, now)
                 /\ par.set => par.d1 < par.d2
                 /\ ~OtherClass => par.set
BY DEF ValueInv, TypeOK, ValueInRange, DeadlinesApart, SaneAt, ParRec, EntRec

LEMMA ValueInvInit == Init => ValueInv
BY DEF Init, ValueInv, TypeOK, ValueInRange, DeadlinesApart, NoParams, Places, OtherClass, H

\* Every step keeps ValueInv when no clock step is negative.
LEMMA ValueInvStep ==
    ASSUME ClockSteps \subseteq Nat, ValueInv, [Next]_vars
    PROVE  ValueInv'
<1>1. /\ now \in Nat /\ par \in ParRec /\ place \in Places /\ spent \in Nat
      /\ SaneAt(ent, now)
      /\ par.set => par.d1 < par.d2
      /\ ~OtherClass => par.set
  BY ValueInvIs
<1> DEFINE Goal == /\ now' \in Nat /\ par' \in ParRec /\ place' \in Places /\ spent' \in Nat
                   /\ SaneAt(ent', now')
                   /\ par'.set => par'.d1 < par'.d2
                   /\ place' \notin {"outside", "stray"} => par'.set
<1>2. SUFFICES Goal
  <2>1. Goal => ValueInv'
    BY DEF ValueInv, TypeOK, ValueInRange, DeadlinesApart, OtherClass, SaneAt, ParRec, EntRec
  <2> QED
    BY <2>1
<1>3. ASSUME NEW q \in Params, set_scheduling_params(q[1], q[2], q[3])
      PROVE  Goal
  <2>1. q[1] \in Int /\ q[2] \in Int /\ q[3] \in Int
    BY ConstAssumption
  <2> QED
    BY <1>1, <1>3, <2>1 DEF set_scheduling_params, ParamsAccepted, ParRec
<1>4. ASSUME NEW where \in {"queued", "joined"}, JoinRunnable(where)
      PROVE  Goal
  <2> DEFINE p == give_default_hvf_values(par)
             e == Recomputed(init_sched_hvf_entity(ent), p)
  <2>1. p \in ParRec /\ p.set /\ p.d1 < p.d2
    BY <1>1, DefaultsOrdered
  <2> HIDE DEF p
  <2>2. SaneAt(init_sched_hvf_entity(ent), now)
    BY <1>1, InitSane
  <2>3. SaneAt(e, now)
    BY <2>1, <2>2, RecomputedSane
  <2> HIDE DEF e
  <2>4. SaneAt(Enqueued(e, p), now)
    BY <2>1, <2>3, EnqueuedSane
  <2>5. /\ par' = p /\ now' = now /\ spent' = 0 /\ place' = where
        /\ ent' = e \/ ent' = Enqueued(e, p)
    BY <1>4 DEF JoinRunnable, p, e
  <2> QED
    BY <1>1, <2>1, <2>3, <2>4, <2>5 DEF Places
<1>5. CASE JoinSleeping
  <2> DEFINE p == give_default_hvf_values(par)
  <2>1. p \in ParRec /\ p.set /\ p.d1 < p.d2
    BY <1>1, DefaultsOrdered
  <2> HIDE DEF p
  <2>2. SaneAt(Recomputed(ent, p), now)
    BY <1>1, <2>1, RecomputedSane
  <2>3. /\ par' = p /\ UNCHANGED <<now, spent>> /\ place' = "sleeping"
        /\ ent' = ent \/ ent' = Recomputed(ent, p)
    BY <1>5 DEF JoinSleeping, p
  <2> QED
    BY <1>1, <2>1, <2>2, <2>3 DEF Places
<1>6. CASE Leave
  <2>1. SaneAt(PutBack(ent, par, FALSE), now)
    BY <1>1, PutBackSane
  <2>2. NoParams \in ParRec /\ ~NoParams.set
    BY DEF NoParams, ParRec
  <2>3. /\ par' = NoParams /\ UNCHANGED <<now, spent>>
        /\ place' \in {"stray", "outside"}
        /\ ent' = ent \/ ent' = PutBack(ent, par, FALSE)
    BY <1>6 DEF Leave
  <2> QED
    BY <1>1, <2>1, <2>2, <2>3 DEF Places
<1>7. CASE Wake
  <2>1. par.d1 < par.d2
    BY <1>1, <1>7 DEF Wake, OtherClass
  <2>2. SaneAt(Enqueued(Recomputed(ent, par), par), now)
    BY <1>1, <2>1, RecomputedSane, EnqueuedSane
  <2> QED
    BY <1>1, <1>7, <2>2 DEF Wake, Places, OtherClass
<1>8. CASE Pick
  <2>1. SaneAt(update_latest_se_hvf(ent), now)
    BY <1>1, LatestSane
  <2> QED
    BY <1>1, <1>8, <2>1 DEF Pick, Places, OtherClass
<1>9. CASE Preempt
  <2>1. SaneAt(PutBack(ent, par, place = "joined"), now)
    BY <1>1, PutBackSane
  <2> QED
    BY <1>1, <1>9, <2>1 DEF Preempt, Places, Running, OtherClass
<1>10. CASE Block
  BY <1>1, <1>10, UpdateUsedSane DEF Block, Places, Running, OtherClass
<1>11. CASE Requeue
  <2>1. par.d1 < par.d2
    BY <1>1, <1>11 DEF Requeue, Running, OtherClass
  <2>2. SaneAt(Recomputed(PutBack(ent, par, FALSE), par), now)
    BY <1>1, <2>1, PutBackSane, RecomputedSane
  <2> QED
    BY <1>1, <1>11, <2>2 DEF Requeue, Places, Running, OtherClass
<1>12. CASE Tick
  <2>1. TickMs \in Nat /\ now' = now + TickMs /\ UNCHANGED <<par, place>>
    BY <1>12, ConstAssumption DEF Tick
  <2>2. SaneAt(ent, now')
    BY <1>1, <2>1 DEF SaneAt, EntRec
  <2>3. CASE Running
    <3> DEFINE ran == ent.runtime + TickMs
               ex == ent.expired \/ ran >= time_slice(ent.value)
    <3>1. ent' = [ent EXCEPT !.runtime = ran, !.expired = ex] /\ spent' = spent + TickMs
      BY <1>12, <2>3 DEF Tick
    <3>2. ran \in Int /\ ex \in BOOLEAN
      BY <1>1, <2>1 DEF SaneAt, EntRec
    <3> HIDE DEF ran, ex
    <3>3. SaneAt(ent', now')
      BY <2>2, <3>1, <3>2 DEF SaneAt, EntRec, H
    <3> QED
      BY <1>1, <2>1, <3>1, <3>3 DEF OtherClass
  <2>4. CASE ~Running
    BY <1>1, <1>12, <2>1, <2>2, <2>4 DEF Tick, OtherClass
  <2> QED
    BY <2>3, <2>4
<1>13. ASSUME NEW step \in ClockSteps, SetClock(step)
       PROVE  Goal
  <2>1. step \in Nat /\ now' = now + step /\ UNCHANGED <<par, ent, place, spent>>
    BY <1>13 DEF SetClock
  <2> QED
    BY <1>1, <2>1 DEF SaneAt, EntRec, OtherClass
<1>14. CASE Exit
  BY <1>1, <1>14, UpdateUsedSane DEF Exit, Places, Running, OtherClass
<1>15. CASE UNCHANGED vars
  BY <1>1, <1>15 DEF vars, OtherClass
<1> QED
  BY <1>3, <1>4, <1>5, <1>6, <1>7, <1>8, <1>9, <1>10, <1>11, <1>12, <1>13,
     <1>14, <1>15 DEF Next

\* With a clock that never goes back, the value of a task is a score in 0 .. H in
\* every reachable state, for every tick length, parameters and horizon.
THEOREM ValueAlwaysInRange ==
    ASSUME ClockSteps \subseteq Nat
    PROVE  Spec => []ValueInRange
<1>1. ValueInv /\ [Next]_vars => ValueInv'
  BY ValueInvStep
<1>2. ValueInv => ValueInRange
  BY DEF ValueInv
<1> QED
  BY ValueInvInit, <1>1, <1>2, PTL DEF Spec

\* With a clock that never goes back, no task of the class has equal deadlines:
\* compute_init_sched_value never divides by zero.
THEOREM DeadlinesAlwaysApart ==
    ASSUME ClockSteps \subseteq Nat
    PROVE  Spec => []DeadlinesApart
<1>1. ValueInv /\ [Next]_vars => ValueInv'
  BY ValueInvStep
<1>2. ValueInv => DeadlinesApart
  BY DEF ValueInv
<1> QED
  BY ValueInvInit, <1>1, <1>2, PTL DEF Spec

\* With a clock that never goes back, the fields of the entity keep their types
\* through every path that sets, defaults or clears them.
THEOREM EntityTypes ==
    ASSUME ClockSteps \subseteq Nat
    PROVE  Spec => []TypeOK
<1>1. ValueInv /\ [Next]_vars => ValueInv'
  BY ValueInvStep
<1>2. ValueInv => TypeOK
  BY DEF ValueInv
<1> QED
  BY ValueInvInit, <1>1, <1>2, PTL DEF Spec

-----------------------------------------------------------------------------
\* Billing.

\* Computing a value, a penalty or an ageing leaves the bill alone.
LEMMA BillKept ==
    ASSUME NEW e \in EntRec, NEW p
    PROVE  /\ Recomputed(e, p).used = e.used /\ Recomputed(e, p).latest = e.latest
           /\ Enqueued(e, p).used = e.used /\ Enqueued(e, p).latest = e.latest
           /\ Aged(e).used = e.used /\ Aged(e).latest = e.latest
<1>1. ASSUME NEW x
      PROVE  [e EXCEPT !.value = x].used = e.used /\ [e EXCEPT !.value = x].latest = e.latest
  BY DEF EntRec
<1>2. ASSUME NEW x
      PROVE  /\ [e EXCEPT !.value = x, !.expired = FALSE].used = e.used
             /\ [e EXCEPT !.value = x, !.expired = FALSE].latest = e.latest
  BY DEF EntRec
<1> QED
  BY <1>1, <1>2, Zenon DEF Recomputed, Enqueued, Aged

\* put_prev_task bills the time since the last pick and leaves the time of the pick.
LEMMA PutBackBills ==
    ASSUME now \in Nat, NEW e, SaneAt(e, now), NEW p \in ParRec, NEW b \in BOOLEAN
    PROVE  /\ PutBack(e, p, b).used = e.used + (now - e.latest)
           /\ PutBack(e, p, b).latest = e.latest
<1> DEFINE u == update_used_se_hvf(e)
<1>1. SaneAt(u, now) /\ u.used = e.used + (now - e.latest) /\ u.latest = e.latest
  BY UpdateUsedSane DEF update_used_se_hvf, SaneAt, EntRec
<1> HIDE DEF u
<1>2. u \in EntRec /\ Aged(u) \in EntRec
  BY <1>1, AgedSane DEF SaneAt
<1>3. /\ Aged(u).used = u.used /\ Aged(u).latest = u.latest
      /\ Enqueued(Aged(u), p).used = u.used /\ Enqueued(Aged(u), p).latest = u.latest
  BY <1>2, BillKept, Zenon
<1>4. PutBack(e, p, b) \in {Aged(u), Enqueued(Aged(u), p)}
  BY Zenon DEF PutBack, u
<1> QED
  BY <1>1, <1>3, <1>4

\* What has been billed beyond the time on a CPU changes only when the running task
\* is taken out and restored or the clock is set, and then it does not fall; it is
\* zero when the entity is initialised.
LEMMA OverbilledStep ==
    ASSUME ClockSteps \subseteq Nat, ValueInv, [Next]_vars
    PROVE  \/ Billed' - spent' = Billed - spent
           \/ Billed' = 0 /\ spent' = 0
           \/ /\ Billed' - spent' >= Billed - spent
              /\ Requeues \/ ClockSteps # {}
<1> DEFINE Goal == \/ Billed' - spent' = Billed - spent
                   \/ Billed' = 0 /\ spent' = 0
                   \/ /\ Billed' - spent' >= Billed - spent
                      /\ Requeues \/ ClockSteps # {}
<1>1. /\ now \in Nat /\ par \in ParRec /\ spent \in Nat
      /\ SaneAt(ent, now) /\ place \in Places
  BY ValueInvIs
<1>2. ent \in EntRec /\ ent.used \in Int /\ ent.latest \in Int /\ ent.latest =< now
  BY <1>1 DEF SaneAt, EntRec
<1>3. ASSUME NEW q \in Params, set_scheduling_params(q[1], q[2], q[3]) PROVE Goal
  BY <1>1, <1>2, <1>3 DEF set_scheduling_params, Billed, Running
<1>4. ASSUME NEW where \in {"queued", "joined"}, JoinRunnable(where) PROVE Goal
  <2> DEFINE p == give_default_hvf_values(par)
             i == init_sched_hvf_entity(ent)
             e == Recomputed(i, p)
  <2>1. i \in EntRec /\ i.used = 0 /\ i.latest = now
    BY <1>1, <1>2, InitSane DEF init_sched_hvf_entity, SaneAt, EntRec
  <2>2. e \in EntRec
    <3>1. par.set => par.d1 < par.d2
      BY ValueInvIs
    <3> QED
      BY <1>1, <3>1, DefaultsOrdered, InitSane, RecomputedSane DEF SaneAt
  <2>3. ent' \in {e, Enqueued(e, p)} /\ now' = now /\ spent' = 0 /\ place' = where
    BY <1>4, Zenon DEF JoinRunnable
  <2> HIDE DEF p, i
  <2>4. e.used = 0 /\ e.latest = now
    BY <2>1, BillKept
  <2> HIDE DEF e
  <2>5. ent'.used = 0 /\ ent'.latest = now
    BY <2>2, <2>3, <2>4, BillKept
  <2> QED
    BY <1>1, <2>3, <2>5 DEF Billed, Running
<1>5. CASE JoinSleeping
  <2>1. ent' = ent \/ ent' = Recomputed(ent, par')
    BY <1>5, Zenon DEF JoinSleeping
  <2>2. ent'.used = ent.used
    BY <1>2, <2>1, BillKept
  <2> QED
    BY <1>1, <1>2, <1>5, <2>2 DEF JoinSleeping, Billed, Running
<1>6. CASE Leave
  <2>1. PutBack(ent, par, FALSE).used = ent.used + (now - ent.latest)
    BY <1>1, PutBackBills
  <2> QED
    BY <1>1, <1>2, <1>6, <2>1 DEF Leave, Billed, Running
<1>7. CASE Wake
  <2>1. par.d1 < par.d2
    BY <1>7, ValueInvIs DEF Wake, OtherClass
  <2>2. Recomputed(ent, par) \in EntRec
    BY <1>1, <2>1, RecomputedSane DEF SaneAt
  <2>3. ent'.used = ent.used
    BY <1>2, <1>7, <2>2, BillKept DEF Wake
  <2> QED
    BY <1>1, <1>2, <1>7, <2>3 DEF Wake, Billed, Running
<1>8. CASE Pick
  <2>1. ent'.used = ent.used /\ ent'.latest = now
    BY <1>2, <1>8 DEF Pick, update_latest_se_hvf, EntRec
  <2> QED
    BY <1>1, <1>2, <1>8, <2>1 DEF Pick, Billed, Running
<1>9. CASE Preempt
  <2>1. ent'.used = ent.used + (now - ent.latest)
    BY <1>1, <1>9, PutBackBills DEF Preempt
  <2> QED
    BY <1>1, <1>2, <1>9, <2>1 DEF Preempt, Billed, Running
<1>10. CASE Block \/ Exit
  <2>1. ent'.used = ent.used + (now - ent.latest)
    BY <1>2, <1>10 DEF Block, Exit, update_used_se_hvf, EntRec
  <2> QED
    BY <1>1, <1>2, <1>10, <2>1 DEF Block, Exit, Billed, Running
<1>11. CASE Requeue
  <2> DEFINE b == PutBack(ent, par, FALSE)
  <2>1. SaneAt(b, now) /\ b.used = ent.used + (now - ent.latest) /\ b.latest = ent.latest
    BY <1>1, PutBackBills, PutBackSane
  <2>2. Requeues /\ Running /\ ent' = Recomputed(b, par) /\ place' = "joined"
        /\ now' = now /\ spent' = spent
    BY <1>11 DEF Requeue
  <2> HIDE DEF b
  <2>3. ent'.used = b.used /\ ent'.latest = b.latest
    BY <2>1, <2>2, BillKept DEF SaneAt
  <2> QED
    BY <1>1, <1>2, <2>1, <2>2, <2>3 DEF Billed, Running
<1>12. CASE Tick
  <2>1. TickMs \in Nat /\ now' = now + TickMs /\ place' = place
    BY <1>12, ConstAssumption DEF Tick
  <2>2. CASE Running
    <3>1. ent'.used = ent.used /\ ent'.latest = ent.latest /\ spent' = spent + TickMs
      BY <1>2, <1>12, <2>2 DEF Tick, EntRec
    <3> QED
      BY <1>1, <1>2, <2>1, <2>2, <3>1 DEF Billed, Running
  <2>3. CASE ~Running
    BY <1>1, <1>2, <1>12, <2>1, <2>3 DEF Tick, Billed, Running
  <2> QED
    BY <2>2, <2>3
<1>13. ASSUME NEW step \in ClockSteps, SetClock(step) PROVE Goal
  <2>1. step \in Nat /\ now' = now + step /\ UNCHANGED <<ent, place, spent>>
    BY <1>13 DEF SetClock
  <2> QED
    BY <1>1, <1>2, <2>1 DEF Billed, Running
<1>14. CASE UNCHANGED vars
  BY <1>14 DEF vars, Billed, Running
<1> QED
  BY <1>3, <1>4, <1>5, <1>6, <1>7, <1>8, <1>9, <1>10, <1>11, <1>12, <1>13, <1>14
  DEF Next

\* The bill and the time on a CPU are numbers.
LEMMA BillIsInt == ValueInv => Billed \in Int /\ spent \in Int
BY ValueInvIs DEF Billed, SaneAt, EntRec

\* The arithmetic of the two theorems below.
LEMMA StaysCovered ==
    ASSUME NEW b \in Int, NEW c \in Int, NEW s \in Int, NEW r \in Int, b >= s,
           c - r = b - s \/ (c = 0 /\ r = 0) \/ c - r >= b - s
    PROVE  c >= r
OBVIOUS

LEMMA StaysEqual ==
    ASSUME NEW b \in Int, NEW c \in Int, NEW s \in Int, NEW r \in Int, b = s,
           c - r = b - s \/ (c = 0 /\ r = 0)
    PROVE  c = r
OBVIOUS

\* With a clock that never goes back, every millisecond on a CPU is billed.
THEOREM NeverUnder ==
    ASSUME ClockSteps \subseteq Nat
    PROVE  Spec => []NeverUnderbilled
<1> DEFINE I == ValueInv /\ NeverUnderbilled
<1>1. Init => I
  BY ValueInvInit DEF Init, NeverUnderbilled, Billed, Running
<1>2. I /\ [Next]_vars => I'
  <2> SUFFICES ASSUME I, [Next]_vars PROVE I'
    OBVIOUS
  <2>1. ValueInv'
    BY ValueInvStep
  <2>2. Billed \in Int /\ spent \in Int /\ Billed' \in Int /\ spent' \in Int
    <3>1. ValueInv' => Billed' \in Int /\ spent' \in Int
      BY DEF Billed, ValueInv, TypeOK, Running
    <3> QED
      BY <2>1, <3>1, BillIsInt
  <2>3. \/ Billed' - spent' = Billed - spent
        \/ Billed' = 0 /\ spent' = 0
        \/ Billed' - spent' >= Billed - spent
    BY OverbilledStep
  <2>4. Billed >= spent
    BY DEF NeverUnderbilled
  <2>5. Billed' >= spent'
    BY <2>2, <2>3, <2>4, StaysCovered, Zenon
  <2> QED
    BY <2>1, <2>5 DEF NeverUnderbilled
<1> QED
  BY <1>1, <1>2, PTL DEF Spec

\* When the running task is never taken out and restored and the clock is never
\* set, every millisecond on a CPU is billed exactly once.
THEOREM BilledExactly ==
    ASSUME Requeues = FALSE, ClockSteps = {}
    PROVE  Spec => []BilledOnce
<1> DEFINE I == ValueInv /\ BilledOnce
<1>1. Init => I
  BY ValueInvInit DEF Init, BilledOnce, Billed, Running
<1>2. I /\ [Next]_vars => I'
  <2> SUFFICES ASSUME I, [Next]_vars PROVE I'
    OBVIOUS
  <2>1. ValueInv'
    BY ValueInvStep
  <2>2. Billed \in Int /\ spent \in Int /\ Billed' \in Int /\ spent' \in Int
    <3>1. ValueInv' => Billed' \in Int /\ spent' \in Int
      BY DEF Billed, ValueInv, TypeOK, Running
    <3> QED
      BY <2>1, <3>1, BillIsInt
  <2>3. Billed' - spent' = Billed - spent \/ (Billed' = 0 /\ spent' = 0)
    BY OverbilledStep
  <2>4. Billed = spent
    BY DEF BilledOnce
  <2>5. Billed' = spent'
    BY <2>2, <2>3, <2>4, StaysEqual, Zenon
  <2> QED
    BY <2>1, <2>5 DEF BilledOnce
<1> QED
  BY <1>1, <1>2, PTL DEF Spec
=============================================================================
