--------------------------- MODULE HvfValueProofs ---------------------------
(***************************************************************************)
(* Facts about the arithmetic of the HVF class, for all values.            *)
(***************************************************************************)
EXTENDS HvfValue, TLAPS

\* A quotient of a natural number by a positive one, as C computes it.
LEMMA CDivNat ==
    ASSUME NEW a \in Nat, NEW b \in Nat, b > 0
    PROVE  /\ CDiv(a, b) \in Nat
           /\ CDiv(a, b) * b =< a
           /\ a < CDiv(a, b) * b + b
BY DEF CDiv

\* A quotient is bounded by any bound on the dividend in units of the divisor.
LEMMA CDivBound ==
    ASSUME NEW a \in Nat, NEW b \in Nat, b > 0, NEW q \in Nat, a =< q * b
    PROVE  CDiv(a, b) =< q
<1>1. CDiv(a, b) \in Nat /\ CDiv(a, b) * b =< a
  BY CDivNat
<1>2. CDiv(a, b) * b =< q * b
  BY <1>1
<1>3. ASSUME CDiv(a, b) > q PROVE FALSE
  <2>1. CDiv(a, b) >= q + 1
    BY <1>1, <1>3
  <2>2. CDiv(a, b) * b >= (q + 1) * b
    BY <1>1, <2>1
  <2>3. (q + 1) * b = q * b + b
    OBVIOUS
  <2> QED
    BY <1>1, <1>2, <2>2, <2>3
<1> QED
  BY <1>1, <1>3

\* compute_init_sched_value returns a score in 0 .. H whenever the deadlines are
\* apart, for every entry time and every promised computation time.
THEOREM InitValueInRange ==
    ASSUME NEW first_time \in Int, NEW ctime \in Int,
           NEW d1 \in Int, NEW d2 \in Int, d1 < d2
    PROVE  compute_init_sched_value(first_time, ctime, d1, d2) \in 0 .. H
<1> DEFINE X == first_time + ctime
           a == (d2 * K - X) * H
           b == (d2 - d1) * K
<1>1. CASE d1 * K =< X /\ X =< d2 * K
  <2>1. a \in Nat /\ b \in Nat /\ b > 0
    BY <1>1 DEF K, H
  <2>2. a =< H * b
    BY <1>1 DEF K, H
  <2>3. CDiv(a, b) \in Nat /\ CDiv(a, b) =< H
    BY <2>1, <2>2, CDivNat, CDivBound DEF H
  <2> QED
    BY <1>1, <2>3 DEF compute_init_sched_value, K, H
<1>2. CASE ~(d1 * K =< X /\ X =< d2 * K)
  BY <1>2 DEF compute_init_sched_value, K, H
<1> QED
  BY <1>1, <1>2

\* What ageing and penalty share: the loss is a natural number, so a positive
\* value never grows, and only a value of 0 is lifted, to 10.
LEMMA FlooredLoss ==
    ASSUME NEW old \in 0 .. H, NEW loss \in Nat
    PROVE  /\ Floored(old - loss, old) \in 0 .. H
           /\ old > 0 => Floored(old - loss, old) =< old
           /\ old = 0 => Floored(old - loss, old) = 10
BY DEF Floored, H

\* reduce_sched_value keeps the score in 0 .. H and lowers or keeps it, except
\* that 0 becomes 10, for every amount of CPU time already used.
THEOREM ReduceInRange ==
    ASSUME NEW used \in Nat, NEW old \in 0 .. H
    PROVE  /\ reduce_sched_value(used, old) \in 0 .. H
           /\ old > 0 => reduce_sched_value(used, old) =< old
           /\ old = 0 => reduce_sched_value(used, old) = 10
<1>1. used * old \in Nat
  BY DEF H
<1>2. CDiv(used * old, 100) \in Nat
  BY <1>1, CDivNat
<1> QED
  BY <1>2, FlooredLoss DEF reduce_sched_value

\* penalty_hvf_entity does the same, whatever the sign of the overrun.
THEOREM PenaltyInRange ==
    ASSUME NEW used \in Int, NEW ctime \in Int, NEW old \in 0 .. H
    PROVE  /\ penalty_hvf_entity(used, ctime, old) \in 0 .. H
           /\ old > 0 => penalty_hvf_entity(used, ctime, old) =< old
           /\ old = 0 => penalty_hvf_entity(used, ctime, old) = 10
<1> DEFINE diff == used - ctime
<1>1. diff \in Int /\ diff * diff \in Nat
  OBVIOUS
<1>2. diff * diff * old \in Nat
  BY <1>1 DEF H
<1>3. CDiv(diff * diff * old, 100) \in Nat
  BY <1>2, CDivNat
<1> QED
  BY <1>3, FlooredLoss DEF penalty_hvf_entity

\* Every slice lasts between 10 ms and K ms.
THEOREM SliceInRange ==
    ASSUME NEW v \in Int
    PROVE  time_slice(v) \in 10 .. K
BY DEF time_slice, CDiv, K

\* A higher value never buys a shorter slice.
THEOREM SliceMonotone ==
    ASSUME NEW v \in Int, NEW w \in Int, v =< w
    PROVE  time_slice(v) =< time_slice(w)
BY DEF time_slice, CDiv, K

\* The score system call and the scheduler compute one function: the score at
\* second s is the value of a task whose entry time plus promise is s seconds.
THEOREM ScoreIsValue ==
    ASSUME NEW s \in Int, NEW d1 \in Int, NEW d2 \in Int, d1 < d2
    PROVE  get_scheduling_score(s, d1, d2)
             = compute_init_sched_value(s * K, 0, d1, d2)
<1> DEFINE n == (d2 - s) * 100
           m == d2 - d1
<1>1. CASE d1 =< s /\ s =< d2
  <2>1. n \in Nat /\ m \in Nat /\ m > 0
    BY <1>1
  <2>2. (d2 * K - (s * K + 0)) * H = n * K /\ (d2 - d1) * K = m * K
    BY DEF K, H
  <2>3. CDiv(n * K, m * K) = CDiv(n, m)
    <3> DEFINE q == CDiv(n, m)
               r == CDiv(n * K, m * K)
    <3>1. q \in Nat /\ q * m =< n /\ n < q * m + m
      BY <2>1, CDivNat
    <3>2. n * K \in Nat /\ m * K \in Nat /\ m * K > 0
      BY <2>1 DEF K
    <3>3. r \in Nat /\ r * (m * K) =< n * K /\ n * K < r * (m * K) + m * K
      BY <3>2, CDivNat
    <3>4. r * m =< n /\ n < r * m + m
      <4> HIDE DEF r, n, m
      <4>1. r * (m * K) = (r * m) * K
        BY <2>1, <3>3 DEF K
      <4> QED
        BY <2>1, <3>3, <4>1 DEF K
    <3>5. ASSUME NEW x \in Nat, NEW y \in Nat, x * m =< n, n < y * m + m PROVE x =< y
      <4> HIDE DEF n, m
      <4>1. x * m < (y + 1) * m
        BY <2>1, <3>5
      <4> QED
        BY <2>1, <4>1
    <3>6. q =< r /\ r =< q
      BY <3>1, <3>3, <3>4, <3>5
    <3> QED
      BY <3>1, <3>3, <3>6
  <2> QED
    BY <1>1, <2>2, <2>3 DEF get_scheduling_score, compute_init_sched_value, K, H
<1>2. CASE ~(d1 =< s /\ s =< d2)
  BY <1>2 DEF get_scheduling_score, compute_init_sched_value, K, H
<1> QED
  BY <1>1, <1>2
=============================================================================
