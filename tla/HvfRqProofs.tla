---------------------------- MODULE HvfRqProofs -----------------------------
(***************************************************************************)
(* What the methods of the HVF class preserve on a run queue, for any set  *)
(* of tasks: its type, the agreement of tree, flags, counter and cache     *)
(* (Linked), and, for an entity that is not on the tree, the order of the  *)
(* tree and the cached maximum (Ordered).                                  *)
(***************************************************************************)
EXTENDS HvfRq, SequenceTheorems, TLAPS

RqFields == {"queue", "max", "hcurr", "nr", "nr_running", "fair", "on",
             "value", "expired", "worth", "over"}

\* The type of a run queue state.
IsRq(k) ==
    /\ DOMAIN k = RqFields
    /\ k.queue \in Seq(Tasks)
    /\ k.hcurr \in Tasks \cup {NULL}
    /\ k.nr_running \in 0 .. UIntMod - 1
    /\ k.fair \subseteq Tasks
    /\ k.on \in [Tasks -> BOOLEAN] /\ k.expired \in [Tasks -> BOOLEAN]
    /\ k.over \in [Tasks -> BOOLEAN]
    /\ k.value \in [Tasks -> Values] /\ k.worth \in [Tasks -> Values]

Good(k) == IsRq(k) /\ Linked(k)

\* The order that makes the cached maximum right.
Ordered(k) == Sorted(k) /\ k.max = rb_last(k.queue)

\* The tree as a sequence of nodes: x is one of them, none is there twice, their
\* values ascend, s is Q with t linked at place p, s is Q without its node i.
On(x, s) == \E j \in 1 .. Len(s) : s[j] = x
Distinct(s) == \A m, n \in 1 .. Len(s) : s[m] = s[n] => m = n
Ascending(s, val) == \A m, n \in 1 .. Len(s) : m < n => val[s[m]] =< val[s[n]]
LinkedAt(Q, p, t, s) ==
    /\ s \in Seq(Tasks) /\ Len(s) = Len(Q) + 1
    /\ \A j \in 1 .. Len(Q) + 1 :
          s[j] = IF j < p THEN Q[j] ELSE IF j = p THEN t ELSE Q[j - 1]
ErasedAt(Q, i, s) ==
    /\ s \in Seq(Tasks) /\ Len(s) = Len(Q) - 1
    /\ \A j \in 1 .. Len(Q) - 1 : s[j] = IF j < i THEN Q[j] ELSE Q[j + 1]

-----------------------------------------------------------------------------
\* Linking and erasing a node.

\* InsertAt shifts what is behind the gap.
LEMMA InsertedElements ==
    ASSUME NEW s \in Seq(Tasks), NEW t \in Tasks, NEW p \in 1 .. Len(s) + 1
    PROVE  LinkedAt(s, p, t, InsertAt(s, p, t))
<1> DEFINE a == SubSeq(s, 1, p - 1)
           b == SubSeq(s, p, Len(s))
           c == a \o <<t>>
<1>1. /\ a \in Seq(Tasks) /\ Len(a) = p - 1
      /\ \A j \in 1 .. p - 1 : a[j] = s[j]
  OBVIOUS
<1>2. /\ b \in Seq(Tasks) /\ Len(b) = Len(s) + 1 - p
      /\ \A j \in 1 .. Len(s) + 1 - p : b[j] = s[p + j - 1]
  OBVIOUS
<1>3. InsertAt(s, p, t) = c \o b
  BY Zenon DEF InsertAt
<1>4. /\ c \in Seq(Tasks) /\ Len(c) = p
      /\ \A j \in 1 .. p : c[j] = IF j < p THEN s[j] ELSE t
  <2> HIDE DEF a, b
  <2> QED BY <1>1
<1> HIDE DEF a, b, c
<1>5. c \in Seq(Tasks) /\ b \in Seq(Tasks)
  BY <1>2, <1>4
<1>6. /\ c \o b \in Seq(Tasks)
      /\ Len(c \o b) = Len(c) + Len(b)
      /\ \A j \in 1 .. Len(c) + Len(b) :
             (c \o b)[j] = IF j <= Len(c) THEN c[j] ELSE b[j - Len(c)]
  BY <1>5, ConcatProperties, Zenon
<1> DEFINE d == c \o b
<1>7. /\ d \in Seq(Tasks) /\ Len(d) = Len(s) + 1
      /\ \A j \in 1 .. Len(s) + 1 : d[j] = IF j =< p THEN c[j] ELSE b[j - p]
  <2> HIDE DEF d
  <2>1. /\ d \in Seq(Tasks)
        /\ Len(d) = Len(c) + Len(b)
        /\ \A j \in 1 .. Len(c) + Len(b) :
               d[j] = IF j <= Len(c) THEN c[j] ELSE b[j - Len(c)]
    BY <1>6, Zenon DEF d
  <2> QED BY <2>1, <1>2, <1>4
<1> HIDE DEF d
<1>8. ASSUME NEW j \in 1 .. Len(s) + 1
      PROVE  d[j] = IF j < p THEN s[j] ELSE IF j = p THEN t ELSE s[j - 1]
  <2>1. CASE j =< p
    BY <2>1, <1>4, <1>7
  <2>2. CASE ~(j =< p)
    <3>1. j - p \in 1 .. Len(s) + 1 - p /\ p + (j - p) - 1 = j - 1
      BY <2>2
    <3>2. b[j - p] = s[j - 1]
      BY <1>2, <3>1
    <3> QED BY <2>2, <1>7, <3>2
  <2> QED BY <2>1, <2>2
<1> QED
  BY <1>3, <1>7, <1>8 DEF d, LinkedAt

\* RemoveAt closes the gap.
LEMMA ErasedElements ==
    ASSUME NEW s \in Seq(Tasks), NEW i \in 1 .. Len(s)
    PROVE  ErasedAt(s, i, RemoveAt(s, i))
<1> DEFINE a == SubSeq(s, 1, i - 1)
           b == SubSeq(s, i + 1, Len(s))
           d == a \o b
<1>1. /\ a \in Seq(Tasks) /\ Len(a) = i - 1
      /\ \A j \in 1 .. i - 1 : a[j] = s[j]
  OBVIOUS
<1>2. /\ b \in Seq(Tasks) /\ Len(b) = Len(s) - i
      /\ \A j \in 1 .. Len(s) - i : b[j] = s[i + j]
  OBVIOUS
<1>3. RemoveAt(s, i) = d
  BY Zenon DEF RemoveAt
<1> HIDE DEF a, b
<1>4. a \in Seq(Tasks) /\ b \in Seq(Tasks)
  BY <1>1, <1>2
<1>5. /\ d \in Seq(Tasks)
      /\ Len(d) = Len(a) + Len(b)
      /\ \A j \in 1 .. Len(a) + Len(b) :
             d[j] = IF j <= Len(a) THEN a[j] ELSE b[j - Len(a)]
  BY <1>4, ConcatProperties, Zenon
<1> HIDE DEF d
<1>6. /\ Len(d) = Len(s) - 1
      /\ \A j \in 1 .. Len(s) - 1 : d[j] = IF j < i THEN a[j] ELSE b[j - (i - 1)]
  <2>1. Len(a) + Len(b) = Len(s) - 1
    BY <1>1, <1>2
  <2> QED BY <1>1, <1>5, <2>1
<1>7. ASSUME NEW j \in 1 .. Len(s) - 1
      PROVE  d[j] = IF j < i THEN s[j] ELSE s[j + 1]
  <2>1. CASE j < i
    BY <2>1, <1>1, <1>6
  <2>2. CASE ~(j < i)
    <3>1. j - (i - 1) \in 1 .. Len(s) - i /\ i + (j - (i - 1)) = j + 1
      BY <2>2
    <3>2. b[j - (i - 1)] = s[j + 1]
      BY <1>2, <3>1
    <3> QED BY <2>2, <1>6, <3>2
  <2> QED BY <2>1, <2>2
<1> QED
  BY <1>3, <1>5, <1>6, <1>7 DEF ErasedAt

\* The place of a node in a tree that links no node twice.
LEMMA PositionOf ==
    ASSUME NEW s \in Seq(Tasks), Distinct(s), NEW i \in 1 .. Len(s), NEW x, s[i] = x
    PROVE  Position(s, x) = i
BY DEF Position, Distinct

\* The nodes of the tree.
LEMMA QueuedOn ==
    ASSUME NEW k, NEW x
    PROVE  x \in Queued(k) <=> On(x, k.queue)
BY DEF Queued, On

\* Reducing a value leaves a value.
LEMMA WornInRange ==
    ASSUME NEW v \in Values
    PROVE  Worn(v) \subseteq Values
BY RqAssumption DEF Worn, Values

\* Linking a node keeps the nodes different, and adds just that node.
LEMMA InsertedNodes ==
    ASSUME NEW Q \in Seq(Tasks), NEW t \in Tasks, NEW p \in 1 .. Len(Q) + 1,
           Distinct(Q), ~On(t, Q), NEW s, LinkedAt(Q, p, t, s)
    PROVE  Distinct(s) /\ \A x : On(x, s) <=> On(x, Q) \/ x = t
<1>1. ASSUME NEW j \in 1 .. Len(s)
      PROVE  \/ j < p /\ j \in 1 .. Len(Q) /\ s[j] = Q[j]
             \/ j = p /\ s[j] = t
             \/ j > p /\ j - 1 \in 1 .. Len(Q) /\ s[j] = Q[j - 1]
  BY DEF LinkedAt
<1>2. Distinct(s)
  <2> SUFFICES ASSUME NEW m \in 1 .. Len(s), NEW n \in 1 .. Len(s), s[m] = s[n]
               PROVE  m = n
    BY DEF Distinct
  <2>1. \/ m < p /\ m \in 1 .. Len(Q) /\ s[m] = Q[m]
        \/ m = p /\ s[m] = t
        \/ m > p /\ m - 1 \in 1 .. Len(Q) /\ s[m] = Q[m - 1]
    BY <1>1
  <2>2. \/ n < p /\ n \in 1 .. Len(Q) /\ s[n] = Q[n]
        \/ n = p /\ s[n] = t
        \/ n > p /\ n - 1 \in 1 .. Len(Q) /\ s[n] = Q[n - 1]
    BY <1>1
  <2>3. \A l \in 1 .. Len(Q) : Q[l] # t
    BY DEF On
  <2> QED BY <2>1, <2>2, <2>3 DEF Distinct
<1>3. ASSUME NEW x, On(x, s) PROVE On(x, Q) \/ x = t
  BY <1>1, <1>3 DEF On
<1>4. On(t, s)
  BY DEF LinkedAt, On
<1>5. ASSUME NEW l \in 1 .. Len(Q) PROVE On(Q[l], s)
  <2>1. CASE l < p
    BY <2>1 DEF LinkedAt, On
  <2>2. CASE ~(l < p)
    <3>1. l + 1 \in 1 .. Len(s) /\ s[l + 1] = Q[l]
      BY <2>2 DEF LinkedAt
    <3> QED BY <3>1 DEF On
  <2> QED BY <2>1, <2>2
<1>6. ASSUME NEW x, On(x, Q) PROVE On(x, s)
  BY <1>5, <1>6 DEF On
<1> QED BY <1>2, <1>3, <1>4, <1>6

\* Erasing a node keeps the nodes different, and takes just that node.
LEMMA ErasedNodes ==
    ASSUME NEW Q \in Seq(Tasks), NEW i \in 1 .. Len(Q),
           Distinct(Q), NEW s, ErasedAt(Q, i, s)
    PROVE  Distinct(s) /\ \A x : On(x, s) <=> On(x, Q) /\ x # Q[i]
<1>1. ASSUME NEW j \in 1 .. Len(s)
      PROVE  \/ j < i /\ j \in 1 .. Len(Q) /\ s[j] = Q[j]
             \/ i =< j /\ j + 1 \in 1 .. Len(Q) /\ s[j] = Q[j + 1]
  BY DEF ErasedAt
<1>2. Distinct(s)
  <2> SUFFICES ASSUME NEW m \in 1 .. Len(s), NEW n \in 1 .. Len(s), s[m] = s[n]
               PROVE  m = n
    BY DEF Distinct
  <2> QED BY <1>1 DEF Distinct
<1>3. ASSUME NEW x, On(x, s) PROVE On(x, Q) /\ x # Q[i]
  <2>1. PICK j \in 1 .. Len(s) : s[j] = x
    BY <1>3 DEF On
  <2> QED BY <1>1, <2>1 DEF On, Distinct
<1>4. ASSUME NEW l \in 1 .. Len(Q), Q[l] # Q[i] PROVE On(Q[l], s)
  <2>1. CASE l < i
    BY <2>1 DEF ErasedAt, On
  <2>2. CASE l > i
    <3>1. l - 1 \in 1 .. Len(s) /\ s[l - 1] = Q[l]
      BY <2>2 DEF ErasedAt
    <3> QED BY <3>1 DEF On
  <2> QED BY <1>4, <2>1, <2>2
<1>5. ASSUME NEW x, On(x, Q), x # Q[i] PROVE On(x, s)
  BY <1>4, <1>5 DEF On
<1> QED BY <1>2, <1>3, <1>5

\* Linking a node into a sorted tree where its value belongs keeps it sorted, and
\* the last node is the new one just when its value is the highest.
LEMMA InsertedOrder ==
    ASSUME NEW Q \in Seq(Tasks), NEW t \in Tasks, NEW p \in 1 .. Len(Q) + 1,
           ~On(t, Q), NEW s, LinkedAt(Q, p, t, s),
           NEW old \in [Tasks -> Values], NEW v \in Values,
           NEW new, new = [old EXCEPT ![t] = v],
           Ascending(Q, old), p \in Gaps(Q, old, v)
    PROVE  /\ Ascending(s, new)
           /\ Len(Q) # 0 => (old[Q[Len(Q)]] < v <=> p = Len(Q) + 1)
<1>1. /\ \A m \in 1 .. Len(Q) : old[Q[m]] \in Int /\ new[Q[m]] = old[Q[m]]
      /\ new[t] = v /\ v \in Int
  BY RqAssumption DEF Values, On
<1>2. /\ p = 1 \/ old[Q[p - 1]] < v
      /\ p = Len(Q) + 1 \/ v =< old[Q[p]]
  BY DEF Gaps
<1>3. ASSUME NEW m \in 1 .. Len(Q), m < p PROVE old[Q[m]] < v
  <2>1. p - 1 \in 1 .. Len(Q) /\ p # 1
    BY <1>3
  <2>2. m = p - 1 \/ old[Q[m]] =< old[Q[p - 1]]
    BY <1>3, <2>1 DEF Ascending
  <2> QED BY <1>1, <1>2, <2>1, <2>2
<1>4. ASSUME NEW m \in 1 .. Len(Q), p =< m PROVE v =< old[Q[m]]
  <2>1. p \in 1 .. Len(Q) /\ p # Len(Q) + 1
    BY <1>4
  <2>2. m = p \/ old[Q[p]] =< old[Q[m]]
    BY <1>4, <2>1 DEF Ascending
  <2> QED BY <1>1, <1>2, <2>1, <2>2
<1>5. ASSUME NEW m \in 1 .. Len(s), NEW n \in 1 .. Len(s), m < n
      PROVE  new[s[m]] =< new[s[n]]
  <2>1. CASE n < p
    <3>1. m \in 1 .. Len(Q) /\ n \in 1 .. Len(Q) /\ s[m] = Q[m] /\ s[n] = Q[n]
      BY <1>5, <2>1 DEF LinkedAt
    <3> QED BY <1>1, <1>5, <3>1 DEF Ascending
  <2>2. CASE n = p
    <3>1. m \in 1 .. Len(Q) /\ m < p /\ s[m] = Q[m] /\ s[n] = t
      BY <1>5, <2>2 DEF LinkedAt
    <3> QED BY <1>1, <1>3, <3>1
  <2>3. CASE n > p /\ m < p
    <3>1. /\ m \in 1 .. Len(Q) /\ n - 1 \in 1 .. Len(Q) /\ m < n - 1
          /\ s[m] = Q[m] /\ s[n] = Q[n - 1]
      BY <1>5, <2>3 DEF LinkedAt
    <3> QED BY <1>1, <3>1 DEF Ascending
  <2>4. CASE n > p /\ m = p
    <3>1. n - 1 \in 1 .. Len(Q) /\ p =< n - 1 /\ s[m] = t /\ s[n] = Q[n - 1]
      BY <1>5, <2>4 DEF LinkedAt
    <3> QED BY <1>1, <1>4, <3>1
  <2>5. CASE n > p /\ m > p
    <3>1. /\ m - 1 \in 1 .. Len(Q) /\ n - 1 \in 1 .. Len(Q) /\ m - 1 < n - 1
          /\ s[m] = Q[m - 1] /\ s[n] = Q[n - 1]
      BY <1>5, <2>5 DEF LinkedAt
    <3> QED BY <1>1, <3>1 DEF Ascending
  <2> QED BY <2>1, <2>2, <2>3, <2>4, <2>5
<1>6. ASSUME Len(Q) # 0 PROVE old[Q[Len(Q)]] < v <=> p = Len(Q) + 1
  <2>1. Len(Q) \in 1 .. Len(Q)
    BY <1>6
  <2>2. CASE p = Len(Q) + 1
    <3>1. Len(Q) < p
      BY <2>2
    <3> QED BY <1>3, <2>1, <2>2, <3>1
  <2>3. CASE p # Len(Q) + 1
    <3>1. p =< Len(Q)
      BY <2>3
    <3> QED BY <1>1, <1>4, <2>1, <2>3, <3>1
  <2> QED BY <2>2, <2>3
<1> QED BY <1>5, <1>6 DEF Ascending

-----------------------------------------------------------------------------
\* enqueue_hvf_entity links an entity that is not on the tree, changes no other
\* value, and keeps the order and the cached maximum.
LEMMA EnqueueEntity ==
    ASSUME NEW k, Good(k), NEW t \in Tasks, ~k.on[t],
           NEW r \in enqueue_hvf_entity(k, t)
    PROVE  /\ Good(r)
           /\ r.hcurr = k.hcurr /\ r.fair = k.fair /\ r.nr_running = k.nr_running
           /\ Queued(r) = Queued(k) \cup {t}
           /\ \A u \in Tasks \ {t} : r.value[u] = k.value[u]
           /\ Ordered(k) => Ordered(r)
<1> DEFINE Linking(v, s) ==
               [k EXCEPT !.queue = s, !.nr = @ + 1, !.max = MaxAfterInsert(k, s, v),
                         !.on = [@ EXCEPT ![t] = TRUE],
                         !.value = [@ EXCEPT ![t] = v]]
           Inserts(v) == hvf_rq_rbtree_insert(k.queue, k.value, t, v)
           Links(v) == { Linking(v, s) : s \in Inserts(v) }
           Penalised == IF k.over[t] THEN Worn(k.value[t]) ELSE {k.value[t]}
<1>0. /\ k.value \in [Tasks -> Values] /\ k.value[t] \in Values
      /\ k.on \in [Tasks -> BOOLEAN] /\ k.queue \in Seq(Tasks)
  BY DEF Good, IsRq
<1>1. PICK v \in Penalised : \E s \in Inserts(v) : r = Linking(v, s)
  <2>1. enqueue_hvf_entity(k, t) = UNION { Links(v) : v \in Penalised }
    BY Zenon DEF enqueue_hvf_entity
  <2> HIDE DEF Penalised, Links
  <2>2. PICK v \in Penalised : r \in Links(v)
    BY <2>1, Zenon
  <2> HIDE DEF Linking, Inserts
  <2>3. \E s \in Inserts(v) : r = Linking(v, s)
    BY <2>2, Zenon DEF Links
  <2> QED
    BY <2>3
<1>2. v \in Values
  BY <1>0, <1>1, WornInRange
<1>3. PICK s \in hvf_rq_rbtree_insert(k.queue, k.value, t, v) : r = Linking(v, s)
  BY <1>1
<1>4. PICK p \in Gaps(k.queue, k.value, v) : s = InsertAt(k.queue, p, t)
  BY <1>3 DEF hvf_rq_rbtree_insert
<1>5. PICK Q : Q = k.queue
  OBVIOUS
<1>6. /\ DOMAIN r = RqFields
      /\ r.queue = s /\ r.nr = k.nr + 1 /\ r.max = MaxAfterInsert(k, s, v)
      /\ r.on = [k.on EXCEPT ![t] = TRUE] /\ r.value = [k.value EXCEPT ![t] = v]
      /\ r.hcurr = k.hcurr /\ r.fair = k.fair /\ r.nr_running = k.nr_running
      /\ r.expired = k.expired /\ r.worth = k.worth /\ r.over = k.over
  BY <1>3 DEF Good, IsRq, RqFields
<1>7. /\ Q \in Seq(Tasks) /\ k.nr = Len(Q)
      /\ Distinct(Q) /\ ~On(t, Q)
      /\ k.max # NULL => On(k.max, Q)
  BY <1>0, <1>5 DEF Good, Linked, Queued, On, Distinct
<1>8. p \in 1 .. Len(Q) + 1 /\ p \in Gaps(Q, k.value, v) /\ s = InsertAt(Q, p, t)
  BY <1>4, <1>5 DEF Gaps
<1>9. LinkedAt(Q, p, t, s)
  BY <1>7, <1>8, InsertedElements
<1>10. Distinct(s) /\ \A x : On(x, s) <=> On(x, Q) \/ x = t
  BY <1>7, <1>8, <1>9, InsertedNodes
<1>11. s \in Seq(Tasks) /\ Len(s) = Len(Q) + 1
  BY <1>9 DEF LinkedAt
<1> HIDE DEF Linking
<1>12. Queued(r) = Queued(k) \cup {t}
  <2>1. \A x : /\ x \in Queued(r) <=> On(x, s)
               /\ x \in Queued(k) <=> On(x, Q)
    BY <1>5, <1>6, QueuedOn
  <2> QED BY <1>10, <2>1
<1>13. IsRq(r)
  <2>1. /\ [k.on EXCEPT ![t] = TRUE] \in [Tasks -> BOOLEAN]
        /\ [k.value EXCEPT ![t] = v] \in [Tasks -> Values]
    BY <1>0, <1>2
  <2> QED BY <1>6, <1>11, <2>1, Zenon DEF Good, IsRq
<1>14. r.max # NULL => On(r.max, s)
  <2>1. CASE k.max = NULL
    BY <1>6, <1>11, <2>1 DEF MaxAfterInsert, rb_last, On
  <2>2. CASE k.max # NULL
    <3>1. On(k.max, s)
      BY <1>7, <1>10, <2>2
    <3>2. PICK n \in 1 .. Len(s) : s[n] = k.max
      BY <3>1 DEF On
    <3>3. Position(s, k.max) = n
      BY <1>10, <1>11, <3>2, PositionOf
    <3>4. rb_next(s, k.max) # NULL => On(rb_next(s, k.max), s)
      BY <1>11, <3>2, <3>3 DEF rb_next, On
    <3> QED BY <1>6, <2>2, <3>1, <3>4 DEF MaxAfterInsert
  <2> QED BY <2>1, <2>2
<1>15. Linked(r)
  <2>1. \A u \in Tasks : r.on[u] <=> u \in Queued(r)
    BY <1>0, <1>6, <1>12 DEF Good, Linked
  <2>2. r.max # NULL => r.max \in Queued(r)
    BY <1>6, <1>14, QueuedOn
  <2> QED BY <1>6, <1>7, <1>10, <1>11, <2>1, <2>2 DEF Linked, Distinct
<1>16. \A u \in Tasks \ {t} : r.value[u] = k.value[u]
  BY <1>0, <1>6
<1>17. ASSUME Ordered(k) PROVE Ordered(r)
  <2>1. Ascending(Q, k.value)
    BY <1>5, <1>17 DEF Ordered, Sorted, Ascending
  <2>2. /\ Ascending(s, r.value)
        /\ Len(Q) # 0 => (k.value[Q[Len(Q)]] < v <=> p = Len(Q) + 1)
    BY <1>0, <1>2, <1>6, <1>7, <1>8, <1>9, <2>1, InsertedOrder
  <2>3. k.max = IF Len(Q) = 0 THEN NULL ELSE Q[Len(Q)]
    BY <1>5, <1>7, <1>17 DEF Ordered, rb_last
  <2>4. r.max = s[Len(s)]
    <3>1. CASE Len(Q) = 0
      BY <1>6, <1>11, <2>3, <3>1 DEF MaxAfterInsert, rb_last
    <3>2. CASE Len(Q) # 0
      <4>1. Len(Q) \in 1 .. Len(Q) /\ Q[Len(Q)] \in Tasks /\ k.max # NULL
        BY <1>7, <2>3, <3>2, RqAssumption
      <4>2. CASE p = Len(Q) + 1
        <5>1. s[Len(Q)] = k.max /\ Len(Q) \in 1 .. Len(s)
          BY <1>9, <2>3, <3>2, <4>1, <4>2 DEF LinkedAt
        <5>2. Position(s, k.max) = Len(Q)
          BY <1>10, <1>11, <5>1, PositionOf
        <5>3. k.value[k.max] < v
          BY <2>2, <2>3, <3>2, <4>2
        <5>4. r.max = rb_next(s, k.max)
          BY <1>6, <4>1, <5>3 DEF MaxAfterInsert
        <5> QED BY <1>11, <4>1, <5>2, <5>4 DEF rb_next
      <4>3. CASE p # Len(Q) + 1
        <5>1. s[Len(s)] = Q[Len(Q)]
          BY <1>8, <1>9, <3>2, <4>1, <4>3 DEF LinkedAt
        <5>2. ~(k.value[k.max] < v)
          BY <2>2, <2>3, <3>2, <4>3
        <5> QED BY <1>6, <2>3, <3>2, <4>1, <5>1, <5>2 DEF MaxAfterInsert
      <4> QED BY <4>2, <4>3
    <3> QED BY <3>1, <3>2
  <2>5. s # <<>>
    BY <1>7, <1>11
  <2> QED BY <1>6, <2>2, <2>4, <2>5 DEF Ordered, Sorted, Ascending, rb_last
<1> QED BY <1>6, <1>12, <1>13, <1>15, <1>16, <1>17 DEF Good

\* dequeue_hvf_entity takes an entity off the tree and changes no value.
LEMMA DequeueEntity ==
    ASSUME NEW k, Good(k), NEW t \in Tasks, k.on[t],
           NEW r, r = dequeue_hvf_entity(k, t)
    PROVE  /\ Good(r)
           /\ r.hcurr = k.hcurr /\ r.fair = k.fair /\ r.nr_running = k.nr_running
           /\ Queued(r) = Queued(k) \ {t}
           /\ r.value = k.value
           /\ Ordered(k) => Ordered(r)
<1>0. /\ k.on \in [Tasks -> BOOLEAN] /\ k.queue \in Seq(Tasks)
      /\ k.value \in [Tasks -> Values]
  BY DEF Good, IsRq
<1>1. PICK Q : Q = k.queue
  OBVIOUS
<1>2. /\ Q \in Seq(Tasks) /\ k.nr = Len(Q)
      /\ Distinct(Q) /\ On(t, Q)
      /\ k.max # NULL => On(k.max, Q)
  BY <1>0, <1>1 DEF Good, Linked, Queued, On, Distinct
<1>3. PICK i \in 1 .. Len(Q) : Q[i] = t
  BY <1>2 DEF On
<1>4. Position(Q, t) = i
  BY <1>2, <1>3, PositionOf
<1>5. PICK s : s = RemoveAt(Q, i)
  OBVIOUS
<1>6. /\ DOMAIN r = RqFields
      /\ r.queue = s /\ r.nr = k.nr - 1
      /\ r.max = IF k.max = t THEN rb_prev(Q, t) ELSE k.max
      /\ r.on = [k.on EXCEPT ![t] = FALSE] /\ r.value = k.value
      /\ r.hcurr = k.hcurr /\ r.fair = k.fair /\ r.nr_running = k.nr_running
      /\ r.expired = k.expired /\ r.worth = k.worth /\ r.over = k.over
  BY <1>1, <1>4, <1>5 DEF Good, IsRq, RqFields, dequeue_hvf_entity, rb_erase
<1>7. ErasedAt(Q, i, s)
  BY <1>2, <1>3, <1>5, ErasedElements
<1>8. Distinct(s) /\ \A x : On(x, s) <=> On(x, Q) /\ x # t
  BY <1>2, <1>3, <1>7, ErasedNodes
<1>9. s \in Seq(Tasks) /\ Len(s) = Len(Q) - 1
  BY <1>7 DEF ErasedAt
<1>10. Queued(r) = Queued(k) \ {t}
  <2>1. \A x : /\ x \in Queued(r) <=> On(x, s)
               /\ x \in Queued(k) <=> On(x, Q)
    BY <1>1, <1>6, QueuedOn
  <2> QED BY <1>8, <2>1
<1>11. IsRq(r)
  <2>1. [k.on EXCEPT ![t] = FALSE] \in [Tasks -> BOOLEAN]
    BY <1>0
  <2> QED BY <1>6, <1>9, <2>1, Zenon DEF Good, IsRq
<1>12. k.max = t => r.max = IF i > 1 THEN Q[i - 1] ELSE NULL
  BY <1>4, <1>6 DEF rb_prev
<1>13. r.max # NULL => On(r.max, s)
  <2>1. CASE k.max = t /\ i > 1
    <3>1. i - 1 \in 1 .. Len(Q) /\ i - 1 # i /\ r.max = Q[i - 1]
      BY <1>2, <1>3, <1>12, <2>1
    <3>2. On(r.max, Q) /\ r.max # t
      BY <1>2, <1>3, <3>1 DEF On, Distinct
    <3> QED BY <1>8, <3>2
  <2>2. CASE k.max = t /\ ~(i > 1)
    BY <1>12, <2>2
  <2>3. CASE k.max # t
    <3>1. r.max = k.max
      BY <1>6, <2>3
    <3> QED BY <1>2, <1>8, <2>3, <3>1
  <2> QED BY <2>1, <2>2, <2>3
<1>14. Linked(r)
  <2>1. \A u \in Tasks : r.on[u] <=> u \in Queued(r)
    BY <1>0, <1>6, <1>10 DEF Good, Linked
  <2>2. r.max # NULL => r.max \in Queued(r)
    BY <1>6, <1>13, QueuedOn
  <2> QED BY <1>2, <1>6, <1>8, <1>9, <2>1, <2>2 DEF Linked, Distinct
<1>15. ASSUME Ordered(k) PROVE Ordered(r)
  <2>1. Ascending(Q, k.value)
    BY <1>1, <1>15 DEF Ordered, Sorted, Ascending
  <2>2. ASSUME NEW m \in 1 .. Len(s), NEW n \in 1 .. Len(s), m < n
        PROVE  k.value[s[m]] =< k.value[s[n]]
    <3>1. PICK a \in 1 .. Len(Q) : s[m] = Q[a] /\ a = IF m < i THEN m ELSE m + 1
      BY <1>2, <1>7 DEF ErasedAt
    <3>2. PICK b \in 1 .. Len(Q) : s[n] = Q[b] /\ b = IF n < i THEN n ELSE n + 1
      BY <1>2, <1>7 DEF ErasedAt
    <3>3. a < b
      BY <1>9, <2>2, <3>1, <3>2
    <3> QED BY <2>1, <3>1, <3>2, <3>3 DEF Ascending
  <2>3. k.max = Q[Len(Q)] /\ Len(Q) \in 1 .. Len(Q)
    BY <1>1, <1>2, <1>3, <1>15 DEF Ordered, rb_last
  <2>4. r.max = IF Len(s) = 0 THEN NULL ELSE s[Len(s)]
    <3>1. CASE i = Len(Q)
      <4>1. r.max = IF i > 1 THEN Q[i - 1] ELSE NULL
        BY <1>3, <1>12, <2>3, <3>1
      <4>2. i > 1 => Len(s) # 0 /\ s[Len(s)] = Q[i - 1]
        BY <1>2, <1>7, <3>1 DEF ErasedAt
      <4> QED BY <1>2, <1>3, <1>9, <3>1, <4>1, <4>2
    <3>2. CASE i # Len(Q)
      <4>1. k.max # t
        BY <1>2, <1>3, <2>3, <3>2 DEF Distinct
      <4>2. Len(s) # 0 /\ s[Len(s)] = Q[Len(Q)]
        BY <1>2, <1>3, <1>7, <3>2 DEF ErasedAt
      <4> QED BY <1>6, <2>3, <4>1, <4>2
    <3> QED BY <3>1, <3>2
  <2>5. s = <<>> <=> Len(s) = 0
    BY <1>9
  <2> QED BY <1>6, <2>2, <2>4, <2>5 DEF Ordered, Sorted, rb_last
<1> QED BY <1>6, <1>10, <1>11, <1>14, <1>15 DEF Good

-----------------------------------------------------------------------------
\* r differs from k at most in the entity of t, and not in the tree, the counters
\* or who is current.
Touched(k, r, t) ==
    /\ IsRq(r)
    /\ r.queue = k.queue /\ r.max = k.max /\ r.nr = k.nr /\ r.on = k.on
    /\ r.hcurr = k.hcurr /\ r.fair = k.fair /\ r.nr_running = k.nr_running
    /\ \A u \in Tasks \ {t} : r.value[u] = k.value[u]

\* Such a change matters to the order only if t is on the tree.
LEMMA TouchedGood ==
    ASSUME NEW k, Good(k), NEW t \in Tasks, NEW r, Touched(k, r, t)
    PROVE  /\ Good(r) /\ Queued(r) = Queued(k)
           /\ ~k.on[t] /\ Ordered(k) => Ordered(r)
<1>1. Queued(r) = Queued(k)
  BY DEF Touched, Queued
<1>2. Linked(r)
  BY <1>1 DEF Touched, Good, Linked
<1>3. ASSUME ~k.on[t], Ordered(k) PROVE Ordered(r)
  <2>1. k.queue \in Seq(Tasks) /\ \A i \in 1 .. Len(k.queue) : k.queue[i] \in Tasks \ {t}
    BY <1>3 DEF Good, IsRq, Linked, Queued
  <2>2. \A i \in 1 .. Len(k.queue) : r.value[k.queue[i]] = k.value[k.queue[i]]
    BY <2>1 DEF Touched
  <2> QED BY <1>3, <2>2 DEF Ordered, Sorted, Touched
<1> QED BY <1>1, <1>2, <1>3 DEF Good, Touched

\* compute_init_sched_value.
LEMMA ComputeTouches ==
    ASSUME NEW k, Good(k), NEW t \in Tasks
    PROVE  Touched(k, compute_init_sched_value(k, t), t)
BY DEF Good, IsRq, RqFields, Touched, compute_init_sched_value

\* give_default_hvf_values and init_sched_hvf_entity.
LEMMA InitialisedTouches ==
    ASSUME NEW k, Good(k), NEW t \in Tasks, NEW r \in Initialised(k, t)
    PROVE  Touched(k, r, t)
<1> DEFINE F(w, b) ==
               [k EXCEPT !.worth = [@ EXCEPT ![t] = w], !.over = [@ EXCEPT ![t] = b],
                         !.expired = [@ EXCEPT ![t] = FALSE]]
<1>1. PICK w \in Values : r \in { F(w, b) : b \in BOOLEAN }
  BY DEF Initialised
<1>2. PICK b \in BOOLEAN : r = F(w, b)
  BY <1>1
<1>3. /\ [k.worth EXCEPT ![t] = w] \in [Tasks -> Values]
      /\ [k.over EXCEPT ![t] = b] \in [Tasks -> BOOLEAN]
      /\ [k.expired EXCEPT ![t] = FALSE] \in [Tasks -> BOOLEAN]
  BY DEF Good, IsRq
<1> QED BY <1>2, <1>3 DEF Good, IsRq, RqFields, Touched

\* update_used_se_hvf.
LEMMA BilledTouches ==
    ASSUME NEW k, Good(k), NEW t \in Tasks, NEW r \in Billed(k, t)
    PROVE  Touched(k, r, t)
<1>1. PICK b \in {k.over[t], TRUE} : r = [k EXCEPT !.over = [@ EXCEPT ![t] = b]]
  BY DEF Billed
<1>2. [k.over EXCEPT ![t] = b] \in [Tasks -> BOOLEAN]
  BY DEF Good, IsRq
<1> QED BY <1>1, <1>2 DEF Good, IsRq, RqFields, Touched

\* reduce_sched_value after an expired slice.
LEMMA AgedTouches ==
    ASSUME NEW k, Good(k), NEW t \in Tasks, NEW r \in Aged(k, t)
    PROVE  Touched(k, r, t)
<1>1. \A v \in Worn(k.value[t]) : v \in Values
  BY WornInRange DEF Good, IsRq
<1>2. CASE k.expired[t]
  <2>1. PICK v \in Worn(k.value[t]) :
           r = [k EXCEPT !.value = [@ EXCEPT ![t] = v],
                         !.expired = [@ EXCEPT ![t] = FALSE]]
    BY <1>2 DEF Aged
  <2>2. /\ [k.value EXCEPT ![t] = v] \in [Tasks -> Values]
        /\ [k.expired EXCEPT ![t] = FALSE] \in [Tasks -> BOOLEAN]
    BY <1>1 DEF Good, IsRq
  <2> QED BY <2>1, <2>2 DEF Good, IsRq, RqFields, Touched
<1>3. CASE ~k.expired[t]
  BY <1>3 DEF Aged, Touched, Good
<1> QED BY <1>2, <1>3

\* Two changes to the entity of t are one.
LEMMA TouchedTwice ==
    ASSUME NEW k, NEW l, NEW r, NEW t \in Tasks, Touched(k, l, t), Touched(l, r, t)
    PROVE  Touched(k, r, t)
BY DEF Touched

\* The counter wraps and stays an unsigned int.
LEMMA CountersGood ==
    ASSUME NEW k, Good(k), NEW r, r = IncRunning(k) \/ r = DecRunning(k)
    PROVE  /\ Good(r) /\ Queued(r) = Queued(k) /\ r.on = k.on
           /\ r.hcurr = k.hcurr /\ r.fair = k.fair /\ r.value = k.value
           /\ Ordered(k) => Ordered(r)
<1>1. /\ (k.nr_running + 1) % UIntMod \in 0 .. UIntMod - 1
      /\ (k.nr_running - 1) % UIntMod \in 0 .. UIntMod - 1
  BY RqAssumption DEF Good, IsRq
<1>2. /\ DOMAIN r = RqFields
      /\ r.nr_running \in 0 .. UIntMod - 1
      /\ r.queue = k.queue /\ r.max = k.max /\ r.nr = k.nr /\ r.on = k.on
      /\ r.hcurr = k.hcurr /\ r.fair = k.fair /\ r.value = k.value
      /\ r.expired = k.expired /\ r.worth = k.worth /\ r.over = k.over
  BY <1>1 DEF Good, IsRq, RqFields, IncRunning, DecRunning
<1> QED BY <1>2 DEF Good, IsRq, Linked, Queued, Ordered, Sorted

-----------------------------------------------------------------------------
\* The methods.

LEMMA EnqueueTask ==
    ASSUME NEW k, Good(k), NEW t \in Tasks, NEW how,
           NEW r \in enqueue_task_hvf(k, t, how)
    PROVE  /\ Good(r) /\ r.hcurr = k.hcurr /\ r.fair = k.fair
           /\ Queued(r) = IF k.hcurr = t THEN Queued(k) ELSE Queued(k) \cup {t}
           /\ \A u \in Tasks \ {t} : r.value[u] = k.value[u]
           /\ ~k.on[t] /\ Ordered(k) => Ordered(r)
<1> DEFINE prepared == IF how = "changed" THEN Initialised(k, t) ELSE {k}
           inserted(l) == IF l.hcurr # t /\ ~l.on[t]
                          THEN { IncRunning(m) : m \in enqueue_hvf_entity(l, t) }
                          ELSE {l}
<1>1. PICK j \in prepared : r \in inserted(compute_init_sched_value(j, t))
  BY DEF enqueue_task_hvf
<1>2. Touched(k, j, t)
  BY InitialisedTouches DEF Touched, Good
<1>3. PICK l : l = compute_init_sched_value(j, t)
  OBVIOUS
<1>4. Touched(j, l, t)
  BY <1>2, <1>3, ComputeTouches, TouchedGood
<1>5. Touched(k, l, t)
  BY <1>2, <1>4, TouchedTwice
<1>6. /\ Good(l) /\ Queued(l) = Queued(k)
      /\ ~k.on[t] /\ Ordered(k) => Ordered(l)
  BY <1>5, TouchedGood
<1>7. /\ l.on = k.on /\ l.hcurr = k.hcurr /\ l.fair = k.fair
      /\ \A u \in Tasks \ {t} : l.value[u] = k.value[u]
  BY <1>5 DEF Touched
<1>8. CASE k.hcurr # t /\ ~k.on[t]
  <2>1. PICK m \in enqueue_hvf_entity(l, t) : r = IncRunning(m)
    BY <1>1, <1>3, <1>7, <1>8
  <2>2. /\ Good(m) /\ m.hcurr = l.hcurr /\ m.fair = l.fair
        /\ Queued(m) = Queued(l) \cup {t}
        /\ \A u \in Tasks \ {t} : m.value[u] = l.value[u]
        /\ Ordered(l) => Ordered(m)
    BY <1>6, <1>7, <1>8, EnqueueEntity
  <2>3. /\ Good(r) /\ Queued(r) = Queued(m)
        /\ r.hcurr = m.hcurr /\ r.fair = m.fair /\ r.value = m.value
        /\ Ordered(m) => Ordered(r)
    BY <2>1, <2>2, CountersGood
  <2> QED BY <1>6, <1>7, <1>8, <2>2, <2>3
<1>9. CASE ~(k.hcurr # t /\ ~k.on[t])
  <2>1. r = l
    BY <1>1, <1>3, <1>7, <1>9
  <2>2. k.on[t] => t \in Queued(k)
    BY DEF Good, Linked
  <2> QED BY <1>6, <1>7, <1>9, <2>1, <2>2
<1> QED BY <1>8, <1>9

\* Forgetting or setting hvf_rq->curr touches nothing else.
LEMMA CurrSet ==
    ASSUME NEW k, Good(k), NEW c \in Tasks \cup {NULL}
    PROVE  /\ Good(SetCurr(k, c)) /\ Queued(SetCurr(k, c)) = Queued(k)
           /\ SetCurr(k, c).hcurr = c /\ SetCurr(k, c).fair = k.fair
           /\ SetCurr(k, c).value = k.value
           /\ Ordered(k) => Ordered(SetCurr(k, c))
<1>1. PICK r : r = SetCurr(k, c)
  OBVIOUS
<1>2. /\ DOMAIN r = RqFields /\ r.hcurr = c
      /\ r.queue = k.queue /\ r.max = k.max /\ r.nr = k.nr /\ r.on = k.on
      /\ r.nr_running = k.nr_running /\ r.fair = k.fair /\ r.value = k.value
      /\ r.expired = k.expired /\ r.worth = k.worth /\ r.over = k.over
  BY <1>1 DEF Good, IsRq, RqFields, SetCurr
<1>3. /\ Good(r) /\ Queued(r) = Queued(k)
      /\ Ordered(k) => Ordered(r)
  BY <1>2 DEF Good, IsRq, Linked, Queued, Ordered, Sorted
<1> QED BY <1>1, <1>2, <1>3

\* Taking an entity off the tree if it is there.
LEMMA OffTree ==
    ASSUME NEW k, Good(k), NEW t \in Tasks,
           NEW r, r = IF k.on[t] THEN dequeue_hvf_entity(k, t) ELSE k
    PROVE  /\ Good(r) /\ r.hcurr = k.hcurr /\ r.fair = k.fair
           /\ Queued(r) = Queued(k) \ {t} /\ r.value = k.value
           /\ Ordered(k) => Ordered(r)
<1>1. CASE k.on[t]
  BY <1>1, DequeueEntity
<1>2. CASE ~k.on[t]
  BY <1>2 DEF Good, Linked
<1> QED BY <1>1, <1>2

\* dequeue_task_hvf: whenever it succeeds the entity is off the tree.
LEMMA DequeueTask ==
    ASSUME NEW k, Good(k), NEW t \in Tasks, NEW running,
           NEW r, r = dequeue_task_hvf(k, t, running)
    PROVE  /\ Good(r) /\ r.fair = k.fair /\ r.value = k.value
           /\ r.hcurr = IF k.hcurr = t /\ Dequeues(k, t, running) THEN NULL ELSE k.hcurr
           /\ Queued(r) = IF Dequeues(k, t, running) THEN Queued(k) \ {t} ELSE Queued(k)
           /\ Ordered(k) => Ordered(r)
<1>1. CASE ~Dequeues(k, t, running)
  BY <1>1 DEF dequeue_task_hvf
<1>2. CASE Dequeues(k, t, running)
  <2>1. PICK o : o = IF k.on[t] THEN dequeue_hvf_entity(k, t) ELSE k
    OBVIOUS
  <2>2. /\ Good(o) /\ o.hcurr = k.hcurr /\ o.fair = k.fair
        /\ Queued(o) = Queued(k) \ {t} /\ o.value = k.value
        /\ Ordered(k) => Ordered(o)
    BY <2>1, OffTree
  <2>3. CASE k.hcurr = t
    <3>1. PICK l : l = SetCurr(o, NULL)
      OBVIOUS
    <3>2. /\ Good(l) /\ Queued(l) = Queued(o)
          /\ l.hcurr = NULL /\ l.fair = o.fair /\ l.value = o.value
          /\ Ordered(o) => Ordered(l)
      BY <2>2, <3>1, CurrSet
    <3>3. r = DecRunning(l)
      BY <1>2, <2>1, <2>3, <3>1 DEF dequeue_task_hvf
    <3>4. /\ Good(r) /\ Queued(r) = Queued(l)
          /\ r.hcurr = l.hcurr /\ r.fair = l.fair /\ r.value = l.value
          /\ Ordered(l) => Ordered(r)
      BY <3>2, <3>3, CountersGood
    <3> QED BY <1>2, <2>2, <2>3, <3>2, <3>4
  <2>4. CASE k.hcurr # t
    <3>1. r = DecRunning(o)
      BY <1>2, <2>1, <2>4 DEF dequeue_task_hvf
    <3>2. /\ Good(r) /\ Queued(r) = Queued(o)
          /\ r.hcurr = o.hcurr /\ r.fair = o.fair /\ r.value = o.value
          /\ Ordered(o) => Ordered(r)
      BY <2>2, <3>1, CountersGood
    <3> QED BY <1>2, <2>2, <2>4, <3>2
  <2> QED BY <2>3, <2>4
<1> QED BY <1>1, <1>2

\* set_next_task_hvf: the entity leaves the tree and becomes current.
LEMMA SetNextTask ==
    ASSUME NEW k, Good(k), NEW t \in Tasks, NEW o, NEW r,
           o = IF k.on[t] THEN dequeue_hvf_entity(k, t) ELSE k,
           r = SetCurr(o, t)
    PROVE  /\ Good(r) /\ r.fair = k.fair /\ r.value = k.value
           /\ r.hcurr = t /\ Queued(r) = Queued(k) \ {t}
           /\ Ordered(k) => Ordered(r)
<1>1. /\ Good(o) /\ o.fair = k.fair
      /\ Queued(o) = Queued(k) \ {t} /\ o.value = k.value
      /\ Ordered(k) => Ordered(o)
  BY OffTree
<1>2. t \in Tasks \cup {NULL}
  OBVIOUS
<1>3. /\ Good(r) /\ Queued(r) = Queued(o) /\ r.hcurr = t /\ r.fair = o.fair
      /\ r.value = o.value
      /\ Ordered(o) => Ordered(r)
  BY <1>1, <1>2, CurrSet
<1> QED BY <1>1, <1>3

\* task_dead_hvf: the entity is off the tree, and no entity is current.
LEMMA TaskDead ==
    ASSUME NEW k, Good(k), NEW t \in Tasks, NEW r, r = task_dead_hvf(k, t)
    PROVE  /\ Good(r) /\ r.fair = k.fair /\ r.value = k.value
           /\ r.hcurr = NULL /\ Queued(r) = Queued(k) \ {t}
           /\ Ordered(k) => Ordered(r)
<1>1. PICK o : o = IF k.on[t] THEN dequeue_hvf_entity(k, t) ELSE k
  OBVIOUS
<1>2. /\ Good(o) /\ o.fair = k.fair
      /\ Queued(o) = Queued(k) \ {t} /\ o.value = k.value
      /\ Ordered(k) => Ordered(o)
  BY <1>1, OffTree
<1>3. r = SetCurr(o, NULL)
  BY <1>1 DEF task_dead_hvf
<1> QED BY <1>2, <1>3, CurrSet

\* put_prev_task_hvf: a task that is still running goes back on the tree; the
\* reduction of its value is harmless because it was not on it.
LEMMA PutPrevTask ==
    ASSUME NEW k, Good(k), NEW t \in Tasks, NEW running \in BOOLEAN,
           NEW r \in put_prev_task_hvf(k, t, running)
    PROVE  /\ Good(r) /\ r.fair = k.fair
           /\ r.hcurr = IF running THEN NULL ELSE k.hcurr
           /\ Queued(r) = IF running THEN Queued(k) \cup {t} ELSE Queued(k)
           /\ \A u \in Tasks \ {t} : r.value[u] = k.value[u]
           /\ ~k.on[t] /\ Ordered(k) => Ordered(r)
<1>1. CASE ~running
  <2>1. r \in Billed(k, t)
    BY <1>1 DEF put_prev_task_hvf
  <2>2. Touched(k, r, t)
    BY <2>1, BilledTouches
  <2>3. /\ Good(r) /\ Queued(r) = Queued(k)
        /\ ~k.on[t] /\ Ordered(k) => Ordered(r)
    BY <2>2, TouchedGood
  <2> QED BY <1>1, <2>2, <2>3 DEF Touched
<1>2. CASE running
  <2>1. PICK b \in Billed(k, t) : \E a \in Aged(b, t) : r \in put_prev_hvf_entity(a, t)
    BY <1>2 DEF put_prev_task_hvf
  <2>2. PICK a \in Aged(b, t) : r \in put_prev_hvf_entity(a, t)
    BY <2>1
  <2>3. Touched(k, b, t)
    BY BilledTouches
  <2>4. Touched(b, a, t)
    BY <2>3, TouchedGood, AgedTouches
  <2>5. Touched(k, a, t)
    BY <2>3, <2>4, TouchedTwice
  <2>6. /\ Good(a) /\ Queued(a) = Queued(k)
        /\ ~k.on[t] /\ Ordered(k) => Ordered(a)
    BY <2>5, TouchedGood
  <2>7. /\ a.on = k.on /\ a.fair = k.fair
        /\ \A u \in Tasks \ {t} : a.value[u] = k.value[u]
    BY <2>5 DEF Touched
  <2>8. PICK e \in IF a.on[t] THEN {a} ELSE enqueue_hvf_entity(a, t) :
           r = SetCurr(e, NULL)
    BY <2>2 DEF put_prev_hvf_entity
  <2>9. /\ Good(e) /\ e.fair = k.fair /\ Queued(e) = Queued(k) \cup {t}
        /\ \A u \in Tasks \ {t} : e.value[u] = k.value[u]
        /\ ~k.on[t] /\ Ordered(k) => Ordered(e)
    <3>1. CASE a.on[t]
      <4>1. e = a /\ t \in Queued(k)
        BY <2>6, <2>7, <2>8, <3>1 DEF Good, Linked
      <4> QED BY <2>6, <2>7, <4>1
    <3>2. CASE ~a.on[t]
      <4>1. e \in enqueue_hvf_entity(a, t)
        BY <2>8, <3>2
      <4>2. /\ Good(e) /\ e.fair = a.fair /\ Queued(e) = Queued(a) \cup {t}
            /\ \A u \in Tasks \ {t} : e.value[u] = a.value[u]
            /\ Ordered(a) => Ordered(e)
        BY <2>6, <3>2, <4>1, EnqueueEntity
      <4> QED BY <2>6, <2>7, <4>2
    <3> QED BY <3>1, <3>2
  <2>10. /\ Good(r) /\ Queued(r) = Queued(e)
         /\ r.hcurr = NULL /\ r.fair = e.fair /\ r.value = e.value
         /\ Ordered(e) => Ordered(r)
    BY <2>8, <2>9, CurrSet
  <2> QED BY <1>2, <2>9, <2>10
<1> QED BY <1>1, <1>2

\* The order makes the cached entity the highest, and its node the one picked.
LEMMA OrderedIsMaximal ==
    ASSUME NEW k, Good(k), Ordered(k)
    PROVE  Maximal(k)
<1>1. CASE k.queue = <<>>
  BY <1>1 DEF Ordered, rb_last, Maximal
<1>2. CASE k.queue # <<>>
  <2>1. /\ k.queue \in Seq(Tasks) /\ Len(k.queue) \in 1 .. Len(k.queue)
        /\ k.max = k.queue[Len(k.queue)]
    BY <1>2 DEF Good, IsRq, Ordered, rb_last
  <2>2. ASSUME NEW i \in 1 .. Len(k.queue)
        PROVE  k.value[k.queue[i]] =< k.value[k.max]
    <3>1. CASE i = Len(k.queue)
      BY <2>1, <3>1 DEF Good, IsRq, Values
    <3>2. CASE i < Len(k.queue)
      BY <2>1, <3>2 DEF Ordered, Sorted
    <3> QED BY <2>1, <3>1, <3>2
  <2> QED BY <1>2, <2>1, <2>2 DEF Maximal, Queued
<1> QED BY <1>1, <1>2
=============================================================================
