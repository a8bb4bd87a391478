--------------------------- MODULE HvfPlaceProofs ---------------------------
(***************************************************************************)
(* Placement for any number of CPUs, any loads and any value.              *)
(***************************************************************************)
EXTENDS HvfPlace, WellFoundedInduction, FiniteSetTheorems, TLAPS

\* A non-empty set of naturals has a least element.
LEMMA LeastNatural ==
    ASSUME NEW T \in SUBSET Nat, T # {}
    PROVE  \E x \in T : \A y \in T : x =< y
<1>1. PICK x \in T : \A y \in T : ~(<<y, x>> \in OpToRel(<, Nat))
    BY NatLessThanWellFounded, WFMin, Zenon
<1>2. ASSUME NEW y \in T PROVE x =< y
    <2>1. <<y, x>> \in Nat \X Nat
        OBVIOUS
    <2>2. ~(y < x)
        BY <1>1, <2>1 DEF OpToRel
    <2> QED
        BY <2>2
<1> QED
    BY <1>2

\* The chunk of a value is one of the nr_cpus, every chunk below it ends at or below
\* the value, and it ends above the value unless no chunk does.
LEMMA ChunkIsFirst ==
    ASSUME NEW n \in Nat \ {0}, NEW v \in Nat
    PROVE  LET c == H \div n IN
           /\ RightChunk(v, n) \in 1 .. n
           /\ \A i \in 1 .. n : v < i * c => RightChunk(v, n) =< i
           /\ RightChunk(v, n) # n => v < RightChunk(v, n) * c
<1> DEFINE c == H \div n
           A(j) == v < j * c
           T == {j \in 1 .. n : A(j)}
<1>1. CASE T = {}
    BY <1>1 DEF RightChunk
<1>2. CASE T # {}
    <2>1. T \in SUBSET Nat
        OBVIOUS
    <2>2. PICK x \in T : \A y \in T : x =< y
        BY <1>2, <2>1, LeastNatural, Zenon
    <2>3. x \in 1 .. n /\ A(x)
        BY <2>2
    <2>4. \A i \in 1 .. x - 1 : i \in 1 .. n /\ ~(x =< i)
        BY <2>3
    <2>5. \A i \in 1 .. x - 1 : ~A(i)
        BY <2>2, <2>4, Zenon
    <2> DEFINE r == CHOOSE j \in 1 .. n : A(j) /\ \A i \in 1 .. j - 1 : ~A(i)
    <2>6. r \in 1 .. n /\ A(r) /\ \A i \in 1 .. r - 1 : ~A(i)
        BY <2>3, <2>5, Zenon
    <2>7. \E j \in 1 .. n : A(j)
        BY <2>3, Zenon
    <2>8. RightChunk(v, n) = r
        BY <2>7 DEF RightChunk
    <2> HIDE DEF r, A
    <2>9. ASSUME NEW i \in 1 .. n, A(i) PROVE r =< i
        <3>1. i \notin 1 .. r - 1
            BY <2>6, <2>9, Zenon
        <3> QED
            BY <3>1, <2>6
    <2> QED
        BY <2>6, <2>8, <2>9 DEF A
<1> QED
    BY <1>1, <1>2

\* The CPU chosen is one of the array, and the chunk never falls when the value rises.
THEOREM ChunkMonotone ==
    ASSUME NEW n \in Nat \ {0}, NEW v \in Nat, NEW w \in Nat, v =< w
    PROVE  /\ RightChunk(v, n) \in 1 .. n
           /\ RightChunk(v, n) =< RightChunk(w, n)
<1> DEFINE c == H \div n
           x == RightChunk(v, n)
           y == RightChunk(w, n)
<1>1. x \in 1 .. n /\ y \in 1 .. n /\ (y # n => w < y * c)
           /\ \A i \in 1 .. n : v < i * c => x =< i
    BY ChunkIsFirst, Zenon
<1>2. c \in Int
    BY DEF H
<1> HIDE DEF c, x, y
<1>3. CASE y = n
    BY <1>1, <1>3 DEF x, y
<1>4. CASE y # n
    <2>1. y * c \in Int /\ w < y * c
        BY <1>1, <1>2, <1>4
    <2> DEFINE p == y * c
    <2>2. p \in Int /\ w < p
        BY <2>1
    <2> HIDE DEF p
    <2>3. v < p
        BY <2>2
    <2>4. v < y * c
        BY <2>3 DEF p
    <2>5. x =< y
        BY <1>1, <2>4, Zenon
    <2> QED
        BY <1>1, <2>5 DEF x, y
<1> QED
    BY <1>3, <1>4

\* Whatever the mask, the loads and the order in which sort() leaves equal ones,
\* get_right_cpu answers a CPU of the mask, and a higher value never gets a CPU with a
\* lower load.
THEOREM PlacedByValue ==
    ASSUME NEW mask, IsFiniteSet(mask), mask # {},
           NEW nr \in [mask -> Nat],
           NEW loads \in sort_cpu_loads_in_mask(mask, nr)
    PROVE  /\ \A v \in 0 .. H : get_right_cpu(loads, v, Cardinality(mask)) \in mask
           /\ ByValue(loads, nr, Cardinality(mask), 0 .. H)
<1> DEFINE n == Cardinality(mask)
<1>1. n \in Nat \ {0}
    BY FS_CardinalityType, FS_EmptySet
<1>2. loads \in [1 .. n -> mask]
    BY DEF sort_cpu_loads_in_mask
<1>3. \A i, j \in 1 .. n : i < j => nr[loads[i]] =< nr[loads[j]]
    BY DEF sort_cpu_loads_in_mask
<1> HIDE DEF n
<1>4. \A v \in 0 .. H : v \in Nat
    BY DEF H
<1>5. ASSUME NEW v \in 0 .. H, NEW w \in 0 .. H, v =< w
      PROVE  /\ get_right_cpu(loads, v, n) \in mask
             /\ nr[get_right_cpu(loads, v, n)] =< nr[get_right_cpu(loads, w, n)]
    <2>1. PICK x : x = RightChunk(v, n)
        OBVIOUS
    <2>2. PICK y : y = RightChunk(w, n)
        OBVIOUS
    <2>3. x \in 1 .. n /\ x =< y
        BY <1>1, <1>4, <1>5, <2>1, <2>2, ChunkMonotone, Zenon
    <2>4. w =< w
        BY <1>4
    <2>5. y \in 1 .. n
        BY <1>1, <1>4, <2>2, <2>4, ChunkMonotone, Zenon
    <2>6. loads[x] \in mask /\ nr[loads[x]] =< nr[loads[y]]
        BY <1>2, <1>3, <2>3, <2>5
    <2> QED
        BY <2>1, <2>2, <2>6, Zenon DEF get_right_cpu
<1>6. \A v \in 0 .. H : v =< v
    BY <1>4
<1> QED
    BY <1>5, <1>6, Zenon DEF ByValue, n
=============================================================================
