------------------------------ MODULE CoreSched ------------------------------
(***************************************************************************)
(* Core scheduling: the SMT siblings of a core share one lock and one      *)
(* selection, so that they never run tasks of different cookies at the     *)
(* same time.  pick_next_task selects for every sibling and asks the       *)
(* others to reschedule; they take their pick by the fast path as long as  *)
(* nothing was queued or taken off the queues since.  The feature is       *)
(* switched on with the first user of cookies and off with the last; the   *)
(* sibling whose rq holds the shared state may go offline.                 *)
(*                                                                         *)
(* The sequence counts are kept as the answers the code asks of them:      *)
(* valid is core_pick_seq == core_task_seq, fresh is core_pick_seq !=      *)
(* core_sched_seq.  Which of several tasks of one class has the higher     *)
(* priority is left open.                                                  *)
(***************************************************************************)
EXTENDS Integers, FiniteSets

CONSTANTS
    Cpus,     \* the siblings of a core
    Tasks,
    Class,    \* the class of each task: "hvf" or "fair"
    Users,    \* the users of core scheduling; each has one cookie, its name
    Ons,      \* bound on ons
    Zero,     \* no cookie
    Idle,     \* the idle task of any CPU
    None

ASSUME CoreAssumption ==
    /\ Class \in [Tasks -> {"hvf", "fair"}]
    /\ {Idle, None} \cap Tasks = {} /\ Zero \notin Users /\ None \notin Cpus

VARIABLES
    curr,      \* rq->curr
    queue,     \* the tasks that are on each rq, the running one included
    tree,      \* rq->core_tree
    cookie,    \* p->core_cookie
    resched,   \* TIF_NEED_RESCHED of each CPU
    rq,        \* core scheduling state of each rq; core names the leader's
    power,     \* "on", "down" (deactivated) or "off"
    key,       \* __sched_core_enabled
    count,     \* sched_core_count
    user,      \* where each user is in sched_core_get and sched_core_put
    mutex,     \* the holder of sched_core_mutex
    work,      \* __sched_core_put is queued
    ons        \* how many times core scheduling was switched on

sched == <<curr, queue, tree, cookie, resched, power>>
gate == <<key, count, user, mutex, work, ons>>
vars == <<sched, rq, gate>>

Init ==
    /\ curr = [c \in Cpus |-> Idle]
    /\ queue = [c \in Cpus |-> {}] /\ tree = [c \in Cpus |-> {}]
    /\ cookie = [t \in Tasks |-> Zero]
    /\ resched = [c \in Cpus |-> FALSE]
    /\ \E first \in Cpus :
           rq = [c \in Cpus |-> [core |-> first, enabled |-> FALSE, pick |-> None,
                                 fresh |-> FALSE, valid |-> FALSE, cookie |-> Zero, fi |-> 0]]
    /\ power = [c \in Cpus |-> "on"]
    /\ key = FALSE /\ count = 0 /\ work = FALSE /\ mutex = None /\ ons = 0
    /\ user = [u \in Users |-> "out"]

\* cpu_smt_mask: the siblings that are online.
Smt == {c \in Cpus : power[c] # "off"}
CookieOf(t) == IF t = Idle THEN Zero ELSE cookie[t]
sched_core_enabled(c) == key /\ rq[c].enabled


\* core_task_seq is raised: what was picked is not valid any more.
TaskSeq(c, r) == [r EXCEPT ![r[c].core].valid = FALSE]

\* __task_prio: HVF tasks are squashed with the fair ones.
TaskPrio(t) == IF t = Idle THEN 0 ELSE 1

\* The class order of for_each_active_class.
Rank(t) == CASE t = Idle -> 0 [] t # Idle /\ Class[t] = "fair" -> 1 [] OTHER -> 2

-----------------------------------------------------------------------------
\* Queues

\* sched_core_enqueue.
TreeAdd(c, t) == IF sched_core_enabled(c) /\ cookie[t] # Zero
                 THEN [tree EXCEPT ![c] = @ \cup {t}] ELSE tree

\* sched_core_dequeue.
TreeDel(c, t) == IF sched_core_enabled(c) THEN [tree EXCEPT ![c] = @ \ {t}] ELSE tree
Noted(c) == IF sched_core_enabled(c) THEN TaskSeq(c, rq) ELSE rq

\* A wakeup; whether it preempts is up to the class.
Enqueue(c, t) ==
    /\ power[c] = "on" /\ \A d \in Cpus : t \notin queue[d]
    /\ queue' = [queue EXCEPT ![c] = @ \cup {t}]
    /\ tree' = TreeAdd(c, t)
    /\ rq' = Noted(c)
    /\ \E preempt \in {curr[c] = Idle, TRUE} : resched' = [resched EXCEPT ![c] = @ \/ preempt]
    /\ UNCHANGED <<curr, cookie, power, gate>>

\* A task that does not run is taken off its queue: its affinity changed, its CPU
\* goes down, it is moved.  The last one of a forced idle CPU makes it reschedule.
Dequeue(c, t) ==
    /\ t \in queue[c] /\ curr[c] # t
    /\ queue' = [queue EXCEPT ![c] = @ \ {t}]
    /\ tree' = TreeDel(c, t)
    /\ rq' = Noted(c)
    /\ resched' = [resched EXCEPT ![c] = @ \/ (/\ sched_core_enabled(c) /\ queue[c] = {t}
                                               /\ rq[rq[c].core].fi > 0 /\ curr[c] = Idle)]
    /\ UNCHANGED <<curr, cookie, power, gate>>

\* The tick of the running task.
Tick(c) ==
    /\ curr[c] # Idle /\ ~resched[c]
    /\ resched' = [resched EXCEPT ![c] = TRUE]
    /\ UNCHANGED <<curr, queue, tree, cookie, rq, power, gate>>

-----------------------------------------------------------------------------
\* pick_next_task

\* pick_task: any task of the highest class.
PickTask(q) == IF q = {} THEN {Idle} ELSE {t \in q : \A u \in q : Rank(u) <= Rank(t)}

\* sched_core_find: any task of the tree with the cookie.
sched_core_find(c, k, tr) == {t \in tr[c] : cookie[t] = k}

cookie_equals(t, k) == t = Idle \/ cookie[t] = k

\* A task for a sibling that matches cookie k, given its own pick p.
Match(c, p, k, tr) ==
    IF cookie_equals(p, k) THEN {p}
    ELSE IF k # Zero /\ sched_core_find(c, k, tr) # {} THEN sched_core_find(c, k, tr)
    ELSE {Idle}

\* The pick of the last selection is still good, and this CPU has not taken it.
FastPath(c, r) == r[r[c].core].valid /\ r[c].fresh /\ r[c].pick # None

\* No cookie was running on the core, and the pick of this CPU has none.
Unconstrained(c, r) == r[r[c].core].cookie = Zero /\ r[r[c].core].fi = 0


\* The siblings whose task changes are asked to reschedule.
ReschedSiblings(c, sel) ==
    [d \in Cpus |-> IF d = c THEN FALSE
                    ELSE resched[d] \/ (d \in Smt /\ sel[d] # curr[d])]

\* The whole selection: own picks, the highest of them, and a match for each sibling.
Select(c, q, tr, r) ==
    \E own \in [Smt -> Tasks \cup {Idle}] :
        /\ \A d \in Smt : own[d] \in PickTask(q[d])
        /\ \E max \in {d \in Smt : \A e \in Smt : TaskPrio(own[e]) <= TaskPrio(own[d])} :
           \E sel \in [Smt -> Tasks \cup {Idle}] :
             LET k == CookieOf(own[max])
                 forced == {d \in Smt : sel[d] = Idle /\ q[d] # {}}
             IN  /\ \A d \in Smt : sel[d] \in Match(d, own[d], k, tr)
                 /\ curr' = [curr EXCEPT ![c] = sel[c]]
                 /\ resched' = ReschedSiblings(c, sel)
                 /\ rq' = [d \in Cpus |->
                       [r[d] EXCEPT
                          !.pick = IF d \notin Smt THEN @
                                   ELSE IF d = c \/ sel[d] = curr[d] THEN None ELSE sel[d],
                          !.fresh = d # c,
                          !.valid = IF d = r[c].core THEN TRUE ELSE @,
                          !.cookie = IF d = r[c].core THEN k ELSE @,
                          !.fi = IF d = r[c].core THEN Cardinality(forced) ELSE @]]

\* pick_next_task on CPU c, with the queues q, the trees tr and the state r that
\* __schedule left.
pick_next_task(c, q, tr, r) ==
    \/ /\ ~sched_core_enabled(c)
       /\ \E p \in PickTask(q[c]) : curr' = [curr EXCEPT ![c] = p]
       /\ rq' = r
       /\ resched' = [resched EXCEPT ![c] = FALSE]
    \/ /\ sched_core_enabled(c) /\ power[c] = "off"
       /\ \E p \in PickTask(q[c]) : curr' = [curr EXCEPT ![c] = p]
       /\ rq' = [r EXCEPT ![c].pick = None]
       /\ resched' = [resched EXCEPT ![c] = FALSE]
    \/ /\ sched_core_enabled(c) /\ power[c] # "off" /\ FastPath(c, r)
       /\ curr' = [curr EXCEPT ![c] = r[c].pick]
       /\ rq' = [r EXCEPT ![c].pick = None, ![c].fresh = FALSE]
       /\ resched' = [resched EXCEPT ![c] = FALSE]
    \/ /\ sched_core_enabled(c) /\ power[c] # "off" /\ ~FastPath(c, r) /\ Unconstrained(c, r)
       /\ \E p \in PickTask(q[c]) : CookieOf(p) = Zero /\ curr' = [curr EXCEPT ![c] = p]
       /\ rq' = [TaskSeq(c, r) EXCEPT ![c].pick = None]
       /\ resched' = [resched EXCEPT ![c] = FALSE]
    \/ /\ sched_core_enabled(c) /\ power[c] # "off" /\ ~FastPath(c, r)
       /\ Unconstrained(c, r) => \E p \in PickTask(q[c]) : CookieOf(p) # Zero
       /\ Select(c, q, tr, r)

\* __schedule: the running task may block.
Schedule(c) ==
    /\ resched[c] /\ queue' = queue /\ tree' = tree
    /\ pick_next_task(c, queue, tree, rq)
    /\ UNCHANGED <<cookie, power, gate>>

Block(c) ==
    /\ curr[c] # Idle
    /\ queue' = [queue EXCEPT ![c] = @ \ {curr[c]}]
    /\ tree' = TreeDel(c, curr[c])
    /\ pick_next_task(c, queue', tree', Noted(c))
    /\ UNCHANGED <<cookie, power, gate>>

-----------------------------------------------------------------------------
\* Stealing a task with the right cookie for a CPU that is forced idle

try_steal_cookie(c, d) ==
    LET k == rq[rq[c].core].cookie
    IN  /\ c # d /\ power[c] = "on" /\ sched_core_enabled(c) /\ k # Zero /\ curr[c] = Idle
        /\ \E t \in sched_core_find(d, k, tree) :
              /\ t # rq[d].pick /\ t # curr[d]
              /\ queue' = [queue EXCEPT ![d] = @ \ {t}, ![c] = @ \cup {t}]
              /\ tree' = [tree EXCEPT ![d] = @ \ {t}, ![c] = @ \cup {t}]
        /\ rq' = TaskSeq(c, TaskSeq(d, rq))
        /\ resched' = [resched EXCEPT ![c] = TRUE]
        /\ UNCHANGED <<curr, cookie, power, gate>>

-----------------------------------------------------------------------------
\* The switch: sched_core_get and sched_core_put

\* A user of cookies comes: the count is raised if it is not zero ...
GetFast(u) ==
    /\ user[u] = "out" /\ count # 0
    /\ count' = count + 1
    /\ user' = [user EXCEPT ![u] = "in"]
    /\ UNCHANGED <<sched, ons, rq, key, mutex, work>>

GetSlow(u) ==
    /\ user[u] = "out" /\ count = 0
    /\ user' = [user EXCEPT ![u] = "get"]
    /\ UNCHANGED <<sched, ons, rq, key, count, mutex, work>>

\* ... else under the mutex, which may find it raised by now.
GetLock(u) ==
    /\ user[u] = "get" /\ mutex = None
    /\ mutex' = u
    /\ user' = [user EXCEPT ![u] = IF count = 0 THEN "enable" ELSE "inc"]
    /\ UNCHANGED <<sched, ons, rq, key, count, work>>

\* __sched_core_enable: the key, then the core as one, under the locks of all its rqs.
EnableKey(u) ==
    /\ user[u] = "enable" /\ ~key /\ ons < Ons
    /\ key' = TRUE /\ ons' = ons + 1
    /\ UNCHANGED <<sched, rq, count, user, mutex, work>>

EnableFlip(u) ==
    /\ user[u] = "enable" /\ key
    /\ rq' = [c \in Cpus |-> [rq[c] EXCEPT !.enabled = TRUE]]
    /\ user' = [user EXCEPT ![u] = "inc"]
    /\ UNCHANGED <<sched, ons, key, count, mutex, work>>

GetInc(u) ==
    /\ user[u] = "inc"
    /\ count' = count + 1 /\ mutex' = None
    /\ user' = [user EXCEPT ![u] = "in"]
    /\ UNCHANGED <<sched, ons, rq, key, work>>

\* The last task with the cookie is gone: the count is lowered unless it is the
\* last one; then a worker does it.
sched_core_put(u) ==
    /\ user[u] = "in" /\ \A t \in Tasks : cookie[t] # u
    /\ user' = [user EXCEPT ![u] = "out"]
    /\ IF count # 1 THEN count' = count - 1 /\ UNCHANGED work
                    ELSE work' = TRUE /\ UNCHANGED count
    /\ UNCHANGED <<sched, ons, rq, key, mutex>>

\* Mutant: the worker switches off without looking at the count.
PutBlind ==
    /\ work /\ mutex = None
    /\ work' = FALSE /\ count' = count - 1
    /\ key' = FALSE /\ rq' = [c \in Cpus |-> [rq[c] EXCEPT !.enabled = FALSE]]
    /\ UNCHANGED <<sched, user, mutex, ons>>

\* atomic_dec_and_mutex_lock, __sched_core_disable.
__sched_core_put ==
    /\ work
    /\ IF count = 1
       THEN /\ mutex = None
            /\ key' = FALSE /\ rq' = [c \in Cpus |-> [rq[c] EXCEPT !.enabled = FALSE]]
       ELSE UNCHANGED <<key, rq>>
    /\ work' = FALSE /\ count' = count - 1
    /\ UNCHANGED <<sched, user, mutex, ons>>

\* sched_core_update_cookie: a running task is asked to reschedule.
UpdateCookie(t, k) ==
    /\ cookie[t] # k /\ k # Zero => user[k] = "in"
    /\ cookie' = [cookie EXCEPT ![t] = k]
    /\ tree' = [c \in Cpus |-> IF t \in queue[c] /\ k # Zero THEN tree[c] \cup {t}
                                                             ELSE tree[c] \ {t}]
    /\ rq' = IF \E c \in Cpus : t \in tree[c] \/ (t \in queue[c] /\ k # Zero)
             THEN TaskSeq(CHOOSE c \in Cpus : t \in queue[c], rq) ELSE rq
    /\ resched' = [c \in Cpus |-> resched[c] \/ curr[c] = t]
    /\ UNCHANGED <<curr, queue, power, gate>>

-----------------------------------------------------------------------------
\* Hotplug

\* The shared state is copied to the new leader.
Handover(new, old, r) ==
    [r[new] EXCEPT !.valid = r[old].valid, !.cookie = r[old].cookie, !.fi = r[old].fi]

\* sched_core_cpu_deactivate: the leader passes its role on; tasks leave the CPU.
sched_core_cpu_deactivate(c) ==
    /\ power[c] = "on" /\ \E d \in Cpus \ {c} : power[d] = "on"
    /\ power' = [power EXCEPT ![c] = "down"]
    /\ IF rq[c].core # c THEN rq' = rq
       ELSE LET new == CHOOSE d \in Smt : d # c
            IN  rq' = [d \in Cpus |->
                         IF d \notin Smt THEN rq[d]
                         ELSE [IF d = new THEN Handover(new, c, rq) ELSE rq[d]
                               EXCEPT !.core = new]]
    /\ UNCHANGED <<curr, queue, tree, cookie, resched, gate>>

\* sched_core_cpu_dying, when all tasks have left.
sched_core_cpu_dying(c) ==
    /\ power[c] = "down" /\ queue[c] = {} /\ curr[c] = Idle
    /\ power' = [power EXCEPT ![c] = "off"]
    /\ rq' = [rq EXCEPT ![c].core = c, ![c].pick = None]
    /\ resched' = [resched EXCEPT ![c] = FALSE]
    /\ UNCHANGED <<curr, queue, tree, cookie, gate>>

\* sched_core_cpu_starting: the CPU joins the leader it finds.
sched_core_cpu_starting(c) ==
    /\ power[c] = "off"
    /\ power' = [power EXCEPT ![c] = "on"]
    /\ rq' = [rq EXCEPT ![c].core = IF Smt = {} THEN c ELSE CHOOSE d \in Smt : rq[d].core = d]
    /\ UNCHANGED <<curr, queue, tree, cookie, resched, gate>>

Next ==
    \/ \E c \in Cpus :
          \/ \E t \in Tasks : Enqueue(c, t) \/ Dequeue(c, t)
          \/ Tick(c)
          \/ Schedule(c)
          \/ Block(c)
          \/ \E d \in Cpus : try_steal_cookie(c, d)
          \/ sched_core_cpu_deactivate(c)
          \/ sched_core_cpu_dying(c)
          \/ sched_core_cpu_starting(c)
    \/ \E u \in Users :
          \/ GetFast(u)
          \/ GetSlow(u)
          \/ GetLock(u)
          \/ EnableKey(u)
          \/ EnableFlip(u)
          \/ GetInc(u)
          \/ sched_core_put(u)
    \/ __sched_core_put
    \/ \E t \in Tasks, k \in Users \cup {Zero} : UpdateCookie(t, k)

Spec == Init /\ [][Next]_vars

-----------------------------------------------------------------------------
\* Properties

TypeOK ==
    /\ curr \in [Cpus -> Tasks \cup {Idle}]
    /\ \A c \in Cpus : /\ tree[c] \subseteq queue[c] /\ (curr[c] # Idle => curr[c] \in queue[c])
                       /\ rq[c].core \in Cpus /\ rq[c].pick \in Tasks \cup {Idle, None}
    /\ \A c, d \in Cpus : c # d => queue[c] \cap queue[d] = {}
    /\ count = Cardinality({u \in Users : user[u] = "in"}) + (IF work THEN 1 ELSE 0)

\* All siblings that are online agree on the rq whose lock they take, and it is the
\* rq of one that is online.
OneLeader == \A c \in Smt : rq[c].core \in Smt /\ \A d \in Smt : rq[c].core = rq[d].core



\* A queued task is in the tree of its rq exactly if it has a cookie, and core
\* scheduling is on for every CPU as long as some task has one.
TreeExact ==
    /\ TypeOK
    /\ \A c \in Cpus : tree[c] = {t \in queue[c] : cookie[t] # Zero}
    /\ (\E t \in Tasks : cookie[t] # Zero) => \A c \in Cpus : sched_core_enabled(c)
=============================================================================
