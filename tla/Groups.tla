------------------------------- MODULE Groups -------------------------------
(***************************************************************************)
(* The life of task groups and the bandwidth limits set on them (core.c):  *)
(* groups are created, put into the tree, taken out of it and freed after  *)
(* RCU grace periods while walk_tg_tree_from goes through the tree, for a  *)
(* writer of cpu.max, cpu.cfs_quota_us, cpu.cfs_period_us or the burst     *)
(* (__cfs_schedulable) and for the period timers of fair.c.                *)
(*                                                                         *)
(* The children of a group are an RCU list: a removed group keeps its      *)
(* pointer to the next sibling.  Every step of a walk, every CPU of        *)
(* tg_set_cfs_bandwidth and every stage of a group's life is a step.       *)
(***************************************************************************)
EXTENDS Integers, FiniteSets

CONSTANTS Groups, Root, Parent,   \* the tree the groups may form
          Created,                \* the groups that exist at the start
          Writers, Timers,        \* threads writing files, period timers
          Cpus,
          Quotas, Periods, Bursts,
          Scale,                  \* to_ratio's unit
          MinPeriod, MaxPeriod,   \* min_cfs_quota_period, max_cfs_quota_period
          MaxRuntime,             \* max_cfs_runtime
          Hierarchies,            \* may the controller be on the default one
                                  \* (cgroup2)?  TRUE, FALSE or both
          MaxOps,                 \* creations, removals, writes, timer walks
          None

RUNTIME_INF == 1000    \* above every quota and every ratio

ASSUME GroupAssumption ==
    /\ Root \in Created /\ Created \subseteq Groups
    /\ Parent \in [Groups \ {Root} -> Groups]
    /\ \A g \in Created \ {Root} : Parent[g] \in Created
    /\ \A g, h \in Created \ {Root} : Parent[g] = Parent[h] => g = h
    /\ Quotas \subseteq 0 .. RUNTIME_INF /\ Periods \subseteq Nat
    /\ Bursts \subseteq Nat
    /\ Hierarchies \subseteq BOOLEAN
    /\ MinPeriod \in Nat \ {0} /\ MinPeriod =< MaxPeriod
    /\ MaxRuntime * Scale < RUNTIME_INF

Walkers == Writers \cup Timers

VARIABLES st,        \* where a group is in its life
          first, next,  \* the children lists
          gp,        \* the walks a group's grace period waits for
          bw,        \* cfs_bandwidth: period, quota, burst
          hier,      \* cfs_bandwidth.hierarchical_quota
          enabled,   \* cfs_rq->runtime_enabled of each group and CPU
          usage,     \* the count behind cfs_bandwidth_used
          mutex,     \* holder of cfs_constraints_mutex
          walk,      \* position of each walk
          wr,        \* the writers' local variables
          visited,   \* groups a bandwidth walk has seen since they came online
          dfl,       \* cgroup_subsys_on_dfl(cpu_cgrp_subsys)
          torn,      \* the last walk of a writer was refused on its way
          left

tree == <<st, first, next, gp>>
limits == <<bw, hier, enabled, usage, visited, dfl, torn>>
vars == <<tree, limits, mutex, walk, wr, left>>

Free == [period |-> MinPeriod, quota |-> RUNTIME_INF, burst |-> 0]

NoWalk == [pc |-> "none", at |-> None, from |-> None]

Walking(w) == walk[w].pc # "none"

-----------------------------------------------------------------------------
(* The life of a group.                                                    *)

Live(g) == st[g] \in {"online", "dying"}

(* Allocation; fair.c starts the limits from the parent's.                 *)
sched_create_group(g) ==
    /\ st' = [st EXCEPT ![g] = "alloc"]
    /\ bw' = [bw EXCEPT ![g] = Free]
    /\ hier' = [hier EXCEPT ![g] = hier[Parent[g]]]
    /\ enabled' = [enabled EXCEPT ![g] = [i \in Cpus |-> FALSE]]
    /\ visited' = visited \ {g}
    /\ UNCHANGED <<first, next, gp, usage, dfl, torn, mutex, walk, wr>>

cpu_cgroup_css_alloc(g) ==
    /\ st[g] = "none" /\ g # Root
    /\ st[Parent[g]] = "online"
    /\ left > 0
    /\ sched_create_group(g)
    /\ left' = left - 1

(* list_add_rcu of the new group in front of its siblings.                 *)
sched_online_group(g) ==
    /\ st' = [st EXCEPT ![g] = "online"]
    /\ next' = [next EXCEPT ![g] = first[Parent[g]]]
    /\ first' = [first EXCEPT ![Parent[g]] = g, ![g] = None]
    /\ UNCHANGED <<gp, limits, mutex, walk, wr, left>>

(* "Expose task group only after completing cgroup initialization".        *)
cpu_cgroup_css_online(g) == st[g] = "alloc" /\ sched_online_group(g)

(* The group is unlinked, and a grace period starts.                       *)
sched_release_group(g) ==
    /\ st' = [st EXCEPT ![g] = "dying"]
    /\ first' = [p \in Groups |-> IF first[p] = g THEN next[g] ELSE first[p]]
    /\ next' = [p \in Groups |-> IF next[p] = g /\ st[p] = "online"
                                 THEN next[g] ELSE next[p]]
    /\ gp' = [gp EXCEPT ![g] = {w \in Walkers : Walking(w)}]
    /\ UNCHANGED <<limits, mutex, walk, wr>>

(* The cgroup code calls it when no child and no open file is left.        *)
cpu_cgroup_css_released(g) ==
    /\ st[g] = "online" /\ g # Root
    /\ \A h \in Groups \ {Root} :
          Parent[h] = g => st[h] \in {"none", "unregistered"}
    /\ \A w \in Writers : wr[w].g # g
    /\ left > 0
    /\ sched_release_group(g)
    /\ left' = left - 1

(* The group's own timer is cancelled, the run queues go and a second      *)
(* grace period starts.                                                    *)
sched_unregister_group(g) ==
    /\ \A w \in Timers : walk[w].from # g
    /\ st' = [st EXCEPT ![g] = "unregistered"]
    /\ gp' = [gp EXCEPT ![g] = {w \in Walkers : Walking(w)}]
    /\ UNCHANGED <<first, next, limits, mutex, walk, wr, left>>

(* Mutant: the run queues go without waiting for the walks.                *)
css_free_early(g) == st[g] = "dying" /\ sched_unregister_group(g)

(* "Relies on the RCU grace period between css_released() and this."       *)
cpu_cgroup_css_free(g) ==
    st[g] = "dying" /\ gp[g] = {} /\ sched_unregister_group(g)

sched_free_group(g) ==
    /\ st[g] = "unregistered" /\ gp[g] = {}
    /\ st' = [st EXCEPT ![g] = "none"]
    /\ UNCHANGED <<first, next, gp, limits, mutex, walk, wr, left>>

-----------------------------------------------------------------------------
(* walk_tg_tree_from.                                                      *)

(* Where the walk goes after the visit of group g on the way down.         *)
Below(w, g) == IF first[g] # None
               THEN [walk[w] EXCEPT !.at = first[g]]
               ELSE [walk[w] EXCEPT !.pc = "up"]

(* And after the visit on the way up.                                      *)
Beyond(w, g) ==
    CASE g = walk[w].from -> NoWalk
      [] g # walk[w].from /\ next[g] # None ->
            [walk[w] EXCEPT !.pc = "down", !.at = next[g]]
      [] OTHER -> [walk[w] EXCEPT !.at = Parent[g]]

(* rcu_read_unlock of a walk that is over.                                 *)
Quiesced(w, walkend) ==
    gp' = IF walkend = NoWalk THEN [g \in Groups |-> gp[g] \ {w}] ELSE gp

WalkUp(w) ==
    /\ walk[w].pc = "up"
    /\ walk' = [walk EXCEPT ![w] = Beyond(w, walk[w].at)]
    /\ Quiesced(w, Beyond(w, walk[w].at))
    /\ wr' = IF w \in Writers /\ Beyond(w, walk[w].at) = NoWalk
             THEN [wr EXCEPT ![w].pc = "count"] ELSE wr
    /\ torn' = (torn /\ ~(w \in Writers /\ Beyond(w, walk[w].at) = NoWalk))
    /\ UNCHANGED <<st, first, next, bw, hier, enabled, usage, visited, dfl, mutex, left>>

(* distribute_cfs_runtime and the like walk from their own group.          *)
TimerStart(w, g) ==
    /\ ~Walking(w) /\ Live(g)
    /\ left > 0
    /\ walk' = [walk EXCEPT ![w] = [pc |-> "down", at |-> g, from |-> g]]
    /\ left' = left - 1
    /\ UNCHANGED <<tree, limits, mutex, wr>>

TimerDown(w) ==
    /\ walk[w].pc = "down"
    /\ walk' = [walk EXCEPT ![w] = Below(w, walk[w].at)]
    /\ UNCHANGED <<tree, limits, mutex, wr, left>>

-----------------------------------------------------------------------------
(* Bandwidth.                                                              *)

NoWrite == [pc |-> "idle", g |-> None, bw |-> Free, was |-> FALSE, cpus |-> {}]

(* The argument checks of tg_set_cfs_bandwidth.                            *)
Accepted(g, b) ==
    /\ g # Root
    /\ b.quota >= MinPeriod /\ b.period \in MinPeriod .. MaxPeriod
    /\ b.quota # RUNTIME_INF =>
          b.burst <= b.quota /\ b.burst + b.quota <= MaxRuntime

(* Mutant: a burst above the quota is not refused.                         *)
WriteUnchecked(w, g, b) ==
    /\ wr[w].pc = "idle"
    /\ st[g] = "online" /\ Accepted(g, [b EXCEPT !.burst = 0])
    /\ left > 0
    /\ wr' = [wr EXCEPT ![w] = [NoWrite EXCEPT !.pc = "lock", !.g = g, !.bw = b]]
    /\ left' = left - 1
    /\ UNCHANGED <<tree, limits, mutex, walk>>

(* A write to one of the files.                                            *)
Write(w, g, b) ==
    /\ wr[w].pc = "idle"
    /\ st[g] = "online"
    /\ left > 0
    /\ wr' = [wr EXCEPT ![w] =
          IF Accepted(g, b) THEN [NoWrite EXCEPT !.pc = "lock", !.g = g, !.bw = b]
          ELSE NoWrite]
    /\ left' = left - 1
    /\ UNCHANGED <<tree, limits, mutex, walk>>

(* What a field reads as with no lock held: a writer that is storing its   *)
(* values may have stored this one already.                                *)
Seen(g, f) ==
    {bw[g][f]} \cup {wr[v].bw[f] : v \in {v \in Writers : /\ wr[v].pc = "store"
                                                       /\ wr[v].g = g}}

(* The files of cgroup1.  A writer reads the two values it does not set    *)
(* before it takes the mutex.                                              *)
tg_set_cfs_quota(w, g, q) ==
    /\ ~dfl
    /\ \E p \in Seen(g, "period"), b \in Seen(g, "burst") :
          Write(w, g, [period |-> p, quota |-> q, burst |-> b])

tg_set_cfs_period(w, g, p) ==
    /\ ~dfl
    /\ \E q \in Seen(g, "quota"), b \in Seen(g, "burst") :
          Write(w, g, [period |-> p, quota |-> q, burst |-> b])

(* cpu.max of cgroup2: the quota, and a period or the one there is.        *)
cpu_max_write(w, g, q) ==
    /\ dfl /\ g # Root
    /\ \E p \in Periods \cup Seen(g, "period"), b \in Seen(g, "burst") :
          Write(w, g, [period |-> p, quota |-> q, burst |-> b])

(* The burst file of both.                                                 *)
tg_set_cfs_burst(w, g, b) ==
    /\ dfl => g # Root
    /\ \E p \in Seen(g, "period"), q \in Seen(g, "quota") :
          Write(w, g, [period |-> p, quota |-> q, burst |-> b])

(* __cfs_schedulable starts at the root, with the mutex held.              *)
__cfs_schedulable(w) ==
    /\ wr[w].pc = "lock" /\ mutex = None
    /\ mutex' = w
    /\ walk' = [walk EXCEPT ![w] = [pc |-> "down", at |-> Root, from |-> Root]]
    /\ wr' = [wr EXCEPT ![w].pc = "walk"]
    /\ UNCHANGED <<tree, limits, left>>

to_ratio(period, runtime) ==
    CASE runtime = RUNTIME_INF -> Scale
      [] runtime # RUNTIME_INF /\ period = 0 -> 0
      [] OTHER -> (runtime * Scale) \div period

tg_get_cfs_quota(g) ==
    IF bw[g].quota = RUNTIME_INF THEN -1 ELSE bw[g].quota

(* The limit of g as a ratio, with the values being written for their      *)
(* group.                                                                  *)
normalize_cfs_quota(g, w) ==
    LET quota  == IF g = wr[w].g THEN wr[w].bw.quota ELSE tg_get_cfs_quota(g)
        period == IF g = wr[w].g THEN wr[w].bw.period ELSE bw[g].period
    IN IF quota \in {RUNTIME_INF, -1} THEN RUNTIME_INF
       ELSE to_ratio(period, quota)

(* Mutant: the limit of an ancestor is inherited only when there is none.  *)
NewHierOwn(g, w) ==
    LET own == normalize_cfs_quota(g, w)
    IN CASE g = Root -> RUNTIME_INF
         [] g # Root /\ own = RUNTIME_INF -> hier[Parent[g]]
         [] OTHER -> own

(* The ratio the visitor stores: the group's own or an ancestor's.         *)
NewHier(g, w) ==
    LET own == normalize_cfs_quota(g, w)
    IN CASE g = Root -> RUNTIME_INF
         [] g # Root /\ own = RUNTIME_INF -> hier[Parent[g]]
         [] OTHER -> IF dfl /\ hier[Parent[g]] < own
                     THEN hier[Parent[g]] ELSE own

(* cgroup1 refuses a child with more than its parent.                      *)
Exceeds(g, w) == /\ ~dfl /\ g # Root
                 /\ normalize_cfs_quota(g, w) # RUNTIME_INF
                 /\ normalize_cfs_quota(g, w) > hier[Parent[g]]

tg_cfs_schedulable_down(w) ==
    LET tg == walk[w].at
    IN /\ walk[w].pc = "down"
       /\ IF Exceeds(tg, w)
          THEN /\ walk' = [walk EXCEPT ![w] = NoWalk]
               /\ Quiesced(w, NoWalk)
               /\ wr' = [wr EXCEPT ![w] = NoWrite]
               /\ mutex' = None
               /\ torn' = TRUE
               /\ UNCHANGED <<hier, visited>>
          ELSE /\ hier' = [hier EXCEPT ![tg] = NewHier(tg, w)]
               /\ visited' = visited \cup {tg}
               /\ walk' = [walk EXCEPT ![w] = Below(w, tg)]
               /\ UNCHANGED <<gp, wr, mutex, torn>>
       /\ UNCHANGED <<st, first, next, bw, enabled, usage, dfl, left>>

Enables(w) == wr[w].bw.quota # RUNTIME_INF

(* Mutant: the change is not counted before it is made.                    *)
UsageIncNot(w) ==
    /\ wr[w].pc = "count"
    /\ wr' = [wr EXCEPT ![w].pc = "store",
                        ![w].was = bw[wr[w].g].quota # RUNTIME_INF]
    /\ UNCHANGED <<tree, limits, mutex, walk, left>>

(* cfs_bandwidth_usage_inc comes before the change.                        *)
UsageInc(w) ==
    LET was == bw[wr[w].g].quota # RUNTIME_INF
    IN /\ wr[w].pc = "count"
       /\ usage' = IF Enables(w) /\ ~was THEN usage + 1 ELSE usage
       /\ wr' = [wr EXCEPT ![w].pc = "store", ![w].was = was]
       /\ UNCHANGED <<tree, bw, hier, enabled, visited, dfl, torn, mutex, walk, left>>

tg_set_cfs_bandwidth(w) ==
    /\ wr[w].pc = "store"
    /\ bw' = [bw EXCEPT ![wr[w].g] = wr[w].bw]
    /\ wr' = [wr EXCEPT ![w].pc = "cpus", ![w].cpus = Cpus]
    /\ UNCHANGED <<tree, hier, enabled, usage, visited, dfl, torn, mutex, walk, left>>

(* One CPU of the loop, under its runqueue lock.                           *)
SetCpu(w, i) ==
    /\ wr[w].pc = "cpus" /\ i \in wr[w].cpus
    /\ enabled' = [enabled EXCEPT ![wr[w].g][i] = Enables(w)]
    /\ wr' = [wr EXCEPT ![w].cpus = @ \ {i}]
    /\ UNCHANGED <<tree, bw, hier, usage, visited, dfl, torn, mutex, walk, left>>

(* cfs_bandwidth_usage_dec comes after it.                                 *)
UsageDec(w) ==
    /\ wr[w].pc = "cpus" /\ wr[w].cpus = {}
    /\ usage' = IF wr[w].was /\ ~Enables(w) THEN usage - 1 ELSE usage
    /\ mutex' = None
    /\ wr' = [wr EXCEPT ![w] = NoWrite]
    /\ UNCHANGED <<tree, bw, hier, enabled, visited, dfl, torn, walk, left>>

-----------------------------------------------------------------------------
(* The child a group of the initial tree has, if any.                      *)
OnlyChild(p) ==
    IF \E g \in Created \ {Root} : Parent[g] = p
    THEN CHOOSE g \in Created \ {Root} : Parent[g] = p ELSE None

Init ==
    /\ st = [g \in Groups |-> IF g \in Created THEN "online" ELSE "none"]
    /\ first = [g \in Groups |-> OnlyChild(g)]
    /\ next = [g \in Groups |-> None]
    /\ gp = [g \in Groups |-> {}]
    /\ bw = [g \in Groups |-> Free]
    /\ hier = [g \in Groups |-> RUNTIME_INF]
    /\ enabled = [g \in Groups |-> [i \in Cpus |-> FALSE]]
    /\ usage = 0
    /\ mutex = None
    /\ walk = [w \in Walkers |-> NoWalk]
    /\ wr = [w \in Writers |-> NoWrite]
    /\ visited = Created
    /\ dfl \in Hierarchies
    /\ torn = FALSE
    /\ left = MaxOps

Next ==
    \/ \E g \in Groups :
          \/ cpu_cgroup_css_alloc(g) \/ cpu_cgroup_css_online(g)
          \/ cpu_cgroup_css_released(g) \/ cpu_cgroup_css_free(g)
          \/ sched_free_group(g)
    \/ \E w \in Timers : TimerDown(w) \/ \E g \in Groups : TimerStart(w, g)
    \/ \E w \in Walkers : WalkUp(w)
    \/ \E w \in Writers :
          \/ \E g \in Groups : \/ \E v \in Quotas : \/ tg_set_cfs_quota(w, g, v)
                                                  \/ cpu_max_write(w, g, v)
                               \/ \E v \in Periods : tg_set_cfs_period(w, g, v)
                               \/ \E v \in Bursts : tg_set_cfs_burst(w, g, v)
          \/ __cfs_schedulable(w) \/ tg_cfs_schedulable_down(w)
          \/ UsageInc(w) \/ tg_set_cfs_bandwidth(w) \/ UsageDec(w)
          \/ \E i \in Cpus : SetCpu(w, i)

Spec == Init /\ [][Next]_vars

-----------------------------------------------------------------------------
(* Types: the count never goes below zero.                                 *)
TypeOK ==
    /\ st \in [Groups -> {"none", "alloc", "online", "dying", "unregistered"}]
    /\ first \in [Groups -> Groups \cup {None}]
    /\ next \in [Groups -> Groups \cup {None}]
    /\ gp \in [Groups -> SUBSET Walkers]
    /\ \A g \in Groups : bw[g].quota \in Quotas /\ bw[g].burst \in Bursts
    /\ hier \in [Groups -> 0 .. RUNTIME_INF]
    /\ enabled \in [Groups -> [Cpus -> BOOLEAN]]
    /\ usage \in 0 .. MaxOps
    /\ mutex \in Writers \cup {None}
    /\ left \in 0 .. MaxOps

(* A walk stands only on groups whose run queues are still registered,     *)
(* however groups come and go around it (sched_release_group: "Unlink      *)
(* first, to avoid walk_tg_tree_from() from finding us").                  *)
WalksSafe == \A w \in Walkers : Walking(w) => Live(walk[w].at)

(* A CPU never enforces a limit while the code is switched off: the count  *)
(* behind cfs_bandwidth_used covers every group with a CPU enabled, at     *)
(* every step of tg_set_cfs_bandwidth ("off->on must occur before making   *)
(* related changes, and on->off must occur afterwards").                   *)
UsageCovers ==
    usage >= Cardinality({g \in Groups : /\ st[g] # "none"
                                         /\ \E i \in Cpus : enabled[g][i]})

(* Period, quota and burst stay a triple the checks accept, although each  *)
(* writer reads the two values it does not set before it takes the mutex.  *)
LimitsAccepted == TypeOK /\ \A g \in Groups \ {Root} : Accepted(g, bw[g])

(* Between two writes, the hierarchical quota of every group a walk has    *)
(* seen is its own limit or the one it inherits ("used by the scheduler to *)
(* determine if a given CFS task has a bandwidth constraint at some higher *)
(* level"), unless a refused write of cgroup1 has stopped the last walk.   *)
HierExact ==
    mutex = None /\ ~torn =>
        \A g \in visited \ {Root} :
            st[g] = "online" =>
                LET own == to_ratio(bw[g].period, bw[g].quota)
                    up  == hier[Parent[g]]
                IN hier[g] = IF bw[g].quota = RUNTIME_INF \/ (dfl /\ up < own)
                             THEN up ELSE own
=============================================================================
