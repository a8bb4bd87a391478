------------------------------- MODULE Uclamp -------------------------------
(***************************************************************************)
(* Utilization clamping: the clamps that tasks ask for (sched_setattr),    *)
(* that task groups ask for (cpu.uclamp.min and .max) and that the system  *)
(* allows (the sched_util_clamp_* sysctls), the effective clamps of groups *)
(* and of queued tasks, and the buckets of a run queue that count them.    *)
(*                                                                         *)
(* A step on a task is what happens under its run queue lock.  The writers *)
(* of group files and sysctls hold uclamp_mutex for many steps, and take a *)
(* run queue lock only for one task at a time.  Only one such writer works *)
(* at a time; tasks sleep, wake, fork, move and change class meanwhile.    *)
(***************************************************************************)
EXTENDS Integers, FiniteSets, Sequences, SequencesExt

CONSTANTS
    Tasks, Groups, Root,
    Parent,         \* the group tree: the parent of every group but Root
    Created,        \* the groups that exist from the start, with no clamps asked for
    Scale,          \* SCHED_CAPACITY_SCALE
    Buckets,        \* UCLAMP_BUCKETS
    Values,         \* what is written to group files and sysctls
    Attrs,          \* the arguments of sched_setattr
    Knobs,          \* the sysctls that are written: "min", "max", "rt"
    UtilMin,        \* sched_util_clamp_min at the start
    MaxRequests,    \* how many attributes, groups, moves and writes are asked for
    None

Ids == {"min", "max"}

\* A clamp in an attribute is a value, -1 (back to the default), or absent.
Absent == -2

ASSUME UclampAssumption ==
    /\ Root \in Groups /\ Parent \in [Groups \ {Root} -> Groups]
    /\ Root \in Created /\ Created \subseteq Groups
    /\ Scale \in Nat \ {0} /\ Buckets \in 1 .. Scale
    /\ UtilMin \in 0 .. Scale
    /\ Values \subseteq Nat /\ Knobs \subseteq {"min", "max", "rt"}
    /\ MaxRequests \in Nat
    /\ None \notin Tasks \cup Groups

VARIABLES
    used,       \* the static key sched_uclamp_used
    sysctl,     \* sysctl_sched_uclamp_util_min, _max, _min_rt_default
    default,    \* uclamp_default
    tg,         \* the task groups: requested and effective clamps
    task,       \* the tasks
    rq,         \* the buckets of the run queue
    wr,         \* the holder of uclamp_mutex
    set,        \* a sched_setattr between its checks and the run queue lock
    left        \* how many requests may still come

vars == <<used, sysctl, default, tg, task, rq, wr, set, left>>

-----------------------------------------------------------------------------
(* Clamp values and buckets                                                *)

uclamp_none(id) == IF id = "min" THEN 0 ELSE Scale

Least(a, b) == IF a < b THEN a ELSE b
Most(a, b) == IF a < b THEN b ELSE a

UCLAMP_BUCKET_DELTA == (Scale + Buckets \div 2) \div Buckets

uclamp_bucket_id(v) == Least(v \div UCLAMP_BUCKET_DELTA, Buckets - 1)

BucketIds == 0 .. Buckets - 1

\* The bucket bucket_id is a function of value and is not stored.
uclamp_se_set(v, user) == [value |-> v, user |-> user]

clamp(v, lo, hi) == Least(Most(v, lo), hi)

\* What the group of the task leaves of its request.
uclamp_tg_restrict(p, id) ==
    LET req == p.req[id].value
        eff == tg[p.group].eff
    IN  IF p.group = Root THEN req ELSE clamp(req, eff["min"], eff["max"])

uclamp_eff_get(p, id) == Least(uclamp_tg_restrict(p, id), default[id])

-----------------------------------------------------------------------------
(* The run queue: for each clamp its value and its buckets                 *)

EmptyBucket == [tasks |-> 0, value |-> 0]

init_uclamp_rq ==
    [clamp |-> [id \in Ids |-> [value |-> uclamp_none(id),
                                bucket |-> [b \in BucketIds |-> EmptyBucket]]],
     idle |-> TRUE]

\* uclamp_rq_inc_id: a task of effective clamp v is counted.
IncId(u, v, idle) ==
    LET b == uclamp_bucket_id(v)
        n == u.bucket[b].tasks + 1
        bv == IF n = 1 THEN v ELSE Most(v, u.bucket[b].value)
    IN  [value |-> IF idle THEN v ELSE Most(v, u.value),
         bucket |-> [u.bucket EXCEPT ![b] = [tasks |-> n, value |-> bv]]]

Occupied(u) == {b \in BucketIds : u.bucket[b].tasks > 0}

\* The value of the highest bucket with tasks; without any, util_max is
\* kept and util_min dropped.
uclamp_rq_max_value(u, id, v) ==
    IF Occupied(u) # {}
    THEN u.bucket[CHOOSE b \in Occupied(u) : \A c \in Occupied(u) : c <= b].value
    ELSE IF id = "max" THEN v ELSE uclamp_none("min")

\* uclamp_rq_dec_id: a task of effective clamp v is no longer counted.  The
\* value of a bucket without tasks is never read and is dropped.
DecId(u, v, id) ==
    LET b == uclamp_bucket_id(v)
        n == Most(u.bucket[b].tasks - 1, 0)
        after == [u EXCEPT !.bucket[b] = IF n = 0 THEN EmptyBucket ELSE [@ EXCEPT !.tasks = n]]
    IN  IF n > 0 \/ u.bucket[b].value < u.value
        THEN after
        ELSE [after EXCEPT !.value = uclamp_rq_max_value(after, id, v)]

\* uclamp_idle_value: the last counted util_max is gone.
GoesIdle(u, v) ==
    LET b == uclamp_bucket_id(v)
    IN  Occupied(DecId(u, v, "max")) = {} /\ u.bucket[b].value >= u.value

uclamp_enabled(class) == class # "hvf"

-----------------------------------------------------------------------------
(* Counting a task.  These return the task and the run queue.              *)

Skipped(p) == ~used \/ ~uclamp_enabled(p.class) \/ p.st = "delayed"

uclamp_rq_inc(p, r) ==
    IF Skipped(p) THEN [p |-> p, r |-> r]
    ELSE LET eff == [id \in Ids |-> uclamp_eff_get(p, id)]
         IN  [p |-> [p EXCEPT !.uc = [id \in Ids |-> [value |-> eff[id], active |-> TRUE]]],
              r |-> [clamp |-> [id \in Ids |-> IncId(r.clamp[id], eff[id], r.idle)],
                     idle |-> FALSE]]

Inactive == [value |-> 0, active |-> FALSE]

\* A mutant: the flag active is not looked at.
uclamp_rq_dec_always(p, r) ==
    IF Skipped(p) THEN [p |-> p, r |-> r]
    ELSE [p |-> [p EXCEPT !.uc = [id \in Ids |-> Inactive]],
          r |-> [clamp |-> [id \in Ids |-> DecId(r.clamp[id], p.uc[id].value, id)],
                 idle |-> r.idle \/ GoesIdle(r.clamp["max"], p.uc["max"].value)]]

uclamp_rq_dec(p, r) ==
    IF Skipped(p) THEN [p |-> p, r |-> r]
    ELSE [p |-> [p EXCEPT !.uc = [id \in Ids |-> Inactive]],
          r |-> [clamp |-> [id \in Ids |-> IF p.uc[id].active
                                           THEN DecId(r.clamp[id], p.uc[id].value, id)
                                           ELSE r.clamp[id]],
                 idle |-> \/ r.idle
                          \/ p.uc["max"].active /\ GoesIdle(r.clamp["max"], p.uc["max"].value)]]

\* uclamp_rq_reinc_id, for one clamp of an active task.
uclamp_rq_reinc_id(p, r, id) ==
    IF ~p.uc[id].active THEN [p |-> p, r |-> r]
    ELSE LET u == DecId(r.clamp[id], p.uc[id].value, id)
             idle == r.idle \/ (id = "max" /\ GoesIdle(r.clamp[id], p.uc[id].value))
             v == uclamp_eff_get(p, id)
         IN  [p |-> [p EXCEPT !.uc[id].value = v],
              r |-> [clamp |-> [r.clamp EXCEPT ![id] = IncId(u, v, idle)],
                     idle |-> IF id = "max" THEN FALSE ELSE idle]]

uclamp_update_active(p, r) ==
    LET min == uclamp_rq_reinc_id(p, r, "min")
    IN  uclamp_rq_reinc_id(min.p, min.r, "max")

\* The result w of a counting operator becomes the state of task p.
Becomes(p, w) == task' = [task EXCEPT ![p] = w.p] /\ rq' = w.r

-----------------------------------------------------------------------------
(* Tasks                                                                   *)

\* st: "none", "new" (being forked), "linked" (on the task list), "off",
\* "on" (queued), "delayed" (dequeued but kept by the fair class).
\* css: the group in the cgroup core; group: sched_task_group.
FirstTask ==
    [st |-> "off", class |-> "fair", css |-> Root, group |-> Root, reset |-> FALSE,
     req |-> [id \in Ids |-> uclamp_se_set(uclamp_none(id), FALSE)],
     uc |-> [id \in Ids |-> Inactive]]

NoTask == [FirstTask EXCEPT !.st = "none"]

Alive(p) == task[p].st \in {"off", "on", "delayed"}

\* A wakeup: activate_task, or ttwu_runnable on a delayed task.
enqueue_task(p) ==
    /\ task[p].st \in {"off", "delayed"}
    /\ Becomes(p, uclamp_rq_inc([task[p] EXCEPT !.st = "on"], rq))
    /\ UNCHANGED <<used, sysctl, default, tg, wr, set, left>>

\* A sleep.  The fair class may keep the task as delayed.
dequeue_task(p) ==
    /\ task[p].st = "on"
    /\ LET w == uclamp_rq_dec(task[p], rq)
       IN  \E st \in {"off"} \cup (IF task[p].class = "fair" THEN {"delayed"} ELSE {}) :
               Becomes(p, [w EXCEPT !.p.st = st])
    /\ UNCHANGED <<used, sysctl, default, tg, wr, set, left>>

\* A delayed task is picked and really dequeued.
dequeue_delayed(p) ==
    /\ task[p].st = "delayed"
    /\ Becomes(p, LET w == uclamp_rq_dec(task[p], rq) IN [w EXCEPT !.p.st = "off"])
    /\ UNCHANGED <<used, sysctl, default, tg, wr, set, left>>

\* A queued task is taken off, becomes new and is put back.
Requeued(p, new) ==
    IF task[p].st = "off" THEN [p |-> new, r |-> rq]
    ELSE LET w == uclamp_rq_dec(task[p], rq)
         IN  uclamp_rq_inc([new EXCEPT !.uc = w.p.uc], w.r)

uclamp_fork(p) ==
    [p EXCEPT !.st = "new", !.uc = [id \in Ids |-> Inactive],
              !.req = IF p.reset THEN FirstTask.req ELSE @,
              !.class = IF p.reset \/ @ = "hvf" THEN "fair" ELSE @,
              !.group = p.css, !.reset = FALSE]

\* copy_process up to sched_cgroup_fork ...
ForkCopy(p, c) ==
    /\ Alive(p) /\ task[c].st = "none"
    /\ task[p].css = task[p].group
    /\ task' = [task EXCEPT ![c] = uclamp_fork(task[p])]
    /\ UNCHANGED <<used, sysctl, default, tg, rq, wr, set, left>>

\* ... the child is linked under tasklist_lock ...
ForkLink(c) ==
    /\ task[c].st = "new"
    /\ task' = [task EXCEPT ![c].st = "linked"]
    /\ UNCHANGED <<used, sysctl, default, tg, rq, wr, set, left>>

__uclamp_update_util_min_rt_default(p) ==
    IF p.class = "rt" /\ ~p.req["min"].user
    THEN [p EXCEPT !.req["min"] = uclamp_se_set(sysctl["rt"], FALSE)]
    ELSE p


\* ... and gets the RT default of this moment.
uclamp_post_fork(c) ==
    /\ task[c].st = "linked"
    /\ task' = [task EXCEPT ![c] = [__uclamp_update_util_min_rt_default(@) EXCEPT !.st = "off"]]
    /\ UNCHANGED <<used, sysctl, default, tg, rq, wr, set, left>>

-----------------------------------------------------------------------------
(* sched_setattr                                                           *)

HasClamp(a) == \E id \in Ids : a[id] # Absent

\* The request as it would be: -1 stands for any default.
Asked(p, a, id) == IF a[id] = Absent THEN p.req[id].value ELSE a[id]

uclamp_validate(p, a) ==
    /\ \A id \in Ids : a[id] <= Scale
    /\ \/ \E id \in Ids : Asked(p, a, id) = -1
       \/ Asked(p, a, "min") <= Asked(p, a, "max")

\* The checks, made without a lock.  Valid clamps turn the static key on.
SetattrCheck(p, a) ==
    /\ set.p = None /\ left > 0 /\ Alive(p)
    /\ HasClamp(a) => uclamp_validate(task[p], a)
    /\ used' = (used \/ HasClamp(a))
    /\ set' = [p |-> p, attr |-> a]
    /\ left' = left - 1
    /\ UNCHANGED <<sysctl, default, tg, task, rq, wr>>

uclamp_reset(p, a, id) == (~HasClamp(a) /\ ~p.req[id].user) \/ a[id] = -1

\* class: the class that the task has got.
__setscheduler_uclamp(p, a, class) ==
    [id \in Ids |->
        IF a[id] >= 0 THEN uclamp_se_set(a[id], TRUE)
        ELSE IF ~uclamp_reset(p, a, id) THEN p.req[id]
        ELSE uclamp_se_set(IF class = "rt" /\ id = "min" THEN sysctl["rt"] ELSE uclamp_none(id),
                           FALSE)]

NoSet == [p |-> None]

\* class "keep" is SCHED_FLAG_KEEP_ALL.
SetattrApply ==
    /\ set.p # None
    /\ LET p == set.p  a == set.attr  old == task[p]
           class == IF a.class = "keep" THEN old.class ELSE a.class
           reset == IF a.class = "keep" THEN old.reset ELSE a.reset
           new == [old EXCEPT !.class = class, !.reset = reset,
                              !.req = __setscheduler_uclamp(old, a, class)]
       IN  IF class = old.class /\ ~HasClamp(a)
           THEN /\ task' = [task EXCEPT ![p].reset = reset] /\ UNCHANGED rq
           ELSE IF class # old.class /\ old.st = "delayed"
                THEN Becomes(p, [p |-> [new EXCEPT !.st = "off"], r |-> rq])
                ELSE Becomes(p, Requeued(p, new))
    /\ set' = NoSet
    /\ UNCHANGED <<used, sysctl, default, tg, wr, left>>

-----------------------------------------------------------------------------
(* Task groups                                                             *)

Ancestors[g \in Groups] == {g} \cup (IF g = Root THEN {} ELSE Ancestors[Parent[g]])

\* The groups under g that a walk meets, g included.
Descendants(g) == {h \in Groups : g \in Ancestors[h] /\ tg[h].phase # "none"}

NoGroup == [phase |-> "none", req |-> [id \in Ids |-> 0], eff |-> [id \in Ids |-> 0]]

\* cpu_cgroup_css_alloc: the group is linked, its tg->parent is not set.
css_alloc(g) ==
    /\ tg[g].phase = "none" /\ tg[Parent[g]].phase = "ready"
    /\ left > 0 /\ left' = left - 1
    /\ tg' = [tg EXCEPT ![g] = [phase |-> "alloc", req |-> [id \in Ids |-> uclamp_none(id)],
                                eff |-> tg[Parent[g]].eff]]
    /\ UNCHANGED <<used, sysctl, default, task, rq, wr, set>>

sched_online_group(g) ==
    /\ tg[g].phase = "alloc"
    /\ tg' = [tg EXCEPT ![g].phase = "online"]
    /\ UNCHANGED <<used, sysctl, default, task, rq, wr, set, left>>

\* The cgroup core moves the task, cpu_cgroup_attach follows later.
AttachCss(p, g) ==
    /\ Alive(p) /\ task[p].css = task[p].group /\ task[p].css # g
    /\ tg[g].phase = "ready" /\ left > 0
    /\ task' = [task EXCEPT ![p].css = g]
    /\ left' = left - 1
    /\ UNCHANGED <<used, sysctl, default, tg, rq, wr, set>>


sched_move_task(p) ==
    /\ task[p].css # task[p].group
    /\ Becomes(p, Requeued(p, [task[p] EXCEPT !.group = task[p].css]))
    /\ UNCHANGED <<used, sysctl, default, tg, wr, set, left>>

-----------------------------------------------------------------------------
(* The writers, under uclamp_mutex                                         *)

Idle == [pc |-> "idle"]

\* walk: the groups that cpu_util_update_eff has still to visit, top: the
\* group that it was called for.
StartWalk(g) == [pc |-> "walk", walk |-> Descendants(g), top |-> g]

\* A mutant: the clamps copied by css_alloc are trusted.
css_online_copied(g) ==
    /\ wr = Idle /\ tg[g].phase = "online"
    /\ tg' = [tg EXCEPT ![g].phase = "ready"]
    /\ UNCHANGED <<used, sysctl, default, task, rq, wr, set, left>>

css_online(g) ==
    /\ wr = Idle /\ tg[g].phase = "online"
    /\ wr' = StartWalk(g)
    /\ UNCHANGED <<used, sysctl, default, tg, task, rq, set, left>>

cpu_uclamp_write(g, id, v) ==
    /\ wr = Idle /\ g # Root /\ tg[g].phase = "ready" /\ v <= Scale
    /\ left > 0 /\ left' = left - 1
    /\ used' = TRUE
    /\ tg' = [tg EXCEPT ![g].req[id] = v]
    /\ wr' = StartWalk(g)
    /\ UNCHANGED <<sysctl, default, task, rq, set>>

\* The effective clamps of a group: its request, capped by its parent.
NewEff(g) ==
    LET cap(id) == IF g = Root \/ tg[g].phase = "alloc" THEN tg[g].req[id]
                   ELSE Least(tg[g].req[id], tg[Parent[g]].eff[id])
    IN  [min |-> Least(cap("min"), cap("max")), max |-> cap("max")]

Top(g) == g \in wr.walk /\ (g # Root => Parent[g] \notin wr.walk)

\* A group whose clamps stay is left with all its descendants.
EffSame(g) ==
    /\ wr.pc = "walk" /\ Top(g) /\ NewEff(g) = tg[g].eff
    /\ wr' = [wr EXCEPT !.walk = @ \ Descendants(g)]
    /\ UNCHANGED <<used, sysctl, default, tg, task, rq, set, left>>

EffMin(g) ==
    /\ wr.pc = "walk" /\ Top(g) /\ NewEff(g) # tg[g].eff
    /\ tg' = [tg EXCEPT ![g].eff["min"] = NewEff(g)["min"]]
    /\ wr' = [pc |-> "max", walk |-> wr.walk \ {g}, top |-> wr.top, g |-> g, max |-> NewEff(g)["max"]]
    /\ UNCHANGED <<used, sysctl, default, task, rq, set, left>>

EffMax ==
    /\ wr.pc = "max"
    /\ tg' = [tg EXCEPT ![wr.g].eff["max"] = wr.max]
    /\ wr' = [pc |-> "tasks", walk |-> wr.walk, top |-> wr.top, g |-> wr.g,
              todo |-> {p \in Tasks : Alive(p) /\ task[p].css = wr.g}]
    /\ UNCHANGED <<used, sysctl, default, task, rq, set, left>>

\* uclamp_update_active_tasks: a task that has left the group is not met.
UpdateActive(p) ==
    /\ wr.pc = "tasks" /\ p \in wr.todo
    /\ IF task[p].css = wr.g THEN Becomes(p, uclamp_update_active(task[p], rq))
                              ELSE UNCHANGED <<task, rq>>
    /\ wr' = [wr EXCEPT !.todo = @ \ {p}]
    /\ UNCHANGED <<used, sysctl, default, tg, set, left>>

TasksDone ==
    /\ wr.pc = "tasks" /\ wr.todo = {}
    /\ wr' = [pc |-> "walk", walk |-> wr.walk, top |-> wr.top]
    /\ UNCHANGED <<used, sysctl, default, tg, task, rq, set, left>>

\* The walk is over; a group that came online can be used.
WalkDone ==
    /\ wr.pc = "walk" /\ wr.walk = {}
    /\ tg' = [tg EXCEPT ![wr.top].phase = "ready"]
    /\ wr' = Idle
    /\ UNCHANGED <<used, sysctl, default, task, rq, set, left>>

\* sysctl_sched_uclamp_handler: proc_dointvec stores the number ...
SysctlStore(k, v) ==
    /\ wr = Idle /\ k \in Knobs /\ sysctl[k] # v
    /\ left > 0 /\ left' = left - 1
    /\ sysctl' = [sysctl EXCEPT ![k] = v]
    /\ wr' = [pc |-> "sysctl", knob |-> k, old |-> sysctl[k]]
    /\ UNCHANGED <<used, default, tg, task, rq, set>>

SysctlValid == sysctl["min"] <= sysctl["max"] /\ sysctl["max"] <= Scale /\ sysctl["rt"] <= Scale

\* ... which is then checked ...
SysctlUndo ==
    /\ wr.pc = "sysctl" /\ ~SysctlValid
    /\ sysctl' = [sysctl EXCEPT ![wr.knob] = wr.old]
    /\ wr' = Idle
    /\ UNCHANGED <<used, default, tg, task, rq, set, left>>

\* ... and becomes the system default and the request of the root group ...
SysctlDefault ==
    /\ wr.pc = "sysctl" /\ SysctlValid /\ wr.knob \in Ids
    /\ used' = TRUE
    /\ default' = [default EXCEPT ![wr.knob] = sysctl[wr.knob]]
    /\ tg' = [tg EXCEPT ![Root].req = [id \in Ids |-> sysctl[id]]]
    /\ wr' = StartWalk(Root)
    /\ UNCHANGED <<sysctl, task, rq, set, left>>

Linked(p) == task[p].st \notin {"none", "new"}

\* ... or the request of the RT tasks on the task list.
uclamp_sync_util_min_rt_default ==
    /\ wr.pc = "sysctl" /\ SysctlValid /\ wr.knob = "rt"
    /\ used' = TRUE
    /\ wr' = [pc |-> "sync", todo |-> {p \in Tasks : Linked(p)}]
    /\ UNCHANGED <<sysctl, default, tg, task, rq, set, left>>

SyncTask(p) ==
    /\ wr.pc = "sync" /\ p \in wr.todo
    /\ task' = [task EXCEPT ![p] = __uclamp_update_util_min_rt_default(@)]
    /\ wr' = [wr EXCEPT !.todo = @ \ {p}]
    /\ UNCHANGED <<used, sysctl, default, tg, rq, set, left>>

SyncDone ==
    /\ wr.pc = "sync" /\ wr.todo = {}
    /\ wr' = Idle
    /\ UNCHANGED <<used, sysctl, default, tg, task, rq, set, left>>

-----------------------------------------------------------------------------
(* The system                                                              *)

Init ==
    /\ used = FALSE
    /\ sysctl = [min |-> UtilMin, max |-> Scale, rt |-> Scale]
    /\ default = [min |-> UtilMin, max |-> Scale]
    /\ tg = [g \in Groups |->
                IF g \notin Created THEN NoGroup
                ELSE LET none == [id \in Ids |-> IF g = Root THEN default[id] ELSE uclamp_none(id)]
                     IN  [phase |-> "ready", req |-> none, eff |-> none]]
    /\ \E p \in Tasks : task = [q \in Tasks |-> IF q = p THEN FirstTask ELSE NoTask]
    /\ rq = init_uclamp_rq
    /\ wr = Idle /\ set = NoSet
    /\ left = MaxRequests

TaskStep(p) ==
    \/ enqueue_task(p) \/ dequeue_task(p) \/ dequeue_delayed(p)
    \/ ForkLink(p) \/ uclamp_post_fork(p) \/ sched_move_task(p)
    \/ \E c \in Tasks : ForkCopy(p, c)
    \/ \E a \in Attrs : SetattrCheck(p, a)
    \/ \E g \in Groups : AttachCss(p, g)
    \/ UpdateActive(p) \/ SyncTask(p)

GroupStep(g) ==
    \/ css_online(g)
    \/ \E id \in Ids, v \in Values : cpu_uclamp_write(g, id, v)
    \/ EffSame(g) \/ EffMin(g)

Next ==
    \/ \E p \in Tasks : TaskStep(p)
    \/ \E g \in Groups : GroupStep(g)
    \/ \E g \in Groups \ {Root} : css_alloc(g) \/ sched_online_group(g)
    \/ \E k \in Knobs, v \in Values : SysctlStore(k, v)
    \/ SetattrApply \/ EffMax \/ TasksDone \/ WalkDone
    \/ SysctlUndo \/ SysctlDefault \/ uclamp_sync_util_min_rt_default \/ SyncDone

Spec == Init /\ [][Next]_vars

-----------------------------------------------------------------------------
(* Properties                                                              *)

ActiveIn(id) == {p \in Tasks : task[p].uc[id].active}

\* The clamp values stay in 0 .. Scale: the bit fields of struct uclamp_se
\* and struct uclamp_bucket have no room for much more.
TypeOK ==
    /\ used \in BOOLEAN
    /\ \A id \in Ids :
        /\ default[id] \in 0 .. Scale /\ rq.clamp[id].value \in 0 .. Scale
        /\ \A g \in Groups : tg[g].req[id] \in 0 .. Scale /\ tg[g].eff[id] \in 0 .. Scale
        /\ \A p \in Tasks : task[p].req[id].value \in 0 .. Scale /\ task[p].uc[id].value \in 0 .. Scale

\* A bucket counts exactly the queued tasks with an effective clamp in it,
\* whatever happened to the static key, the class, the group and the clamps
\* while they were queued: uclamp_rq_dec_id never finds an empty bucket.
BucketsExact ==
    \A id \in Ids :
        /\ \A p \in ActiveIn(id) : task[p].st = "on" /\ uclamp_enabled(task[p].class)
        /\ \A b \in BucketIds : rq.clamp[id].bucket[b].tasks =
               Cardinality({p \in ActiveIn(id) : uclamp_bucket_id(task[p].uc[id].value) = b})

\* The clamp of a run queue covers the highest clamp of its counted tasks,
\* and by no more than a bucket: the max aggregation of struct uclamp_rq,
\* with the overboost that uclamp_rq_dec_id accepts within a bucket.
RqClampIsMax ==
    \A id \in Ids : ActiveIn(id) # {} =>
        LET v == rq.clamp[id].value
            top == CHOOSE w \in {task[p].uc[id].value : p \in ActiveIn(id)} :
                       \A p \in ActiveIn(id) : task[p].uc[id].value <= w
        IN  v >= top /\ uclamp_bucket_id(v) = uclamp_bucket_id(top)

\* What a run queue knows of its tasks is exact, for both clamps.
RqClampsExact == TypeOK /\ BucketsExact /\ RqClampIsMax

\* When no writer is at work, the effective clamps of a usable group are its
\* request capped by its parent, for groups created during a walk as well:
\* cpu_util_update_eff may leave out the descendants of an unchanged group.
EffCapped ==
    wr = Idle => \A g \in Groups : tg[g].phase = "ready" => tg[g].eff = NewEff(g)


=============================================================================
