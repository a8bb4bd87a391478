------------------------------- MODULE MmCid --------------------------------
(***************************************************************************)
(* Concurrency ids of one mm (CONFIG_SCHED_MM_CID in kernel/sched/core.c   *)
(* and sched.h): small numbers that name the CPUs on which threads of a    *)
(* process run.  They are taken at a context switch under rq->lock, and    *)
(* given back lazily by a remote scan and by migrations that hold no lock  *)
(* of the CPU whose id they clear.  A step is one atomic access; the order *)
(* of the accesses is the program order that the code's barriers give.     *)
(***************************************************************************)
EXTENDS Integers, FiniteSets

CONSTANTS
    Cpus,       \* all of them allowed to the process
    Threads,    \* the threads of the process
    Other,      \* a task of another process, or a kernel thread
    Scan,       \* the thread that executes task_mm_cid_work
    Clones      \* bound: threads that may still be created

ASSUME CidAssumption ==
    /\ IsFiniteSet(Cpus) /\ Cpus # {}
    /\ Other \notin Threads /\ Scan \notin Cpus
    /\ Clones \in Nat

VARIABLES
    curr,      \* rq->curr
    slot,      \* mm->pcpu_cid->cid: a cid, perhaps flagged MM_CID_LAZY_PUT
    recent,    \* mm->pcpu_cid->recent_cid
    cidmask,   \* the cids that are taken
    max_nr,    \* mm->max_nr_cid
    th,        \* the fields of the threads
    use_lock,  \* use_cid_lock
    cid_lock,  \* the CPU that holds cid_lock, or Other
    op,        \* what every CPU (under its rq->lock) and the scan are doing
    overlap    \* history: two remote clears of one slot were in flight at once

vars == <<curr, slot, recent, cidmask, max_nr, th, use_lock, cid_lock, op, overlap>>

NrAllowed == Cardinality(Cpus)
Cids == 0 .. NrAllowed - 1
None == -1
Unset == [cid |-> None, lazy |-> FALSE]
Valid(s) == s.cid # None /\ ~s.lazy
Slots == {Unset} \cup [cid : Cids, lazy : BOOLEAN]

\* mm_users: a thread counts until it has dropped its mm.
Users == Cardinality({t \in Threads : th[t].life \in {"active", "inactive"}})

\* mm_cid_active of the task a CPU runs, for this mm.
Active(c) == curr[c] \in Threads /\ th[curr[c]].life = "active"

Idle == [pc |-> "idle", t |-> Other, cid |-> None, mode |-> "free", max |-> 0,
         cpu |-> Other, set |-> FALSE]
At(a, pc) == op[a].pc = pc
Goto(a, pc) == op' = [op EXCEPT ![a].pc = pc]
Done(a) == op' = [op EXCEPT ![a] = Idle]

\* a flags the slot of c, which another actor has flagged and not yet let go of.
Flags(a, c) ==
    /\ slot' = [slot EXCEPT ![c].lazy = TRUE]
    /\ overlap' = (overlap \/ \E b \in DOMAIN op \ {a} :
          op[b].cpu = c /\ op[b].pc \in {"lookagain", "clear", "check", "remove"})

Init ==
    /\ curr = [c \in Cpus |-> Other]
    /\ slot = [c \in Cpus |-> Unset]
    /\ recent = [c \in Cpus |-> None]
    /\ cidmask = {}
    /\ max_nr = 0
    /\ \E first \in Threads, c \in Cpus :
          th = [t \in Threads |->
                  [life |-> IF t = first THEN "active" ELSE "unborn", cid |-> None,
                   last |-> None, cpu |-> c, from |-> Other, queued |-> t = first]]
    /\ use_lock = FALSE /\ cid_lock = Other
    /\ op = [a \in Cpus \cup {Scan} |-> Idle]
    /\ overlap = FALSE

-----------------------------------------------------------------------------
\* __mm_cid_put: give op[a].cid back, then go on at pc.
Release(a, pc) ==
    /\ cidmask' = cidmask \ {op[a].cid}
    /\ op' = [op EXCEPT ![a] = IF pc = "idle" THEN Idle ELSE [@ EXCEPT !.pc = pc, !.cid = None]]

\* cmpxchg of a slot that must hold s; what was taken out is the actor's own.
Unsets(a, c, s, pc) ==
    /\ slot[c] = s
    /\ slot' = [slot EXCEPT ![c] = Unset]
    /\ op' = [op EXCEPT ![a].pc = pc, ![a].cid = s.cid]

\* __schedule stores rq->curr; switch_mm_cid follows in context_switch.
Switch(c, next) ==
    /\ At(c, "idle") /\ next # curr[c]
    /\ next \in Threads => th[next].queued /\ th[next].cpu = c
                          /\ \A d \in Cpus : curr[d] # next
    /\ curr' = [curr EXCEPT ![c] = next]
    /\ op' = [op EXCEPT ![c].pc = IF Active(c) THEN "put" ELSE "next", ![c].t = curr[c]]
    /\ UNCHANGED <<slot, recent, cidmask, max_nr, th, use_lock, cid_lock, overlap>>

\* mm_cid_put_lazy(prev), and prev->mm_cid = -1.
mm_cid_put_lazy(c) ==
    /\ At(c, "put")
    /\ IF slot[c].lazy
       THEN Unsets(c, c, slot[c], "putnext")
       ELSE Goto(c, "next") /\ UNCHANGED slot
    /\ th' = [th EXCEPT ![op[c].t].cid = None]
    /\ UNCHANGED <<curr, recent, cidmask, max_nr, use_lock, cid_lock, overlap>>

\* mm_cid_get of the task that is current now: the id of the CPU is used again
\* if it is still there, and a flagged one is given back first.
mm_cid_get(c) ==
    /\ At(c, "next")
    /\ IF ~Active(c) THEN Done(c) /\ UNCHANGED <<slot, th>>
       ELSE IF Valid(slot[c])
       THEN /\ th' = [th EXCEPT ![curr[c]].cid = slot[c].cid, ![curr[c]].last = slot[c].cid]
            /\ Done(c) /\ UNCHANGED slot
       ELSE IF slot[c].lazy THEN Unsets(c, c, slot[c], "putalloc") /\ UNCHANGED th
       ELSE Goto(c, "alloc") /\ UNCHANGED <<slot, th>>
    /\ UNCHANGED <<curr, recent, cidmask, max_nr, use_lock, cid_lock, overlap>>

__mm_cid_put(a) ==
    /\ \/ At(a, "putnext") /\ Release(a, "next")
       \/ At(a, "putalloc") /\ Release(a, "alloc")
       \/ At(a, "putend") /\ Release(a, "idle")
    /\ UNCHANGED <<curr, slot, recent, max_nr, th, use_lock, cid_lock, overlap>>

-----------------------------------------------------------------------------
\* __mm_cid_get

\* Without contention the lock is not taken.
Begin(c) ==
    /\ At(c, "alloc")
    /\ use_lock => cid_lock = Other
    /\ cid_lock' = IF use_lock THEN c ELSE cid_lock
    /\ op' = [op EXCEPT ![c].pc = "shrink", ![c].mode = IF use_lock THEN "locked" ELSE "free"]
    /\ UNCHANGED <<curr, slot, recent, cidmask, max_nr, th, use_lock, overlap>>

\* __mm_cid_try_get: bring max_nr_cid down to what the process can use.
Shrink(c) ==
    /\ At(c, "shrink")
    /\ LET allowed == IF Users < NrAllowed THEN Users ELSE NrAllowed
           max == IF max_nr > allowed THEN allowed ELSE max_nr
       IN  max_nr' = max /\ op' = [op EXCEPT ![c].pc = "recent", ![c].max = max]
    /\ UNCHANGED <<curr, slot, recent, cidmask, th, use_lock, cid_lock, overlap>>

\* cpumask_test_and_set_cpu(id) succeeds: the allocation is over, and with it the
\* lock and the request that others take it.
Takes(c, id) ==
    /\ id \notin cidmask
    /\ cidmask' = cidmask \cup {id}
    /\ op' = [op EXCEPT ![c].pc = "write", ![c].cid = id, ![c].mode = "free", ![c].max = 0]
    /\ cid_lock' = IF op[c].mode = "free" THEN cid_lock ELSE Other
    /\ use_lock' = (use_lock /\ op[c].mode # "retry")

\* The id this CPU had last.
TryRecent(c) ==
    /\ At(c, "recent")
    /\ \/ recent[c] # None /\ recent[c] < op[c].max /\ Takes(c, recent[c])
       \/ /\ recent[c] = None \/ recent[c] >= op[c].max \/ recent[c] \in cidmask
          /\ Goto(c, "expand") /\ UNCHANGED <<cidmask, use_lock, cid_lock>>
    /\ UNCHANGED <<curr, slot, recent, max_nr, th, overlap>>

\* A new id, while there are more threads and CPUs than ids.
Expand(c) ==
    /\ At(c, "expand")
    /\ IF op[c].max < NrAllowed /\ op[c].max < Users
       THEN IF op[c].max = max_nr
            THEN max_nr' = max_nr + 1 /\ Goto(c, "claim")
            ELSE op' = [op EXCEPT ![c].max = max_nr] /\ UNCHANGED max_nr
       ELSE Goto(c, "first") /\ UNCHANGED max_nr
    /\ UNCHANGED <<curr, slot, recent, cidmask, th, use_lock, cid_lock, overlap>>

Claim(c) ==
    /\ At(c, "claim")
    /\ \/ Takes(c, op[c].max)
       \/ op[c].max \in cidmask /\ Goto(c, "expand") /\ UNCHANGED <<cidmask, use_lock, cid_lock>>
    /\ UNCHANGED <<curr, slot, recent, max_nr, th, overlap>>

\* Mutant: the last id is never found.
FreeShort == Cids \ (cidmask \cup {NrAllowed - 1})

FreeIds == Cids \ cidmask

\* The first free id; the mask may be full for a moment.
FindFirst(c) ==
    /\ At(c, "first")
    /\ \E id \in FreeIds :
          /\ \A i \in FreeIds : id =< i
          /\ op' = [op EXCEPT ![c].pc = "take", ![c].max = id]
    /\ UNCHANGED <<curr, slot, recent, cidmask, max_nr, th, use_lock, cid_lock, overlap>>

\* Another CPU may have taken it: try again, now with the lock.
TakeFirst(c) ==
    /\ At(c, "take")
    /\ \/ Takes(c, op[c].max)
       \/ /\ op[c].max \in cidmask
          /\ op[c].mode = "free" => cid_lock = Other
          /\ cid_lock' = c
          /\ use_lock' = TRUE
          /\ op' = [op EXCEPT ![c].pc = "shrink", ![c].mode = "retry"]
          /\ UNCHANGED cidmask
    /\ UNCHANGED <<curr, slot, recent, max_nr, th, overlap>>

\* mm_cid_get ends: the id is the CPU's and its thread's.
WriteSlot(c) ==
    /\ At(c, "write")
    /\ slot' = [slot EXCEPT ![c] = [cid |-> op[c].cid, lazy |-> FALSE]]
    /\ recent' = [recent EXCEPT ![c] = op[c].cid]
    /\ th' = [th EXCEPT ![curr[c]].cid = op[c].cid, ![curr[c]].last = op[c].cid]
    /\ Done(c)
    /\ UNCHANGED <<curr, cidmask, max_nr, use_lock, cid_lock, overlap>>

-----------------------------------------------------------------------------
\* Threads that are created, exit or call execve.

\* sched_mm_cid_fork, then wake_up_new_task on some CPU.
sched_mm_cid_fork(t, c) ==
    /\ th[t].life = "unborn" /\ Users < Clones + 1
    /\ \E d \in Cpus : Active(d)
    /\ th' = [th EXCEPT ![t].life = "active", ![t].cpu = c, ![t].queued = TRUE]
    /\ UNCHANGED <<curr, slot, recent, cidmask, max_nr, use_lock, cid_lock, op, overlap>>

\* sched_mm_cid_exit_signals and sched_mm_cid_before_execve: mm_cid_active = 0.
sched_mm_cid_exit_signals(c) ==
    /\ At(c, "idle") /\ Active(c)
    /\ th' = [th EXCEPT ![curr[c]].life = "inactive"]
    /\ Goto(c, "unset")
    /\ UNCHANGED <<curr, slot, recent, cidmask, max_nr, use_lock, cid_lock, overlap>>

\* Mutant: the id is not given back.
PutForgets(c) ==
    /\ At(c, "unset")
    /\ slot' = [slot EXCEPT ![c] = Unset]
    /\ th' = [th EXCEPT ![curr[c]].cid = None, ![curr[c]].last = None]
    /\ Done(c)
    /\ UNCHANGED <<curr, recent, cidmask, max_nr, use_lock, cid_lock, overlap>>

\* mm_cid_put: the slot is emptied whether it is flagged or not.
mm_cid_put(c) ==
    /\ At(c, "unset")
    /\ IF slot[c] = Unset THEN Done(c) /\ UNCHANGED slot
                          ELSE Unsets(c, c, slot[c], "putend")
    /\ th' = [th EXCEPT ![curr[c]].cid = None, ![curr[c]].last = None]
    /\ UNCHANGED <<curr, recent, cidmask, max_nr, use_lock, cid_lock, overlap>>

\* sched_mm_cid_after_execve when the execve failed: the mm is the old one.
sched_mm_cid_after_execve(c) ==
    /\ At(c, "idle") /\ curr[c] \in Threads /\ th[curr[c]].life = "inactive"
    /\ th' = [th EXCEPT ![curr[c]].life = "active"]
    /\ Goto(c, "next")
    /\ UNCHANGED <<curr, slot, recent, cidmask, max_nr, use_lock, cid_lock, overlap>>

\* exit_mm, or exec_mmap to another mm: the thread is of this process no more.
DropMm(c) ==
    /\ At(c, "idle") /\ curr[c] \in Threads /\ th[curr[c]].life = "inactive"
    /\ th' = [th EXCEPT ![curr[c]].life = "gone", ![curr[c]].queued = FALSE]
    /\ curr' = [curr EXCEPT ![c] = Other]
    /\ UNCHANGED <<slot, recent, cidmask, max_nr, use_lock, cid_lock, op, overlap>>

-----------------------------------------------------------------------------
\* Migration of a thread that does not run.

\* set_task_cpu, under the lock of the CPU it leaves: sched_mm_cid_migrate_from.
sched_mm_cid_migrate_from(t, dst) ==
    /\ th[t].queued /\ th[t].cpu # dst /\ At(th[t].cpu, "idle")
    /\ \A c \in Cpus : curr[c] # t
    /\ th' = [th EXCEPT ![t].from = th[t].cpu, ![t].cpu = dst, ![t].queued = FALSE]
    /\ UNCHANGED <<curr, slot, recent, cidmask, max_nr, use_lock, cid_lock, op, overlap>>

Enqueue(c, t) == th' = [th EXCEPT ![t].queued = TRUE]

\* sched_mm_cid_migrate_to, under the lock of the new CPU, up to the first read
\* of the old CPU's slot in __sched_mm_cid_migrate_from_fetch_cid.
sched_mm_cid_migrate_to(c, t) ==
    LET src == th[t].from
        set == slot[c] # Unset \/ recent[c] # None
        useless == set /\ Users >= NrAllowed
    IN  /\ At(c, "idle") /\ th[t].cpu = c /\ ~th[t].queued
        /\ th[t].life \in {"active", "inactive"}
        /\ IF useless \/ th[t].last = None \/ ~Valid(slot[src]) \/ slot[src].cid # th[t].last
           THEN Enqueue(c, t) /\ UNCHANGED op
           ELSE /\ op' = [op EXCEPT ![c] = [Idle EXCEPT !.pc = "look", !.t = t, !.cpu = src,
                                                       !.cid = slot[src].cid, !.set = set]]
                /\ UNCHANGED th
        /\ UNCHANGED <<curr, slot, recent, cidmask, max_nr, use_lock, cid_lock, overlap>>

\* A thread of the process runs on the old CPU: its id stays there.
Forgets(c) ==
    /\ th' = [th EXCEPT ![op[c].t].last = None, ![op[c].t].queued = TRUE]
    /\ Done(c)

LookBefore(c) ==
    /\ At(c, "look")
    /\ IF Active(op[c].cpu) THEN Forgets(c) ELSE Goto(c, "steal") /\ UNCHANGED th
    /\ UNCHANGED <<curr, slot, recent, cidmask, max_nr, use_lock, cid_lock, overlap>>

\* __sched_mm_cid_migrate_from_try_steal_cid: flag the old CPU's id (TMA) ...
Steal(c) ==
    LET src == op[c].cpu
    IN  /\ At(c, "steal")
        /\ IF slot[src] = [cid |-> op[c].cid, lazy |-> FALSE]
           THEN /\ Flags(c, src)
                /\ Goto(c, "lookagain") /\ UNCHANGED th
           ELSE Enqueue(c, op[c].t) /\ Done(c) /\ UNCHANGED <<slot, overlap>>
        /\ UNCHANGED <<curr, recent, cidmask, max_nr, use_lock, cid_lock>>

\* Mutant: the current task of the old CPU is not looked at again.
LookNot(c) ==
    /\ At(c, "lookagain")
    /\ Goto(c, "clear") /\ UNCHANGED th
    /\ UNCHANGED <<curr, slot, recent, cidmask, max_nr, use_lock, cid_lock, overlap>>

\* ... look whether somebody runs there ...
LookAfter(c) ==
    /\ At(c, "lookagain")
    /\ IF Active(op[c].cpu) THEN Forgets(c) ELSE Goto(c, "clear") /\ UNCHANGED th
    /\ UNCHANGED <<curr, slot, recent, cidmask, max_nr, use_lock, cid_lock, overlap>>

\* ... and take it, if the flag is still there (TMB).
Clear(c) ==
    LET src == op[c].cpu
    IN  /\ At(c, "clear")
        /\ IF slot[src] = [cid |-> op[c].cid, lazy |-> TRUE]
           THEN /\ slot' = [slot EXCEPT ![src] = Unset]
                /\ recent' = [recent EXCEPT ![src] = None]
                /\ Goto(c, "move") /\ UNCHANGED th
           ELSE Enqueue(c, op[c].t) /\ Done(c) /\ UNCHANGED <<slot, recent>>
        /\ UNCHANGED <<curr, cidmask, max_nr, use_lock, cid_lock, overlap>>

\* The stolen id becomes the new CPU's if that had none.
Move(c) ==
    /\ At(c, "move")
    /\ Enqueue(c, op[c].t)
    /\ IF op[c].set
       THEN Goto(c, "putend") /\ UNCHANGED <<slot, recent>>
       ELSE /\ slot' = [slot EXCEPT ![c] = [cid |-> op[c].cid, lazy |-> FALSE]]
            /\ recent' = [recent EXCEPT ![c] = op[c].cid]
            /\ Done(c)
    /\ UNCHANGED <<curr, cidmask, max_nr, use_lock, cid_lock, overlap>>

-----------------------------------------------------------------------------
\* task_mm_cid_work: the scan looks at every CPU, twice.

\* sched_mm_cid_remote_clear_old: a CPU that runs none of the threads, and has
\* not for a while.
sched_mm_cid_remote_clear_old(c) ==
    /\ At(Scan, "idle") /\ ~Active(c)
    /\ op' = [op EXCEPT ![Scan].pc = "flag", ![Scan].cpu = c]
    /\ UNCHANGED <<curr, slot, recent, cidmask, max_nr, th, use_lock, cid_lock, overlap>>

\* sched_mm_cid_remote_clear_weight: an id that a compact allocation would not use.
sched_mm_cid_remote_clear_weight(c) ==
    /\ At(Scan, "idle") /\ Valid(slot[c]) /\ slot[c].cid >= Cardinality(cidmask)
    /\ op' = [op EXCEPT ![Scan].pc = "flag", ![Scan].cpu = c]
    /\ UNCHANGED <<curr, slot, recent, cidmask, max_nr, th, use_lock, cid_lock, overlap>>

\* sched_mm_cid_remote_clear: flag it (TMA) ...
Flag ==
    LET c == op[Scan].cpu
    IN  /\ At(Scan, "flag")
        /\ IF Valid(slot[c])
           THEN /\ Flags(Scan, c)
                /\ op' = [op EXCEPT ![Scan].pc = "check", ![Scan].cid = slot[c].cid]
           ELSE Done(Scan) /\ UNCHANGED <<slot, overlap>>
        /\ UNCHANGED <<curr, recent, cidmask, max_nr, th, use_lock, cid_lock>>

\* ... look whether somebody runs there ...
Check ==
    /\ At(Scan, "check")
    /\ IF Active(op[Scan].cpu) THEN Done(Scan) ELSE Goto(Scan, "remove")
    /\ UNCHANGED <<curr, slot, recent, cidmask, max_nr, th, use_lock, cid_lock, overlap>>

\* ... and take it, if the flag is still there (TMB).
Remove ==
    /\ At(Scan, "remove")
    /\ LET s == [cid |-> op[Scan].cid, lazy |-> TRUE]
       IN  IF slot[op[Scan].cpu] = s THEN Unsets(Scan, op[Scan].cpu, s, "putend")
                                     ELSE Done(Scan) /\ UNCHANGED slot
    /\ UNCHANGED <<curr, recent, cidmask, max_nr, th, use_lock, cid_lock, overlap>>

-----------------------------------------------------------------------------
\* What a CPU does under its lock once it has begun.
Continue(c) ==
    \/ mm_cid_put_lazy(c) \/ mm_cid_get(c) \/ __mm_cid_put(c) \/ mm_cid_put(c)
    \/ Begin(c) \/ Shrink(c) \/ TryRecent(c) \/ Expand(c) \/ Claim(c)
    \/ FindFirst(c) \/ TakeFirst(c) \/ WriteSlot(c)
    \/ LookBefore(c) \/ Steal(c) \/ LookAfter(c) \/ Clear(c) \/ Move(c)

Scanning == Flag \/ Check \/ Remove \/ __mm_cid_put(Scan)

Next ==
    \/ \E c \in Cpus :
          \/ \E next \in Threads \cup {Other} : Switch(c, next)
          \/ Continue(c)
          \/ sched_mm_cid_exit_signals(c) \/ sched_mm_cid_after_execve(c) \/ DropMm(c)
          \/ \E t \in Threads : \/ sched_mm_cid_fork(t, c)
                                \/ sched_mm_cid_migrate_from(t, c)
                                \/ sched_mm_cid_migrate_to(c, t)
          \/ sched_mm_cid_remote_clear_old(c)
          \/ sched_mm_cid_remote_clear_weight(c)
    \/ Scanning

Spec == Init /\ [][Next]_vars

-----------------------------------------------------------------------------
\* Every variable has its type.
TypeOK ==
    /\ curr \in [Cpus -> Threads \cup {Other}]
    /\ slot \in [Cpus -> Slots]
    /\ recent \in [Cpus -> Cids \cup {None}]
    /\ cidmask \subseteq Cids
    /\ max_nr \in 0 .. NrAllowed
    /\ th \in [Threads -> [life : {"unborn", "active", "inactive", "gone"},
                           cid : Cids \cup {None}, last : Cids \cup {None},
                           cpu : Cpus, from : Cpus \cup {Other}, queued : BOOLEAN]]
    /\ use_lock \in BOOLEAN /\ cid_lock \in Cpus \cup {Other}
    /\ overlap \in BOOLEAN

\* A thread that runs in user space has the id that its CPU's slot holds, flagged
\* or not, and the id is taken.
Switching == {"put", "putnext", "next", "putalloc", "alloc", "shrink", "recent", "expand",
              "claim", "first", "take", "write"}
InUse(c) == Active(c) /\ op[c].pc \notin Switching
Kept(c) == InUse(c) => th[curr[c]].cid = slot[c].cid /\ slot[c].cid \in cidmask

\* Property (1) of the comment above sched_mm_cid_migrate_from: "Remote-clear should
\* _never_ mark a per-cpu cid UNSET when it is actively used by a task."
UsedNeverCleared == \A c \in Cpus : Kept(c)

\* The same while no two remote clears of one slot were in flight at once: a
\* migration, or the scan, against any switch, exit, execve and allocation.  Two
\* threads that run at once then never have the same id.
UsedIsKept ==
    ~overlap => \A c \in Cpus :
        /\ Kept(c)
        /\ \A d \in Cpus \ {c} : InUse(c) /\ InUse(d) => th[curr[c]].cid # th[curr[d]].cid

\* Every id that is taken has exactly one holder: the slot of a CPU, or a CPU or
\* the scan between taking it out of a slot or the mask and passing it on.  None
\* leaks, and none is given back twice.
InFlight(a) == op[a].pc \in {"putnext", "putalloc", "putend", "write", "move"}
Holders(id) ==
    {<<"slot", c>> : c \in {d \in Cpus : slot[d].cid = id}}
    \cup {<<"flight", a>> : a \in {b \in Cpus \cup {Scan} : InFlight(b) /\ op[b].cid = id}}
OneHolder ==
    TypeOK /\ \A id \in Cids : Cardinality(Holders(id)) = IF id \in cidmask THEN 1 ELSE 0

\* The spin of __mm_cid_try_get for a free id ends: when the mask is full, another
\* CPU or the scan is about to give one back.
SpinEnds ==
    \A c \in Cpus : At(c, "first") /\ FreeIds = {} =>
        \E a \in DOMAIN op \ {c} :
            \/ op[a].pc \in {"putnext", "putalloc", "putend"}
            \/ At(a, "move") /\ op[a].set
=============================================================================
