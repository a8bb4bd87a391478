-------------------------------- MODULE Fork --------------------------------
(***************************************************************************)
(* Process creation (kernel/fork.c): copy_process acquires a list of       *)
(* resources for the child, some shared with the parent and some copied,   *)
(* and gives them back in reverse when a step fails; kernel_clone starts   *)
(* the child and waits for it after vfork; unshare, execve and exit change *)
(* what is shared.  Several tasks do this at the same time, and signals    *)
(* are sent to them meanwhile.                                             *)
(***************************************************************************)
EXTENDS DupMm, FiniteSetsExt

CONSTANTS
    Tasks,       \* task structs, each used once
    Leader,      \* the process that exists at first ...
    Thread,      \* ... and its second thread
    Forkers,     \* the tasks that fork
    FlagSets,    \* the clone flags of the workload
    AreaList,    \* the areas of the first address space
    MaxThreads,  \* max_threads
    Nproc,       \* RLIMIT_NPROC of the user
    None

ASSUME ForkAssumption ==
    /\ Leader \in Tasks /\ Thread \in Tasks /\ Leader # Thread
    /\ None \notin Tasks /\ Forkers \subseteq Tasks
    /\ AreaList \in Seq(Areas)
    /\ MaxThreads \in Nat /\ Nproc \in Nat \ {0, 1}

VARIABLES
    task,       \* the task structs
    cnt,        \* the reference counts of the shared objects
    job,        \* the system call every task is in
    nr_threads, \* nr_threads
    nproc,      \* UCOUNT_RLIMIT_NPROC of the user
    areas,      \* the areas of every mm
    committed,  \* vm_committed_as
    sent,       \* what was sent to all processes, "none" yet: one event is enough
    bad         \* what was released without being held, kept, or used after its end

shared == <<cnt, areas, committed>>
counts == <<nr_threads, nproc>>
vars == <<task, job, bad, shared, counts, sent>>

\* Shared objects, and the flag that shares each.  Object <<t, 0>> was made when t
\* was, <<t, 1>> when t stopped sharing; Replaced bounds that to once.
Shares == [files |-> "FILES", fs |-> "FS", sighand |-> "SIGHAND", signal |-> "THREAD",
           mm |-> "VM"]
Kinds == DOMAIN Shares
Objects == Tasks \X {0, 1}
Replaced(t, k) == task[t].ptr[k] = <<t, 1>>

\* copy_process, in order.  "core" is the part under tasklist_lock, "limits" and
\* "tg" (sched_cgroup_fork) acquire nothing.
CopySteps == <<"task", "creds", "limits", "policy", "sched", "perf", "audit", "security",
               "semundo", "files", "fs", "sighand", "signal", "mm", "namespaces", "io",
               "thread", "pid", "pidfd", "cgroup", "tg", "core">>
Place(s) == CHOOSE i \in DOMAIN CopySteps : CopySteps[i] = s

NoJob == [pc |-> "idle", child |-> None, flags |-> {}, step |-> 0, delayed |-> FALSE,
          comp |-> "none", new |-> {}]

\* early: a signal was sent to all processes while the task was being made.
NewTask == [st |-> "none", ptr |-> [k \in Kinds |-> None], held |-> {}, sig |-> "none",
            vfork |-> None, pin |-> FALSE, pars_set |-> FALSE, early |-> FALSE]

Init ==
    /\ task = [t \in Tasks |->
                 IF t \in {Leader, Thread}
                 THEN [NewTask EXCEPT !.st = "live", !.ptr = [k \in Kinds |-> <<Leader, 0>>],
                                      !.held = Kinds, !.pars_set = TRUE]
                 ELSE NewTask]
    /\ cnt = [k \in Kinds |-> [o \in Objects |-> IF o = <<Leader, 0>> THEN 2 ELSE 0]]
    /\ areas = [o \in Objects |-> IF o = <<Leader, 0>> THEN AreaList ELSE <<>>]
    /\ committed = Accounted(AreaList, DOMAIN AreaList)
    /\ job = [t \in Tasks |-> NoJob]
    /\ nr_threads = 2 /\ nproc = 2
    /\ sent = "none" /\ bad = {}

Idle(t) == task[t].st = "live" /\ job[t].pc = "idle"

\* Task t drops its references of the kinds ks; the last user of an mm takes the
\* address space down.
Drop(t, ks) ==
    LET m == task[t].ptr["mm"]
        last == "mm" \in ks /\ cnt["mm"][m] = 1
    IN  /\ cnt' = [k \in Kinds |-> IF k \in ks THEN [cnt[k] EXCEPT ![task[t].ptr[k]] = @ - 1]
                                               ELSE cnt[k]]
        /\ areas' = IF last THEN [areas EXCEPT ![m] = <<>>] ELSE areas
        /\ committed' = IF last THEN committed - Accounted(areas[m], DOMAIN areas[m])
                                ELSE committed

-----------------------------------------------------------------------------
\* kernel_clone and copy_process

\* The checks of the flags at the start of copy_process.
FlagsValid(flags) ==
    /\ ~({"NEWNS", "FS"} \subseteq flags) /\ ~({"NEWUSER", "FS"} \subseteq flags)
    /\ "THREAD" \in flags => "SIGHAND" \in flags
    /\ "SIGHAND" \in flags => "VM" \in flags
    /\ "THREAD" \in flags => flags \cap {"NEWUSER", "NEWPID"} = {}

\* The check that only clone3 makes.
clone3_args_valid(flags) == ~({"SIGHAND", "CLEAR_SIGHAND"} \subseteq flags)

\* Up to the test for pending signals.  A fork of a process, not of a thread, is
\* entered in signal->multiprocess first, to learn of signals sent meanwhile.
Begin(t, c, flags) ==
    /\ t \in Forkers /\ Idle(t) /\ task[c].st = "none" /\ task[t].sig = "none"
    /\ clone3_args_valid(flags) /\ FlagsValid(flags)
    /\ job' = [job EXCEPT ![t] = [NoJob EXCEPT !.pc = "copy", !.child = c, !.flags = flags,
                                              !.step = 1]]
    /\ task' = [task EXCEPT ![c].st = "building"]
    /\ UNCHANGED <<shared, counts, sent, bad>>

At(t, s) == job[t].pc = "copy" /\ CopySteps[job[t].step] = s

\* The steps that read or change more than the child itself.  The others are taken
\* together: no other task can tell when they happen.
Visible == Kinds \cup {"task", "creds", "limits", "core"}
Ahead(t) == {i \in DOMAIN CopySteps : job[t].pc = "copy" /\ i >= job[t].step
                /\ \A j \in job[t].step .. i - 1 : CopySteps[j] \notin Visible}
Shared(t, s) == s \in Kinds /\ Shares[s] \in job[t].flags

\* Whether step s gives the child something of its own or a counted reference.
\* A thread's signal_struct is counted only when the thread becomes visible.
Acquires(t, s) ==
    /\ s \notin {"limits", "tg"}
    /\ s = "signal" => ~Shared(t, s)
    /\ s = "pidfd" => "PIDFD" \in job[t].flags

\* dup_task_struct: the child starts as a copy of the parent, with pointers that
\* are not counted yet.
dup_task_struct(t) ==
    LET c == job[t].child
    IN  /\ At(t, "task")
        /\ task' = [task EXCEPT ![c].held = {"task"}, ![c].ptr = task[t].ptr,
                                ![c].pars_set = task[t].pars_set]
        /\ job' = [job EXCEPT ![t].step = @ + 1]
        /\ UNCHANGED <<shared, counts, sent, bad>>

\* copy_creds also counts the child among the processes of the user.
copy_creds(t) ==
    /\ At(t, "creds")
    /\ task' = [task EXCEPT ![job[t].child].held = @ \cup {"creds"}]
    /\ nproc' = nproc + 1
    /\ job' = [job EXCEPT ![t].step = @ + 1]
    /\ UNCHANGED <<shared, nr_threads, sent, bad>>

\* What the steps before step i, from the present one, give the child.
Gained(t, i) == {s \in {CopySteps[j] : j \in job[t].step .. i - 1} : Acquires(t, s)}

\* The steps that copy or make something of the child's own.
CopyOwn(t) ==
    /\ job[t].pc = "copy" /\ CopySteps[job[t].step] \notin Visible
    /\ LET next == Max(Ahead(t))
       IN  /\ task' = [task EXCEPT ![job[t].child].held = @ \cup Gained(t, next)]
           /\ job' = [job EXCEPT ![t].step = next]
    /\ UNCHANGED <<shared, counts, sent, bad>>

\* The object the child will use: the parent's, or a copy.
Chosen(t, s) == IF Shared(t, s) THEN task[t].ptr[s] ELSE <<job[t].child, 0>>

\* copy_files, copy_fs and copy_sighand: count the parent's object, or copy it.
CopyCounted(t) ==
    \E s \in {"files", "fs", "sighand"} :
        /\ At(t, s)
        /\ task' = [task EXCEPT ![job[t].child].held = @ \cup {s},
                                ![job[t].child].ptr[s] = Chosen(t, s)]
        /\ cnt' = [cnt EXCEPT ![s][Chosen(t, s)] = @ + 1]
        /\ job' = [job EXCEPT ![t].step = @ + 1]
        /\ UNCHANGED <<areas, committed, counts, sent, bad>>

\* copy_signal: a thread keeps the pointer it was born with, not counted.
copy_signal(t) ==
    /\ At(t, "signal")
    /\ IF Shared(t, "signal") THEN UNCHANGED <<task, cnt>>
       ELSE /\ task' = [task EXCEPT ![job[t].child].held = @ \cup {"signal"},
                                    ![job[t].child].ptr["signal"] = Chosen(t, "signal")]
            /\ cnt' = [cnt EXCEPT !["signal"][Chosen(t, "signal")] = @ + 1]
    /\ job' = [job EXCEPT ![t].step = @ + 1]
    /\ UNCHANGED <<areas, committed, counts, sent, bad>>

\* copy_mm: mmget, or dup_mm.
copy_mm(t) ==
    LET old == areas[task[t].ptr["mm"]]
        o == Chosen(t, "mm")
    IN  /\ At(t, "mm")
        /\ task' = [task EXCEPT ![job[t].child].held = @ \cup {"mm"},
                                ![job[t].child].ptr["mm"] = o]
        /\ cnt' = [cnt EXCEPT !["mm"][o] = @ + 1]
        /\ IF Shared(t, "mm") THEN UNCHANGED <<areas, committed>>
           ELSE /\ areas' = [areas EXCEPT ![o] = SelectSeq(old, LAMBDA a : a.copy)]
                /\ committed' = committed + Charged(old, NoFailure)
        /\ job' = [job EXCEPT ![t].step = @ + 1]
        /\ UNCHANGED <<counts, sent, bad>>

\* Mutant: the limit of the user is tested as if the child were not counted yet.
OverlimitLate == nproc > Nproc + 1 \/ nr_threads >= MaxThreads

\* is_rlimit_overlimit, with the child counted; and nr_threads, which is raised
\* much later, under tasklist_lock.
Overlimit == nproc > Nproc \/ nr_threads >= MaxThreads

CheckLimits(t) ==
    /\ At(t, "limits") /\ ~Overlimit
    /\ job' = [job EXCEPT ![t].step = @ + 1]
    /\ UNCHANGED <<task, shared, counts, sent, bad>>

\* When step s of task t may fail: what is shared is only counted, except that
\* copy_fs refuses while an execve of the process is under way.
MayFail(t, s) ==
    CASE s = "limits" -> Overlimit
      [] s \in {"files", "sighand", "signal", "mm"} -> ~Shared(t, s)
      [] s = "pidfd" -> "PIDFD" \in job[t].flags
      [] s = "core" -> sent = "end" \/ task[t].sig = "fatal"
      [] OTHER -> TRUE

\* Mutant: a failure of copy_fs jumps past the label of the files.
LabelPast(s) ==
    CASE s = "task" -> "out"
      [] s \in {"limits", "policy"} -> "creds"
      [] s = "core" -> "core"
      [] s = "fs" -> "semundo"
      [] OTHER -> CopySteps[Place(s) - 1]

\* The label a failing step jumps to, named after what is released there first.
\* The steps before "policy" have only bad_fork_cleanup_delayacct and _count.
Label(s) ==
    CASE s = "task" -> "out"
      [] s \in {"limits", "policy"} -> "creds"
      [] s = "core" -> "core"
      [] OTHER -> CopySteps[Place(s) - 1]

\* The labels from l down: what the unwinding releases.
Cleanup(t, l) ==
    IF l = "out" THEN {}
    ELSE {r \in {CopySteps[i] : i \in 1 .. Place(l)} : Acquires(t, r)}

\* dup_mm fails by f: the new mm is taken down again.
DupMmFails(old, f) ==
    LET tree == dup_mmap(old, f)
        freed == exit_mmap(tree)
    IN  /\ committed' = committed + Charged(old, f) - Uncharged(old, f) - Accounted(old, freed)
        /\ bad' = bad
              \cup {"parent's area" : i \in {j \in freed : tree[j] # "new"}}
              \cup (IF f.why = "init" /\ mm_init_undo(f.at) # {MmParts[n] : n \in 1 .. f.at - 1}
                    THEN {"part of mm"} ELSE {})

\* A step fails, and the labels at the end of copy_process give back in reverse
\* what the child has so far.
CopyFails(t) ==
    \E i \in Ahead(t) :
        LET c == job[t].child
            s == CopySteps[i]
            gone == Cleanup(t, Label(s))
            held == task[c].held \cup Gained(t, i) \cup (IF s = "core" THEN {"core"} ELSE {})
        IN  /\ MayFail(t, s)
            /\ task' = [task EXCEPT ![c] = [NewTask EXCEPT !.st = "dead", !.held = held \ gone]]
            /\ nproc' = IF "creds" \in gone THEN nproc - 1 ELSE nproc
            /\ job' = [job EXCEPT ![t] = NoJob]
            /\ IF s = "mm"
               THEN /\ \E f \in Failures(areas[task[t].ptr["mm"]]) :
                           DupMmFails(areas[task[t].ptr["mm"]], f)
                    /\ cnt' = [k \in Kinds |-> IF k \in gone
                                  THEN [cnt[k] EXCEPT ![task[c].ptr[k]] = @ - 1] ELSE cnt[k]]
                    /\ UNCHANGED areas
               ELSE Drop(c, gone \cap Kinds) /\ bad' = bad \cup (IF gone \subseteq held THEN {}
                                                                  ELSE {"not held"})
            /\ UNCHANGED <<nr_threads, sent>>

\* Mutant: signals that were collected during the fork are forgotten.
Deaf(t) == "none"

\* The signals a new process starts with: those collected in delayed.signal.
Collected(t) == IF job[t].delayed THEN "plain" ELSE "none"

\* Under tasklist_lock and siglock the child becomes visible; nothing fails after
\* that.  A new thread is counted in the signal_struct it shares.
Publish(t) ==
    LET c == job[t].child
    IN  /\ At(t, "core") /\ sent # "end" /\ task[t].sig # "fatal"
        /\ task' = [task EXCEPT ![c].st = "new", ![c].sig = Collected(t),
                                ![c].held = @ \cup {"core", "signal"}]
        /\ cnt' = IF Shared(t, "signal") THEN [cnt EXCEPT !["signal"][task[c].ptr["signal"]] = @ + 1]
                                         ELSE cnt
        /\ nr_threads' = nr_threads + 1
        /\ job' = [job EXCEPT ![t].pc = "post", ![t].delayed = FALSE]
        /\ UNCHANGED <<nproc, areas, committed, sent, bad>>

\* The end of copy_process: the child does not inherit the HVF parameters.
PostFork(t) ==
    /\ job[t].pc = "post"
    /\ task' = [task EXCEPT ![job[t].child].pars_set = FALSE]
    /\ job' = [job EXCEPT ![t].pc = "wake"]
    /\ UNCHANGED <<shared, counts, sent, bad>>

\* kernel_clone: the completion is armed and the child pinned before it is woken.
WakeNew(t) ==
    LET c == job[t].child
        vfork == "VFORK" \in job[t].flags
    IN  /\ job[t].pc = "wake"
        /\ task' = [task EXCEPT ![c].st = "live", ![c].vfork = IF vfork THEN t ELSE None,
                                ![c].pin = vfork]
        /\ job' = [job EXCEPT ![t] = IF vfork THEN [@ EXCEPT !.pc = "wait", !.comp = "armed"]
                                              ELSE NoJob]
        /\ UNCHANGED <<shared, counts, sent, bad>>

\* wait_for_vfork_done: the child is done with the mm.
VforkDone(t) ==
    /\ job[t].pc = "wait" /\ job[t].comp = "done"
    /\ task' = [task EXCEPT ![job[t].child].pin = FALSE]
    /\ job' = [job EXCEPT ![t] = NoJob]
    /\ UNCHANGED <<shared, counts, sent, bad>>

\* Mutant: the child keeps the pointer to the completion on the parent's stack.
VforkLeaves(t) ==
    /\ job[t].pc = "wait" /\ task[t].sig = "fatal"
    /\ task' = [task EXCEPT ![job[t].child].pin = FALSE]
    /\ job' = [job EXCEPT ![t] = NoJob]
    /\ UNCHANGED <<shared, counts, sent, bad>>

\* wait_for_vfork_done: the parent was killed, and detaches the completion from
\* the child, which is pinned in case it is gone already.
VforkKilled(t) ==
    LET c == job[t].child
    IN  /\ job[t].pc = "wait" /\ task[t].sig = "fatal"
        /\ bad' = IF task[c].st = "dead" /\ ~task[c].pin THEN bad \cup {"child"} ELSE bad
        /\ task' = [task EXCEPT ![c].pin = FALSE, ![c].vfork = None]
        /\ job' = [job EXCEPT ![t] = NoJob]
        /\ UNCHANGED <<shared, counts, sent>>

-----------------------------------------------------------------------------
\* exit, execve, unshare

\* mm_release tests vfork_done before it takes the lock ...
mm_release(t, to) ==
    /\ Idle(t)
    /\ job' = [job EXCEPT ![t].pc = IF task[t].vfork = None THEN to ELSE "complete",
                          ![t].new = {to}]
    /\ UNCHANGED <<task, shared, counts, sent, bad>>

exit_mm_release(t) == mm_release(t, "exit")

\* Other threads are gone when execve gets here.
exec_mm_release(t) ==
    /\ Idle(t) /\ cnt["signal"][task[t].ptr["signal"]] = 1 /\ ~Replaced(t, "mm")
    /\ mm_release(t, "exec")

\* ... and complete_vfork_done reads it again under the lock.
complete_vfork_done(t) ==
    LET p == task[t].vfork
    IN  /\ job[t].pc = "complete"
        /\ task' = [task EXCEPT ![t].vfork = None]
        /\ job' = [u \in Tasks |->
                     IF u = t THEN [job[u] EXCEPT !.pc = CHOOSE to \in job[t].new : TRUE]
                     ELSE IF u = p THEN [job[u] EXCEPT !.comp = "done"]
                     ELSE job[u]]
        /\ bad' = IF p # None /\ ~(job[p].pc = "wait" /\ job[p].child = t)
                  THEN bad \cup {"completion"} ELSE bad
        /\ UNCHANGED <<shared, counts, sent>>

\* The rest of do_exit and release_task: every reference is dropped.
Exit(t) ==
    /\ job[t].pc = "exit"
    /\ Drop(t, Kinds)
    /\ task' = [task EXCEPT ![t] = [NewTask EXCEPT !.st = "dead", !.pin = task[t].pin]]
    /\ nr_threads' = nr_threads - 1 /\ nproc' = nproc - 1
    /\ job' = [job EXCEPT ![t] = NoJob]
    /\ UNCHANGED <<sent, bad>>

\* Task t gets objects of its own of the kinds ks.
Replace(t, ks) ==
    LET m == task[t].ptr["mm"]
        last == "mm" \in ks /\ cnt["mm"][m] = 1
    IN  /\ cnt' = [k \in Kinds |-> IF k \in ks
                      THEN [cnt[k] EXCEPT ![task[t].ptr[k]] = @ - 1, ![<<t, 1>>] = 1] ELSE cnt[k]]
        /\ areas' = IF last THEN [areas EXCEPT ![m] = <<>>] ELSE areas
        /\ committed' = IF last THEN committed - Accounted(areas[m], DOMAIN areas[m])
                                ELSE committed
        /\ task' = [task EXCEPT ![t].ptr = [k \in Kinds |-> IF k \in ks THEN <<t, 1>> ELSE @[k]]]
        /\ job' = [job EXCEPT ![t] = NoJob]
        /\ UNCHANGED <<counts, sent, bad>>

\* unshare_files, and the same for the handlers in de_thread: copied when shared.
unshare_files(t) == {k \in {"files", "sighand"} :
                        cnt[k][task[t].ptr[k]] > 1 /\ ~Replaced(t, k)}

\* begin_new_exec: a new mm, and files and handlers that are not shared.
Exec(t) ==
    /\ job[t].pc = "exec"
    /\ Replace(t, {"mm"} \cup unshare_files(t))

\* ksys_unshare: unshare_fs and unshare_fd copy what is shared at that moment ...
UnsharePrepare(t) ==
    LET new == {k \in {"fs", "files"} : cnt[k][task[t].ptr[k]] > 1 /\ ~Replaced(t, k)}
    IN  /\ Idle(t) /\ new # {}
        /\ job' = [job EXCEPT ![t].pc = "unshare", ![t].new = new]
        /\ UNCHANGED <<task, shared, counts, sent, bad>>

\* ... and the copies replace it later, when the others may have let go of it: then
\* the old object has no user any more and is freed.
UnshareCommit(t) == job[t].pc = "unshare" /\ Replace(t, job[t].new)

-----------------------------------------------------------------------------
\* Environment: a signal to all processes, and the end of the namespace's init.

\* A signal to all processes is pending for every task that is visible, and noted
\* by the forks that are entered in signal->multiprocess.
SendAll(kind) ==
    /\ sent = "none"
    /\ sent' = kind
    /\ task' = [t \in Tasks |->
                 [task[t] EXCEPT !.sig = IF task[t].st \in {"live", "new"} THEN kind ELSE @,
                                 !.early = task[t].st = "building"]]
    /\ job' = [t \in Tasks |-> [job[t] EXCEPT !.delayed =
                                 job[t].pc = "copy" /\ "THREAD" \notin job[t].flags]]
    /\ UNCHANGED <<shared, counts, bad>>

\* A signal that does not kill is handled on the way back to user mode.
Handled(t) ==
    /\ Idle(t) /\ task[t].sig = "plain"
    /\ task' = [task EXCEPT ![t].sig = "none"]
    /\ UNCHANGED <<job, shared, counts, sent, bad>>

\* zap_pid_ns_processes: disable_pid_allocation clears PIDNS_ADDING.
NamespaceEnds ==
    /\ sent = "none"
    /\ sent' = "end"
    /\ UNCHANGED <<task, job, shared, counts, bad>>

Next ==
    \/ \E t \in Tasks :
          \/ \E c \in Tasks, flags \in FlagSets : Begin(t, c, flags)
          \/ dup_task_struct(t)
          \/ copy_creds(t)
          \/ CopyOwn(t)
          \/ CopyCounted(t)
          \/ copy_signal(t)
          \/ copy_mm(t)
          \/ CheckLimits(t)
          \/ CopyFails(t)
          \/ Publish(t)
          \/ PostFork(t)
          \/ WakeNew(t)
          \/ VforkDone(t)
          \/ VforkKilled(t)
          \/ exit_mm_release(t)
          \/ exec_mm_release(t)
          \/ complete_vfork_done(t)
          \/ Exit(t)
          \/ Exec(t)
          \/ UnsharePrepare(t)
          \/ UnshareCommit(t)
          \/ Handled(t)
    \/ \E kind \in {"plain", "fatal"} : SendAll(kind)
    \/ NamespaceEnds

Spec == Init /\ [][Next]_vars

-----------------------------------------------------------------------------
\* Properties

TypeOK ==
    /\ task \in [Tasks -> [st : {"none", "building", "new", "live", "dead"},
                           ptr : [Kinds -> Objects \cup {None}],
                           held : SUBSET {CopySteps[i] : i \in DOMAIN CopySteps},
                           sig : {"none", "plain", "fatal"}, vfork : Tasks \cup {None},
                           pin : BOOLEAN, pars_set : BOOLEAN, early : BOOLEAN]]
    /\ cnt \in [Kinds -> [Objects -> 0 .. Cardinality(Tasks)]]
    /\ nr_threads = Cardinality({t \in Tasks : task[t].st \in {"new", "live"}})
    /\ nproc \in nr_threads .. Cardinality(Tasks)

\* Every reference count of a shared object is the number of tasks, finished or
\* being made, that hold a counted reference to it; a fork that failed holds
\* nothing, and nothing was released that was not held (the labels at the end of
\* copy_process, against any failing step and any concurrent exit or unshare).
RefsExact ==
    /\ TypeOK
    /\ \A k \in Kinds, o \in Objects :
          cnt[k][o] = Cardinality({t \in Tasks : k \in task[t].held /\ task[t].ptr[k] = o})
    /\ \A t \in Tasks : task[t].st = "dead" => task[t].held = {}
    /\ bad \subseteq {"completion", "child"}

\* The committed pages are those of the address spaces in use, whatever step of
\* dup_mmap failed and however far its loop got.
CommitExact ==
    committed = MapThenSumSet(
        LAMBDA o : IF cnt["mm"][o] > 0 THEN Accounted(areas[o], DOMAIN areas[o]) ELSE 0, Objects)

\* Two visible tasks of one process share their handlers and their memory, however
\* the flags were combined, and a task that shares handlers shares memory.
ThreadsShare ==
    \A t, u \in Tasks :
        task[t].st \in {"new", "live"} /\ task[u].st \in {"new", "live"} =>
            /\ task[t].ptr["signal"] = task[u].ptr["signal"] =>
                  task[t].ptr["sighand"] = task[u].ptr["sighand"]
            /\ task[t].ptr["sighand"] = task[u].ptr["sighand"] =>
                  task[t].ptr["mm"] = task[u].ptr["mm"]

\* The tasks of the user that are visible or past the test stay within the limit,
\* although several forks test it at the same time.
UserLimit ==
    Cardinality({t \in Tasks : task[t].st \in {"new", "live"}
                    \/ \E p \in Tasks : job[p].child = t /\ job[p].pc = "copy"
                                           /\ job[p].step > Place("limits")}) <= Nproc

\* A new process does not escape a signal that was sent to all processes while it
\* was being made, a fatal one stops the fork; and it starts without the HVF
\* parameters of its parent and shares what a thread must share.
ChildStartsRight ==
    ThreadsShare /\ \A t \in Tasks :
        /\ task[t].st = "new" /\ task[t].early =>
              /\ sent = "plain"
              /\ task[t].sig = "plain" \/ \E u \in Tasks \ {t} :
                    task[u].ptr["signal"] = task[t].ptr["signal"]
        /\ task[t].st = "live" /\ t \notin {Leader, Thread} => ~task[t].pars_set

\* A parent that waits for a vfork child whose end has not been signalled is still
\* the one the child will wake, and the completion on the parent's stack is never
\* touched after the parent has left, killed or not.
VforkSafe ==
    /\ \A t \in Tasks : job[t].pc = "wait" /\ job[t].comp = "armed" =>
          task[job[t].child].vfork = t /\ task[job[t].child].st = "live"
    /\ bad \cap {"completion", "child"} = {}
=============================================================================
