----------------------------- MODULE TaskPolicy -----------------------------
(***************************************************************************)
(* What the policy system calls promise: a task's policy and real-time     *)
(* priority are one register, and a request takes effect in one step, on   *)
(* the policy the task has at that step.  A request that would leave a     *)
(* real-time priority without a real-time policy, or the reverse, is       *)
(* refused.  Module Policy implements this with a check made before the    *)
(* locks are taken.                                                        *)
(***************************************************************************)
EXTENDS Naturals

CONSTANTS Tasks, Callers, Policies, RtPrios, Same, None

VARIABLES pol,   \* task -> <<policy, real-time priority>>
          req    \* caller -> the request it waits for, or None

Valid(v) == (v[1] = "fifo") <=> (v[2] # 0)

Result(r) == <<IF r.policy = Same THEN pol[r.p][1] ELSE r.policy, r.prio>>

Ask(c) ==
    /\ req[c] = None
    /\ \E p \in Tasks, policy \in Policies \cup {Same}, prio \in RtPrios,
          keep \in BOOLEAN :
          req' = [req EXCEPT ![c] = [p |-> p, policy |-> policy,
                                     prio |-> prio, keep |-> keep]]
    /\ UNCHANGED pol

Refuse(c) ==
    /\ req[c] # None
    /\ ~Valid(Result(req[c]))
    /\ req' = [req EXCEPT ![c] = None]
    /\ UNCHANGED pol

(* A request with the keep flag stores nothing.                            *)
Commit(c) ==
    /\ req[c] # None
    /\ IF req[c].keep THEN UNCHANGED pol
       ELSE /\ Valid(Result(req[c]))
            /\ pol' = [pol EXCEPT ![req[c].p] = Result(req[c])]
    /\ req' = [req EXCEPT ![c] = None]

(* A new task starts as a copy of its parent or with the defaults.         *)
Fork(p, q) ==
    /\ pol' \in {[pol EXCEPT ![q] = pol[p]], [pol EXCEPT ![q] = <<"normal", 0>>]}
    /\ UNCHANGED req

Init == /\ pol = [p \in Tasks |-> <<"normal", 0>>]
        /\ req = [c \in Callers |-> None]

Next == \/ \E c \in Callers : Ask(c) \/ Refuse(c) \/ Commit(c)
        \/ \E p, q \in Tasks : Fork(p, q)

Spec == Init /\ [][Next]_<<pol, req>>
=============================================================================
