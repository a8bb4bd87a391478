------------------------------- MODULE DupMm --------------------------------
(***************************************************************************)
(* The copy of an address space by fork (dup_mm, mm_init and dup_mmap of   *)
(* kernel/fork.c) as functions from the parent's areas and the place of    *)
(* the first failure to what is left behind.  The maple tree of the new mm *)
(* starts as a copy of the parent's, with the parent's areas in it; the    *)
(* loop replaces them one by one.                                          *)
(***************************************************************************)
EXTENDS Integers, Sequences, FiniteSets

\* An area: copied at all (VM_DONTCOPY), accounted (VM_ACCOUNT), wiped
\* (VM_WIPEONFORK).  Every area is one page long.
Areas == [copy : BOOLEAN, account : BOOLEAN, wipe : BOOLEAN]

\* mm_init and dup_mm: the parts of a new mm in the order they are made, and the
\* parts that are released when part n fails.
MmParts == <<"mm", "pgd", "context", "cid", "rss">>
mm_init_undo(n) ==
    CASE n = 1 -> {}
      [] n = 2 -> {"mm"}
      [] n = 3 -> {"pgd", "mm"}
      [] n = 4 -> {"context", "pgd", "mm"}
      [] n = 5 -> {"cid", "context", "pgd", "mm"}

\* Why the loop may stop at an area, in the order of the loop.
Whys == {"clear", "signal", "charge", "alloc", "policy", "anon", "pages"}

\* Why an area of these flags may stop the loop.
May(area, why) ==
    CASE why = "clear" -> ~area.copy
      [] why = "charge" -> area.copy /\ area.account
      [] why \in {"anon", "pages"} -> area.copy /\ ~area.wipe
      [] OTHER -> area.copy

\* Where dup_mm fails: nowhere, at part n of mm_init, in __mt_dup, at an area, and
\* after the last one in arch_dup_mmap or for the module of the binary format.
NoFailure == [at |-> 0, why |-> "none"]
Failures(areas) ==
    {[at |-> n, why |-> "init"] : n \in DOMAIN MmParts}
    \cup {[at |-> 0, why |-> "tree"], [at |-> Len(areas) + 1, why |-> "end"]}
    \cup {f \in [at : DOMAIN areas, why : Whys] : May(areas[f.at], f.why)}

\* Whether the loop reached area i, and linked its copy.
Reached(f, i) == f.why \notin {"init", "tree"} /\ (f.at = 0 \/ i <= f.at)
Linked(areas, f, i) == Reached(f, i) /\ areas[i].copy /\ (i = f.at => f.why = "pages")

\* The entry that gets XA_ZERO_ENTRY: the area that failed, or the one after it
\* if the copy was linked already; 0 for none.
Marked(areas, f) ==
    IF f.why \notin Whys THEN 0
    ELSE IF f.why # "pages" THEN f.at
    ELSE IF f.at < Len(areas) THEN f.at + 1 ELSE 0

\* dup_mmap: the new tree.  What the loop did not reach is still the parent's.
dup_mmap(areas, f) ==
    IF f.why \in {"init", "tree"} THEN <<>>
    ELSE [i \in DOMAIN areas |->
            CASE i = Marked(areas, f) -> "zero"
              [] Linked(areas, f, i) -> "new"
              [] Reached(f, i) /\ ~areas[i].copy -> "none"
              [] OTHER -> "old"]

\* The pages charged by the loop ...
Charged(areas, f) ==
    Cardinality({i \in DOMAIN areas : Reached(f, i) /\ areas[i].copy /\ areas[i].account
                    /\ (i = f.at => f.why \notin {"signal", "charge"})})

\* Mutant: the charge of the area that failed is kept.
Unkept(areas, f) == 0

\* ... and given back at fail_nomem.
Uncharged(areas, f) ==
    IF f.why \in {"alloc", "policy", "anon"} /\ areas[f.at].account THEN 1 ELSE 0

\* exit_mmap: the areas it frees, and unaccounts, are those before the mark.
exit_mmap(tree) ==
    {i \in DOMAIN tree : tree[i] \in {"new", "old"} /\ \A j \in 1 .. i : tree[j] # "zero"}

Accounted(areas, is) == Cardinality({i \in is : areas[i].account})
=============================================================================
