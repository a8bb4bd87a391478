------------------------------ MODULE MCUclamp ------------------------------
(* Instances of Uclamp: a root group with a child and a grandchild, values   *)
(* 0, 1 and 2 in two buckets, of which 1 and 2 share one.                    *)
EXTENDS Uclamp, TLC

CONSTANTS r, g, h

MCGroups == {r, g, h}
MCParent == [x \in Groups \ {r} |-> IF x = g THEN r ELSE g]

Attr(class, reset, min, max) == [class |-> class, reset |-> reset, min |-> min, max |-> max]

\* A change to RT brings no clamps along.
MCAttrs ==
    {Attr("rt", FALSE, Absent, Absent), Attr("hvf", TRUE, -1, 1),
     Attr("keep", FALSE, 1, Absent), Attr("keep", FALSE, Absent, 0)}

Symmetry == Permutations(Tasks)
=============================================================================
