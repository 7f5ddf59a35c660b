----------------------------- MODULE MCPromote ------------------------------
(* Instances of Promote for TLC. *)
EXTENDS Promote, TLC

CONSTANTS main, w1, w2, b0, b1, b2, x, y, p1, p2, p3

\* Three worktrees on branches of their own, or a branch checked out twice.
OneEach == [w \in Worktrees |-> IF w = main THEN b0 ELSE IF w = w1 THEN b1 ELSE b2]
Heads == {OneEach, [OneEach EXCEPT ![w2] = b1]}

\* b1 tracks what the others ignore.
TrackedNames == [b \in Branches |-> IF b = b1 THEN {x} ELSE {}]
Symmetry == Permutations(Promoters)
=============================================================================
