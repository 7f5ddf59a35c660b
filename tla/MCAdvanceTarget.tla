-------------------------- MODULE MCAdvanceTarget ---------------------------
(* Instances of AdvanceTarget for TLC. *)
EXTENDS AdvanceTarget, TLC

CONSTANTS p1, p2, c0, c1, c2, c3, c4, c5, f, g, e1, e2

Symmetry ==
    Permutations(Pushers) \cup Permutations(Commits \ {Base}) \cup Permutations(Paths) \cup Permutations(Edits)
=============================================================================
