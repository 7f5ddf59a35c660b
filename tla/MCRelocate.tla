----------------------------- MODULE MCRelocate -----------------------------
(* Instances of Relocate for TLC. *)
EXTENDS Relocate, TLC

CONSTANTS main, x1, x2, x3, root, p1, p2, p3

\* The default branch, and only that one, belongs to the main worktree.
Templates == {e \in [Branches -> Paths] : \A x \in Branches : e[x] = Root <=> x = Default}

\* Templates that tell branches apart.
DistinctTemplates == {e \in Templates : \A x, y \in Branches : e[x] = e[y] => x = y}

Symmetry == Permutations(Branches \ {Default}) \cup Permutations(Paths \ {Root})
=============================================================================
