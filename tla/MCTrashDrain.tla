---------------------------- MODULE MCTrashDrain ----------------------------
(* An instance of TrashDrain for TLC: c1 sweeps at its end, s1 cannot be deleted.  No symmetry, *)
(* which would hide liveness violations.                                                        *)
EXTENDS TrashDrain

CONSTANTS c1, c2, d1, d2, e1, e2, s1
=============================================================================
