---------------------------- MODULE MCApprovals -----------------------------
(* Instances of Approvals for TLC: project p was known by another key to v0.80.0, star is a
   hand-written pattern, r's identifier itself contains a star, cOld is c with an old variable name. *)
EXTENDS Approvals, TLC

CONSTANTS w1, w2, w3, p, r, pKey, pOld, star, c, cOld, d, flag, hint

Own == [x \in Projects |-> IF x = p THEN pKey ELSE star]
OwnAndOld == [x \in Projects |-> IF x = p THEN {pKey, pOld} ELSE {star}]
Renamed == [x \in {c, cOld, d} |-> IF x = cOld THEN c ELSE x]

Worktrees == {{{c, d}}, {{cOld}}}

Entry(k, C) == [NoEntries EXCEPT ![k] = C]
Files == {NoEntries, Entry(pOld, {cOld}), Entry(pKey, {d}), Entry(star, {d})}

Symmetry == Permutations(Procs)
=============================================================================
