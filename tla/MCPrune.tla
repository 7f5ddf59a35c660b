------------------------------ MODULE MCPrune -------------------------------
(* Instances of Prune for TLC; no symmetry, which would hide liveness violations. *)
EXTENDS Prune, TLC

CONSTANTS i1, i2, i3, b1, b2, b3, w1, w2

Scenario(k2, k3, x, y, z, f) ==
    [kind |-> (i1 :> "linked" @@ i2 :> k2 @@ i3 :> k3),
     branch |-> (i1 :> x @@ i2 :> y @@ i3 :> z),
     foreground |-> f]

\* A branch each; a stale entry that names the branch of a live worktree; stale entries, one of
\* them detached.
SomeScenarios ==
    {Scenario("linked", "orphan", b1, b2, b3, f) : f \in BOOLEAN}
    \cup {Scenario("linked", "entry", b1, b2, b2, FALSE), Scenario("entry", "entry", b1, b2, None, FALSE)}
=============================================================================
