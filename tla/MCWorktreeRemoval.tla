------------------------- MODULE MCWorktreeRemoval --------------------------
(* Instances of WorktreeRemoval for TLC. *)
EXTENDS WorktreeRemoval, TLC

CONSTANTS c1, c2, c3, r1, r2

Symmetry == Permutations(Removers) \cup Permutations(Commits \ {First})

\* A command on its own may be anything, among four changes; of two at a time each deletes the
\* branch, among two.
Idle == [force |-> FALSE, mode |-> "keep", path |-> "foreground"]
Alone ==
    {[asked |-> {r}, flags |-> [q \in Removers |-> IF q = r THEN f ELSE Idle], changes |-> 4] :
        r \in Removers, f \in Flags}
Racing ==
    {f \in Flags : /\ f.mode # "keep" /\ (f.force => f.path = "background")
                   /\ (f.mode = "force" => f.path = "background")}
AloneOrRacing == Alone \cup [asked : {Removers}, flags : [Removers -> Racing], changes : {2}]
=============================================================================
