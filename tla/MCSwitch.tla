------------------------------ MODULE MCSwitch ------------------------------
(* Instances of Switch for TLC. *)
EXTENDS Switch, TLC

CONSTANTS p1, p2, b1, b2, n1, n2, d1, d2, d3

Ask(k, b, n, path, c) == [kind |-> k, branch |-> b, pr |-> n, path |-> path, clobber |-> c]

PrefixedNames == n1 :> b2 @@ n2 :> None

\* The same branch asked for in every way, with and without --path and --clobber; and two pull
\* requests whose source branches have one name.
Asks == {Ask("plain", b1, None, None, TRUE), Ask("create", b1, None, None, TRUE),
         Ask("create", b1, n1, b2, TRUE), Ask("plain", b2, None, b1, FALSE),
         Ask("pr", b1, n1, None, TRUE), Ask("pr", b1, n2, None, FALSE)}
SomeRequests == [Procs -> Asks]

Empty == [x \in Places |-> None]
Start(f, r, bs) == [at |-> f @@ Empty, reg |-> r @@ Empty, branches |-> bs, track |-> [b \in Branches |-> None]]

\* Nothing there; a directory in the way and a backup name taken; a worktree of the branch
\* elsewhere; a stale registration at the path.
SomeStarts ==
    {Start(Empty, Empty, {}),
     Start(<<b1, 0>> :> d1 @@ <<b1, 1>> :> d2, Empty, {b1}),
     Start(<<b1, 0>> :> d1 @@ <<b1, 1>> :> d2, Empty, {}),
     Start(<<b2, 0>> :> d1, <<b2, 0>> :> b1, {b1}),
     Start(Empty, <<b1, 0>> :> b1, {b1, b2})}

Swap == Permutations({p1, p2})

\* The same pull request, twice.
AgainRequests == {[p \in Procs |-> Ask("pr", b1, n1, None, FALSE)]}
AgainStarts == {Start(Empty, Empty, {})}
=============================================================================
