------------------------------ MODULE MCMerge -------------------------------
(* Instances of Merge for TLC. *)
EXTENDS Merge

CONSTANTS p1, p2, p3, q1, q2

Start(t, u, b, i, w) == [target |-> t, upstream |-> u, branch |-> b, index |-> i, work |-> w]

\* Nothing but files; two commits over staged and untracked files; commits that cancel out; one
\* commit on a target that went on; two commits on the target's upstream, ahead of it; a history of its
\* own, with a file deleted.
SomeStarts ==
    {Start(<<{}>>, <<>>, <<{}>>, {}, {p1}),
     Start(<<{}>>, <<>>, <<{}, {p1}, {p1, p2}>>, {p1, p2, p3}, {p1, p2, p3}),
     Start(<<{}>>, <<>>, <<{}, {p1}, {}>>, {}, {}),
     Start(<<{}, {p2}>>, <<>>, <<{}, {p1}>>, {p1}, {p1, p3}),
     Start(<<{}>>, <<{}, {p1}>>, <<{}, {p1}, {p1, p2}, {p1, p2, p3}>>, {p1, p2, p3}, {p1, p2, p3}),
     Start(<<{}>>, <<>>, <<{p1}, {p1, p2}>>, {p1, p2, p3}, {p2, p3})}
=============================================================================
