---------------------------- MODULE PrunePromise ----------------------------
(***************************************************************************)
(* What `wt step prune` promises, however its removals overlap: it takes   *)
(* items one part at a time, the current worktree only when nothing failed *)
(* and after everything else, and at the end reports what it took and an   *)
(* error exactly when something failed.  Only the branch under a git that  *)
(* was killed in the middle may be gone and reported as kept.              *)
(***************************************************************************)
CONSTANTS Items, Current

VARIABLES taken, unsure, failed, last, reported, over

vars == <<taken, unsure, failed, last, reported, over>>

Init ==
    /\ taken = [i \in Items |-> {}]
    /\ unsure = {}
    /\ failed = FALSE
    /\ last = FALSE
    /\ reported = [i \in Items |-> {}]
    /\ over = FALSE

\* A worktree or a registration goes, or a branch, or both.
Take(i, parts) ==
    /\ ~over /\ taken[i] \cap parts = {}
    /\ last => i = Current
    /\ taken' = [taken EXCEPT ![i] = @ \cup parts]
    /\ UNCHANGED <<unsure, failed, last, reported, over>>

\* The current worktree's turn: all the others have had theirs.
BeginLast ==
    /\ ~over /\ ~last /\ ~failed
    /\ last' = TRUE
    /\ UNCHANGED <<taken, unsure, failed, reported, over>>

Fail ==
    /\ ~over
    /\ failed' = TRUE
    /\ UNCHANGED <<taken, unsure, last, reported, over>>

\* A killed git may have deleted the branch or not; the run fails in either case.
Killed(i) ==
    /\ ~over
    /\ last => i = Current
    /\ unsure' = unsure \cup {i}
    /\ taken' \in {taken, [taken EXCEPT ![i] = @ \cup {"branch"}]}
    /\ UNCHANGED <<failed, last, reported, over>>

\* What is certain is reported; nothing is reported that was not taken.
Finish ==
    /\ ~over
    /\ over' = TRUE /\ last' = FALSE
    /\ failed' \in {failed, TRUE}
    /\ unsure # {} => failed'
    /\ reported' = [i \in Items |-> IF i \in unsure THEN taken[i] \ {"branch"} ELSE taken[i]]
    /\ UNCHANGED <<taken, unsure>>

Next ==
    \/ \E i \in Items : Killed(i) \/ \E parts \in SUBSET {"tree", "branch"} : Take(i, parts)
    \/ BeginLast \/ Fail \/ Finish

Spec == Init /\ [][Next]_vars
=============================================================================
