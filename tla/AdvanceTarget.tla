--------------------------- MODULE AdvanceTarget ----------------------------
(***************************************************************************)
(* wt step push and the landing step of wt merge: the target branch is     *)
(* moved from the worktree of another branch, and the worktree that has    *)
(* the target checked out is brought along.                                *)
(*                                                                         *)
(* The branch moves by a compare-and-swap; the worktree follows by a       *)
(* two-tree merge in a step of its own, and a refused merge is answered by *)
(* a second compare-and-swap back.  Other pushes, and the user who works   *)
(* in the target worktree, may act between any two of these.               *)
(*                                                                         *)
(* src/src/commands/worktree/push.rs                                       *)
(***************************************************************************)
EXTENDS Naturals, FiniteSets

CONSTANTS
    Pushers,   \* wt step push or wt merge processes, each with a source worktree
    Commits,
    Base,      \* the target's first tip
    Paths,     \* tracked paths
    Edits,     \* contents the user writes in the target worktree
    None,
    MaxUser    \* bound on the user's steps

ASSUME PushAssumption ==
    /\ Base \in Commits
    /\ None \notin Commits /\ Edits \cap Commits = {}
    /\ MaxUser \in Nat

VARIABLES
    hasWorktree,  \* the target is checked out somewhere
    tip,          \* refs/heads/<target>
    anc,          \* the ancestors of each commit, itself included; none of an unmade one
    tree,         \* the content of each path in each commit: the commit or edit that wrote it
    index,        \* the index of the target worktree
    work,         \* its files
    users,        \* the user's steps so far
    pc,           \* where each push is, or how it ended
    head,         \* the source's HEAD
    old,          \* target_tip, read when the push was prepared
    new           \* what the target is to become: HEAD or a merge commit

source == <<head, old, new>>
repository == <<tip, anc, tree>>
worktree == <<index, work>>
vars == <<hasWorktree, repository, worktree, users, pc, source>>

Content == Commits \cup Edits
Made == {c \in Commits : anc[c] # {}}
Changed(a, b) == {f \in Paths : tree[a][f] # tree[b][f]}
Dirty == {f \in Paths : index[f] # tree[tip][f] \/ work[f] # index[f]}
Outcomes == {"landed", "moved", "rolledBack", "unsynced", "refused", "upToDate", "killed"}

Init ==
    /\ hasWorktree \in BOOLEAN
    /\ tip = Base
    /\ anc = [c \in Commits |-> IF c = Base THEN {Base} ELSE {}]
    /\ tree = [c \in Commits |-> [f \in Paths |-> Base]]
    /\ index = [f \in Paths |-> Base] /\ work = [f \in Paths |-> Base]
    /\ users = 0
    /\ pc = [p \in Pushers |-> "start"]
    /\ head = [p \in Pushers |-> None] /\ old = [p \in Pushers |-> None]
    /\ new = [p \in Pushers |-> None]

Goto(p, l) == pc' = [pc EXCEPT ![p] = l]
Step(p, from, to) == pc[p] = from /\ Goto(p, to)

\* c becomes a commit with these parents' histories and this tree.
Make(c, history, content) ==
    /\ anc[c] = {}
    /\ anc' = [anc EXCEPT ![c] = history \cup {c}]
    /\ tree' = [tree EXCEPT ![c] = content]

-----------------------------------------------------------------------------
(* The user of the target worktree, and the source branches *)

UserStep == hasWorktree /\ users < MaxUser /\ users' = users + 1

Edit(f) ==
    /\ UserStep
    /\ \E e \in Edits :
        /\ \A g \in Paths : work[g] # e /\ index[g] # e /\ \A c \in Made : tree[c][g] # e
        /\ work' = [work EXCEPT ![f] = e]
    /\ UNCHANGED <<hasWorktree, repository, index, pc, source>>

Add(f) ==
    /\ UserStep /\ index[f] # work[f]
    /\ index' = [index EXCEPT ![f] = work[f]]
    /\ UNCHANGED <<hasWorktree, repository, work, pc, source>>

\* git commit records the whole index on top of whatever the branch is now.
UserCommit ==
    /\ UserStep
    /\ \E f \in Paths : index[f] \in Edits /\ index[f] # tree[tip][f]
    /\ \E c \in Commits : Make(c, anc[tip], index) /\ tip' = c
    /\ UNCHANGED <<hasWorktree, worktree, pc, source>>

\* The source branch: a commit on top of the target, or any commit there is.
Commit(p) ==
    /\ Step(p, "start", "prepare")
    /\ \/ \E c \in Commits, f \in Paths :
            /\ Make(c, anc[tip], [tree[tip] EXCEPT ![f] = c])
            /\ head' = [head EXCEPT ![p] = c]
       \/ \E c \in Made : head' = [head EXCEPT ![p] = c] /\ UNCHANGED <<anc, tree>>
    /\ UNCHANGED <<hasWorktree, tip, worktree, users, old, new>>

Kill(p) ==
    /\ pc[p] \notin Outcomes \cup {"start"}
    /\ Goto(p, "killed")
    /\ UNCHANGED <<hasWorktree, repository, worktree, users, source>>

-----------------------------------------------------------------------------
(* MergeContext::prepare, handle_push, handle_no_ff_merge *)

\* The tip is read once; it must be an ancestor of HEAD.
Prepare(p) ==
    /\ pc[p] = "prepare"
    /\ old' = [old EXCEPT ![p] = tip] /\ new' = [new EXCEPT ![p] = head[p]]
    /\ Goto(p, IF tip \notin anc[head[p]] THEN "refused"
               ELSE IF tip = head[p] THEN "upToDate" ELSE "conflicts")
    /\ UNCHANGED <<hasWorktree, repository, worktree, users, head>>

\* ensure_no_target_conflicts: uncommitted changes must not overlap the push range.
CheckConflicts(p) ==
    /\ pc[p] = "conflicts"
    /\ Goto(p, IF hasWorktree /\ Dirty \cap Changed(old[p], new[p]) # {} THEN "refused" ELSE "advance")
    /\ UNCHANGED <<hasWorktree, repository, worktree, users, source>>

\* handle_no_ff_merge: git commit-tree with HEAD's tree, the target and HEAD as parents.
MakeMergeCommit(p) ==
    /\ pc[p] = "advance" /\ new[p] = head[p]
    /\ \E c \in Commits :
        /\ Make(c, anc[old[p]] \cup anc[head[p]], tree[head[p]])
        /\ new' = [new EXCEPT ![p] = c]
    /\ UNCHANGED <<hasWorktree, tip, worktree, users, pc, head, old>>

-----------------------------------------------------------------------------
(* advance_target *)

\* Wrong: git update-ref <ref> <new>, with no expected value.
AdvanceBlindly(p) ==
    /\ pc[p] = "advance"
    /\ tip' = new[p] /\ Goto(p, IF hasWorktree THEN "refresh" ELSE "landed")
    /\ UNCHANGED <<hasWorktree, anc, tree, worktree, users, source>>

\* git update-ref <ref> <new> <old>
Advance(p) ==
    /\ pc[p] = "advance"
    /\ IF tip = old[p]
       THEN tip' = new[p] /\ Goto(p, IF hasWorktree THEN "refresh" ELSE "landed")
       ELSE UNCHANGED tip /\ Goto(p, "refused")
    /\ UNCHANGED <<hasWorktree, anc, tree, worktree, users, source>>

\* git read-tree -m -u <old> <new>: a path the two trees share keeps its index entry; one the index
\* already has in its new form too; one that differs must be clean and at its old form.
Mergeable(p, f) ==
    \/ index[f] = tree[new[p]][f]
    \/ index[f] = tree[old[p]][f] /\ work[f] = index[f]
Updated(p) == {f \in Changed(old[p], new[p]) : index[f] # tree[new[p]][f]}

\* Wrong: git reset --hard.
SyncByReset(p) ==
    /\ Step(p, "refresh", "verify")
    /\ index' = tree[new[p]] /\ work' = tree[new[p]]
    /\ UNCHANGED <<hasWorktree, repository, users, source>>

Sync(p) ==
    /\ Step(p, "refresh", "verify")
    /\ \A f \in Changed(old[p], new[p]) : Mergeable(p, f)
    /\ index' = [f \in Paths |-> IF f \in Updated(p) THEN tree[new[p]][f] ELSE index[f]]
    /\ work' = [f \in Paths |-> IF f \in Updated(p) THEN tree[new[p]][f] ELSE work[f]]
    /\ UNCHANGED <<hasWorktree, repository, users, source>>

\* A conflicting change, or a locked index.
SyncRefuses(p) ==
    /\ Step(p, "refresh", "rollback")
    /\ UNCHANGED <<hasWorktree, repository, worktree, users, source>>

\* Wrong: trusts the compare-and-swap.
LandUnverified(p) ==
    /\ Step(p, "verify", "landed")
    /\ UNCHANGED <<hasWorktree, repository, worktree, users, source>>

\* The tip is read again; a tip that moved is a warning, not an error.
Verify(p) ==
    /\ Step(p, "verify", IF tip = new[p] THEN "landed" ELSE "moved")
    /\ UNCHANGED <<hasWorktree, repository, worktree, users, source>>

\* Wrong: git update-ref <ref> <old>, with no expected value.
RollBackBlindly(p) ==
    /\ Step(p, "rollback", "rolledBack")
    /\ tip' = old[p]
    /\ UNCHANGED <<hasWorktree, anc, tree, worktree, users, source>>

\* git update-ref <ref> <old> <new>
RollBack(p) ==
    /\ pc[p] = "rollback"
    /\ IF tip = new[p]
       THEN tip' = old[p] /\ Goto(p, "rolledBack")
       ELSE UNCHANGED tip /\ Goto(p, "unsynced")
    /\ UNCHANGED <<hasWorktree, anc, tree, worktree, users, source>>

Next ==
    \/ UserCommit \/ \E f \in Paths : Edit(f) \/ Add(f)
    \/ \E p \in Pushers :
        \/ Commit(p) \/ Kill(p) \/ Prepare(p) \/ CheckConflicts(p) \/ MakeMergeCommit(p)
        \/ Advance(p) \/ Sync(p) \/ SyncRefuses(p) \/ Verify(p) \/ RollBack(p)

Spec == Init /\ [][Next]_vars

-----------------------------------------------------------------------------
(* Properties *)

Labels == {"start", "prepare", "conflicts", "advance", "refresh", "verify", "rollback"} \cup Outcomes

\* Every variable keeps its type, and the target is at a commit that was made.
TypeOK ==
    /\ hasWorktree \in BOOLEAN
    /\ tip \in Made
    /\ anc \in [Commits -> SUBSET Commits]
    /\ tree \in [Commits -> [Paths -> Content]]
    /\ index \in [Paths -> Content] /\ work \in [Paths -> Content]
    /\ users \in 0..MaxUser
    /\ pc \in [Pushers -> Labels]
    /\ head \in [Pushers -> Commits \cup {None}] /\ old \in [Pushers -> Commits \cup {None}]
    /\ new \in [Pushers -> Commits \cup {None}]

\* A push that reported success, cleanly or with a warning, is in the target's history from then
\* on: "the push range is in the tip's ancestry either way".
LandedStays == \A p \in Pushers : pc[p] \in {"landed", "moved"} => new[p] \in anc[tip]

\* The target only moves forward, except that a push takes back its own advance, on which nothing
\* was built: no rollback and no advance drops a commit of the user or of another push.
OnlyOwnAdvanceUndone ==
    [][tip \notin anc'[tip'] =>
        \E p \in Pushers : pc[p] = "rollback" /\ tip = new[p] /\ tip' = old[p]]_vars

\* No step but the user's own touches content the user has not committed.
UncommittedKept ==
    [][\A f \in Paths :
        /\ work[f] \in Edits
        /\ \A c \in Made : tree[c][f] # work[f]
        => work'[f] = work[f] \/ work'[f] \in Edits]_vars

\* "Re-read the ref so that interleaving surfaces instead of being reported as a clean merge":
\* when every push is over, an index that disagrees with the tip other than by the user's staging
\* was reported by some push, or some push was killed.
DesyncReported ==
    (hasWorktree /\ \A p \in Pushers : pc[p] \in Outcomes \cup {"start"})
        => \/ \A f \in Paths : index[f] = tree[tip][f] \/ index[f] \in Edits
           \/ \E p \in Pushers : pc[p] \in {"moved", "unsynced", "killed"}
=============================================================================
