-------------------------- MODULE WorktreeRemoval ---------------------------
(***************************************************************************)
(* Removal of one linked worktree and of its branch by concurrent wt       *)
(* processes, while its user, hooks and other git processes keep working.  *)
(*                                                                         *)
(* A remover plans, runs pre-remove hooks, passes the gates of             *)
(* stage_worktree_removal in their order, renames the worktree into the    *)
(* trash (or falls back to `git worktree remove`, at once or in a detached *)
(* child), and then deletes the branch if it may.  Every gate is a read,   *)
(* and the world can change between any two reads.                         *)
(*                                                                         *)
(* src/src/commands/repository_ext.rs   prepare_worktree_removal           *)
(* src/src/git/remove.rs                stage_worktree_removal,            *)
(*                                      delete_branch_if_safe              *)
(* src/src/output/handlers.rs           the removal paths                  *)
(***************************************************************************)
EXTENDS Naturals, FiniteSets

CONSTANTS
    Removers,   \* wt processes asked to remove the worktree
    Commits,    \* commits the branch can point at
    First,      \* the branch's first tip
    None,       \* no such ref, no outcome yet
    Fsmonitor,  \* core.fsmonitor=true: a daemon may answer git status
    Submodules, \* the worktree has initialized submodules
    Requests    \* who is asked, with which flags, and how many steps the others may take meanwhile

Modes == {"keep", "safe", "force"}      \* BranchDeletionMode

\* "sync" is the background path of a caller that wants the fallback done before it reports;
\* "branchOnly" is where a plan for an entry without a directory ends up.
Paths == {"foreground", "background", "sync", "branchOnly"}
Flags == [force : BOOLEAN, mode : Modes, path : Paths \ {"branchOnly"}]

ASSUME RemovalAssumption ==
    /\ First \in Commits
    /\ None \notin Commits
    /\ Fsmonitor \in BOOLEAN /\ Submodules \in BOOLEAN
    /\ Requests \subseteq [asked : SUBSET Removers, flags : [Removers -> Flags], changes : Nat]

VARIABLES
    dir,        \* what is at the worktree's path
    registered, \* <common>/worktrees/<id> exists
    locked,     \* its `locked` file exists
    dirty,      \* git status of the files at the path would list something
    stale,      \* the fsmonitor daemon has not noticed the last write
    tip,        \* refs/heads/<branch>
    used,       \* commits that exist
    merged,     \* commits whose content the target branch has
    sibling,    \* another live worktree has the branch checked out
    changes,    \* steps left to users, hooks and other processes
    pc,         \* where each remover is
    opt,        \* its flags: --force, what becomes of the branch, the path it takes
    snap,       \* the refs it captured: the branch's tip and the integrated commits
    expected,   \* the tip handed to the detached child
    late,       \* history: facts that arose after the remover's last check of them
    missed,     \* history: facts a remover acted against and had not checked
    fate        \* the branch outcome a remover reports

world == <<dir, registered, locked, dirty, stale, tip, used, merged, sibling>>
local == <<pc, opt, snap, expected>>
history == <<late, missed>>
vars == <<world, changes, local, history, fate>>

Facts == {"work", "lock", "foreign", "checkout"}
Snapshots == [tip : Commits \cup {None}, merged : SUBSET Commits]
Outcomes == {None, "NotDeleted", "RetainedCheckedOut", "RetainedRaced", "Integrated", "ForceDeleted"}
NoSnapshot == [tip |-> None, merged |-> {}]

\* The states in which the last check of a fact is behind a remover and the act it guards is not.
Checked(f) ==
    CASE f = "foreign"  -> {"lockfile", "scan", "stop", "rescan", "rename", "unregister"}
      [] f = "lock"     -> {"scan", "stop", "rescan", "rename", "unregister"}
      [] f = "work"     -> {"rename", "gitForce"} \cup (IF Fsmonitor THEN {} ELSE {"stop"})
      [] f = "checkout" -> {"cas", "classify"}

\* branch_checkout_requires_retention: a registration counts unless git calls it prunable.
Prunable == dir = "absent" /\ ~locked
CheckedOut == sibling \/ (registered /\ ~Prunable)

\* git status, answered by the daemon when there is one.
StatusClean == ~dirty \/ stale

Init ==
    /\ dir = "ours" /\ registered = TRUE /\ locked \in BOOLEAN /\ dirty = FALSE /\ stale = FALSE
    /\ tip = First /\ used = {First} /\ merged \in SUBSET {First} /\ sibling = FALSE
    /\ \E q \in Requests :
        /\ changes = q.changes
        /\ pc = [r \in Removers |-> IF r \in q.asked THEN "plan" ELSE "done"]
        /\ opt = q.flags
    /\ snap = [r \in Removers |-> NoSnapshot]
    /\ expected = [r \in Removers |-> None]
    /\ late = [r \in Removers |-> {}]
    /\ missed = {}
    /\ fate = [r \in Removers |-> None]

Goto(r, l) == pc' = [pc EXCEPT ![r] = l]
Step(r, from, to) == pc[r] = from /\ Goto(r, to)

-----------------------------------------------------------------------------
(* Everybody else *)

\* A fact came about now: whoever has already checked it cannot know.
Arises(f) == late' = [r \in Removers |-> IF pc[r] \in Checked(f) THEN late[r] \cup {f} ELSE late[r]]

Change ==
    /\ changes > 0 /\ changes' = changes - 1
    /\ UNCHANGED <<local, missed, fate>>

Write ==
    /\ Change /\ dir = "ours"
    /\ dirty' = TRUE /\ stale' \in {FALSE, Fsmonitor}
    /\ Arises("work")
    /\ UNCHANGED <<dir, registered, locked, tip, used, merged, sibling>>

Commit ==
    /\ Change /\ dir = "ours" /\ dirty /\ registered
    /\ \E c \in Commits \ used : tip' = c /\ used' = used \cup {c}
    /\ dirty' = FALSE /\ stale' = FALSE
    /\ UNCHANGED <<dir, registered, locked, merged, sibling, late>>

MoveBranch ==
    /\ Change /\ tip # None
    /\ \E c \in Commits \ used : tip' = c /\ used' = used \cup {c}
    /\ UNCHANGED <<dir, registered, locked, dirty, stale, merged, sibling, late>>

DropBranch ==
    /\ Change /\ tip # None /\ ~sibling /\ ~registered
    /\ tip' = None
    /\ UNCHANGED <<dir, registered, locked, dirty, stale, used, merged, sibling, late>>

MergeBranch ==
    /\ Change /\ tip # None
    /\ merged' = merged \cup {tip}
    /\ UNCHANGED <<dir, registered, locked, dirty, stale, tip, used, sibling, late>>

LockWorktree ==
    /\ Change /\ registered /\ ~locked
    /\ locked' = TRUE
    /\ late' = [r \in Removers |->
                    late[r] \cup {f \in {"lock", "checkout"} : pc[r] \in Checked(f)}]
    /\ UNCHANGED <<dir, registered, dirty, stale, tip, used, merged, sibling>>

UnlockWorktree ==
    /\ Change /\ locked
    /\ locked' = FALSE
    /\ UNCHANGED <<dir, registered, dirty, stale, tip, used, merged, sibling, late>>

\* Another repository comes to sit at the path.
ReplaceDirectory ==
    /\ Change /\ dir # "foreign"
    /\ dir' = "foreign" /\ dirty' = FALSE /\ stale' = FALSE
    /\ late' = [r \in Removers |->
                    late[r] \cup {f \in {"foreign", "checkout"} : pc[r] \in Checked(f)}]
    /\ UNCHANGED <<registered, locked, tip, used, merged, sibling>>

CheckOutElsewhere ==
    /\ Change /\ tip # None /\ ~sibling
    /\ sibling' = TRUE
    /\ Arises("checkout")
    /\ UNCHANGED <<dir, registered, locked, dirty, stale, tip, used, merged>>

Environment ==
    \/ Write \/ Commit \/ MoveBranch \/ DropBranch \/ MergeBranch
    \/ LockWorktree \/ UnlockWorktree \/ ReplaceDirectory \/ CheckOutElsewhere

-----------------------------------------------------------------------------
(* Plan and gates *)

Report(r, o) == fate' = [fate EXCEPT ![r] = o]

\* Any git command may fail and any process may be killed: what is done stays done.
Stop(r) ==
    /\ pc[r] \notin {"done", "stopped"}
    /\ Goto(r, "stopped")
    /\ UNCHANGED <<world, changes, opt, snap, expected, history, fate>>

\* prepare_worktree_removal: refuses a lock, a foreign directory and uncommitted work; a branch
\* with a live sibling checkout, or with no commit, is kept.
PlanWorktree(r) ==
    /\ Step(r, "plan", "hooks")
    /\ registered /\ ~locked /\ dir = "ours"
    /\ opt[r].force \/ StatusClean
    /\ opt' = [opt EXCEPT ![r].mode = IF sibling \/ tip = None THEN "keep" ELSE @]
    /\ UNCHANGED <<world, changes, snap, expected, history, fate>>

\* Its fallback for an entry without a directory and for a branch without an entry; a branch not
\* integrated at planning time is not tried again.
PlanBranchOnly(r) ==
    /\ pc[r] = "plan"
    /\ IF registered THEN Prunable ELSE ~sibling /\ tip # None
    /\ Goto(r, IF registered THEN "prune" ELSE "capture")
    /\ LET kept == sibling \/ tip = None \/ (opt[r].mode = "safe" /\ tip \notin merged)
       IN  /\ registered \/ ~(kept \/ opt[r].mode = "keep")
           /\ opt' = [opt EXCEPT ![r] = [force |-> @.force, path |-> "branchOnly",
                                         mode |-> IF kept THEN "keep" ELSE @.mode]]
    /\ UNCHANGED <<world, changes, snap, expected, history, fate>>

\* The pre-remove hooks are over; foreground removal captures the refs before it stages.
AfterHooks(r) ==
    /\ Step(r, "hooks", "owner")
    /\ snap' = [snap EXCEPT ![r] = IF opt[r].path = "foreground" THEN [tip |-> tip, merged |-> merged] ELSE @]
    /\ UNCHANGED <<world, changes, opt, expected, history, fate>>

\* Wrong: --force also waives who owns the directory.
CheckOwnerUnlessForced(r) ==
    /\ Step(r, "owner", "lockfile")
    /\ opt[r].force \/ dir = "ours"
    /\ UNCHANGED <<world, changes, opt, snap, expected, history, fate>>

\* ensure_holds_this_worktree, from the directory's .git entry, also under --force.
CheckOwner(r) ==
    /\ Step(r, "owner", "lockfile")
    /\ dir = "ours"
    /\ UNCHANGED <<world, changes, opt, snap, expected, history, fate>>

\* Wrong: answers from the worktree list that planning cached.
CheckLockAsPlanned(r) ==
    /\ Step(r, "lockfile", "scan")
    /\ UNCHANGED <<world, changes, opt, snap, expected, history, fate>>

\* lock_reason, from the file, also under --force.
CheckLock(r) ==
    /\ Step(r, "lockfile", "scan")
    /\ ~locked
    /\ UNCHANGED <<world, changes, opt, snap, expected, history, fate>>

\* ensure_clean; --force only lists what it discards.
CheckClean(r) ==
    /\ Step(r, "scan", "stop")
    /\ opt[r].force \/ StatusClean
    /\ UNCHANGED <<world, changes, opt, snap, expected, history, fate>>

\* stop_fsmonitor_daemon, and then the scan without it when there was one.
StopDaemon(r) ==
    /\ Step(r, "stop", IF Fsmonitor /\ ~opt[r].force THEN "rescan" ELSE "rename")
    /\ stale' = FALSE
    /\ UNCHANGED <<dir, registered, locked, dirty, tip, used, merged, sibling>>
    /\ UNCHANGED <<changes, opt, snap, expected, history, fate>>

\* Wrong: asks the daemon again, which has not seen the last write.
RescanSkipped(r) ==
    /\ Step(r, "rescan", "rename")
    /\ UNCHANGED <<world, changes, opt, snap, expected, history, fate>>

Rescan(r) ==
    /\ Step(r, "rescan", "rename")
    /\ ~dirty
    /\ UNCHANGED <<world, changes, opt, snap, expected, history, fate>>

-----------------------------------------------------------------------------
(* Removal *)

\* What is lost with the directory, less what could not be known.
LostWithDirectory(r) ==
    {f \in {"work", "lock", "foreign"} \ late[r] :
        \/ f = "work" /\ dirty /\ ~opt[r].force
        \/ f = "lock" /\ locked /\ dir = "ours"
        \/ f = "foreign" /\ dir = "foreign"}

LoseDirectory(r) ==
    /\ dir' = "absent" /\ dirty' = FALSE /\ stale' = FALSE
    /\ missed' = missed \cup ({r} \X LostWithDirectory(r))

AfterRemoval(r) ==
    IF opt[r].mode = "keep" THEN "done"
    ELSE IF opt[r].path = "foreground" THEN "integrate" ELSE "capture"

\* rename_into_trash moves whatever is at the path.
Rename(r) ==
    /\ Step(r, "rename", "prune")
    /\ dir # "absent"
    /\ LoseDirectory(r)
    /\ UNCHANGED <<registered, locked, tip, used, merged, sibling>>
    /\ UNCHANGED <<changes, opt, snap, expected, late, fate>>

\* prune_worktree_entry reads the lock and the .git entry, then deletes the registration.
PruneEntry(r) ==
    /\ Step(r, "prune", "unregister")
    /\ registered /\ Prunable
    /\ late' = [late EXCEPT ![r] = @ \ {"lock", "foreign"}]
    /\ UNCHANGED <<world, changes, opt, snap, expected, missed, fate>>

ActedAgainst == {f \in {"lock", "foreign"} : IF f = "lock" THEN locked ELSE dir # "absent"}

Unregister(r) ==
    /\ Step(r, "unregister", AfterRemoval(r))
    /\ registered' = FALSE /\ locked' = FALSE
    /\ missed' = missed \cup ({r} \X (ActedAgainst \ late[r]))
    /\ UNCHANGED <<dir, dirty, stale, tip, used, merged, sibling>>
    /\ UNCHANGED <<changes, opt, snap, expected, late, fate>>

\* After a rename a failed prune is only logged.
PruneFails(r) ==
    /\ pc[r] \in {"prune", "unregister"} /\ opt[r].path # "branchOnly"
    /\ Goto(r, AfterRemoval(r))
    /\ UNCHANGED <<world, changes, opt, snap, expected, history, fate>>

\* EXDEV, permissions, a file in use, or nothing there.
RenameFails(r) ==
    /\ pc[r] = "rename"
    /\ Goto(r, IF opt[r].path \in {"foreground", "sync"}
               THEN IF Submodules /\ ~opt[r].force THEN "subscan" ELSE "gitRemove"
               ELSE IF opt[r].mode = "safe" THEN "tail" ELSE "childRemove")
    /\ UNCHANGED <<world, changes, opt, snap, expected, history, fate>>

\* remove_worktree rescans before it adds --force for the submodules.  The daemon was stopped, so
\* this status is a full scan.
SubmoduleScan(r) ==
    /\ Step(r, "subscan", "gitForce")
    /\ dir = "ours" /\ ~dirty
    /\ late' = [late EXCEPT ![r] = @ \ {"work"}]
    /\ UNCHANGED <<world, changes, opt, snap, expected, missed, fate>>

\* git worktree remove: never a locked or foreign worktree, a dirty one only with --force.
GitWorktreeRemove(r, forced) ==
    /\ registered /\ ~locked /\ dir # "foreign"
    /\ forced \/ (~dirty /\ ~Submodules)
    /\ registered' = FALSE
    /\ LoseDirectory(r)
    /\ UNCHANGED <<locked, tip, used, merged, sibling>>
    /\ UNCHANGED <<changes, opt, snap, expected, late, fate>>

RemoveNow(r) ==
    /\ \/ pc[r] = "gitRemove" /\ GitWorktreeRemove(r, opt[r].force)
       \/ pc[r] = "gitForce" /\ GitWorktreeRemove(r, TRUE)
    /\ dir = "ours"
    /\ Goto(r, AfterRemoval(r))

-----------------------------------------------------------------------------
(* The detached fallback *)

\* build_branch_delete_tail: only an integrated branch gets a deletion child.
BuildTail(r) ==
    /\ pc[r] = "tail"
    /\ IF tip # None /\ tip \in merged
       THEN /\ expected' = [expected EXCEPT ![r] = tip]
            /\ Goto(r, "target")
            /\ UNCHANGED <<opt, fate>>
       ELSE /\ opt' = [opt EXCEPT ![r].mode = "keep"]
            /\ Report(r, "NotDeleted")
            /\ Goto(r, "childRemove")
            /\ UNCHANGED expected
    /\ UNCHANGED <<world, changes, snap, history>>

\* The target is resolved to a commit after the integration check.
ResolveTarget(r) ==
    /\ Step(r, "target", "childRemove")
    /\ snap' = [snap EXCEPT ![r].merged = merged]
    /\ UNCHANGED <<world, changes, opt, expected, history, fate>>

\* git worktree remove [--force] && wt _delete-branch-if-safe
ChildRemove(r) ==
    /\ Step(r, "childRemove", IF opt[r].mode = "keep" THEN "done" ELSE "childCapture")
    /\ GitWorktreeRemove(r, opt[r].force)

\* delete_branch_from_detached_fallback: a tip other than the expected one is retained.
ChildCapture(r) ==
    /\ pc[r] = "childCapture"
    /\ snap' = [snap EXCEPT ![r].tip = tip]
    /\ IF opt[r].mode = "safe" /\ tip # expected[r]
       THEN Report(r, "RetainedRaced") /\ Goto(r, "done")
       ELSE UNCHANGED fate /\ Goto(r, "integrate")
    /\ UNCHANGED <<world, changes, opt, expected, history>>

-----------------------------------------------------------------------------
(* Branch deletion *)

\* execute_branch_deletion captures fresh refs.
Capture(r) ==
    /\ Step(r, "capture", "integrate")
    /\ snap' = [snap EXCEPT ![r] = [tip |-> tip, merged |-> merged]]
    /\ UNCHANGED <<world, changes, opt, expected, history, fate>>

DeleteBranch(r, outcome) ==
    /\ tip' = None
    /\ missed' = missed \cup ({r} \X ({f \in {"checkout"} : CheckedOut} \ late[r]))
    /\ Report(r, outcome)
    /\ Goto(r, "done")
    /\ UNCHANGED <<dir, registered, locked, dirty, stale, used, merged, sibling>>
    /\ UNCHANGED <<changes, opt, snap, expected, late>>

\* git branch -D refuses a branch any entry names.
ForceDelete(r) ==
    /\ pc[r] = "integrate" /\ opt[r].mode = "force"
    /\ tip # None /\ ~sibling /\ ~registered
    /\ DeleteBranch(r, "ForceDeleted")

\* integration_reason against the captured refs.
Integrate(r) ==
    /\ pc[r] = "integrate" /\ opt[r].mode = "safe" /\ snap[r].tip # None
    /\ IF snap[r].tip \in snap[r].merged
       THEN Goto(r, "topology") /\ UNCHANGED fate
       ELSE Goto(r, "done") /\ Report(r, "NotDeleted")
    /\ UNCHANGED <<world, changes, opt, snap, expected, history>>

\* Wrong: trusts the plan, which found no sibling.
ReadTopologyAsPlanned(r) ==
    /\ Step(r, "topology", "cas")
    /\ UNCHANGED <<world, changes, opt, snap, expected, history, fate>>

\* fresh_branch_checkout
ReadTopology(r) ==
    /\ pc[r] = "topology"
    /\ IF CheckedOut
       THEN Goto(r, "done") /\ Report(r, "RetainedCheckedOut")
       ELSE Goto(r, "cas") /\ UNCHANGED fate
    /\ UNCHANGED <<world, changes, opt, snap, expected, history>>

\* Wrong: git update-ref -d <ref>, with no expected value.
DeleteWithoutComparing(r) ==
    /\ pc[r] = "cas" /\ tip # None
    /\ DeleteBranch(r, "Integrated")

\* git update-ref -d <ref> <captured tip>
CompareAndDelete(r) ==
    /\ pc[r] = "cas" /\ tip = snap[r].tip
    /\ DeleteBranch(r, "Integrated")

\* update-ref failed: over a moved tip, or over a lock or an error.
CompareFails(r) ==
    /\ Step(r, "cas", "classify")
    /\ UNCHANGED <<world, changes, opt, snap, expected, history, fate>>

\* show-ref: only a different live tip is a race; anything else is the original error.
Classify(r) ==
    /\ Step(r, "classify", "done")
    /\ tip # None /\ tip # snap[r].tip
    /\ Report(r, "RetainedRaced")
    /\ UNCHANGED <<world, changes, opt, snap, expected, history>>

Next ==
    \/ Environment
    \/ \E r \in Removers :
        \/ Stop(r) \/ PlanWorktree(r) \/ PlanBranchOnly(r) \/ AfterHooks(r)
        \/ CheckOwner(r) \/ CheckLock(r) \/ CheckClean(r) \/ StopDaemon(r) \/ Rescan(r)
        \/ Rename(r) \/ PruneEntry(r) \/ Unregister(r) \/ PruneFails(r) \/ RenameFails(r)
        \/ SubmoduleScan(r) \/ RemoveNow(r)
        \/ BuildTail(r) \/ ResolveTarget(r) \/ ChildRemove(r) \/ ChildCapture(r)
        \/ Capture(r) \/ ForceDelete(r) \/ Integrate(r) \/ ReadTopology(r)
        \/ CompareAndDelete(r) \/ CompareFails(r) \/ Classify(r)

Spec == Init /\ [][Next]_vars

-----------------------------------------------------------------------------
(* Properties *)

Labels ==
    {"plan", "hooks", "owner", "lockfile", "scan", "stop", "rescan", "rename", "prune", "unregister",
     "subscan", "gitForce", "gitRemove", "tail", "target", "childRemove", "childCapture", "capture",
     "integrate", "topology", "cas", "classify", "done", "stopped"}

\* Every variable keeps its type, and only commits that exist are merged.
TypeOK ==
    /\ dir \in {"ours", "foreign", "absent"}
    /\ registered \in BOOLEAN /\ locked \in BOOLEAN /\ dirty \in BOOLEAN /\ stale \in BOOLEAN
    /\ tip \in Commits \cup {None} /\ used \subseteq Commits /\ merged \subseteq used
    /\ sibling \in BOOLEAN /\ changes \in Nat
    /\ pc \in [Removers -> Labels]
    /\ opt \in [Removers -> [force : BOOLEAN, mode : Modes, path : Paths]]
    /\ snap \in [Removers -> Snapshots]
    /\ expected \in [Removers -> Commits \cup {None}]
    /\ late \in [Removers -> SUBSET Facts]
    /\ missed \subseteq Removers \X Facts
    /\ fate \in [Removers -> Outcomes]

\* Uncommitted work is destroyed only under --force, or when it was written after the last scan
\* the path makes: with fsmonitor the rescan after the daemon stopped, with submodules the scan
\* right before the synthesized --force (stage_worktree_removal, remove_worktree).
WorkKept == \A r \in Removers : <<r, "work">> \notin missed

\* A worktree or a registration locked before the remover's read of the lock is never removed,
\* --force or not (stage_worktree_removal, prune_worktree_entry, git worktree remove).
LockHonoured == \A r \in Removers : <<r, "lock">> \notin missed

\* A directory that another repository put at the path, before the ownership read that follows
\* the hooks, is never moved to the trash and never loses its registration.
OwnerChecked == \A r \in Removers : <<r, "foreign">> \notin missed

\* No deletion leaves a checkout without its branch, unless the checkout appeared after the
\* topology read (cas_delete_branch_outcome; git branch -D under force).
CheckoutKeepsBranch == \A r \in Removers : <<r, "checkout">> \notin missed

\* A step that loses commits the target does not have is a user's, or a remover's told to force.
CommitsKept ==
    [][tip # None /\ tip' = None /\ tip \notin merged
         => \/ DropBranch
            \/ \E r \in Removers : opt[r].mode = "force" /\ pc[r] = "integrate" /\ pc'[r] = "done"]_vars
=============================================================================
