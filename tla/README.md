# A TLA+ verification of worktrunk

worktrunk (`wt`) manages git worktrees: it creates, lists, merges and removes them, runs hooks around each step, and keeps its own state under the repository's git directory and in the user's configuration directory. It is a command-line program. Each command is one process; many run at once (several terminals, coding agents, detached children), and they share nothing but the file system and git. That is where its hard behaviour is, and that is what these modules are about: what a step relies on that another process, a hook, a user or a kill may have changed since it was read.

Source paths below are relative to the crate (`src/git/remove.rs` and so on).

1. [The system](#the-system)
2. [Modules and their correspondence to the code](#modules)
3. [Runs](#runs): what each checks, its bounds
4. [Fairness](#fairness)
5. [Proofs](#proofs)
6. [Disagreements found](#disagreements-found)
7. [Assumptions and what is not modelled](#assumptions)
8. [Plan](#plan)

## The system

| Component | Sources | State | Operations | What is hard | What makes it correct |
|---|---|---|---|---|---|
| Trash drain | `git/remove.rs`, `commands/process.rs` | `wt/trash/*`, the lock file beside it | stage, probe the lock, start a drain, list, delete, unlock, look again, sweep | a removal that trusts a drain about to exit; undeletable entries; a killed drain | one deleter; every entry has somebody who will see it; drains exit |
| Removal of a worktree and its branch | `git/remove.rs`, `output/handlers.rs`, `commands/repository_ext.rs`, `git/repository/worktrees.rs`, `git/repository/working_tree.rs`, `git/ref_deletion.rs` | directory, registration, `locked` file, branch ref, fsmonitor daemon | plan, pre-remove hooks, gates, rename into the trash, fallbacks (in the process, or in a detached shell), unregister, judge integration, compare-and-delete | everything is read before hooks, users and other removals act | no work, lock, foreign directory, checkout or commit is lost |
| Landing | `commands/worktree/push.rs` | target ref; index and files of the target's worktree | snapshot, conflict check, merge commit, compare-and-swap, two-tree sync, verify, roll back | two pushes; a user committing between the ref and the sync | landed commits stay, work survives, a desynchronised index is reported |
| Promote | `commands/step/promote.rs`, `commands/step/shared.rs` | two worktrees' branches and ignored files, `wt/staging/promote` | list, stage, detach, switch, switch, distribute | four places for a file and a crash at each step; a second promote | every ignored file is somewhere, with its branch |
| Approvals and user files | `config/approvals.rs`, `config/user/mutation.rs`, `commands/command_approval.rs`, `commands/hook_plan.rs`, `commands/config/{approvals,update}.rs`, `config/deprecation.rs` | `approvals.toml`, `config.toml`, one lock for each | load with the old file as fallback, approve, clear, clear stale, clear all, migrate, save a setting, gate, run | unlocked reads; two files of which one takes over from the other | what is in force is what the user gave and did not take back; only consented commands run |
| Relocate | `commands/relocate.rs`, `commands/step/relocate.rs` | where worktrees stand, `wt/staging/relocate` | gather, classify, passes, break a cycle, finalise | chains and cycles of worktrees on each other's paths; the main worktree | everything that can move does, and nothing else is skipped |
| Merge pipeline | `commands/merge.rs`, `commands/worktree/finish.rs` | a progress record; target, branch, index, files | gates, commit, squash, rebase, hooks, land, remove | a failure half way, a rerun, others moving branch, target and upstream | no work lost; an accurate report |
| Squash, commit, rebase | `commands/step/{squash,commit,rebase}.rs`, `commands/commit.rs` | HEAD (detached for a while), branch ref, index, backup ref | stage, hooks, restage, write tree, detach, commit, compare-and-swap, reattach | a kill, a commit hook or a user between two of these | the branch moves once and whole or not at all; HEAD comes back; published commits stay |
| Prune | `commands/step/prune.rs`, `git/ref_deletion.rs` | verdicts, job queue, results, abort flag, output lock, interrupt latch | check, queue, remove, drain after a failure, current worktree last | workers act on scan-time plans; failures and interrupts arrive anywhere | nothing newer than the scan is destroyed; the report is what was done; the command ends |
| Switch | `commands/worktree/switch.rs`, `commands/backup.rs`, `git/mod.rs` | branches, their tracking configuration, worktrees, backups, a cached worktree list | resolve (`pr:N` too), plan, back up, `git worktree add`, tracking, hooks | plan and execution apart; a failed add leaves part of itself | nothing is overwritten; others' branches are left alone; leftovers are named |
| Foreground commands and signals | `output/concurrent.rs`, `signal_forwarder.rs`, `shell_exec/process_owner.rs` | scopes and leases, latched signals, wake socket, pipes, outcomes | install, admit, fork, wait, forward, drain, release | wake-ups, and signals at the border of a lease, a fork or a round | no lost wake-up, no missed cancellation, no child that has not heard, no output dropped |
| Background pipelines | `commands/run_pipeline.rs`, `commands/command_executor.rs` | a pipeline of steps | serial and concurrent steps | failure strategies | a failed serial step ends it |
| List, picker, status line | `commands/list`, `commands/picker`, `commands/statusline.rs` | result cells, preview cache and its generation | collect, render | results of an older generation | freshness |
| Caches | `cache.rs`, `git/repository/sha_cache.rs` | files keyed by content | read, write, sweep | concurrent sweeps | none but size |
| The rest | configuration parsing, templates, shell integration, CI status, commit messages, logging, command line | none shared, or written once | | | not protocol |

How they meet: `remove`, `merge`, `prune` and the picker all call removal; everything that runs commands in the foreground does so in an operation's scopes; removal stages into the trash and starts drains. `merge` and `step push` land. Every command that runs project hooks goes through the approvals gate. All of them go through git, whose worktree registry and refs are the shared state between them; git's compare-and-swap on refs, file renames and file locks are the only synchronisation.

## Modules

| Module | Models | Its state | Its actions |
|---|---|---|---|
| `TrashDrain` | staging, probing, draining, sweeping | `trash`, `lock`, a counter and a listing for each command and drain; `orphaned` is history | one per system call that other processes can see between: list, delete one entry, unlock, look again |
| `TrashPromise` | the abstract trash: staged once, deleted once, only what can be deleted | `trash`, `unused`, `orphaned` | `Stage`, `Delete`, `Fault`, `TakeBack` |
| `WorktreeRemoval` | one worktree and its branch, removers on every path with every flag, users and git beside them | `dir`, `registered`, `locked`, `dirty`, `stale`, `tip`, `merged`, `sibling`; each remover's flags, snapshot and expected tip; `late` and `missed` are history | one per read or write of git or the file system, in the order of the code |
| `Promote` | promotes and builds | `head`, `disk`, `staged`, `exists`; `owned` is history | one per file moved and per git command |
| `AdvanceTarget` | pushes and the user of the target worktree | `tip`, `anc`, `tree`, `index`, `work` | `Prepare` to `RollBack`, and `Edit`, `Add`, `UserCommit` |
| `Approvals` | processes, each one of nine commands | `file`, `config`, both locks; each process's plan, loaded approvals, snapshot, question; `granted`, `seen`, `consented`, `ran` are history | one per read, lock, write and question |
| `Prune` | `wt step prune`: the scan, the main thread and the workers, next to the user | `at`, `dirty`, `ref`; `verdicts`, `jobs`, `done` are the channels; `abort`, `cancelled`, `latched`; the main thread's `err`, `deferred`, `removed`; `took` and `killed` are history | one per message, lock, gate and deletion |
| `PrunePromise` | the abstract prune: parts of items are taken, the current worktree last and only after no failure; the report is what was taken | `taken`, `unsure`, `failed`, `last`, `reported`, `over` | `Take`, `BeginLast`, `Fail`, `Killed`, `Finish` |
| `Foreground` | a pipeline of foreground rounds: groups, steps, handed-off steps; the process owner, listener, waiters and drain; children and their descendants | what was sent and is pending, latches and flags, `lease`, `others`; each child and its pipes; `waiter`, `sent`, `outcomes`, `byte`; `late`, `hit`, `fatal` are history | one per step of a thread or a process |
| `Merge` | `wt merge` with all its stages, run again after a failure, next to the user and others | `target`, `branch`, `detached`, `index`, `work`, `backup`; `tip`, `base`, `staged` as they were read; `progress`; `did`, `unread`, `behind` and `overtaken` are history | one per git command and hook |
| `Switch` | `wt switch` commands: a branch, `--create`, `pr:N`, with `--path` and `--clobber`, next to the user | `at`, `reg`, `branches`, `track`; each command's `method`, `branch`, cached list `seen`, `tries`, `existed`; `kept`, `won`, `alone` are history | one per read or write of git or the file system; `git worktree add` is four |
| `Relocate` | one command over a set of worktrees, run again after a stop | `at`, `obstacles`; `pending`, `locations`, `moved`, `blocked`, `temps`, `next`, `progress` as in `RelocationExecutor` | one per worktree a pass comes to |
| `MC*` | constants and symmetry for TLC | | |
| `ApprovalsProofs` | for every number of processes, projects, keys and commands | | |
| `RemovalProofs` | proofs about `WorktreeRemoval` and `TrashDrain`, for every number of removers, commits and changes, and of commands, drains and entries | | |
| `AdvanceTargetProofs` | for every number of pushes, commits, paths and edits | | |
| `PruneProofs` | for every number of items, branches and workers | | |
| `SwitchProofs` | for every number of commands, branches, places and pull requests | | |
| `MergeProofs` | proofs about `Merge` and `Foreground`, for every repository, number of pieces of work, reruns and outside steps, and for every number of children, signals and rounds | | |
| `PromoteProofs` | for every number of promotes, worktrees, branches and names | | |
| `RelocateProofs` | for every number of branches, paths, runs and changes | | |

Conventions. A process is a program counter; a label names what it does next. Where the code reads something and acts on it later, the read and the act are two actions, so that anything may come between. What the code asks of git in one command is one action. Operators whose comment begins with "Wrong" are bugs the code does not have, kept to show that each property can fail; the next-state relations do not use them. `TypeOK` documents each module's state; it is proved for every module. `TrashDrain` calls it `TrashTypeOK`, and `Merge`'s, `MergeTypeOK`, stands with the proofs in `MergeProofs`.

**TrashDrain.** `StageInBackground` is the rename and the choice between starting a drain and trusting one. The probe takes the lock, as `trash_drain_running` does (`ProbeTakesLock`, `ProbeDropsLock`), and so may itself turn away a drain that starts at that moment. `Recheck` reads the trash after the lock was dropped. `Fault` kills a command or a drain or makes a spawn fail; `orphaned` is what is then in nobody's charge until the next command that looks.

**WorktreeRemoval.** `PlanWorktree` and `PlanBranchOnly` are `prepare_worktree_removal`; `AfterHooks` chooses the foreground path, the background path or the branch alone; `CheckOwner`, `CheckLock`, `CheckClean`, `StopDaemon`, `Rescan` and `Rename` are `stage_worktree_removal` in order; `SubmoduleScan` and `GitWorktreeRemove` are the fallback in the process; `BuildTail`, `ResolveTarget`, `ChildRemove` and `ChildCapture` the detached shell; `Capture`, `Integrate`, `ReadTopology`, `CompareAndDelete` and `Classify` the branch. `late[r]` collects what came true after `r`'s last look at it; when `r` then destroys something, `missed` records each fact it destroyed against that it could have seen. The properties are about `missed`.

**Promote.** A file is its branch and its name. `Concurrent` and `Included` select the runs; a branch that tracks a name is what git switch overwrites an ignored file of that name with.

**AdvanceTarget.** A commit has ancestors and a tree; `Mergeable` and `Updated` are git's two-tree read: which paths make it refuse, and which it writes. Commits are made of what the index holds, so that a commit made before the sync has a tree that reverts the push.

**Approvals.** `Authority` is the file that counts: `approvals.toml` when it exists, else the old section of `config.toml`. `Effective` adds the keys that match a project, patterns and the key of an older version included, and forgives deprecated variable names (`Normal`).

**Prune.** `Check` is one parallel check and its verdict; `Receive`, `EndOfScan`, `Drain` and `StartLast` are the main thread; `TakeJob` to `ReportFailure` the workers, and the main thread when it removes the current worktree. The gates inside one removal are `WorktreeRemoval`'s, so here staging is one step that refuses what changed. `took` counts what is handed to a detached child as taken. A branch whose `git update-ref` was killed may be gone and is reported as kept; `PrunePromise` says so (`Killed`).

**Foreground.** The owner is one thread: it handles signals, forks and retires leases, which is why a fork cannot come before the handling of a key that is already pending (`OwnerFree`). A Ctrl-C goes to wt and to every running child, a TERM to wt alone, and `ListenTerm` passes it on. `Check` and `AtEnd` are the drain loop's two ways out; a descendant that keeps a pipe open (`held`) is what they differ over.

**Merge.** A commit is the sequence of the trees of its history, a tree the set of pieces of work in it, so that two processes that make the same commit make one. `Fail` is any error at any stage: it reattaches HEAD where `reattach_after_failure` does and reports what `MergeProgress` holds. `Rerun` runs the command again at once, in whatever index and worktree the failure left, as `merge_in` does; `Repair` is the user putting HEAD back first (`git rebase --abort`, `git symbolic-ref`). Others land on the branch (`LandOnBranch`; behind a detached HEAD they find no worktree to bring along, and what they land is in `behind`), move the target forward (`MoveTarget`) and back (`TakeTargetBack`: another push's rollback, a reset), and fetch or push the upstream (`Publish`). `Strand` is an advance whose sync is refused and whose rollback is refused too, because somebody has committed on top. Published commits that were not there when `span_upstream` looked, or that the target it settled on gave up before it was measured against, are in `overtaken`. `unread` is the effect that the failing step did and could not read back. `Replay` is what a rebase makes: above the new base, each commit has what some commit up to it changed as that commit has it, and the rest as the base has it. Branch and target may have no common ancestor; squash and rebase then fail, as in the code.

**Switch.** `ResolveFork`, `NameTaken` and `ResolvePrefixed` are `resolve_fork_ref` with its two calls of `branch_tracks_ref`; `Locate` and `HooksRan` the resolution before and after pre-switch hooks; `PlanExisting`, `PlanBranch` and `PlanPath` are `plan_switch`; `MoveAside`, `NextName` and `NothingToMove` one try each of the backup loop; `AddBranch` or `UseBranch`, `Register`, `Populate` are git's steps, each with its failure; `LeftoverBranch` and `LeftoverWorktree` the two reads behind the hint. The worktree list is what `list_worktrees` cached on first use (`seen`); refs, configuration and paths are read afresh each time, as in the code.

**Relocate.** A place is a path, a staging slot, or the inside of either, since `git worktree move` onto a directory moves into it. `locations` is the code's map of who stood where at the start.

## Runs

Every property of a passing run has a mutant in `PROJECT.json`: a mutation of one operation under which TLC finds that property violated.

| Run | Shows | Bounds, and why they are enough | States |
|---|---|---|---|
| `trash_drain` | one deleter; no forgotten entry; the abstract trash is implemented; deletable entries are deleted and drains exit | two commands, one of which sweeps, two drains, three entries of which one cannot be deleted, one fault. Two of each are needed for a probe to meet an exiting drain while another starts; the proofs cover the rest for every number | 75 thousand |
| `worktree_removal` | no work, lock, foreign directory, live checkout or commit is lost that could have been seen | either one removal with any flags and four changes by others, or two removals of one worktree and branch (by every path and fallback) with two; fsmonitor and submodules on, a kill anywhere. Losing work takes one change, a foreign directory one, commits two, with one spare; one remover's fallback on the other's leavings needs the second remover | 2.2 million |
| `promote` | up to three promotes one after another: no file is lost, all are with their branch | three worktrees, two names, a branch that tracks one of them, one build, a stop at any step. The third promote sees what two have left | 990 thousand |
| `promote_concurrent` | violated: overlapping promotes delete a staging directory with files in it | two promotes | until violated |
| `advance_target` | landed commits stay; rollbacks undo only their own; work survives; desynchronisation is reported | two pushes (fast-forward or with a merge commit), four steps of the user, two paths. Edit, add and commit in one window is three | 84 thousand |
| `approvals` | approvals in force are those given; only consented commands run; settings are kept by the writers that lock | two processes out of nine commands, two projects of which one had an older key and one has a `*` in its name, from four contents of the files | 1.1 million |
| `relocate` | what is reported moved is in place; exactly the blocked are skipped and all others arrive; at most one pass more than worktrees | four branches on four paths in every layout (swaps, three-cycles, chains into obstacles, detours through the main worktree), one change from outside, two runs, a kill anywhere | 392 thousand |
| `prune` | nothing newer than the scan is destroyed; an interrupted deletion stops those behind it; the abstract prune is implemented; the command ends | three items (the current worktree, and worktrees, stale entries or an orphaned branch, sharing a branch or not), two workers and the main thread, one change from outside, a failure or interruption at any step. Two workers are needed for one to be behind the other; the third item is the deferred one | 1.1 million |
| `foreground` | no child misses a cancellation; none starts after one; caught signals are not fatal; cancellation is reported; output is shown; the drain ends | two children, one signal, two pipelines: two steps, or a group and then a handed-off step; another scope of the same operation. The races are between one signal and one fork, exit, release or round; two children are needed for one to exit while the other is admitted | 811 thousand |
| `merge` | no piece of work is lost but what was landed behind a detached HEAD and then run over; the report is what was done, but for what could not be read back; HEAD comes back; commits published when `span_upstream` looked are not rewritten | six repositories (nothing committed, two commits over staged and untracked files, commits that cancel out, a target that went on, a target behind its upstream, a history of its own with a deleted file), three outside steps (writing, staging, committing, landing, the target forward and back, publishing, repairing, running again), a failure or a kill at every step | 9.0 million |
| `switch` | what was moved aside or stood in the way is kept; configuration of branches that were not won is not written; leftovers are named exactly | two commands out of six (plain, `--create`, `--create --base pr:N`, `pr:N` of two pull requests with one branch name, with and without `--path` and `--clobber`), five repositories, two steps of others. Two commands and one step fill a backup name twice and take a path between plan and add | 3.4 million |
| `switch_again` | violated: a deleted branch is adopted as configured for the pull request | one pull request switched to twice, with a removal between | until violated |

Deadlock is not checked: in every module the processes finish, and a state where all have is meant to have no successor. That they do finish, where a loop could keep them, is `DrainsExit` for trash drains, `PassesAreFew` for relocate, `Ends` for prune and `DrainEnds` for the drain of a group.

What is reduced by symmetry: removers; switches; pushers, commits, paths and edits; processes; promoters; branches other than the default and paths other than the root. `trash_drain`, `prune` and `foreground` check liveness and have none; nor has `merge`. Initial states and constants treat the permuted values alike.

## Fairness

*`trash_drain`*: weak fairness of every command and drain. The operating system goes on scheduling a live process, and no step of these waits for anything (`try_lock` does not block). Nothing makes a command start a removal. Staging with nothing left to stage, and faults, carry no fairness. Deletion of an entry is guaranteed only while no fault has orphaned it.

*`prune`*: weak fairness of the command as a whole: as long as some thread can go on, some thread does. No thread is promised its own turn, and the user, hooks and interruptions are promised nothing. A hook or a git command is taken to return, as nothing in the code bounds it.

*`foreground`*: weak fairness of each of wt's threads (the loop, the owner, the listener, the waiters). Children and their descendants owe nothing: they may run for ever and keep their pipes, and `DrainEnds` begins only once every child has exited and either the pipes are at their ends or the command was cancelled.

## Proofs

All proofs hold for every value of the constants that satisfies the module's assumption. Each invariant below was checked by TLC on the instance of the module's run before it was proved. In each proof module one lemma per part of the invariant has one step per action, and the theorems follow from the invariant without further induction.

**`ApprovalsProofs`** (`ApprovalsAssumption`). `TypesCorrect`, from an invariant that also says what each kind of process has read by each label.

- `NoApprovalRevived` and `NoApprovalLost`. `LoadInv`: a process about to save under the lock loaded what is in force now, since nobody else can have written it since; this fails without the reload under the lock. `LegacyInv`: while there is no `approvals.toml`, whoever will write `config.toml` carries the section it has now, and an update writes it without the section only once there is nothing left in it; this is why the copy comes before the rewrite. `GrantInv`: what the user gave is, key by key, what the authoritative file says up to renamed variables. Both theorems follow from `GrantInv`.
- `RunsAreConsented`. `SeenInv`: a process that found no `approvals.toml` and has yet to read `config.toml` will find there nothing that was not in force at some time since its gate began, and nobody is about to write anything else there. `ConsentInv` carries this through the plan, the prompt and the save to the run.
- `SavesAreKept`. `ConfigInv`: a writer about to save to `config.toml` has every setting that is there, unless what is there is just what a finished update put. The second half is what the property was missing: the proof failed on it, and TLC then showed four processes that violate the older statement (see [below](#disagreements-found)).

**`RemovalProofs`, removals** (`RemovalAssumption`). `TypeCorrect`, `NoWorkLost`, `NoLockBroken`, `NoStrangerRemoved`, `NoCheckoutOrphaned` and `OnlyForceLosesCommits`, from `IInv == TypeOK /\ WorldInv /\ GateInv /\ NothingMissed`. `GateInv` says what a gate still means after it was passed: between the last check of a fact and the act it guards, the fact can only hold if it came after the check. `WorldInv` adds that a remover about to delete a branch safely holds a tip its captured target has, and that the target only grows, which is why a comparison with an old target is enough.

**`RemovalProofs`, the trash** (`TrashAssumption`). `TrashTypeCorrect`, `MutualExclusion` and `NoRemovalForgotten`, from `TrashIInv == TrashTypeOK /\ LockInv /\ EveryEntryCovered`. `LockInv` says what the lock means: its holder, and only its holder, is between taking it and dropping it. `OneDeleter` follows from it. `EveryEntryCovered` is inductive only next to it: when a probe finds the lock taken, `LockInv` names the drain that will list again or look again, or the command whose own probe is still to be followed by one. `Implementation`: `TrashDrain` implements `TrashPromise`, with `OneStaged` (a foreground command deletes the one entry it staged) added to the invariant.

**`AdvanceTargetProofs`** (`PushAssumption`). `TypeCorrect`, `NoLandedPushLost`, `NoForeignAdvanceUndone`, `NoUncommittedWorkLost` and `NoSilentDesync`, from `IInv == TypeOK /\ AncestryInv /\ PlanInv /\ ChainInv /\ WorkInv /\ IndexInv`. `AncestryInv`: histories are closed and have no cycles. `ChainInv`: of two pushes that moved the target, one was built on the other, so a rollback, which needs its own commit at the tip, cannot take another's off. `IndexInv` is the long one: until somebody reported or was killed, either the unsynced pushes are stacked on what the index holds, the last at the tip, or a commit that can no longer be rolled back was built on one of them, which then finds the target moved when it looks again (`Overtaken`).

**`PruneProofs`** (`PruneAssumption`). `TypeCorrect`, `NewWorkSurvives`, `InterruptedDeletionIsLast`, and `Implementation`: `Prune` implements `PrunePromise` step by step. `PlaceInv` and `EachOnce`: an item is in one place and once, unchecked, a verdict, a queued job, with a thread, or a result. `AccountInv`: what was taken of it is what the thread, the result or the report says, wherever it is; that is what makes the final report exact. `MainInv`: the current worktree is begun only when every worker is gone and nothing failed. `LatchInv`: one deletion at a time, none once one was interrupted. Lemmas on the ends of sequences carry the channels.

**`SwitchProofs`** (`SwitchAssumption`). `TypeCorrect`, `NothingOverwritten`, `LeftoversAreNamed` and `OnlyOwnBranchesWritten`, from `IInv == Types /\ ResolveInv /\ KeptInv /\ WonInv /\ PopulateInv /\ AloneInv`. `PopulateInv`: the worktree git populates is its branch's only one, and nobody takes it away, so unwinding it takes away nothing else. `AloneInv` follows a new branch that nobody else touched from the add to the message that names it. `WonInv`: past `git worktree add`, a new branch is one the command won.

**`MergeProofs`, the merge** (`MergeAssumption`). `MergeTypeCorrect`, `NoWorkLost`, `ReportIsTrue`, `HeadComesBack` and `PublishedStays`, from `MergeIInv == MergeTypeOK /\ PartInv /\ HeadInv /\ KnownInv /\ DoneInv /\ SquashInv /\ MeasuredInv /\ LandedInv /\ KeptInv /\ BehindInv /\ BackupInv`.

- `NoWorkLost`. `WorkKept` alone says nothing of what may be overwritten next. `KeptInv` says that all the work is in the worktree, on the target or on its upstream at every label, so that no move of the branch can lose any; the branch counts only once the worktree is gone, and after a rebase that stopped, where of the files only those git does not track count. `BehindInv` is about what another wt landed behind the detached HEAD: it is at the tip of the branch and not in the worktree, which is dirty for it, so no removal takes it, and the branch is no longer at `tip`, so the compare-and-swap of `MoveBranch` fails. It holds until the next run, whose index still stages the removal. `BackupInv` carries the backup from the safety stash to the squash it is for.
- `PublishedStays`. `Covered` is what is published and not `overtaken`; `Carries(H, t, s)`: the histories of `H` that `s` goes on from, `t` goes on from too. `span_upstream` chooses the target or its upstream by the merge base; `MeasuredInv` says that while a stage has chosen the target and has not measured, the target carries what is covered, whatever others do to it and to the upstream: a rewind takes from `Covered` what it takes from the target. `SquashInv` says that the merge base carries it, and that the branch only grows from the tip it was read at, so a new commit on the base, or a replay of what is above it, rewrites nothing covered. The lemmas behind it are about histories: the longest common prefix of two exists and carries what both share (`Least` gives the minimum by well-founded induction, which the library has as a theorem about sets), and what a replay's trees hold.
- `ReportIsTrue` and `HeadComesBack`. `KnownInv` and `DoneInv`: between a stage's effect and its report, `known` says that the effect is there, so a failure at any label reports it (`Fail`); what failed before that is in `unread`, and nothing else that was done goes unreported. `HeadInv` names the labels at which HEAD may be detached.

The attempt changed the model in three places. The start with no common ancestor was missing, and there `ReadTip` and `DecideRebase` went on where the code stops; files that the user had deleted before the command counted as work to be kept; and the rebase refused uncommitted changes but not untracked files in its way, which git refuses too. None of them changed a property. Three cases that the code has do change what the properties can say, and each of them names its own: a second run over work that was landed behind a detached HEAD, effects that could not be read back, and moves of target and upstream between `span_upstream` and the merge base. Without its exemption, each property is violated in the `merge` run.

**`MergeProofs`, foreground commands** (`ForegroundAssumption`). `TypeCorrect`, `NobodyUnaware`, `CancelledStartsNothing`, `LeaseShields`, `NoCancellationMissed` and `OutputSurvivesDrain`. `HeardInv`: while a Ctrl-C is pending or being handled whoever runs has heard it, since nobody is created until it is handled. `LeaseInv`: what was sent during a lease is handled before the last lease ends. `LateInv` and `HitInv`: which flags a round that was cancelled before it began, and one that was hit, still has when it looks.

**`PromoteProofs`** (`PromoteAssumption`, `~Concurrent` and `Included = Names`). `NothingLost`, `FilesStayWithTheirBranch` and `OnlyEmptyDeleted`, from `IInv == Types /\ Alone /\ StagingInv /\ HomeInv /\ KeptInv /\ \A p : Phase(p)`. The two hypotheses are those of the run `promote`. Without either of them the theorems are false of the code: overlapping promotes delete each other's files (`promote_concurrent`), and git switch overwrites what `.worktreeinclude` leaves out (see [below](#disagreements-found)). `HomeInv`: a file on a disk belongs to the branch checked out there, so while the branches move neither worktree may have any (`Emptied`). `Sided`: what is staged is listed and is still to be distributed, so nothing is left in the directory when it goes. `Sorted`: each side holds files of the branch it was staged for, and `Placed` says where that branch is by then. The invariant holds at every label, so a promote may stop anywhere. `TypeCorrect` needs `~Concurrent` only: `Tallied` bounds the count of staged entries by what has left the list, with the finiteness of `Names`.

**`RelocateProofs`** (`RelocateAssumption`). `TypeCorrect` and `FewPassesOnly`, from `IInv == TypeOK /\ WorldInv /\ PlanInv /\ WhereInv /\ StagingInv /\ PassInv`, and under `Distinct` (the template gives no two branches one path, as in the run; see [below](#disagreements-found) for what happens otherwise) `Relocated` and `SkipsOnlyTheBlocked`, from `QuietInv` next to it. `PassInv`: every pass but the first follows a worktree that was settled and is settled once, so the passes are at most one more than the worktrees. `WhereInv`: who has not moved is where it was gathered, save the main worktree's branches during its detour. `FreeInv` is the heart: whoever moved was `Free` to (nothing on its target but worktrees that are to move and not blocked), and so was everyone still waiting when one went to staging. A pass without progress establishes it, since each waiting worktree it came by waits for one that is not blocked; a worktree is never blocked while another is in staging, which is why staging cannot end in a place that stays taken. `OnlyBlocked`: every set closed under "blocked by a member" contains the blocked ones. At the end the first gives that no blocked chain was missed and the second that no other worktree was skipped. The assumption on constants says that staging slots and the insides of directories are not among the expected paths. The proof found two things. The definition of `Stays` had overlooked a main worktree with a detached HEAD, where the default branch's worktree can never go to the root though nobody is gathered from there (no instance of four branches on four paths had it); and the bound in `PassesAreFew` was twice what holds.

Only model-checked is liveness under fairness (`StagedIsDeleted`, `DrainsExit`, `Ends`, `DrainEnds`), which the prover does not reach. Every other property of a passing run is a theorem.

## Disagreements found

Two have runs of their own, which TLC finds violated:

| Run | What |
|---|---|
| `promote_concurrent` | `check_leftover_staging` and the creation of the staging directory are apart, and both `stage_ignored` (a count of zero) and `distribute_staged` delete the directory with whatever is in it. `promote.rs` says a hard kill at any phase leaves files in staging, "never deleted" |
| `switch_again` | `branch_tracks_ref` asks the configuration first and the branch only when that says nothing. wt's own branch deletion (`git update-ref -d`) leaves `branch.<name>.merge`, so after `wt switch pr:N` and `wt remove` the next `wt switch pr:N` adopts a branch that is gone and fails. The comment says "Returns `None` if the branch doesn't exist" |

The others were met while modelling; the models contain the behaviour, and the properties are stated so that they hold beside it:

- *promote*: only what `.worktreeinclude` includes is staged, so git switch overwrites an ignored file it leaves out when the other branch tracks that name (set `Included` to leave one out and `NoFileLost` fails). The comment in `handle_promote` gives staging as what prevents this.
- *config update*: `handle_config_update` does not take `config.toml.lock`; settings that `with_locked_mutation` saves between its reading and its writing are lost. The comment names only non-cooperating editors. `SettingsKeptByWriters` exempts the rewrite, and settings that a rewrite put back: when two updates rewrite one after the other, a save between them may be undone, put back and undone again (four processes are needed, more than the run has; the attempt to prove the property showed it).
- *relocate*: `is_target_empty` asks whether the worktree that was there has moved, not whether another has come. With two branches of one path the second ends inside the first one's directory and is reported as relocated (templates that give two branches one path break `RelocatedIsThere`).
- *relocate*: with the main worktree on the branch whose path the default branch's worktree has, that worktree goes to staging, where its branch is still checked out, and the main worktree cannot switch to it. The help text promises that swaps are resolved.
- *squash*: `reattach_after_failure` restores the worktree "exactly as it was" because "the branch never moved". It also runs when the compare-and-swap failed because the branch did move, by another wt that landed on it while HEAD was detached. The index is then the old one and stages the removal of the landed work. `merge_in` neither notices nor says so, and a plain `wt merge` run again squashes the removal in: the landed work is then in no worktree and in no branch, only in the parent history of the backup, if the squash made one. `WorkKept` promises that work until the next run only (`behind`).
- *squash*: what is measured against is settled by `span_upstream` before staging and the pre-commit hook (`squash.rs:180`), and the merge base is read after them (`squash.rs:204`). A target that is rolled back or reset meanwhile puts the base below commits that are published, and commits that are published meanwhile were not asked about; both are folded into the squash commit, against "commits already published there are never folded". `PublishedKept` exempts them (`overtaken`).
- *merge*: some effects are not in the report of a failure: a commit whose hash `git rev-parse` fails to give (the `?` of `commit.rs:199`), a rebase after which `operation_in_progress` fails or finds something (`rebase.rs:75`), an advance that could not be rolled back (`push.rs:488`; the error text says it). A squash without net changes moves the branch to the merge base and is reported as no squash (`squash.rs:402`). `ReportedAsDone` exempts the first three (`unread`) and counts the last as no stage.
- *switch*: whether `--clobber` has something to move is decided at planning; a live worktree that another wt registers at the path before the execution is moved aside too (nothing is lost, `ContentsKept`), although the help text speaks of a non-worktree directory.
- *switch*: the hint that a branch "was created before the failure" is also given when another process made it between the plan and the add; `LeftoverNamed` speaks of branches the command's own git made.
- *switch*: tracking is written by name. If the branch is deleted and made again by someone else between the add and the write, theirs is configured; `OthersBranchesUntouched` is about names the command won.
- *switch*: `FETCH_HEAD` belongs to the worktree. Two `wt switch pr:N` at once in one worktree may start a pull request's branch at the other's commit. Commits are not part of `Switch`.

## Assumptions

External parts, modelled from how the code uses them: git's commands are atomic (`update-ref` with an expected value, `worktree add`, `move`, `remove`, `switch`), as are `rename` and file locks, and a lock goes with its holder. A process may be killed between any two steps.

- *WorktreeRemoval*: `git worktree remove` checks lock and cleanliness itself and then removes. With an fsmonitor daemon, `git status` may miss a write; without one it is a full scan. Nested worktrees, the current worktree's change of directory, and staged work of stale entries are left out. A branch may be force-deleted on request; the property exempts just that.
- *AdvanceTarget*: the target's worktree exists and is usable, or there is none. A third writer that moves the ref between the refusal of a sync and its rollback leaves the index behind; the code says so, and reports it.
- *Prune*: a removal that overlaps a change is decided at one step, where the code has several gates (those are `WorktreeRemoval`'s). The detached child is the removal's own. `--dry-run`, `--min-age`, `--format` and the hints are left out.
- *Foreground*: the bytes in the wake socket are a Boolean (it is drained whole), a child has one pipe. What descendants write themselves, EINTR in poll, the variant for other systems and serial groups are left out. wt is started with no signal pending.
- *Merge*: `git rebase` replays commits or stops; pieces of work are new files, so nothing conflicts unless the model says so. Merge commits in the branch, a user who switches branches, pulls or resets the branch in the middle, `ORIG_HEAD`, tracked-only staging and sibling checkouts are left out. Landing and removal are one step each. The upstream only goes forward (nobody force-pushes it), and a target without one gets none. After a failure or a kill a user who repairs puts HEAD back and does nothing else to the index. Work that somebody takes out of the target on purpose counts as taken back, unless the worktree has it and its removal is not settled.
- *Switch*: `git worktree add` writes the branch before it looks at the path, unwinds its own registration and directory and never the branch, and keeps its worktree locked until populated; a failing post-checkout leaves the worktree. Branch names do not collide as directories; all backups are named in the same second; file systems without an exclusive rename, nested paths, more than one remote, which commit a branch starts at, and switch history are left out; so is git's own guess of a remote branch, which `git worktree add` makes when a local branch is deleted between the plan's probe and the add (`BranchRefused` fails there).
- *Promote*: file contents are their identity; a copy that fails leaves the original and may leave a copy. Any promote may stop at any step; promotes follow one another except in `promote_concurrent`.
- *Approvals*: files are well-formed. The reload under the lock is one step with taking it, since only lock holders create or write `approvals.toml`. The project's configuration may be another one at each read. The user's answers are free.
- *Relocate*: things in the way are directories. Nested layouts, bare repositories, `--commit`, the shell's directory and detached worktrees other than the main one are left out; locked or unselected worktrees are those not chosen by `Plan`. A path that someone creates during a run is exempted by `RelocatedIsThere` and `SkipsExactlyTheBlocked`: then a worktree that waits for the blocked one is staged and may be moved into the taken path.

Bounds that the code does not have: `MaxFaults`, `MaxChanges`, `MaxUser`, `MaxBuilds`, `MaxRuns`, `MaxSignals`, `MaxTries` (never reached: there are fewer things to move than names), and the sizes of the sets of names.

Not modelled, with reasons in `PROJECT.json`: parsing, rendering and generated text (no protocol); CI status and remote references (network queries); the caches, whose loss costs time only; the semaphore (textbook).

## Plan

In the order of what they are worth.

1. Background pipelines (`commands/run_pipeline.rs`): serial and concurrent steps with their failure strategies.
2. List collection and the picker's previews: results of an older generation that arrive late.
3. Approvals: the window between asking for `approvals.toml` and opening it.
