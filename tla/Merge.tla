-------------------------------- MODULE Merge -------------------------------
(***************************************************************************)
(* wt merge in the worktree of a branch: commit or squash, rebase, land on *)
(* the target, remove the worktree.  wt step commit, squash and rebase run *)
(* the same stages one at a time.                                          *)
(*                                                                         *)
(* A history is the sequence of the trees of its commits, a tree the set   *)
(* of the pieces of work in it; equal histories are one commit.  HEAD is   *)
(* on the branch except while the squash commit is made.  Every stage may  *)
(* fail or be the last, and between any two steps the user edits, stages   *)
(* and commits in the worktree, and other processes land on the branch,    *)
(* move the target forward and back and publish on its upstream.           *)
(*                                                                         *)
(* src/src/commands/merge.rs, commit.rs, step/squash.rs, step/rebase.rs,   *)
(* worktree/finish.rs                                                      *)
(***************************************************************************)
EXTENDS Naturals, FiniteSets, Sequences, SequencesExt

CONSTANTS
    Pieces,   \* pieces of work, a bound on what is written
    Starts,   \* the repositories to start from: target, upstream, branch, index, work
    MaxUser   \* bound on the steps of the user and of other processes

Trees == SUBSET Pieces
NoHistory == <<>>   \* no history: no upstream, a deleted branch, an attached HEAD

ASSUME MergeAssumption ==
    /\ MaxUser \in Nat
    /\ \A s \in Starts :
        /\ s.target \in Seq(Trees) \ {NoHistory} /\ s.branch \in Seq(Trees) \ {NoHistory}
        /\ s.upstream \in Seq(Trees) /\ s.index \in Trees /\ s.work \in Trees

VARIABLES
    target, branch,      \* refs/heads/<target>, refs/heads/<branch>
    upstream,            \* the target's remote-tracking branch
    detached,            \* HEAD where it is not on the branch
    index, work,         \* of the worktree: tracked content, files
    backup,              \* refs/wt-backup/<branch> and its reflog
    rebasing,            \* a rebase stopped half-way
    gone,                \* the worktree was removed
    made, users,         \* history: the work that is to be kept; outside steps so far
    behind,              \* history: work that another wt landed on the branch behind this run's detached HEAD
    overtaken,           \* history: published commits that what the stage measured against does not cover
    step, part,            \* where the command is, and in which stage
    mode, onto,          \* the resolved stage mode; the squash measures against the target or its upstream
    tip, base, staged,   \* head_sha, merge_base and has_staged, as they were read
    new, old,            \* a tip to give to the branch or the target, and the one it is to replace
    known,               \* the stage's outcome is known: a failure from here carries it
    progress,            \* MergeProgress
    told,                \* the message that HEAD is left detached was printed
    did, unread          \* history: what really happened; the effect a failure came too early to report

refs == <<target, branch, detached>>
files == <<index, work>>
outside == <<upstream, made, behind, overtaken, users>>
plan == <<mode, onto, tip, base, staged, new, old>>
rest == <<backup, rebasing, gone>>
report == <<known, progress, told, did, unread>>
mergeVars == <<refs, files, outside, plan, rest, report, step, part>>

HeadTip == IF detached = NoHistory THEN branch ELSE detached
Tree(h) == Last(h)
Content(h) == UNION ToSet(h)
Dirty == index # Tree(HeadTip) \/ work # index
Ancestor(a, b) == IsPrefix(a, b)
MergeBase(a, b) == LongestCommonPrefix({a, b})
Ended == {"done", "failed", "killed"}

\* What git add stages of the worktree; pieces are new files, so --update stages none of them.
Selected(m) == IF m = "all" THEN work ELSE index

\* Repository::span_upstream: the branch is based past the local target.
Spans == upstream # NoHistory /\ ~Ancestor(MergeBase(HeadTip, upstream), target)
Span == IF Spans THEN "upstream" ELSE "target"
Ref(o) == IF o = "upstream" THEN upstream ELSE target

NoProgress == [committed |-> FALSE, squashed |-> FALSE, rebased |-> FALSE, merged |-> FALSE, removed |-> "unknown"]

MergeInit ==
    /\ \E s \in Starts :
        /\ target = s.target /\ upstream = s.upstream /\ branch = s.branch
        /\ index = s.index /\ work = s.work
        /\ made = s.work \cup Tree(s.target)
    /\ detached = NoHistory /\ backup = {} /\ rebasing = FALSE /\ gone = FALSE
    /\ users = 0 /\ behind = {} /\ overtaken = {}
    /\ step = "gates" /\ part = "gates"
    /\ mode = "all" /\ onto = "target" /\ tip = NoHistory /\ base = NoHistory /\ staged = FALSE
    /\ new = NoHistory /\ old = NoHistory
    /\ known = FALSE /\ progress = NoProgress /\ told = FALSE /\ did = {} /\ unread = {}

-----------------------------------------------------------------------------
(* The user of the worktree, hooks, and other processes *)

\* Something new to everybody; one piece is as good as another.
Used == made \cup behind \cup index \cup work \cup Content(branch) \cup Content(target) \cup Content(upstream)
New(p) == p \notin Used /\ p = CHOOSE q \in Pieces : q \notin Used
WriteNew(p) == New(p) /\ made' = made \cup {p}
OutsideStep ==
    /\ users < MaxUser /\ users' = users + 1
    /\ step \notin Ended /\ ~rebasing /\ ~gone
    /\ UNCHANGED <<plan, rest, report, step, part>>

\* The user writes a file, stages it with the others, or commits it with the others; what such a
\* commit takes out, the user takes back.
Edit ==
    /\ OutsideStep
    /\ \E p \in Pieces : WriteNew(p) /\ work' = work \cup {p}
    /\ UNCHANGED <<refs, index, upstream, behind, overtaken>>

EditAndAdd ==
    /\ OutsideStep
    /\ \E p \in Pieces : WriteNew(p) /\ work' = work \cup {p}
    /\ index' = work' /\ UNCHANGED <<refs, upstream, behind, overtaken>>

EditAndCommit ==
    /\ OutsideStep
    /\ \E p \in Pieces : New(p) /\ work' = work \cup {p} /\ made' = (made \cup {p}) \ (Tree(HeadTip) \ work)
    /\ behind' = behind \ (Tree(HeadTip) \ work)
    /\ index' = work'
    /\ IF detached = NoHistory
       THEN branch' = Append(branch, index') /\ UNCHANGED detached
       ELSE detached' = Append(detached, index') /\ UNCHANGED branch
    /\ UNCHANGED <<target, upstream, overtaken>>

\* Another wt merge lands on this branch.  It brings the worktree along where it finds it; behind a
\* detached HEAD it finds none, and the index is left to take its work back out.
LandOnBranch ==
    /\ OutsideStep
    /\ \E p \in Pieces :
        /\ New(p) /\ branch' = Append(branch, Tree(branch) \cup {p})
        /\ IF detached = NoHistory
           THEN made' = made \cup {p} /\ index' = index \cup {p} /\ work' = work \cup {p} /\ UNCHANGED behind
           ELSE behind' = behind \cup {p} /\ UNCHANGED <<made, files>>
    /\ UNCHANGED <<target, detached, upstream, overtaken>>

\* The target gets a commit of somebody else's, or is brought up to its upstream.
MoveTarget ==
    /\ OutsideStep
    /\ \/ \E p \in Pieces : WriteNew(p) /\ target' = Append(target, Tree(target) \cup {p})
       \/ upstream # NoHistory /\ IsStrictPrefix(target, upstream) /\ target' = upstream /\ UNCHANGED made
    /\ UNCHANGED <<branch, detached, files, upstream, behind, overtaken>>

\* The command has chosen the target to measure against, and has not measured yet.
Measuring ==
    \/ part = "squash" /\ step \in {"hook", "restage", "inspect"} /\ onto = "target"
    \/ step = "gitRebase" /\ onto = "target"

\* The target goes back: another push rolls its advance back, or somebody resets it.  The work it
\* drops is taken back, except what is in the worktree; a removal that was already judged takes that too.
TakeTargetBack ==
    /\ OutsideStep
    /\ \E t \in Prefixes(target) \ {NoHistory, target} :
        /\ target' = t
        /\ made' = made \ ((Content(target) \ Content(t)) \ (IF step = "remove" THEN {} ELSE work))
        /\ overtaken' = IF Measuring THEN overtaken \cup (Prefixes(upstream) \cap (Prefixes(target) \ Prefixes(t)))
                        ELSE overtaken
    /\ UNCHANGED <<branch, detached, files, upstream, behind>>

\* A fetch or a push: somebody else's commit is published, or the commits of the branch are.
Publish ==
    /\ OutsideStep /\ upstream # NoHistory
    /\ \/ \E p \in Pieces : New(p) /\ upstream' = Append(upstream, Tree(upstream) \cup {p})
       \/ IsStrictPrefix(upstream, branch) /\ upstream' = branch
    /\ overtaken' = overtaken \cup (Prefixes(upstream') \ Prefixes(upstream))
    /\ UNCHANGED <<refs, files, made, behind>>

\* A hook succeeds; it may have written a file.
Hook ==
    \/ \E p \in Pieces : WriteNew(p) /\ work' = work \cup {p}
    \/ UNCHANGED <<made, work>>

\* After a failure or a kill the user puts HEAD back, with git rebase --abort or git symbolic-ref.
Repair ==
    /\ step \in {"failed", "killed"} /\ users < MaxUser /\ users' = users + 1
    /\ detached # NoHistory /\ detached' = NoHistory
    /\ rebasing' = FALSE
    /\ IF rebasing THEN index' = Tree(branch) /\ work' = Tree(branch) \cup (work \ index) ELSE UNCHANGED files
    /\ UNCHANGED <<target, branch, upstream, made, behind, overtaken, plan, backup, gone, report, step, part>>

\* wt merge is run again, in the worktree as the failure left it.
Rerun ==
    /\ step \in {"failed", "killed"} /\ users < MaxUser /\ users' = users + 1 /\ ~gone
    /\ step' = "gates" /\ part' = "gates" /\ behind' = {} /\ overtaken' = {}
    /\ onto' = "target" /\ tip' = NoHistory /\ base' = NoHistory /\ staged' = FALSE /\ new' = NoHistory /\ old' = NoHistory
    /\ known' = FALSE /\ progress' = NoProgress /\ told' = FALSE /\ did' = {} /\ unread' = {}
    /\ UNCHANGED <<refs, files, upstream, made, mode, rest>>

-----------------------------------------------------------------------------
(* merge_in: the gates, and how a stage ends *)

Goto(l) == step' = l /\ UNCHANGED part
Enter(s, l) == part' = s /\ step' = l

\* What MergeProgress says of the current stage once its outcome is known.
Reported(removal) ==
    CASE part = "commit" -> [progress EXCEPT !.committed = TRUE]
      [] part = "squash" -> [progress EXCEPT !.squashed = TRUE]
      [] part = "push" -> [progress EXCEPT !.merged = TRUE]
      [] part = "finish" -> [progress EXCEPT !.removed = removal]
Removal == IF gone THEN "removed" ELSE "kept"

\* No operation in progress, HEAD on a branch, --no-commit on a clean worktree only, a target not
\* diverged from the upstream the branch is based on; whether to commit is settled here too.
Gates ==
    /\ step = "gates"
    /\ \E squash, commit \in BOOLEAN, m \in {"all", "none"} :
        /\ mode' = m
        /\ IF \/ rebasing
              \/ detached # NoHistory
              \/ ~commit /\ Dirty
              \/ Spans /\ ~Ancestor(target, upstream)
           THEN Goto("failed")
           ELSE IF commit /\ squash THEN Enter("squash", "stage")
           ELSE IF commit /\ Selected(m) # Tree(HeadTip) THEN Enter("commit", "stage")
           ELSE Enter("rebase", "rebase")
    /\ UNCHANGED <<refs, files, outside, onto, tip, base, staged, new, old, rest, report>>

\* A failing step ends the command; while HEAD is detached it is put back first.  A rejected
\* git commit, a failed message, a declined prompt, a failed hook, an unreadable repository.
Fallible == {"stage", "hook", "restage", "inspect", "decide", "backup", "tree", "cancel", "detach", "commit",
             "named", "announce", "rebase", "gitRebase", "rebased", "preMerge", "prepare", "advance",
             "landed", "finish", "remove", "finished"}

\* What the commit and the rebase did is not reported when reading it back fails.
Unread == CASE step = "named" -> {"committed", "squashed"} [] step = "rebased" -> {"rebased"} [] OTHER -> {}

\* Wrong: the result of the failed stage is discarded.
FailUnreported ==
    /\ step \in Fallible
    /\ Goto(IF step \in {"commit", "named"} /\ detached # NoHistory THEN "putBack" ELSE "failed")
    /\ unread' = Unread
    /\ UNCHANGED <<refs, files, outside, plan, rest, known, progress, told, did>>

\* Wrong: HEAD is left where it is.
FailDetached ==
    /\ step \in Fallible
    /\ Goto("failed")
    /\ progress' = (IF known THEN Reported(Removal) ELSE progress) /\ unread' = Unread
    /\ UNCHANGED <<refs, files, outside, plan, rest, known, told, did>>

Fail ==
    /\ step \in Fallible
    /\ Goto(IF step \in {"commit", "named"} /\ detached # NoHistory THEN "putBack" ELSE "failed")
    /\ progress' = (IF known THEN Reported(Removal) ELSE progress) /\ unread' = Unread
    /\ UNCHANGED <<refs, files, outside, plan, rest, known, told, did>>

Kill ==
    /\ step \notin Ended /\ Goto("killed")
    /\ UNCHANGED <<refs, files, outside, plan, rest, report>>

-----------------------------------------------------------------------------
(* Staging and the pre-commit hook, in CommitOptions::commit and handle_squash_in *)

\* auto_stage; the squash settles what it measures against here, before the hook.
Stage ==
    /\ step = "stage" /\ Goto("hook")
    /\ index' = Selected(mode)
    /\ IF part = "squash" THEN onto' = Span /\ overtaken' = {} ELSE UNCHANGED <<onto, overtaken>>
    /\ UNCHANGED <<refs, work, upstream, made, behind, users, mode, tip, base, staged, new, old, rest, report>>

\* No hook, --no-hooks or a declined approval.
SkipHook ==
    /\ step = "hook" /\ Goto("inspect")
    /\ UNCHANGED <<refs, files, outside, plan, rest, report>>

PreCommit ==
    /\ step = "hook" /\ Goto("restage")
    /\ Hook
    /\ UNCHANGED <<refs, index, upstream, behind, overtaken, users, plan, rest, report>>

Restage ==
    /\ step = "restage" /\ Goto("inspect")
    /\ index' = Selected(mode)
    /\ UNCHANGED <<refs, work, outside, plan, rest, report>>

-----------------------------------------------------------------------------
(* CommitGenerator::commit_staged_changes *)

\* "Nothing to commit" is a failure.
CommitStaged ==
    /\ step = "inspect" /\ part = "commit"
    /\ Goto(IF index = Tree(HeadTip) THEN "failed" ELSE "commit")
    /\ UNCHANGED <<refs, files, outside, plan, rest, report>>

\* git commit, wherever HEAD is; it refuses an empty commit (Fail).
GitCommit ==
    /\ step = "commit" /\ Goto("named")
    /\ index # Tree(HeadTip)
    /\ IF detached = NoHistory
       THEN /\ branch' = Append(branch, index) /\ UNCHANGED detached
            /\ did' = did \cup {IF part = "squash" THEN "squashed" ELSE "committed"}
       ELSE detached' = Append(detached, index) /\ UNCHANGED <<branch, did>>
    /\ UNCHANGED <<target, files, outside, plan, rest, known, progress, told, unread>>

\* git rev-parse HEAD names the commit.
NameCommit ==
    /\ step = "named"
    /\ new' = HeadTip /\ known' = (detached = NoHistory)
    /\ Goto(IF detached = NoHistory THEN "announce" ELSE "move")
    /\ UNCHANGED <<refs, files, outside, mode, onto, tip, base, staged, old, rest, progress, told, did, unread>>

\* The hash is shown and the post-commit hooks are registered; either may fail.
Announce ==
    /\ step = "announce" /\ Enter("rebase", "rebase")
    /\ progress' = Reported(Removal) /\ known' = FALSE
    /\ UNCHANGED <<refs, files, outside, plan, rest, told, did, unread>>

-----------------------------------------------------------------------------
(* handle_squash_in *)

\* Wrong: always measured against the local target.
ReadTipAgainstTarget ==
    /\ step = "inspect" /\ part = "squash"
    /\ tip' = HeadTip /\ base' = MergeBase(HeadTip, target)
    /\ Goto(IF base' = NoHistory THEN "failed" ELSE "decide")
    /\ UNCHANGED <<refs, files, outside, mode, onto, staged, new, old, rest, report>>

\* head_sha, and the merge base that goes with it: "no common ancestor" is a failure.
ReadTip ==
    /\ step = "inspect" /\ part = "squash"
    /\ tip' = HeadTip /\ base' = MergeBase(HeadTip, Ref(onto))
    /\ Goto(IF base' = NoHistory THEN "failed" ELSE "decide")
    /\ UNCHANGED <<refs, files, outside, mode, onto, staged, new, old, rest, report>>

\* NoCommitsAhead, AlreadySingleCommit, a plain commit, or a squash with or without a backup.
Decide ==
    /\ step = "decide"
    /\ staged' = (index # Tree(HeadTip))
    /\ LET commits == Len(tip) - Len(base) IN
        IF commits <= 1 /\ ~staged' THEN Enter("rebase", "rebase")
        ELSE Goto(IF commits = 0 THEN "commit" ELSE IF staged' THEN "backup" ELSE "tree")
    /\ UNCHANGED <<refs, files, outside, mode, onto, tip, base, new, old, rest, report>>

\* create_safety_backup: the index, on top of HEAD.
Backup ==
    /\ step = "backup" /\ Goto("tree")
    /\ backup' = backup \cup {[parent |-> HeadTip, tree |-> index]}
    /\ UNCHANGED <<refs, files, outside, plan, rebasing, gone, report>>

\* The message is generated; write-tree then tells whether there is anything left to commit.
WriteTree ==
    /\ step = "tree"
    /\ Goto(IF index = Tree(base) THEN "cancel" ELSE "detach")
    /\ UNCHANGED <<refs, files, outside, plan, rest, report>>

\* NoNetChanges: the branch goes to the merge base.
Cancel ==
    /\ step = "cancel" /\ branch = tip
    /\ branch' = base /\ Enter("rebase", "rebase")
    /\ UNCHANGED <<target, detached, files, outside, plan, rest, report>>

\* git update-ref --no-deref HEAD <merge_base> <head_sha>
Detach ==
    /\ step = "detach" /\ HeadTip = tip
    /\ detached' = base /\ Goto("commit")
    /\ UNCHANGED <<target, branch, files, outside, plan, rest, report>>

\* Wrong: git update-ref <branch> <new>, with no expected value.
MoveBranchBlindly ==
    /\ step = "move"
    /\ branch' = new /\ known' = TRUE /\ did' = did \cup {"squashed"} /\ Goto("reattach")
    /\ UNCHANGED <<target, detached, files, outside, plan, rest, progress, told, unread>>

\* git update-ref <branch> <new> <head_sha>; ORIG_HEAD, which nothing reads, is left out.
MoveBranch ==
    /\ step = "move"
    /\ IF branch = tip
       THEN branch' = new /\ known' = TRUE /\ did' = did \cup {"squashed"} /\ Goto("reattach")
       ELSE UNCHANGED <<branch, known, did>> /\ Goto("putBack")
    /\ UNCHANGED <<target, detached, files, outside, plan, rest, progress, told, unread>>

\* git symbolic-ref HEAD <branch>, at the end of the squash or after its failure.
Reattach ==
    /\ step \in {"reattach", "putBack"}
    /\ \/ detached' = NoHistory /\ Goto(IF step = "reattach" THEN "announce" ELSE "failed") /\ UNCHANGED <<progress, told>>
       \/ told' = TRUE /\ Goto("failed") /\ progress' = (IF known THEN Reported(Removal) ELSE progress)
          /\ UNCHANGED detached
    /\ UNCHANGED <<target, branch, files, outside, plan, rest, known, did, unread>>

-----------------------------------------------------------------------------
(* handle_rebase, or the ancestry check of --no-rebase *)

DecideRebase ==
    /\ step = "rebase"
    /\ \/ Goto(IF Ancestor(target, HeadTip) THEN "preMerge" ELSE "failed") /\ UNCHANGED <<onto, overtaken>>
       \/ onto' = Span /\ overtaken' = {}
          /\ Goto(IF Ancestor(Ref(onto'), HeadTip) THEN "preMerge"
                  ELSE IF MergeBase(HeadTip, Ref(onto')) = NoHistory THEN "failed" ELSE "gitRebase")
    /\ UNCHANGED <<refs, files, upstream, made, behind, users, mode, tip, base, staged, new, old, rest, report>>

\* The commits of h above b, each with the change it makes, on top of t: what some commit up to the
\* i-th changed is as the i-th has it, and the rest as t has it.
Changed(h, b, i) == {p \in Pieces : \E j \in (Len(b) + 1)..i : (p \in h[j - 1]) # (p \in h[j])}
Replay(h, b, t) ==
    t \o [k \in 1..(Len(h) - Len(b)) |->
            LET i == Len(b) + k IN (Tree(t) \ Changed(h, b, i)) \cup (h[i] \cap Changed(h, b, i))]

\* git rebase --no-update-refs refuses uncommitted changes, carries untracked files along, and checks out
\* what it replays onto and each replayed commit, up to one that an untracked file is in the way of.
Untracked == work \ index
Rebasable == index = Tree(HeadTip) /\ index \subseteq work
Replayed == Replay(branch, MergeBase(branch, Ref(onto)), Ref(onto))
Reaches(k) == \A i \in Len(Ref(onto))..k : Untracked \cap Replayed[i] = {}
GitRebase ==
    /\ step = "gitRebase" /\ Goto("rebased")
    /\ Rebasable /\ Reaches(Len(Replayed))
    /\ branch' = Replayed
    /\ index' = Tree(branch') /\ work' = Tree(branch') \cup Untracked
    /\ did' = did \cup {"rebased"}
    /\ UNCHANGED <<target, detached, outside, plan, rest, known, progress, told, unread>>

\* It stops at a conflict or is interrupted, with HEAD on what it has replayed.
RebaseStops ==
    /\ step = "gitRebase" /\ Goto("failed")
    /\ Rebasable
    /\ \E k \in Len(Ref(onto))..(Len(Replayed) - 1) : Reaches(k) /\ detached' = SubSeq(Replayed, 1, k)
    /\ rebasing' = TRUE
    /\ index' = Tree(detached') /\ work' = Tree(detached') \cup Untracked
    /\ UNCHANGED <<target, branch, outside, plan, backup, gone, report>>

\* operation_in_progress finds nothing left over.
Rebased ==
    /\ step = "rebased" /\ Goto("preMerge")
    /\ progress' = [progress EXCEPT !.rebased = TRUE]
    /\ UNCHANGED <<refs, files, outside, plan, rest, known, told, did, unread>>

-----------------------------------------------------------------------------
(* The pre-merge hook, and the landing: AdvanceTarget has it in full *)

PreMerge ==
    /\ step = "preMerge" /\ Enter("push", "prepare")
    /\ Hook
    /\ UNCHANGED <<refs, index, upstream, behind, overtaken, users, plan, rest, report>>

\* MergeContext::prepare; a target that is at HEAD already counts as merged.
Prepare ==
    /\ step = "prepare"
    /\ old' = target /\ new' = HeadTip
    /\ known' = (target = HeadTip) /\ did' = IF target = HeadTip THEN did \cup {"merged"} ELSE did
    /\ Goto(IF ~Ancestor(target, HeadTip) THEN "failed" ELSE IF target = HeadTip THEN "landed" ELSE "advance")
    /\ UNCHANGED <<refs, files, outside, mode, onto, tip, base, staged, rest, progress, told, unread>>

\* A compare-and-swap to HEAD, or to a merge commit with HEAD's tree; one that is refused or
\* taken back is a failure without a result (Fail).
Advance ==
    /\ step = "advance" /\ target = old
    /\ target' \in {new, Append(new, Tree(new))}
    /\ known' = TRUE /\ did' = did \cup {"merged"} /\ Goto("landed")
    /\ UNCHANGED <<branch, detached, files, outside, plan, rest, progress, told, unread>>

\* The target's worktree refuses the sync after somebody committed on top: the advance cannot be taken
\* back, and is a failure without a result too.
Strand ==
    /\ step = "advance" /\ target = old /\ users < MaxUser /\ users' = users + 1
    /\ \E p \in Pieces, t \in {new, Append(new, Tree(new))} : WriteNew(p) /\ target' = Append(t, Tree(t) \cup {p})
    /\ did' = did \cup {"merged"} /\ unread' = {"merged"} /\ Goto("failed")
    /\ UNCHANGED <<branch, detached, files, upstream, behind, overtaken, plan, rest, known, progress, told>>

Landed ==
    /\ step = "landed" /\ Enter("finish", "finish")
    /\ progress' = Reported(Removal) /\ known' = FALSE
    /\ UNCHANGED <<refs, files, outside, plan, rest, told, did, unread>>

-----------------------------------------------------------------------------
(* finish_after_merge *)

\* --no-remove, the target itself, the primary worktree, a locked one, one that holds another.
Keep ==
    /\ step = "finish" /\ Goto("finished") /\ known' = TRUE
    /\ UNCHANGED <<refs, files, outside, plan, rest, progress, told, did, unread>>

\* ensure_clean and compute_integration_reason: the branch is to go if it is integrated as it is now.
PlanRemoval ==
    /\ step = "finish" /\ ~Dirty /\ Goto("remove")
    /\ old' = IF Tree(branch) \subseteq Tree(target) THEN branch ELSE NoHistory
    /\ UNCHANGED <<refs, files, outside, mode, onto, tip, base, staged, new, rest, report>>

\* The removal looks again before it takes anything, and the branch goes by compare-and-swap:
\* WorktreeRemoval has it in full.
TakeDown ==
    /\ step = "remove" /\ Goto("finished") /\ ~Dirty
    /\ gone' = TRUE /\ index' = {} /\ work' = {}
    /\ branch' = IF branch = old THEN NoHistory ELSE branch
    /\ known' = TRUE /\ did' = did \cup {"removed"}
    /\ UNCHANGED <<target, detached, outside, plan, backup, rebasing, progress, told, unread>>

\* The post-merge hooks are registered and the announcer is flushed.
Finish ==
    /\ step = "finished" /\ Goto("done")
    /\ progress' = Reported(Removal)
    /\ UNCHANGED <<refs, files, outside, plan, rest, known, told, did, unread>>

MergeNext ==
    \/ Edit \/ EditAndAdd \/ EditAndCommit \/ LandOnBranch \/ MoveTarget \/ TakeTargetBack \/ Publish \/ Repair \/ Rerun
    \/ Gates \/ Fail \/ Kill
    \/ Stage \/ SkipHook \/ PreCommit \/ Restage \/ CommitStaged \/ GitCommit \/ NameCommit \/ Announce
    \/ ReadTip \/ Decide \/ Backup \/ WriteTree \/ Cancel \/ Detach \/ MoveBranch \/ Reattach
    \/ DecideRebase \/ GitRebase \/ RebaseStops \/ Rebased
    \/ PreMerge \/ Prepare \/ Advance \/ Strand \/ Landed \/ Keep \/ PlanRemoval \/ TakeDown \/ Finish

MergeSpec == MergeInit /\ [][MergeNext]_mergeVars

-----------------------------------------------------------------------------
(* Properties *)

\* Wherever the command fails or is killed, and is run again as it left things, whatever the user and
\* other processes do meanwhile, every piece of work is in the worktree or in a history: "the branch keeps
\* its commits until the commit exists" (squash.rs).  And once a squash has swept staged changes in, a
\* backup tells them from the very commits it replaced.  Two things are not promised.  What another wt
\* landed on the branch behind a detached HEAD stays in the branch until the command is run again, no
\* longer: the index stages its removal, which a second run commits or squashes in.  What the target gives
\* up again is kept where the worktree has it, unless the removal of the worktree was settled before.
WorkKept ==
    /\ made \subseteq work \cup Content(branch) \cup Content(target) \cup Content(upstream)
    /\ behind \subseteq Content(branch)
    /\ "squashed" \in did /\ staged /\ tip # base => \E b \in backup : b.parent = tip

\* A command that ended on its own reports each kind of change that it made to a branch, and no other:
\* "later errors carry the result" (merge.rs, finish.rs).  It does not know, nor report, of the one effect
\* that failed while it was read back: a commit whose hash git rev-parse does not give (commit.rs:199), a
\* rebase whose end operation_in_progress does not confirm (rebase.rs:75), an advance of the target that
\* could not be rolled back (push.rs:488).  A squash that finds no net changes is no squash to the report,
\* though it moves the branch to the merge base (squash.rs:402).
Kinds == {"committed", "squashed", "rebased", "merged"}
ReportedAsDone ==
    step \in {"done", "failed"} =>
        /\ {k \in Kinds : progress[k]} = (did \cap Kinds) \ unread
        /\ gone <=> progress.removed = "removed"

\* A command that ended on its own leaves HEAD on the branch, unless it said that it could not,
\* left a rebase for the user to finish, or refused at its gates.
HeadReattached == step \in {"done", "failed"} => detached = NoHistory \/ told \/ rebasing \/ part = "gates"

\* Commits the branch shares with the upstream are never folded into others: "commits already published
\* there are never folded into the squash commit" (squash.rs:177-179).  That is said of what is published when
\* span_upstream looks, and while the target it settled on keeps it: commits published after that, and
\* commits that the target gives up before the merge base is read (squash.rs:180-204), are folded.
PublishedKept ==
    [][branch' # NoHistory =>
        \A h \in Prefixes(upstream) \ overtaken : h # NoHistory /\ Ancestor(h, branch) => Ancestor(h, branch')]_mergeVars
=============================================================================
