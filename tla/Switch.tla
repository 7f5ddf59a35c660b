------------------------------- MODULE Switch -------------------------------
(***************************************************************************)
(* `wt switch`: a branch, a new branch (--create) or a pull request        *)
(* (`pr:N`) is turned into a plan that reads refs, tracking configuration, *)
(* the worktree list (cached per Repository) and the target path; the plan *)
(* is carried out later, next to the user, hooks and other wt commands.    *)
(*                                                                         *)
(* `git worktree add` is a sequence of steps, as in git: it writes the new *)
(* branch, then looks at the path and the other checkouts, registers the   *)
(* worktree, populates it, and runs post-checkout.                         *)
(*                                                                         *)
(* src/src/commands/worktree/switch.rs   resolve, plan_switch, execute_switch *)
(* src/src/commands/backup.rs            back_up_clobbered_path            *)
(* src/src/git/mod.rs                    branch_tracks_ref                 *)
(***************************************************************************)
EXTENDS Naturals

CONSTANTS
    Procs,      \* wt switch commands; each one's new worktree carries its name
    Things,     \* directories and worktrees of everybody else
    Branches,
    Remote,     \* branches the only remote has
    PRs,        \* pull requests from forks
    Prefixed,   \* prefixed_local_branch_name of each, None on GitLab and Azure DevOps
    None,       \* nothing there, no registration, no upstream, no --path, no PR
    Requests,   \* what the commands may be asked, one record per command
    Starts,     \* the repositories they may find
    MaxTries,   \* bound on the backup names -N
    MaxChanges  \* bound on the steps of everybody else

\* The template's path of each branch, and the backup names next to it: commands that
\* move a path aside do so in the same second.
Places == Branches \X (0..MaxTries)
Upstreams == PRs \cup {None, "base"}
Request == [kind : {"plain", "create", "pr"}, branch : Branches, pr : PRs \cup {None},
            path : Branches \cup {None}, clobber : BOOLEAN]

ASSUME SwitchAssumption ==
    /\ Remote \subseteq Branches
    /\ Prefixed \in [PRs -> Branches \cup {None}]
    /\ None \notin Branches \cup Procs \cup Things \cup PRs
    /\ Procs \cap Things = {}
    /\ Requests \subseteq [Procs -> Request]
    /\ \A r \in Requests, p \in Procs : r[p].kind = "pr" => r[p].pr # None
    /\ \A s \in Starts : /\ s.at \in [Places -> Things \cup {None}]
                         /\ s.reg \in [Places -> Branches \cup {None}]
                         /\ s.branches \subseteq Branches
                         /\ s.track \in [Branches -> Upstreams]
    /\ MaxTries \in Nat \ {0} /\ MaxChanges \in Nat

VARIABLES
    at,        \* what is at each place
    reg,       \* the branch git has registered a worktree for at each place
    branches,  \* local branches
    track,     \* branch.<name>.merge (and .remote): a PR's ref, another branch, or unset
    changes,   \* steps of everybody else so far
    request,
    pc,
    method,    \* CreationMethod: "regular", "create" or "fork"
    branch,    \* the branch of each command's plan
    seen,      \* the worktree list each command's Repository has cached, None before
    tries,     \* names tried by back_up_clobbered_path
    existed,   \* local_branch_existed
    told,      \* leftover_branch: the error names the branch as a leftover
    kept,      \* history: what nobody but wt could have destroyed
    won,       \* history: commands whose git worktree add made their branch
    alone      \* history: those of won whose branch nobody else has touched since

world == <<at, reg, branches, track>>
plans == <<request, method, branch, seen, tries, existed>>
history == <<kept, won, alone>>
vars == <<world, changes, plans, pc, told, history>>

Final == {"done", "failed", "interrupted", "killed"}
Snapshot == [reg |-> reg, stale |-> {x \in Places : reg[x] # None /\ at[x] = None}]

Init ==
    /\ \E s \in Starts : at = s.at /\ reg = s.reg /\ branches = s.branches /\ track = s.track
    /\ changes = 0
    /\ request \in Requests
    /\ pc = [p \in Procs |-> IF request[p].kind = "pr" THEN "resolve" ELSE "locate"]
    /\ method = [p \in Procs |-> IF request[p].kind = "create" THEN "create" ELSE "regular"]
    /\ branch = [p \in Procs |-> request[p].branch]
    /\ seen = [p \in Procs |-> None]
    /\ tries = [p \in Procs |-> 0]
    /\ existed = [p \in Procs |-> FALSE]
    /\ told = [p \in Procs |-> FALSE]
    /\ kept = {at[x] : x \in Places} \ {None}
    /\ won = {} /\ alone = {}

Goto(p, l) == pc' = [pc EXCEPT ![p] = l]
Step(p, from, to) == pc[p] = from /\ Goto(p, to)
Fail(p, from) == Step(p, from, "failed") /\ UNCHANGED <<world, changes, plans, told, history>>

Dest(p) == <<IF request[p].path = None THEN branch[p] ELSE request[p].path, 0>>
Held(b) == {x \in Places : reg[x] = b}

-----------------------------------------------------------------------------
(* Everybody else: the user, hooks, other wt commands.                     *)

Change == changes < MaxChanges /\ changes' = changes + 1 /\ UNCHANGED <<plans, pc, told, won>>
TouchBranch(b) == alone' = {p \in alone : branch[p] # b}

MakeBranch(b) ==
    /\ Change /\ b \notin branches
    /\ branches' = branches \cup {b}
    /\ UNCHANGED <<at, reg, track, kept, alone>>

\* git branch -D, which takes the branch's configuration along.
DropBranch(b) ==
    /\ Change /\ b \in branches /\ Held(b) = {}
    /\ branches' = branches \ {b} /\ track' = [track EXCEPT ![b] = None]
    /\ TouchBranch(b)
    /\ UNCHANGED <<at, reg, kept>>

MakeDir(x) ==
    /\ Change /\ at[x] = None
    /\ \E t \in Things \ {at[y] : y \in Places} : at' = [at EXCEPT ![x] = t] /\ kept' = kept \cup {t}
    /\ UNCHANGED <<reg, branches, track, alone>>

AddWorktree(b, x) ==
    /\ Change /\ b \in branches /\ Held(b) = {} /\ reg[x] = None /\ at[x] = None
    /\ reg' = [reg EXCEPT ![x] = b]
    /\ \E t \in Things \ {at[y] : y \in Places} : at' = [at EXCEPT ![x] = t] /\ kept' = kept \cup {t}
    /\ TouchBranch(b)
    /\ UNCHANGED <<branches, track>>

\* wt remove: the compare-and-delete of the branch is `update-ref -d`, which leaves the
\* configuration; or git worktree remove, which keeps the branch.  Both refuse a worktree that
\* git worktree add still holds locked.
RemoveWorktree(x) ==
    /\ Change /\ reg[x] # None /\ at[x] \in kept
    /\ \A p \in Procs : pc[p] = "populate" => Dest(p) # x
    /\ at' = [at EXCEPT ![x] = None] /\ reg' = [reg EXCEPT ![x] = None]
    /\ branches' \in {branches, branches \ {reg[x]}}
    /\ kept' = kept \ {at[x]}
    /\ TouchBranch(reg[x])
    /\ UNCHANGED track

LoseDir(x) ==
    /\ Change /\ at[x] # None
    /\ at' = [at EXCEPT ![x] = None] /\ kept' = kept \ {at[x]}
    /\ UNCHANGED <<reg, branches, track, alone>>

Environment ==
    \/ \E b \in Branches : MakeBranch(b) \/ DropBranch(b)
    \/ \E b \in Branches : MakeDir(<<b, 0>>) \/ MakeDir(<<b, 1>>) \/ AddWorktree(b, <<b, 0>>)
    \/ \E x \in Places : RemoveWorktree(x) \/ LoseDir(x)

-----------------------------------------------------------------------------
(* Resolving: pr:N first, then the argument among the worktrees.           *)

\* branch_tracks_ref: the configuration is asked first, the branch only when it says nothing.
Tracks(b, n) == track[b] = n
Absent(b) == track[b] = None /\ b \notin branches

Resolved(p, how, b) ==
    /\ method' = [method EXCEPT ![p] = how] /\ branch' = [branch EXCEPT ![p] = b]
    /\ UNCHANGED <<world, changes, request, seen, tries, existed, told, history>>

\* resolve_fork_ref: a branch already configured for the PR is adopted, a free name is taken.
ResolveFork(p) ==
    /\ Step(p, "resolve", "locate")
    /\ \/ Tracks(request[p].branch, request[p].pr) /\ Resolved(p, "regular", request[p].branch)
       \/ Absent(request[p].branch) /\ Resolved(p, "fork", request[p].branch)

NameTaken(p) ==
    /\ ~Tracks(request[p].branch, request[p].pr) /\ ~Absent(request[p].branch)
    /\ Step(p, "resolve", IF Prefixed[request[p].pr] = None THEN "failed" ELSE "prefixed")
    /\ UNCHANGED <<world, changes, plans, told, history>>

ResolvePrefixed(p) ==
    LET b == Prefixed[request[p].pr] IN
    /\ pc[p] = "prefixed"
    /\ \/ Tracks(b, request[p].pr) /\ Goto(p, "locate") /\ Resolved(p, "regular", b)
       \/ Absent(b) /\ Goto(p, "locate") /\ Resolved(p, "fork", b)
       \/ ~Tracks(b, request[p].pr) /\ ~Absent(b) /\ Fail(p, "prefixed")

\* SwitchTarget::locate; under --create the argument names no worktree and nothing is read.
Look(p) ==
    /\ seen' = [seen EXCEPT ![p] = IF method[p] = "create" THEN None ELSE Snapshot]
    /\ UNCHANGED <<world, changes, request, method, branch, tries, existed, told, history>>

Locate(p) == Step(p, "locate", "hooks") /\ Look(p)

\* pre-switch hooks: none ran; or some did (their work is the environment's) and the argument is
\* located again on a fresh Repository; or one failed.
NoHooks(p) == Step(p, "hooks", "plan") /\ UNCHANGED <<world, changes, plans, told, history>>
HooksRan(p) == Step(p, "hooks", "plan") /\ Look(p)

-----------------------------------------------------------------------------
(* plan_switch *)

Elsewhere(p) == {x \in Places : seen[p].reg[x] = branch[p]}
IsNew(p) == method[p] # "create" => Elsewhere(p) = {}

PlanExisting(p) ==
    /\ pc[p] = "plan" /\ ~IsNew(p)
    /\ \E x \in Elsewhere(p) :
          IF at[x] # None /\ x \notin seen[p].stale /\ (request[p].path = None \/ x = Dest(p))
          THEN Goto(p, "done") ELSE Goto(p, "failed")
    /\ UNCHANGED <<world, changes, plans, told, history>>

\* creation_method under --create, validate_worktree_creation otherwise; a fork's branch was
\* looked at when the PR was resolved.
BranchFits(p) ==
    CASE method[p] = "create" -> branch[p] \notin branches
      [] method[p] = "regular" -> branch[p] \in branches \cup Remote
      [] OTHER -> TRUE

PlanBranch(p) ==
    /\ Step(p, "plan", IF BranchFits(p) THEN "path" ELSE "failed") /\ IsNew(p)
    /\ UNCHANGED <<world, changes, plans, told, history>>

\* The path must not be a registered worktree's, in the cached list, and must be free or --clobber.
PlanPath(p) ==
    LET list == IF seen[p] = None THEN Snapshot ELSE seen[p] IN
    /\ Step(p, "path", CASE list.reg[Dest(p)] # None -> "failed"
                         [] at[Dest(p)] = None -> "probe"
                         [] OTHER -> IF request[p].clobber THEN "aside" ELSE "failed")
    /\ seen' = [seen EXCEPT ![p] = list]
    /\ UNCHANGED <<world, changes, request, method, branch, tries, existed, told, history>>

-----------------------------------------------------------------------------
(* execute_switch *)

Backup(p) == <<Dest(p)[1], tries[p] + 1>>

\* Wrong: what has the name is replaced.
MoveAsideOver(p) ==
    /\ at[Dest(p)] # None
    /\ Step(p, "aside", "probe")
    /\ at' = [at EXCEPT ![Dest(p)] = None, ![Backup(p)] = at[Dest(p)]]
    /\ UNCHANGED <<reg, branches, track, changes, plans, told, history>>

\* One renameat2(RENAME_NOREPLACE); a name that is taken makes way for the next.
MoveAside(p) ==
    /\ at[Dest(p)] # None /\ at[Backup(p)] = None
    /\ Step(p, "aside", "probe")
    /\ at' = [at EXCEPT ![Dest(p)] = None, ![Backup(p)] = at[Dest(p)]]
    /\ UNCHANGED <<reg, branches, track, changes, plans, told, history>>

NextName(p) ==
    /\ at[Dest(p)] # None /\ at[Backup(p)] # None /\ tries[p] + 1 < MaxTries
    /\ Step(p, "aside", "aside")
    /\ tries' = [tries EXCEPT ![p] = @ + 1]
    /\ UNCHANGED <<world, changes, request, method, branch, seen, existed, told, history>>

NothingToMove(p) == at[Dest(p)] = None /\ Fail(p, "aside")

\* Wrong: tracking is configured before the name is won.
ProbeConfiguring(p) ==
    /\ Step(p, "probe", "add")
    /\ track' = IF method[p] = "fork" THEN [track EXCEPT ![branch[p]] = request[p].pr] ELSE track
    /\ UNCHANGED <<at, reg, branches, changes, plans, told, history>>

\* Does the branch exist (not asked under --create); a fork's ref is fetched instead.
Probe(p) ==
    /\ Step(p, "probe", "add")
    /\ existed' = [existed EXCEPT ![p] = method[p] = "regular" /\ branch[p] \in branches]
    /\ UNCHANGED <<world, changes, request, method, branch, seen, tries, told, history>>

FetchFails(p) == method[p] = "fork" /\ Fail(p, "probe")

\* git worktree add -b: the branch first.
WithNewBranch(p) ==
    method[p] # "regular" \/ (~existed[p] /\ branch[p] \in Remote)

AddBranch(p) ==
    /\ WithNewBranch(p) /\ branch[p] \notin branches
    /\ Step(p, "add", "register")
    /\ branches' = branches \cup {branch[p]}
    /\ track' = IF method[p] = "regular" THEN [track EXCEPT ![branch[p]] = "base"] ELSE track
    /\ won' = won \cup {p} /\ alone' = alone \cup {p}
    /\ UNCHANGED <<at, reg, changes, plans, told, kept>>

UseBranch(p) ==
    /\ ~WithNewBranch(p) /\ branch[p] \in branches
    /\ Step(p, "add", "register")
    /\ UNCHANGED <<world, changes, plans, told, history>>

BranchRefused(p) ==
    /\ WithNewBranch(p) <=> branch[p] \in branches
    /\ Step(p, "add", "broken")
    /\ UNCHANGED <<world, changes, plans, told, history>>

CanRegister(p) ==
    branch[p] \in branches /\ at[Dest(p)] = None /\ reg[Dest(p)] = None /\ Held(branch[p]) = {}

Register(p) ==
    /\ CanRegister(p)
    /\ Step(p, "register", "populate")
    /\ at' = [at EXCEPT ![Dest(p)] = p] /\ reg' = [reg EXCEPT ![Dest(p)] = branch[p]]
    /\ alone' = {q \in alone : q = p \/ branch[q] # branch[p]}
    /\ UNCHANGED <<branches, track, changes, plans, told, kept, won>>

PlaceRefused(p) ==
    /\ ~CanRegister(p)
    /\ Step(p, "register", "broken")
    /\ UNCHANGED <<world, changes, plans, told, history>>

\* git takes its own registration and directory back, never the branch.
Unwind(p) ==
    /\ at' = [at EXCEPT ![Dest(p)] = IF @ = p THEN None ELSE @]
    /\ reg' = [reg EXCEPT ![Dest(p)] = None]
    /\ UNCHANGED <<branches, track, changes, plans, told, history>>

CannotPopulate(p) == Step(p, "populate", "broken") /\ Unwind(p)

\* The worktree stands; post-checkout decides the exit status.
Populate(p) ==
    /\ pc[p] = "populate"
    /\ Goto(p, "created") \/ Goto(p, "broken")
    /\ kept' = IF \E x \in Places : at[x] = p THEN kept \cup {p} ELSE kept
    /\ UNCHANGED <<world, changes, plans, told, won, alone>>

\* Ctrl-C: git unwinds, and wt adds nothing to the error.
Interrupted(p) ==
    /\ pc[p] \in {"add", "register", "populate"} /\ Goto(p, "interrupted")
    /\ IF pc[p] = "populate" THEN Unwind(p)
                             ELSE UNCHANGED <<world, changes, plans, told, history>>

\* failed_add_left_branch, under --create only: the branch, then a fresh worktree list.
LeftoverBranch(p) ==
    /\ Step(p, "broken", IF method[p] = "create" /\ branch[p] \in branches THEN "leftover" ELSE "failed")
    /\ UNCHANGED <<world, changes, plans, told, history>>

\* Wrong: asks the worktree list cached at planning.
LeftoverWorktreeCached(p) ==
    /\ Step(p, "leftover", "failed")
    /\ told' = [told EXCEPT ![p] = Elsewhere(p) = {}]
    /\ UNCHANGED <<world, changes, plans, history>>

LeftoverWorktree(p) ==
    /\ Step(p, "leftover", "failed")
    /\ told' = [told EXCEPT ![p] = Held(branch[p]) = {}]
    /\ UNCHANGED <<world, changes, plans, history>>

\* configure_fork_branch, and the upstream of a --base pr:N, once the name is won; the last write
\* that branch_tracks_ref reads is branch.<name>.merge.
Configure(p) ==
    /\ Step(p, "created", "hook")
    /\ track' = IF request[p].pr = None \/ method[p] = "regular" THEN track
                ELSE [track EXCEPT ![branch[p]] = IF method[p] = "fork" THEN request[p].pr ELSE "base"]
    /\ UNCHANGED <<at, reg, branches, changes, plans, told, history>>

ConfigureFails(p) == method[p] # "regular" /\ request[p].pr # None /\ Fail(p, "created")

\* pre-start hooks, then the switch is recorded.
PreStart(p) ==
    /\ pc[p] = "hook" /\ (Goto(p, "done") \/ Goto(p, "failed"))
    /\ UNCHANGED <<world, changes, plans, told, history>>

Kill(p) ==
    /\ pc[p] \notin Final /\ Goto(p, "killed")
    /\ UNCHANGED <<world, changes, plans, told, history>>

Command(p) ==
    \/ ResolveFork(p) \/ NameTaken(p) \/ ResolvePrefixed(p) \/ Locate(p)
    \/ NoHooks(p) \/ HooksRan(p) \/ Fail(p, "hooks")
    \/ PlanExisting(p) \/ PlanBranch(p) \/ PlanPath(p)
    \/ MoveAside(p) \/ NextName(p) \/ NothingToMove(p)
    \/ Probe(p) \/ FetchFails(p)
    \/ AddBranch(p) \/ UseBranch(p) \/ BranchRefused(p)
    \/ Register(p) \/ PlaceRefused(p) \/ Populate(p) \/ CannotPopulate(p)
    \/ Interrupted(p) \/ LeftoverBranch(p) \/ LeftoverWorktree(p)
    \/ Configure(p) \/ ConfigureFails(p) \/ PreStart(p) \/ Kill(p)

Next == Environment \/ \E p \in Procs : Command(p)
Spec == Init /\ [][Next]_vars

-----------------------------------------------------------------------------
(* Properties *)

\* The state space (not listed as a property of a run).
TypeOK ==
    /\ at \in [Places -> Procs \cup Things \cup {None}]
    /\ reg \in [Places -> Branches \cup {None}]
    /\ branches \subseteq Branches /\ track \in [Branches -> Upstreams]
    /\ changes \in 0..MaxChanges
    /\ method \in [Procs -> {"regular", "create", "fork"}] /\ branch \in [Procs -> Branches]
    /\ tries \in [Procs -> 0..(MaxTries - 1)] /\ existed \in [Procs -> BOOLEAN] /\ told \in [Procs -> BOOLEAN]
    /\ alone \subseteq won /\ won \subseteq Procs

\* However the steps of several --clobber switches, the user and git fall, every directory and
\* worktree nobody else took away is still somewhere: a backup never lands on another
\* (backup.rs, back_up_clobbered_path) and a failed add unwinds nothing but itself.
ContentsKept == kept \subseteq {at[x] : x \in Places}

\* A switch creates branches and writes their tracking configuration, but never writes the
\* configuration of a branch whose name its own git worktree add did not win, and never deletes
\* or takes over a branch (switch.rs, create_fork_worktree: "nothing is written until the name
\* is won").
OthersBranchesUntouched ==
    [][changes' = changes =>
          /\ branches \subseteq branches'
          /\ \A b \in Branches : track'[b] # track[b] => \E p \in won' : branch[p] = b]_vars

\* When `wt switch --create` fails after its git made the branch, and nobody else has touched
\* that branch, the error names it as a leftover exactly when no worktree holds it: also when
\* post-checkout failed with the worktree in place, or when the path was lost to another
\* command after the plan (switch.rs, failed_add_left_branch).
LeftoverNamed ==
    \A p \in alone : pc[p] = "failed" /\ method[p] = "create"
                        => (told[p] <=> Held(branch[p]) = {})

\* "Returns `None` if the branch doesn't exist" (git/mod.rs, branch_tracks_ref): a branch that
\* is adopted as already configured for the PR exists.
AdoptedExists ==
    [][\A p \in Procs : pc[p] \in {"resolve", "prefixed"} /\ pc'[p] = "locate" /\ method'[p] = "regular"
                           => branch'[p] \in branches]_vars
=============================================================================
