------------------------------ MODULE Promote -------------------------------
(***************************************************************************)
(* wt step promote: the branch of a linked worktree and the branch of the  *)
(* main worktree change places, and each branch's gitignored files follow  *)
(* it through <git-dir>/wt/staging/promote.                                *)
(*                                                                         *)
(* The staging directory belongs to no process: a later promote that finds *)
(* it refuses, and any step of a promote can be its last.                  *)
(*                                                                         *)
(* src/src/commands/step/promote.rs                                        *)
(***************************************************************************)
EXTENDS Naturals, FiniteSets

CONSTANTS
    Promoters,   \* wt step promote processes
    Main,        \* the main worktree
    Linked,      \* the linked worktrees
    Branches,
    FirstHeads,  \* the possible first checkouts, functions from worktrees to branches
    Names,       \* relative paths
    Tracked,     \* the names each branch tracks
    Included,    \* the names .worktreeinclude lets through
    Fresh,       \* a file written while promotes run
    None,
    Concurrent,  \* whether promotes may overlap
    MaxBuilds    \* bound on files written while promotes run

Worktrees == {Main} \cup Linked
Sides == {"a", "b"}    \* staging/promote/a holds the main worktree's files, /b the target's

\* A file is its home branch and its name: ignored on that branch, so not tracked there.
Files == {f \in Branches \X Names : f[2] \notin Tracked[f[1]]}

ASSUME PromoteAssumption ==
    /\ Main \notin Linked
    /\ FirstHeads \subseteq [Worktrees -> Branches]
    /\ Tracked \in [Branches -> SUBSET Names]
    /\ IsFiniteSet(Names) /\ Included \subseteq Names
    /\ None \notin Branches \cup Files \cup {Fresh}
    /\ Fresh \notin Files
    /\ Concurrent \in BOOLEAN /\ MaxBuilds \in Nat

VARIABLES
    head,    \* the branch of each worktree, None when detached
    disk,    \* the untracked file at each name of each worktree
    staged,  \* the file at each name of each side of the staging directory
    exists,  \* the staging directory exists
    builds,  \* files written so far
    pc,      \* where each promote is
    job,     \* what it has read: worktree, branches, entries, and the count it staged
    todo,    \* the entries left in its loop
    owned    \* history: the files there were at the start

vars == <<head, disk, staged, exists, builds, pc, job, todo, owned>>

Content == Files \cup {Fresh, None}
Jobs == [target : Linked, mainBranch : Branches \cup {None}, targetBranch : Branches \cup {None},
         entries : [Sides -> SUBSET Names], count : 0..(2 * Cardinality(Names))]
Empty == [s \in Sides |-> [n \in Names |-> None]]

Init ==
    /\ head \in FirstHeads
    /\ \E found \in SUBSET Files :
        disk = [w \in Worktrees |-> [n \in Names |->
                    IF <<head[w], n>> \in found /\ n \notin Tracked[head[w]] THEN <<head[w], n>> ELSE None]]
    /\ owned = {f \in Files : \E w \in Worktrees : disk[w][f[2]] = f}
    /\ staged = Empty /\ exists = FALSE
    /\ builds = 0
    /\ pc = [p \in Promoters |-> "start"]
    /\ job \in [Promoters -> {j \in Jobs : /\ j.mainBranch = None /\ j.targetBranch = None
                                           /\ j.entries = [s \in Sides |-> {}] /\ j.count = 0}]
    /\ todo = [p \in Promoters |-> {}]

Running(p) == pc[p] \notin {"start", "done", "failed"}
Goto(p, l) == pc' = [pc EXCEPT ![p] = l]
Step(p, from, to) == pc[p] = from /\ Goto(p, to)

\* The worktree a side's files come from, and the one they go to.
Source(p, s) == IF s = "a" THEN Main ELSE job[p].target
Destination(p, s) == IF s = "a" THEN job[p].target ELSE Main

-----------------------------------------------------------------------------
(* Everything around a promote *)

\* A build writes an ignored file.
Build(w, n) ==
    /\ builds < MaxBuilds
    /\ disk[w][n] = None /\ head[w] # None /\ n \notin Tracked[head[w]]
    /\ disk' = [disk EXCEPT ![w][n] = Fresh]
    /\ builds' = builds + 1
    /\ UNCHANGED <<head, staged, exists, pc, job, todo, owned>>

\* A kill, or an error of git or of the file system.
Fail(p) ==
    /\ Running(p)
    /\ Goto(p, "failed")
    /\ UNCHANGED <<head, disk, staged, exists, builds, job, todo, owned>>

-----------------------------------------------------------------------------
(* handle_promote *)

Duplicated(b) == Cardinality({w \in Worktrees : head[w] = b}) > 1

\* The worktree list is read once; both worktrees must be on branches of their own.
Start(p) ==
    /\ Step(p, "start", "leftover")
    /\ Concurrent \/ ~\E q \in Promoters : Running(q)
    /\ LET t == job[p].target
       IN  /\ head[Main] # None /\ head[t] # None /\ head[t] # head[Main]
           /\ ~Duplicated(head[Main]) /\ ~Duplicated(head[t])
           /\ job' = [job EXCEPT ![p].mainBranch = head[Main], ![p].targetBranch = head[t]]
    /\ UNCHANGED <<head, disk, staged, exists, builds, todo, owned>>

\* check_leftover_staging
CheckLeftover(p) ==
    /\ Step(p, "leftover", "list")
    /\ ~exists
    /\ UNCHANGED <<head, disk, staged, exists, builds, job, todo, owned>>

Listed(w) ==
    {n \in Included : disk[w][n] # None /\ (head[w] # None => n \notin Tracked[head[w]])}

\* Wrong: lists the main worktree only.
ListMain(p) ==
    LET entries == [s \in Sides |-> IF s = "a" THEN Listed(Main) ELSE {}]
    IN  /\ Step(p, "list", IF Listed(Main) = {} THEN "detachTarget" ELSE "mkdir")
        /\ job' = [job EXCEPT ![p].entries = entries]
        /\ UNCHANGED <<head, disk, staged, exists, builds, todo, owned>>

\* list_and_filter_ignored_entries, by the rules of the branches before the exchange.
List(p) ==
    LET entries == [s \in Sides |-> Listed(Source(p, s))]
    IN  /\ Step(p, "list", IF \A s \in Sides : entries[s] = {} THEN "detachTarget" ELSE "mkdir")
        /\ job' = [job EXCEPT ![p].entries = entries]
        /\ UNCHANGED <<head, disk, staged, exists, builds, todo, owned>>

OpenStaging(p) ==
    /\ Step(p, "mkdir", "stage a")
    /\ exists' = TRUE
    /\ todo' = [todo EXCEPT ![p] = job[p].entries["a"]]
    /\ UNCHANGED <<head, disk, staged, builds, job, owned>>

\* move_entry into the staging directory, which it creates again if need be; an entry that has
\* gone since the listing is passed over.
StageEntry(p, s, n) ==
    /\ pc[p] = (IF s = "a" THEN "stage a" ELSE "stage b") /\ n \in todo[p]
    /\ todo' = [todo EXCEPT ![p] = @ \ {n}]
    /\ LET w == Source(p, s)
       IN  IF disk[w][n] = None
           THEN UNCHANGED <<disk, staged, exists, job>>
           ELSE /\ staged' = [staged EXCEPT ![s][n] = disk[w][n]]
                /\ disk' = [disk EXCEPT ![w][n] = None]
                /\ exists' = TRUE
                /\ job' = [job EXCEPT ![p].count = @ + 1]
    /\ UNCHANGED <<head, builds, pc, owned>>

\* Across devices an entry is copied and then removed: killed or refused in between, both remain.
CopyToStagingFails(p, s, n) ==
    /\ Step(p, IF s = "a" THEN "stage a" ELSE "stage b", "failed")
    /\ n \in todo[p] /\ disk[Source(p, s)][n] # None
    /\ staged' = [staged EXCEPT ![s][n] = disk[Source(p, s)][n]]
    /\ exists' = TRUE
    /\ UNCHANGED <<head, disk, builds, job, todo, owned>>

StageOtherSide(p) ==
    /\ Step(p, "stage a", "stage b") /\ todo[p] = {}
    /\ todo' = [todo EXCEPT ![p] = job[p].entries["b"]]
    /\ UNCHANGED <<head, disk, staged, exists, builds, job, owned>>

DeleteStaging == staged' = Empty /\ exists' = FALSE

\* Nothing staged: the staging directory is deleted.
EndStaging(p) ==
    /\ Step(p, "stage b", "detachTarget") /\ todo[p] = {}
    /\ IF job[p].count = 0 /\ exists THEN DeleteStaging ELSE UNCHANGED <<staged, exists>>
    /\ UNCHANGED <<head, disk, builds, job, todo, owned>>

-----------------------------------------------------------------------------
(* exchange_branches *)

Detach(p, from, to, w) ==
    /\ Step(p, from, to)
    /\ head' = [head EXCEPT ![w] = None]
    /\ UNCHANGED <<disk, staged, exists, builds, job, todo, owned>>

\* git switch refuses a branch another worktree has, and writes the branch's tracked files over
\* ignored ones.
Switch(p, from, to, w, b) ==
    /\ Step(p, from, to)
    /\ \A v \in Worktrees \ {w} : head[v] # b
    /\ head' = [head EXCEPT ![w] = b]
    /\ disk' = [disk EXCEPT ![w] = [n \in Names |-> IF n \in Tracked[b] THEN None ELSE @[n]]]
    /\ todo' = [todo EXCEPT ![p] = job[p].entries["b"]]
    /\ UNCHANGED <<staged, exists, builds, job, owned>>

Exchange(p) ==
    \/ Detach(p, "detachTarget", "detachMain", job[p].target)
    \/ Detach(p, "detachMain", "switchMain", Main)
    \/ Switch(p, "switchMain", "switchTarget", Main, job[p].targetBranch)
    \/ Switch(p, "switchTarget", IF job[p].count > 0 THEN "distribute b" ELSE "done",
              job[p].target, job[p].mainBranch)

-----------------------------------------------------------------------------
(* distribute_staged *)

\* Wrong: every file goes back to the worktree it came from.
ReturnEntry(p, s, n) ==
    /\ pc[p] = (IF s = "a" THEN "distribute a" ELSE "distribute b") /\ n \in todo[p]
    /\ todo' = [todo EXCEPT ![p] = @ \ {n}]
    /\ IF staged[s][n] = None
       THEN UNCHANGED <<disk, staged>>
       ELSE /\ disk' = [disk EXCEPT ![Source(p, s)][n] = staged[s][n]]
            /\ staged' = [staged EXCEPT ![s][n] = None]
    /\ UNCHANGED <<head, exists, builds, pc, job, owned>>

\* move_entry onto the worktree that has the branch now, over whatever has come to be there.
DistributeEntry(p, s, n) ==
    /\ pc[p] = (IF s = "a" THEN "distribute a" ELSE "distribute b") /\ n \in todo[p]
    /\ todo' = [todo EXCEPT ![p] = @ \ {n}]
    /\ IF staged[s][n] = None
       THEN UNCHANGED <<disk, staged>>
       ELSE /\ disk' = [disk EXCEPT ![Destination(p, s)][n] = staged[s][n]]
            /\ staged' = [staged EXCEPT ![s][n] = None]
    /\ UNCHANGED <<head, exists, builds, pc, job, owned>>

CopyFromStagingFails(p, s, n) ==
    /\ Step(p, IF s = "a" THEN "distribute a" ELSE "distribute b", "failed")
    /\ n \in todo[p] /\ staged[s][n] # None
    /\ disk' = [disk EXCEPT ![Destination(p, s)][n] = staged[s][n]]
    /\ UNCHANGED <<head, staged, exists, builds, job, todo, owned>>

DistributeOtherSide(p) ==
    /\ Step(p, "distribute b", "distribute a") /\ todo[p] = {}
    /\ todo' = [todo EXCEPT ![p] = job[p].entries["a"]]
    /\ UNCHANGED <<head, disk, staged, exists, builds, job, owned>>

RemoveStaging(p) ==
    /\ Step(p, "distribute a", "done") /\ todo[p] = {}
    /\ DeleteStaging
    /\ UNCHANGED <<head, disk, builds, job, todo, owned>>

Next ==
    \/ \E w \in Worktrees, n \in Names : Build(w, n)
    \/ \E p \in Promoters :
        \/ Fail(p) \/ Start(p) \/ CheckLeftover(p) \/ List(p) \/ OpenStaging(p)
        \/ StageOtherSide(p) \/ EndStaging(p) \/ Exchange(p)
        \/ DistributeOtherSide(p) \/ RemoveStaging(p)
        \/ \E s \in Sides, n \in Names :
            \/ StageEntry(p, s, n) \/ CopyToStagingFails(p, s, n)
            \/ DistributeEntry(p, s, n) \/ CopyFromStagingFails(p, s, n)

Spec == Init /\ [][Next]_vars

-----------------------------------------------------------------------------
(* Properties *)

Labels ==
    {"start", "leftover", "list", "mkdir", "stage a", "stage b", "detachTarget", "detachMain",
     "switchMain", "switchTarget", "distribute b", "distribute a", "done", "failed"}

\* Every variable keeps its type, and a promote past staging that staged something still has the
\* staging directory it will distribute from (the Option that handle_promote carries along).
TypeOK ==
    /\ head \in [Worktrees -> Branches \cup {None}]
    /\ disk \in [Worktrees -> [Names -> Content]]
    /\ staged \in [Sides -> [Names -> Content]]
    /\ exists \in BOOLEAN /\ builds \in 0..MaxBuilds
    /\ pc \in [Promoters -> Labels]
    /\ job \in [Promoters -> Jobs]
    /\ todo \in [Promoters -> SUBSET Names]
    /\ owned \subseteq Files
    /\ \A p \in Promoters : job[p].count > 0 /\ Running(p) => exists

OnDisk(f) == \E w \in Worktrees : disk[w][f[2]] = f
InStaging(f) == exists /\ \E s \in Sides : staged[s][f[2]] = f

\* "git switch silently overwrites ignored files that collide with tracked files on the target
\* branch -- staging them first prevents data loss": every ignored file there was is still
\* somewhere, whatever step a promote stopped at and however many have run.
NoFileLost == \A f \in owned : OnDisk(f) \/ InStaging(f)

\* A file is with its branch or in the staging directory that stops the next promote: no failure
\* leaves it in the worktree of another branch, where the next promote would hand it on.
FilesFollowBranch ==
    \A f \in owned : InStaging(f) \/ \E w \in Worktrees : disk[w][f[2]] = f /\ head[w] = f[1]

\* The staging directory is only ever deleted empty: "Clean up empty staging directory" in
\* stage_ignored, "files are already distributed" in distribute_staged.
OnlyEmptyStagingDeleted ==
    [][exists /\ ~exists' => \A s \in Sides, n \in Names : staged[s][n] = None]_vars
=============================================================================
