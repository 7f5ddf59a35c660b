------------------------------ MODULE Relocate ------------------------------
(***************************************************************************)
(* wt step relocate: move every worktree to the path its branch implies.   *)
(*                                                                         *)
(* Worktrees may stand on each other's paths.  The command moves what it   *)
(* can, pass after pass; when a pass moves nothing it takes one worktree   *)
(* to a staging directory, and puts such worktrees in place at the end.    *)
(* The main worktree cannot be moved: it goes back to the default branch   *)
(* and its branch gets a new worktree.                                     *)
(*                                                                         *)
(* src/src/commands/relocate.rs, src/src/commands/step/relocate.rs         *)
(***************************************************************************)
EXTENDS Naturals, Sequences, FiniteSets

CONSTANTS
    Branches,
    Default,       \* the default branch
    Paths,         \* where a worktree may be expected
    Root,          \* the path of the main worktree
    Expectations,  \* what the worktree-path template may yield
    None,
    MaxChanges,    \* bound on what others change
    MaxRuns        \* bound on runs

Staging == {<<"staging", i, b>> : i \in 1..Cardinality(Branches), b \in Branches}
Inside == (Paths \cup Staging) \X Branches
Places == Paths \cup Staging \cup Inside

ASSUME RelocateAssumption ==
    /\ IsFiniteSet(Branches) /\ Default \in Branches /\ Root \in Paths
    /\ Expectations \subseteq {e \in [Branches -> Paths] : e[Default] = Root}
    /\ Paths \cap (Staging \cup Inside) = {}
    /\ None \notin Branches \cup Places
    /\ MaxChanges \in Nat /\ MaxRuns \in Nat \ {0}

VARIABLES
    expected,   \* expected_worktree_path
    at,         \* where the branch is checked out
    obstacles,  \* paths of directories that are no worktrees
    refused,    \* worktrees git does not move: with submodules, or locked since they were validated
    changes,    \* changes made by others
    created,    \* paths others created during the run
    pc, runs, clobber,
    pending,    \* the worktrees to move, in order
    start,      \* at, when they were gathered
    locations,  \* current_locations: who of them is on a path
    moved, blocked,
    temps,      \* those in staging, in order
    relocated,  \* those reported as relocated
    next,       \* position of the pass in pending
    progress,   \* the pass moved or blocked something
    passes      \* passes begun

world == <<expected, at, obstacles>>
others == <<refused, changes, created>>
plan == <<runs, clobber, pending, start>>
loop == <<next, progress, passes>>
done == <<moved, blocked, temps, relocated>>
vars == <<world, others, pc, plan, locations, done, loop>>

Occupied(place) == \E b \in Branches : at[b] = place
Exists(place) == place = Root \/ place \in obstacles \/ Occupied(place)
Pending == {pending[i] : i \in 1..Len(pending)}
IsMain(b) == locations[Root] = b

Orders(S) == {s \in [1..Cardinality(S) -> S] : \A i, j \in DOMAIN s : s[i] = s[j] => i = j}

Init ==
    /\ expected \in Expectations
    /\ at \in {a \in [Branches -> Paths \cup {None}] :
                /\ \A b, c \in Branches : a[b] = a[c] => b = c \/ a[b] = None
                /\ \A b \in Branches \ {Default} : a[b] # None}
    /\ obstacles \in {O \in SUBSET (Paths \ {Root}) : \A b \in Branches : at[b] \notin O}
    /\ refused = {} /\ changes = 0 /\ created = {}
    /\ pc = "idle" /\ runs = 0 /\ clobber = FALSE /\ pending = <<>> /\ start = at
    /\ locations = [p \in Paths |-> None]
    /\ moved = {} /\ blocked = {} /\ temps = <<>> /\ relocated = {}
    /\ next = 1 /\ progress = FALSE /\ passes = 1

\* gather_candidates and validate_candidates: the misplaced worktrees, without those not asked for,
\* the locked ones, and a main worktree with changes.
Plan ==
    /\ pc = "idle"
    /\ \E S \in SUBSET {b \in Branches : at[b] \notin {expected[b], None}} :
        /\ S # {}
        /\ pending' \in Orders(S)
        /\ locations' = [p \in Paths |-> IF \E b \in S : at[b] = p THEN CHOOSE b \in S : at[b] = p ELSE None]
    /\ start' = at /\ clobber' \in BOOLEAN
    /\ pc' = "classify"
    /\ UNCHANGED <<world, others, runs, done, loop>>

\* RelocationExecutor::new: what stands on a target and is not to move itself.
Classify ==
    LET inTheWay == {b \in Pending : Exists(expected[b]) /\ locations[expected[b]] = None}
        worktrees == {b \in inTheWay : expected[b] = Root \/ \E c \in Branches : start[c] = expected[b]}
    IN
    /\ pc = "classify"
    /\ blocked' = IF clobber THEN worktrees ELSE inTheWay
    /\ obstacles' = IF clobber THEN obstacles \ {expected[b] : b \in inTheWay \ worktrees} ELSE obstacles
    /\ pc' = "pass"
    /\ UNCHANGED <<expected, at, others, plan, locations, moved, temps, relocated, loop>>

\* A backup cannot be made; earlier ones stay.
ClassifyFails ==
    /\ pc = "classify" /\ clobber
    /\ \E b \in Pending : expected[b] \in obstacles
    /\ \E O \in SUBSET {expected[b] : b \in Pending} : obstacles' = obstacles \ O
    /\ pc' = "failed"
    /\ UNCHANGED <<expected, at, others, plan, locations, done, loop>>

-----------------------------------------------------------------------------
(* One pass over the pending worktrees *)

Turn(b) == pc = "pass" /\ next <= Len(pending) /\ pending[next] = b /\ b \notin moved \cup blocked
Advance(done_something) == next' = next + 1 /\ progress' = (progress \/ done_something) /\ UNCHANGED passes
Fail == pc' = "failed" /\ UNCHANGED <<world, others, plan, locations, done, loop>>

\* is_target_empty
Target(b) ==
    IF ~Exists(expected[b]) THEN "empty"
    ELSE IF locations[expected[b]] = None THEN "foreign"
    ELSE IF locations[expected[b]] \in moved THEN "empty" ELSE "occupied"

\* git worktree move puts a worktree into a directory that is there already.
Moved(b, place) == [at EXCEPT ![b] = IF Exists(place) THEN <<place, b>> ELSE place]

PassOver(b) ==
    /\ pc = "pass" /\ next <= Len(pending) /\ pending[next] = b /\ b \in moved \cup blocked
    /\ Advance(FALSE)
    /\ UNCHANGED <<world, others, pc, plan, locations, done>>

MoveLinked(b) ==
    /\ Turn(b) /\ Target(b) = "empty" /\ ~IsMain(b) /\ b \notin refused
    /\ at' = Moved(b, expected[b])
    /\ moved' = moved \cup {b} /\ relocated' = relocated \cup {b}
    /\ Advance(TRUE)
    /\ UNCHANGED <<expected, obstacles, others, pc, plan, locations, blocked, temps>>

MoveLinkedFails(b) ==
    /\ Turn(b) /\ Target(b) = "empty" /\ ~IsMain(b) /\ b \in refused
    /\ Fail

\* move_main_worktree: git switch, then git worktree add.
SwitchMain(b) ==
    /\ Turn(b) /\ Target(b) = "empty" /\ IsMain(b) /\ at[Default] = None
    /\ at' = [at EXCEPT ![b] = None, ![Default] = Root]
    /\ pc' = "add"
    /\ UNCHANGED <<expected, obstacles, others, plan, locations, done, loop>>

\* The default branch is checked out elsewhere.
SwitchMainFails(b) ==
    /\ Turn(b) /\ Target(b) = "empty" /\ IsMain(b) /\ at[Default] # None
    /\ Fail

AddMain(b) ==
    /\ pc = "add" /\ pending[next] = b /\ ~Exists(expected[b])
    /\ at' = [at EXCEPT ![b] = expected[b]]
    /\ moved' = moved \cup {b} /\ relocated' = relocated \cup {b}
    /\ Advance(TRUE)
    /\ pc' = "pass"
    /\ UNCHANGED <<expected, obstacles, others, plan, locations, blocked, temps>>

AddMainFails(b) ==
    /\ pc = "add" /\ pending[next] = b /\ Exists(expected[b])
    /\ Fail

\* Wrong: who waits for a worktree that cannot move goes on waiting, and looks like part of a cycle.
WaitForBlocked(b) ==
    /\ Turn(b) /\ Target(b) = "occupied" /\ locations[expected[b]] \in blocked
    /\ Advance(FALSE)
    /\ UNCHANGED <<world, others, pc, plan, locations, done>>

\* The occupant will not leave, so neither can b arrive.
Block(b) ==
    /\ Turn(b) /\ Target(b) = "occupied" /\ locations[expected[b]] \in blocked
    /\ blocked' = blocked \cup {b}
    /\ Advance(TRUE)
    /\ UNCHANGED <<world, others, pc, plan, locations, moved, temps, relocated>>

\* Wrong: waiting counts as progress.
WaitInProgress(b) ==
    /\ Turn(b) /\ Target(b) = "occupied" /\ locations[expected[b]] \notin blocked
    /\ Advance(TRUE)
    /\ UNCHANGED <<world, others, pc, plan, locations, done>>

\* Wrong: a cycle is taken for a blocked target.
WaitBlocked(b) ==
    /\ Turn(b) /\ Target(b) = "occupied" /\ locations[expected[b]] \notin blocked
    /\ blocked' = blocked \cup {b}
    /\ Advance(TRUE)
    /\ UNCHANGED <<world, others, pc, plan, locations, moved, temps, relocated>>

Wait(b) ==
    /\ Turn(b) /\ Target(b) = "occupied" /\ locations[expected[b]] \notin blocked
    /\ Advance(FALSE)
    /\ UNCHANGED <<world, others, pc, plan, locations, done>>

\* Something appeared on the target since it was classified.
SkipForeign(b) ==
    /\ Turn(b) /\ Target(b) = "foreign"
    /\ blocked' = blocked \cup {b}
    /\ Advance(FALSE)
    /\ UNCHANGED <<world, others, pc, plan, locations, moved, temps, relocated>>

-----------------------------------------------------------------------------
(* Between passes *)

Remaining == Pending \ (moved \cup blocked)
PassEnds == pc = "pass" /\ next > Len(pending)
NextPass == next' = 1 /\ progress' = FALSE /\ passes' = passes + 1

Repeat ==
    /\ PassEnds /\ progress
    /\ NextPass
    /\ UNCHANGED <<world, others, pc, plan, locations, done>>

\* The first one that is not the main worktree, or else the first one.
Chosen(i) ==
    /\ pending[i] \in Remaining
    /\ IsMain(pending[i]) => Remaining = {pending[i]}
    /\ \A j \in 1..i - 1 : pending[j] \in Remaining => IsMain(pending[j])

BreakCycle(i) ==
    LET b == pending[i] IN
    /\ PassEnds /\ ~progress /\ Chosen(i) /\ ~IsMain(b) /\ b \notin refused
    /\ at' = Moved(b, <<"staging", i, b>>)
    /\ locations' = [p \in Paths |-> IF locations[p] = b THEN None ELSE locations[p]]
    /\ temps' = Append(temps, b) /\ moved' = moved \cup {b}
    /\ NextPass
    /\ UNCHANGED <<expected, obstacles, others, pc, plan, blocked, relocated>>

BreakCycleFails(i) ==
    /\ PassEnds /\ ~progress /\ Chosen(i) /\ (IsMain(pending[i]) \/ pending[i] \in refused)
    /\ Fail

\* Wrong: the command ends with worktrees in staging.
FinishEarly ==
    /\ PassEnds /\ ~progress /\ Remaining = {}
    /\ pc' = "done"
    /\ UNCHANGED <<world, others, plan, locations, done, loop>>

PassesEnd ==
    /\ PassEnds /\ ~progress /\ Remaining = {}
    /\ pc' = "finalize"
    /\ UNCHANGED <<world, others, plan, locations, done, loop>>

\* finalize_temp_relocations
Finalize(b) ==
    /\ pc = "finalize" /\ temps # <<>> /\ b = Head(temps) /\ b \notin refused
    /\ at' = Moved(b, expected[b])
    /\ temps' = Tail(temps) /\ relocated' = relocated \cup {b}
    /\ UNCHANGED <<expected, obstacles, others, pc, plan, locations, moved, blocked, loop>>

FinalizeFails(b) ==
    /\ pc = "finalize" /\ temps # <<>> /\ b = Head(temps) /\ b \in refused
    /\ Fail

Finish ==
    /\ pc = "finalize" /\ temps = <<>>
    /\ pc' = "done"
    /\ UNCHANGED <<world, others, plan, locations, done, loop>>

-----------------------------------------------------------------------------
(* Everybody else *)

Active == pc \notin {"idle", "done", "failed", "killed"}

Refuse(b) ==
    /\ changes < MaxChanges /\ changes' = changes + 1
    /\ Active /\ b \notin refused /\ refused' = refused \cup {b}
    /\ UNCHANGED <<world, created, pc, plan, locations, done, loop>>

Create(p) ==
    /\ changes < MaxChanges /\ changes' = changes + 1
    /\ Active /\ ~Exists(p) /\ obstacles' = obstacles \cup {p} /\ created' = created \cup {p}
    /\ UNCHANGED <<expected, at, refused, pc, plan, locations, done, loop>>

Kill ==
    /\ Active /\ pc' = "killed"
    /\ UNCHANGED <<world, others, plan, locations, done, loop>>

\* The user runs the command again, and has dealt with what git refused to move.
RunAgain ==
    /\ pc \in {"done", "failed", "killed"} /\ runs + 1 < MaxRuns
    /\ runs' = runs + 1 /\ pc' = "idle"
    /\ refused' = {} /\ created' = {}
    /\ moved' = {} /\ blocked' = {} /\ temps' = <<>> /\ relocated' = {}
    /\ next' = 1 /\ progress' = FALSE /\ passes' = 1 /\ pending' = <<>>
    /\ UNCHANGED <<world, changes, clobber, start, locations>>

Next ==
    \/ Plan \/ Classify \/ ClassifyFails \/ Repeat \/ PassesEnd \/ Finish \/ Kill \/ RunAgain
    \/ \E b \in Branches :
        \/ PassOver(b) \/ MoveLinked(b) \/ MoveLinkedFails(b) \/ SwitchMain(b) \/ SwitchMainFails(b)
        \/ AddMain(b) \/ AddMainFails(b) \/ Block(b) \/ Wait(b) \/ SkipForeign(b)
        \/ Finalize(b) \/ FinalizeFails(b) \/ Refuse(b)
    \/ \E i \in 1..Len(pending) : BreakCycle(i) \/ BreakCycleFails(i)
    \/ \E p \in Paths : Create(p)

Spec == Init /\ [][Next]_vars

-----------------------------------------------------------------------------
(* Properties *)

\* Every variable keeps its type; no worktree is both moved and skipped; those in staging count as
\* moved (RelocationExecutor).
TypeOK ==
    /\ expected \in Expectations
    /\ at \in [Branches -> Places \cup {None}] /\ start \in [Branches -> Places \cup {None}]
    /\ obstacles \subseteq Paths /\ created \subseteq Paths
    /\ refused \subseteq Branches /\ changes \in 0..MaxChanges
    /\ pc \in {"idle", "classify", "pass", "add", "finalize", "done", "failed", "killed"}
    /\ runs \in 0..MaxRuns - 1 /\ clobber \in BOOLEAN
    /\ pending \in Seq(Branches) /\ Len(pending) <= Cardinality(Branches)
    /\ locations \in [Paths -> Branches \cup {None}]
    /\ moved \subseteq Pending /\ blocked \subseteq Pending /\ moved \cap blocked = {}
    /\ relocated \subseteq moved /\ temps \in Seq(moved)
    /\ next \in 1..Len(pending) + 1 /\ progress \in BOOLEAN /\ passes \in Nat

\* "A worktree that was successfully relocated": what a run that nobody disturbs reports as relocated
\* is at its expected path (RelocatedEntry, move_worktree, finalize_temp_relocations).
RelocatedIsThere == created = {} => \A b \in relocated : at[b] = expected[b]

\* Who cannot move: its target is, or will remain, taken.  The main worktree is at Root on whatever
\* branch, or on none.
Stays(X) == \A b \in Pending :
    \/ b \in X
    \/ /\ expected[b] \notin obstacles
       /\ \A c \in Branches : start[c] = expected[b] => c \in Pending \ X
       /\ expected[b] = Root => \E c \in Branches : start[c] = Root

\* Undisturbed, a run skips exactly the worktrees whose chain of occupants ends at something that does
\* not move, every other one, swaps and longer cycles included, is relocated (execute).
SkipsExactlyTheBlocked ==
    pc = "done" /\ created = {} =>
        /\ relocated = Pending \ blocked
        /\ Stays(blocked) /\ \A X \in SUBSET Pending : Stays(X) => blocked \subseteq X

\* The passes end: each but the last moves or blocks a worktree, or one goes to staging after it (execute).
PassesAreFew == passes <= Len(pending) + 1
=============================================================================
