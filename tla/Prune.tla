------------------------------- MODULE Prune --------------------------------
(***************************************************************************)
(* `wt step prune`: checks run in parallel and their verdicts stream to    *)
(* the main thread, which queues removals for a pool of workers and keeps  *)
(* the current worktree for itself, for the end.  Removals execute plans   *)
(* the scan made, next to each other and to the user; the first failure    *)
(* drains the queue without executing it, an interruption stops the rest,  *)
(* and the report must hold exactly what was removed.                      *)
(*                                                                         *)
(* The gates inside one worktree removal are those of WorktreeRemoval;     *)
(* here staging a worktree is one step.                                    *)
(*                                                                         *)
(* src/src/commands/step/prune.rs   step_prune, try_remove                 *)
(* src/src/git/ref_deletion.rs      RefDeletionCoordinator                 *)
(* src/src/output/handlers.rs       what a failed removal carries          *)
(***************************************************************************)
EXTENDS Naturals, Sequences

CONSTANTS
    Items,      \* what the gathering found
    Current,    \* the item that is the current worktree
    Branches,
    Workers,    \* removal workers: the rayon threads, at most one per item
    Main,       \* the main thread, which removes the current worktree
    None,       \* no branch, no job, nothing deferred
    Scenarios,  \* kinds and branches the items may have, with and without --foreground
    MaxChanges  \* bound on the steps of the user and other processes

Kinds == {"linked", "entry", "orphan"}
Parts == {"tree", "branch"}

ASSUME PruneAssumption ==
    /\ Current \in Items
    /\ Main \notin Workers
    /\ None \notin Items \cup Branches
    /\ Scenarios \subseteq [kind : [Items -> Kinds], branch : [Items -> Branches \cup {None}],
                             foreground : BOOLEAN]
    /\ \A s \in Scenarios : s.kind[Current] = "linked"
    /\ MaxChanges \in Nat

Threads == Workers \cup {Main}

VARIABLES
    kind,       \* a linked worktree, an entry whose directory is gone, a branch without worktree
    branch,     \* the branch of each item, None when detached
    foreground, \* --foreground: removals of worktrees own the terminal
    at,         \* what is there of each item's worktree: "live", "stale" or "gone"
    dirty,      \* worktrees with uncommitted changes
    ref,        \* each branch: "merged" as in the scan, "moved" to new commits, or "gone"
    changes,    \* steps of the environment so far
    checked,    \* items whose check has sent its verdict
    verdicts,   \* rx: verdicts on their way to the main thread
    jobs,       \* job_rx: removals, and lines to print
    done,       \* done_rx: results of the workers
    abort,      \* the first failing removal or check was seen
    cancelled,  \* the signal of the command operation
    latched,    \* the deletion coordinator saw an interruption
    pc, job,    \* where each thread is, and the item it removes
    said,       \* what the result a thread carries claims was removed
    signalled,  \* the thread's error is an interruption
    err,        \* first_err of the main thread
    deferred,   \* deferred_current
    removed,    \* the main thread's report: what was removed of each item
    took,       \* history: what this command removed of each item
    killed      \* history: items whose branch deletion was killed

items == <<kind, branch, foreground>>
world == <<at, dirty, ref>>
channels == <<checked, verdicts, jobs, done>>
stops == <<abort, cancelled, latched>>
threads == <<pc, job, said, signalled>>
report == <<err, deferred, removed>>
history == <<took, killed>>
vars == <<items, world, changes, channels, stops, threads, report, history>>

\* The states in which a removal holds the output lock.
Removing == {"hook", "stage", "prune", "capture", "topology", "mutex", "update", "classify", "finish"}
Ref(i) == ref[branch[i]]

\* branch_checked_out_at: another worktree of the scan has the branch, so the plan keeps it.
Deletes(i) ==
    /\ branch[i] # None
    /\ \A j \in Items \ {i} : ~(kind[j] = "linked" /\ branch[j] = branch[i])

\* removal_needs_write
NeedsWrite(i) == i = Current \/ (kind[i] = "linked" /\ foreground)

OutputFree(i) ==
    \A u \in Threads : pc[u] \in Removing => ~NeedsWrite(i) /\ ~NeedsWrite(job[u])

Init ==
    /\ \E s \in Scenarios : kind = s.kind /\ branch = s.branch /\ foreground = s.foreground
    /\ at = [i \in Items |-> CASE kind[i] = "linked" -> "live"
                               [] kind[i] = "entry" -> "stale"
                               [] OTHER -> "gone"]
    /\ dirty = {} /\ ref = [b \in Branches |-> "merged"]
    /\ changes = 0
    /\ checked = {} /\ verdicts = <<>> /\ jobs = <<>> /\ done = <<>>
    /\ abort = FALSE /\ cancelled = FALSE /\ latched = FALSE
    /\ pc = [t \in Threads |-> IF t = Main THEN "receive" ELSE "idle"]
    /\ job = [t \in Threads |-> None]
    /\ said = [t \in Threads |-> {}]
    /\ signalled = [t \in Threads |-> FALSE]
    /\ err = FALSE /\ deferred = None /\ removed = [i \in Items |-> {}]
    /\ took = [i \in Items |-> {}] /\ killed = {}

Goto(t, l) == pc' = [pc EXCEPT ![t] = l]
Step(t, from, to) == pc[t] = from /\ Goto(t, to)

-----------------------------------------------------------------------------
(* Everybody else *)

Change ==
    /\ changes < MaxChanges
    /\ changes' = changes + 1
    /\ UNCHANGED <<items, channels, stops, threads, report, history>>

Write(i) ==
    /\ Change /\ at[i] = "live"
    /\ dirty' = dirty \cup {i}
    /\ UNCHANGED <<at, ref>>

MoveBranch(b) ==
    /\ Change /\ ref[b] = "merged" /\ \E i \in Items : branch[i] = b
    /\ ref' = [ref EXCEPT ![b] = "moved"]
    /\ UNCHANGED <<at, dirty>>

DropBranch(b) ==
    /\ Change /\ ref[b] # "gone" /\ \E i \in Items : branch[i] = b
    /\ ref' = [ref EXCEPT ![b] = "gone"]
    /\ UNCHANGED <<at, dirty>>

\* A volume is mounted again, or a worktree moved back.
Return(i) ==
    /\ Change /\ at[i] = "stale"
    /\ at' = [at EXCEPT ![i] = "live"]
    /\ UNCHANGED <<dirty, ref>>

Environment ==
    \/ \E i \in Items : Write(i) \/ Return(i)
    \/ \E b \in Branches : MoveBranch(b) \/ DropBranch(b)

-----------------------------------------------------------------------------
(* The scan and the main thread *)

\* check_one: integrated in the scan's snapshot and removable by wt remove's own gate, or not, or
\* too young, or without consent for its hooks, or the check failed, perhaps by an interruption.
Check(i) ==
    /\ i \notin checked
    /\ checked' = checked \cup {i}
    /\ \E v \in {"remove", "keep", "print", "error", "interrupt"} :
        /\ v = "remove" => i \notin dirty
        /\ v = "print" => kind[i] # "entry"
        /\ verdicts' = Append(verdicts, [item |-> i, verdict |-> v])
    /\ UNCHANGED <<items, world, changes, jobs, done, stops, threads, report, history>>

\* The main thread's loop over the verdicts.
Receive ==
    /\ pc[Main] = "receive" /\ verdicts # <<>>
    /\ verdicts' = Tail(verdicts)
    /\ LET i == Head(verdicts).item
           v == Head(verdicts).verdict
           failed == v \in {"error", "interrupt"}
       IN  /\ abort' = (abort \/ failed) /\ err' = (err \/ failed)
           /\ cancelled' = (cancelled \/ v = "interrupt")
           /\ deferred' = IF v = "remove" /\ i = Current THEN i ELSE deferred
           /\ jobs' = CASE v = "remove" /\ i # Current -> Append(jobs, i)
                        [] v = "print" -> Append(jobs, None)
                        [] OTHER -> jobs
    /\ UNCHANGED <<items, world, changes, checked, done, latched, threads, removed, history>>

\* Every sender is gone and the channel is empty; job_tx is dropped.
EndOfScan ==
    /\ checked = Items /\ verdicts = <<>>
    /\ Step(Main, "receive", "drain")
    /\ UNCHANGED <<items, world, changes, channels, stops, job, said, signalled, report, history>>

Record(i, parts) == removed' = [removed EXCEPT ![i] = @ \cup parts]

\* Wrong: an error is taken for a removal that did not happen.
DrainErrorsEmpty ==
    /\ pc[Main] = "drain" /\ done # <<>>
    /\ done' = Tail(done)
    /\ err' = (err \/ Head(done).err)
    /\ Record(Head(done).item, IF Head(done).err THEN {} ELSE Head(done).said)
    /\ UNCHANGED <<items, world, changes, checked, verdicts, jobs, stops, threads, deferred, history>>

\* An error is kept, and what its removal had completed is reported with the rest.
Drain ==
    /\ pc[Main] = "drain" /\ done # <<>>
    /\ done' = Tail(done)
    /\ err' = (err \/ Head(done).err)
    /\ Record(Head(done).item, Head(done).said)
    /\ UNCHANGED <<items, world, changes, checked, verdicts, jobs, stops, threads, deferred, history>>

\* The workers are gone and every result is in: the current worktree's turn, unless there was an error.
StartLast ==
    /\ pc[Main] = "drain" /\ done = <<>> /\ \A w \in Workers : pc[w] = "exited"
    /\ IF ~err /\ deferred # None
       THEN Goto(Main, "gate") /\ job' = [job EXCEPT ![Main] = deferred]
       ELSE Goto(Main, "over") /\ UNCHANGED job
    /\ UNCHANGED <<items, world, changes, channels, stops, said, signalled, report, history>>

-----------------------------------------------------------------------------
(* Workers *)

\* A line waits for the terminal; a removal is dropped once a sibling failed.
TakeJob(w) ==
    /\ pc[w] = "idle" /\ jobs # <<>>
    /\ jobs' = Tail(jobs)
    /\ LET i == Head(jobs)
       IN  IF i = None THEN Goto(w, "print") /\ UNCHANGED job
           ELSE IF abort THEN UNCHANGED <<pc, job>>
           ELSE Goto(w, "gate") /\ job' = [job EXCEPT ![w] = i]
    /\ UNCHANGED <<items, world, changes, checked, verdicts, done, stops, said, signalled, report, history>>

PrintSkip(w) ==
    /\ Step(w, "print", "idle")
    /\ \A u \in Threads : pc[u] \in Removing => ~NeedsWrite(job[u])
    /\ UNCHANGED <<items, world, changes, channels, stops, job, said, signalled, report, history>>

\* Wrong: the main thread keeps its sender until it is done.
ExitAtTheEnd(w) ==
    /\ jobs = <<>> /\ pc[Main] = "over"
    /\ Step(w, "idle", "exited")
    /\ UNCHANGED <<items, world, changes, channels, stops, job, said, signalled, report, history>>

\* The job channel is closed and empty.
Exit(w) ==
    /\ jobs = <<>> /\ pc[Main] # "receive"
    /\ Step(w, "idle", "exited")
    /\ UNCHANGED <<items, world, changes, channels, stops, job, said, signalled, report, history>>

-----------------------------------------------------------------------------
(* try_remove *)

FirstStep(i) ==
    CASE kind[i] = "linked" -> "hook"
      [] kind[i] = "entry" -> "prune"
      [] OTHER -> "capture"

\* The output lock, then the interrupt check under it.
Gate(t) ==
    /\ pc[t] = "gate" /\ OutputFree(job[t])
    /\ IF cancelled
       THEN Goto(t, "failed") /\ signalled' = [signalled EXCEPT ![t] = TRUE]
       ELSE Goto(t, FirstStep(job[t])) /\ UNCHANGED signalled
    /\ UNCHANGED <<items, world, changes, channels, stops, job, said, report, history>>

\* pre-remove hooks, when there are any.
Hook(t) ==
    /\ Step(t, "hook", "stage")
    /\ UNCHANGED <<items, world, changes, channels, stops, job, said, signalled, report, history>>

\* A terminal interrupt while a hook runs cancels the operation, whatever becomes of the hook.
Interrupt ==
    /\ ~cancelled /\ \E t \in Threads : pc[t] = "hook"
    /\ cancelled' = TRUE
    /\ UNCHANGED <<items, world, changes, channels, abort, latched, threads, report, history>>

Take(t, part) ==
    /\ took' = [took EXCEPT ![job[t]] = @ \cup {part}]
    /\ said' = [said EXCEPT ![t] = @ \cup {part}]

AfterTree(t) == IF Deletes(job[t]) THEN "capture" ELSE "finish"

\* Wrong: the scan found the worktree clean.
StageAsPlanned(t) ==
    /\ Step(t, "stage", AfterTree(t))
    /\ at' = [at EXCEPT ![job[t]] = "gone"] /\ dirty' = dirty \ {job[t]}
    /\ Take(t, "tree")
    /\ UNCHANGED <<items, ref, changes, channels, stops, job, signalled, report, killed>>

\* The worktree is clean and goes to the trash, or is removed in place.
Stage(t) ==
    /\ Step(t, "stage", AfterTree(t))
    /\ job[t] \notin dirty
    /\ at' = [at EXCEPT ![job[t]] = "gone"]
    /\ Take(t, "tree")
    /\ UNCHANGED <<items, dirty, ref, changes, channels, stops, job, signalled, report, killed>>

\* The current worktree could not be renamed: a detached child removes it, and deletes a branch
\* that is integrated.  The command counts this as done.
HandOver(t) ==
    /\ Step(t, "stage", "finish")
    /\ job[t] = Current /\ ~foreground /\ Current \notin dirty
    /\ LET parts == {"tree"} \cup {p \in {"branch"} : Deletes(Current) /\ Ref(Current) = "merged"}
       IN  /\ took' = [took EXCEPT ![Current] = parts]
           /\ said' = [said EXCEPT ![t] = parts]
    /\ UNCHANGED <<items, world, changes, channels, stops, job, signalled, report, killed>>

\* prune_worktree_entry
PruneEntry(t) ==
    /\ Step(t, "prune", AfterTree(t))
    /\ at[job[t]] = "stale"
    /\ at' = [at EXCEPT ![job[t]] = "gone"]
    /\ Take(t, "tree")
    /\ UNCHANGED <<items, dirty, ref, changes, channels, stops, job, signalled, report, killed>>

\* Fresh refs: an unmerged branch is kept; a branch that is gone is an error (see Fail).
Capture(t) ==
    /\ pc[t] = "capture" /\ Ref(job[t]) # "gone"
    /\ Goto(t, IF Ref(job[t]) = "merged" THEN "topology" ELSE "finish")
    /\ UNCHANGED <<items, world, changes, channels, stops, job, said, signalled, report, history>>

\* fresh_branch_checkout
Topology(t) ==
    /\ pc[t] = "topology"
    /\ Goto(t, IF \E j \in Items : at[j] = "live" /\ branch[j] = branch[job[t]] THEN "finish" ELSE "mutex")
    /\ UNCHANGED <<items, world, changes, channels, stops, job, said, signalled, report, history>>

\* Wrong: each deletion stands for itself.
LockDeletionsUnlatched(t) ==
    /\ pc[t] = "mutex" /\ \A u \in Threads : pc[u] \notin {"update", "classify"}
    /\ Goto(t, "update") /\ UNCHANGED signalled
    /\ UNCHANGED <<items, world, changes, channels, stops, job, said, report, history>>

\* The deletion coordinator's mutex and its latch.
LockDeletions(t) ==
    /\ pc[t] = "mutex" /\ \A u \in Threads : pc[u] \notin {"update", "classify"}
    /\ IF latched THEN Goto(t, "failed") /\ signalled' = [signalled EXCEPT ![t] = TRUE]
                  ELSE Goto(t, "update") /\ UNCHANGED signalled
    /\ UNCHANGED <<items, world, changes, channels, stops, job, said, report, history>>

\* git update-ref -d <ref> <tip>
DeleteRef(t) ==
    /\ Step(t, "update", "finish") /\ Ref(job[t]) = "merged"
    /\ ref' = [ref EXCEPT ![branch[job[t]]] = "gone"]
    /\ Take(t, "branch")
    /\ UNCHANGED <<items, at, dirty, changes, channels, stops, job, signalled, report, killed>>

\* The ref moved or went, or the packed-refs lock is somebody's.
DeleteRefuses(t) ==
    /\ Step(t, "update", "classify")
    /\ UNCHANGED <<items, world, changes, channels, stops, job, said, signalled, report, history>>

\* Only a live ref elsewhere is a race; anything else is the error of update-ref (see Fail).
Classify(t) ==
    /\ Step(t, "classify", "finish") /\ Ref(job[t]) = "moved"
    /\ UNCHANGED <<items, world, changes, channels, stops, job, said, signalled, report, history>>

\* git is killed by an interrupt, before or after it deleted the ref.
DeletionKilled(t) ==
    /\ pc[t] \in {"update", "classify"}
    /\ Goto(t, "failed") /\ signalled' = [signalled EXCEPT ![t] = TRUE]
    /\ latched' = TRUE
    /\ \/ UNCHANGED <<ref, took, killed>>
       \/ /\ pc[t] = "update" /\ Ref(job[t]) = "merged"
          /\ ref' = [ref EXCEPT ![branch[job[t]]] = "gone"]
          /\ took' = [took EXCEPT ![job[t]] = @ \cup {"branch"}]
          /\ killed' = killed \cup {job[t]}
    /\ UNCHANGED <<items, at, dirty, changes, channels, abort, cancelled, job, said, report>>

\* Any other step may fail, by itself or by an interruption; try_remove returns what it completed.
Fail(t) ==
    /\ \/ pc[t] \in Removing \ {"mutex", "update", "classify"}
       \/ pc[t] = "classify" /\ Ref(job[t]) # "moved"
    /\ Goto(t, "failed")
    /\ \E s \in BOOLEAN : signalled' = [signalled EXCEPT ![t] = s /\ pc[t] # "classify"]
    /\ UNCHANGED <<items, world, changes, channels, stops, job, said, report, history>>

Result(t, e) ==
    IF t = Main
    THEN /\ Record(job[t], said[t]) /\ err' = (err \/ e)
         /\ Goto(t, "over")
         /\ UNCHANGED <<done, deferred>>
    ELSE /\ done' = Append(done, [item |-> job[t], said |-> said[t], err |-> e])
         /\ Goto(t, "idle")
         /\ UNCHANGED report

\* The hooks are registered and the output flushed; the lock is released with the result.
Succeed(t) ==
    /\ pc[t] = "finish"
    /\ Result(t, FALSE)
    /\ job' = [job EXCEPT ![t] = None] /\ said' = [said EXCEPT ![t] = {}]
    /\ UNCHANGED <<items, world, changes, checked, verdicts, jobs, stops, signalled, history>>

\* The worker has released the lock; abort_removals cancels the operation if this was an
\* interruption, and stops the queue.  The main thread has no queue to stop.
ReportFailure(t) ==
    /\ pc[t] = "failed"
    /\ Result(t, TRUE)
    /\ cancelled' = (cancelled \/ (t # Main /\ signalled[t]))
    /\ abort' = (abort \/ t # Main)
    /\ job' = [job EXCEPT ![t] = None] /\ said' = [said EXCEPT ![t] = {}]
    /\ signalled' = [signalled EXCEPT ![t] = FALSE]
    /\ UNCHANGED <<items, world, changes, checked, verdicts, jobs, latched, history>>

Remove(t) ==
    \/ Gate(t) \/ Hook(t) \/ Stage(t) \/ HandOver(t) \/ PruneEntry(t)
    \/ Capture(t) \/ Topology(t) \/ LockDeletions(t) \/ DeleteRef(t) \/ DeleteRefuses(t) \/ Classify(t)
    \/ DeletionKilled(t) \/ Fail(t) \/ Succeed(t) \/ ReportFailure(t)

MainStep == Receive \/ EndOfScan \/ Drain \/ StartLast \/ Remove(Main)
WorkerStep(w) == TakeJob(w) \/ PrintSkip(w) \/ Exit(w) \/ Remove(w)
Command == MainStep \/ (\E i \in Items : Check(i)) \/ \E w \in Workers : WorkerStep(w)

Next == Environment \/ Interrupt \/ Command

\* As long as some thread can go on, some thread does.
Spec == Init /\ [][Next]_vars /\ WF_vars(Command)

-----------------------------------------------------------------------------
(* Properties *)

\* Every variable keeps its type.
TypeOK ==
    /\ kind \in [Items -> Kinds] /\ branch \in [Items -> Branches \cup {None}]
    /\ foreground \in BOOLEAN
    /\ at \in [Items -> {"live", "stale", "gone"}] /\ dirty \subseteq Items
    /\ ref \in [Branches -> {"merged", "moved", "gone"}]
    /\ changes \in 0..MaxChanges
    /\ checked \subseteq Items
    /\ verdicts \in Seq([item : Items, verdict : {"remove", "keep", "print", "error", "interrupt"}])
    /\ jobs \in Seq(Items \cup {None})
    /\ done \in Seq([item : Items, said : SUBSET Parts, err : BOOLEAN])
    /\ abort \in BOOLEAN /\ cancelled \in BOOLEAN /\ latched \in BOOLEAN
    /\ pc \in [Threads -> Removing \cup {"receive", "drain", "over", "idle", "print", "exited", "gate", "failed"}]
    /\ job \in [Threads -> Items \cup {None}] /\ said \in [Threads -> SUBSET Parts]
    /\ signalled \in [Threads -> BOOLEAN]
    /\ err \in BOOLEAN /\ deferred \in Items \cup {None} /\ removed \in [Items -> SUBSET Parts]
    /\ took \in [Items -> SUBSET Parts] /\ killed \subseteq Items

\* Nothing that came about after the scan is destroyed, although removals execute the scan's plans:
\* no step of a thread takes a worktree with uncommitted changes, the registration of a worktree
\* that came back, or a branch with commits the target does not have.
NothingNewDestroyed ==
    [][\A t \in Threads : pc[t] \in Removing /\ pc'[t] # pc[t] =>
         /\ \A i \in Items : at[i] = "live" /\ at'[i] = "gone" => kind[i] = "linked" /\ i \notin dirty
         /\ \A b \in Branches : ref[b] = "moved" => ref'[b] = "moved"]_vars

\* Once the deletion of one branch was interrupted, none of those queued behind it deletes a branch.
LatchStopsDeletions ==
    [][latched => \A i \in Items : ("branch" \in took'[i]) = ("branch" \in took[i])]_vars

Promise == INSTANCE PrunePromise WITH
    taken <- took, unsure <- killed, failed <- err, last <- job[Main] # None,
    reported <- IF pc[Main] = "over" THEN removed ELSE [i \in Items |-> {}], over <- pc[Main] = "over"

\* The command implements the abstract prune: the current worktree last and only if nothing
\* failed, and a report of exactly what was taken, also of removals that failed half-way.
ImplementsPromise == Promise!Spec

\* Whatever fails or is interrupted, the command ends: the queue drains and every thread exits.
Ends == <>(pc[Main] = "over")
=============================================================================
