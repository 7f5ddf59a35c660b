----------------------------- MODULE TrashDrain -----------------------------
(***************************************************************************)
(* The trash of removed worktrees and the detached drains that empty it.   *)
(*                                                                         *)
(* A removal renames the worktree into <common>/wt/trash and then either   *)
(* deletes the staged directory itself (foreground) or makes sure that a   *)
(* detached drain will (background): it probes the drain lock and starts a *)
(* drain unless one holds the lock.  `wt remove` ends with a sweep that    *)
(* does the same for entries an interrupted run left behind.  A drain owns *)
(* the lock while it deletes and looks at the trash once more after it has *)
(* released the lock.                                                      *)
(*                                                                         *)
(* Its specification is TrashSpec: RemovalProofs extends this module and   *)
(* WorktreeRemoval.                                                        *)
(*                                                                         *)
(* src/src/git/remove.rs     staged_trash_entries, trash_drain_running,    *)
(*                           drain_trash                                   *)
(* src/src/output/handlers.rs    execute_instant_removal_or_fallback       *)
(* src/src/commands/process.rs   sweep_trash                               *)
(***************************************************************************)
EXTENDS Naturals, FiniteSets

CONSTANTS
    Commands,   \* wt processes that remove worktrees
    Sweepers,   \* those that are `wt remove`, which sweeps; the others are merge, prune, the picker
    Drains,     \* slots for detached `wt _drain-trash` processes
    Entries,    \* names an entry of the trash can have (registration id and timestamp)
    Stubborn,   \* entries no drain can fully delete (another user's files)
    Nobody,     \* the free lock
    MaxFaults   \* bound on crashes and failed spawns

ASSUME TrashAssumption ==
    /\ Sweepers \subseteq Commands
    /\ Stubborn \subseteq Entries
    /\ Commands \cap Drains = {}
    /\ Nobody \notin Commands \cup Drains
    /\ MaxFaults \in Nat

VARIABLES
    trash,      \* entries of the trash directory
    unused,     \* worktrees not staged yet
    lock,       \* holder of <trash_dir>.lock
    cpc,        \* program counter of a command
    sweeping,   \* commands past their removals
    mine,       \* the entry a foreground command deletes itself
    dpc,        \* program counter of a drain slot
    pending,    \* what a drain still deletes of the listing it took
    undeletable,\* what a drain failed to delete
    faults,     \* crashes and failed spawns so far
    orphaned    \* history: entries a fault may have left without an owner

trashVars == <<trash, unused, lock, cpc, sweeping, mine, dpc, pending, undeletable, faults, orphaned>>
commandVars == <<cpc, sweeping, mine>>
drainVars == <<dpc, pending, undeletable>>

\* A process killed by a signal drops its lock: the kernel releases a file lock with its holder.
LockWithout(p) == IF lock = p THEN Nobody ELSE lock

\* try_lock: WouldBlock when anyone holds the file lock.
WouldBlock == lock # Nobody

TrashInit ==
    /\ trash = {}
    /\ unused = Entries
    /\ lock = Nobody
    /\ cpc = [c \in Commands |-> "removing"]
    /\ sweeping = {}
    /\ mine = [c \in Commands |-> {}]
    /\ dpc = [d \in Drains |-> "none"]
    /\ pending = [d \in Drains |-> {}]
    /\ undeletable = [d \in Drains |-> {}]
    /\ faults = 0
    /\ orphaned = {}

-----------------------------------------------------------------------------
(* Wrong variants of operations below, used to show that each property can fail *)

\* A removal that stages and trusts whatever drain may be running.
StageWithoutProbing(c) ==
    /\ cpc[c] = "removing"
    /\ \E e \in unused :
        /\ trash' = trash \cup {e}
        /\ unused' = unused \ {e}
    /\ UNCHANGED <<lock, commandVars, drainVars, faults, orphaned>>

\* A drain that does not ask for the lock.
TryLockIgnoringHolder(d) ==
    /\ dpc[d] = "try"
    /\ lock' = d
    /\ dpc' = [dpc EXCEPT ![d] = "list"]
    /\ UNCHANGED <<trash, unused, commandVars, pending, undeletable, faults, orphaned>>

\* A drain that lists again what it could not delete.
ListEverything(d) ==
    /\ dpc[d] = "list"
    /\ pending' = [pending EXCEPT ![d] = trash]
    /\ dpc' = [dpc EXCEPT ![d] = IF trash = {} THEN "unlock" ELSE "delete"]
    /\ UNCHANGED <<trash, unused, lock, commandVars, undeletable, faults, orphaned>>

\* A drain that deletes the whole directory instead of the listing it took.
DeleteWholeTrash(d) ==
    /\ dpc[d] = "delete"
    /\ trash' = trash \cap Stubborn
    /\ undeletable' = [undeletable EXCEPT ![d] = trash']
    /\ pending' = [pending EXCEPT ![d] = {}]
    /\ dpc' = [dpc EXCEPT ![d] = "list"]
    /\ UNCHANGED <<unused, lock, commandVars, faults, orphaned>>

\* A drain that exits right after it released the lock.
ExitWithoutRecheck(d) ==
    /\ dpc[d] = "recheck"
    /\ dpc' = [dpc EXCEPT ![d] = "none"]
    /\ pending' = [pending EXCEPT ![d] = {}]
    /\ undeletable' = [undeletable EXCEPT ![d] = {}]
    /\ UNCHANGED <<trash, unused, lock, commandVars, faults, orphaned>>

-----------------------------------------------------------------------------
(* Commands *)

\* The rename of a background removal: from here on the command will probe.
StageInBackground(c) ==
    /\ cpc[c] = "removing"
    /\ \E e \in unused :
        /\ trash' = trash \cup {e}
        /\ unused' = unused \ {e}
    /\ cpc' = [cpc EXCEPT ![c] = "probe"]
    /\ orphaned' = {}
    /\ UNCHANGED <<lock, sweeping, mine, drainVars, faults>>

\* The rename of a foreground removal, whose caller deletes the staged path itself.
StageInForeground(c) ==
    /\ cpc[c] = "removing"
    /\ \E e \in unused :
        /\ trash' = trash \cup {e}
        /\ unused' = unused \ {e}
        /\ mine' = [mine EXCEPT ![c] = {e}]
    /\ cpc' = [cpc EXCEPT ![c] = "cleanup"]
    /\ UNCHANGED <<lock, sweeping, drainVars, faults, orphaned>>

\* cleanup_staged_with_progress: no lock is taken, so it can race a drain for the same entry.
CleanupStaged(c) ==
    /\ cpc[c] = "cleanup"
    /\ trash' = trash \ (mine[c] \ Stubborn)
    /\ mine' = [mine EXCEPT ![c] = {}]
    /\ cpc' = [cpc EXCEPT ![c] = "removing"]
    /\ UNCHANGED <<unused, lock, sweeping, drainVars, faults, orphaned>>

\* The command has no target left; `wt remove` goes on to the sweep, the others end.
FinishRemovals(c) ==
    /\ cpc[c] = "removing"
    /\ cpc' = [cpc EXCEPT ![c] = IF c \in Sweepers THEN "sweep" ELSE "done"]
    /\ UNCHANGED <<trash, unused, lock, sweeping, mine, drainVars, faults, orphaned>>

\* sweep_trash: nothing to do for an empty trash, otherwise probe as a removal does.
Sweep(c) ==
    /\ cpc[c] = "sweep"
    /\ sweeping' = sweeping \cup {c}
    /\ IF trash = {}
       THEN /\ cpc' = [cpc EXCEPT ![c] = "done"]
            /\ UNCHANGED orphaned
       ELSE /\ cpc' = [cpc EXCEPT ![c] = "probe"]
            /\ orphaned' = {}
    /\ UNCHANGED <<trash, unused, lock, mine, drainVars, faults>>

AfterProbe(c) == IF c \in sweeping THEN "done" ELSE "removing"

\* trash_drain_running: held by somebody means a drain is running, so start none.
ProbeFindsDrain(c) ==
    /\ cpc[c] = "probe"
    /\ WouldBlock
    /\ cpc' = [cpc EXCEPT ![c] = AfterProbe(c)]
    /\ UNCHANGED <<trash, unused, lock, sweeping, mine, drainVars, faults, orphaned>>

\* The probe gets the lock for an instant ...
ProbeTakesLock(c) ==
    /\ cpc[c] = "probe"
    /\ ~WouldBlock
    /\ lock' = c
    /\ cpc' = [cpc EXCEPT ![c] = "holding"]
    /\ UNCHANGED <<trash, unused, sweeping, mine, drainVars, faults, orphaned>>

\* ... and closes the file.
ProbeDropsLock(c) ==
    /\ cpc[c] = "holding"
    /\ lock' = Nobody
    /\ cpc' = [cpc EXCEPT ![c] = "spawn"]
    /\ UNCHANGED <<trash, unused, sweeping, mine, drainVars, faults, orphaned>>

SpawnDrain(c) ==
    /\ cpc[c] = "spawn"
    /\ \E d \in Drains :
        /\ dpc[d] = "none"
        /\ dpc' = [dpc EXCEPT ![d] = "try"]
    /\ cpc' = [cpc EXCEPT ![c] = AfterProbe(c)]
    /\ UNCHANGED <<trash, unused, lock, sweeping, mine, pending, undeletable, faults, orphaned>>

-----------------------------------------------------------------------------
(* Drains *)

ExitDrain(d) ==
    /\ dpc' = [dpc EXCEPT ![d] = "none"]
    /\ pending' = [pending EXCEPT ![d] = {}]
    /\ undeletable' = [undeletable EXCEPT ![d] = {}]

TryLock(d) ==
    /\ dpc[d] = "try"
    /\ IF WouldBlock
       THEN /\ ExitDrain(d)
            /\ UNCHANGED lock
       ELSE /\ lock' = d
            /\ dpc' = [dpc EXCEPT ![d] = "list"]
            /\ UNCHANGED <<pending, undeletable>>
    /\ UNCHANGED <<trash, unused, commandVars, faults, orphaned>>

\* One pass starts: what is in the trash and has not failed already.
ListPending(d) ==
    /\ dpc[d] = "list"
    /\ pending' = [pending EXCEPT ![d] = trash \ undeletable[d]]
    /\ dpc' = [dpc EXCEPT ![d] = IF trash \subseteq undeletable[d] THEN "unlock" ELSE "delete"]
    /\ UNCHANGED <<trash, unused, lock, commandVars, undeletable, faults, orphaned>>

\* remove_dir_with_progress on one entry of the pass, in readdir's order.
DeleteEntry(d) ==
    /\ dpc[d] = "delete"
    /\ \E e \in pending[d] :
        /\ pending' = [pending EXCEPT ![d] = @ \ {e}]
        /\ trash' = trash \ ({e} \ Stubborn)
        /\ undeletable' = [undeletable EXCEPT ![d] = @ \cup ({e} \cap Stubborn)]
    /\ dpc' = [dpc EXCEPT ![d] = IF pending'[d] = {} THEN "list" ELSE "delete"]
    /\ UNCHANGED <<unused, lock, commandVars, faults, orphaned>>

DropLock(d) ==
    /\ dpc[d] = "unlock"
    /\ lock' = Nobody
    /\ dpc' = [dpc EXCEPT ![d] = "recheck"]
    /\ UNCHANGED <<trash, unused, commandVars, pending, undeletable, faults, orphaned>>

\* The listing after the release: exit only if nothing new was staged meanwhile.
Recheck(d) ==
    /\ dpc[d] = "recheck"
    /\ IF trash \subseteq undeletable[d]
       THEN ExitDrain(d)
       ELSE /\ dpc' = [dpc EXCEPT ![d] = "try"]
            /\ UNCHANGED <<pending, undeletable>>
    /\ UNCHANGED <<trash, unused, lock, commandVars, faults, orphaned>>

-----------------------------------------------------------------------------
(* Faults: what the sweep exists for *)

Fault ==
    /\ faults < MaxFaults
    /\ faults' = faults + 1
    /\ orphaned' = trash

SpawnFails(c) ==
    /\ cpc[c] = "spawn"
    /\ Fault
    /\ cpc' = [cpc EXCEPT ![c] = AfterProbe(c)]
    /\ UNCHANGED <<trash, unused, lock, sweeping, mine, drainVars>>

CommandDies(c) ==
    /\ cpc[c] # "done"
    /\ Fault
    /\ cpc' = [cpc EXCEPT ![c] = "done"]
    /\ mine' = [mine EXCEPT ![c] = {}]
    /\ lock' = LockWithout(c)
    /\ UNCHANGED <<trash, unused, sweeping, drainVars>>

DrainDies(d) ==
    /\ dpc[d] # "none"
    /\ Fault
    /\ ExitDrain(d)
    /\ lock' = LockWithout(d)
    /\ UNCHANGED <<trash, unused, commandVars>>

-----------------------------------------------------------------------------

CommandStep(c) ==
    \/ CleanupStaged(c) \/ FinishRemovals(c) \/ Sweep(c)
    \/ ProbeFindsDrain(c) \/ ProbeTakesLock(c) \/ ProbeDropsLock(c) \/ SpawnDrain(c)

DrainStep(d) ==
    \/ TryLock(d) \/ ListPending(d) \/ DeleteEntry(d) \/ DropLock(d) \/ Recheck(d)

TrashNext ==
    \/ \E c \in Commands :
        \/ StageInBackground(c) \/ StageInForeground(c) \/ CommandStep(c)
        \/ SpawnFails(c) \/ CommandDies(c)
    \/ \E d \in Drains : DrainStep(d) \/ DrainDies(d)

TrashSpec == TrashInit /\ [][TrashNext]_trashVars

\* The operating system keeps scheduling every live process; nobody has to start a removal.
Fairness ==
    /\ \A c \in Commands : WF_trashVars(CommandStep(c))
    /\ \A d \in Drains : WF_trashVars(DrainStep(d))

FairSpec == TrashSpec /\ Fairness

-----------------------------------------------------------------------------
(* Properties *)

TrashTypeOK ==
    /\ trash \subseteq Entries
    /\ unused \subseteq Entries
    /\ lock \in Commands \cup Drains \cup {Nobody}
    /\ cpc \in [Commands -> {"removing", "probe", "holding", "spawn", "cleanup", "sweep", "done"}]
    /\ sweeping \subseteq Commands
    /\ mine \in [Commands -> SUBSET Entries]
    /\ dpc \in [Drains -> {"none", "try", "list", "delete", "unlock", "recheck"}]
    /\ pending \in [Drains -> SUBSET Entries]
    /\ undeletable \in [Drains -> SUBSET Stubborn]
    /\ faults \in 0..MaxFaults
    /\ orphaned \subseteq Entries

\* At most one drain per trash directory is between its lock and its unlock, so at most one
\* detached process deletes: drain_trash's "one drain per trash directory does the deleting".
OneDeleter ==
    \A d1, d2 \in Drains :
        dpc[d1] \in {"list", "delete", "unlock"} /\ dpc[d2] \in {"list", "delete", "unlock"} => d1 = d2

\* Someone will still look at e: a drain that has not finished its last listing, a command that
\* has yet to probe or to start a drain, or the foreground command that staged e.
Covered(e) ==
    \/ \E d \in Drains : dpc[d] # "none"
    \/ \E c \in Commands : cpc[c] \in {"probe", "holding", "spawn"}
    \/ \E c \in Commands : cpc[c] = "cleanup" /\ e \in mine[c]

\* No removal is forgotten.  Whatever the order of renames, probes, drain starts and drain exits,
\* a deletable entry in the trash has somebody who will list the trash after it was staged, unless
\* a fault may have orphaned it and no command has probed since.  This is the claim behind both
\* shortcuts of the code: a removal that starts no drain because the lock is held, and a drain that
\* exits because the lock is held (by another drain, or by a probe for an instant).
EveryEntryCovered ==
    \A e \in trash \ (Stubborn \cup orphaned) : Covered(e)

\* Everything that can be deleted is deleted, or a fault happened and nobody removed anything since.
StagedIsDeleted ==
    \A e \in Entries \ Stubborn : (e \in trash \ orphaned) ~> (e \notin trash \ orphaned)

Promise == INSTANCE TrashPromise WITH trash <- trash, unused <- unused, orphaned <- orphaned

\* The protocol implements the abstract trash: no step of a command or a drain removes an entry it
\* was not to delete, removes two at once, or brings one back.
ImplementsPromise == Promise!Spec

\* A drain that meets entries it cannot delete still ends: they are not retried in a loop.
DrainsExit ==
    \A d \in Drains : (dpc[d] # "none") ~> (dpc[d] = "none")
=============================================================================
