----------------------------- MODULE Approvals ------------------------------
(***************************************************************************)
(* The user's own files: approvals.toml, which says which project commands *)
(* may run, and config.toml, which said so before approvals.toml existed.  *)
(*                                                                         *)
(* Many wt processes read and rewrite both.  Each file is replaced by a    *)
(* rename, and each has a lock of its own beside it; plain reads take no   *)
(* lock, and wt config update rewrites config.toml without one.            *)
(*                                                                         *)
(* src/src/config/approvals.rs, src/src/commands/command_approval.rs,      *)
(* src/src/commands/hook_plan.rs, src/src/commands/config/approvals.rs,    *)
(* src/src/commands/config/update.rs, src/src/config/user/mutation.rs      *)
(***************************************************************************)
EXTENDS FiniteSets

CONSTANTS
    Procs,           \* wt processes
    Jobs,            \* the commands they may be
    Projects,
    Keys,            \* the keys of [projects."..."]
    Patterns,        \* those that contain a *
    Current,         \* a project's own key
    Exact,           \* its own key and the one v0.80.0 computed
    Commands,        \* command templates
    Norm,            \* a template with its deprecated variables renamed
    ProjectConfigs,  \* what a worktree's .config/wt.toml may declare: sets of pipelines
    Settings,        \* flags wt writes to config.toml
    FirstApprovals,  \* approvals to start from
    None

Entries == [Keys -> SUBSET Commands]
AllJobs == {"run", "runYes", "readonly", "add", "clear", "clearStale", "clearAll", "update", "set"}
Matching(q) == Exact[q] \cup Patterns

ASSUME ApprovalsAssumption ==
    /\ Jobs \subseteq AllJobs
    /\ Patterns \subseteq Keys
    /\ Current \in [Projects -> Keys] /\ Exact \in [Projects -> SUBSET Keys]
    /\ \A q \in Projects : Current[q] \in Exact[q]
    /\ \A q, r \in Projects : q # r => Exact[q] \cap Exact[r] = {}
    /\ Norm \in [Commands -> Commands] /\ \A c \in Commands : Norm[Norm[c]] = Norm[c]
    /\ ProjectConfigs \subseteq SUBSET SUBSET Commands
    /\ FirstApprovals \subseteq Entries
    /\ None \notin Entries \cup Procs

VARIABLES
    file,        \* approvals.toml, or None
    config,      \* config.toml: approved-commands, other deprecated settings, flags
    lock,        \* holder of approvals.toml.lock
    configLock,  \* holder of config.toml.lock
    pc, job, project,
    plan,        \* the pipelines a process selected from .config/wt.toml
    loaded,      \* the approvals it read
    snapshot,    \* the config.toml it read
    ask,         \* the commands it asks the user about
    granted,     \* history: what the user had remembered under each key, and did not take back
    seen,        \* history: granted when the process looked for the file, or when it read it
    consented,   \* history: what the user let this process run
    ran          \* history: what it ran

files == <<file, config>>
locks == <<lock, configLock>>
own == <<job, project, plan, loaded, snapshot, ask>>
history == <<granted, seen, consented, ran>>
vars == <<files, locks, pc, own, history>>

NoEntries == [k \in Keys |-> {}]
Normal(C) == {Norm[c] : c \in C}
Granted(q) == UNION {granted[k] : k \in Matching(q)}

\* Once approvals.toml exists it alone counts.
Authority == IF file = None THEN config.legacy ELSE file

\* is_command_approved: any matching key; templates are compared by their current variable names.
Effective(entries, q) == Normal(UNION {entries[k] : k \in Matching(q)})
Approved(entries, q, c) == Norm[c] \in Effective(entries, q)

Init ==
    /\ \E a, b \in FirstApprovals, d \in BOOLEAN :
        /\ config = [legacy |-> a, deprecated |-> d, settings |-> {}]
        /\ file \in {None, b}
    /\ granted = [k \in Keys |-> Normal(Authority[k])]
    /\ lock = None /\ configLock = None
    /\ pc = [p \in Procs |-> "start"]
    /\ job = [p \in Procs |-> None] /\ project = [p \in Procs |-> None]
    /\ plan = [p \in Procs |-> {}] /\ ask = [p \in Procs |-> {}]
    /\ loaded = [p \in Procs |-> NoEntries] /\ snapshot = [p \in Procs |-> None]
    /\ seen = [p \in Procs |-> {}]
    /\ consented = [p \in Procs |-> {}] /\ ran = [p \in Procs |-> {}]

Goto(p, l) == pc' = [pc EXCEPT ![p] = l]
Step(p, from, to) == pc[p] = from /\ Goto(p, to)

\* A run goes on whether or not its approvals could be saved; the other commands end there.
Conclude(p) == IF job[p] = "run" THEN "execute" ELSE "done"

First(j) ==
    CASE j \in {"run", "runYes"} -> "select"
      [] j = "update" -> "preview"
      [] j = "set" -> "lockConfig"
      [] OTHER -> "look"

Start(p) ==
    /\ pc[p] = "start"
    /\ \E j \in Jobs, q \in Projects :
        /\ job' = [job EXCEPT ![p] = j] /\ project' = [project EXCEPT ![p] = q]
        /\ Goto(p, First(j))
    /\ UNCHANGED <<files, locks, plan, loaded, snapshot, ask, history>>

-----------------------------------------------------------------------------
(* HookPlanBuilder::add and HookPlan::approve: the pipelines are selected   *)
(* once, from the configuration of the worktree at that moment              *)

Select(p) ==
    /\ pc[p] = "select"
    /\ \E s \in ProjectConfigs :
        /\ plan' = [plan EXCEPT ![p] = s]
        /\ Goto(p, IF UNION s = {} \/ job[p] = "runYes" THEN "execute" ELSE "look")
        /\ consented' = [consented EXCEPT ![p] = IF job[p] = "runYes" THEN UNION s ELSE {}]
    /\ UNCHANGED <<files, locks, job, project, loaded, snapshot, ask, granted, seen, ran>>

\* Wrong: the configuration is read again when the hooks run.
ExecuteCurrentConfig(p) ==
    /\ Step(p, "execute", "done")
    /\ \E s \in ProjectConfigs : ran' = [ran EXCEPT ![p] = IF plan[p] = {} THEN {} ELSE UNION s]
    /\ UNCHANGED <<files, locks, own, granted, seen, consented>>

\* The operation has by now changed the worktree; the plan has not changed.
Execute(p) ==
    /\ Step(p, "execute", "done")
    /\ ran' = [ran EXCEPT ![p] = UNION plan[p]]
    /\ UNCHANGED <<files, locks, own, granted, seen, consented>>

-----------------------------------------------------------------------------
(* Approvals::load, without a lock *)

\* path.exists()
Look(p) ==
    /\ pc[p] = "look"
    /\ Goto(p, IF file = None THEN "readConfig" ELSE "read")
    /\ seen' = [seen EXCEPT ![p] = Granted(project[p])]
    /\ UNCHANGED <<files, locks, own, granted, consented, ran>>

Read(p) ==
    /\ pc[p] \in {"read", "readConfig"}
    /\ loaded' = [loaded EXCEPT ![p] = IF pc[p] = "read" THEN file ELSE config.legacy]
    /\ seen' = [seen EXCEPT ![p] = @ \cup Granted(project[p])]
    /\ Goto(p, "loaded")
    /\ UNCHANGED <<files, locks, job, project, plan, snapshot, ask, granted, consented, ran>>

\* approve_command_batch
Gate(p) ==
    LET needs == {c \in UNION plan[p] : ~Approved(loaded[p], project[p], c)} IN
    /\ pc[p] = "loaded" /\ job[p] = "run"
    /\ ask' = [ask EXCEPT ![p] = needs]
    /\ Goto(p, IF needs = {} THEN "execute" ELSE "prompt")
    /\ consented' = [consented EXCEPT ![p] = {c \in Commands : Norm[c] \in seen[p]}]
    /\ UNCHANGED <<files, locks, job, project, plan, loaded, snapshot, granted, seen, ran>>

\* approve_readonly: a pipeline runs when every command of it is approved.
Filter(p) ==
    /\ pc[p] = "loaded" /\ job[p] = "readonly"
    /\ \E s \in ProjectConfigs : plan' =
        [plan EXCEPT ![p] = {w \in s : \A c \in w : Approved(loaded[p], project[p], c)}]
    /\ Goto(p, "execute")
    /\ consented' = [consented EXCEPT ![p] = {c \in Commands : Norm[c] \in seen[p]}]
    /\ UNCHANGED <<files, locks, job, project, loaded, snapshot, ask, granted, seen, ran>>

\* add_approvals, with and without --all
Review(p) ==
    /\ pc[p] = "loaded" /\ job[p] = "add"
    /\ \E s \in ProjectConfigs :
       \E C \in {UNION s, {c \in UNION s : ~Approved(loaded[p], project[p], c)}} :
        /\ ask' = [ask EXCEPT ![p] = C]
        /\ Goto(p, IF C = {} THEN "done" ELSE "prompt")
    /\ UNCHANGED <<files, locks, job, project, plan, loaded, snapshot, history>>

\* The user, or --yes for add, accepts.  A key with a * is never written.
Accept(p) ==
    /\ pc[p] = "prompt"
    /\ consented' = [consented EXCEPT ![p] = @ \cup ask[p]]
    /\ Goto(p, IF Current[project[p]] \in Patterns THEN Conclude(p) ELSE "lock")
    /\ UNCHANGED <<files, locks, own, granted, seen, ran>>

\* Hooks are skipped; nothing is saved.
Decline(p) ==
    /\ Step(p, "prompt", Conclude(p))
    /\ plan' = [plan EXCEPT ![p] = {}]
    /\ UNCHANGED <<files, locks, job, project, loaded, snapshot, ask, history>>

\* clear_approvals: with nothing to clear, nothing is locked.
Count(p) ==
    /\ pc[p] = "loaded" /\ job[p] \in {"clear", "clearAll"}
    /\ Goto(p, IF \A k \in IF job[p] = "clear" THEN Exact[project[p]] ELSE Keys : loaded[p][k] = {}
               THEN "done" ELSE "lock")
    /\ UNCHANGED <<files, locks, own, history>>

\* clear --stale reads the project's commands before it takes the lock.
ReadTemplates(p) ==
    /\ pc[p] = "loaded" /\ job[p] = "clearStale"
    /\ \E s \in ProjectConfigs : plan' = [plan EXCEPT ![p] = s]
    /\ Goto(p, "lock")
    /\ UNCHANGED <<files, locks, job, project, loaded, snapshot, ask, history>>

-----------------------------------------------------------------------------
(* with_locked_mutation: lock, reload, mutate, replace the file if changed  *)

\* Wrong: no reload under the lock.
LockWithoutReload(p) ==
    /\ Step(p, "lock", "save") /\ lock = None
    /\ lock' = p
    /\ UNCHANGED <<files, configLock, own, history>>

\* Only a holder of the lock creates approvals.toml, so the look and the read are one step here.
Lock(p) ==
    /\ Step(p, "lock", "save") /\ lock = None
    /\ lock' = p
    /\ loaded' = [loaded EXCEPT ![p] = Authority]
    /\ UNCHANGED <<files, configLock, job, project, plan, snapshot, ask, history>>

Unlock(p, l) == lock' = None /\ Goto(p, l)

\* Wrong: a file left without approvals is removed.
SaveUnlessEmpty(new, old) == file' = IF new = old THEN file ELSE IF new = NoEntries THEN None ELSE new

SaveIfChanged(new, old) == file' = IF new = old THEN file ELSE new

\* approve_commands: each command, unless one of the same meaning is there.
Approve(p) ==
    LET key == Current[project[p]]
        here == Normal(loaded[p][key])
    IN
    /\ pc[p] = "save" /\ job[p] \in {"run", "add"}
    /\ \E fresh \in SUBSET ask[p] :
        /\ Normal(fresh) = Normal(ask[p]) \ here
        /\ \A c, d \in fresh : Norm[c] = Norm[d] => c = d
        /\ SaveIfChanged([loaded[p] EXCEPT ![key] = @ \cup fresh], loaded[p])
    /\ granted' = [granted EXCEPT ![key] = @ \cup Normal(ask[p])]
    /\ Unlock(p, Conclude(p))
    /\ UNCHANGED <<config, configLock, own, seen, consented, ran>>

Cleared(entries, keys) == [k \in Keys |-> IF k \in keys THEN {} ELSE entries[k]]

\* revoke_project and clear_all
Revoke(p) ==
    LET keys == IF job[p] = "clear" THEN Exact[project[p]] ELSE Keys IN
    /\ pc[p] = "save" /\ job[p] \in {"clear", "clearAll"}
    /\ SaveIfChanged(Cleared(loaded[p], keys), loaded[p])
    /\ granted' = Cleared(granted, keys)
    /\ Unlock(p, "done")
    /\ UNCHANGED <<config, configLock, own, seen, consented, ran>>

WithoutStale(entries, keys, current) ==
    [k \in Keys |-> IF k \in keys THEN {c \in entries[k] : Norm[c] \in current} ELSE entries[k]]

\* revoke_stale: approvals that are none of the templates read before.
RevokeStale(p) ==
    LET keys == Exact[project[p]]
        current == Normal(UNION plan[p])
    IN
    /\ pc[p] = "save" /\ job[p] = "clearStale"
    /\ SaveIfChanged(WithoutStale(loaded[p], keys, current), loaded[p])
    /\ granted' = WithoutStale(granted, keys, current)
    /\ Unlock(p, "done")
    /\ UNCHANGED <<config, configLock, own, seen, consented, ran>>

\* The file cannot be written: a run warns and goes on, the other commands fail.
SaveFails(p) ==
    /\ pc[p] = "save"
    /\ Unlock(p, Conclude(p))
    /\ UNCHANGED <<files, configLock, own, history>>

-----------------------------------------------------------------------------
(* config.toml: UserConfig::with_locked_mutation and wt config update       *)

\* Wrong: config.toml.lock is not waited for.
LockConfigIgnoringHolder(p) ==
    /\ Step(p, "lockConfig", "saveConfig")
    /\ configLock' = p
    /\ snapshot' = [snapshot EXCEPT ![p] = config]
    /\ UNCHANGED <<files, lock, job, project, plan, loaded, ask, history>>

LockConfig(p) ==
    /\ Step(p, "lockConfig", "saveConfig") /\ configLock = None
    /\ configLock' = p
    /\ snapshot' = [snapshot EXCEPT ![p] = config]
    /\ UNCHANGED <<files, lock, job, project, plan, loaded, ask, history>>

\* One value is written into the file as it was read.  Where an old setting would hide it, the
\* load-time migrations are written too; approved-commands is not one of them.
SaveConfig(p) ==
    /\ Step(p, "saveConfig", "done")
    /\ configLock' = None
    /\ \E x \in Settings, d \in {FALSE, snapshot[p].deprecated} : config' =
        [legacy |-> snapshot[p].legacy, deprecated |-> d, settings |-> snapshot[p].settings \cup {x}]
    /\ UNCHANGED <<file, lock, own, history>>

\* check_user_config: nothing deprecated, nothing to do.
Preview(p) ==
    /\ pc[p] = "preview"
    /\ snapshot' = [snapshot EXCEPT ![p] = config]
    /\ Goto(p, IF config.legacy = NoEntries /\ ~config.deprecated THEN "done" ELSE "confirm")
    /\ UNCHANGED <<files, locks, job, project, plan, loaded, ask, history>>

\* The file is read again after the prompt and must be the one that was shown.
Confirm(p) ==
    /\ pc[p] = "confirm"
    /\ Goto(p, IF config # snapshot[p] THEN "done"
               ELSE IF snapshot[p].legacy # NoEntries THEN "lockCopy" ELSE "rewrite")
    /\ UNCHANGED <<files, locks, own, history>>

CancelUpdate(p) ==
    /\ Step(p, "confirm", "done")
    /\ UNCHANGED <<files, locks, own, history>>

LockCopy(p) ==
    /\ Step(p, "lockCopy", "copy") /\ lock = None
    /\ lock' = p
    /\ UNCHANGED <<files, configLock, own, history>>

\* copy_approved_commands_to_approvals_file
Copy(p) ==
    /\ pc[p] = "copy"
    /\ file' = IF file # None \/ config.legacy = NoEntries THEN file ELSE config.legacy
    /\ Unlock(p, "rewrite")
    /\ UNCHANGED <<config, configLock, own, history>>

CopyFails(p) ==
    /\ pc[p] = "copy"
    /\ Unlock(p, "done")
    /\ UNCHANGED <<files, configLock, own, history>>

\* The migration of the text that was shown replaces the file; no lock is held.
Rewrite(p) ==
    /\ Step(p, "rewrite", "done")
    /\ config' = [legacy |-> NoEntries, deprecated |-> FALSE, settings |-> snapshot[p].settings]
    /\ UNCHANGED <<file, locks, own, history>>

-----------------------------------------------------------------------------

\* A dead process holds no lock, and leaves the file it was replacing as it was.
Kill(p) ==
    /\ pc[p] \notin {"start", "done", "killed"}
    /\ Goto(p, "killed")
    /\ lock' = IF lock = p THEN None ELSE lock
    /\ configLock' = IF configLock = p THEN None ELSE configLock
    /\ UNCHANGED <<files, own, history>>

Next == \E p \in Procs :
    \/ Start(p) \/ Select(p) \/ Execute(p) \/ Look(p) \/ Read(p) \/ Gate(p) \/ Filter(p) \/ Review(p)
    \/ Accept(p) \/ Decline(p) \/ Count(p) \/ ReadTemplates(p)
    \/ Lock(p) \/ Approve(p) \/ Revoke(p) \/ RevokeStale(p) \/ SaveFails(p)
    \/ LockConfig(p) \/ SaveConfig(p)
    \/ Preview(p) \/ Confirm(p) \/ CancelUpdate(p) \/ LockCopy(p) \/ Copy(p) \/ CopyFails(p) \/ Rewrite(p)
    \/ Kill(p)

Spec == Init /\ [][Next]_vars

-----------------------------------------------------------------------------
(* Properties *)

Labels == {"start", "select", "look", "read", "readConfig", "loaded", "prompt", "lock", "save", "execute",
           "lockConfig", "saveConfig", "preview", "confirm", "lockCopy", "copy", "rewrite", "done", "killed"}
Configs == [legacy : Entries, deprecated : BOOLEAN, settings : SUBSET Settings]

\* Every variable keeps its type, and who writes a file under a lock holds that lock
\* (acquire_config_lock).
TypeOK ==
    /\ file \in Entries \cup {None} /\ config \in Configs
    /\ lock \in Procs \cup {None} /\ configLock \in Procs \cup {None}
    /\ pc \in [Procs -> Labels]
    /\ job \in [Procs -> Jobs \cup {None}] /\ project \in [Procs -> Projects \cup {None}]
    /\ plan \in [Procs -> SUBSET SUBSET Commands] /\ ask \in [Procs -> SUBSET Commands]
    /\ loaded \in [Procs -> Entries] /\ snapshot \in [Procs -> Configs \cup {None}]
    /\ granted \in Entries
    /\ seen \in [Procs -> SUBSET Commands]
    /\ consented \in [Procs -> SUBSET Commands] /\ ran \in [Procs -> SUBSET Commands]
    /\ \A p \in Procs :
        /\ pc[p] \in {"save", "copy"} => lock = p
        /\ pc[p] = "saveConfig" => configLock = p

\* No approval is in force that the user did not give, or took back: not by the fall-back to
\* config.toml, by its migration, by a write from an old read, nor for another project.
NoneRevived == \A q \in Projects : Effective(Authority, q) \subseteq Granted(q)

\* No approval the user gave is lost, whatever else is written: "approvals saved since the load
\* above are kept", "so the approvals data survives the rewrite".
NoneLost == \A q \in Projects : Granted(q) \subseteq Effective(Authority, q)

\* "They run only after the approval gate clears them": whatever a process runs, the user consented
\* to at its prompt, or had approved at some time during its gate.
OnlyConsentedRun == \A p \in Procs : ran[p] \subseteq consented[p]

\* wt's own writers of config.toml do not undo each other: a setting that is lost is lost to an
\* update's rewrite, or had itself been put back by one (wt config update takes no lock).
SettingsKeptByWriters ==
    [][\/ config.settings \subseteq config'.settings
       \/ \E p \in Procs : pc[p] = "rewrite" /\ pc'[p] = "done"
       \/ \E p \in Procs : pc[p] = "done" /\ job[p] = "update" /\ config.settings = snapshot[p].settings]_vars
=============================================================================
