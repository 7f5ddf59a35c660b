----------------------------- MODULE SwitchProofs -----------------------------
(***************************************************************************)
(* Switch for every number of commands, directories and steps of everybody *)
(* else: nothing anybody has is overwritten, nobody else's branch or       *)
(* tracking configuration is written, and a branch that a failed --create  *)
(* leaves behind is named.                                                 *)
(***************************************************************************)
EXTENDS Switch, TLAPS

\* Where a command is once its git worktree add is past the branch, and past the worktree.
Adding == {"register", "populate", "created", "broken", "leftover", "hook"}
Added == {"created", "broken", "leftover", "hook"} \cup Final
Labels == {"resolve", "prefixed", "locate", "hooks", "plan", "path", "aside", "probe", "add"} \cup Adding \cup Final

Types ==
    /\ TypeOK
    /\ request \in Requests /\ pc \in [Procs -> Labels]
    /\ kept \subseteq Procs \cup Things

\* A command that resolves a pull request has one, and a prefixed name to fall back on.
ResolveInv ==
    \A p \in Procs :
        /\ pc[p] \in {"resolve", "prefixed"} => request[p].pr \in PRs
        /\ pc[p] = "prefixed" => Prefixed[request[p].pr] \in Branches

\* What git populates is nobody's until it stands: unwinding it takes nothing away.
KeptInv ==
    /\ ContentsKept
    /\ \A p \in Procs : p \in kept => pc[p] \in Added

\* A new branch on a fork or under --create is one the command won.
WonInv ==
    \A p \in Procs :
        /\ p \in won => pc[p] \in Adding \cup Final
        /\ pc[p] \in {"register", "populate", "created"} /\ method[p] # "regular" => p \in won

\* The worktree git populates is its branch's only one, and nobody takes it away.
PopulateInv ==
    \A p \in Procs : pc[p] = "populate" =>
        /\ branch[p] \in branches /\ Held(branch[p]) = {Dest(p)}
        /\ \A q \in Procs : pc[q] = "populate" /\ branch[q] = branch[p] => q = p

\* A branch nobody else has touched is still there, no other command is about to unwind a worktree
\* of it, and the error knows where it is.
Untouched(p, b) ==
    /\ b \in branches
    /\ \A q \in Procs : q # p /\ pc[q] = "populate" => branch[q] # b
    /\ pc[p] \in {"created", "hook"} => Held(b) # {}
    /\ pc[p] = "failed" /\ method[p] = "create" => (told[p] <=> Held(b) = {})
AloneInv ==
    /\ \A p \in Procs : told[p] => pc[p] = "failed"
    /\ \A p \in alone : Untouched(p, branch[p])

IInv == Types /\ ResolveInv /\ KeptInv /\ WonInv /\ PopulateInv /\ AloneInv

(* ---- places ---- *)

LEMMA PlacesAt == \A b \in Branches : <<b, 0>> \in Places /\ <<b, 1>> \in Places
BY SwitchAssumption DEF Places

LEMMA PlansAt ==
    ASSUME Types, NEW p \in Procs
    PROVE  /\ Dest(p) \in Places /\ Backup(p) \in Places /\ Dest(p) # Backup(p)
           /\ request[p] \in Request
<1>1. request[p] \in Request
  BY SwitchAssumption DEF Types
<1>2. PICK b \in Branches : Dest(p) = <<b, 0>>
  BY <1>1 DEF Types, TypeOK, Dest, Request
<1>3. Backup(p) = <<b, tries[p] + 1>>
  BY <1>2 DEF Backup
<1>4. tries[p] + 1 \in 0..MaxTries /\ tries[p] + 1 # 0 /\ 0 \in 0..MaxTries
  BY SwitchAssumption DEF Types, TypeOK
<1> QED
  BY <1>1, <1>2, <1>3, <1>4 DEF Places

(* ---- types ---- *)

LEMMA TypesInit == Init => Types
<1> SUFFICES ASSUME Init PROVE Types
  OBVIOUS
<1> USE SwitchAssumption
<1>1. request \in Requests /\ \A p \in Procs : request[p] \in Request
  BY DEF Init
<1>2. PICK s \in Starts : at = s.at /\ reg = s.reg /\ branches = s.branches /\ track = s.track
  BY DEF Init
<1>3. /\ at \in [Places -> Procs \cup Things \cup {None}]
      /\ reg \in [Places -> Branches \cup {None}]
      /\ branches \subseteq Branches /\ track \in [Branches -> Upstreams]
  BY <1>2
<1>4. kept \subseteq Procs \cup Things
  BY <1>3 DEF Init
<1>5. /\ method \in [Procs -> {"regular", "create", "fork"}]
      /\ pc \in [Procs -> Labels]
  BY DEF Init, Labels
<1>6. branch \in [Procs -> Branches]
  BY <1>1 DEF Init, Request
<1>7. changes \in 0..MaxChanges /\ tries \in [Procs -> 0..(MaxTries - 1)]
  BY DEF Init
<1>8. existed \in [Procs -> BOOLEAN] /\ told \in [Procs -> BOOLEAN] /\ alone \subseteq won /\ won \subseteq Procs
  BY DEF Init
<1> QED
  BY <1>1, <1>3, <1>4, <1>5, <1>6, <1>7, <1>8 DEF Types, TypeOK

LEMMA TypesStep == Types /\ ResolveInv /\ [Next]_vars => Types'
<1> SUFFICES ASSUME Types, ResolveInv, [Next]_vars PROVE Types'
  OBVIOUS
<1> USE SwitchAssumption DEF Types, TypeOK, world, plans, history, Goto, Step, Change, Labels, Adding, Final
<1>1. ASSUME NEW b \in Branches, MakeBranch(b) PROVE Types'
  <2>1. changes' \in 0..MaxChanges
    BY <1>1 DEF MakeBranch
  <2> QED
    BY <1>1, <2>1 DEF MakeBranch
<1>2. ASSUME NEW b \in Branches, DropBranch(b) PROVE Types'
  <2>1. changes' \in 0..MaxChanges
    BY <1>2 DEF DropBranch
  <2>2. track' \in [Branches -> Upstreams] /\ branches' \subseteq Branches
    BY <1>2 DEF DropBranch, Upstreams
  <2>3. alone' \subseteq won'
    BY <1>2 DEF DropBranch, TouchBranch
  <2> QED
    BY <1>2, <2>1, <2>2, <2>3 DEF DropBranch
<1>3. ASSUME NEW x \in Places, MakeDir(x) PROVE Types'
  <2>1. changes' \in 0..MaxChanges
    BY <1>3 DEF MakeDir
  <2>2. PICK t \in Things : at' = [at EXCEPT ![x] = t] /\ kept' = kept \cup {t}
    BY <1>3 DEF MakeDir
  <2>3. /\ at' \in [Places -> Procs \cup Things \cup {None}]
        /\ kept' \subseteq Procs \cup Things
    BY <2>2
  <2>4. alone' \subseteq won'
    BY <1>3 DEF MakeDir, TouchBranch
  <2> QED
    BY <1>3, <2>1, <2>3, <2>4 DEF MakeDir
<1>4. ASSUME NEW b \in Branches, NEW x \in Places, AddWorktree(b, x) PROVE Types'
  <2>1. changes' \in 0..MaxChanges
    BY <1>4 DEF AddWorktree
  <2>2. PICK t \in Things : at' = [at EXCEPT ![x] = t] /\ kept' = kept \cup {t}
    BY <1>4 DEF AddWorktree
  <2>3. /\ at' \in [Places -> Procs \cup Things \cup {None}]
        /\ kept' \subseteq Procs \cup Things
    BY <2>2
  <2>4. alone' \subseteq won' /\ reg' \in [Places -> Branches \cup {None}]
    BY <1>4 DEF AddWorktree, TouchBranch
  <2> QED
    BY <1>4, <2>1, <2>3, <2>4 DEF AddWorktree
<1>5. ASSUME NEW x \in Places, RemoveWorktree(x) PROVE Types'
  <2>1. changes' \in 0..MaxChanges
    BY <1>5 DEF RemoveWorktree
  <2>2. /\ at' \in [Places -> Procs \cup Things \cup {None}]
        /\ reg' \in [Places -> Branches \cup {None}]
    BY <1>5 DEF RemoveWorktree
  <2>3. branches' \subseteq Branches /\ kept' \subseteq Procs \cup Things
    BY <1>5 DEF RemoveWorktree
  <2>4. alone' \subseteq won'
    BY <1>5 DEF RemoveWorktree, TouchBranch
  <2> QED
    BY <1>5, <2>1, <2>2, <2>3, <2>4 DEF RemoveWorktree
<1>6. ASSUME NEW x \in Places, LoseDir(x) PROVE Types'
  <2>1. changes' \in 0..MaxChanges
    BY <1>6 DEF LoseDir
  <2> QED
    BY <1>6, <2>1 DEF LoseDir
<1>7. ASSUME NEW p \in Procs, ResolveFork(p) PROVE Types'
  <2>1. request[p].branch \in Branches
    BY <1>7, PlansAt DEF ResolveFork, Request
  <2>2. CASE Resolved(p, "regular", request[p].branch) /\ pc' = [pc EXCEPT ![p] = "locate"]
    BY <2>1, <2>2 DEF Resolved
  <2>3. CASE Resolved(p, "fork", request[p].branch) /\ pc' = [pc EXCEPT ![p] = "locate"]
    BY <2>1, <2>3 DEF Resolved
  <2> QED
    BY <1>7, <2>2, <2>3 DEF ResolveFork
<1>8. ASSUME NEW p \in Procs, NameTaken(p) PROVE Types'
  BY <1>8 DEF NameTaken
<1>9. ASSUME NEW p \in Procs, ResolvePrefixed(p) PROVE Types'
  <2>1. Prefixed[request[p].pr] \in Branches
    BY <1>9, PlansAt DEF ResolvePrefixed, ResolveInv
  <2>2. CASE Resolved(p, "regular", Prefixed[request[p].pr]) /\ pc' = [pc EXCEPT ![p] = "locate"]
    BY <2>1, <2>2 DEF Resolved
  <2>3. CASE Resolved(p, "fork", Prefixed[request[p].pr]) /\ pc' = [pc EXCEPT ![p] = "locate"]
    BY <2>1, <2>3 DEF Resolved
  <2>4. CASE Fail(p, "prefixed")
    BY <2>4 DEF Fail
  <2> QED
    BY <1>9, <2>2, <2>3, <2>4 DEF ResolvePrefixed, Fail
<1>10. ASSUME NEW p \in Procs, Locate(p) PROVE Types'
  BY <1>10 DEF Locate, Look
<1>11. ASSUME NEW p \in Procs, NoHooks(p) PROVE Types'
  BY <1>11 DEF NoHooks
<1>12. ASSUME NEW p \in Procs, HooksRan(p) PROVE Types'
  BY <1>12 DEF HooksRan, Look
<1>13. ASSUME NEW p \in Procs, PlanExisting(p) PROVE Types'
  BY <1>13 DEF PlanExisting
<1>14. ASSUME NEW p \in Procs, PlanBranch(p) PROVE Types'
  BY <1>14 DEF PlanBranch
<1>15. ASSUME NEW p \in Procs, PlanPath(p) PROVE Types'
  BY <1>15 DEF PlanPath
<1>16. ASSUME NEW p \in Procs, MoveAside(p) PROVE Types'
  <2>1. Dest(p) \in Places /\ Backup(p) \in Places
    BY <1>16, PlansAt
  <2>2. at' \in [Places -> Procs \cup Things \cup {None}]
    BY <1>16, <2>1 DEF MoveAside
  <2> QED
    BY <1>16, <2>2 DEF MoveAside
<1>17. ASSUME NEW p \in Procs, NextName(p) PROVE Types'
  <2>1. tries' \in [Procs -> 0..(MaxTries - 1)]
    BY <1>17 DEF NextName
  <2> QED
    BY <1>17, <2>1 DEF NextName
<1>18. ASSUME NEW p \in Procs, NothingToMove(p) PROVE Types'
  BY <1>18 DEF NothingToMove, Fail
<1>19. ASSUME NEW p \in Procs, Probe(p) PROVE Types'
  BY <1>19 DEF Probe
<1>20. ASSUME NEW p \in Procs, FetchFails(p) PROVE Types'
  BY <1>20 DEF FetchFails, Fail
<1>21. ASSUME NEW p \in Procs, AddBranch(p) PROVE Types'
  <2>1. track' \in [Branches -> Upstreams] /\ branches' \subseteq Branches
    BY <1>21 DEF AddBranch, Upstreams
  <2>2. alone' \subseteq won' /\ won' \subseteq Procs
    BY <1>21 DEF AddBranch
  <2> QED
    BY <1>21, <2>1, <2>2 DEF AddBranch
<1>22. ASSUME NEW p \in Procs, UseBranch(p) PROVE Types'
  BY <1>22 DEF UseBranch
<1>23. ASSUME NEW p \in Procs, BranchRefused(p) PROVE Types'
  BY <1>23 DEF BranchRefused
<1>24. ASSUME NEW p \in Procs, Register(p) PROVE Types'
  <2>1. /\ at' \in [Places -> Procs \cup Things \cup {None}]
        /\ reg' \in [Places -> Branches \cup {None}]
    BY <1>24, PlansAt DEF Register
  <2>2. alone' \subseteq won'
    BY <1>24 DEF Register
  <2> QED
    BY <1>24, <2>1, <2>2 DEF Register
<1>25. ASSUME NEW p \in Procs, PlaceRefused(p) PROVE Types'
  BY <1>25 DEF PlaceRefused
<1>26. ASSUME NEW p \in Procs, Populate(p) PROVE Types'
  BY <1>26 DEF Populate
<1>27. ASSUME NEW p \in Procs, CannotPopulate(p) PROVE Types'
  <2>1. CASE Unwind(p)
    <3>1. /\ at' \in [Places -> Procs \cup Things \cup {None}]
          /\ reg' \in [Places -> Branches \cup {None}]
      BY <2>1, PlansAt DEF Unwind
    <3> QED
      BY <1>27, <2>1, <3>1 DEF CannotPopulate, Unwind
  <2> QED
    BY <1>27, <2>1 DEF CannotPopulate
<1>28. ASSUME NEW p \in Procs, Interrupted(p) PROVE Types'
  <2>1. CASE Unwind(p)
    <3>1. /\ at' \in [Places -> Procs \cup Things \cup {None}]
          /\ reg' \in [Places -> Branches \cup {None}]
      BY <2>1, PlansAt DEF Unwind
    <3> QED
      BY <1>28, <2>1, <3>1 DEF Interrupted, Unwind
  <2> QED
    BY <1>28, <2>1 DEF Interrupted
<1>29. ASSUME NEW p \in Procs, LeftoverBranch(p) PROVE Types'
  BY <1>29 DEF LeftoverBranch
<1>30. ASSUME NEW p \in Procs, LeftoverWorktree(p) PROVE Types'
  BY <1>30 DEF LeftoverWorktree
<1>31. ASSUME NEW p \in Procs, Configure(p) PROVE Types'
  <2>1. request[p].pr \in PRs \cup {None}
    BY PlansAt DEF Request
  <2>2. track' \in [Branches -> Upstreams]
    BY <1>31, <2>1 DEF Configure, Upstreams
  <2> QED
    BY <1>31, <2>2 DEF Configure
<1>32. ASSUME NEW p \in Procs, ConfigureFails(p) PROVE Types'
  BY <1>32 DEF ConfigureFails, Fail
<1>33. ASSUME NEW p \in Procs, PreStart(p) PROVE Types'
  BY <1>33 DEF PreStart
<1>34. ASSUME NEW p \in Procs, Kill(p) PROVE Types'
  BY <1>34 DEF Kill
<1>35. ASSUME NEW p \in Procs, Fail(p, "hooks") PROVE Types'
  BY <1>35 DEF Fail
<1>36. CASE UNCHANGED vars
  BY <1>36 DEF vars
<1> QED
  BY <1>1, <1>2, <1>3, <1>4, <1>5, <1>6, <1>7, <1>8, <1>9, <1>10, <1>11, <1>12, <1>13, <1>14,
     <1>15, <1>16, <1>17, <1>18, <1>19, <1>20, <1>21, <1>22, <1>23, <1>24, <1>25, <1>26, <1>27,
     <1>28, <1>29, <1>30, <1>31, <1>32, <1>33, <1>34, <1>35, <1>36, PlacesAt
  DEF Next, Environment, Command

(* ---- kinds of steps ---- *)

\* Steps of a command that change neither the repository nor what it has made of it.
Early == {"resolve", "prefixed", "locate", "hooks", "plan", "path", "aside", "probe", "add"}
Quiet(p) ==
    \/ ResolveFork(p) \/ NameTaken(p) \/ ResolvePrefixed(p) \/ Locate(p)
    \/ NoHooks(p) \/ HooksRan(p) \/ Fail(p, "hooks")
    \/ PlanExisting(p) \/ PlanBranch(p) \/ PlanPath(p) \/ NextName(p) \/ NothingToMove(p)
    \/ Probe(p) \/ FetchFails(p) \/ UseBranch(p) \/ BranchRefused(p) \/ PlaceRefused(p)
    \/ Interrupted(p) /\ pc[p] # "populate"
    \/ LeftoverBranch(p) \/ LeftoverWorktree(p) \/ ConfigureFails(p) \/ PreStart(p) \/ Kill(p)
Unwound(p) == (CannotPopulate(p) \/ Interrupted(p)) /\ pc[p] = "populate"

\* What happens to the plan and the place of the command of such a step.
OthersKept(p) ==
    /\ request' = request
    /\ \A q \in Procs \ {p} : /\ pc'[q] = pc[q] /\ branch'[q] = branch[q]
                              /\ method'[q] = method[q] /\ told'[q] = told[q]
PlanKept == branch' = branch /\ method' = method
Quietly(p) ==
    /\ OthersKept(p) /\ UNCHANGED <<at, reg, branches, track, changes, kept, won, alone>>
    /\ pc'[p] \notin {"resolve", "populate", "created", "hook"}
    /\ pc'[p] = "prefixed" => pc[p] = "resolve" /\ Prefixed[request[p].pr] # None
    /\ pc'[p] = "register" => pc[p] = "add" /\ method'[p] = "regular"
    /\ pc[p] \in Added => pc'[p] \in Added
    /\ pc[p] \notin Early => pc'[p] \in {"broken", "leftover"} \cup Final /\ PlanKept
    /\ \/ told'[p] = told[p]
       \/ pc[p] = "leftover" /\ pc'[p] = "failed" /\ told'[p] = (Held(branch[p]) = {})
    /\ pc[p] \notin Early /\ pc'[p] = "failed" =>
          \/ pc[p] \in {"created", "hook"} /\ told'[p] = told[p]
          \/ pc[p] = "broken" /\ ~(method[p] = "create" /\ branch[p] \in branches)
          \/ pc[p] = "leftover" /\ told'[p] = (Held(branch[p]) = {})
    /\ pc[p] # "failed"

LEMMA QuietSteps ==
    ASSUME Types, NEW p \in Procs, Quiet(p)
    PROVE  Quietly(p)
<1> USE DEF Types, TypeOK, Quietly, OthersKept, PlanKept, world, plans, history, Goto, Step, Early, Adding, Added, Final, Labels
<1>1. ASSUME ResolveFork(p) PROVE Quietly(p)
  BY <1>1 DEF ResolveFork, Resolved, Tracks, Absent
<1>2. ASSUME NameTaken(p) PROVE Quietly(p)
  BY <1>2 DEF NameTaken
<1>3. ASSUME ResolvePrefixed(p) PROVE Quietly(p)
  BY <1>3 DEF ResolvePrefixed, Resolved, Tracks, Absent, Fail
<1>4. ASSUME Locate(p) PROVE Quietly(p)
  BY <1>4 DEF Locate, Look
<1>5. ASSUME NoHooks(p) PROVE Quietly(p)
  BY <1>5 DEF NoHooks
<1>6. ASSUME HooksRan(p) PROVE Quietly(p)
  BY <1>6 DEF HooksRan, Look
<1>7. ASSUME PlanExisting(p) PROVE Quietly(p)
  BY <1>7 DEF PlanExisting
<1>8. ASSUME PlanBranch(p) PROVE Quietly(p)
  BY <1>8 DEF PlanBranch
<1>9. ASSUME PlanPath(p) PROVE Quietly(p)
  BY <1>9 DEF PlanPath
<1>10. ASSUME NextName(p) PROVE Quietly(p)
  BY <1>10 DEF NextName
<1>11. ASSUME NothingToMove(p) PROVE Quietly(p)
  BY <1>11 DEF NothingToMove, Fail
<1>12. ASSUME Probe(p) PROVE Quietly(p)
  BY <1>12 DEF Probe
<1>13. ASSUME FetchFails(p) PROVE Quietly(p)
  BY <1>13 DEF FetchFails, Fail
<1>14. ASSUME UseBranch(p) PROVE Quietly(p)
  BY <1>14 DEF UseBranch, WithNewBranch
<1>15. ASSUME BranchRefused(p) PROVE Quietly(p)
  BY <1>15 DEF BranchRefused
<1>16. ASSUME PlaceRefused(p) PROVE Quietly(p)
  BY <1>16 DEF PlaceRefused
<1>17. ASSUME LeftoverBranch(p) PROVE Quietly(p)
  BY <1>17 DEF LeftoverBranch
<1>18. ASSUME LeftoverWorktree(p) PROVE Quietly(p)
  BY <1>18 DEF LeftoverWorktree
<1>19. ASSUME ConfigureFails(p) PROVE Quietly(p)
  BY <1>19 DEF ConfigureFails, Fail
<1>20. ASSUME PreStart(p) PROVE Quietly(p)
  BY <1>20 DEF PreStart
<1>21. ASSUME Kill(p) PROVE Quietly(p)
  BY <1>21 DEF Kill
<1>22. ASSUME Fail(p, "hooks") PROVE Quietly(p)
  BY <1>22 DEF Fail
<1>23. ASSUME Interrupted(p), pc[p] # "populate" PROVE Quietly(p)
  BY <1>23 DEF Interrupted
<1> HIDE DEF Quietly
<1> QED
  BY <1>1, <1>2, <1>3, <1>4, <1>5, <1>6, <1>7, <1>8, <1>9, <1>10, <1>11, <1>12, <1>13, <1>14,
     <1>15, <1>16, <1>17, <1>18, <1>19, <1>20, <1>21, <1>22, <1>23
  DEF Quiet

LEMMA StepKinds ==
    ASSUME Types, [Next]_vars
    PROVE  \/ Environment \/ UNCHANGED vars
           \/ \E p \in Procs : Quietly(p) \/ MoveAside(p) \/ AddBranch(p) \/ Register(p) \/ Populate(p)
                                \/ Unwound(p) \/ Configure(p)
<1>1. ASSUME NEW p \in Procs, Command(p)
      PROVE  Quiet(p) \/ MoveAside(p) \/ AddBranch(p) \/ Register(p) \/ Populate(p) \/ Unwound(p) \/ Configure(p)
  BY <1>1 DEF Command, Quiet, Unwound, CannotPopulate, Step
<1> QED
  BY <1>1, QuietSteps DEF Next

(* ---- the invariants ---- *)

LEMMA InvInit == Init => ResolveInv /\ KeptInv /\ WonInv /\ PopulateInv /\ AloneInv
<1> SUFFICES ASSUME Init PROVE ResolveInv /\ KeptInv /\ WonInv /\ PopulateInv /\ AloneInv
  OBVIOUS
<1> USE SwitchAssumption
<1>1. Types
  BY TypesInit
<1>2. \A p \in Procs : pc[p] \in {"resolve", "locate"} /\ (pc[p] = "resolve" => request[p].kind = "pr")
  BY DEF Init
<1>3. \A p \in Procs : request[p].kind = "pr" => request[p].pr \in PRs
  BY <1>1, PlansAt DEF Types, Request
<1>4. PICK s \in Starts : at = s.at
  BY DEF Init
<1>5. kept \subseteq Things /\ ContentsKept
  BY <1>4 DEF Init, ContentsKept
<1>6. won = {} /\ alone = {} /\ \A p \in Procs : ~told[p]
  BY DEF Init
<1>7. \A p \in Procs : p \notin kept
  BY <1>5
<1> QED
  BY <1>2, <1>3, <1>5, <1>6, <1>7 DEF ResolveInv, KeptInv, WonInv, PopulateInv, AloneInv

LEMMA ResolveStep == Types /\ ResolveInv /\ [Next]_vars => ResolveInv'
<1> SUFFICES ASSUME Types, ResolveInv, [Next]_vars PROVE ResolveInv'
  OBVIOUS
<1> USE SwitchAssumption DEF Types, TypeOK, world, plans, history, Goto, Step, ResolveInv
<1>1. ASSUME Environment PROVE ResolveInv'
  BY <1>1 DEF Environment, MakeBranch, DropBranch, MakeDir, AddWorktree, RemoveWorktree, LoseDir, Change, TouchBranch
<1>2. ASSUME NEW p \in Procs, Quietly(p) PROVE ResolveInv'
  BY <1>2 DEF Quietly, OthersKept, PlanKept
<1>3. ASSUME NEW p \in Procs, MoveAside(p) PROVE ResolveInv'
  BY <1>3 DEF MoveAside
<1>4. ASSUME NEW p \in Procs, AddBranch(p) PROVE ResolveInv'
  BY <1>4 DEF AddBranch
<1>5. ASSUME NEW p \in Procs, Register(p) PROVE ResolveInv'
  BY <1>5 DEF Register
<1>6. ASSUME NEW p \in Procs, Populate(p) PROVE ResolveInv'
  BY <1>6 DEF Populate
<1>7. ASSUME NEW p \in Procs, Unwound(p) PROVE ResolveInv'
  BY <1>7 DEF Unwound, CannotPopulate, Interrupted, Unwind
<1>8. ASSUME NEW p \in Procs, Configure(p) PROVE ResolveInv'
  BY <1>8 DEF Configure
<1>9. CASE UNCHANGED vars
  BY <1>9 DEF vars
<1> QED
  BY <1>1, <1>2, <1>3, <1>4, <1>5, <1>6, <1>7, <1>8, <1>9, StepKinds

LEMMA WonStep == Types /\ WonInv /\ [Next]_vars => WonInv'
<1> SUFFICES ASSUME Types, WonInv, [Next]_vars PROVE WonInv'
  OBVIOUS
<1> USE SwitchAssumption DEF Types, TypeOK, world, plans, history, Goto, Step, WonInv, Adding, Final, Early, WithNewBranch
<1>1. ASSUME Environment PROVE WonInv'
  BY <1>1 DEF Environment, MakeBranch, DropBranch, MakeDir, AddWorktree, RemoveWorktree, LoseDir, Change, TouchBranch
<1>2. ASSUME NEW p \in Procs, Quietly(p) PROVE WonInv'
  BY <1>2 DEF Quietly, OthersKept, PlanKept
<1>3. ASSUME NEW p \in Procs, MoveAside(p) PROVE WonInv'
  BY <1>3 DEF MoveAside
<1>4. ASSUME NEW p \in Procs, AddBranch(p) PROVE WonInv'
  BY <1>4 DEF AddBranch
<1>5. ASSUME NEW p \in Procs, Register(p) PROVE WonInv'
  BY <1>5 DEF Register
<1>6. ASSUME NEW p \in Procs, Populate(p) PROVE WonInv'
  BY <1>6 DEF Populate
<1>7. ASSUME NEW p \in Procs, Unwound(p) PROVE WonInv'
  BY <1>7 DEF Unwound, CannotPopulate, Interrupted, Unwind
<1>8. ASSUME NEW p \in Procs, Configure(p) PROVE WonInv'
  BY <1>8 DEF Configure
<1>9. CASE UNCHANGED vars
  BY <1>9 DEF vars
<1> QED
  BY <1>1, <1>2, <1>3, <1>4, <1>5, <1>6, <1>7, <1>8, <1>9, StepKinds

LEMMA KeptStep == Types /\ KeptInv /\ [Next]_vars => KeptInv'
<1> SUFFICES ASSUME Types, KeptInv, [Next]_vars PROVE KeptInv'
  OBVIOUS
<1> USE SwitchAssumption DEF Types, TypeOK, world, plans, history, Goto, Step, KeptInv, ContentsKept, Added, Final
<1>1. ASSUME Environment PROVE KeptInv'
  <2>1. pc' = pc
    BY <1>1 DEF Environment, MakeBranch, DropBranch, MakeDir, AddWorktree, RemoveWorktree, LoseDir, Change
  <2>2. ASSUME UNCHANGED <<at, kept>> PROVE KeptInv'
    BY <2>1, <2>2
  <2>3. ASSUME NEW x \in Places, at[x] = None,
               \E t \in Things : at' = [at EXCEPT ![x] = t] /\ kept' = kept \cup {t}
        PROVE  KeptInv'
    BY <2>1, <2>3
  <2>4. ASSUME NEW x \in Places, at' = [at EXCEPT ![x] = None], kept' = kept \ {at[x]} PROVE KeptInv'
    BY <2>1, <2>4
  <2>5. ASSUME NEW b \in Branches, MakeBranch(b) \/ DropBranch(b) PROVE KeptInv'
    BY <2>2, <2>5 DEF MakeBranch, DropBranch
  <2>6. ASSUME NEW b \in Branches, NEW x \in Places, MakeDir(x) \/ AddWorktree(b, x) PROVE KeptInv'
    <3>1. at[x] = None /\ \E t \in Things : at' = [at EXCEPT ![x] = t] /\ kept' = kept \cup {t}
      BY <2>6 DEF MakeDir, AddWorktree
    <3> QED
      BY <2>3, <3>1
  <2>7. ASSUME NEW x \in Places, RemoveWorktree(x) \/ LoseDir(x) PROVE KeptInv'
    <3>1. at' = [at EXCEPT ![x] = None] /\ kept' = kept \ {at[x]}
      BY <2>7 DEF RemoveWorktree, LoseDir
    <3> QED
      BY <2>4, <3>1
  <2> HIDE DEF KeptInv
  <2> QED
    BY <1>1, <2>5, <2>6, <2>7, PlacesAt DEF Environment
<1>2. ASSUME NEW p \in Procs, Quietly(p) PROVE KeptInv'
  <2>1. ContentsKept'
    BY <1>2 DEF Quietly
  <2> QED
    BY <1>2, <2>1 DEF Quietly, OthersKept
<1>3. ASSUME NEW p \in Procs, MoveAside(p) PROVE KeptInv'
  <2>1. Dest(p) \in Places /\ Backup(p) \in Places /\ Dest(p) # Backup(p)
    BY PlansAt
  <2>2. /\ at[Backup(p)] = None
        /\ at' = [at EXCEPT ![Dest(p)] = None, ![Backup(p)] = at[Dest(p)]]
    BY <1>3 DEF MoveAside
  <2>3. \A t \in kept : \E x \in Places : at'[x] = t
    <3> SUFFICES ASSUME NEW t \in kept PROVE \E x \in Places : at'[x] = t
      OBVIOUS
    <3>1. PICK x \in Places : at[x] = t /\ t # None
      OBVIOUS
    <3>2. CASE x = Dest(p)
      BY <2>1, <2>2, <3>1, <3>2
    <3>3. CASE x # Dest(p)
      BY <2>1, <2>2, <3>1, <3>3
    <3> QED
      BY <3>2, <3>3
  <2>4. kept' = kept
    BY <1>3 DEF MoveAside
  <2>5. ContentsKept'
    BY <2>3, <2>4
  <2> QED
    BY <1>3, <2>4, <2>5 DEF MoveAside
<1>4. ASSUME NEW p \in Procs, AddBranch(p) PROVE KeptInv'
  <2>1. ContentsKept'
    BY <1>4 DEF AddBranch
  <2> QED
    BY <1>4, <2>1 DEF AddBranch
<1>5. ASSUME NEW p \in Procs, Register(p) PROVE KeptInv'
  <2>1. Dest(p) \in Places
    BY PlansAt
  <2>2. at[Dest(p)] = None /\ at' = [at EXCEPT ![Dest(p)] = p] /\ kept' = kept
    BY <1>5 DEF Register, CanRegister
  <2>3. ContentsKept'
    BY <2>1, <2>2
  <2> QED
    BY <1>5, <2>2, <2>3 DEF Register
<1>6. ASSUME NEW p \in Procs, Populate(p) PROVE KeptInv'
  <2>1. at' = at /\ kept' \subseteq kept \cup {p} /\ (p \in kept' => p \in {at[x] : x \in Places})
    <3>1. p \notin kept
      BY <1>6 DEF Populate
    <3> QED
      BY <1>6, <3>1 DEF Populate
  <2>2. ContentsKept'
    BY <2>1
  <2> QED
    BY <1>6, <2>1, <2>2 DEF Populate
<1>7. ASSUME NEW p \in Procs, Unwound(p) PROVE KeptInv'
  <2>1. Dest(p) \in Places
    BY PlansAt
  <2>2. Unwind(p) /\ pc[p] = "populate" /\ kept' = kept
    BY <1>7 DEF Unwound, CannotPopulate, Interrupted, Unwind
  <2>3. p \notin kept
    BY <2>2
  <2>4. \A x \in Places : at'[x] = at[x] \/ at[x] = p
    BY <2>1, <2>2 DEF Unwind
  <2>5. ContentsKept'
    BY <2>2, <2>3, <2>4
  <2> QED
    BY <1>7, <2>2, <2>3, <2>5 DEF Unwound, CannotPopulate, Interrupted
<1>8. ASSUME NEW p \in Procs, Configure(p) PROVE KeptInv'
  <2>1. ContentsKept'
    BY <1>8 DEF Configure
  <2> QED
    BY <1>8, <2>1 DEF Configure
<1>9. CASE UNCHANGED vars
  BY <1>9 DEF vars
<1> QED
  BY <1>1, <1>2, <1>3, <1>4, <1>5, <1>6, <1>7, <1>8, <1>9, StepKinds

LEMMA EnvironmentKeeps ==
    ASSUME Environment
    PROVE  PlanKept /\ pc' = pc /\ told' = told /\ request' = request
BY DEF Environment, MakeBranch, DropBranch, MakeDir, AddWorktree, RemoveWorktree, LoseDir, PlanKept, plans, Change

LEMMA EnvironmentHolds ==
    ASSUME Types, PopulateInv, Environment, NEW b \in Branches
    PROVE  /\ PlanKept /\ pc' = pc /\ told' = told /\ request' = request
           /\ alone' \subseteq alone
           /\ \/ Held(b)' = Held(b) /\ (b \in branches => b \in branches')
              \/ /\ \A p \in alone' : branch[p] # b
                 /\ \A p \in Procs : pc[p] = "populate" => branch[p] # b
<1> USE DEF Types, TypeOK, world, plans, history, Change, TouchBranch
<1> DEFINE Goal == /\ PlanKept /\ pc' = pc /\ told' = told /\ request' = request
                   /\ alone' \subseteq alone
                   /\ \/ Held(b)' = Held(b) /\ (b \in branches => b \in branches')
                      \/ /\ \A p \in alone' : branch[p] # b
                         /\ \A p \in Procs : pc[p] = "populate" => branch[p] # b
<1>1. PlanKept /\ pc' = pc /\ told' = told /\ request' = request
  BY EnvironmentKeeps
<1>2. ASSUME NEW c \in Branches, MakeBranch(c) PROVE Goal
  BY <1>1, <1>2 DEF MakeBranch, Held
<1>3. ASSUME NEW c \in Branches, DropBranch(c) PROVE Goal
  <2>1. alone' \subseteq alone /\ Held(b)' = Held(b)
    BY <1>3 DEF DropBranch, Held
  <2>2. CASE b # c
    BY <1>1, <1>3, <2>1, <2>2 DEF DropBranch
  <2>3. CASE b = c
    <3>1. \A p \in Procs : pc[p] = "populate" => branch[p] # b
      BY <1>3, <2>3 DEF DropBranch, PopulateInv
    <3>2. \A p \in alone' : branch[p] # b
      BY <1>3, <2>3 DEF DropBranch
    <3> QED
      BY <1>1, <2>1, <3>1, <3>2
  <2> QED
    BY <2>2, <2>3
<1>4. ASSUME NEW x \in Places, MakeDir(x) \/ LoseDir(x) PROVE Goal
  BY <1>1, <1>4 DEF MakeDir, LoseDir, Held
<1>5. ASSUME NEW c \in Branches, NEW x \in Places, AddWorktree(c, x) PROVE Goal
  <2>1. /\ reg[x] = None /\ Held(c) = {} /\ reg' = [reg EXCEPT ![x] = c]
        /\ branches' = branches /\ alone' = {p \in alone : branch[p] # c}
    BY <1>5 DEF AddWorktree
  <2>2. CASE b # c
    <3>1. Held(b)' = Held(b)
      <4>1. \A y \in Places : reg'[y] = b <=> reg[y] = b
        BY <2>1, <2>2, SwitchAssumption
      <4> QED
        BY <4>1 DEF Held
    <3> QED
      BY <1>1, <2>1, <3>1
  <2>3. CASE b = c
    <3>1. \A p \in Procs : pc[p] = "populate" => branch[p] # b
      BY <2>1, <2>3 DEF PopulateInv
    <3> QED
      BY <1>1, <2>1, <2>3, <3>1
  <2> QED
    BY <2>2, <2>3
<1>6. ASSUME NEW x \in Places, RemoveWorktree(x) PROVE Goal
  <2>1. /\ reg[x] # None /\ reg' = [reg EXCEPT ![x] = None]
        /\ branches' \in {branches, branches \ {reg[x]}} /\ alone' = {p \in alone : branch[p] # reg[x]}
        /\ \A p \in Procs : pc[p] = "populate" => Dest(p) # x
    BY <1>6 DEF RemoveWorktree
  <2>2. CASE b # reg[x]
    <3>1. Held(b)' = Held(b)
      <4>1. \A y \in Places : reg'[y] = b <=> reg[y] = b
        BY <2>1, <2>2, SwitchAssumption
      <4> QED
        BY <4>1 DEF Held
    <3> QED
      BY <1>1, <2>1, <2>2, <3>1
  <2>3. CASE b = reg[x]
    <3>1. x \in Held(b)
      BY <2>3 DEF Held
    <3>2. \A p \in Procs : pc[p] = "populate" => branch[p] # b
      BY <2>1, <3>1 DEF PopulateInv
    <3> QED
      BY <1>1, <2>1, <2>3, <3>2
  <2> QED
    BY <2>2, <2>3
<1> QED
  BY <1>2, <1>3, <1>4, <1>5, <1>6, PlacesAt DEF Environment

LEMMA PopulateStep == Types /\ PopulateInv /\ [Next]_vars => PopulateInv'
<1> SUFFICES ASSUME Types, PopulateInv, [Next]_vars PROVE PopulateInv'
  OBVIOUS
<1> USE SwitchAssumption DEF Types, TypeOK, world, plans, history, Goto, Step, Final
<1>1. ASSUME Environment PROVE PopulateInv'
  <2>1. SUFFICES ASSUME NEW p \in Procs, pc'[p] = "populate"
                 PROVE  /\ (branch[p] \in branches)' /\ (Held(branch[p]) = {Dest(p)})'
                        /\ \A q \in Procs : pc'[q] = "populate" /\ branch'[q] = branch'[p] => q = p
    BY DEF PopulateInv
  <2>2. /\ branch' = branch /\ pc' = pc /\ request' = request
        /\ Dest(p)' = Dest(p) /\ (Held(branch[p]))' = {x \in Places : reg'[x] = branch[p]}
    <3>1. branch' = branch /\ pc' = pc /\ request' = request
      BY <1>1, EnvironmentKeeps DEF PlanKept
    <3> QED
      BY <3>1 DEF Dest, Held
  <2>3. branch[p] \in Branches /\ pc[p] = "populate"
    BY <2>1, <2>2
  <2>4. PICK b \in Branches : b = branch[p]
    BY <2>3
  <2>5. Held(b)' = Held(b) /\ (b \in branches => b \in branches')
    BY <1>1, <2>3, <2>4, EnvironmentHolds
  <2>6. Held(b)' = {x \in Places : reg'[x] = branch[p]}
    BY <2>4 DEF Held
  <2> QED
    BY <2>2, <2>3, <2>4, <2>5, <2>6 DEF PopulateInv
<1>2. ASSUME NEW p \in Procs, Quietly(p) PROVE PopulateInv'
  <2>1. /\ reg' = reg /\ branches \subseteq branches' /\ request' = request
        /\ \A q \in Procs : pc'[q] = "populate" => pc[q] = "populate" /\ branch'[q] = branch[q]
    BY <1>2 DEF Quietly, OthersKept
  <2>2. SUFFICES ASSUME NEW q \in Procs, pc'[q] = "populate"
                 PROVE  /\ (branch[q] \in branches)' /\ (Held(branch[q]) = {Dest(q)})'
                        /\ \A r \in Procs : pc'[r] = "populate" /\ branch'[r] = branch'[q] => r = q
    BY DEF PopulateInv
  <2>3. pc[q] = "populate" /\ branch'[q] = branch[q] /\ reg' = reg /\ request' = request
    BY <2>1, <2>2
  <2>4. (Held(branch[q]) = {Dest(q)})' <=> (Held(branch[q]) = {Dest(q)})
    BY <2>3 DEF Held, Dest
  <2> QED
    BY <2>1, <2>3, <2>4 DEF PopulateInv
<1>3. ASSUME NEW p \in Procs, MoveAside(p) PROVE PopulateInv'
  <2>1. /\ reg' = reg /\ branches \subseteq branches' /\ request' = request
        /\ \A q \in Procs : pc'[q] = "populate" => pc[q] = "populate" /\ branch'[q] = branch[q]
    BY <1>3 DEF MoveAside
  <2>2. SUFFICES ASSUME NEW q \in Procs, pc'[q] = "populate"
                 PROVE  /\ (branch[q] \in branches)' /\ (Held(branch[q]) = {Dest(q)})'
                        /\ \A r \in Procs : pc'[r] = "populate" /\ branch'[r] = branch'[q] => r = q
    BY DEF PopulateInv
  <2>3. pc[q] = "populate" /\ branch'[q] = branch[q] /\ reg' = reg /\ request' = request
    BY <2>1, <2>2
  <2>4. (Held(branch[q]) = {Dest(q)})' <=> (Held(branch[q]) = {Dest(q)})
    BY <2>3 DEF Held, Dest
  <2> QED
    BY <2>1, <2>3, <2>4 DEF PopulateInv
<1>4. ASSUME NEW p \in Procs, AddBranch(p) PROVE PopulateInv'
  <2>1. /\ reg' = reg /\ branches \subseteq branches' /\ request' = request
        /\ \A q \in Procs : pc'[q] = "populate" => pc[q] = "populate" /\ branch'[q] = branch[q]
    BY <1>4 DEF AddBranch
  <2>2. SUFFICES ASSUME NEW q \in Procs, pc'[q] = "populate"
                 PROVE  /\ (branch[q] \in branches)' /\ (Held(branch[q]) = {Dest(q)})'
                        /\ \A r \in Procs : pc'[r] = "populate" /\ branch'[r] = branch'[q] => r = q
    BY DEF PopulateInv
  <2>3. pc[q] = "populate" /\ branch'[q] = branch[q] /\ reg' = reg /\ request' = request
    BY <2>1, <2>2
  <2>4. (Held(branch[q]) = {Dest(q)})' <=> (Held(branch[q]) = {Dest(q)})
    BY <2>3 DEF Held, Dest
  <2> QED
    BY <2>1, <2>3, <2>4 DEF PopulateInv
<1>5. ASSUME NEW p \in Procs, Register(p) PROVE PopulateInv'
  <2>1. Dest(p) \in Places
    BY PlansAt
  <2>2. /\ UNCHANGED <<branches, branch, request>> /\ reg' = [reg EXCEPT ![Dest(p)] = branch[p]]
        /\ reg[Dest(p)] = None /\ Held(branch[p]) = {} /\ branch[p] \in branches
        /\ \A q \in Procs \ {p} : pc'[q] = pc[q]
    BY <1>5 DEF Register, CanRegister
  <2>3. \A q \in Procs \ {p} : pc[q] = "populate" => branch[q] # branch[p]
    <3>1. \A q \in Procs : pc[q] = "populate" => Held(branch[q]) # {}
      BY DEF PopulateInv
    <3> QED
      BY <2>2, <3>1
  <2>7. SUFFICES ASSUME NEW q \in Procs, pc'[q] = "populate"
                 PROVE  /\ branch[q] \in branches
                        /\ Held(branch[q])' = {Dest(q)}
                        /\ \A r \in Procs : pc'[r] = "populate" /\ branch[r] = branch[q] => r = q
    <3>1. \A q \in Procs : Dest(q)' = Dest(q) /\ Held(branch[q])' = {x \in Places : reg'[x] = branch[q]}
      BY <2>2 DEF Dest, Held
    <3> QED
      BY <2>2, <3>1 DEF PopulateInv, Held
  <2>8. CASE q = p
    <3>1. Held(branch[p])' = {x \in Places : reg'[x] = branch[p]}
      BY <2>2 DEF Held
    <3>2. Held(branch[p])' = {Dest(p)}
      BY <2>1, <2>2, <3>1 DEF Held
    <3> QED
      BY <2>2, <2>3, <2>8, <3>2
  <2>9. CASE q # p
    <3>1. pc[q] = "populate" /\ branch[q] # branch[p] /\ Held(branch[q]) = {Dest(q)}
      BY <2>2, <2>3, <2>7, <2>9 DEF PopulateInv
    <3>2. PICK b \in Branches : b = branch[q]
      OBVIOUS
    <3>3. Held(b)' = Held(b)
      <4>1. \A y \in Places : reg'[y] = b <=> reg[y] = b
        BY <2>1, <2>2, <3>1, <3>2
      <4> QED
        BY <4>1 DEF Held
    <3>4. Held(branch[q])' = Held(b)'
      BY <2>2, <3>2 DEF Held
    <3> QED
      BY <2>2, <2>3, <2>7, <2>9, <3>1, <3>2, <3>3, <3>4 DEF PopulateInv
  <2> QED
    BY <2>8, <2>9
<1>6. ASSUME NEW p \in Procs, Populate(p) PROVE PopulateInv'
  <2>1. /\ reg' = reg /\ branches \subseteq branches' /\ request' = request
        /\ \A q \in Procs : pc'[q] = "populate" => pc[q] = "populate" /\ branch'[q] = branch[q]
    BY <1>6 DEF Populate
  <2>2. SUFFICES ASSUME NEW q \in Procs, pc'[q] = "populate"
                 PROVE  /\ (branch[q] \in branches)' /\ (Held(branch[q]) = {Dest(q)})'
                        /\ \A r \in Procs : pc'[r] = "populate" /\ branch'[r] = branch'[q] => r = q
    BY DEF PopulateInv
  <2>3. pc[q] = "populate" /\ branch'[q] = branch[q] /\ reg' = reg /\ request' = request
    BY <2>1, <2>2
  <2>4. (Held(branch[q]) = {Dest(q)})' <=> (Held(branch[q]) = {Dest(q)})
    BY <2>3 DEF Held, Dest
  <2> QED
    BY <2>1, <2>3, <2>4 DEF PopulateInv
<1>7. ASSUME NEW p \in Procs, Unwound(p) PROVE PopulateInv'
  <2>1. Dest(p) \in Places
    BY PlansAt
  <2>2. /\ UNCHANGED <<branches, branch, request>> /\ reg' = [reg EXCEPT ![Dest(p)] = None]
        /\ pc[p] = "populate" /\ pc'[p] # "populate"
        /\ \A q \in Procs \ {p} : pc'[q] = pc[q]
    BY <1>7 DEF Unwound, CannotPopulate, Interrupted, Unwind
  <2>3. Held(branch[p]) = {Dest(p)} /\ reg[Dest(p)] = branch[p]
    <3>1. Held(branch[p]) = {Dest(p)}
      BY <2>2 DEF PopulateInv
    <3> QED
      BY <3>1 DEF Held
  <2>7. SUFFICES ASSUME NEW q \in Procs, pc'[q] = "populate"
                 PROVE  /\ branch[q] \in branches
                        /\ Held(branch[q])' = {Dest(q)}
                        /\ \A r \in Procs : pc'[r] = "populate" /\ branch[r] = branch[q] => r = q
    <3>1. \A q \in Procs : Dest(q)' = Dest(q) /\ Held(branch[q])' = {x \in Places : reg'[x] = branch[q]}
      BY <2>2 DEF Dest, Held
    <3> QED
      BY <2>2, <3>1 DEF PopulateInv, Held
  <2>8. q # p /\ pc[q] = "populate" /\ branch[q] # branch[p]
    BY <2>2, <2>7 DEF PopulateInv
  <2>9. PICK b \in Branches : b = branch[q]
    OBVIOUS
  <2>10. Held(b)' = Held(b)
    <3>1. \A y \in Places : reg'[y] = b <=> reg[y] = b
      BY <2>1, <2>2, <2>3, <2>8, <2>9
    <3> QED
      BY <3>1 DEF Held
  <2>11. Held(branch[q])' = Held(b)'
    BY <2>2, <2>9 DEF Held
  <2> QED
    BY <2>2, <2>7, <2>8, <2>9, <2>10, <2>11 DEF PopulateInv
<1>8. ASSUME NEW p \in Procs, Configure(p) PROVE PopulateInv'
  <2>1. /\ reg' = reg /\ branches \subseteq branches' /\ request' = request
        /\ \A q \in Procs : pc'[q] = "populate" => pc[q] = "populate" /\ branch'[q] = branch[q]
    BY <1>8 DEF Configure
  <2>2. SUFFICES ASSUME NEW q \in Procs, pc'[q] = "populate"
                 PROVE  /\ (branch[q] \in branches)' /\ (Held(branch[q]) = {Dest(q)})'
                        /\ \A r \in Procs : pc'[r] = "populate" /\ branch'[r] = branch'[q] => r = q
    BY DEF PopulateInv
  <2>3. pc[q] = "populate" /\ branch'[q] = branch[q] /\ reg' = reg /\ request' = request
    BY <2>1, <2>2
  <2>4. (Held(branch[q]) = {Dest(q)})' <=> (Held(branch[q]) = {Dest(q)})
    BY <2>3 DEF Held, Dest
  <2> QED
    BY <2>1, <2>3, <2>4 DEF PopulateInv
<1>9. CASE UNCHANGED vars
  <2>1. /\ reg' = reg /\ branches \subseteq branches' /\ request' = request
        /\ \A q \in Procs : pc'[q] = "populate" => pc[q] = "populate" /\ branch'[q] = branch[q]
    BY <1>9 DEF vars
  <2>2. SUFFICES ASSUME NEW q \in Procs, pc'[q] = "populate"
                 PROVE  /\ (branch[q] \in branches)' /\ (Held(branch[q]) = {Dest(q)})'
                        /\ \A r \in Procs : pc'[r] = "populate" /\ branch'[r] = branch'[q] => r = q
    BY DEF PopulateInv
  <2>3. pc[q] = "populate" /\ branch'[q] = branch[q] /\ reg' = reg /\ request' = request
    BY <2>1, <2>2
  <2>4. (Held(branch[q]) = {Dest(q)})' <=> (Held(branch[q]) = {Dest(q)})
    BY <2>3 DEF Held, Dest
  <2> QED
    BY <2>1, <2>3, <2>4 DEF PopulateInv
<1> QED
  BY <1>1, <1>2, <1>3, <1>4, <1>5, <1>6, <1>7, <1>8, <1>9, StepKinds

\* What is left to show of a step that changes neither registrations nor which branches there are
\* but for a new one: of every command, and of those whose branch nobody has touched.
LEMMA AloneAfter ==
    ASSUME Types', \A q \in Procs : told'[q] => pc'[q] = "failed",
           \A r \in Procs, b \in Branches : r \in alone' /\ branch'[r] = b => Untouched(r, b)'
    PROVE  AloneInv'
<1>1. alone' \subseteq Procs /\ branch' \in [Procs -> Branches]
  BY DEF Types, TypeOK
<1>2. ASSUME NEW r \in alone' PROVE Untouched(r, branch[r])'
  <2>1. PICK b \in Branches : b = branch'[r]
    BY <1>1
  <2>2. Untouched(r, b)'
    BY <1>1, <2>1
  <2> QED
    BY <2>1, <2>2 DEF Untouched, Held
<1> QED
  BY <1>2 DEF AloneInv

LEMMA AloneStep == Types /\ Types' /\ PopulateInv /\ WonInv /\ AloneInv /\ [Next]_vars => AloneInv'
<1> SUFFICES ASSUME Types, Types', PopulateInv, WonInv, AloneInv, [Next]_vars PROVE AloneInv'
  OBVIOUS
<1> USE SwitchAssumption DEF Types, TypeOK, world, plans, history, Goto, Step, AloneInv, Final
<1>1. ASSUME Environment PROVE AloneInv'
  <2>1. \A q \in Procs : told'[q] => pc'[q] = "failed"
    BY <1>1, EnvironmentKeeps DEF PlanKept
  <2>2. ASSUME NEW r \in Procs, NEW b \in Branches, r \in alone', branch'[r] = b PROVE Untouched(r, b)'
    <3>1. r \in alone /\ branch[r] = b /\ pc' = pc /\ told' = told /\ branch' = branch /\ method' = method
      <4>1. alone' \subseteq alone
        BY <1>1, EnvironmentHolds
      <4>2. pc' = pc /\ told' = told /\ branch' = branch /\ method' = method
        BY <1>1, EnvironmentKeeps DEF PlanKept
      <4> QED
        BY <2>2, <4>1, <4>2
    <3>2. Held(b)' = Held(b) /\ (b \in branches => b \in branches')
      BY <1>1, <2>2, <3>1, EnvironmentHolds
    <3>3. Untouched(r, b)
      BY <3>1
    <3> QED
      BY <3>1, <3>2, <3>3 DEF Untouched
  <2> QED
    BY <2>1, <2>2, AloneAfter
<1>2. ASSUME NEW p \in Procs, Quietly(p) PROVE AloneInv'
  <2>1. \A q \in Procs : told'[q] => pc'[q] = "failed"
    BY <1>2 DEF Quietly, OthersKept
  <2>2. ASSUME NEW r \in Procs, NEW b \in Branches, r \in alone', branch'[r] = b PROVE Untouched(r, b)'
    <3>1. r \in alone /\ Held(b)' = Held(b) /\ branches' = branches /\ OthersKept(p)
      BY <1>2, <2>2 DEF Quietly, Held
    <3>2. branch[r] = b /\ method'[r] = method[r]
      <4>1. pc[r] \notin Early
        BY <3>1 DEF WonInv, Adding, Early
      <4> QED
        BY <1>2, <2>2, <3>1, <4>1 DEF Quietly, OthersKept, PlanKept
    <3>3. Untouched(r, b)
      BY <3>1, <3>2
    <3>4. \A q \in Procs : q # r /\ pc'[q] = "populate" => branch'[q] # b
      BY <1>2, <3>1, <3>3 DEF Quietly, OthersKept, Untouched
    <3>5. CASE r # p
      BY <3>1, <3>2, <3>3, <3>4, <3>5 DEF OthersKept, Untouched
    <3>6. CASE r = p
      <4>1. pc[p] \notin Early /\ ~told[p]
        BY <1>2, <3>1, <3>6 DEF WonInv, Adding, Early, Quietly
      <4>2. pc'[p] \notin {"created", "hook"}
        BY <1>2 DEF Quietly
      <4>3. pc'[p] = "failed" /\ method[p] = "create" => (told'[p] <=> Held(b) = {})
        <5> SUFFICES ASSUME pc'[p] = "failed", method[p] = "create" PROVE told'[p] <=> Held(b) = {}
          OBVIOUS
        <5>1. \/ pc[p] \in {"created", "hook"} /\ told'[p] = told[p]
              \/ pc[p] = "broken" /\ ~(method[p] = "create" /\ branch[p] \in branches)
              \/ pc[p] = "leftover" /\ told'[p] = (Held(branch[p]) = {})
          BY <1>2, <4>1 DEF Quietly
        <5>2. CASE pc[p] \in {"created", "hook"} /\ told'[p] = told[p]
          BY <3>3, <3>6, <4>1, <5>2 DEF Untouched
        <5>3. CASE pc[p] = "broken" /\ ~(method[p] = "create" /\ branch[p] \in branches)
          BY <3>2, <3>3, <3>6, <5>3 DEF Untouched
        <5>4. CASE pc[p] = "leftover" /\ told'[p] = (Held(branch[p]) = {})
          BY <3>2, <3>6, <5>4
        <5> QED
          BY <5>1, <5>2, <5>3, <5>4
      <4> QED
        BY <3>1, <3>2, <3>3, <3>4, <3>6, <4>2, <4>3 DEF Untouched
    <3> QED
      BY <3>5, <3>6
  <2> QED
    BY <2>1, <2>2, AloneAfter
<1>3. ASSUME NEW p \in Procs, MoveAside(p) PROVE AloneInv'
  <2>1. \A q \in Procs : told'[q] => pc'[q] = "failed"
    BY <1>3 DEF MoveAside
  <2>2. ASSUME NEW r \in Procs, NEW b \in Branches, r \in alone', branch'[r] = b PROVE Untouched(r, b)'
    <3>1. r \in alone /\ branch[r] = b /\ Held(b)' = Held(b)
      BY <1>3, <2>2 DEF MoveAside, Held
    <3>2. Untouched(r, b)
      BY <3>1
    <3> QED
      BY <1>3, <3>1, <3>2 DEF MoveAside, Untouched
  <2> QED
    BY <2>1, <2>2, AloneAfter
<1>4. ASSUME NEW p \in Procs, AddBranch(p) PROVE AloneInv'
  <2>1. \A q \in Procs : told'[q] => pc'[q] = "failed"
    BY <1>4 DEF AddBranch
  <2>2. ASSUME NEW r \in Procs, NEW b \in Branches, r \in alone', branch'[r] = b PROVE Untouched(r, b)'
    <3>1. /\ b \in branches' /\ branch[r] = b /\ Held(b)' = Held(b)
          /\ \A q \in Procs : pc'[q] = "populate" => pc[q] = "populate" /\ branch'[q] = branch[q]
      <4>1. branch' = branch /\ branches' = branches \cup {branch[p]} /\ reg' = reg /\ alone' = alone \cup {p}
        BY <1>4 DEF AddBranch
      <4>2. r # p => branch[r] \in branches
        BY <2>2, <4>1 DEF Untouched
      <4> QED
        BY <1>4, <2>2, <4>1, <4>2 DEF AddBranch, Held
    <3>2. CASE r = p
      <4>1. b \notin branches /\ pc'[r] = "register"
        BY <1>4, <3>1, <3>2 DEF AddBranch
      <4>2. \A q \in Procs : pc[q] = "populate" => branch[q] # b
        BY <4>1 DEF PopulateInv
      <4> QED
        BY <3>1, <4>1, <4>2 DEF Untouched
    <3>3. CASE r # p
      <4>1. r \in alone /\ pc'[r] = pc[r] /\ method' = method /\ told' = told
        BY <1>4, <2>2, <3>3 DEF AddBranch
      <4>2. Untouched(r, b)
        BY <3>1, <4>1
      <4> QED
        BY <3>1, <4>1, <4>2 DEF Untouched
    <3> QED
      BY <3>2, <3>3
  <2> QED
    BY <2>1, <2>2, AloneAfter
<1>5. ASSUME NEW p \in Procs, Register(p) PROVE AloneInv'
  <2>1. \A q \in Procs : told'[q] => pc'[q] = "failed"
    BY <1>5 DEF Register
  <2>2. ASSUME NEW r \in Procs, NEW b \in Branches, r \in alone', branch'[r] = b PROVE Untouched(r, b)'
    <3>1. /\ UNCHANGED <<branches, branch, method, told>> /\ reg' = [reg EXCEPT ![Dest(p)] = branch[p]]
          /\ reg[Dest(p)] = None /\ Held(branch[p]) = {} /\ pc' = [pc EXCEPT ![p] = "populate"]
          /\ r \in alone /\ (r = p \/ branch[r] # branch[p])
      BY <1>5, <2>2 DEF Register, CanRegister
    <3>2. branch[r] = b /\ Untouched(r, b)
      BY <2>2, <3>1
    <3>3. CASE r = p
      BY <3>1, <3>2, <3>3 DEF Untouched
    <3>4. CASE r # p
      <4>1. \A y \in Places : reg'[y] = b <=> reg[y] = b
        BY <3>1, <3>2, <3>4, PlansAt
      <4>2. Held(b)' = Held(b)
        BY <4>1 DEF Held
      <4> QED
        BY <3>1, <3>2, <3>4, <4>2 DEF Untouched
    <3> QED
      BY <3>3, <3>4
  <2> QED
    BY <2>1, <2>2, AloneAfter
<1>6. ASSUME NEW p \in Procs, Populate(p) PROVE AloneInv'
  <2>1. \A q \in Procs : told'[q] => pc'[q] = "failed"
    BY <1>6 DEF Populate
  <2>2. ASSUME NEW r \in Procs, NEW b \in Branches, r \in alone', branch'[r] = b PROVE Untouched(r, b)'
    <3>1. /\ r \in alone /\ branch[r] = b /\ Held(b)' = Held(b) /\ UNCHANGED <<branches, branch, method, told>>
          /\ pc[p] = "populate" /\ pc'[p] \in {"created", "broken"} /\ \A q \in Procs \ {p} : pc'[q] = pc[q]
      BY <1>6, <2>2 DEF Populate, Held
    <3>2. Untouched(r, b)
      BY <3>1
    <3>3. r = p => Held(b) # {}
      BY <3>1, ZenonT(60) DEF PopulateInv
    <3> QED
      BY <3>1, <3>2, <3>3 DEF Untouched
  <2> QED
    BY <2>1, <2>2, AloneAfter
<1>7. ASSUME NEW p \in Procs, Unwound(p) PROVE AloneInv'
  <2>1. \A q \in Procs : told'[q] => pc'[q] = "failed"
    BY <1>7 DEF Unwound, CannotPopulate, Interrupted, Unwind
  <2>2. ASSUME NEW r \in Procs, NEW b \in Branches, r \in alone', branch'[r] = b PROVE Untouched(r, b)'
    <3>1. /\ UNCHANGED <<branches, branch, method, told>> /\ reg' = [reg EXCEPT ![Dest(p)] = None]
          /\ pc[p] = "populate" /\ pc'[p] \in {"broken", "interrupted"} /\ \A q \in Procs \ {p} : pc'[q] = pc[q]
          /\ r \in alone
      BY <1>7, <2>2 DEF Unwound, CannotPopulate, Interrupted, Unwind
    <3>2. branch[r] = b /\ Untouched(r, b)
      BY <2>2, <3>1
    <3>3. CASE r = p
      BY <3>1, <3>2, <3>3 DEF Untouched
    <3>4. CASE r # p
      <4>1. branch[p] # b
        BY <3>1, <3>2, <3>4 DEF Untouched
      <4>2. Held(branch[p]) = {Dest(p)}
        BY <3>1 DEF PopulateInv
      <4>3. reg[Dest(p)] = branch[p]
        BY <4>2 DEF Held
      <4>4. \A y \in Places : reg'[y] = b <=> reg[y] = b
        BY <3>1, <4>1, <4>3, PlansAt
      <4>5. Held(b)' = Held(b)
        BY <4>4 DEF Held
      <4> QED
        BY <3>1, <3>2, <3>4, <4>5 DEF Untouched
    <3> QED
      BY <3>3, <3>4
  <2> QED
    BY <2>1, <2>2, AloneAfter
<1>8. ASSUME NEW p \in Procs, Configure(p) PROVE AloneInv'
  <2>1. \A q \in Procs : told'[q] => pc'[q] = "failed"
    BY <1>8 DEF Configure
  <2>2. ASSUME NEW r \in Procs, NEW b \in Branches, r \in alone', branch'[r] = b PROVE Untouched(r, b)'
    <3>1. r \in alone /\ branch[r] = b /\ Held(b)' = Held(b)
      BY <1>8, <2>2 DEF Configure, Held
    <3>2. Untouched(r, b)
      BY <3>1
    <3> QED
      BY <1>8, <3>1, <3>2 DEF Configure, Untouched
  <2> QED
    BY <2>1, <2>2, AloneAfter
<1>9. CASE UNCHANGED vars
  <2>1. \A q \in Procs : told'[q] => pc'[q] = "failed"
    BY <1>9 DEF vars
  <2>2. ASSUME NEW r \in Procs, NEW b \in Branches, r \in alone', branch'[r] = b PROVE Untouched(r, b)'
    <3>1. r \in alone /\ branch[r] = b /\ Held(b)' = Held(b)
      BY <1>9, <2>2 DEF vars, Held
    <3>2. Untouched(r, b)
      BY <3>1
    <3> QED
      BY <1>9, <3>1, <3>2 DEF vars, Untouched
  <2> QED
    BY <2>1, <2>2, AloneAfter
<1> QED
  BY <1>1, <1>2, <1>3, <1>4, <1>5, <1>6, <1>7, <1>8, <1>9, StepKinds

LEMMA Invariance == Spec => []IInv
<1>1. Init => IInv
  BY TypesInit, InvInit DEF IInv
<1>2. IInv /\ [Next]_vars => IInv'
  BY TypesStep, ResolveStep, KeptStep, WonStep, PopulateStep, AloneStep DEF IInv
<1> QED
  BY <1>1, <1>2, PTL DEF Spec

(***************************************************************************)
(* Theorems.                                                               *)
(***************************************************************************)

\* Every variable of the model stays in the range it is declared with; the search for a backup
\* name stops (switch.rs, the plan; backup.rs, the names tried).
THEOREM TypeCorrect == Spec => []TypeOK
<1>1. IInv => TypeOK
  BY DEF IInv, Types
<1> QED
  BY <1>1, Invariance, PTL

\* However the steps of any number of --clobber switches and of everybody else fall, what nobody
\* took away is still somewhere (backup.rs, back_up_clobbered_path).
THEOREM NothingOverwritten == Spec => []ContentsKept
<1>1. IInv => ContentsKept
  BY DEF IInv, KeptInv
<1> QED
  BY <1>1, Invariance, PTL

\* A branch that a failed `wt switch --create` leaves behind is named in the error exactly when no
\* worktree holds it (switch.rs, failed_add_left_branch).
THEOREM LeftoversAreNamed == Spec => []LeftoverNamed
<1>1. IInv => LeftoverNamed
  BY DEF IInv, AloneInv, Untouched, LeftoverNamed
<1> QED
  BY <1>1, Invariance, PTL

\* A switch deletes no branch and writes the configuration of none but those its own git worktree
\* add made (switch.rs, create_fork_worktree).
THEOREM OnlyOwnBranchesWritten == Spec => OthersBranchesUntouched
<1> DEFINE Kept == changes' = changes =>
                       /\ branches \subseteq branches'
                       /\ \A b \in Branches : track'[b] # track[b] => \E p \in won' : branch[p] = b
<1>1. IInv /\ [Next]_vars => [Kept]_vars
  <2> SUFFICES ASSUME IInv, [Next]_vars PROVE [Kept]_vars
    OBVIOUS
  <2> USE DEF world, plans, history, Step, Goto
  <2>1. Types /\ WonInv
    BY DEF IInv
  <2>2. CASE Environment
    <3>1. changes' = changes + 1
      BY <2>2 DEF Environment, Change, MakeBranch, DropBranch, MakeDir, AddWorktree, RemoveWorktree, LoseDir
    <3>2. changes' # changes
      BY <2>1, <3>1, SwitchAssumption DEF Types, TypeOK
    <3> QED
      BY <3>2
  <2>3. ASSUME NEW p \in Procs, Quietly(p) PROVE Kept
    BY <2>3 DEF Quietly
  <2>4. ASSUME NEW p \in Procs, AddBranch(p) PROVE Kept
    BY <2>1, <2>4 DEF AddBranch, Types, TypeOK
  <2>5. ASSUME NEW p \in Procs, Configure(p) PROVE Kept
    <3>1. CASE track' = track
      BY <2>5, <3>1 DEF Configure
    <3>2. CASE track' # track
      <4>1. pc[p] = "created" /\ method[p] # "regular" /\ won' = won /\ branches' = branches
        BY <2>5, <3>2 DEF Configure
      <4>2. p \in won'
        BY <2>1, <4>1 DEF WonInv
      <4>3. \A b \in Branches : track'[b] # track[b] => b = branch[p]
        BY <2>1, <2>5 DEF Configure, Types, TypeOK
      <4> QED
        BY <4>1, <4>2, <4>3
    <3> QED
      BY <3>1, <3>2
  <2>6. ASSUME NEW p \in Procs, MoveAside(p) \/ Register(p) \/ Populate(p) \/ Unwound(p) PROVE Kept
    BY <2>6 DEF MoveAside, Register, Populate, Unwound, CannotPopulate, Interrupted, Unwind
  <2>7. CASE UNCHANGED vars
    BY <2>7
  <2> QED
    BY <2>1, <2>2, <2>3, <2>4, <2>5, <2>6, <2>7, StepKinds
<1> QED
  BY <1>1, Invariance, PTL DEF Spec, OthersBranchesUntouched
===============================================================================
