--------------------------- MODULE RemovalProofs ----------------------------
(***************************************************************************)
(* WorktreeRemoval for every number of removers, commits and steps of the  *)
(* others, with and without an fsmonitor daemon and submodules: no work,   *)
(* lock, foreign directory, checkout or commit is lost that a remover's    *)
(* last look could have shown.                                             *)
(*                                                                         *)
(* Then TrashDrain, which empties what removals leave behind, for every    *)
(* number of commands, drains, entries and faults: one deleter at a time,  *)
(* no staged removal forgotten, and the implementation of TrashPromise.    *)
(***************************************************************************)
EXTENDS WorktreeRemoval, TrashDrain, TLAPS

\* The branch points at a commit there is, only a daemon can be behind, and what a remover captured
\* of the target is still in it, since the target only grows;
\* whoever is about to delete a branch safely holds a tip that the captured target has.
WorldInv ==
    /\ tip \in used \cup {None}
    /\ stale => Fsmonitor
    /\ \A r \in Removers : snap[r].merged \subseteq merged
    /\ \A r \in Removers : pc[r] \in {"topology", "cas", "classify"} =>
          opt[r].mode = "safe" /\ snap[r].tip \in snap[r].merged

\* What a passed gate still means: a fact that holds between the last check of it and the act it
\* guards arose after the check.  A registration is deleted only once its directory was gone.
OwnerGate(r) ==
    /\ pc[r] \in Checked("foreign") /\ dir = "foreign" => "foreign" \in late[r]
    /\ pc[r] = "unregister" => dir # "ours"
LockGate(r) == pc[r] \in Checked("lock") /\ locked => "lock" \in late[r]
WorkGate(r) == pc[r] \in Checked("work") /\ dirty /\ ~opt[r].force => "work" \in late[r]
CheckoutGate(r) == pc[r] \in Checked("checkout") /\ CheckedOut => "checkout" \in late[r]
GateInv == \A r \in Removers : OwnerGate(r) /\ LockGate(r) /\ WorkGate(r) /\ CheckoutGate(r)

\* The types of what all see, and of what each remover has to itself.
WorldTypes ==
    /\ dir \in {"ours", "foreign", "absent"}
    /\ registered \in BOOLEAN /\ locked \in BOOLEAN /\ dirty \in BOOLEAN /\ stale \in BOOLEAN
    /\ tip \in Commits \cup {None} /\ used \subseteq Commits /\ merged \subseteq used
    /\ sibling \in BOOLEAN /\ changes \in Nat

RemoverTypes ==
    /\ pc \in [Removers -> Labels]
    /\ opt \in [Removers -> [force : BOOLEAN, mode : Modes, path : Paths]]
    /\ snap \in [Removers -> Snapshots]
    /\ expected \in [Removers -> Commits \cup {None}]
    /\ late \in [Removers -> SUBSET Facts]
    /\ missed \subseteq Removers \X Facts
    /\ fate \in [Removers -> Outcomes]

NothingMissed == WorkKept /\ LockHonoured /\ OwnerChecked /\ CheckoutKeepsBranch

\* The inductive invariant.
IInv == TypeOK /\ WorldInv /\ GateInv /\ NothingMissed

LEMMA TypeParts == TypeOK <=> WorldTypes /\ RemoverTypes
BY DEF TypeOK, WorldTypes, RemoverTypes

LEMMA TypeInit == Init => TypeOK
<1> SUFFICES ASSUME Init PROVE WorldTypes /\ RemoverTypes
  BY TypeParts
<1>1. WorldTypes
  BY RemovalAssumption DEF Init, WorldTypes
<1>2. RemoverTypes
  BY RemovalAssumption
  DEF Init, RemoverTypes, Snapshots, NoSnapshot, Flags, Modes, Paths, Labels, Outcomes
<1> QED
  BY <1>1, <1>2

LEMMA WorldInit == Init => WorldInv
BY RemovalAssumption DEF Init, WorldInv, NoSnapshot

\* The steps of a remover that leave the repository and the directory alone.
Reads(r) ==
    \/ Stop(r) \/ PlanWorktree(r) \/ PlanBranchOnly(r) \/ AfterHooks(r)
    \/ CheckOwner(r) \/ CheckLock(r) \/ CheckClean(r) \/ Rescan(r)
    \/ PruneEntry(r) \/ PruneFails(r) \/ RenameFails(r) \/ SubmoduleScan(r)
    \/ BuildTail(r) \/ ResolveTarget(r) \/ ChildCapture(r)
    \/ Capture(r) \/ Integrate(r) \/ ReadTopology(r) \/ CompareFails(r) \/ Classify(r)

LEMMA ReadsLeaveTheWorld ==
    ASSUME NEW r \in Removers, Reads(r)
    PROVE  UNCHANGED <<world, changes, missed>>
BY DEF Reads, history, Stop, PlanWorktree, PlanBranchOnly, AfterHooks, CheckOwner, CheckLock, CheckClean,
       Rescan, PruneEntry, PruneFails, RenameFails, SubmoduleScan, BuildTail, ResolveTarget,
       ChildCapture, Capture, Integrate, ReadTopology, CompareFails, Classify

LEMMA WorldTypeStep == TypeOK /\ WorldInv /\ [Next]_vars => WorldTypes'
<1> SUFFICES ASSUME WorldTypes, WorldInv, [Next]_vars PROVE WorldTypes'
  BY TypeParts
<1> USE RemovalAssumption DEF WorldTypes, WorldInv, world
<1>0. ASSUME Change PROVE changes' \in Nat
  BY <1>0 DEF Change
<1>1. ASSUME Write PROVE WorldTypes'
  BY <1>0, <1>1 DEF Write
<1>2. ASSUME Commit PROVE WorldTypes'
  BY <1>0, <1>2 DEF Commit
<1>3. ASSUME MoveBranch PROVE WorldTypes'
  BY <1>0, <1>3 DEF MoveBranch
<1>4. ASSUME DropBranch PROVE WorldTypes'
  BY <1>0, <1>4 DEF DropBranch
<1>5. ASSUME MergeBranch PROVE WorldTypes'
  BY <1>0, <1>5 DEF MergeBranch
<1>6. ASSUME LockWorktree PROVE WorldTypes'
  BY <1>0, <1>6 DEF LockWorktree
<1>7. ASSUME UnlockWorktree PROVE WorldTypes'
  BY <1>0, <1>7 DEF UnlockWorktree
<1>8. ASSUME ReplaceDirectory PROVE WorldTypes'
  BY <1>0, <1>8 DEF ReplaceDirectory
<1>9. ASSUME CheckOutElsewhere PROVE WorldTypes'
  BY <1>0, <1>9 DEF CheckOutElsewhere
<1>10. ASSUME NEW r \in Removers, Reads(r) PROVE WorldTypes'
  BY <1>10, ReadsLeaveTheWorld
<1>11. ASSUME NEW r \in Removers, StopDaemon(r) PROVE WorldTypes'
  BY <1>11 DEF StopDaemon
<1>12. ASSUME NEW r \in Removers, Rename(r) PROVE WorldTypes'
  BY <1>12 DEF Rename, LoseDirectory, LostWithDirectory
<1>13. ASSUME NEW r \in Removers, Unregister(r) PROVE WorldTypes'
  BY <1>13 DEF Unregister, AfterRemoval, ActedAgainst
<1>14. ASSUME NEW r \in Removers, RemoveNow(r) PROVE WorldTypes'
  BY <1>14 DEF RemoveNow, GitWorktreeRemove, LoseDirectory, LostWithDirectory, AfterRemoval
<1>15. ASSUME NEW r \in Removers, ChildRemove(r) PROVE WorldTypes'
  BY <1>15 DEF ChildRemove, GitWorktreeRemove, LoseDirectory, LostWithDirectory
<1>16. ASSUME NEW r \in Removers, ForceDelete(r) PROVE WorldTypes'
  BY <1>16 DEF ForceDelete, DeleteBranch
<1>17. ASSUME NEW r \in Removers, CompareAndDelete(r) PROVE WorldTypes'
  BY <1>17 DEF CompareAndDelete, DeleteBranch
<1>18. CASE UNCHANGED vars
  BY <1>18 DEF vars
<1> QED
  BY <1>1, <1>2, <1>3, <1>4, <1>5, <1>6, <1>7, <1>8, <1>9, <1>10, <1>11, <1>12, <1>13, <1>14,
     <1>15, <1>16, <1>17, <1>18 DEF Next, Environment, Reads

LEMMA RemoverTypeStep == TypeOK /\ [Next]_vars => RemoverTypes'
<1> SUFFICES ASSUME TypeOK, [Next]_vars PROVE RemoverTypes'
  OBVIOUS
<1> USE RemovalAssumption
    DEF TypeOK, RemoverTypes, Snapshots, Modes, Paths, Labels, Facts, Outcomes, local, history,
        Goto, Step, Report
<1>1. ASSUME Write PROVE RemoverTypes'
  BY <1>1 DEF Write, Change, Arises
<1>2. ASSUME Commit PROVE RemoverTypes'
  BY <1>2 DEF Commit, Change
<1>3. ASSUME MoveBranch PROVE RemoverTypes'
  BY <1>3 DEF MoveBranch, Change
<1>4. ASSUME DropBranch PROVE RemoverTypes'
  BY <1>4 DEF DropBranch, Change
<1>5. ASSUME MergeBranch PROVE RemoverTypes'
  BY <1>5 DEF MergeBranch, Change
<1>6. ASSUME LockWorktree PROVE RemoverTypes'
  BY <1>6 DEF LockWorktree, Change
<1>7. ASSUME UnlockWorktree PROVE RemoverTypes'
  BY <1>7 DEF UnlockWorktree, Change
<1>8. ASSUME ReplaceDirectory PROVE RemoverTypes'
  BY <1>8 DEF ReplaceDirectory, Change
<1>9. ASSUME CheckOutElsewhere PROVE RemoverTypes'
  BY <1>9 DEF CheckOutElsewhere, Change, Arises
<1>10. ASSUME NEW r \in Removers, Stop(r) PROVE RemoverTypes'
  BY <1>10 DEF Stop
<1>11. ASSUME NEW r \in Removers, PlanWorktree(r) PROVE RemoverTypes'
  <2>1. PICK m \in Modes : opt' = [opt EXCEPT ![r].mode = m]
    BY <1>11 DEF PlanWorktree
  <2>2. opt' \in [Removers -> [force : BOOLEAN, mode : Modes, path : Paths]]
    <3>1. [opt[r] EXCEPT !.mode = m] \in [force : BOOLEAN, mode : Modes, path : Paths]
      OBVIOUS
    <3> QED
      BY <2>1, <3>1
  <2>3. pc' = [pc EXCEPT ![r] = "hooks"] /\ UNCHANGED <<snap, expected, fate, late, missed>>
    BY <1>11 DEF PlanWorktree
  <2> QED
    BY <2>2, <2>3
<1>12. ASSUME NEW r \in Removers, PlanBranchOnly(r) PROVE RemoverTypes'
  <2>1. pc' = [pc EXCEPT ![r] = "prune"] \/ pc' = [pc EXCEPT ![r] = "capture"]
    BY <1>12 DEF PlanBranchOnly
  <2>2. pc' \in [Removers -> Labels]
    BY <2>1
  <2>3. PICK m \in Modes : opt' = [opt EXCEPT ![r] = [force |-> opt[r].force, path |-> "branchOnly", mode |-> m]]
    BY <1>12 DEF PlanBranchOnly
  <2>4. opt' \in [Removers -> [force : BOOLEAN, mode : Modes, path : Paths]]
    BY <2>3
  <2> QED
    BY <1>12, <2>2, <2>4 DEF PlanBranchOnly
<1>13. ASSUME NEW r \in Removers, AfterHooks(r) PROVE RemoverTypes'
  BY <1>13 DEF AfterHooks
<1>14. ASSUME NEW r \in Removers, CheckOwner(r) PROVE RemoverTypes'
  BY <1>14 DEF CheckOwner
<1>15. ASSUME NEW r \in Removers, CheckLock(r) PROVE RemoverTypes'
  BY <1>15 DEF CheckLock
<1>16. ASSUME NEW r \in Removers, CheckClean(r) PROVE RemoverTypes'
  BY <1>16 DEF CheckClean
<1>17. ASSUME NEW r \in Removers, StopDaemon(r) PROVE RemoverTypes'
  BY <1>17 DEF StopDaemon
<1>18. ASSUME NEW r \in Removers, Rescan(r) PROVE RemoverTypes'
  BY <1>18 DEF Rescan
<1>19. ASSUME NEW r \in Removers, Rename(r) PROVE RemoverTypes'
  BY <1>19 DEF Rename, LoseDirectory, LostWithDirectory
<1>20. ASSUME NEW r \in Removers, PruneEntry(r) PROVE RemoverTypes'
  BY <1>20 DEF PruneEntry
<1>21. ASSUME NEW r \in Removers, Unregister(r) PROVE RemoverTypes'
  BY <1>21 DEF Unregister, AfterRemoval, ActedAgainst
<1>22. ASSUME NEW r \in Removers, PruneFails(r) PROVE RemoverTypes'
  BY <1>22 DEF PruneFails, AfterRemoval
<1>23. ASSUME NEW r \in Removers, RenameFails(r) PROVE RemoverTypes'
  BY <1>23 DEF RenameFails
<1>24. ASSUME NEW r \in Removers, SubmoduleScan(r) PROVE RemoverTypes'
  BY <1>24 DEF SubmoduleScan
<1>25. ASSUME NEW r \in Removers, RemoveNow(r) PROVE RemoverTypes'
  BY <1>25 DEF RemoveNow, GitWorktreeRemove, LoseDirectory, LostWithDirectory, AfterRemoval
<1>26. ASSUME NEW r \in Removers, BuildTail(r) PROVE RemoverTypes'
  <2>1. CASE tip # None /\ tip \in merged
    <3>1. /\ pc' = [pc EXCEPT ![r] = "target"] /\ expected' = [expected EXCEPT ![r] = tip]
          /\ UNCHANGED <<snap, opt, fate, late, missed>>
      BY <1>26, <2>1 DEF BuildTail
    <3> QED
      BY <3>1
  <2>2. CASE ~(tip # None /\ tip \in merged)
    <3>1. /\ pc' = [pc EXCEPT ![r] = "childRemove"] /\ opt' = [opt EXCEPT ![r].mode = "keep"]
          /\ fate' = [fate EXCEPT ![r] = "NotDeleted"] /\ UNCHANGED <<snap, expected, late, missed>>
      BY <1>26, <2>2 DEF BuildTail
    <3> QED
      BY <3>1, SMTT(30)
  <2> QED
    BY <2>1, <2>2
<1>27. ASSUME NEW r \in Removers, ResolveTarget(r) PROVE RemoverTypes'
  BY <1>27 DEF ResolveTarget
<1>28. ASSUME NEW r \in Removers, ChildRemove(r) PROVE RemoverTypes'
  BY <1>28 DEF ChildRemove, GitWorktreeRemove, LoseDirectory, LostWithDirectory
<1>29. ASSUME NEW r \in Removers, ChildCapture(r) PROVE RemoverTypes'
  <2>1. pc' \in [Removers -> Labels]
    BY <1>29 DEF ChildCapture
  <2>2. snap' \in [Removers -> Snapshots]
    BY <1>29, SMTT(30) DEF ChildCapture
  <2>3. fate' \in [Removers -> Outcomes]
    BY <1>29 DEF ChildCapture
  <2> QED
    BY <1>29, <2>1, <2>2, <2>3 DEF ChildCapture
<1>30. ASSUME NEW r \in Removers, Capture(r) PROVE RemoverTypes'
  BY <1>30 DEF Capture
<1>31. ASSUME NEW r \in Removers, ForceDelete(r) PROVE RemoverTypes'
  BY <1>31 DEF ForceDelete, DeleteBranch
<1>32. ASSUME NEW r \in Removers, Integrate(r) PROVE RemoverTypes'
  BY <1>32 DEF Integrate
<1>33. ASSUME NEW r \in Removers, ReadTopology(r) PROVE RemoverTypes'
  BY <1>33 DEF ReadTopology
<1>34. ASSUME NEW r \in Removers, CompareAndDelete(r) PROVE RemoverTypes'
  BY <1>34 DEF CompareAndDelete, DeleteBranch
<1>35. ASSUME NEW r \in Removers, CompareFails(r) PROVE RemoverTypes'
  BY <1>35 DEF CompareFails
<1>36. ASSUME NEW r \in Removers, Classify(r) PROVE RemoverTypes'
  BY <1>36 DEF Classify
<1>37. CASE UNCHANGED vars
  BY <1>37 DEF vars
<1> QED
  BY <1>1, <1>2, <1>3, <1>4, <1>5, <1>6, <1>7, <1>8, <1>9, <1>10, <1>11, <1>12, <1>13, <1>14,
     <1>15, <1>16, <1>17, <1>18, <1>19, <1>20, <1>21, <1>22, <1>23, <1>24, <1>25, <1>26, <1>27,
     <1>28, <1>29, <1>30, <1>31, <1>32, <1>33, <1>34, <1>35, <1>36, <1>37 DEF Next, Environment

LEMMA WorldStep == TypeOK /\ WorldInv /\ [Next]_vars => WorldInv'
<1> SUFFICES ASSUME TypeOK, WorldInv, [Next]_vars PROVE WorldInv'
  OBVIOUS
<1> USE RemovalAssumption
    DEF TypeOK, WorldInv, Snapshots, Labels, world, local, history, Goto, Step, Report
<1>1. ASSUME Write PROVE WorldInv'
  <2>1. stale' => Fsmonitor
    BY <1>1 DEF Write
  <2> QED
    BY <1>1, <2>1 DEF Write, Change
<1>2. ASSUME Commit PROVE WorldInv'
  BY <1>2 DEF Commit, Change
<1>3. ASSUME MoveBranch PROVE WorldInv'
  BY <1>3 DEF MoveBranch, Change
<1>4. ASSUME DropBranch PROVE WorldInv'
  BY <1>4 DEF DropBranch, Change
<1>5. ASSUME MergeBranch PROVE WorldInv'
  BY <1>5 DEF MergeBranch, Change
<1>6. ASSUME LockWorktree PROVE WorldInv'
  BY <1>6 DEF LockWorktree, Change
<1>7. ASSUME UnlockWorktree PROVE WorldInv'
  BY <1>7 DEF UnlockWorktree, Change
<1>8. ASSUME ReplaceDirectory PROVE WorldInv'
  BY <1>8 DEF ReplaceDirectory, Change
<1>9. ASSUME CheckOutElsewhere PROVE WorldInv'
  BY <1>9 DEF CheckOutElsewhere, Change, Arises
<1>10. ASSUME NEW r \in Removers, Stop(r) PROVE WorldInv'
  BY <1>10 DEF Stop
<1>11. ASSUME NEW r \in Removers, PlanWorktree(r) PROVE WorldInv'
  BY <1>11 DEF PlanWorktree
<1>12. ASSUME NEW r \in Removers, PlanBranchOnly(r) PROVE WorldInv'
  BY <1>12 DEF PlanBranchOnly
<1>13. ASSUME NEW r \in Removers, AfterHooks(r) PROVE WorldInv'
  BY <1>13 DEF AfterHooks
<1>14. ASSUME NEW r \in Removers, CheckOwner(r) PROVE WorldInv'
  BY <1>14 DEF CheckOwner
<1>15. ASSUME NEW r \in Removers, CheckLock(r) PROVE WorldInv'
  BY <1>15 DEF CheckLock
<1>16. ASSUME NEW r \in Removers, CheckClean(r) PROVE WorldInv'
  BY <1>16 DEF CheckClean
<1>17. ASSUME NEW r \in Removers, StopDaemon(r) PROVE WorldInv'
  BY <1>17 DEF StopDaemon
<1>18. ASSUME NEW r \in Removers, Rescan(r) PROVE WorldInv'
  BY <1>18 DEF Rescan
<1>19. ASSUME NEW r \in Removers, Rename(r) PROVE WorldInv'
  BY <1>19 DEF Rename, LoseDirectory, LostWithDirectory
<1>20. ASSUME NEW r \in Removers, PruneEntry(r) PROVE WorldInv'
  BY <1>20 DEF PruneEntry
<1>21. ASSUME NEW r \in Removers, Unregister(r) PROVE WorldInv'
  BY <1>21 DEF Unregister, AfterRemoval, ActedAgainst
<1>22. ASSUME NEW r \in Removers, PruneFails(r) PROVE WorldInv'
  BY <1>22 DEF PruneFails, AfterRemoval
<1>23. ASSUME NEW r \in Removers, RenameFails(r) PROVE WorldInv'
  BY <1>23 DEF RenameFails
<1>24. ASSUME NEW r \in Removers, SubmoduleScan(r) PROVE WorldInv'
  BY <1>24 DEF SubmoduleScan
<1>25. ASSUME NEW r \in Removers, RemoveNow(r) PROVE WorldInv'
  BY <1>25 DEF RemoveNow, GitWorktreeRemove, LoseDirectory, LostWithDirectory, AfterRemoval
<1>26. ASSUME NEW r \in Removers, BuildTail(r) PROVE WorldInv'
  BY <1>26 DEF BuildTail
<1>27. ASSUME NEW r \in Removers, ResolveTarget(r) PROVE WorldInv'
  BY <1>27 DEF ResolveTarget
<1>28. ASSUME NEW r \in Removers, ChildRemove(r) PROVE WorldInv'
  BY <1>28 DEF ChildRemove, GitWorktreeRemove, LoseDirectory, LostWithDirectory
<1>29. ASSUME NEW r \in Removers, ChildCapture(r) PROVE WorldInv'
  BY <1>29 DEF ChildCapture
<1>30. ASSUME NEW r \in Removers, Capture(r) PROVE WorldInv'
  BY <1>30 DEF Capture
<1>31. ASSUME NEW r \in Removers, ForceDelete(r) PROVE WorldInv'
  BY <1>31 DEF ForceDelete, DeleteBranch
<1>32. ASSUME NEW r \in Removers, Integrate(r) PROVE WorldInv'
  BY <1>32 DEF Integrate
<1>33. ASSUME NEW r \in Removers, ReadTopology(r) PROVE WorldInv'
  BY <1>33 DEF ReadTopology
<1>34. ASSUME NEW r \in Removers, CompareAndDelete(r) PROVE WorldInv'
  BY <1>34 DEF CompareAndDelete, DeleteBranch
<1>35. ASSUME NEW r \in Removers, CompareFails(r) PROVE WorldInv'
  BY <1>35 DEF CompareFails
<1>36. ASSUME NEW r \in Removers, Classify(r) PROVE WorldInv'
  BY <1>36 DEF Classify
<1>37. CASE UNCHANGED vars
  BY <1>37 DEF vars
<1> QED
  BY <1>1, <1>2, <1>3, <1>4, <1>5, <1>6, <1>7, <1>8, <1>9, <1>10, <1>11, <1>12, <1>13, <1>14,
     <1>15, <1>16, <1>17, <1>18, <1>19, <1>20, <1>21, <1>22, <1>23, <1>24, <1>25, <1>26, <1>27,
     <1>28, <1>29, <1>30, <1>31, <1>32, <1>33, <1>34, <1>35, <1>36, <1>37 DEF Next, Environment

LEMMA CheckedSets ==
    /\ Checked("foreign") = {"lockfile", "scan", "stop", "rescan", "rename", "unregister"}
    /\ Checked("lock") = {"scan", "stop", "rescan", "rename", "unregister"}
    /\ Checked("work") = {"rename", "gitForce"} \cup (IF Fsmonitor THEN {} ELSE {"stop"})
    /\ Checked("checkout") = {"cas", "classify"}
BY DEF Checked

LEMMA GateInit == Init => GateInv
BY CheckedSets DEF Init, GateInv, OwnerGate, LockGate, WorkGate, CheckoutGate

\* What leaves the directory and the collected facts alone, and takes its remover past the acts on the
\* directory, keeps everybody's gate.
LEMMA OwnerGateAside ==
    ASSUME NEW q \in Removers, NEW r \in Removers, pc \in [Removers -> Labels], OwnerGate(q),
           UNCHANGED <<dir, late>>,
           NEW l \in {"target", "childRemove", "integrate", "topology", "cas", "done"}, pc' = [pc EXCEPT ![r] = l]
    PROVE OwnerGate(q)'
<1>1. pc'[q] = pc[q] \/ pc'[q] = l
  OBVIOUS
<1>2. l \notin Checked("foreign") /\ l # "unregister"
  BY DEF Checked
<1>3. Checked("foreign")' = Checked("foreign")
  BY DEF Checked
<1> QED BY <1>1, <1>2, <1>3 DEF OwnerGate

LEMMA OwnerGateStep == TypeOK /\ WorldInv /\ GateInv /\ [Next]_vars => \A q \in Removers : OwnerGate(q)'
<1> SUFFICES ASSUME TypeOK, WorldInv, [Next]_vars, NEW q \in Removers, OwnerGate(q) PROVE OwnerGate(q)'
  BY DEF GateInv
<1> USE RemovalAssumption, CheckedSets
    DEF TypeOK, WorldInv, OwnerGate, Facts, Prunable, Labels, world, local, history, Goto, Step, Report, StatusClean
<1>1. ASSUME Write PROVE OwnerGate(q)'
  BY <1>1 DEF Write, Change, Arises
<1>2. ASSUME Commit PROVE OwnerGate(q)'
  BY <1>2 DEF Commit, Change, Arises
<1>3. ASSUME MoveBranch PROVE OwnerGate(q)'
  BY <1>3 DEF MoveBranch, Change, Arises
<1>4. ASSUME DropBranch PROVE OwnerGate(q)'
  BY <1>4 DEF DropBranch, Change, Arises
<1>5. ASSUME MergeBranch PROVE OwnerGate(q)'
  BY <1>5 DEF MergeBranch, Change, Arises
<1>6. ASSUME LockWorktree PROVE OwnerGate(q)'
  BY <1>6 DEF LockWorktree, Change, Arises
<1>7. ASSUME UnlockWorktree PROVE OwnerGate(q)'
  BY <1>7 DEF UnlockWorktree, Change, Arises
<1>8. ASSUME ReplaceDirectory PROVE OwnerGate(q)'
  BY <1>8 DEF ReplaceDirectory, Change, Arises
<1>9. ASSUME CheckOutElsewhere PROVE OwnerGate(q)'
  BY <1>9 DEF CheckOutElsewhere, Change, Arises
<1>10. ASSUME NEW r \in Removers, Stop(r) PROVE OwnerGate(q)'
  BY <1>10 DEF Stop
<1>11. ASSUME NEW r \in Removers, PlanWorktree(r) PROVE OwnerGate(q)'
  BY <1>11 DEF PlanWorktree
<1>12. ASSUME NEW r \in Removers, PlanBranchOnly(r) PROVE OwnerGate(q)'
  BY <1>12 DEF PlanBranchOnly
<1>13. ASSUME NEW r \in Removers, AfterHooks(r) PROVE OwnerGate(q)'
  BY <1>13 DEF AfterHooks
<1>14. ASSUME NEW r \in Removers, CheckOwner(r) PROVE OwnerGate(q)'
  BY <1>14 DEF CheckOwner
<1>15. ASSUME NEW r \in Removers, CheckLock(r) PROVE OwnerGate(q)'
  BY <1>15 DEF CheckLock
<1>16. ASSUME NEW r \in Removers, CheckClean(r) PROVE OwnerGate(q)'
  BY <1>16 DEF CheckClean
<1>17. ASSUME NEW r \in Removers, StopDaemon(r) PROVE OwnerGate(q)'
  BY <1>17 DEF StopDaemon
<1>18. ASSUME NEW r \in Removers, Rescan(r) PROVE OwnerGate(q)'
  BY <1>18 DEF Rescan
<1>19. ASSUME NEW r \in Removers, Rename(r) PROVE OwnerGate(q)'
  BY <1>19 DEF Rename, LoseDirectory, LostWithDirectory
<1>20. ASSUME NEW r \in Removers, PruneEntry(r) PROVE OwnerGate(q)'
  BY <1>20 DEF PruneEntry
<1>21. ASSUME NEW r \in Removers, Unregister(r) PROVE OwnerGate(q)'
  BY <1>21 DEF Unregister, AfterRemoval, ActedAgainst
<1>22. ASSUME NEW r \in Removers, PruneFails(r) PROVE OwnerGate(q)'
  BY <1>22 DEF PruneFails, AfterRemoval
<1>23. ASSUME NEW r \in Removers, RenameFails(r) PROVE OwnerGate(q)'
  BY <1>23 DEF RenameFails
<1>24. ASSUME NEW r \in Removers, SubmoduleScan(r) PROVE OwnerGate(q)'
  BY <1>24 DEF SubmoduleScan
<1>25. ASSUME NEW r \in Removers, RemoveNow(r) PROVE OwnerGate(q)'
  BY <1>25 DEF RemoveNow, GitWorktreeRemove, LoseDirectory, LostWithDirectory, AfterRemoval
<1>26. ASSUME NEW r \in Removers, BuildTail(r) PROVE OwnerGate(q)'
  <2>1. UNCHANGED <<dir, late>>
    BY <1>26 DEF BuildTail
  <2>2. \E l \in {"target", "childRemove"} : pc' = [pc EXCEPT ![r] = l]
    BY <1>26 DEF BuildTail
  <2> QED BY <2>1, <2>2, OwnerGateAside
<1>27. ASSUME NEW r \in Removers, ResolveTarget(r) PROVE OwnerGate(q)'
  BY <1>27 DEF ResolveTarget
<1>28. ASSUME NEW r \in Removers, ChildRemove(r) PROVE OwnerGate(q)'
  BY <1>28 DEF ChildRemove, GitWorktreeRemove, LoseDirectory, LostWithDirectory
<1>29. ASSUME NEW r \in Removers, ChildCapture(r) PROVE OwnerGate(q)'
  <2>1. UNCHANGED <<dir, late>>
    BY <1>29 DEF ChildCapture
  <2>2. \E l \in {"done", "integrate"} : pc' = [pc EXCEPT ![r] = l]
    BY <1>29 DEF ChildCapture
  <2> QED BY <2>1, <2>2, OwnerGateAside
<1>30. ASSUME NEW r \in Removers, Capture(r) PROVE OwnerGate(q)'
  BY <1>30 DEF Capture
<1>31. ASSUME NEW r \in Removers, ForceDelete(r) PROVE OwnerGate(q)'
  BY <1>31 DEF ForceDelete, DeleteBranch
<1>32. ASSUME NEW r \in Removers, Integrate(r) PROVE OwnerGate(q)'
  <2>1. UNCHANGED <<dir, late>>
    BY <1>32 DEF Integrate
  <2>2. \E l \in {"topology", "done"} : pc' = [pc EXCEPT ![r] = l]
    BY <1>32 DEF Integrate
  <2> QED BY <2>1, <2>2, OwnerGateAside
<1>33. ASSUME NEW r \in Removers, ReadTopology(r) PROVE OwnerGate(q)'
  <2>1. UNCHANGED <<dir, late>>
    BY <1>33 DEF ReadTopology
  <2>2. \E l \in {"done", "cas"} : pc' = [pc EXCEPT ![r] = l]
    BY <1>33 DEF ReadTopology
  <2> QED BY <2>1, <2>2, OwnerGateAside
<1>34. ASSUME NEW r \in Removers, CompareAndDelete(r) PROVE OwnerGate(q)'
  BY <1>34 DEF CompareAndDelete, DeleteBranch
<1>35. ASSUME NEW r \in Removers, CompareFails(r) PROVE OwnerGate(q)'
  BY <1>35 DEF CompareFails
<1>36. ASSUME NEW r \in Removers, Classify(r) PROVE OwnerGate(q)'
  BY <1>36 DEF Classify
<1>37. CASE UNCHANGED vars
  BY <1>37 DEF vars
<1> QED
  BY <1>1, <1>2, <1>3, <1>4, <1>5, <1>6, <1>7, <1>8, <1>9, <1>10, <1>11, <1>12, <1>13, <1>14,
     <1>15, <1>16, <1>17, <1>18, <1>19, <1>20, <1>21, <1>22, <1>23, <1>24, <1>25, <1>26, <1>27,
     <1>28, <1>29, <1>30, <1>31, <1>32, <1>33, <1>34, <1>35, <1>36, <1>37 DEF Next, Environment

LEMMA LockGateStep == TypeOK /\ WorldInv /\ GateInv /\ [Next]_vars => \A q \in Removers : LockGate(q)'
<1> SUFFICES ASSUME TypeOK, WorldInv, [Next]_vars, NEW q \in Removers, LockGate(q) PROVE LockGate(q)'
  BY DEF GateInv
<1> USE RemovalAssumption, CheckedSets
    DEF TypeOK, WorldInv, LockGate, Facts, Prunable, Labels, world, local, history, Goto, Step, Report, StatusClean
<1>1. ASSUME Write PROVE LockGate(q)'
  BY <1>1 DEF Write, Change, Arises
<1>2. ASSUME Commit PROVE LockGate(q)'
  BY <1>2 DEF Commit, Change, Arises
<1>3. ASSUME MoveBranch PROVE LockGate(q)'
  BY <1>3 DEF MoveBranch, Change, Arises
<1>4. ASSUME DropBranch PROVE LockGate(q)'
  BY <1>4 DEF DropBranch, Change, Arises
<1>5. ASSUME MergeBranch PROVE LockGate(q)'
  BY <1>5 DEF MergeBranch, Change, Arises
<1>6. ASSUME LockWorktree PROVE LockGate(q)'
  BY <1>6 DEF LockWorktree, Change, Arises
<1>7. ASSUME UnlockWorktree PROVE LockGate(q)'
  BY <1>7 DEF UnlockWorktree, Change, Arises
<1>8. ASSUME ReplaceDirectory PROVE LockGate(q)'
  BY <1>8 DEF ReplaceDirectory, Change, Arises
<1>9. ASSUME CheckOutElsewhere PROVE LockGate(q)'
  BY <1>9 DEF CheckOutElsewhere, Change, Arises
<1>10. ASSUME NEW r \in Removers, Stop(r) PROVE LockGate(q)'
  BY <1>10 DEF Stop
<1>11. ASSUME NEW r \in Removers, PlanWorktree(r) PROVE LockGate(q)'
  BY <1>11 DEF PlanWorktree
<1>12. ASSUME NEW r \in Removers, PlanBranchOnly(r) PROVE LockGate(q)'
  BY <1>12 DEF PlanBranchOnly
<1>13. ASSUME NEW r \in Removers, AfterHooks(r) PROVE LockGate(q)'
  BY <1>13 DEF AfterHooks
<1>14. ASSUME NEW r \in Removers, CheckOwner(r) PROVE LockGate(q)'
  BY <1>14 DEF CheckOwner
<1>15. ASSUME NEW r \in Removers, CheckLock(r) PROVE LockGate(q)'
  BY <1>15 DEF CheckLock
<1>16. ASSUME NEW r \in Removers, CheckClean(r) PROVE LockGate(q)'
  BY <1>16 DEF CheckClean
<1>17. ASSUME NEW r \in Removers, StopDaemon(r) PROVE LockGate(q)'
  BY <1>17 DEF StopDaemon
<1>18. ASSUME NEW r \in Removers, Rescan(r) PROVE LockGate(q)'
  BY <1>18 DEF Rescan
<1>19. ASSUME NEW r \in Removers, Rename(r) PROVE LockGate(q)'
  BY <1>19 DEF Rename, LoseDirectory, LostWithDirectory
<1>20. ASSUME NEW r \in Removers, PruneEntry(r) PROVE LockGate(q)'
  BY <1>20 DEF PruneEntry
<1>21. ASSUME NEW r \in Removers, Unregister(r) PROVE LockGate(q)'
  BY <1>21 DEF Unregister, AfterRemoval, ActedAgainst
<1>22. ASSUME NEW r \in Removers, PruneFails(r) PROVE LockGate(q)'
  BY <1>22 DEF PruneFails, AfterRemoval
<1>23. ASSUME NEW r \in Removers, RenameFails(r) PROVE LockGate(q)'
  BY <1>23 DEF RenameFails
<1>24. ASSUME NEW r \in Removers, SubmoduleScan(r) PROVE LockGate(q)'
  BY <1>24 DEF SubmoduleScan
<1>25. ASSUME NEW r \in Removers, RemoveNow(r) PROVE LockGate(q)'
  BY <1>25 DEF RemoveNow, GitWorktreeRemove, LoseDirectory, LostWithDirectory, AfterRemoval
<1>26. ASSUME NEW r \in Removers, BuildTail(r) PROVE LockGate(q)'
  BY <1>26 DEF BuildTail
<1>27. ASSUME NEW r \in Removers, ResolveTarget(r) PROVE LockGate(q)'
  BY <1>27 DEF ResolveTarget
<1>28. ASSUME NEW r \in Removers, ChildRemove(r) PROVE LockGate(q)'
  BY <1>28 DEF ChildRemove, GitWorktreeRemove, LoseDirectory, LostWithDirectory
<1>29. ASSUME NEW r \in Removers, ChildCapture(r) PROVE LockGate(q)'
  BY <1>29 DEF ChildCapture
<1>30. ASSUME NEW r \in Removers, Capture(r) PROVE LockGate(q)'
  BY <1>30 DEF Capture
<1>31. ASSUME NEW r \in Removers, ForceDelete(r) PROVE LockGate(q)'
  BY <1>31 DEF ForceDelete, DeleteBranch
<1>32. ASSUME NEW r \in Removers, Integrate(r) PROVE LockGate(q)'
  BY <1>32 DEF Integrate
<1>33. ASSUME NEW r \in Removers, ReadTopology(r) PROVE LockGate(q)'
  BY <1>33 DEF ReadTopology
<1>34. ASSUME NEW r \in Removers, CompareAndDelete(r) PROVE LockGate(q)'
  BY <1>34 DEF CompareAndDelete, DeleteBranch
<1>35. ASSUME NEW r \in Removers, CompareFails(r) PROVE LockGate(q)'
  BY <1>35 DEF CompareFails
<1>36. ASSUME NEW r \in Removers, Classify(r) PROVE LockGate(q)'
  BY <1>36 DEF Classify
<1>37. CASE UNCHANGED vars
  BY <1>37 DEF vars
<1> QED
  BY <1>1, <1>2, <1>3, <1>4, <1>5, <1>6, <1>7, <1>8, <1>9, <1>10, <1>11, <1>12, <1>13, <1>14,
     <1>15, <1>16, <1>17, <1>18, <1>19, <1>20, <1>21, <1>22, <1>23, <1>24, <1>25, <1>26, <1>27,
     <1>28, <1>29, <1>30, <1>31, <1>32, <1>33, <1>34, <1>35, <1>36, <1>37 DEF Next, Environment

LEMMA WorkGateStep == TypeOK /\ WorldInv /\ GateInv /\ [Next]_vars => \A q \in Removers : WorkGate(q)'
<1> SUFFICES ASSUME TypeOK, WorldInv, [Next]_vars, NEW q \in Removers, WorkGate(q) PROVE WorkGate(q)'
  BY DEF GateInv
<1> USE RemovalAssumption, CheckedSets
    DEF TypeOK, WorldInv, WorkGate, Facts, Labels, world, local, history, Goto, Step, Report, StatusClean
<1>1. ASSUME Write PROVE WorkGate(q)'
  BY <1>1 DEF Write, Change, Arises
<1>2. ASSUME Commit PROVE WorkGate(q)'
  BY <1>2 DEF Commit, Change, Arises
<1>3. ASSUME MoveBranch PROVE WorkGate(q)'
  BY <1>3 DEF MoveBranch, Change, Arises
<1>4. ASSUME DropBranch PROVE WorkGate(q)'
  BY <1>4 DEF DropBranch, Change, Arises
<1>5. ASSUME MergeBranch PROVE WorkGate(q)'
  BY <1>5 DEF MergeBranch, Change, Arises
<1>6. ASSUME LockWorktree PROVE WorkGate(q)'
  BY <1>6 DEF LockWorktree, Change, Arises
<1>7. ASSUME UnlockWorktree PROVE WorkGate(q)'
  BY <1>7 DEF UnlockWorktree, Change, Arises
<1>8. ASSUME ReplaceDirectory PROVE WorkGate(q)'
  BY <1>8 DEF ReplaceDirectory, Change, Arises
<1>9. ASSUME CheckOutElsewhere PROVE WorkGate(q)'
  BY <1>9 DEF CheckOutElsewhere, Change, Arises
<1>10. ASSUME NEW r \in Removers, Stop(r) PROVE WorkGate(q)'
  BY <1>10 DEF Stop
<1>11. ASSUME NEW r \in Removers, PlanWorktree(r) PROVE WorkGate(q)'
  BY <1>11 DEF PlanWorktree
<1>12. ASSUME NEW r \in Removers, PlanBranchOnly(r) PROVE WorkGate(q)'
  BY <1>12 DEF PlanBranchOnly
<1>13. ASSUME NEW r \in Removers, AfterHooks(r) PROVE WorkGate(q)'
  BY <1>13 DEF AfterHooks
<1>14. ASSUME NEW r \in Removers, CheckOwner(r) PROVE WorkGate(q)'
  BY <1>14 DEF CheckOwner
<1>15. ASSUME NEW r \in Removers, CheckLock(r) PROVE WorkGate(q)'
  BY <1>15 DEF CheckLock
<1>16. ASSUME NEW r \in Removers, CheckClean(r) PROVE WorkGate(q)'
  BY <1>16 DEF CheckClean
<1>17. ASSUME NEW r \in Removers, StopDaemon(r) PROVE WorkGate(q)'
  BY <1>17 DEF StopDaemon
<1>18. ASSUME NEW r \in Removers, Rescan(r) PROVE WorkGate(q)'
  BY <1>18 DEF Rescan
<1>19. ASSUME NEW r \in Removers, Rename(r) PROVE WorkGate(q)'
  BY <1>19 DEF Rename, LoseDirectory, LostWithDirectory
<1>20. ASSUME NEW r \in Removers, PruneEntry(r) PROVE WorkGate(q)'
  BY <1>20 DEF PruneEntry
<1>21. ASSUME NEW r \in Removers, Unregister(r) PROVE WorkGate(q)'
  BY <1>21 DEF Unregister, AfterRemoval, ActedAgainst
<1>22. ASSUME NEW r \in Removers, PruneFails(r) PROVE WorkGate(q)'
  BY <1>22 DEF PruneFails, AfterRemoval
<1>23. ASSUME NEW r \in Removers, RenameFails(r) PROVE WorkGate(q)'
  BY <1>23 DEF RenameFails
<1>24. ASSUME NEW r \in Removers, SubmoduleScan(r) PROVE WorkGate(q)'
  BY <1>24 DEF SubmoduleScan
<1>25. ASSUME NEW r \in Removers, RemoveNow(r) PROVE WorkGate(q)'
  BY <1>25 DEF RemoveNow, GitWorktreeRemove, LoseDirectory, LostWithDirectory, AfterRemoval
<1>26. ASSUME NEW r \in Removers, BuildTail(r) PROVE WorkGate(q)'
  <2>1. opt' = opt \/ opt' = [opt EXCEPT ![r].mode = "keep"]
    BY <1>26 DEF BuildTail
  <2>2. opt'[q].force = opt[q].force
    BY <2>1
  <2>3. pc' = [pc EXCEPT ![r] = "target"] \/ pc' = [pc EXCEPT ![r] = "childRemove"]
    BY <1>26 DEF BuildTail
  <2> QED
    BY <1>26, <2>2, <2>3 DEF BuildTail
<1>27. ASSUME NEW r \in Removers, ResolveTarget(r) PROVE WorkGate(q)'
  BY <1>27 DEF ResolveTarget
<1>28. ASSUME NEW r \in Removers, ChildRemove(r) PROVE WorkGate(q)'
  BY <1>28 DEF ChildRemove, GitWorktreeRemove, LoseDirectory, LostWithDirectory
<1>29. ASSUME NEW r \in Removers, ChildCapture(r) PROVE WorkGate(q)'
  BY <1>29 DEF ChildCapture
<1>30. ASSUME NEW r \in Removers, Capture(r) PROVE WorkGate(q)'
  BY <1>30 DEF Capture
<1>31. ASSUME NEW r \in Removers, ForceDelete(r) PROVE WorkGate(q)'
  BY <1>31 DEF ForceDelete, DeleteBranch
<1>32. ASSUME NEW r \in Removers, Integrate(r) PROVE WorkGate(q)'
  <2>1. pc' = [pc EXCEPT ![r] = "topology"] \/ pc' = [pc EXCEPT ![r] = "done"]
    BY <1>32 DEF Integrate
  <2> QED
    BY <1>32, <2>1 DEF Integrate
<1>33. ASSUME NEW r \in Removers, ReadTopology(r) PROVE WorkGate(q)'
  <2>1. pc' = [pc EXCEPT ![r] = "cas"] \/ pc' = [pc EXCEPT ![r] = "done"]
    BY <1>33 DEF ReadTopology
  <2>2. UNCHANGED <<dirty, opt, late>>
    BY <1>33 DEF ReadTopology
  <2> QED
    BY <2>1, <2>2
<1>34. ASSUME NEW r \in Removers, CompareAndDelete(r) PROVE WorkGate(q)'
  BY <1>34 DEF CompareAndDelete, DeleteBranch
<1>35. ASSUME NEW r \in Removers, CompareFails(r) PROVE WorkGate(q)'
  BY <1>35 DEF CompareFails
<1>36. ASSUME NEW r \in Removers, Classify(r) PROVE WorkGate(q)'
  BY <1>36 DEF Classify
<1>37. CASE UNCHANGED vars
  BY <1>37 DEF vars
<1> QED
  BY <1>1, <1>2, <1>3, <1>4, <1>5, <1>6, <1>7, <1>8, <1>9, <1>10, <1>11, <1>12, <1>13, <1>14,
     <1>15, <1>16, <1>17, <1>18, <1>19, <1>20, <1>21, <1>22, <1>23, <1>24, <1>25, <1>26, <1>27,
     <1>28, <1>29, <1>30, <1>31, <1>32, <1>33, <1>34, <1>35, <1>36, <1>37 DEF Next, Environment

LEMMA CheckoutGateStep == TypeOK /\ WorldInv /\ GateInv /\ [Next]_vars => \A q \in Removers : CheckoutGate(q)'
<1> SUFFICES ASSUME TypeOK, WorldInv, [Next]_vars, NEW q \in Removers, CheckoutGate(q) PROVE CheckoutGate(q)'
  BY DEF GateInv
<1> USE RemovalAssumption, CheckedSets
    DEF TypeOK, WorldInv, CheckoutGate, Facts, CheckedOut, Prunable, Labels, world, local, history, Goto, Step, Report, StatusClean
<1>1. ASSUME Write PROVE CheckoutGate(q)'
  BY <1>1 DEF Write, Change, Arises
<1>2. ASSUME Commit PROVE CheckoutGate(q)'
  BY <1>2 DEF Commit, Change, Arises
<1>3. ASSUME MoveBranch PROVE CheckoutGate(q)'
  BY <1>3 DEF MoveBranch, Change, Arises
<1>4. ASSUME DropBranch PROVE CheckoutGate(q)'
  BY <1>4 DEF DropBranch, Change, Arises
<1>5. ASSUME MergeBranch PROVE CheckoutGate(q)'
  BY <1>5 DEF MergeBranch, Change, Arises
<1>6. ASSUME LockWorktree PROVE CheckoutGate(q)'
  BY <1>6 DEF LockWorktree, Change, Arises
<1>7. ASSUME UnlockWorktree PROVE CheckoutGate(q)'
  BY <1>7 DEF UnlockWorktree, Change, Arises
<1>8. ASSUME ReplaceDirectory PROVE CheckoutGate(q)'
  BY <1>8 DEF ReplaceDirectory, Change, Arises
<1>9. ASSUME CheckOutElsewhere PROVE CheckoutGate(q)'
  BY <1>9 DEF CheckOutElsewhere, Change, Arises
<1>10. ASSUME NEW r \in Removers, Stop(r) PROVE CheckoutGate(q)'
  BY <1>10 DEF Stop
<1>11. ASSUME NEW r \in Removers, PlanWorktree(r) PROVE CheckoutGate(q)'
  BY <1>11 DEF PlanWorktree
<1>12. ASSUME NEW r \in Removers, PlanBranchOnly(r) PROVE CheckoutGate(q)'
  BY <1>12 DEF PlanBranchOnly
<1>13. ASSUME NEW r \in Removers, AfterHooks(r) PROVE CheckoutGate(q)'
  BY <1>13 DEF AfterHooks
<1>14. ASSUME NEW r \in Removers, CheckOwner(r) PROVE CheckoutGate(q)'
  BY <1>14 DEF CheckOwner
<1>15. ASSUME NEW r \in Removers, CheckLock(r) PROVE CheckoutGate(q)'
  BY <1>15 DEF CheckLock
<1>16. ASSUME NEW r \in Removers, CheckClean(r) PROVE CheckoutGate(q)'
  BY <1>16 DEF CheckClean
<1>17. ASSUME NEW r \in Removers, StopDaemon(r) PROVE CheckoutGate(q)'
  BY <1>17 DEF StopDaemon
<1>18. ASSUME NEW r \in Removers, Rescan(r) PROVE CheckoutGate(q)'
  BY <1>18 DEF Rescan
<1>19. ASSUME NEW r \in Removers, Rename(r) PROVE CheckoutGate(q)'
  BY <1>19 DEF Rename, LoseDirectory, LostWithDirectory
<1>20. ASSUME NEW r \in Removers, PruneEntry(r) PROVE CheckoutGate(q)'
  BY <1>20 DEF PruneEntry
<1>21. ASSUME NEW r \in Removers, Unregister(r) PROVE CheckoutGate(q)'
  BY <1>21 DEF Unregister, AfterRemoval, ActedAgainst
<1>22. ASSUME NEW r \in Removers, PruneFails(r) PROVE CheckoutGate(q)'
  BY <1>22 DEF PruneFails, AfterRemoval
<1>23. ASSUME NEW r \in Removers, RenameFails(r) PROVE CheckoutGate(q)'
  BY <1>23 DEF RenameFails
<1>24. ASSUME NEW r \in Removers, SubmoduleScan(r) PROVE CheckoutGate(q)'
  BY <1>24 DEF SubmoduleScan
<1>25. ASSUME NEW r \in Removers, RemoveNow(r) PROVE CheckoutGate(q)'
  BY <1>25 DEF RemoveNow, GitWorktreeRemove, LoseDirectory, LostWithDirectory, AfterRemoval
<1>26. ASSUME NEW r \in Removers, BuildTail(r) PROVE CheckoutGate(q)'
  <2>1. pc' = [pc EXCEPT ![r] = "target"] \/ pc' = [pc EXCEPT ![r] = "childRemove"]
    BY <1>26 DEF BuildTail
  <2> QED
    BY <1>26, <2>1 DEF BuildTail
<1>27. ASSUME NEW r \in Removers, ResolveTarget(r) PROVE CheckoutGate(q)'
  BY <1>27 DEF ResolveTarget
<1>28. ASSUME NEW r \in Removers, ChildRemove(r) PROVE CheckoutGate(q)'
  BY <1>28 DEF ChildRemove, GitWorktreeRemove, LoseDirectory, LostWithDirectory
<1>29. ASSUME NEW r \in Removers, ChildCapture(r) PROVE CheckoutGate(q)'
  BY <1>29 DEF ChildCapture
<1>30. ASSUME NEW r \in Removers, Capture(r) PROVE CheckoutGate(q)'
  BY <1>30 DEF Capture
<1>31. ASSUME NEW r \in Removers, ForceDelete(r) PROVE CheckoutGate(q)'
  BY <1>31 DEF ForceDelete, DeleteBranch
<1>32. ASSUME NEW r \in Removers, Integrate(r) PROVE CheckoutGate(q)'
  <2>1. pc' = [pc EXCEPT ![r] = "topology"] \/ pc' = [pc EXCEPT ![r] = "done"]
    BY <1>32 DEF Integrate
  <2> QED
    BY <1>32, <2>1 DEF Integrate
<1>33. ASSUME NEW r \in Removers, ReadTopology(r) PROVE CheckoutGate(q)'
  BY <1>33 DEF ReadTopology
<1>34. ASSUME NEW r \in Removers, CompareAndDelete(r) PROVE CheckoutGate(q)'
  BY <1>34 DEF CompareAndDelete, DeleteBranch
<1>35. ASSUME NEW r \in Removers, CompareFails(r) PROVE CheckoutGate(q)'
  BY <1>35 DEF CompareFails
<1>36. ASSUME NEW r \in Removers, Classify(r) PROVE CheckoutGate(q)'
  BY <1>36 DEF Classify
<1>37. CASE UNCHANGED vars
  BY <1>37 DEF vars
<1> QED
  BY <1>1, <1>2, <1>3, <1>4, <1>5, <1>6, <1>7, <1>8, <1>9, <1>10, <1>11, <1>12, <1>13, <1>14,
     <1>15, <1>16, <1>17, <1>18, <1>19, <1>20, <1>21, <1>22, <1>23, <1>24, <1>25, <1>26, <1>27,
     <1>28, <1>29, <1>30, <1>31, <1>32, <1>33, <1>34, <1>35, <1>36, <1>37 DEF Next, Environment

LEMMA WorkKeptStep == TypeOK /\ WorldInv /\ GateInv /\ WorkKept /\ [Next]_vars => WorkKept'
<1> SUFFICES ASSUME TypeOK, WorldInv, GateInv, WorkKept, [Next]_vars,
                    NEW q \in Removers, <<q, "work">> \in missed'
             PROVE  FALSE
  BY DEF WorkKept
<1> USE RemovalAssumption, CheckedSets
    DEF TypeOK, WorldInv, GateInv, WorkKept, WorkGate, Labels, world, local, history, Goto, Step, Report
<1>1. ASSUME Environment PROVE FALSE
  BY <1>1 DEF Environment, Change, Write, Commit, MoveBranch, DropBranch, MergeBranch, LockWorktree, UnlockWorktree, ReplaceDirectory, CheckOutElsewhere
<1>2. ASSUME NEW r \in Removers, Reads(r) PROVE FALSE
  BY <1>2, ReadsLeaveTheWorld
<1>3. ASSUME NEW r \in Removers, StopDaemon(r) PROVE FALSE
  BY <1>3 DEF StopDaemon
<1>4. ASSUME NEW r \in Removers, Rename(r) PROVE FALSE
  BY <1>4 DEF Rename, LoseDirectory, LostWithDirectory
<1>5. ASSUME NEW r \in Removers, Unregister(r) PROVE FALSE
  BY <1>5 DEF Unregister, AfterRemoval, ActedAgainst
<1>6. ASSUME NEW r \in Removers, RemoveNow(r) PROVE FALSE
  BY <1>6 DEF RemoveNow, GitWorktreeRemove, LoseDirectory, LostWithDirectory, AfterRemoval
<1>7. ASSUME NEW r \in Removers, ChildRemove(r) PROVE FALSE
  BY <1>7 DEF ChildRemove, GitWorktreeRemove, LoseDirectory, LostWithDirectory
<1>8. ASSUME NEW r \in Removers, ForceDelete(r) PROVE FALSE
  BY <1>8 DEF ForceDelete, DeleteBranch, CheckedOut
<1>9. ASSUME NEW r \in Removers, CompareAndDelete(r) PROVE FALSE
  BY <1>9 DEF CompareAndDelete, DeleteBranch, CheckedOut
<1>10. CASE UNCHANGED vars
  BY <1>10 DEF vars
<1> QED
  BY <1>1, <1>2, <1>3, <1>4, <1>5, <1>6, <1>7, <1>8, <1>9, <1>10 DEF Next, Reads

LEMMA LockHonouredStep == TypeOK /\ WorldInv /\ GateInv /\ LockHonoured /\ [Next]_vars => LockHonoured'
<1> SUFFICES ASSUME TypeOK, WorldInv, GateInv, LockHonoured, [Next]_vars,
                    NEW q \in Removers, <<q, "lock">> \in missed'
             PROVE  FALSE
  BY DEF LockHonoured
<1> USE RemovalAssumption, CheckedSets
    DEF TypeOK, WorldInv, GateInv, LockHonoured, LockGate, Labels, world, local, history, Goto, Step, Report
<1>1. ASSUME Environment PROVE FALSE
  BY <1>1 DEF Environment, Change, Write, Commit, MoveBranch, DropBranch, MergeBranch, LockWorktree, UnlockWorktree, ReplaceDirectory, CheckOutElsewhere
<1>2. ASSUME NEW r \in Removers, Reads(r) PROVE FALSE
  BY <1>2, ReadsLeaveTheWorld
<1>3. ASSUME NEW r \in Removers, StopDaemon(r) PROVE FALSE
  BY <1>3 DEF StopDaemon
<1>4. ASSUME NEW r \in Removers, Rename(r) PROVE FALSE
  BY <1>4 DEF Rename, LoseDirectory, LostWithDirectory
<1>5. ASSUME NEW r \in Removers, Unregister(r) PROVE FALSE
  BY <1>5 DEF Unregister, AfterRemoval, ActedAgainst
<1>6. ASSUME NEW r \in Removers, RemoveNow(r) PROVE FALSE
  BY <1>6 DEF RemoveNow, GitWorktreeRemove, LoseDirectory, LostWithDirectory, AfterRemoval
<1>7. ASSUME NEW r \in Removers, ChildRemove(r) PROVE FALSE
  BY <1>7 DEF ChildRemove, GitWorktreeRemove, LoseDirectory, LostWithDirectory
<1>8. ASSUME NEW r \in Removers, ForceDelete(r) PROVE FALSE
  BY <1>8 DEF ForceDelete, DeleteBranch, CheckedOut
<1>9. ASSUME NEW r \in Removers, CompareAndDelete(r) PROVE FALSE
  BY <1>9 DEF CompareAndDelete, DeleteBranch, CheckedOut
<1>10. CASE UNCHANGED vars
  BY <1>10 DEF vars
<1> QED
  BY <1>1, <1>2, <1>3, <1>4, <1>5, <1>6, <1>7, <1>8, <1>9, <1>10 DEF Next, Reads

LEMMA OwnerCheckedStep == TypeOK /\ WorldInv /\ GateInv /\ OwnerChecked /\ [Next]_vars => OwnerChecked'
<1> SUFFICES ASSUME TypeOK, WorldInv, GateInv, OwnerChecked, [Next]_vars,
                    NEW q \in Removers, <<q, "foreign">> \in missed'
             PROVE  FALSE
  BY DEF OwnerChecked
<1> USE RemovalAssumption, CheckedSets
    DEF TypeOK, WorldInv, GateInv, OwnerChecked, OwnerGate, Labels, world, local, history, Goto, Step, Report
<1>1. ASSUME Environment PROVE FALSE
  BY <1>1 DEF Environment, Change, Write, Commit, MoveBranch, DropBranch, MergeBranch, LockWorktree, UnlockWorktree, ReplaceDirectory, CheckOutElsewhere
<1>2. ASSUME NEW r \in Removers, Reads(r) PROVE FALSE
  BY <1>2, ReadsLeaveTheWorld
<1>3. ASSUME NEW r \in Removers, StopDaemon(r) PROVE FALSE
  BY <1>3 DEF StopDaemon
<1>4. ASSUME NEW r \in Removers, Rename(r) PROVE FALSE
  BY <1>4 DEF Rename, LoseDirectory, LostWithDirectory
<1>5. ASSUME NEW r \in Removers, Unregister(r) PROVE FALSE
  BY <1>5 DEF Unregister, AfterRemoval, ActedAgainst
<1>6. ASSUME NEW r \in Removers, RemoveNow(r) PROVE FALSE
  BY <1>6 DEF RemoveNow, GitWorktreeRemove, LoseDirectory, LostWithDirectory, AfterRemoval
<1>7. ASSUME NEW r \in Removers, ChildRemove(r) PROVE FALSE
  BY <1>7 DEF ChildRemove, GitWorktreeRemove, LoseDirectory, LostWithDirectory
<1>8. ASSUME NEW r \in Removers, ForceDelete(r) PROVE FALSE
  BY <1>8 DEF ForceDelete, DeleteBranch, CheckedOut
<1>9. ASSUME NEW r \in Removers, CompareAndDelete(r) PROVE FALSE
  BY <1>9 DEF CompareAndDelete, DeleteBranch, CheckedOut
<1>10. CASE UNCHANGED vars
  BY <1>10 DEF vars
<1> QED
  BY <1>1, <1>2, <1>3, <1>4, <1>5, <1>6, <1>7, <1>8, <1>9, <1>10 DEF Next, Reads

LEMMA CheckoutKeepsBranchStep == TypeOK /\ WorldInv /\ GateInv /\ CheckoutKeepsBranch /\ [Next]_vars => CheckoutKeepsBranch'
<1> SUFFICES ASSUME TypeOK, WorldInv, GateInv, CheckoutKeepsBranch, [Next]_vars,
                    NEW q \in Removers, <<q, "checkout">> \in missed'
             PROVE  FALSE
  BY DEF CheckoutKeepsBranch
<1> USE RemovalAssumption, CheckedSets
    DEF TypeOK, WorldInv, GateInv, CheckoutKeepsBranch, CheckoutGate, Labels, world, local, history, Goto, Step, Report
<1>1. ASSUME Environment PROVE FALSE
  BY <1>1 DEF Environment, Change, Write, Commit, MoveBranch, DropBranch, MergeBranch, LockWorktree, UnlockWorktree, ReplaceDirectory, CheckOutElsewhere
<1>2. ASSUME NEW r \in Removers, Reads(r) PROVE FALSE
  BY <1>2, ReadsLeaveTheWorld
<1>3. ASSUME NEW r \in Removers, StopDaemon(r) PROVE FALSE
  BY <1>3 DEF StopDaemon
<1>4. ASSUME NEW r \in Removers, Rename(r) PROVE FALSE
  BY <1>4 DEF Rename, LoseDirectory, LostWithDirectory
<1>5. ASSUME NEW r \in Removers, Unregister(r) PROVE FALSE
  BY <1>5 DEF Unregister, AfterRemoval, ActedAgainst
<1>6. ASSUME NEW r \in Removers, RemoveNow(r) PROVE FALSE
  BY <1>6 DEF RemoveNow, GitWorktreeRemove, LoseDirectory, LostWithDirectory, AfterRemoval
<1>7. ASSUME NEW r \in Removers, ChildRemove(r) PROVE FALSE
  BY <1>7 DEF ChildRemove, GitWorktreeRemove, LoseDirectory, LostWithDirectory
<1>8. ASSUME NEW r \in Removers, ForceDelete(r) PROVE FALSE
  BY <1>8 DEF ForceDelete, DeleteBranch, CheckedOut
<1>9. ASSUME NEW r \in Removers, CompareAndDelete(r) PROVE FALSE
  BY <1>9 DEF CompareAndDelete, DeleteBranch, CheckedOut
<1>10. CASE UNCHANGED vars
  BY <1>10 DEF vars
<1> QED
  BY <1>1, <1>2, <1>3, <1>4, <1>5, <1>6, <1>7, <1>8, <1>9, <1>10 DEF Next, Reads

LEMMA Invariance == Spec => []IInv
<1>1. Init => IInv
  <2>1. Init => NothingMissed
    BY DEF Init, NothingMissed, WorkKept, LockHonoured, OwnerChecked, CheckoutKeepsBranch
  <2> QED
    BY <2>1, TypeInit, WorldInit, GateInit DEF IInv
<1>2. IInv /\ [Next]_vars => IInv'
  <2> SUFFICES ASSUME IInv, [Next]_vars PROVE IInv'
    OBVIOUS
  <2> USE DEF IInv, NothingMissed
  <2>1. TypeOK' /\ WorldInv'
    BY WorldTypeStep, RemoverTypeStep, WorldStep DEF TypeOK, WorldTypes, RemoverTypes
  <2>2. GateInv'
    BY OwnerGateStep, LockGateStep, WorkGateStep, CheckoutGateStep DEF GateInv
  <2>3. NothingMissed'
    BY WorkKeptStep, LockHonouredStep, OwnerCheckedStep, CheckoutKeepsBranchStep
  <2> QED
    BY <2>1, <2>2, <2>3
<1> QED
  BY <1>1, <1>2, PTL DEF Spec

THEOREM TypeCorrect == Spec => []TypeOK
BY Invariance, PTL DEF IInv

\* Work is only destroyed under --force, or when it was written after the last scan of the path
\* taken: the rescan without the fsmonitor daemon, or the scan before the synthesized --force.
THEOREM NoWorkLost == Spec => []WorkKept
BY Invariance, PTL DEF IInv, NothingMissed

\* A lock set before the remover's read of the lock file stops every path, --force or not.
THEOREM NoLockBroken == Spec => []LockHonoured
BY Invariance, PTL DEF IInv, NothingMissed

\* Another repository at the path, there before the ownership read, keeps directory and registration.
THEOREM NoStrangerRemoved == Spec => []OwnerChecked
BY Invariance, PTL DEF IInv, NothingMissed

\* No branch is deleted from under a checkout that was there at the topology read.
THEOREM NoCheckoutOrphaned == Spec => []CheckoutKeepsBranch
BY Invariance, PTL DEF IInv, NothingMissed

\* Commits that the target does not have go only with a user's deletion or a deletion asked for by
\* force: the safe path deletes the tip it compared, which the target has.
THEOREM OnlyForceLosesCommits == Spec => CommitsKept
<1> DEFINE Excused == \/ DropBranch
                      \/ \E r \in Removers : opt[r].mode = "force" /\ pc[r] = "integrate" /\ pc'[r] = "done"
<1>1. ASSUME IInv, [Next]_vars, tip # None, tip' = None, tip \notin merged PROVE Excused
  <2> USE <1>1, RemovalAssumption DEF IInv, TypeOK, WorldInv, world, Goto, Report, Step
  <2>1. ASSUME Environment PROVE Excused
    BY <2>1 DEF Environment, Change, Write, Commit, MoveBranch, DropBranch, MergeBranch, LockWorktree,
                UnlockWorktree, ReplaceDirectory, CheckOutElsewhere
  <2>2. ASSUME NEW r \in Removers, Reads(r) PROVE Excused
    BY <2>2, ReadsLeaveTheWorld
  <2>3. ASSUME NEW r \in Removers, StopDaemon(r) \/ Rename(r) \/ Unregister(r) PROVE Excused
    BY <2>3 DEF StopDaemon, Rename, Unregister
  <2>4. ASSUME NEW r \in Removers, RemoveNow(r) \/ ChildRemove(r) PROVE Excused
    BY <2>4 DEF RemoveNow, ChildRemove, GitWorktreeRemove
  <2>5. ASSUME NEW r \in Removers, ForceDelete(r) PROVE Excused
    BY <2>5 DEF ForceDelete, DeleteBranch
  <2>6. ASSUME NEW r \in Removers, CompareAndDelete(r) PROVE Excused
    BY <2>6 DEF CompareAndDelete
  <2>7. CASE UNCHANGED vars
    BY <2>7 DEF vars
  <2> QED
    BY <2>1, <2>2, <2>3, <2>4, <2>5, <2>6, <2>7 DEF Next, Reads
<1>2. IInv /\ [Next]_vars => [tip # None /\ tip' = None /\ tip \notin merged => Excused]_vars
  BY <1>1
<1> QED
  BY <1>2, Invariance, PTL DEF Spec, CommitsKept

-----------------------------------------------------------------------------
(* TrashDrain: the drain lock, and who will still look at the trash *)

\* The lock names exactly the process that is in a state in which the code holds the file lock.
\* It is what makes "WouldBlock" mean that somebody is going to look at the trash.
LockInv ==
    /\ \A c \in Commands : (cpc[c] = "holding") <=> (lock = c)
    /\ \A d \in Drains : (dpc[d] \in {"list", "delete", "unlock"}) <=> (lock = d)

\* The inductive invariant: types, the meaning of the lock, and cover for every entry.
TrashIInv == TrashTypeOK /\ LockInv /\ EveryEntryCovered

LEMMA TrashTypeInit == TrashInit => TrashTypeOK
BY TrashAssumption DEF TrashInit, TrashTypeOK

LEMMA TrashTypeStep == TrashTypeOK /\ [TrashNext]_trashVars => TrashTypeOK'
<1> SUFFICES ASSUME TrashTypeOK, [TrashNext]_trashVars PROVE TrashTypeOK'
  OBVIOUS
<1> USE TrashAssumption DEF TrashTypeOK, commandVars, drainVars, Fault, ExitDrain, LockWithout, AfterProbe
<1>1. ASSUME NEW c \in Commands, StageInBackground(c) PROVE TrashTypeOK'
  BY <1>1 DEF StageInBackground
<1>2. ASSUME NEW c \in Commands, StageInForeground(c) PROVE TrashTypeOK'
  BY <1>2 DEF StageInForeground
<1>3. ASSUME NEW c \in Commands, CleanupStaged(c) PROVE TrashTypeOK'
  BY <1>3 DEF CleanupStaged
<1>4. ASSUME NEW c \in Commands, FinishRemovals(c) PROVE TrashTypeOK'
  BY <1>4 DEF FinishRemovals
<1>5. ASSUME NEW c \in Commands, Sweep(c) PROVE TrashTypeOK'
  BY <1>5 DEF Sweep
<1>6. ASSUME NEW c \in Commands, ProbeFindsDrain(c) PROVE TrashTypeOK'
  BY <1>6 DEF ProbeFindsDrain
<1>7. ASSUME NEW c \in Commands, ProbeTakesLock(c) PROVE TrashTypeOK'
  BY <1>7 DEF ProbeTakesLock
<1>8. ASSUME NEW c \in Commands, ProbeDropsLock(c) PROVE TrashTypeOK'
  BY <1>8 DEF ProbeDropsLock
<1>9. ASSUME NEW c \in Commands, SpawnDrain(c) PROVE TrashTypeOK'
  BY <1>9 DEF SpawnDrain
<1>10. ASSUME NEW c \in Commands, SpawnFails(c) PROVE TrashTypeOK'
  BY <1>10 DEF SpawnFails
<1>11. ASSUME NEW c \in Commands, CommandDies(c) PROVE TrashTypeOK'
  BY <1>11 DEF CommandDies
<1>12. ASSUME NEW d \in Drains, TryLock(d) PROVE TrashTypeOK'
  BY <1>12 DEF TryLock
<1>13. ASSUME NEW d \in Drains, ListPending(d) PROVE TrashTypeOK'
  BY <1>13 DEF ListPending
<1>14. ASSUME NEW d \in Drains, DeleteEntry(d) PROVE TrashTypeOK'
  BY <1>14 DEF DeleteEntry
<1>15. ASSUME NEW d \in Drains, DropLock(d) PROVE TrashTypeOK'
  BY <1>15 DEF DropLock
<1>16. ASSUME NEW d \in Drains, Recheck(d) PROVE TrashTypeOK'
  BY <1>16 DEF Recheck
<1>17. ASSUME NEW d \in Drains, DrainDies(d) PROVE TrashTypeOK'
  BY <1>17 DEF DrainDies
<1>18. CASE UNCHANGED trashVars
  BY <1>18 DEF trashVars
<1> QED
  BY <1>1, <1>2, <1>3, <1>4, <1>5, <1>6, <1>7, <1>8, <1>9, <1>10, <1>11, <1>12, <1>13, <1>14,
     <1>15, <1>16, <1>17, <1>18 DEF TrashNext, CommandStep, DrainStep

LEMMA LockInit == TrashInit => LockInv
BY TrashAssumption DEF TrashInit, LockInv

LEMMA LockStep == TrashTypeOK /\ LockInv /\ [TrashNext]_trashVars => LockInv'
<1> SUFFICES ASSUME TrashTypeOK, LockInv, [TrashNext]_trashVars PROVE LockInv'
  OBVIOUS
<1> USE TrashAssumption
    DEF TrashTypeOK, LockInv, commandVars, drainVars, Fault, ExitDrain, LockWithout, WouldBlock, AfterProbe
<1>1. ASSUME NEW c \in Commands, StageInBackground(c) PROVE LockInv'
  BY <1>1 DEF StageInBackground
<1>2. ASSUME NEW c \in Commands, StageInForeground(c) PROVE LockInv'
  BY <1>2 DEF StageInForeground
<1>3. ASSUME NEW c \in Commands, CleanupStaged(c) PROVE LockInv'
  BY <1>3 DEF CleanupStaged
<1>4. ASSUME NEW c \in Commands, FinishRemovals(c) PROVE LockInv'
  BY <1>4 DEF FinishRemovals
<1>5. ASSUME NEW c \in Commands, Sweep(c) PROVE LockInv'
  BY <1>5 DEF Sweep
<1>6. ASSUME NEW c \in Commands, ProbeFindsDrain(c) PROVE LockInv'
  BY <1>6 DEF ProbeFindsDrain
<1>7. ASSUME NEW c \in Commands, ProbeTakesLock(c) PROVE LockInv'
  BY <1>7 DEF ProbeTakesLock
<1>8. ASSUME NEW c \in Commands, ProbeDropsLock(c) PROVE LockInv'
  BY <1>8 DEF ProbeDropsLock
<1>9. ASSUME NEW c \in Commands, SpawnDrain(c) PROVE LockInv'
  BY <1>9 DEF SpawnDrain
<1>10. ASSUME NEW c \in Commands, SpawnFails(c) PROVE LockInv'
  BY <1>10 DEF SpawnFails
<1>11. ASSUME NEW c \in Commands, CommandDies(c) PROVE LockInv'
  BY <1>11 DEF CommandDies
<1>12. ASSUME NEW d \in Drains, TryLock(d) PROVE LockInv'
  BY <1>12 DEF TryLock
<1>13. ASSUME NEW d \in Drains, ListPending(d) PROVE LockInv'
  BY <1>13 DEF ListPending
<1>14. ASSUME NEW d \in Drains, DeleteEntry(d) PROVE LockInv'
  BY <1>14 DEF DeleteEntry
<1>15. ASSUME NEW d \in Drains, DropLock(d) PROVE LockInv'
  BY <1>15 DEF DropLock
<1>16. ASSUME NEW d \in Drains, Recheck(d) PROVE LockInv'
  BY <1>16 DEF Recheck
<1>17. ASSUME NEW d \in Drains, DrainDies(d) PROVE LockInv'
  BY <1>17 DEF DrainDies
<1>18. CASE UNCHANGED trashVars
  BY <1>18 DEF trashVars
<1> QED
  BY <1>1, <1>2, <1>3, <1>4, <1>5, <1>6, <1>7, <1>8, <1>9, <1>10, <1>11, <1>12, <1>13, <1>14,
     <1>15, <1>16, <1>17, <1>18 DEF TrashNext, CommandStep, DrainStep

LEMMA CoverInit == TrashInit => EveryEntryCovered
BY DEF TrashInit, EveryEntryCovered

\* Cover is lost only by a process that stops looking: a probe or a drain that finds the lock held
\* (then the holder covers), and a drain whose last listing found nothing but what it cannot delete.
LEMMA CoverStep == TrashTypeOK /\ LockInv /\ EveryEntryCovered /\ [TrashNext]_trashVars => EveryEntryCovered'
<1> SUFFICES ASSUME TrashTypeOK, LockInv, EveryEntryCovered, [TrashNext]_trashVars,
                    NEW e \in trash' \ (Stubborn \cup orphaned')
             PROVE  Covered(e)'
  BY DEF EveryEntryCovered
<1> USE TrashAssumption
    DEF TrashTypeOK, EveryEntryCovered, Covered, commandVars, drainVars, Fault, ExitDrain, AfterProbe
<1>1. ASSUME NEW c \in Commands, StageInBackground(c) PROVE Covered(e)'
  BY <1>1 DEF StageInBackground
<1>2. ASSUME NEW c \in Commands, StageInForeground(c) PROVE Covered(e)'
  BY <1>2 DEF StageInForeground
<1>3. ASSUME NEW c \in Commands, CleanupStaged(c) PROVE Covered(e)'
  BY <1>3 DEF CleanupStaged
<1>4. ASSUME NEW c \in Commands, FinishRemovals(c) PROVE Covered(e)'
  BY <1>4 DEF FinishRemovals
<1>5. ASSUME NEW c \in Commands, Sweep(c) PROVE Covered(e)'
  BY <1>5 DEF Sweep
<1>6. ASSUME NEW c \in Commands, ProbeFindsDrain(c) PROVE Covered(e)'
  <2>1. PICK d \in Drains \cup Commands : lock = d
    BY <1>6 DEF ProbeFindsDrain, WouldBlock
  <2>2. CASE d \in Drains
    BY <1>6, <2>1, <2>2 DEF ProbeFindsDrain, LockInv
  <2>3. CASE d \in Commands
    BY <1>6, <2>1, <2>3 DEF ProbeFindsDrain, LockInv
  <2> QED
    BY <2>1, <2>2, <2>3
<1>7. ASSUME NEW c \in Commands, ProbeTakesLock(c) PROVE Covered(e)'
  BY <1>7 DEF ProbeTakesLock
<1>8. ASSUME NEW c \in Commands, ProbeDropsLock(c) PROVE Covered(e)'
  BY <1>8 DEF ProbeDropsLock
<1>9. ASSUME NEW c \in Commands, SpawnDrain(c) PROVE Covered(e)'
  BY <1>9 DEF SpawnDrain
<1>10. ASSUME NEW c \in Commands, SpawnFails(c) PROVE Covered(e)'
  BY <1>10 DEF SpawnFails
<1>11. ASSUME NEW c \in Commands, CommandDies(c) PROVE Covered(e)'
  BY <1>11 DEF CommandDies
<1>12. ASSUME NEW d \in Drains, TryLock(d) PROVE Covered(e)'
  <2>1. CASE WouldBlock
    <3>1. PICK p \in Drains \cup Commands : lock = p
      BY <2>1 DEF WouldBlock
    <3>2. CASE p \in Drains
      BY <1>12, <2>1, <3>1, <3>2 DEF TryLock, LockInv
    <3>3. CASE p \in Commands
      BY <1>12, <2>1, <3>1, <3>3 DEF TryLock, LockInv
    <3> QED
      BY <3>1, <3>2, <3>3
  <2>2. CASE ~WouldBlock
    BY <1>12, <2>2 DEF TryLock
  <2> QED
    BY <2>1, <2>2
<1>13. ASSUME NEW d \in Drains, ListPending(d) PROVE Covered(e)'
  BY <1>13 DEF ListPending
<1>14. ASSUME NEW d \in Drains, DeleteEntry(d) PROVE Covered(e)'
  BY <1>14 DEF DeleteEntry
<1>15. ASSUME NEW d \in Drains, DropLock(d) PROVE Covered(e)'
  BY <1>15 DEF DropLock
<1>16. ASSUME NEW d \in Drains, Recheck(d) PROVE Covered(e)'
  BY <1>16 DEF Recheck
<1>17. ASSUME NEW d \in Drains, DrainDies(d) PROVE Covered(e)'
  BY <1>17 DEF DrainDies
<1>18. CASE UNCHANGED trashVars
  BY <1>18 DEF trashVars
<1> QED
  BY <1>1, <1>2, <1>3, <1>4, <1>5, <1>6, <1>7, <1>8, <1>9, <1>10, <1>11, <1>12, <1>13, <1>14,
     <1>15, <1>16, <1>17, <1>18 DEF TrashNext, CommandStep, DrainStep

LEMMA TrashInvInit == TrashInit => TrashIInv
BY TrashTypeInit, LockInit, CoverInit DEF TrashIInv

LEMMA TrashInvStep == TrashIInv /\ [TrashNext]_trashVars => TrashIInv'
BY TrashTypeStep, LockStep, CoverStep DEF TrashIInv

LEMMA TrashInvariance == TrashSpec => []TrashIInv
BY TrashInvInit, TrashInvStep, PTL DEF TrashSpec

\* Every variable keeps its type for every number of processes, entries and faults.
THEOREM TrashTypeCorrect == TrashSpec => []TrashTypeOK
<1>1. TrashIInv => TrashTypeOK
  BY DEF TrashIInv
<1> QED
  BY <1>1, TrashInvariance, PTL

\* The drain lock serialises deletion: no two drains are between try_lock and drop.
THEOREM MutualExclusion == TrashSpec => []OneDeleter
<1>1. TrashIInv => OneDeleter
  BY DEF TrashIInv, LockInv, OneDeleter
<1> QED
  BY <1>1, TrashInvariance, PTL

\* trash_drain_running and drain_trash together lose no staged worktree.
THEOREM NoRemovalForgotten == TrashSpec => []EveryEntryCovered
<1>1. TrashIInv => EveryEntryCovered
  BY DEF TrashIInv
<1> QED
  BY <1>1, TrashInvariance, PTL

-----------------------------------------------------------------------------
(* The protocol implements the abstract trash *)

\* A foreground command deletes the one entry it staged.
OneStaged == \A c \in Commands : mine[c] = {} \/ \E e \in Entries : mine[c] = {e}

LEMMA OneStagedInvariant == TrashSpec => []OneStaged
<1>1. TrashInit => OneStaged
  BY DEF TrashInit, OneStaged
<1>2. TrashTypeOK /\ OneStaged /\ [TrashNext]_trashVars => OneStaged'
  BY DEF OneStaged, TrashTypeOK, trashVars, TrashNext, CommandStep, DrainStep, StageInBackground, StageInForeground,
         CleanupStaged, FinishRemovals, Sweep, ProbeFindsDrain, ProbeTakesLock, ProbeDropsLock,
         SpawnDrain, SpawnFails, CommandDies, TryLock, ListPending, DeleteEntry, DropLock, Recheck,
         DrainDies, commandVars, drainVars, ExitDrain
<1> QED
  BY <1>1, <1>2, TrashTypeCorrect, PTL DEF TrashSpec

LEMMA StepImplements == TrashTypeOK /\ OneStaged /\ [TrashNext]_trashVars => [Promise!Next]_(Promise!vars)
<1> SUFFICES ASSUME TrashTypeOK, OneStaged, [TrashNext]_trashVars PROVE [Promise!Next]_(Promise!vars)
  OBVIOUS
<1> USE DEF Promise!Next, Promise!vars, TrashTypeOK, commandVars, drainVars, Fault, ExitDrain, AfterProbe
<1>1. ASSUME NEW c \in Commands, StageInBackground(c) PROVE [Promise!Next]_(Promise!vars)
  BY <1>1 DEF StageInBackground, Promise!Stage
<1>2. ASSUME NEW c \in Commands, StageInForeground(c) PROVE [Promise!Next]_(Promise!vars)
  BY <1>2 DEF StageInForeground, Promise!Stage
<1>3. ASSUME NEW c \in Commands, CleanupStaged(c) PROVE [Promise!Next]_(Promise!vars)
  <2>1. CASE mine[c] \cap trash \subseteq Stubborn
    BY <1>3, <2>1 DEF CleanupStaged
  <2>2. CASE ~(mine[c] \cap trash \subseteq Stubborn)
    <3>1. PICK e \in trash \ Stubborn : mine[c] = {e}
      BY <2>2 DEF OneStaged
    <3> QED
      BY <1>3, <3>1 DEF CleanupStaged, Promise!Delete
  <2> QED
    BY <2>1, <2>2
<1>4. ASSUME NEW c \in Commands, FinishRemovals(c) PROVE [Promise!Next]_(Promise!vars)
  BY <1>4 DEF FinishRemovals
<1>5. ASSUME NEW c \in Commands, Sweep(c) PROVE [Promise!Next]_(Promise!vars)
  BY <1>5 DEF Sweep, Promise!TakeBack
<1>6. ASSUME NEW c \in Commands, ProbeFindsDrain(c) PROVE [Promise!Next]_(Promise!vars)
  BY <1>6 DEF ProbeFindsDrain
<1>7. ASSUME NEW c \in Commands, ProbeTakesLock(c) PROVE [Promise!Next]_(Promise!vars)
  BY <1>7 DEF ProbeTakesLock
<1>8. ASSUME NEW c \in Commands, ProbeDropsLock(c) PROVE [Promise!Next]_(Promise!vars)
  BY <1>8 DEF ProbeDropsLock
<1>9. ASSUME NEW c \in Commands, SpawnDrain(c) PROVE [Promise!Next]_(Promise!vars)
  BY <1>9 DEF SpawnDrain
<1>10. ASSUME NEW c \in Commands, SpawnFails(c) PROVE [Promise!Next]_(Promise!vars)
  BY <1>10 DEF SpawnFails, Promise!Fault
<1>11. ASSUME NEW c \in Commands, CommandDies(c) PROVE [Promise!Next]_(Promise!vars)
  BY <1>11 DEF CommandDies, Promise!Fault
<1>12. ASSUME NEW d \in Drains, TryLock(d) PROVE [Promise!Next]_(Promise!vars)
  BY <1>12 DEF TryLock
<1>13. ASSUME NEW d \in Drains, ListPending(d) PROVE [Promise!Next]_(Promise!vars)
  BY <1>13 DEF ListPending
<1>14. ASSUME NEW d \in Drains, DeleteEntry(d) PROVE [Promise!Next]_(Promise!vars)
  <2>1. PICK e \in pending[d] : trash' = trash \ ({e} \ Stubborn)
    BY <1>14 DEF DeleteEntry
  <2>2. CASE e \in trash \ Stubborn
    BY <1>14, <2>1, <2>2 DEF DeleteEntry, Promise!Delete
  <2>3. CASE e \notin trash \ Stubborn
    BY <1>14, <2>1, <2>3 DEF DeleteEntry
  <2> QED
    BY <2>2, <2>3
<1>15. ASSUME NEW d \in Drains, DropLock(d) PROVE [Promise!Next]_(Promise!vars)
  BY <1>15 DEF DropLock
<1>16. ASSUME NEW d \in Drains, Recheck(d) PROVE [Promise!Next]_(Promise!vars)
  BY <1>16 DEF Recheck
<1>17. ASSUME NEW d \in Drains, DrainDies(d) PROVE [Promise!Next]_(Promise!vars)
  BY <1>17 DEF DrainDies, Promise!Fault
<1>18. CASE UNCHANGED trashVars
  BY <1>18 DEF trashVars
<1> QED
  BY <1>1, <1>2, <1>3, <1>4, <1>5, <1>6, <1>7, <1>8, <1>9, <1>10, <1>11, <1>12, <1>13, <1>14,
     <1>15, <1>16, <1>17, <1>18 DEF TrashNext, CommandStep, DrainStep

\* Commands and drains together behave as the abstract trash: every step is a staging, one deletion
\* of a deletable entry, a fault, the taking back of orphans, or invisible.
THEOREM Implementation == TrashSpec => ImplementsPromise
<1>1. TrashInit => Promise!Init
  BY DEF TrashInit, Promise!Init
<1> QED
  BY <1>1, TrashTypeCorrect, OneStagedInvariant, StepImplements, PTL DEF TrashSpec, ImplementsPromise, Promise!Spec
=============================================================================
