------------------------ MODULE AdvanceTargetProofs -------------------------
(***************************************************************************)
(* AdvanceTarget for every number of pushes, commits, paths and user       *)
(* steps: landed commits stay, only a push's own advance is undone, what   *)
(* the user has not committed is kept, and an index that disagrees with    *)
(* the target at the end was reported.                                     *)
(***************************************************************************)
EXTENDS AdvanceTarget, TLAPS

\* Histories are sets of made commits, closed, and without cycles.
AncestryInv ==
    \A c \in Made :
        /\ c \in anc[c] /\ anc[c] \subseteq Made
        /\ \A a \in anc[c] : anc[a] \subseteq anc[c] /\ (c \in anc[a] => a = c)

\* From its preparation on, a push would move the target strictly forward, between commits there are.
Prepared == {"conflicts", "advance", "refresh", "verify", "rollback", "landed", "moved", "unsynced"}
PlanInv ==
    \A p \in Pushers :
        /\ pc[p] # "start" => head[p] \in Made
        /\ pc[p] \in Prepared =>
              /\ old[p] \in Made /\ new[p] \in Made
              /\ old[p] \in anc[new[p]] /\ new[p] \notin anc[old[p]]

\* Pushes that moved the target and have not taken it back: they are in its history, and of any two
\* one was built on the other.
Advanced == {"refresh", "verify", "rollback", "landed", "moved", "unsynced"}
Ups == {p \in Pushers : pc[p] \in Advanced}
ChainInv ==
    \A p \in Ups :
        /\ new[p] \in anc[tip]
        /\ \A q \in Ups \ {p} : new[p] \in anc[old[q]] \/ new[q] \in anc[old[p]]

\* Files differ from the index only by the user's edits.
WorkInv == \A f \in Paths : work[f] = index[f] \/ work[f] \in Edits

\* What the index holds is c's, but for what the user staged.
IndexIs(c) == \A f \in Paths : index[f] = tree[c][f] \/ index[f] \in Edits

Reported == \E p \in Pushers : pc[p] \in {"moved", "unsynced", "killed"}

\* Pushes whose advance the worktree has not followed.
Unsynced == {p \in Pushers : pc[p] \in {"refresh", "rollback"}}

\* x stays in the target's history: no rollback to come can take it out.
Fixed(x) ==
    /\ x \in anc[tip]
    /\ \A p \in Unsynced : x \in anc[new[p]] => x \in anc[old[p]]

\* Something that stays was built on a push that has not finished; it will find the target moved.
Overtaken == \E p \in Pushers : /\ pc[p] \in {"refresh", "verify", "rollback"}
                                /\ \E x \in Made : Fixed(x) /\ new[p] \in anc[x] /\ x # new[p]

\* The unsynced pushes are stacked on what the index holds, the last of them at the target's tip.
Stacked ==
    /\ Unsynced = {} => IndexIs(tip)
    /\ Unsynced # {} => \E p \in Unsynced : tip = new[p]
    /\ \A p \in Unsynced :
          \/ \E q \in Unsynced : new[q] = old[p]
          \/ IndexIs(old[p]) /\ \A q \in Unsynced : new[q] \notin anc[old[p]]

\* While nobody reported anything and nobody is overtaken, the index is behind by just that stack.
IndexInv ==
    hasWorktree =>
        \/ Reported
        \/ Overtaken
        \/ Stacked

IInv == TypeOK /\ AncestryInv /\ PlanInv /\ ChainInv /\ WorkInv /\ IndexInv

-----------------------------------------------------------------------------
(* History *)

\* Commits only come; those there are keep their history and their tree.
Grows == Made \subseteq Made' /\ \A c \in Made : anc'[c] = anc[c] /\ tree'[c] = tree[c]

LEMMA MakeFacts ==
    ASSUME TypeOK, NEW c \in Commits, NEW history \in SUBSET Made,
           NEW content \in [Paths -> Content], Make(c, history, content)
    PROVE  /\ c \notin Made /\ Made' = Made \cup {c}
           /\ anc'[c] = history \cup {c} /\ tree'[c] = content
           /\ anc' \in [Commits -> SUBSET Commits] /\ tree' \in [Commits -> [Paths -> Content]]
           /\ Grows
BY DEF Make, Made, TypeOK, Grows

\* A new commit on top of a closed history keeps ancestry closed and free of cycles.
LEMMA MakeAncestry ==
    ASSUME TypeOK, AncestryInv, NEW c \in Commits, NEW history \in SUBSET Made,
           NEW content \in [Paths -> Content], Make(c, history, content),
           \A a \in history : anc[a] \subseteq history
    PROVE  AncestryInv'
<1>1. /\ c \notin Made /\ Made' = Made \cup {c} /\ anc'[c] = history \cup {c}
      /\ \A b \in Made : anc'[b] = anc[b]
  BY MakeFacts DEF Grows
<1>2. ASSUME NEW b \in Made
      PROVE  /\ b \in anc'[b] /\ anc'[b] \subseteq Made'
             /\ \A a \in anc'[b] : anc'[a] \subseteq anc'[b] /\ (b \in anc'[a] => a = b)
  BY <1>1 DEF AncestryInv
<1>3. ASSUME NEW a \in history
      PROVE  anc'[a] \subseteq anc'[c] /\ c \notin anc'[a]
  BY <1>1 DEF AncestryInv
<1> QED
  BY <1>1, <1>2, <1>3 DEF AncestryInv

LEMMA InitAll == Init => TypeOK /\ AncestryInv /\ PlanInv /\ ChainInv /\ WorkInv /\ IndexInv
<1> SUFFICES ASSUME Init PROVE TypeOK /\ AncestryInv /\ PlanInv /\ ChainInv /\ WorkInv /\ IndexInv
  OBVIOUS
<1>1. Made = {Base} /\ anc[Base] = {Base}
  BY PushAssumption DEF Init, Made
<1>2. TypeOK
  BY <1>1, PushAssumption DEF Init, TypeOK, Content, Labels
<1>3. AncestryInv
  BY <1>1 DEF AncestryInv
<1>4. PlanInv /\ ChainInv /\ WorkInv
  BY DEF Init, PlanInv, Prepared, ChainInv, Ups, Advanced, WorkInv
<1>5. Unsynced = {}
  BY DEF Init, Unsynced
<1>6. IndexInv
  BY <1>5, PushAssumption DEF Init, IndexInv, Stacked, IndexIs
<1> QED
  BY <1>2, <1>3, <1>4, <1>6

LEMMA HistoryStep == TypeOK /\ AncestryInv /\ PlanInv /\ [Next]_vars => AncestryInv' /\ Grows
<1> SUFFICES ASSUME TypeOK, AncestryInv, PlanInv, [Next]_vars PROVE AncestryInv' /\ Grows
  OBVIOUS
<1>1. ASSUME UNCHANGED <<anc, tree>> PROVE AncestryInv' /\ Grows
  BY <1>1 DEF AncestryInv, Grows, Made
<1>2. ASSUME NEW c \in Commits, NEW history \in SUBSET Made, NEW content \in [Paths -> Content],
             Make(c, history, content), \A a \in history : anc[a] \subseteq history
      PROVE  AncestryInv' /\ Grows
  BY <1>2, MakeFacts, MakeAncestry
<1>3. ASSUME NEW c \in Made
      PROVE  anc[c] \in SUBSET Made /\ \A a \in anc[c] : anc[a] \subseteq anc[c]
  BY DEF AncestryInv
<1>4. ASSUME UserCommit PROVE AncestryInv' /\ Grows
  <2>1. PICK c \in Commits : Make(c, anc[tip], index)
    BY <1>4 DEF UserCommit
  <2> QED
    BY <2>1, <1>2, <1>3 DEF TypeOK
<1>5. ASSUME NEW f \in Paths, Edit(f) \/ Add(f) PROVE AncestryInv' /\ Grows
  BY <1>1, <1>5 DEF Edit, Add, repository
<1>6. ASSUME NEW p \in Pushers, Commit(p) PROVE AncestryInv' /\ Grows
  <2>1. CASE UNCHANGED <<anc, tree>>
    BY <1>1, <2>1
  <2>2. ASSUME NEW c \in Commits, NEW f \in Paths, Make(c, anc[tip], [tree[tip] EXCEPT ![f] = c])
        PROVE  AncestryInv' /\ Grows
    <3>1. [tree[tip] EXCEPT ![f] = c] \in [Paths -> Content]
      BY DEF TypeOK, Content, Made
    <3> QED
      BY <3>1, <2>2, <1>2, <1>3 DEF TypeOK
  <2> QED
    BY <1>6, <2>1, <2>2 DEF Commit
<1>7. ASSUME NEW p \in Pushers, MakeMergeCommit(p) PROVE AncestryInv' /\ Grows
  <2>1. PICK c \in Commits : Make(c, anc[old[p]] \cup anc[head[p]], tree[head[p]])
    BY <1>7 DEF MakeMergeCommit
  <2>2. head[p] \in Made /\ old[p] \in Made
    BY <1>7 DEF MakeMergeCommit, PlanInv, Prepared
  <2>3. tree[head[p]] \in [Paths -> Content]
    BY <2>2 DEF TypeOK, Made
  <2> QED
    BY <2>1, <2>2, <2>3, <1>2, <1>3
<1>8. ASSUME NEW p \in Pushers,
             \/ Kill(p) \/ Prepare(p) \/ CheckConflicts(p) \/ Advance(p) \/ Sync(p) \/ SyncRefuses(p)
             \/ Verify(p) \/ RollBack(p)
      PROVE  AncestryInv' /\ Grows
  BY <1>1, <1>8 DEF Kill, Prepare, CheckConflicts, Advance, Sync, SyncRefuses, Verify, RollBack, repository
<1>9. CASE UNCHANGED vars
  BY <1>1, <1>9 DEF vars, repository
<1> QED
  BY <1>4, <1>5, <1>6, <1>7, <1>8, <1>9 DEF Next

LEMMA TypeStep == TypeOK /\ AncestryInv /\ PlanInv /\ [Next]_vars => TypeOK'
<1> SUFFICES ASSUME TypeOK, AncestryInv, PlanInv, [Next]_vars PROVE TypeOK'
  OBVIOUS
<1> USE PushAssumption DEF TypeOK, Labels, Outcomes, source, repository, worktree, Goto, Step
<1>0. Grows
  BY HistoryStep
<1>a. ASSUME UserStep PROVE users' \in 0..MaxUser /\ hasWorktree
  BY <1>a DEF UserStep
<1>b. ASSUME UNCHANGED anc PROVE Made' = Made
  BY <1>b DEF Made
<1>1. ASSUME UserCommit PROVE TypeOK'
  <2>1. PICK c \in Commits : Make(c, anc[tip], index) /\ tip' = c
    BY <1>1 DEF UserCommit
  <2>0. TypeOK /\ index \in [Paths -> Content]
    OBVIOUS
  <2>2. anc[tip] \in SUBSET Made
    BY DEF AncestryInv
  <2>3. /\ tip' \in Made' /\ anc' \in [Commits -> SUBSET Commits]
        /\ tree' \in [Commits -> [Paths -> Content]]
    <3> HIDE DEF TypeOK
    <3> QED
      BY <2>1, <2>2, <2>0, MakeFacts
  <2> QED
    BY <1>1, <1>a, <2>3 DEF UserCommit
<1>2. ASSUME NEW f \in Paths, Edit(f) PROVE TypeOK'
  <2>1. work' \in [Paths -> Content]
    BY <1>2 DEF Edit, Content
  <2> QED
    BY <1>2, <1>a, <1>b, <2>1 DEF Edit
<1>3. ASSUME NEW f \in Paths, Add(f) PROVE TypeOK'
  BY <1>3, <1>a, <1>b DEF Add
<1>4. ASSUME NEW p \in Pushers, Commit(p) PROVE TypeOK'
  <2>1. ASSUME NEW c \in Commits, NEW f \in Paths, Make(c, anc[tip], [tree[tip] EXCEPT ![f] = c])
        PROVE  anc' \in [Commits -> SUBSET Commits] /\ tree' \in [Commits -> [Paths -> Content]]
    <3>1. [tree[tip] EXCEPT ![f] = c] \in [Paths -> Content]
      BY DEF Content, Made
    <3> QED
      BY <3>1, <2>1, MakeFacts DEF AncestryInv
  <2>2. anc' \in [Commits -> SUBSET Commits] /\ tree' \in [Commits -> [Paths -> Content]]
    BY <1>4, <2>1 DEF Commit
  <2>3. head' \in [Pushers -> Commits \cup {None}]
    BY <1>4 DEF Commit, Made
  <2>4. tip' \in Made'
    BY <1>4, <1>0 DEF Commit, Grows
  <2> QED
    BY <1>4, <2>2, <2>3, <2>4 DEF Commit
<1>5. ASSUME NEW p \in Pushers, MakeMergeCommit(p) PROVE TypeOK'
  <2>1. PICK c \in Commits : /\ Make(c, anc[old[p]] \cup anc[head[p]], tree[head[p]])
                             /\ new' = [new EXCEPT ![p] = c]
    BY <1>5 DEF MakeMergeCommit
  <2>2. head[p] \in Made /\ old[p] \in Made
    BY <1>5 DEF MakeMergeCommit, PlanInv, Prepared
  <2>3. tree[head[p]] \in [Paths -> Content] /\ anc[old[p]] \cup anc[head[p]] \in SUBSET Made
    BY <2>2 DEF Made, AncestryInv
  <2>4. anc' \in [Commits -> SUBSET Commits] /\ tree' \in [Commits -> [Paths -> Content]]
    BY <2>1, <2>3, MakeFacts
  <2>5. tip' \in Made'
    BY <1>5, <1>0 DEF MakeMergeCommit, Grows
  <2> QED
    BY <1>5, <2>1, <2>4, <2>5 DEF MakeMergeCommit
<1>6. ASSUME NEW p \in Pushers, Kill(p) PROVE TypeOK'
  BY <1>6, <1>b DEF Kill
<1>7. ASSUME NEW p \in Pushers, Prepare(p) PROVE TypeOK'
  BY <1>7, <1>b DEF Prepare, Made
<1>8. ASSUME NEW p \in Pushers, CheckConflicts(p) PROVE TypeOK'
  BY <1>8, <1>b DEF CheckConflicts
<1>9. ASSUME NEW p \in Pushers, Advance(p) PROVE TypeOK'
  BY <1>9, <1>b DEF Advance, PlanInv, Prepared
<1>10. ASSUME NEW p \in Pushers, Sync(p) PROVE TypeOK'
  <2>1. tree[new[p]] \in [Paths -> Content]
    BY <1>10 DEF Sync, PlanInv, Prepared, Made
  <2>2. index' \in [Paths -> Content] /\ work' \in [Paths -> Content]
    BY <1>10, <2>1 DEF Sync
  <2> QED
    BY <1>10, <1>b, <2>2 DEF Sync
<1>11. ASSUME NEW p \in Pushers, SyncRefuses(p) PROVE TypeOK'
  BY <1>11, <1>b DEF SyncRefuses
<1>12. ASSUME NEW p \in Pushers, Verify(p) PROVE TypeOK'
  BY <1>12, <1>b DEF Verify
<1>13. ASSUME NEW p \in Pushers, RollBack(p) PROVE TypeOK'
  BY <1>13, <1>b DEF RollBack, PlanInv, Prepared
<1>14. CASE UNCHANGED vars
  BY <1>14, <1>b DEF vars
<1> QED
  BY <1>1, <1>2, <1>3, <1>4, <1>5, <1>6, <1>7, <1>8, <1>9, <1>10, <1>11, <1>12, <1>13, <1>14 DEF Next

LEMMA PlanStep == TypeOK /\ AncestryInv /\ PlanInv /\ [Next]_vars => PlanInv'
<1> SUFFICES ASSUME TypeOK, AncestryInv, PlanInv, [Next]_vars PROVE PlanInv'
  OBVIOUS
<1> USE DEF PlanInv, Prepared, source, repository, worktree, Goto, Step
<1>0. Grows
  BY HistoryStep
<1>1. ASSUME UNCHANGED <<pc, source>> PROVE PlanInv'
  BY <1>0, <1>1 DEF Grows
<1>2. ASSUME UserCommit PROVE PlanInv'
  BY <1>1, <1>2 DEF UserCommit
<1>3. ASSUME NEW f \in Paths, Edit(f) \/ Add(f) PROVE PlanInv'
  BY <1>1, <1>3 DEF Edit, Add
<1>4. ASSUME NEW p \in Pushers, Commit(p) PROVE PlanInv'
  <2>1. head'[p] \in Made'
    <3>1. ASSUME NEW c \in Commits, NEW f \in Paths, Make(c, anc[tip], [tree[tip] EXCEPT ![f] = c])
          PROVE  c \in Made'
      BY <3>1 DEF Make, Made, TypeOK
    <3> QED
      BY <1>4, <1>0, <3>1 DEF Commit, Grows, TypeOK
  <2>2. \A q \in Pushers \ {p} : pc'[q] = pc[q] /\ head'[q] = head[q]
    BY <1>4 DEF Commit, TypeOK
  <2> QED
    BY <1>4, <1>0, <2>1, <2>2 DEF Commit, Grows, TypeOK
<1>5. ASSUME NEW p \in Pushers, Prepare(p) PROVE PlanInv'
  <2>1. ASSUME tip \in anc[head[p]], tip # head[p] PROVE head[p] \notin anc[tip]
    BY <1>5, <2>1 DEF Prepare, AncestryInv, TypeOK
  <2> QED
    BY <1>5, <1>0, <2>1 DEF Prepare, Grows, TypeOK
<1>6. ASSUME NEW p \in Pushers, MakeMergeCommit(p) PROVE PlanInv'
  <2>1. head[p] \in Made /\ old[p] \in Made
    BY <1>6 DEF MakeMergeCommit
  <2>2. tree[head[p]] \in [Paths -> Content] /\ anc[old[p]] \cup anc[head[p]] \in SUBSET Made
    BY <2>1 DEF TypeOK, Made, AncestryInv
  <2>3. PICK c \in Commits, h \in SUBSET Made, t \in [Paths -> Content] :
            Make(c, h, t) /\ h = anc[old[p]] \cup anc[head[p]] /\ new' = [new EXCEPT ![p] = c]
    BY <1>6, <2>2 DEF MakeMergeCommit
  <2>4. c \notin Made /\ Made' = Made \cup {c} /\ anc'[c] = h \cup {c}
    BY <2>3, MakeFacts, SMTT(30)
  <2>5. old[p] \in anc'[c] /\ c \notin anc'[old[p]]
    BY <1>0, <2>1, <2>3, <2>4 DEF AncestryInv, Grows
  <2> QED
    BY <1>6, <1>0, <2>3, <2>4, <2>5 DEF MakeMergeCommit, Grows, TypeOK
<1>7. ASSUME NEW p \in Pushers,
             \/ Kill(p) \/ CheckConflicts(p) \/ Advance(p) \/ Sync(p) \/ SyncRefuses(p)
             \/ Verify(p) \/ RollBack(p)
      PROVE  PlanInv'
  <2>1. UNCHANGED source /\ \A q \in Pushers \ {p} : pc'[q] = pc[q]
    BY <1>7 DEF Kill, CheckConflicts, Advance, Sync, SyncRefuses, Verify, RollBack, TypeOK
  <2>2. pc[p] # "start" /\ (pc'[p] \in Prepared => pc[p] \in Prepared)
    BY <1>7 DEF Kill, CheckConflicts, Advance, Sync, SyncRefuses, Verify, RollBack, TypeOK, Outcomes
  <2> QED
    BY <1>0, <2>1, <2>2 DEF Grows
<1>8. CASE UNCHANGED vars
  BY <1>1, <1>8 DEF vars
<1> QED
  BY <1>2, <1>3, <1>4, <1>5, <1>6, <1>7, <1>8 DEF Next

LEMMA WorkStep == TypeOK /\ PlanInv /\ WorkInv /\ [Next]_vars => WorkInv'
<1> SUFFICES ASSUME TypeOK, PlanInv, WorkInv, [Next]_vars PROVE WorkInv'
  OBVIOUS
<1> USE DEF TypeOK, WorkInv, worktree
<1>1. ASSUME UserCommit PROVE WorkInv'
  BY <1>1 DEF UserCommit
<1>2. ASSUME NEW f \in Paths, Edit(f) PROVE WorkInv'
  BY <1>2 DEF Edit
<1>3. ASSUME NEW f \in Paths, Add(f) PROVE WorkInv'
  BY <1>3 DEF Add
<1>4. ASSUME NEW p \in Pushers,
             \/ Commit(p) \/ Kill(p) \/ Prepare(p) \/ CheckConflicts(p) \/ MakeMergeCommit(p)
             \/ Advance(p) \/ SyncRefuses(p) \/ Verify(p) \/ RollBack(p)
      PROVE  WorkInv'
  BY <1>4 DEF Commit, Kill, Prepare, CheckConflicts, MakeMergeCommit, Advance, SyncRefuses, Verify, RollBack
<1>5. ASSUME NEW p \in Pushers, Sync(p) PROVE WorkInv'
  BY <1>5 DEF Sync
<1>6. CASE UNCHANGED vars
  BY <1>6 DEF vars
<1> QED
  BY <1>1, <1>2, <1>3, <1>4, <1>5, <1>6 DEF Next

-----------------------------------------------------------------------------
(* The pushes that moved the target *)

\* What two pushes have in common, whichever came first, is what one of them was built on.
LEMMA NothingBetween ==
    ASSUME AncestryInv, PlanInv, ChainInv, NEW p \in Ups, NEW q \in Ups \ {p}, new[q] \in anc[new[p]]
    PROVE  new[q] \in anc[old[p]] /\ new[p] # new[q] /\ new[p] \notin anc[old[q]]
<1>1. /\ {old[p], new[p], old[q], new[q]} \subseteq Made
      /\ new[q] \notin anc[old[q]] /\ old[q] \in anc[new[q]] /\ new[p] \notin anc[old[p]]
  BY DEF PlanInv, Ups, Advanced, Prepared
<1>2. new[p] \notin anc[old[q]]
  BY <1>1 DEF AncestryInv
<1>3. new[q] \in anc[old[p]]
  BY <1>2 DEF ChainInv
<1> QED
  BY <1>1, <1>2, <1>3

LEMMA ChainStep == TypeOK /\ AncestryInv /\ PlanInv /\ ChainInv /\ [Next]_vars => ChainInv'
<1> SUFFICES ASSUME TypeOK, AncestryInv, PlanInv, ChainInv, [Next]_vars PROVE ChainInv'
  OBVIOUS
<1>0. Grows /\ AncestryInv'
  BY HistoryStep
<1>a. \A p \in Ups : old[p] \in Made /\ new[p] \in Made
  BY DEF PlanInv, Ups, Advanced, Prepared
<1>1. ASSUME Ups' \subseteq Ups, \A p \in Ups' : new'[p] = new[p] /\ old'[p] = old[p],
             tip' \in Made', \A p \in Ups' : new[p] \in anc'[tip']
      PROVE  ChainInv'
  <2>1. \A p \in Ups' : \A q \in Ups' \ {p} : new'[p] \in anc'[old'[q]] \/ new'[q] \in anc'[old'[p]]
    BY <1>0, <1>1, <1>a DEF ChainInv, Grows
  <2> QED
    BY <1>1, <2>1 DEF ChainInv
<1>2. ASSUME Ups' \subseteq Ups, \A p \in Ups' : new'[p] = new[p] /\ old'[p] = old[p], tip' = tip
      PROVE  ChainInv'
  BY <1>0, <1>1, <1>2 DEF ChainInv, Grows, TypeOK
<1> USE DEF Ups, Advanced, source, repository, worktree, Goto, Step
<1>3. ASSUME UserCommit PROVE ChainInv'
  <2>1. PICK c \in Commits : Make(c, anc[tip], index) /\ tip' = c
    BY <1>3 DEF UserCommit
  <2>2. anc[tip] \in SUBSET Made /\ index \in [Paths -> Content]
    BY DEF TypeOK, AncestryInv
  <2>3. Made' = Made \cup {c} /\ anc'[c] = anc[tip] \cup {c}
    BY <2>1, <2>2, MakeFacts
  <2> QED
    BY <1>1, <1>3, <2>1, <2>3 DEF UserCommit, ChainInv
<1>4. ASSUME NEW f \in Paths, Edit(f) \/ Add(f) PROVE ChainInv'
  BY <1>2, <1>4 DEF Edit, Add
<1>5. ASSUME NEW p \in Pushers, Commit(p) \/ Kill(p) \/ CheckConflicts(p) PROVE ChainInv'
  BY <1>2, <1>5 DEF Commit, Kill, CheckConflicts, TypeOK
<1>6. ASSUME NEW p \in Pushers, Prepare(p) \/ MakeMergeCommit(p) PROVE ChainInv'
  BY <1>2, <1>6 DEF Prepare, MakeMergeCommit, TypeOK
<1>7. ASSUME NEW p \in Pushers, Sync(p) \/ SyncRefuses(p) \/ Verify(p) PROVE ChainInv'
  BY <1>2, <1>7 DEF Sync, SyncRefuses, Verify, TypeOK
<1>8. ASSUME NEW p \in Pushers, Advance(p) PROVE ChainInv'
  <2>1. CASE tip # old[p]
    BY <1>2, <1>8, <2>1 DEF Advance, TypeOK
  <2>2. CASE tip = old[p]
    <3>1. tip' = new[p] /\ UNCHANGED <<anc, old, new>> /\ Ups' = Ups \cup {p} /\ p \notin Ups
      BY <1>8, <2>2 DEF Advance, TypeOK
    <3>2. old[p] \in anc[new[p]] /\ new[p] \in Made
      BY <1>8 DEF Advance, PlanInv, Prepared
    <3>3. \A q \in Ups : new[q] \in anc[old[p]]
      BY <2>2 DEF ChainInv
    <3>4. \A q \in Ups : new[q] \in anc[new[p]]
      BY <3>2, <3>3 DEF AncestryInv
    <3>5. new[p] \in anc[new[p]]
      BY <3>2 DEF AncestryInv
    <3> HIDE DEF Ups
    <3> QED
      BY <3>1, <3>3, <3>4, <3>5 DEF ChainInv
  <2> QED
    BY <2>1, <2>2
<1>9. ASSUME NEW p \in Pushers, RollBack(p) PROVE ChainInv'
  <2>1. CASE tip # new[p]
    BY <1>2, <1>9, <2>1 DEF RollBack, TypeOK
  <2>2. CASE tip = new[p]
    <3>1. p \in Ups /\ tip' = old[p] /\ Ups' = Ups \ {p} /\ UNCHANGED <<anc, old, new>>
      BY <1>9, <2>2 DEF RollBack, TypeOK
    <3>2. \A q \in Ups \ {p} : new[q] \in anc[old[p]]
      BY <2>2, <3>1, NothingBetween DEF ChainInv
    <3>3. tip' \in Made'
      BY TypeStep DEF TypeOK
    <3> HIDE DEF Ups
    <3> QED
      BY <1>1, <3>1, <3>2, <3>3
  <2> QED
    BY <2>1, <2>2
<1>10. CASE UNCHANGED vars
  BY <1>2, <1>10 DEF vars
<1> QED
  BY <1>3, <1>4, <1>5, <1>6, <1>7, <1>8, <1>9, <1>10 DEF Next

-----------------------------------------------------------------------------
(* The index of the target worktree *)

LEMMA ReportedStep == TypeOK /\ Reported /\ [Next]_vars => Reported'
<1> SUFFICES ASSUME TypeOK, NEW p \in Pushers, pc[p] \in {"moved", "unsynced", "killed"}, [Next]_vars
             PROVE  pc'[p] = pc[p]
  BY DEF Reported
<1> USE DEF TypeOK, source, Goto, Step, Outcomes
<1>1. ASSUME UserCommit \/ \E f \in Paths : Edit(f) \/ Add(f) PROVE pc'[p] = pc[p]
  BY <1>1 DEF UserCommit, Edit, Add
<1>2. ASSUME NEW q \in Pushers,
             \/ Commit(q) \/ Kill(q) \/ Prepare(q) \/ CheckConflicts(q) \/ MakeMergeCommit(q)
             \/ Advance(q) \/ Sync(q) \/ SyncRefuses(q) \/ Verify(q) \/ RollBack(q)
      PROVE  pc'[p] = pc[p]
  BY <1>2 DEF Commit, Kill, Prepare, CheckConflicts, MakeMergeCommit, Advance, Sync, SyncRefuses,
              Verify, RollBack
<1>3. CASE UNCHANGED vars
  BY <1>3 DEF vars
<1> QED
  BY <1>1, <1>2, <1>3 DEF Next

LEMMA UnsyncedFacts ==
    ASSUME PlanInv, ChainInv
    PROVE  /\ Unsynced \subseteq Ups
           /\ \A p \in Unsynced : /\ old[p] \in Made /\ new[p] \in Made /\ new[p] \in anc[tip]
                                  /\ old[p] \in anc[new[p]] /\ new[p] \notin anc[old[p]]
BY DEF PlanInv, ChainInv, Unsynced, Ups, Advanced, Prepared

\* The steps of a push that is not about to sync or to roll back touch no unsynced push.
LEMMA UnsyncedStep ==
    ASSUME TypeOK, NEW p \in Pushers,
           \/ Commit(p) \/ Prepare(p) \/ CheckConflicts(p) \/ MakeMergeCommit(p)
    PROVE  /\ Unsynced' = Unsynced /\ p \notin Unsynced /\ UNCHANGED <<tip, index>>
           /\ \A q \in Pushers \ {p} : old'[q] = old[q] /\ new'[q] = new[q] /\ pc'[q] = pc[q]
           /\ pc[p] \notin {"refresh", "verify", "rollback"}
BY DEF Unsynced, TypeOK, Commit, Prepare, CheckConflicts, MakeMergeCommit, source, repository, worktree,
       Goto, Step

\* What stays in the target's history does: only a rollback shortens it, and only by its own advance.
LEMMA FixedStep ==
    ASSUME TypeOK, AncestryInv, PlanInv, ChainInv, [Next]_vars, NEW x \in Made, Fixed(x)
    PROVE  Fixed(x)'
<1>0. Grows /\ tip \in Made /\ tip' \in Made'
  BY HistoryStep, TypeStep DEF TypeOK
<1>a. \A p \in Unsynced : old[p] \in Made /\ new[p] \in Made
  BY UnsyncedFacts
<1>1. ASSUME x \in anc'[tip'], Unsynced' \subseteq Unsynced,
             \A p \in Unsynced' : new'[p] = new[p] /\ old'[p] = old[p]
      PROVE  Fixed(x)'
  BY <1>0, <1>1, <1>a DEF Fixed, Grows
<1>2. ASSUME tip' = tip, Unsynced' \subseteq Unsynced,
             \A p \in Unsynced' : new'[p] = new[p] /\ old'[p] = old[p]
      PROVE  Fixed(x)'
  BY <1>0, <1>1, <1>2 DEF Fixed, Grows
<1> USE DEF source, repository, worktree, Goto, Step
<1>3. ASSUME UserCommit PROVE Fixed(x)'
  <2>1. PICK c \in Commits : Make(c, anc[tip], index) /\ tip' = c
    BY <1>3 DEF UserCommit
  <2>2. anc'[tip'] = anc[tip] \cup {c}
    BY <2>1 DEF Make, TypeOK
  <2>3. Unsynced' = Unsynced
    BY <1>3 DEF UserCommit, Unsynced
  <2> QED
    BY <1>1, <1>3, <2>2, <2>3 DEF UserCommit, Fixed
<1>4. ASSUME NEW f \in Paths, Edit(f) \/ Add(f) PROVE Fixed(x)'
  BY <1>2, <1>4 DEF Edit, Add, Unsynced
<1>5. ASSUME NEW p \in Pushers, Commit(p) \/ Prepare(p) \/ CheckConflicts(p) \/ MakeMergeCommit(p)
      PROVE  Fixed(x)'
  <2>1. /\ Unsynced' = Unsynced /\ p \notin Unsynced /\ tip' = tip
        /\ \A q \in Pushers \ {p} : old'[q] = old[q] /\ new'[q] = new[q]
    BY <1>5, UnsyncedStep
  <2>2. Unsynced \subseteq Pushers
    BY DEF Unsynced
  <2> QED
    BY <1>2, <2>1, <2>2
<1>6. ASSUME NEW p \in Pushers, Kill(p) \/ Sync(p) \/ SyncRefuses(p) \/ Verify(p) PROVE Fixed(x)'
  BY <1>2, <1>6 DEF Kill, Sync, SyncRefuses, Verify, Unsynced, TypeOK
<1>7. ASSUME NEW p \in Pushers, Advance(p) PROVE Fixed(x)'
  <2>1. CASE tip # old[p]
    BY <1>2, <1>7, <2>1 DEF Advance, Unsynced, TypeOK
  <2>2. CASE tip = old[p]
    <3>1. tip' = new[p] /\ UNCHANGED <<anc, old, new>> /\ Unsynced' \subseteq Unsynced \cup {p}
      BY <1>7, <2>2 DEF Advance, Unsynced, TypeOK
    <3>2. new[p] \in Made /\ old[p] \in anc[new[p]]
      BY <1>7 DEF Advance, PlanInv, Prepared
    <3>3. x \in anc[new[p]] /\ x \in anc[old[p]]
      BY <2>2, <3>2 DEF Fixed, AncestryInv
    <3> QED
      BY <3>1, <3>3 DEF Fixed
  <2> QED
    BY <2>1, <2>2
<1>8. ASSUME NEW p \in Pushers, RollBack(p) PROVE Fixed(x)'
  <2>1. CASE tip # new[p]
    BY <1>2, <1>8, <2>1 DEF RollBack, Unsynced, TypeOK
  <2>2. CASE tip = new[p]
    <3>1. tip' = old[p] /\ UNCHANGED <<anc, old, new>> /\ Unsynced' \subseteq Unsynced /\ p \in Unsynced
      BY <1>8, <2>2 DEF RollBack, Unsynced, TypeOK
    <3>2. x \in anc[old[p]]
      BY <2>2, <3>1 DEF Fixed
    <3> QED
      BY <1>1, <3>1, <3>2
  <2> QED
    BY <2>1, <2>2
<1>9. CASE UNCHANGED vars
  BY <1>2, <1>9 DEF vars, Unsynced
<1> QED
  BY <1>3, <1>4, <1>5, <1>6, <1>7, <1>8, <1>9 DEF Next

\* A push that is overtaken finds out at its next look at the target.
LEMMA OvertakenStep ==
    TypeOK /\ AncestryInv /\ PlanInv /\ ChainInv /\ Overtaken /\ [Next]_vars => Overtaken' \/ Reported'
<1> SUFFICES ASSUME TypeOK, AncestryInv, PlanInv, ChainInv, [Next]_vars,
                    NEW p \in Pushers, pc[p] \in {"refresh", "verify", "rollback"},
                    NEW x \in Made, Fixed(x), new[p] \in anc[x], x # new[p]
             PROVE  Overtaken' \/ Reported'
  BY DEF Overtaken
<1>0. x \in Made' /\ anc'[x] = anc[x] /\ Fixed(x)'
  BY HistoryStep, FixedStep DEF Grows
<1>1. ASSUME pc'[p] \in {"refresh", "verify", "rollback"}, new'[p] = new[p] PROVE Overtaken'
  BY <1>0, <1>1 DEF Overtaken
<1>2. tip # new[p]
  <2>1. new[p] \in Made
    BY DEF PlanInv, Prepared
  <2> QED
    BY <2>1 DEF Fixed, AncestryInv
<1> USE DEF TypeOK, source, repository, worktree, Goto, Step
<1>3. ASSUME UserCommit \/ \E f \in Paths : Edit(f) \/ Add(f) PROVE Overtaken'
  BY <1>1, <1>3 DEF UserCommit, Edit, Add
<1>4. ASSUME NEW q \in Pushers \ {p},
             \/ Commit(q) \/ Kill(q) \/ Prepare(q) \/ CheckConflicts(q) \/ MakeMergeCommit(q)
             \/ Advance(q) \/ Sync(q) \/ SyncRefuses(q) \/ Verify(q) \/ RollBack(q)
      PROVE  Overtaken'
  BY <1>1, <1>4 DEF Commit, Kill, Prepare, CheckConflicts, MakeMergeCommit, Advance, Sync, SyncRefuses,
                    Verify, RollBack
<1>5. ASSUME \/ Commit(p) \/ Prepare(p) \/ CheckConflicts(p) \/ MakeMergeCommit(p) \/ Advance(p)
      PROVE  FALSE
  BY <1>5 DEF Commit, Prepare, CheckConflicts, MakeMergeCommit, Advance
<1>6. ASSUME Sync(p) \/ SyncRefuses(p) PROVE Overtaken'
  BY <1>1, <1>6 DEF Sync, SyncRefuses
<1>7. ASSUME Kill(p) \/ Verify(p) \/ RollBack(p) PROVE Reported'
  BY <1>2, <1>7 DEF Kill, Verify, RollBack, Reported
<1>8. CASE UNCHANGED vars
  BY <1>1, <1>8 DEF vars
<1> QED
  BY <1>3, <1>4, <1>5, <1>6, <1>7, <1>8 DEF Next

\* The stack grows by an advance and shrinks from below by a sync and from above by a rollback;
\* anything else that comes on top of it, or a sync out of order, overtakes what is below.
LEMMA StackedStep ==
    ASSUME TypeOK, AncestryInv, PlanInv, ChainInv, WorkInv, hasWorktree, Stacked, [Next]_vars
    PROVE  Stacked' \/ Overtaken' \/ Reported'
<1>0. Grows /\ TypeOK' /\ AncestryInv' /\ PlanInv' /\ ChainInv'
  BY HistoryStep, TypeStep, PlanStep, ChainStep
<1>a. /\ Unsynced \subseteq Ups
      /\ \A p \in Unsynced : /\ old[p] \in Made /\ new[p] \in Made /\ new[p] \in anc[tip]
                             /\ old[p] \in anc[new[p]] /\ new[p] \notin anc[old[p]]
  BY UnsyncedFacts
<1>b. tip \in Made
  BY DEF TypeOK
\* As long as tip, index and stack are left alone, nothing changes.
<1>1. ASSUME tip' = tip, \A c \in Made : IndexIs(c) => IndexIs(c)', Unsynced' = Unsynced,
             \A p \in Unsynced : new'[p] = new[p] /\ old'[p] = old[p]
      PROVE  Stacked'
  <2>1. Unsynced = {} => IndexIs(tip)'
    BY <1>1, <1>b DEF Stacked, IndexIs
  <2>2. ASSUME NEW p \in Unsynced'
        PROVE  \/ \E q \in Unsynced' : new'[q] = old'[p]
               \/ IndexIs(old[p])' /\ \A q \in Unsynced' : new'[q] \notin anc'[old'[p]]
    <3>1. ASSUME IndexIs(old[p]) PROVE IndexIs(old[p])'
      BY <1>1, <1>a, <2>2, <3>1 DEF IndexIs
    <3> QED
      BY <1>0, <1>1, <1>a, <2>2, <3>1 DEF Stacked, Grows
  <2>3. Unsynced' # {} => \E p \in Unsynced' : tip' = new'[p]
    BY <1>1 DEF Stacked
  <2> QED
    BY <1>1, <2>1, <2>2, <2>3 DEF Stacked
<1>c. ASSUME UNCHANGED index, NEW c \in Made, IndexIs(c) PROVE IndexIs(c)'
  BY <1>0, <1>c DEF IndexIs, Grows
<1> USE DEF source, repository, worktree, Goto, Step
<1>2. ASSUME UserCommit PROVE Stacked' \/ Overtaken'
  <2>1. PICK c \in Commits : Make(c, anc[tip], index) /\ tip' = c
    BY <1>2 DEF UserCommit
  <2>2. anc[tip] \in SUBSET Made /\ index \in [Paths -> Content]
    BY <1>b DEF TypeOK, AncestryInv
  <2>3. c \notin Made /\ Made' = Made \cup {c} /\ anc'[c] = anc[tip] \cup {c} /\ tree'[c] = index
    BY <2>1, <2>2, MakeFacts
  <2>4. Unsynced' = Unsynced /\ UNCHANGED <<old, new, index, pc>>
    BY <1>2 DEF UserCommit, Unsynced
  <2>5. CASE Unsynced = {}
    BY <2>1, <2>3, <2>4, <2>5 DEF Stacked, IndexIs
  <2>6. CASE Unsynced # {}
    <3>1. PICK p \in Unsynced : TRUE
      BY <2>6
    <3>2. Fixed(c)'
      BY <1>0, <1>a, <2>1, <2>3, <2>4 DEF Fixed, Grows, AncestryInv
    <3>3. new'[p] \in anc'[c] /\ c # new'[p]
      BY <1>a, <2>3, <2>4, <3>1
    <3> QED
      BY <2>3, <2>4, <3>1, <3>2, <3>3 DEF Overtaken, Unsynced
  <2> QED
    BY <2>5, <2>6
<1>3. ASSUME NEW f \in Paths, Edit(f) PROVE Stacked'
  BY <1>1, <1>3, <1>c DEF Edit, Unsynced
<1>4. ASSUME NEW f \in Paths, Add(f) PROVE Stacked'
  <2>1. ASSUME NEW c \in Made, IndexIs(c) PROVE IndexIs(c)'
    BY <1>4, <2>1 DEF Add, IndexIs, WorkInv, TypeOK
  <2> QED
    BY <1>1, <1>4, <2>1 DEF Add, Unsynced
<1>5. ASSUME NEW p \in Pushers, Commit(p) \/ Prepare(p) \/ CheckConflicts(p) \/ MakeMergeCommit(p)
      PROVE  Stacked'
  <2>1. /\ Unsynced' = Unsynced /\ p \notin Unsynced /\ UNCHANGED <<tip, index>>
        /\ \A q \in Pushers \ {p} : old'[q] = old[q] /\ new'[q] = new[q]
    BY <1>5, UnsyncedStep
  <2>2. Unsynced \subseteq Pushers
    BY DEF Unsynced
  <2> QED
    BY <1>1, <1>c, <2>1, <2>2
<1>6. ASSUME NEW p \in Pushers, Kill(p) PROVE Reported'
  BY <1>6 DEF Kill, Reported, TypeOK
<1>7. ASSUME NEW p \in Pushers, Advance(p) PROVE Stacked'
  <2>1. CASE tip # old[p]
    BY <1>1, <1>7, <1>c, <2>1 DEF Advance, Unsynced, TypeOK
  <2>2. CASE tip = old[p]
    <3>1. /\ tip' = new[p] /\ UNCHANGED <<anc, tree, index, old, new>>
          /\ Unsynced' = Unsynced \cup {p} /\ p \notin Unsynced
      BY <1>7, <2>2 DEF Advance, Unsynced, TypeOK
    <3>2. new[p] \in Made /\ old[p] \in anc[new[p]] /\ new[p] \notin anc[old[p]]
      BY <1>7 DEF Advance, PlanInv, Prepared
    <3>3. ASSUME NEW q \in Unsynced PROVE new[p] \notin anc[old[q]]
      BY <1>a, <2>2, <3>2, <3>3 DEF AncestryInv
    <3>4. \A c : IndexIs(c)' = IndexIs(c)
      BY <3>1 DEF IndexIs
    <3>5. \/ \E q \in Unsynced : new[q] = old[p]
          \/ IndexIs(old[p]) /\ Unsynced = {}
      BY <2>2 DEF Stacked
    <3> HIDE DEF Unsynced
    <3> QED
      BY <3>1, <3>2, <3>3, <3>4, <3>5 DEF Stacked
  <2> QED
    BY <2>1, <2>2
<1>8. ASSUME NEW p \in Pushers, Sync(p) PROVE Stacked' \/ Overtaken'
  <2>1. /\ p \in Unsynced /\ Unsynced' = Unsynced \ {p} /\ UNCHANGED <<tip, anc, tree, old, new>>
        /\ \A q \in Pushers \ {p} : pc'[q] = pc[q]
    BY <1>8 DEF Sync, Unsynced, TypeOK
  <2>2. CASE \E q \in Unsynced : new[q] = old[p]
    <3>1. PICK q \in Unsynced : new[q] = old[p]
      BY <2>2
    <3>2. q # p /\ new[q] \in anc[new[p]] /\ new[q] # new[p]
      BY <1>a, <2>1, <3>1 DEF AncestryInv
    <3>3. ASSUME NEW s \in Unsynced \ {p}, new[p] \in anc[new[s]] PROVE new[p] \in anc[old[s]]
      BY <1>a, <2>1, <3>3, NothingBetween
    <3>4. Fixed(new[p])'
      BY <1>a, <2>1, <3>3 DEF Fixed
    <3>5. q \in Pushers /\ pc'[q] \in {"refresh", "verify", "rollback"}
      BY <2>1, <3>2 DEF Unsynced
    <3> QED
      BY <1>0, <1>a, <2>1, <3>2, <3>4, <3>5 DEF Overtaken, Grows
  <2>3. CASE IndexIs(old[p]) /\ \A q \in Unsynced : new[q] \notin anc[old[p]]
    \* p is the lowest of the stack: none of the others is below what it lands.
    <3>1. ASSUME NEW s \in Unsynced \ {p} PROVE new[s] \notin anc[new[p]]
      BY <1>a, <2>1, <2>3, <3>1, NothingBetween
    <3>2. IndexIs(new[p])'
      <4>1. \A f \in Paths : index'[f] = IF f \in Updated(p) THEN tree[new[p]][f] ELSE index[f]
        BY <1>8 DEF Sync
      <4> QED
        BY <2>1, <2>3, <4>1 DEF IndexIs, Updated, Changed
    <3>3. Unsynced' # {} => \E r \in Unsynced' : tip' = new'[r]
      <4>1. ASSUME NEW s \in Unsynced \ {p} PROVE tip # new[p]
        BY <1>a, <3>1, <4>1
      <4> QED
        BY <2>1, <4>1 DEF Stacked
    <3>4. Unsynced' = {} => IndexIs(tip)'
      <4>1. Unsynced' = {} => tip' = new[p]
        BY <2>1 DEF Stacked
      <4> QED
        BY <2>1, <3>2, <4>1 DEF IndexIs
    <3>5. ASSUME NEW r \in Unsynced'
          PROVE  \/ \E q \in Unsynced' : new'[q] = old'[r]
                 \/ IndexIs(old[r])' /\ \A q \in Unsynced' : new'[q] \notin anc'[old'[r]]
      <4>1. CASE \E q \in Unsynced \ {p} : new[q] = old[r]
        BY <2>1, <4>1
      <4>2. CASE new[p] = old[r]
        <5>1. IndexIs(old[r])'
          BY <2>1, <3>2, <4>2 DEF IndexIs
        <5> QED
          BY <2>1, <3>1, <4>2, <5>1
      <4>3. CASE \A q \in Unsynced : new[q] \notin anc[old[r]]
        BY <1>a, <2>1, <2>3, <4>3 DEF ChainInv
      <4> QED
        BY <2>1, <4>1, <4>2, <4>3 DEF Stacked
    <3> QED
      BY <3>3, <3>4, <3>5 DEF Stacked
  <2> QED
    BY <2>1, <2>2, <2>3 DEF Stacked
<1>9. ASSUME NEW p \in Pushers, SyncRefuses(p) PROVE Stacked'
  BY <1>1, <1>9, <1>c DEF SyncRefuses, Unsynced, TypeOK
<1>10. ASSUME NEW p \in Pushers, Verify(p) PROVE Stacked' \/ Reported'
  <2>1. CASE tip # new[p]
    BY <1>10, <2>1 DEF Verify, Reported, TypeOK
  <2>2. CASE tip = new[p]
    BY <1>1, <1>10, <1>c, <2>2 DEF Verify, Unsynced, TypeOK
  <2> QED
    BY <2>1, <2>2
<1>11. ASSUME NEW p \in Pushers, RollBack(p) PROVE Stacked' \/ Reported'
  <2>1. CASE tip # new[p]
    BY <1>11, <2>1 DEF RollBack, Reported, TypeOK
  <2>2. CASE tip = new[p]
    <3>1. /\ p \in Unsynced /\ tip' = old[p] /\ UNCHANGED <<anc, tree, index, old, new>>
          /\ Unsynced' = Unsynced \ {p}
      BY <1>11, <2>2 DEF RollBack, Unsynced, TypeOK
    <3>2. \A c : IndexIs(c)' = IndexIs(c)
      BY <3>1 DEF IndexIs
    <3>3. ASSUME NEW s \in Unsynced \ {p} PROVE new[s] \in anc[old[p]] /\ new[p] # old[s]
      <4>1. new[s] \in anc[new[p]]
        BY <1>a, <2>2
      <4> QED
        BY <1>a, <3>1, <4>1, NothingBetween
    <3>4. Unsynced' = {} => IndexIs(tip)'
      BY <1>a, <3>1 DEF Stacked, IndexIs
    <3>5. Unsynced' # {} => \E q \in Unsynced' : tip' = new'[q]
      BY <1>a, <3>1, <3>3 DEF Stacked
    <3>6. ASSUME NEW r \in Unsynced'
          PROVE  \/ \E q \in Unsynced' : new'[q] = old'[r]
                 \/ IndexIs(old[r])' /\ \A q \in Unsynced' : new'[q] \notin anc'[old'[r]]
      BY <3>1, <3>2, <3>3 DEF Stacked
    <3> QED
      BY <3>1, <3>2, <3>4, <3>5, <3>6 DEF Stacked
  <2> QED
    BY <2>1, <2>2
<1>12. CASE UNCHANGED vars
  BY <1>1, <1>12, <1>c DEF vars, Unsynced
<1> QED
  BY <1>2, <1>3, <1>4, <1>5, <1>6, <1>7, <1>8, <1>9, <1>10, <1>11, <1>12 DEF Next

LEMMA Invariance == Spec => []IInv
<1>1. Init => IInv
  BY InitAll DEF IInv
<1>2. IInv /\ [Next]_vars => IInv'
  <2> SUFFICES ASSUME IInv, [Next]_vars PROVE IInv'
    OBVIOUS
  <2>1. TypeOK' /\ AncestryInv' /\ PlanInv' /\ ChainInv' /\ WorkInv'
    BY TypeStep, HistoryStep, PlanStep, ChainStep, WorkStep DEF IInv
  <2>2. hasWorktree' = hasWorktree
    BY DEF Next, vars, UserCommit, Edit, Add, Commit, Kill, Prepare, CheckConflicts, MakeMergeCommit,
           Advance, Sync, SyncRefuses, Verify, RollBack
  <2>3. IndexInv'
    BY <2>2, ReportedStep, OvertakenStep, StackedStep DEF IInv, IndexInv
  <2> QED
    BY <2>1, <2>3 DEF IInv
<1> QED
  BY <1>1, <1>2, PTL DEF Spec

-----------------------------------------------------------------------------
(* What the runs check *)

THEOREM TypeCorrect == Spec => []TypeOK
BY Invariance, PTL DEF IInv

\* A push that reported success is in the target's history from then on, whatever other pushes
\* advance or roll back and the user commits.
THEOREM NoLandedPushLost == Spec => []LandedStays
<1>1. IInv => LandedStays
  BY DEF IInv, LandedStays, ChainInv, Ups, Advanced
<1> QED
  BY <1>1, Invariance, PTL

\* The target loses history only to a push that takes back its own advance while nothing was built
\* on it: both the advance and the rollback compare before they swap.
THEOREM NoForeignAdvanceUndone == Spec => OnlyOwnAdvanceUndone
<1> DEFINE Own == \E p \in Pushers : pc[p] = "rollback" /\ tip = new[p] /\ tip' = old[p]
<1>1. ASSUME IInv, [Next]_vars, tip \notin anc'[tip'] PROVE Own
  <2>0. Grows /\ tip \in anc'[tip] /\ tip \in anc[tip]
    BY <1>1, HistoryStep DEF IInv, Grows, AncestryInv, TypeOK
  <2>1. tip' # tip
    BY <1>1, <2>0
  <2>2. ASSUME UserCommit PROVE FALSE
    BY <1>1, <2>0, <2>2 DEF UserCommit, Make, IInv, TypeOK
  <2>3. ASSUME NEW p \in Pushers, Advance(p) PROVE FALSE
    BY <1>1, <2>1, <2>3 DEF Advance, IInv, PlanInv, Prepared
  <2>4. ASSUME NEW p \in Pushers, RollBack(p) PROVE Own
    BY <2>1, <2>4 DEF RollBack
  <2>5. ASSUME UNCHANGED tip PROVE FALSE
    BY <2>1, <2>5
  <2> QED
    BY <1>1, <2>2, <2>3, <2>4, <2>5
    DEF Next, vars, repository, Edit, Add, Commit, Kill, Prepare, CheckConflicts, MakeMergeCommit, Sync,
        SyncRefuses, Verify
<1>2. IInv /\ [Next]_vars => [tip \notin anc'[tip'] => Own]_vars
  BY <1>1
<1> QED
  BY <1>2, Invariance, PTL DEF Spec, OnlyOwnAdvanceUndone

\* The sync of the target's worktree never touches content that is in no commit: a path it updates
\* has the old tree's content in the index and in the file.
THEOREM NoUncommittedWorkLost == Spec => UncommittedKept
<1> DEFINE Kept == \A f \in Paths : /\ work[f] \in Edits
                                    /\ \A c \in Made : tree[c][f] # work[f]
                                    => work'[f] = work[f] \/ work'[f] \in Edits
<1>1. ASSUME IInv, [Next]_vars PROVE Kept
  <2> USE <1>1 DEF IInv, TypeOK, worktree
  <2>1. ASSUME NEW p \in Pushers, Sync(p) PROVE Kept
    <3>1. old[p] \in Made
      BY <2>1 DEF Sync, Step, PlanInv, Prepared
    <3>2. ASSUME NEW f \in Paths, f \in Updated(p) PROVE work[f] = tree[old[p]][f]
      BY <2>1, <3>2 DEF Sync, Updated, Mergeable
    <3> QED
      BY <2>1, <3>1, <3>2 DEF Sync
  <2>2. ASSUME NEW f \in Paths, Edit(f) PROVE Kept
    BY <2>2 DEF Edit
  <2>3. ASSUME UNCHANGED work PROVE Kept
    BY <2>3
  <2> QED
    BY <2>1, <2>2, <2>3
    DEF Next, vars, UserCommit, Add, Commit, Kill, Prepare, CheckConflicts, MakeMergeCommit, Advance,
        SyncRefuses, Verify, RollBack
<1>2. IInv /\ [Next]_vars => [Kept]_vars
  BY <1>1
<1> QED
  BY <1>2, Invariance, PTL DEF Spec, UncommittedKept

\* When all pushes are over, an index that is neither the target's nor staged by the user was
\* reported, or a push was killed.
THEOREM NoSilentDesync == Spec => []DesyncReported
<1>1. IInv => DesyncReported
  BY DEF IInv, DesyncReported, IndexInv, Overtaken, Stacked, Reported, Unsynced, IndexIs, Outcomes
<1> QED
  BY <1>1, Invariance, PTL
=============================================================================
