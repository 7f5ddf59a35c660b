--------------------------- MODULE RelocateProofs ---------------------------
(***************************************************************************)
(* Relocate for every number of branches, paths, runs and outside changes: *)
(* the passes end; and, with templates that give no two branches one path, *)
(* what is reported relocated is in place, and exactly the worktrees that  *)
(* cannot get to their place are skipped.                                  *)
(***************************************************************************)
EXTENDS Relocate, TLAPS, FiniteSetTheorems, SequenceTheorems

\* The worktree-path template gives no two branches one path.
Distinct == \A e \in Expectations : \A b, c \in Branches : e[b] = e[c] => b = c

Begun == pc \in {"pass", "add", "finalize", "done"}
InPass == pc \in {"pass", "add"}

\* Two branches share no place, and none has that of an obstacle.  What is inside something bears the
\* name of its branch, so that a worktree moved into a directory meets no other one there.
WorldInv ==
    /\ \A b, c \in Branches : at[b] = at[c] => b = c \/ at[b] = None
    /\ \A b, c \in Branches, p \in Paths \cup Staging : at[c] = <<p, b>> => b = c
    /\ Root \notin obstacles /\ \A b \in Branches : at[b] \notin obstacles

\* A run before its first pass.
Fresh ==
    /\ moved = {} /\ blocked = {} /\ relocated = {} /\ temps = <<>>
    /\ next = 1 /\ passes = 1 /\ ~progress

\* What gather_candidates found stays true of the plan: misplaced worktrees, each known by where it
\* stood until it goes to staging; the main worktree's entry is never dropped.
PlanInv ==
    /\ pc \in {"idle", "classify"} => Fresh
    /\ pc = "classify" => at = start
    /\ pc # "idle" =>
        /\ \A b, c \in Branches : start[b] = start[c] => b = c \/ start[b] = None
        /\ \A b \in Pending : start[b] \notin {expected[b], None}
        /\ \A p \in Paths : locations[p] # None => locations[p] \in Pending /\ start[locations[p]] = p
        /\ \A b \in Pending : start[b] \in Paths /\ (b \notin moved \/ start[b] = Root) => locations[start[b]] = b

\* Who has not moved is where it was, except that the main worktree changes branches.
WhereInv ==
    /\ Begun =>
        /\ \A b \in Branches \ moved :
            \/ at[b] = start[b]
            \/ pc = "add" /\ b = pending[next]
            \/ b = Default /\ start[b] = None /\ at[b] = Root
        /\ \A b \in moved : at[b] # None
        /\ pc = "add" \/ locations[Root] \in moved => Default \notin Pending
    /\ pc = "add" =>
        /\ next <= Len(pending) /\ pending[next] \notin moved \cup blocked
        /\ IsMain(pending[next]) /\ at[pending[next]] = None

\* Those moved are in place, as reported, or in staging.
StagingInv ==
    /\ \A i, j \in 1..Len(temps) : temps[i] = temps[j] => i = j
    /\ \A i \in 1..Len(temps) : temps[i] \notin relocated /\ (Begun => at[temps[i]] \notin Paths)
    /\ \A b \in moved : b \in relocated \/ \E i \in 1..Len(temps) : temps[i] = b
    /\ pc \in {"finalize", "done"} => Remaining = {}
    /\ pc = "done" => temps = <<>>

\* Who moves or blocks is counted once; a pass is repeated after one of them, or one goes to staging.
Settled == moved \cup blocked
Count == Cardinality(Settled)
PassInv ==
    /\ passes <= Count + 1
    /\ progress => passes <= Count

\* Nothing keeps b from its place but worktrees that are to move and not blocked.
Free(b) ==
    /\ expected[b] \notin obstacles
    /\ \A c \in Branches : start[c] = expected[b] => c \in Pending \ blocked
    /\ expected[b] = Root => \E c \in Branches : start[c] = Root

\* No target is taken by something unknown.
NoForeign ==
    InPass => \A b \in Remaining : Exists(expected[b]) => locations[expected[b]] # None

\* Who moved was free to, and who goes to staging leaves only such worktrees behind: what a pass
\* without progress came by waits for a worktree that is not blocked.
FreeInv ==
    /\ \A b \in moved : Free(b)
    /\ InPass /\ temps # <<>> => \A b \in Remaining : Free(b)
    /\ InPass /\ ~progress => \A i \in 1..next - 1 : pending[i] \in Remaining => Free(pending[i])

OnlyBlocked == \A X \in SUBSET Pending : Stays(X) => blocked \subseteq X

\* A run that nobody disturbs.
QuietInv == created = {} =>
    /\ pc # "idle" => \A c \in Branches : start[c] \notin obstacles
    /\ Begun => NoForeign /\ FreeInv /\ OnlyBlocked

\* The inductive invariant.
IInv == TypeOK /\ WorldInv /\ PlanInv /\ WhereInv /\ StagingInv /\ PassInv

-----------------------------------------------------------------------------
(* The steps, and the operators they use *)

\* The command ends without changing anything.
Stops ==
    /\ pc' \in {"failed", "killed"} /\ pc \notin {"idle", "done"}
    /\ UNCHANGED <<world, others, plan, locations, done, loop>>

LEMMA Steps == ASSUME TypeOK, Next
    PROVE \/ Plan \/ Classify \/ ClassifyFails \/ Repeat \/ PassesEnd \/ Finish \/ RunAgain \/ Stops
          \/ \E b \in Branches :
              \/ PassOver(b) \/ MoveLinked(b) \/ SwitchMain(b) \/ AddMain(b) \/ Block(b) \/ Wait(b)
              \/ SkipForeign(b) \/ Finalize(b) \/ Refuse(b)
          \/ \E i \in 1..Len(pending) : BreakCycle(i)
          \/ \E p \in Paths : Create(p)
<1>1. ASSUME NEW b \in Branches,
             MoveLinkedFails(b) \/ SwitchMainFails(b) \/ AddMainFails(b) \/ FinalizeFails(b)
      PROVE Stops
  BY <1>1 DEF MoveLinkedFails, SwitchMainFails, AddMainFails, FinalizeFails, Fail, Turn, Stops
<1>2. ASSUME NEW i \in 1..Len(pending), BreakCycleFails(i) PROVE Stops
  BY <1>2 DEF BreakCycleFails, Fail, PassEnds, Stops
<1>3. Kill => Stops
  BY DEF Kill, Active, Stops
<1> QED
  BY <1>1, <1>2, <1>3 DEF Next

LEMMA TwoInOneHole == ASSUME NEW n \in Nat, NEW T, IsFiniteSet(T), Cardinality(T) < n, NEW f \in [1..n -> T]
    PROVE \E i, j \in 1..n : i # j /\ f[i] = f[j]
<1>1. IsFiniteSet(1..n) /\ Cardinality(1..n) = n
  BY FS_Interval
<1>2. Cardinality(T) < Cardinality(1..n)
  BY <1>1
<1> QED
  BY <1>1, <1>2, FS_PigeonHole

\* An order of a set of branches goes through the set, through each once.
LEMMA OrdersOnto == ASSUME NEW S \in SUBSET Branches, NEW s \in Orders(S)
    PROVE /\ s \in Seq(Branches) /\ Len(s) = Cardinality(S) /\ Len(s) <= Cardinality(Branches)
          /\ {s[i] : i \in 1..Len(s)} = S
<1>1. IsFiniteSet(S) /\ Cardinality(S) \in Nat /\ Cardinality(Branches) \in Nat
      /\ Cardinality(S) <= Cardinality(Branches)
  BY RelocateAssumption, FS_Subset, FS_CardinalityType
<1>2. s \in [1..Cardinality(S) -> S] /\ \A i, j \in 1..Cardinality(S) : s[i] = s[j] => i = j
  BY DEF Orders
<1>3. s \in Seq(S) /\ Len(s) = Cardinality(S)
  BY <1>1, <1>2
<1>4. ASSUME NEW b \in S, \A i \in 1..Cardinality(S) : s[i] # b PROVE FALSE
  <2>1. IsFiniteSet(S \ {b}) /\ Cardinality(S \ {b}) = Cardinality(S) - 1
    BY <1>1, FS_RemoveElement
  <2>2. s \in [1..Cardinality(S) -> S \ {b}]
    BY <1>2, <1>4
  <2>3. \E i, j \in 1..Cardinality(S) : i # j /\ s[i] = s[j]
    BY <1>1, <2>1, <2>2, TwoInOneHole
  <2> QED
    BY <1>2, <2>3
<1>5. {s[i] : i \in 1..Len(s)} = S
  BY <1>2, <1>3, <1>4
<1> QED
  BY <1>1, <1>3, <1>5

\* git worktree move takes a worktree to a place, or into what is there.
LEMMA MovedPlace == ASSUME at \in [Branches -> Places \cup {None}], NEW b \in Branches, NEW place \in Paths \cup Staging
    PROVE Moved(b, place) \in [Branches -> Places \cup {None}]
BY DEF Moved, Places, Inside

LEMMA OnlyOneMoves == ASSUME TypeOK, NEW b \in Branches, NEW place \in Paths \cup Staging, at' = Moved(b, place)
    PROVE /\ \A c \in Branches \ {b} : at'[c] = at[c]
          /\ at'[b] = IF Exists(place) THEN <<place, b>> ELSE place
          /\ at'[b] # None
<1>1. at' = [at EXCEPT ![b] = IF Exists(place) THEN <<place, b>> ELSE place] /\ at \in [Branches -> Places \cup {None}]
  BY DEF Moved, TypeOK
<1>2. place # None /\ <<place, b>> # None
  BY RelocateAssumption DEF Places, Inside
<1> QED
  BY <1>1, <1>2

LEMMA Expected == ASSUME TypeOK
    PROVE expected \in [Branches -> Paths] /\ expected[Default] = Root
BY RelocateAssumption DEF TypeOK

\* A staging slot is none of the paths, nor is what is inside of something.
LEMMA PlacesApart == ASSUME NEW p \in Paths, NEW place \in Paths \cup Staging, NEW b \in Branches
    PROVE /\ p \notin Staging /\ p # <<place, b>> /\ None # p /\ None # place /\ None # <<place, b>>
BY RelocateAssumption DEF Places, Inside

\* Inside a staging slot is no staging slot.
LEMMA InsideApart == ASSUME NEW place \in Paths \cup Staging, NEW b \in Branches
    PROVE <<place, b>> \notin Staging
BY DEF Staging

LEMMA Slot == ASSUME TypeOK, NEW i \in 1..Len(pending)
    PROVE pending[i] \in Branches /\ pending[i] \in Pending /\ <<"staging", i, pending[i]>> \in Staging
<1>1. i \in 1..Cardinality(Branches) /\ pending[i] \in Branches
  BY RelocateAssumption, FS_CardinalityType DEF TypeOK
<1> QED
  BY <1>1 DEF Staging, Pending

-----------------------------------------------------------------------------
(* Types *)

LEMMA TypeInit == Init => TypeOK
<1> SUFFICES ASSUME Init PROVE TypeOK
  OBVIOUS
<1>1. pending \in Seq(Branches) /\ Len(pending) = 0 /\ temps \in Seq(moved)
  BY DEF Init
<1>2. Cardinality(Branches) \in Nat
  BY RelocateAssumption, FS_CardinalityType
<1>3. at \in [Branches -> Places \cup {None}] /\ start \in [Branches -> Places \cup {None}]
  BY DEF Init, Places
<1>4. expected \in Expectations /\ obstacles \subseteq Paths /\ locations \in [Paths -> Branches \cup {None}]
  BY DEF Init
<1>5. 0 \in 0..MaxChanges /\ 0 \in 0..MaxRuns - 1
  BY RelocateAssumption
<1>6. next \in 1..Len(pending) + 1 /\ passes \in Nat /\ Len(pending) <= Cardinality(Branches)
  BY <1>1, <1>2 DEF Init
<1>7. /\ moved \subseteq Pending /\ blocked \subseteq Pending /\ moved \cap blocked = {} /\ relocated \subseteq moved
      /\ created \subseteq Paths /\ refused \subseteq Branches
  BY DEF Init
<1>8. pc = "idle" /\ clobber \in BOOLEAN /\ progress \in BOOLEAN /\ changes = 0 /\ runs = 0
  BY DEF Init
<1> QED
  BY <1>1, <1>3, <1>4, <1>5, <1>6, <1>7, <1>8 DEF TypeOK

LEMMA InTurn == ASSUME TypeOK, NEW b \in Branches, Turn(b)
    PROVE next \in 1..Len(pending) /\ b \in Pending /\ b \notin moved /\ b \notin blocked
<1>1. next \in 1..Len(pending) /\ pending[next] = b
  BY LenProperties DEF TypeOK, Turn
<1> QED
  BY <1>1 DEF Turn, Pending

LEMMA SamePending == pending' = pending => Pending' = Pending
BY DEF Pending

LEMMA TypeStep == TypeOK /\ PlanInv /\ WhereInv /\ [Next]_vars => TypeOK'
<1> SUFFICES ASSUME TypeOK, PlanInv, WhereInv, [Next]_vars PROVE TypeOK'
  OBVIOUS
<1>0. /\ expected \in [Branches -> Paths] /\ None \notin Places
      /\ Cardinality(Branches) \in Nat /\ Len(pending) \in Nat
  BY Expected, RelocateAssumption, FS_CardinalityType, LenProperties DEF TypeOK
<1> USE <1>0, SamePending DEF TypeOK, world, others, plan, loop, done
<1>1. ASSUME Plan PROVE TypeOK'
  <2>1. PICK S \in SUBSET {b \in Branches : at[b] \notin {expected[b], None}} :
          /\ S # {} /\ pending' \in Orders(S)
          /\ locations' = [p \in Paths |-> IF \E b \in S : at[b] = p THEN CHOOSE b \in S : at[b] = p ELSE None]
    BY <1>1 DEF Plan
  <2>2. pending' \in Seq(Branches) /\ Len(pending') <= Cardinality(Branches)
    BY <2>1, OrdersOnto
  <2>3. locations' \in [Paths -> Branches \cup {None}]
    BY <2>1
  <2>4. Fresh
    BY <1>1 DEF Plan, PlanInv
  <2>5. next' \in 1..Len(pending') + 1
    BY <1>1, <2>2, <2>4 DEF Plan, Fresh
  <2> QED
    BY <1>1, <2>2, <2>3, <2>4, <2>5 DEF Plan, Fresh
<1>2. ASSUME Classify PROVE TypeOK'
  <2>1. blocked' \subseteq Pending /\ obstacles' \subseteq Paths
    BY <1>2 DEF Classify
  <2>2. moved = {}
    BY <1>2 DEF Classify, PlanInv, Fresh
  <2>3. temps' \in Seq(moved')
    BY <1>2 DEF Classify
  <2> QED
    BY <1>2, <2>1, <2>2, <2>3 DEF Classify
<1>3. ASSUME ClassifyFails PROVE TypeOK'
  BY <1>3 DEF ClassifyFails
<1>4. ASSUME Repeat PROVE TypeOK'
  <2>1. next' \in 1..Len(pending') + 1 /\ passes' \in Nat
    BY <1>4 DEF Repeat, NextPass
  <2>2. temps' \in Seq(moved')
    BY <1>4 DEF Repeat
  <2> QED
    BY <1>4, <2>1, <2>2 DEF Repeat, NextPass
<1>5. ASSUME PassesEnd \/ Finish PROVE TypeOK'
  BY <1>5 DEF PassesEnd, Finish
<1>6. ASSUME RunAgain PROVE TypeOK'
  <2>1. pending' \in Seq(Branches) /\ Len(pending') = 0 /\ temps' \in Seq(moved')
    BY <1>6 DEF RunAgain
  <2>2. runs' \in 0..MaxRuns - 1
    BY <1>6, RelocateAssumption DEF RunAgain
  <2>3. next' \in 1..Len(pending') + 1 /\ passes' \in Nat /\ Len(pending') <= Cardinality(Branches)
    BY <1>6, <2>1 DEF RunAgain
  <2> QED
    BY <1>6, <2>1, <2>2, <2>3 DEF RunAgain
<1>7. ASSUME Stops PROVE TypeOK'
  BY <1>7 DEF Stops
<1>8. ASSUME NEW b \in Branches, PassOver(b) \/ Wait(b) PROVE TypeOK'
  <2>1. next' \in 1..Len(pending') + 1
    BY <1>8 DEF PassOver, Wait, Turn, Advance
  <2>2. temps' \in Seq(moved')
    BY <1>8 DEF PassOver, Wait
  <2> QED
    BY <1>8, <2>1, <2>2 DEF PassOver, Wait, Turn, Advance
<1>9. ASSUME NEW b \in Branches, MoveLinked(b) PROVE TypeOK'
  <2>1. at' \in [Branches -> Places \cup {None}]
    BY <1>9, MovedPlace DEF MoveLinked
  <2>2. b \in Pending
    BY <1>9, InTurn DEF MoveLinked
  <2>3. temps' \in Seq(moved')
    BY <1>9, SeqMonotonic DEF MoveLinked
  <2> QED
    BY <1>9, <2>1, <2>2, <2>3 DEF MoveLinked, Turn, Advance
<1>10. ASSUME NEW b \in Branches, SwitchMain(b) PROVE TypeOK'
  BY <1>10, RelocateAssumption DEF SwitchMain, Places
<1>11. ASSUME NEW b \in Branches, AddMain(b) PROVE TypeOK'
  <2>1. at' \in [Branches -> Places \cup {None}]
    BY <1>11 DEF AddMain, Places
  <2>2. b \in Pending /\ b \notin blocked /\ next <= Len(pending)
    BY <1>11 DEF AddMain, WhereInv, Pending
  <2>3. temps' \in Seq(moved')
    BY <1>11, SeqMonotonic DEF AddMain
  <2> QED
    BY <1>11, <2>1, <2>2, <2>3 DEF AddMain, Advance
<1>12. ASSUME NEW b \in Branches, Block(b) \/ SkipForeign(b) PROVE TypeOK'
  <2>1. next' \in 1..Len(pending') + 1
    BY <1>12 DEF Block, SkipForeign, Turn, Advance
  <2>2. temps' \in Seq(moved')
    BY <1>12 DEF Block, SkipForeign
  <2>3. b \in Pending /\ b \notin moved
    <3>1. Turn(b)
      BY <1>12 DEF Block, SkipForeign
    <3> QED
      BY <3>1, InTurn
  <2> QED
    BY <1>12, <2>1, <2>2, <2>3 DEF Block, SkipForeign, Turn, Advance
<1>13. ASSUME NEW b \in Branches, Finalize(b) PROVE TypeOK'
  <2>1. at' \in [Branches -> Places \cup {None}]
    BY <1>13, MovedPlace DEF Finalize
  <2>2. temps' \in Seq(moved') /\ b \in moved
    BY <1>13, HeadTailProperties DEF Finalize
  <2> QED
    BY <1>13, <2>1, <2>2 DEF Finalize
<1>14. ASSUME NEW b \in Branches, Refuse(b) PROVE TypeOK'
  BY <1>14, RelocateAssumption DEF Refuse
<1>15. ASSUME NEW i \in 1..Len(pending), BreakCycle(i) PROVE TypeOK'
  <2>1. pending[i] \in Pending /\ pending[i] \notin blocked
    BY <1>15, Slot DEF BreakCycle, Chosen, Remaining
  <2>2. at' \in [Branches -> Places \cup {None}]
    BY <1>15, Slot, MovedPlace DEF BreakCycle
  <2>3. temps \in Seq(moved') /\ pending[i] \in moved'
    BY <1>15, SeqMonotonic DEF BreakCycle
  <2>4. temps' \in Seq(moved')
    BY <1>15, <2>3, AppendProperties DEF BreakCycle
  <2>5. next' \in 1..Len(pending') + 1 /\ passes' \in Nat
    BY <1>15 DEF BreakCycle, NextPass
  <2>6. locations' \in [Paths -> Branches \cup {None}]
    BY <1>15 DEF BreakCycle
  <2> QED
    BY <1>15, <2>1, <2>2, <2>4, <2>5, <2>6 DEF BreakCycle, NextPass, PassEnds
<1>16. ASSUME NEW p \in Paths, Create(p) PROVE TypeOK'
  BY <1>16, RelocateAssumption DEF Create
<1>17. CASE UNCHANGED vars
  BY <1>17 DEF vars
<1> QED
  BY <1>1, <1>2, <1>3, <1>4, <1>5, <1>6, <1>7, <1>8, <1>9, <1>10, <1>11, <1>12, <1>13, <1>14, <1>15,
     <1>16, <1>17, Steps

-----------------------------------------------------------------------------
(* The world *)

LEMMA WorldInit == Init => WorldInv
<1> SUFFICES ASSUME Init PROVE WorldInv
  OBVIOUS
<1>1. at \in [Branches -> Paths \cup {None}] /\ \A b, c \in Branches : at[b] = at[c] => b = c \/ at[b] = None
  BY DEF Init
<1>2. ASSUME NEW b \in Branches, NEW c \in Branches, NEW p \in Paths \cup Staging, at[c] = <<p, b>> PROVE FALSE
  <2>1. at[c] \in Paths \/ at[c] = None
    BY <1>1
  <2> QED
    BY <1>2, <2>1, PlacesApart, RelocateAssumption
<1>3. Root \notin obstacles /\ \A b \in Branches : at[b] \notin obstacles
  BY DEF Init
<1> QED
  BY <1>1, <1>2, <1>3 DEF WorldInv

\* A move meets nobody: what is taken it goes inside of, under its own name.
LEMMA MoveKeepsWorld == ASSUME TypeOK, WorldInv, NEW b \in Branches, NEW place \in Paths \cup Staging,
                               at' = Moved(b, place), UNCHANGED obstacles
    PROVE WorldInv'
<1>0. at \in [Branches -> Places \cup {None}] /\ obstacles \subseteq Paths
  BY DEF TypeOK
<1>1. \A c \in Branches \ {b} : at'[c] = at[c]
  BY OnlyOneMoves
<1>2. CASE Exists(place)
  <2>1. at'[b] = <<place, b>>
    BY <1>2, OnlyOneMoves
  <2>2. \A c \in Branches \ {b} : at[c] # <<place, b>>
    BY DEF WorldInv
  <2>3. \A c, d \in Branches : at'[c] = at'[d] => c = d \/ at'[c] = None
    BY <1>1, <2>1, <2>2 DEF WorldInv
  <2>4. \A c, d \in Branches, p \in Paths \cup Staging : at'[d] = <<p, c>> => c = d
    BY <1>1, <2>1 DEF WorldInv
  <2>5. <<place, b>> \notin obstacles
    BY <1>0, PlacesApart
  <2> QED
    BY <1>1, <2>1, <2>3, <2>4, <2>5 DEF WorldInv
<1>3. CASE ~Exists(place)
  <2>1. at'[b] = place
    BY <1>3, OnlyOneMoves
  <2>2. place \notin obstacles /\ \A c \in Branches : at[c] # place
    BY <1>3 DEF Exists, Occupied
  <2>3. \A c, d \in Branches : at'[c] = at'[d] => c = d \/ at'[c] = None
    BY <1>1, <2>1, <2>2 DEF WorldInv
  <2>4. \A c \in Branches, p \in Paths \cup Staging : place # <<p, c>>
    BY PlacesApart, InsideApart
  <2>5. \A c, d \in Branches, p \in Paths \cup Staging : at'[d] = <<p, c>> => c = d
    BY <1>1, <2>1, <2>4 DEF WorldInv
  <2> QED
    BY <1>1, <2>1, <2>2, <2>3, <2>5 DEF WorldInv
<1> QED
  BY <1>2, <1>3

\* A main worktree that has not moved is where it always is.
LEMMA MainAtRoot == ASSUME TypeOK, PlanInv, WhereInv, NEW b \in Branches, pc = "pass", b \in Pending, b \notin moved, IsMain(b)
    PROVE at[b] = Root /\ start[b] = Root /\ b # Default
<1>1. start[b] = Root
  BY RelocateAssumption DEF PlanInv, IsMain
<1>2. b # Default
  BY <1>1, Expected DEF PlanInv
<1> QED
  BY <1>1, <1>2 DEF WhereInv, Begun

LEMMA WorldStep == TypeOK /\ WorldInv /\ PlanInv /\ WhereInv /\ [Next]_vars => WorldInv'
<1> SUFFICES ASSUME TypeOK, WorldInv, PlanInv, WhereInv, [Next]_vars PROVE WorldInv'
  OBVIOUS
<1>0. expected \in [Branches -> Paths] /\ at \in [Branches -> Places \cup {None}] /\ obstacles \subseteq Paths
  BY Expected DEF TypeOK
<1> USE DEF world
<1>1. CASE UNCHANGED <<at, obstacles>>
  BY <1>1 DEF WorldInv
<1>2. CASE UNCHANGED at /\ obstacles' \subseteq obstacles
  BY <1>2 DEF WorldInv
<1>3. ASSUME NEW b \in Branches, MoveLinked(b) PROVE WorldInv'
  BY <1>0, <1>3, MoveKeepsWorld DEF MoveLinked
<1>4. ASSUME NEW b \in Branches, SwitchMain(b) PROVE WorldInv'
  <2>1. at[b] = Root /\ b # Default
    BY <1>4, InTurn, MainAtRoot DEF SwitchMain, Turn
  <2>2. at' = [at EXCEPT ![b] = None, ![Default] = Root] /\ obstacles' = obstacles
    BY <1>4 DEF SwitchMain
  <2>3. at'[Default] = Root /\ at'[b] = None /\ \A c \in Branches \ {b, Default} : at'[c] = at[c] /\ at[c] # Root
    BY <1>0, <2>1, <2>2, RelocateAssumption, PlacesApart DEF WorldInv
  <2>4. \A c, d \in Branches : at'[c] = at'[d] => c = d \/ at'[c] = None
    BY <2>3, RelocateAssumption DEF WorldInv
  <2>5. \A c \in Branches, p \in Paths \cup Staging : Root # <<p, c>> /\ None # <<p, c>>
    BY PlacesApart, RelocateAssumption
  <2>6. \A c, d \in Branches, p \in Paths \cup Staging : at'[d] = <<p, c>> => c = d
    BY <2>3, <2>5 DEF WorldInv
  <2>7. None \notin obstacles
    BY <1>0, RelocateAssumption DEF Places
  <2>8. \A c \in Branches : at'[c] \notin obstacles
    BY <2>3, <2>7 DEF WorldInv
  <2> QED
    BY <2>2, <2>4, <2>6, <2>8 DEF WorldInv
<1>5. ASSUME NEW b \in Branches, AddMain(b) PROVE WorldInv'
  BY <1>0, <1>5, MoveKeepsWorld DEF AddMain, Moved
<1>6. ASSUME NEW b \in Branches, Finalize(b) PROVE WorldInv'
  BY <1>0, <1>6, MoveKeepsWorld DEF Finalize
<1>7. ASSUME NEW i \in 1..Len(pending), BreakCycle(i) PROVE WorldInv'
  BY <1>7, Slot, MoveKeepsWorld DEF BreakCycle
<1>8. ASSUME NEW p \in Paths, Create(p) PROVE WorldInv'
  BY <1>8 DEF Create, Exists, Occupied, WorldInv
<1> QED
  <2>1. Plan \/ Repeat \/ PassesEnd \/ Finish \/ RunAgain \/ Stops => UNCHANGED <<at, obstacles>>
    BY DEF Plan, Repeat, PassesEnd, Finish, RunAgain, Stops
  <2>2. Classify \/ ClassifyFails => UNCHANGED at /\ obstacles' \subseteq obstacles
    BY DEF Classify, ClassifyFails
  <2>3. \A b \in Branches : PassOver(b) \/ Wait(b) \/ Block(b) \/ SkipForeign(b) \/ Refuse(b) => UNCHANGED <<at, obstacles>>
    BY DEF PassOver, Wait, Block, SkipForeign, Refuse
  <2>4. UNCHANGED vars => UNCHANGED <<at, obstacles>>
    BY DEF vars
  <2> QED
    BY <1>1, <1>2, <1>3, <1>4, <1>5, <1>6, <1>7, <1>8, <2>1, <2>2, <2>3, <2>4, Steps

-----------------------------------------------------------------------------
(* The plan *)

LEMMA PlanInit == Init => PlanInv
BY DEF Init, PlanInv, Fresh

LEMMA PlanStep == TypeOK /\ WorldInv /\ PlanInv /\ [Next]_vars => PlanInv'
<1> SUFFICES ASSUME TypeOK, WorldInv, PlanInv, [Next]_vars PROVE PlanInv'
  OBVIOUS
<1> USE SamePending DEF world, others, plan, loop, done
<1>1. ASSUME Plan PROVE PlanInv'
  <2>1. PICK S \in SUBSET {b \in Branches : at[b] \notin {expected[b], None}} :
          /\ S # {} /\ pending' \in Orders(S)
          /\ locations' = [p \in Paths |-> IF \E b \in S : at[b] = p THEN CHOOSE b \in S : at[b] = p ELSE None]
    BY <1>1 DEF Plan
  <2>2. Pending' = S
    BY <2>1, OrdersOnto DEF Pending
  <2>3. start' = at /\ at' = at /\ expected' = expected /\ pc' = "classify"
    BY <1>1 DEF Plan
  <2>4. Fresh'
    BY <1>1 DEF Plan, PlanInv, Fresh
  <2>5. ASSUME NEW p \in Paths, NEW b \in S, at[b] = p PROVE locations'[p] = b
    <3>1. \A c \in S : at[c] = p => c = b
      BY <2>5, PlacesApart DEF WorldInv
    <3> QED
      BY <2>1, <2>5, <3>1
  <2>6. ASSUME NEW p \in Paths, locations'[p] # None PROVE locations'[p] \in S /\ at[locations'[p]] = p
    BY <2>1, <2>6
  <2>7. \A b, c \in Branches : at[b] = at[c] => b = c \/ at[b] = None
    BY DEF WorldInv
  <2>8. \A b \in S : at[b] \notin {expected[b], None}
    BY <2>1
  <2> QED
    BY <2>2, <2>3, <2>4, <2>5, <2>6, <2>7, <2>8 DEF PlanInv
<1>2. ASSUME UNCHANGED <<expected, pending, start, locations>>, moved \subseteq moved',
             pc # "idle", pc' \notin {"idle", "classify"}
      PROVE PlanInv'
  BY <1>2 DEF PlanInv
<1>3. ASSUME UNCHANGED <<expected, at, pc, pending, start, locations, moved, blocked, temps, relocated, next, progress, passes>>
      PROVE PlanInv'
  BY <1>3 DEF PlanInv, Fresh
<1>4. ASSUME RunAgain PROVE PlanInv'
  BY <1>4 DEF RunAgain, PlanInv, Fresh
<1>5. ASSUME NEW i \in 1..Len(pending), BreakCycle(i) PROVE PlanInv'
  <2> DEFINE b == pending[i]
  <2>1. /\ pc = "pass" /\ pc' = pc /\ UNCHANGED <<expected, pending, start>> /\ moved' = moved \cup {b}
        /\ b \in Pending /\ b \in Branches /\ b \notin moved /\ locations[Root] # b
        /\ locations' = [p \in Paths |-> IF locations[p] = b THEN None ELSE locations[p]]
    BY <1>5, Slot DEF BreakCycle, PassEnds, Chosen, Remaining, IsMain
  <2> HIDE DEF b
  <2>2. \A p \in Paths : locations'[p] # None => locations'[p] = locations[p]
    BY <2>1
  <2>3. ASSUME NEW c \in Pending, start[c] \in Paths, c \notin moved' \/ start[c] = Root
        PROVE locations'[start[c]] = c
    <3>1. locations[start[c]] = c
      BY <2>1, <2>3 DEF PlanInv
    <3>2. c # b
      BY <2>1, <2>3, <3>1
    <3> QED
      BY <2>1, <2>3, <3>1, <3>2
  <2> QED
    BY <2>1, <2>2, <2>3 DEF PlanInv
<1> QED
  <2>1. \/ Classify \/ ClassifyFails \/ Repeat \/ PassesEnd \/ Finish \/ Stops
        \/ \E b \in Branches :
            \/ PassOver(b) \/ Wait(b) \/ MoveLinked(b) \/ SwitchMain(b) \/ AddMain(b) \/ Block(b) \/ SkipForeign(b)
            \/ Finalize(b)
        => /\ UNCHANGED <<expected, pending, start, locations>> /\ moved \subseteq moved'
           /\ pc # "idle" /\ pc' \notin {"idle", "classify"}
    BY DEF Classify, ClassifyFails, Repeat, NextPass, PassesEnd, Finish, Stops, PassEnds, PassOver, Wait, MoveLinked,
           SwitchMain, AddMain, Block, SkipForeign, Finalize, Turn, Advance
  <2>2. \/ UNCHANGED vars \/ (\E b \in Branches : Refuse(b)) \/ (\E p \in Paths : Create(p))
        => UNCHANGED <<expected, at, pc, pending, start, locations, moved, blocked, temps, relocated, next, progress, passes>>
    BY DEF vars, Refuse, Create
  <2> QED
    BY <1>1, <1>2, <1>3, <1>4, <1>5, <2>1, <2>2, Steps

-----------------------------------------------------------------------------
(* Who is where *)

LEMMA WhereInit == Init => WhereInv
BY DEF Init, WhereInv, Begun

LEMMA WhereStep == TypeOK /\ PlanInv /\ WhereInv /\ [Next]_vars => WhereInv'
<1> SUFFICES ASSUME TypeOK, PlanInv, WhereInv, [Next]_vars PROVE WhereInv'
  OBVIOUS
<1>0. /\ expected \in [Branches -> Paths] /\ at \in [Branches -> Places \cup {None}]
      /\ moved \subseteq Branches /\ locations \in [Paths -> Branches \cup {None}] /\ None \notin Branches \cup Places
  BY Expected, RelocateAssumption DEF TypeOK, Pending
<1> USE SamePending DEF world, others, plan, loop, done
<1>1. ASSUME pc' \notin {"pass", "add", "finalize", "done"} PROVE WhereInv'
  BY <1>1 DEF WhereInv, Begun
<1>2. ASSUME Classify PROVE WhereInv'
  <2>1. moved' = {} /\ at' = start' /\ pc' = "pass"
    BY <1>2 DEF Classify, PlanInv, Fresh
  <2> QED
    BY <2>1 DEF WhereInv, Begun
<1>3. ASSUME UNCHANGED <<at, start, moved, locations, pending>>, Begun, pc # "add", pc' # "add" PROVE WhereInv'
  BY <1>3 DEF WhereInv
<1>4. ASSUME UNCHANGED <<at, pc, pending, start, locations, moved, blocked, next>> PROVE WhereInv'
  BY <1>4 DEF WhereInv, Begun, IsMain
<1>5. ASSUME NEW b \in Branches, MoveLinked(b) PROVE WhereInv'
  <2>1. pc = "pass" /\ pc' = pc /\ UNCHANGED <<pending, start, locations>> /\ moved' = moved \cup {b} /\ locations[Root] # b
    BY <1>5 DEF MoveLinked, Turn, IsMain
  <2>2. at'[b] # None /\ \A c \in Branches \ {b} : at'[c] = at[c]
    BY <1>0, <1>5, OnlyOneMoves DEF MoveLinked
  <2> QED
    BY <1>0, <2>1, <2>2 DEF WhereInv, Begun
<1>6. ASSUME NEW b \in Branches, SwitchMain(b) PROVE WhereInv'
  <2>1. /\ pc = "pass" /\ pc' = "add" /\ UNCHANGED <<pending, start, locations, moved, blocked, next>>
        /\ IsMain(b) /\ at[Default] = None /\ at' = [at EXCEPT ![b] = None, ![Default] = Root]
        /\ pending[next] = b /\ next <= Len(pending)
    BY <1>6 DEF SwitchMain, Turn
  <2>2. b \in Pending /\ b \notin moved /\ b \notin blocked /\ b # Default
    BY <1>6, <2>1, InTurn, MainAtRoot DEF SwitchMain
  <2>3. Default \notin moved /\ start[Default] = None
    BY <2>1, RelocateAssumption DEF WhereInv, Begun
  <2>4. Default \notin Pending
    BY <2>1, <2>3 DEF PlanInv
  <2>5. at'[b] = None /\ at'[Default] = Root /\ \A c \in Branches \ {b, Default} : at'[c] = at[c]
    BY <1>0, <2>1, <2>2, RelocateAssumption
  <2> QED
    BY <1>0, <2>1, <2>2, <2>3, <2>4, <2>5 DEF WhereInv, Begun, IsMain
<1>7. ASSUME NEW b \in Branches, AddMain(b) PROVE WhereInv'
  <2>1. /\ pc = "add" /\ pc' = "pass" /\ UNCHANGED <<pending, start, locations>> /\ moved' = moved \cup {b}
        /\ pending[next] = b /\ at' = [at EXCEPT ![b] = expected[b]]
    BY <1>7 DEF AddMain
  <2>2. at'[b] # None /\ \A c \in Branches \ {b} : at'[c] = at[c]
    BY <1>0, <2>1 DEF Places
  <2> QED
    BY <1>0, <2>1, <2>2 DEF WhereInv, Begun
<1>8. ASSUME NEW b \in Branches, Finalize(b) PROVE WhereInv'
  <2>1. pc = "finalize" /\ pc' = pc /\ UNCHANGED <<pending, start, locations, moved>> /\ b \in moved
    BY <1>8, HeadTailProperties DEF Finalize, TypeOK
  <2>2. at'[b] # None /\ \A c \in Branches \ {b} : at'[c] = at[c]
    BY <1>0, <1>8, OnlyOneMoves DEF Finalize
  <2> QED
    BY <1>0, <2>1, <2>2 DEF WhereInv, Begun
<1>9. ASSUME NEW i \in 1..Len(pending), BreakCycle(i) PROVE WhereInv'
  <2> DEFINE b == pending[i]
  <2>1. /\ pc = "pass" /\ pc' = pc /\ UNCHANGED <<pending, start>> /\ moved' = moved \cup {b}
        /\ b \in Branches /\ locations[Root] # b /\ locations'[Root] = locations[Root]
    BY <1>0, <1>9, Slot, RelocateAssumption DEF BreakCycle, PassEnds, IsMain
  <2>2. at'[b] # None /\ \A c \in Branches \ {b} : at'[c] = at[c]
    BY <1>9, Slot, OnlyOneMoves DEF BreakCycle
  <2> QED
    BY <1>0, <2>1, <2>2 DEF WhereInv, Begun
<1> QED
  <2>1. Plan \/ ClassifyFails \/ Stops \/ RunAgain => pc' \notin {"pass", "add", "finalize", "done"}
    BY DEF Plan, ClassifyFails, Stops, RunAgain
  <2>2. \/ Repeat \/ PassesEnd \/ Finish
        \/ \E b \in Branches : PassOver(b) \/ Wait(b) \/ Block(b) \/ SkipForeign(b)
        => UNCHANGED <<at, start, moved, locations, pending>> /\ Begun /\ pc # "add" /\ pc' # "add"
    BY DEF Repeat, PassesEnd, Finish, PassEnds, PassOver, Wait, Block, SkipForeign, Turn, Begun
  <2>3. \/ UNCHANGED vars \/ (\E b \in Branches : Refuse(b)) \/ (\E p \in Paths : Create(p))
        => UNCHANGED <<at, pc, pending, start, locations, moved, blocked, next>>
    BY DEF vars, Refuse, Create
  <2> QED
    BY <1>1, <1>2, <1>3, <1>4, <1>5, <1>6, <1>7, <1>8, <1>9, <2>1, <2>2, <2>3, Steps

-----------------------------------------------------------------------------
(* Staging *)

LEMMA StagingInit == Init => StagingInv
BY DEF Init, StagingInv, Remaining

LEMMA StagingStep == TypeOK /\ PlanInv /\ WhereInv /\ StagingInv /\ [Next]_vars => StagingInv'
<1> SUFFICES ASSUME TypeOK, PlanInv, WhereInv, StagingInv, [Next]_vars PROVE StagingInv'
  OBVIOUS
<1>0. /\ temps \in Seq(moved) /\ Len(temps) \in Nat /\ \A i \in 1..Len(temps) : temps[i] \in moved
      /\ moved \subseteq Branches /\ relocated \subseteq moved /\ at \in [Branches -> Places \cup {None}]
  BY LenProperties, ElementOfSeq DEF TypeOK, Pending
<1> USE SamePending DEF world, others, plan, loop, done
<1>1. ASSUME UNCHANGED <<temps, relocated, moved>>, pc' \notin {"finalize", "done"}, Begun' => temps = <<>> \/ (Begun /\ UNCHANGED at)
      PROVE StagingInv'
  BY <1>0, <1>1 DEF StagingInv
<1>2. ASSUME PassesEnd \/ Finish PROVE StagingInv'
  <2>1. UNCHANGED <<at, temps, relocated, moved, blocked, pending>> /\ Begun /\ (pc = "finalize" \/ Remaining = {})
    BY <1>2 DEF PassesEnd, Finish, PassEnds, Begun
  <2>2. pc' = "finalize" \/ (pc' = "done" /\ temps = <<>>)
    <3>1. PassesEnd => pc' = "finalize"
      BY DEF PassesEnd
    <3>2. Finish => pc' = "done" /\ temps = <<>>
      BY DEF Finish
    <3> QED
      BY <1>2, <3>1, <3>2
  <2>3. Remaining' = Remaining
    BY <2>1 DEF Remaining
  <2> QED
    BY <2>1, <2>2, <2>3 DEF StagingInv
<1>3. ASSUME UNCHANGED <<at, pc, temps, relocated, moved, blocked, pending>> PROVE StagingInv'
  BY <1>3 DEF StagingInv, Begun, Remaining
<1>4. ASSUME RunAgain PROVE StagingInv'
  BY <1>4 DEF RunAgain, StagingInv, Begun
<1>5. ASSUME NEW b \in Branches, MoveLinked(b) \/ AddMain(b) PROVE StagingInv'
  <2>1. /\ Begun /\ pc' = "pass" /\ UNCHANGED temps /\ moved' = moved \cup {b} /\ relocated' = relocated \cup {b}
        /\ b \notin moved
    BY <1>5 DEF MoveLinked, AddMain, Turn, Begun, WhereInv
  <2>2. \A c \in Branches \ {b} : at'[c] = at[c]
    <3>1. CASE MoveLinked(b)
      BY <3>1, Expected, OnlyOneMoves DEF MoveLinked
    <3>2. CASE AddMain(b)
      BY <1>0, <3>2 DEF AddMain
    <3> QED
      BY <1>5, <3>1, <3>2
  <2> QED
    BY <1>0, <2>1, <2>2 DEF StagingInv
<1>6. ASSUME NEW b \in Branches, SwitchMain(b) PROVE StagingInv'
  <2>1. /\ Begun /\ pc' = "add" /\ UNCHANGED <<temps, moved, relocated>> /\ at[Default] = None /\ b \notin moved
        /\ at' = [at EXCEPT ![b] = None, ![Default] = Root]
    BY <1>6 DEF SwitchMain, Turn, Begun
  <2>2. \A c \in moved : at'[c] = at[c]
    BY <1>0, <2>1, RelocateAssumption DEF WhereInv
  <2> QED
    BY <1>0, <2>1, <2>2 DEF StagingInv
<1>7. ASSUME NEW b \in Branches, Finalize(b) PROVE StagingInv'
  <2>1. /\ pc = "finalize" /\ pc' = pc /\ UNCHANGED <<moved, blocked, pending>> /\ temps # <<>> /\ temps' = Tail(temps)
        /\ b = temps[1] /\ relocated' = relocated \cup {b}
    BY <1>7 DEF Finalize
  <2>2. Len(temps) \in Nat \ {0} /\ Len(temps') = Len(temps) - 1 /\ \A i \in 1..Len(temps') : temps'[i] = temps[i + 1]
    BY <1>0, <2>1, HeadTailProperties, EmptySeq
  <2>3. \A c \in Branches \ {b} : at'[c] = at[c]
    BY <1>7, Expected, OnlyOneMoves DEF Finalize
  <2>4. \A i \in 1..Len(temps') : i + 1 \in 1..Len(temps) /\ temps[i + 1] # b
    BY <2>1, <2>2 DEF StagingInv
  <2>5. \A i, j \in 1..Len(temps') : temps'[i] = temps'[j] => i = j
    BY <2>2, <2>4 DEF StagingInv
  <2>6. \A i \in 1..Len(temps') : temps'[i] \notin relocated' /\ at'[temps'[i]] \notin Paths
    BY <1>0, <2>1, <2>2, <2>3, <2>4 DEF StagingInv, Begun
  <2>7. ASSUME NEW c \in moved PROVE c \in relocated' \/ \E i \in 1..Len(temps') : temps'[i] = c
    <3>1. CASE c \in relocated
      BY <2>1, <3>1
    <3>2. ASSUME NEW i \in 1..Len(temps), temps[i] = c, i # 1 PROVE \E j \in 1..Len(temps') : temps'[j] = c
      <4>1. i - 1 \in 1..Len(temps') /\ temps'[i - 1] = c
        BY <2>2, <3>2
      <4> QED
        BY <4>1
    <3> QED
      BY <2>1, <3>1, <3>2 DEF StagingInv
  <2>8. Remaining' = {}
    BY <2>1 DEF StagingInv, Remaining
  <2> QED
    BY <2>1, <2>5, <2>6, <2>7, <2>8 DEF StagingInv
<1>8. ASSUME NEW i \in 1..Len(pending), BreakCycle(i) PROVE StagingInv'
  <2> DEFINE b == pending[i]
  <2>1. /\ Begun /\ pc' = "pass" /\ temps' = Append(temps, b) /\ moved' = moved \cup {b} /\ UNCHANGED relocated
        /\ b \in Branches /\ b \notin moved
    BY <1>8, Slot DEF BreakCycle, PassEnds, Chosen, Remaining, Begun
  <2>2. at'[b] \notin Paths /\ \A c \in Branches \ {b} : at'[c] = at[c]
    <3> DEFINE slot == <<"staging", i, b>>
    <3>1. at' = Moved(b, slot) /\ slot \in Staging /\ b \in Branches
      BY <1>8, Slot DEF BreakCycle
    <3> HIDE DEF slot, b
    <3>2. (at'[b] = <<slot, b>> \/ at'[b] = slot) /\ \A c \in Branches \ {b} : at'[c] = at[c]
      BY <3>1, OnlyOneMoves
    <3>3. slot \notin Paths /\ <<slot, b>> \notin Paths
      BY <3>1, PlacesApart
    <3> QED
      BY <3>2, <3>3
  <2> HIDE DEF b
  <2>3. temps \in Seq(Branches)
    BY <1>0, SeqMonotonic
  <2>4. /\ Len(temps') = Len(temps) + 1 /\ temps'[Len(temps) + 1] = b
        /\ \A j \in 1..Len(temps) : temps'[j] = temps[j]
    BY <2>1, <2>3, AppendProperties
  <2>5. \A j \in 1..Len(temps') : j \in 1..Len(temps) \/ j = Len(temps) + 1
    BY <1>0, <2>4
  <2>6. \A j, k \in 1..Len(temps') : temps'[j] = temps'[k] => j = k
    BY <1>0, <2>1, <2>4, <2>5 DEF StagingInv
  <2>7. \A j \in 1..Len(temps') : temps'[j] \notin relocated' /\ at'[temps'[j]] \notin Paths
    BY <1>0, <2>1, <2>2, <2>4, <2>5 DEF StagingInv
  <2>8. \A c \in moved' : c \in relocated' \/ \E j \in 1..Len(temps') : temps'[j] = c
    <3>1. Len(temps) + 1 \in 1..Len(temps') /\ \A j \in 1..Len(temps) : j \in 1..Len(temps')
      BY <1>0, <2>4
    <3> QED
      BY <2>1, <2>4, <3>1 DEF StagingInv
  <2> QED
    BY <2>1, <2>6, <2>7, <2>8 DEF StagingInv
<1> QED
  <2>1. \/ Plan \/ Classify \/ ClassifyFails \/ Repeat \/ Stops
        \/ \E b \in Branches : PassOver(b) \/ Wait(b) \/ Block(b) \/ SkipForeign(b)
        => /\ UNCHANGED <<temps, relocated, moved>> /\ pc' \notin {"finalize", "done"}
           /\ Begun' => temps = <<>> \/ (Begun /\ UNCHANGED at)
    BY DEF Plan, Classify, ClassifyFails, Repeat, Stops, PassEnds, PassOver, Wait, Block, SkipForeign, Turn, Begun,
           PlanInv, Fresh
  <2>2. \/ UNCHANGED vars \/ (\E b \in Branches : Refuse(b)) \/ (\E p \in Paths : Create(p))
        => UNCHANGED <<at, pc, temps, relocated, moved, blocked, pending>>
    BY DEF vars, Refuse, Create
  <2> QED
    BY <1>1, <1>2, <1>3, <1>4, <1>5, <1>6, <1>7, <1>8, <2>1, <2>2, Steps

-----------------------------------------------------------------------------
(* The passes are counted *)

LEMMA Counted == ASSUME NEW S \in SUBSET Branches
    PROVE IsFiniteSet(S) /\ Cardinality(S) \in Nat
BY RelocateAssumption, FS_Subset, FS_CardinalityType

LEMMA SeqRange == ASSUME NEW s \in Seq(Branches)
    PROVE {s[i] : i \in 1..Len(s)} \subseteq Branches
BY LenProperties, ElementOfSeq

LEMMA SettledBranches == TypeOK => Settled \in SUBSET Branches
BY SeqRange DEF TypeOK, Settled, Pending

LEMMA PassInit == Init => PassInv
<1> SUFFICES ASSUME Init PROVE PassInv
  OBVIOUS
<1>1. Settled = {} /\ passes = 1 /\ progress = FALSE
  BY DEF Init, Settled
<1> QED
  BY <1>1, FS_EmptySet DEF PassInv, Count

\* One more is settled.
LEMMA OneMore == ASSUME TypeOK, NEW b, b \notin Settled, Settled' = Settled \cup {b}
    PROVE Count' = Count + 1
BY SettledBranches, Counted, FS_AddElement DEF Count

LEMMA PassStep == TypeOK /\ TypeOK' /\ PlanInv /\ WhereInv /\ PassInv /\ [Next]_vars => PassInv'
<1> SUFFICES ASSUME TypeOK, TypeOK', PlanInv, WhereInv, PassInv, [Next]_vars PROVE PassInv'
  OBVIOUS
<1>0. Count \in Nat /\ passes \in Nat /\ passes <= Count + 1 /\ (progress => passes <= Count)
  BY SettledBranches, Counted DEF TypeOK, PassInv, Count
<1>a. Settled' \in SUBSET Branches
  <2>1. moved' \subseteq Pending' /\ blocked' \subseteq Pending'
    BY DEF TypeOK
  <2>2. Pending' \subseteq Branches
    BY SeqRange DEF TypeOK, Pending
  <2> QED
    BY <2>1, <2>2 DEF Settled
<1>b. Count' \in Nat /\ passes' \in Nat
  BY <1>a, Counted DEF TypeOK, Count
<1>c. passes' <= Count' + 1 /\ (progress' => passes' <= Count') => PassInv'
  BY DEF PassInv
<1> USE DEF loop, done
<1>1. ASSUME UNCHANGED <<moved, blocked, progress, passes>> PROVE PassInv'
  <2>1. Count' = Count
    BY <1>1 DEF Count, Settled
  <2> QED
    BY <1>0, <1>1, <1>c, <2>1
<1>2. ASSUME Classify \/ RunAgain PROVE PassInv'
  <2>1. passes' = 1
    BY <1>2 DEF Classify, RunAgain, PlanInv, Fresh
  <2>2. ~progress'
    BY <1>2 DEF Classify, RunAgain, PlanInv, Fresh
  <2>3. passes' <= Count' + 1
    <3>1. \A k \in Nat : 1 <= k + 1
      OBVIOUS
    <3> QED
      BY <1>b, <2>1, <3>1, Zenon
  <2> QED
    BY <1>c, <2>2, <2>3
<1>3. ASSUME Repeat PROVE PassInv'
  <2>1. passes' = passes + 1 /\ progress /\ ~progress'
    BY <1>3 DEF Repeat, NextPass
  <2>2. Count' = Count
    BY <1>3 DEF Repeat, Count, Settled
  <2> QED
    BY <1>0, <1>b, <1>c, <2>1, <2>2
<1>4. ASSUME NEW b \in Branches, MoveLinked(b) \/ AddMain(b) \/ Block(b) \/ SkipForeign(b) PROVE PassInv'
  <2>1. b \notin Settled /\ Settled' = Settled \cup {b} /\ passes' = passes
    BY <1>4 DEF MoveLinked, AddMain, Block, SkipForeign, Turn, Advance, WhereInv, Settled
  <2>2. Count' = Count + 1
    BY <2>1, OneMore
  <2> QED
    BY <1>0, <1>b, <1>c, <2>1, <2>2
<1>5. ASSUME NEW b \in Branches, PassOver(b) \/ Wait(b) PROVE PassInv'
  <2>1. UNCHANGED <<moved, blocked, passes>> /\ (progress' => progress)
    BY <1>5 DEF PassOver, Wait, Advance
  <2>2. Count' = Count
    BY <2>1 DEF Count, Settled
  <2> QED
    BY <1>0, <1>b, <1>c, <2>1, <2>2
<1>6. ASSUME NEW i \in 1..Len(pending), BreakCycle(i) PROVE PassInv'
  <2>1. pending[i] \notin Settled /\ Settled' = Settled \cup {pending[i]} /\ passes' = passes + 1 /\ ~progress'
    BY <1>6 DEF BreakCycle, Chosen, Remaining, NextPass, Settled
  <2>2. Count' = Count + 1
    BY <2>1, OneMore
  <2> QED
    BY <1>0, <1>b, <1>c, <2>1, <2>2
<1> QED
  <2>1. \/ Plan \/ ClassifyFails \/ PassesEnd \/ Finish \/ Stops \/ UNCHANGED vars
        \/ (\E b \in Branches : SwitchMain(b) \/ Finalize(b) \/ Refuse(b)) \/ (\E p \in Paths : Create(p))
        => UNCHANGED <<moved, blocked, progress, passes>>
    BY DEF Plan, ClassifyFails, PassesEnd, Finish, Stops, vars, SwitchMain, Finalize, Refuse, Create
  <2> QED
    BY <1>1, <1>2, <1>3, <1>4, <1>5, <1>6, <2>1, Steps

\* Those settled are among the pending.
LEMMA FewPasses == ASSUME TypeOK, PassInv PROVE PassesAreFew
<1>0. Len(pending) \in Nat
  BY LenProperties DEF TypeOK
<1>1. IsFiniteSet(1..Len(pending)) /\ Cardinality(1..Len(pending)) = Len(pending)
  <2>1. 1 \in Int /\ Len(pending) \in Int
    BY <1>0
  <2>2. /\ IsFiniteSet(1..Len(pending))
        /\ Cardinality(1..Len(pending)) = IF 1 > Len(pending) THEN 0 ELSE Len(pending) - 1 + 1
    BY <2>1, FS_Interval, Zenon
  <2> QED
    BY <1>0, <2>2
<1>2. [i \in 1..Len(pending) |-> pending[i]] \in Surjection(1..Len(pending), Pending)
  BY DEF Surjection, Pending
<1>3. IsFiniteSet(Pending) /\ Cardinality(Pending) <= Len(pending) /\ Cardinality(Pending) \in Nat
  BY <1>0, <1>1, <1>2, FS_Surjection, FS_CardinalityType
<1>4. Settled \subseteq Pending
  BY DEF TypeOK, Settled
<1>5. Cardinality(Settled) <= Cardinality(Pending)
  BY <1>3, <1>4, FS_Subset
<1>6. Cardinality(Settled) \in Nat /\ passes \in Nat /\ passes <= Cardinality(Settled) + 1
  BY SettledBranches, Counted DEF PassInv, TypeOK, Count
<1> QED
  BY <1>0, <1>3, <1>5, <1>6 DEF PassesAreFew

-----------------------------------------------------------------------------
(* A run that nobody disturbs *)

\* The state of such a run.
Calm == IInv /\ QuietInv /\ RelocatedIsThere /\ created = {}

LEMMA CalmFacts == ASSUME Calm
    PROVE /\ expected \in [Branches -> Paths] /\ expected[Default] = Root /\ at \in [Branches -> Places \cup {None}]
          /\ obstacles \subseteq Paths /\ Pending \subseteq Branches /\ moved \subseteq Pending /\ blocked \subseteq Pending
          /\ moved \cap blocked = {} /\ relocated \subseteq moved /\ Default \in Branches /\ Root \in Paths
          /\ None \notin Branches \cup Places /\ None \notin Paths
          /\ next \in Nat /\ Len(pending) \in Nat
BY Expected, SeqRange, LenProperties, RelocateAssumption, SMTT(30) DEF Calm, IInv, TypeOK, Pending, Places

LEMMA OnlyDefaultAtRoot == ASSUME Distinct, Calm, NEW b \in Branches, expected[b] = Root PROVE b = Default
BY CalmFacts DEF Distinct, Calm, IInv, TypeOK

\* A path that is no obstacle, and that only those who moved have left, is vacant for its branch.
LEMMA Vacant ==
    ASSUME Distinct, Calm, Begun, pc # "add", NEW b \in Branches, b \notin relocated,
           expected[b] # Root, expected[b] \notin obstacles,
           \A c \in Branches : start[c] = expected[b] => c \in moved
    PROVE  ~Exists(expected[b])
<1> SUFFICES ASSUME NEW d \in Branches, at[d] = expected[b] PROVE FALSE
  BY DEF Exists, Occupied
<1>0. expected[b] \in Paths
  BY CalmFacts
<1>1. d \in moved
  BY DEF Calm, IInv, WhereInv, Begun
<1>2. CASE d \in relocated
  <2>1. expected[d] = expected[b]
    BY <1>2 DEF Calm, RelocatedIsThere
  <2> QED
    BY <1>2, <2>1 DEF Distinct, Calm, IInv, TypeOK
<1>3. ASSUME NEW i \in 1..Len(temps), temps[i] = d PROVE FALSE
  BY <1>0, <1>3 DEF Calm, IInv, StagingInv
<1> QED
  BY <1>1, <1>2, <1>3 DEF Calm, IInv, StagingInv

\* Who holds an entry of current_locations is pending, and the only one who stood there.
LEMMA Occupant ==
    ASSUME Calm, pc # "idle", NEW b \in Branches, locations[expected[b]] # None
    PROVE  /\ locations[expected[b]] \in Pending /\ start[locations[expected[b]]] = expected[b]
           /\ \A c \in Branches : start[c] = expected[b] => c = locations[expected[b]]
           /\ expected[b] \notin obstacles
<1>0. expected[b] \in Paths /\ expected[b] # None
  BY CalmFacts
<1>1. locations[expected[b]] \in Pending /\ start[locations[expected[b]]] = expected[b]
  BY <1>0 DEF Calm, IInv, PlanInv
<1>2. locations[expected[b]] \in Branches
  BY <1>1, CalmFacts
<1>3. \A c \in Branches : start[c] = expected[b] => c = locations[expected[b]]
  BY <1>0, <1>1, <1>2 DEF Calm, IInv, PlanInv
<1>4. expected[b] \notin obstacles
  BY <1>1, <1>2 DEF Calm, QuietInv
<1> QED
  BY <1>1, <1>3, <1>4

\* Waiting for somebody who is not blocked is being free.
LEMMA OccupiedIsFree ==
    ASSUME Calm, NEW b \in Branches, Turn(b), Target(b) = "occupied", locations[expected[b]] \notin blocked
    PROVE  Free(b)
<1>1. locations[expected[b]] # None /\ pc # "idle"
  BY DEF Target, Turn
<1>2. locations[expected[b]] \in Branches
  BY <1>1, Occupant, CalmFacts
<1> QED
  BY <1>1, <1>2, Occupant DEF Free

\* An empty target was left by those who moved, if anybody was there; it is never the main worktree's.
LEMMA EmptyIsLeft ==
    ASSUME Distinct, Calm, NEW b \in Branches, Turn(b), Target(b) = "empty"
    PROVE  /\ expected[b] # Root /\ expected[b] \notin obstacles
           /\ \A c \in Branches : start[c] = expected[b] => c \in moved
<1>0. pc = "pass" /\ b \in Pending /\ expected[b] \in Paths /\ expected[b] # None /\ Begun /\ pc # "idle"
  BY InTurn, CalmFacts DEF Turn, Begun, Calm, IInv
<1>1. CASE ~Exists(expected[b])
  <2>1. expected[b] # Root /\ expected[b] \notin obstacles /\ \A c \in Branches : at[c] # expected[b]
    BY <1>1 DEF Exists, Occupied
  <2>2. ASSUME NEW c \in Branches, start[c] = expected[b], c \notin moved PROVE FALSE
    BY <1>0, <2>1, <2>2 DEF Calm, IInv, WhereInv
  <2> QED
    BY <2>1, <2>2
<1>2. CASE Exists(expected[b])
  <2>1. locations[expected[b]] # None /\ locations[expected[b]] \in moved
    BY <1>2 DEF Target
  <2>2. ASSUME expected[b] = Root PROVE FALSE
    <3>1. b = Default
      BY <2>2, OnlyDefaultAtRoot
    <3>2. Default \notin Pending
      BY <1>0, <2>1, <2>2 DEF Calm, IInv, WhereInv
    <3> QED
      BY <1>0, <3>1, <3>2
  <2> QED
    BY <1>0, <2>1, <2>2, Occupant
<1> QED
  BY <1>1, <1>2

LEMMA LeftIsFree ==
    ASSUME Calm, NEW b \in Branches, expected[b] # Root, expected[b] \notin obstacles,
           \A c \in Branches : start[c] = expected[b] => c \in moved
    PROVE  Free(b)
BY CalmFacts DEF Free

\* Being free, and being the least set of those that stay, are matters of the plan and of who is blocked.
LEMMA SameFree ==
    ASSUME UNCHANGED <<expected, obstacles, start, pending, blocked>>
    PROVE  (OnlyBlocked => OnlyBlocked') /\ \A b \in Branches : Free(b) => Free(b)'
<1>1. Pending' = Pending
  BY DEF Pending
<1>2. OnlyBlocked => OnlyBlocked'
  BY <1>1 DEF OnlyBlocked, Stays
<1>3. \A b \in Branches : Free(b) => Free(b)'
  BY <1>1 DEF Free
<1> QED
  BY <1>2, <1>3

LEMMA QuietClassify == ASSUME Calm, Classify PROVE QuietInv' /\ RelocatedIsThere'
<1> USE SamePending DEF world, others, plan, loop, done
<1>0. pc = "classify" /\ Fresh /\ at = start
  BY DEF Classify, Calm, IInv, PlanInv
<1>1. /\ UNCHANGED <<expected, at, clobber, pending, start, locations, moved, temps, relocated, next>>
      /\ pc' = "pass" /\ Pending' = Pending /\ obstacles' \subseteq obstacles
  BY DEF Classify
<1>2. ASSUME NEW c \in Pending, start[c] \in Paths PROVE locations[start[c]] = c /\ c # None
  BY <1>0, <1>2, CalmFacts DEF Calm, IInv, PlanInv, Fresh
<1>3. ASSUME NEW b \in Pending, b \notin blocked', locations[expected[b]] = None PROVE ~Exists(expected[b])'
  <2>1. b \in Branches /\ expected[b] \in Paths
    BY <1>3, CalmFacts
  <2>2. CASE ~Exists(expected[b])
    BY <1>1, <2>2 DEF Exists, Occupied
  <2>3. CASE Exists(expected[b])
    <3>1. clobber /\ expected[b] # Root /\ \A c \in Branches : start[c] # expected[b]
      BY <1>3, <2>1, <2>3 DEF Classify
    <3>2. expected[b] \notin obstacles'
      BY <1>3, <2>1, <2>3, <3>1 DEF Classify
    <3> QED
      BY <1>0, <1>1, <3>1, <3>2 DEF Exists, Occupied
  <2> QED
    BY <2>2, <2>3
<1>4. NoForeign'
  BY <1>1, <1>3 DEF NoForeign, Remaining
<1>5. FreeInv'
  BY <1>0, <1>1 DEF FreeInv, Fresh
<1>6. ASSUME NEW X \in SUBSET Pending, Stays(X)', NEW b \in blocked', b \notin X PROVE FALSE
  <2>1. b \in Pending /\ b \in Branches /\ expected[b] \in Paths /\ Exists(expected[b]) /\ locations[expected[b]] = None
    BY <1>6, CalmFacts DEF Classify
  <2>2. /\ expected[b] \notin obstacles'
        /\ \A c \in Branches : start[c] = expected[b] => c \in Pending
        /\ expected[b] = Root => \E c \in Branches : start[c] = Root
    BY <1>1, <1>6, <2>1 DEF Stays
  <2>3. \A c \in Branches : start[c] # expected[b]
    BY <1>2, <2>1, <2>2
  <2>4. expected[b] \in obstacles /\ expected[b] # Root
    BY <1>0, <2>1, <2>2, <2>3 DEF Exists, Occupied
  <2>5. ~clobber
    BY <1>6, <2>1, <2>3, <2>4 DEF Classify
  <2> QED
    BY <2>2, <2>4, <2>5 DEF Classify
<1>7. OnlyBlocked'
  BY <1>1, <1>6 DEF OnlyBlocked
<1>8. \A c \in Branches : start'[c] \notin obstacles'
  BY <1>0, <1>1 DEF Calm, QuietInv
<1> QED
  BY <1>0, <1>1, <1>4, <1>5, <1>7, <1>8 DEF QuietInv, RelocatedIsThere, Fresh

\* A worktree arrives at a place that was left for it.
LEMMA QuietArrival ==
    ASSUME Distinct, Calm, InPass, NEW b \in Branches, b \in Remaining, Free(b),
           at' = [at EXCEPT ![b] = expected[b]], pc' = "pass", progress' = TRUE,
           moved' = moved \cup {b}, relocated' = relocated \cup {b},
           UNCHANGED <<expected, obstacles, start, pending, locations, blocked, temps, created>>
    PROVE  QuietInv' /\ RelocatedIsThere'
<1>0. /\ Begun /\ NoForeign /\ FreeInv /\ OnlyBlocked /\ pc # "idle"
      /\ Pending' = Pending /\ \A c \in Branches : start[c] \notin obstacles
  BY SamePending DEF InPass, Begun, Calm, QuietInv
<1>1. at'[b] = expected[b] /\ \A c \in Branches \ {b} : at'[c] = at[c]
  BY CalmFacts
<1>2. Remaining' \subseteq Remaining /\ b \notin Remaining'
  BY <1>0 DEF Remaining
<1>3. ASSUME NEW d \in Remaining', Exists(expected[d])' PROVE locations[expected[d]] # None
  <2>1. d \in Remaining /\ d \in Branches /\ d # b
    BY <1>2, CalmFacts DEF Remaining
  <2>2. expected[d] # expected[b]
    BY <2>1 DEF Distinct, Calm, IInv, TypeOK
  <2>3. Exists(expected[d])
    BY <1>1, <1>3, <2>2 DEF Exists, Occupied
  <2> QED
    BY <1>0, <2>1, <2>3 DEF NoForeign
<1>4. NoForeign'
  BY <1>3 DEF NoForeign
<1>5. OnlyBlocked' /\ \A d \in Branches : Free(d) => Free(d)'
  BY <1>0, SameFree
<1>6. FreeInv'
  <2>1. \A d \in moved' : Free(d)'
    BY <1>0, <1>5, CalmFacts DEF FreeInv
  <2>2. temps # <<>> => \A d \in Remaining' : Free(d)'
    BY <1>0, <1>2, <1>5, CalmFacts DEF FreeInv, Remaining
  <2> QED
    BY <2>1, <2>2 DEF FreeInv
<1>7. RelocatedIsThere'
  BY <1>1, CalmFacts DEF Calm, RelocatedIsThere
<1> QED
  BY <1>0, <1>4, <1>5, <1>6, <1>7 DEF QuietInv

\* Nothing moves, and nobody is settled.
LEMMA QuietStill ==
    ASSUME Calm,
           UNCHANGED <<expected, at, obstacles, start, pending, locations, moved, blocked, temps, relocated, created>>,
           Begun' => Begun, InPass' => InPass, pc' # "idle" => pc # "idle",
           InPass' /\ ~progress' => \A i \in 1..next' - 1 : pending[i] \in Remaining => Free(pending[i])
    PROVE  QuietInv' /\ RelocatedIsThere'
<1>0. Pending' = Pending /\ Remaining' = Remaining
  BY SamePending DEF Remaining
<1>1. RelocatedIsThere' /\ (pc' # "idle" => \A c \in Branches : start'[c] \notin obstacles')
  BY DEF Calm, QuietInv, RelocatedIsThere
<1>2. ASSUME Begun' PROVE NoForeign' /\ FreeInv' /\ OnlyBlocked'
  <2>0. NoForeign /\ FreeInv /\ OnlyBlocked
    BY <1>2 DEF Calm, QuietInv
  <2>1. OnlyBlocked' /\ \A d \in Branches : Free(d) => Free(d)'
    BY <2>0, SameFree
  <2>2. NoForeign'
    BY <1>0, <2>0 DEF NoForeign, Exists, Occupied
  <2>3. \A d \in moved' : Free(d)'
    BY <2>0, <2>1, CalmFacts DEF FreeInv
  <2>4. InPass' /\ temps' # <<>> => \A d \in Remaining' : Free(d)'
    BY <1>0, <2>0, <2>1, CalmFacts DEF FreeInv, Remaining
  <2>5. InPass' /\ ~progress' => \A i \in 1..next' - 1 : pending'[i] \in Remaining' => Free(pending[i])'
    <3>1. ASSUME InPass', ~progress', NEW i \in 1..next' - 1, pending[i] \in Remaining PROVE Free(pending[i])'
      <4>1. Free(pending[i]) /\ pending[i] \in Branches
        BY <3>1, CalmFacts DEF Remaining
      <4> QED
        BY <2>1, <4>1 DEF Free
    <3> QED
      BY <1>0, <3>1
  <2> QED
    BY <2>1, <2>2, <2>3, <2>4, <2>5 DEF FreeInv
<1> QED
  BY <1>1, <1>2 DEF QuietInv

\* The loop goes on, or ends.
LEMMA QuietLoop ==
    ASSUME Calm, Repeat \/ PassesEnd \/ Finish \/ \E b \in Branches : PassOver(b) \/ Wait(b)
    PROVE  QuietInv' /\ RelocatedIsThere'
<1> USE DEF world, others, plan, done
<1>0. next \in Nat /\ \A i \in 1..next : i = next \/ i \in 1..next - 1
  BY CalmFacts
<1>1. CASE Repeat
  <2>1. 1..next' - 1 = {} /\ pc' = "pass" /\ pc = "pass"
    BY <1>1 DEF Repeat, PassEnds, NextPass
  <2> QED
    BY <1>1, <2>1, QuietStill DEF Repeat, Begun, InPass
<1>2. CASE PassesEnd \/ Finish
  <2>1. Begun /\ pc # "idle" /\ pc' \in {"finalize", "done"}
    BY <1>2 DEF PassesEnd, Finish, PassEnds, Begun
  <2> QED
    BY <1>2, <2>1, QuietStill DEF PassesEnd, Finish, InPass
<1>3. ASSUME NEW b \in Branches, PassOver(b) \/ Wait(b) PROVE QuietInv' /\ RelocatedIsThere'
  <2>1. pc = "pass" /\ UNCHANGED pc /\ pending[next] = b /\ next' = next + 1 /\ (progress => progress')
    BY <1>3 DEF PassOver, Wait, Turn, Advance
  <2>2. b \in Remaining => Free(b)
    <3>1. CASE PassOver(b)
      BY <3>1 DEF PassOver, Remaining
    <3>2. CASE Wait(b)
      BY <3>2, OccupiedIsFree DEF Wait
    <3> QED
      BY <1>3, <3>1, <3>2
  <2>3. ~progress => \A i \in 1..next - 1 : pending[i] \in Remaining => Free(pending[i])
    BY <2>1 DEF Calm, QuietInv, FreeInv, Begun, InPass
  <2>4. ASSUME ~progress', NEW i \in 1..next' - 1, pending[i] \in Remaining PROVE Free(pending[i])
    <3>1. i \in 1..next
      BY <1>0, <2>1, <2>4
    <3> QED
      BY <1>0, <2>1, <2>2, <2>3, <2>4, <3>1
  <2> QED
    BY <1>3, <2>1, <2>4, QuietStill DEF PassOver, Wait, Begun, InPass
<1> QED
  BY <1>1, <1>2, <1>3

\* Outside of the passes and what follows them, only the obstacles matter, and they only get fewer.
LEMMA QuietOutside ==
    ASSUME Calm, Plan \/ ClassifyFails \/ Stops
    PROVE  QuietInv' /\ RelocatedIsThere'
<1> USE DEF world, others, plan, done
<1>1. CASE Plan
  <2>1. relocated' = {} /\ pc' = "classify" /\ start' = at /\ obstacles' = obstacles
    BY <1>1 DEF Plan, Calm, IInv, PlanInv, Fresh
  <2> QED
    BY <2>1 DEF QuietInv, RelocatedIsThere, Begun, Calm, IInv, WorldInv
<1>2. CASE ClassifyFails
  <2>1. pc = "classify" /\ pc' = "failed" /\ start' = start /\ obstacles' \subseteq obstacles /\ UNCHANGED <<at, expected, relocated>>
    BY <1>2 DEF ClassifyFails
  <2> QED
    BY <2>1 DEF QuietInv, RelocatedIsThere, Begun, Calm
<1>3. CASE Stops
  <2>1. /\ pc # "idle" /\ pc' \in {"failed", "killed"}
        /\ UNCHANGED <<start, obstacles, at, expected, relocated, created>>
    BY <1>3 DEF Stops
  <2> QED
    BY <2>1 DEF QuietInv, RelocatedIsThere, Begun, Calm
<1> QED
  BY <1>1, <1>2, <1>3

\* git worktree move of a linked worktree.
LEMMA QuietMove == ASSUME Distinct, Calm, NEW b \in Branches, MoveLinked(b) PROVE QuietInv' /\ RelocatedIsThere'
<1> USE DEF world, others, plan
<1>1. Turn(b) /\ Target(b) = "empty" /\ pc = "pass"
  BY DEF MoveLinked, Turn
<1>2. b \in Remaining /\ b \notin moved /\ b \notin relocated
  BY <1>1, InTurn, CalmFacts DEF Calm, IInv, Remaining
<1>3. /\ expected[b] # Root /\ expected[b] \notin obstacles
      /\ \A c \in Branches : start[c] = expected[b] => c \in moved
  BY <1>1, EmptyIsLeft
<1>4. Free(b) /\ ~Exists(expected[b])
  BY <1>1, <1>2, <1>3, LeftIsFree, Vacant DEF Begun
<1>5. at' = [at EXCEPT ![b] = expected[b]]
  BY <1>4 DEF MoveLinked, Moved
<1>6. InPass /\ pc' = "pass" /\ progress' = TRUE
  BY <1>1 DEF InPass, MoveLinked, Advance
<1> QED
  BY <1>2, <1>4, <1>5, <1>6, QuietArrival DEF MoveLinked

\* git switch in the main worktree.
LEMMA QuietSwitch == ASSUME Calm, NEW b \in Branches, SwitchMain(b) PROVE QuietInv' /\ RelocatedIsThere'
<1> USE DEF world, others, plan, loop, done
<1>0. /\ pc = "pass" /\ pc' = "add" /\ Begun /\ InPass /\ pc # "idle" /\ Turn(b)
      /\ at' = [at EXCEPT ![b] = None, ![Default] = Root]
      /\ UNCHANGED <<expected, obstacles, start, pending, locations, moved, blocked, temps, relocated, created, progress, next>>
  BY DEF SwitchMain, Turn, Begun, InPass
<1>1. b \in Pending /\ b \notin moved /\ at[b] = Root /\ b # Default
  BY <1>0, InTurn, MainAtRoot DEF SwitchMain, Calm, IInv
<1>2. at[Default] = None /\ Default \notin moved
  BY <1>0, CalmFacts DEF SwitchMain, Calm, IInv, WhereInv
<1>3. at'[Default] = Root /\ at'[b] = None /\ \A c \in Branches \ {b, Default} : at'[c] = at[c]
  BY <1>0, <1>1, CalmFacts
<1>4. RelocatedIsThere'
  BY <1>0, <1>1, <1>2, <1>3, CalmFacts DEF Calm, RelocatedIsThere
<1>5. NoForeign /\ FreeInv /\ OnlyBlocked /\ \A c \in Branches : start[c] \notin obstacles
  BY <1>0 DEF Calm, QuietInv
<1>6. Pending' = Pending /\ Remaining' = Remaining
  BY <1>0, SamePending DEF Remaining
<1>7. \A p \in Paths : Exists(p)' => Exists(p)
  BY <1>0, <1>3, CalmFacts DEF Exists, Occupied
<1>8. NoForeign'
  BY <1>0, <1>5, <1>6, <1>7, CalmFacts DEF NoForeign, Remaining
<1>9. OnlyBlocked' /\ \A d \in Branches : Free(d) => Free(d)'
  BY <1>0, <1>5, SameFree
<1>10. FreeInv'
  <2>1. \A d \in moved' : Free(d)'
    BY <1>0, <1>5, <1>9, CalmFacts DEF FreeInv
  <2>2. temps # <<>> => \A d \in Remaining' : Free(d)'
    BY <1>0, <1>5, <1>6, <1>9, CalmFacts DEF FreeInv, Remaining
  <2>3. ~progress => \A i \in 1..next - 1 : pending[i] \in Remaining => Free(pending[i])'
    <3>1. ASSUME ~progress, NEW i \in 1..next - 1, pending[i] \in Remaining PROVE Free(pending[i])'
      <4>1. Free(pending[i]) /\ pending[i] \in Branches
        BY <1>0, <1>5, <3>1, CalmFacts DEF FreeInv, Remaining
      <4> QED
        BY <1>0, <1>9, <4>1 DEF Free
    <3> QED
      BY <3>1
  <2> QED
    BY <1>0, <1>6, <2>1, <2>2, <2>3 DEF FreeInv, Free
<1> QED
  BY <1>0, <1>4, <1>5, <1>8, <1>9, <1>10 DEF QuietInv

\* git worktree add of the branch that left the main worktree.
LEMMA QuietAdd == ASSUME Distinct, Calm, NEW b \in Branches, AddMain(b) PROVE QuietInv' /\ RelocatedIsThere'
<1> USE DEF world, others, plan
<1>0. /\ pc = "add" /\ pc' = "pass" /\ Begun /\ InPass /\ pc # "idle" /\ pending[next] = b /\ progress' = TRUE
      /\ ~Exists(expected[b])
  BY DEF AddMain, Begun, InPass, Advance
<1>1. b \in Remaining /\ next \in 1..Len(pending) /\ IsMain(b) /\ at[b] = None
  BY <1>0, CalmFacts DEF Calm, IInv, WhereInv, TypeOK, Remaining, Pending
<1>2. start[b] = Root /\ b # Default
  BY <1>0, <1>1, CalmFacts DEF Calm, IInv, PlanInv, IsMain, Remaining
<1>3. expected[b] # Root /\ expected[b] \notin obstacles /\ \A c \in Branches : at[c] # expected[b]
  BY <1>0 DEF Exists, Occupied
<1>4. ASSUME NEW c \in Branches, start[c] = expected[b], c \notin moved PROVE FALSE
  <2>1. c # b
    BY <1>2, <1>3, <1>4
  <2>2. expected[b] # None
    BY CalmFacts
  <2> QED
    BY <1>0, <1>3, <1>4, <2>1, <2>2 DEF Calm, IInv, WhereInv
<1>5. Free(b)
  BY <1>3, <1>4, LeftIsFree
<1> QED
  BY <1>0, <1>1, <1>5, QuietArrival DEF AddMain

\* Who waits for a blocked worktree is blocked; nobody is in staging then.
LEMMA QuietBlock == ASSUME Distinct, Calm, NEW b \in Branches, Block(b) PROVE QuietInv' /\ RelocatedIsThere'
<1> USE DEF world, others, plan
<1> DEFINE d == locations[expected[b]]
<1>0. /\ pc = "pass" /\ pc' = "pass" /\ Begun /\ InPass /\ pc # "idle" /\ Turn(b) /\ d # None /\ d \in blocked
      /\ blocked' = blocked \cup {b} /\ progress' = TRUE
      /\ UNCHANGED <<expected, at, obstacles, start, pending, locations, moved, temps, relocated, created>>
  BY DEF Block, Target, Turn, Begun, InPass, Advance
<1>1. NoForeign /\ FreeInv /\ OnlyBlocked /\ \A c \in Branches : start[c] \notin obstacles
  BY <1>0 DEF Calm, QuietInv
<1>2. b \in Pending /\ b \in Remaining /\ b \notin moved
  BY <1>0, InTurn DEF Calm, IInv, Remaining
<1>3. d \in Branches /\ start[d] = expected[b]
  BY <1>0, Occupant, CalmFacts
<1>4. temps = <<>>
  BY <1>0, <1>1, <1>2, <1>3 DEF FreeInv, Free
<1>5. Pending' = Pending /\ Remaining' \subseteq Remaining
  BY <1>0, SamePending DEF Remaining
<1>6. NoForeign'
  BY <1>0, <1>1, <1>5 DEF NoForeign, Exists, Occupied
<1>7. ASSUME NEW e \in moved PROVE Free(e)'
  <2>1. e \in Branches /\ Free(e) /\ e # b
    BY <1>1, <1>2, CalmFacts DEF FreeInv
  <2>2. e \in relocated /\ at[e] = expected[e] /\ at[e] # None
    <3>1. 1..Len(temps) = {}
      BY <1>4
    <3>2. e \in relocated
      BY <3>1 DEF Calm, IInv, StagingInv
    <3> QED
      BY <3>2, <2>1, CalmFacts DEF Calm, RelocatedIsThere
  <2>3. at[b] = start[b]
    BY <1>0, <1>2, CalmFacts DEF Calm, IInv, WhereInv, PlanInv
  <2>4. start[b] # expected[e]
    BY <2>1, <2>2, <2>3 DEF Calm, IInv, WorldInv
  <2> QED
    BY <1>0, <1>5, <2>1, <2>4 DEF Free
<1>8. FreeInv'
  BY <1>0, <1>4, <1>7 DEF FreeInv
<1>9. ASSUME NEW X \in SUBSET Pending, Stays(X)' PROVE blocked' \subseteq X
  <2>1. Stays(X)
    BY <1>0, <1>5, <1>9 DEF Stays
  <2>2. d \in X
    BY <1>0, <1>1, <2>1 DEF OnlyBlocked
  <2>3. b \in X
    BY <1>2, <1>3, <2>1, <2>2 DEF Stays
  <2> QED
    BY <1>0, <1>1, <2>1, <2>3 DEF OnlyBlocked
<1>10. OnlyBlocked'
  BY <1>5, <1>9 DEF OnlyBlocked
<1>11. RelocatedIsThere'
  BY <1>0 DEF Calm, RelocatedIsThere
<1> QED
  BY <1>0, <1>1, <1>6, <1>8, <1>10, <1>11 DEF QuietInv

\* Nothing unknown is on a target.
LEMMA QuietSkip == ASSUME Calm, NEW b \in Branches, SkipForeign(b) PROVE FALSE
<1>1. Turn(b) /\ Exists(expected[b]) /\ locations[expected[b]] = None
  BY DEF SkipForeign, Target
<1>2. b \in Remaining
  BY <1>1, InTurn DEF Calm, IInv, Remaining
<1> QED
  BY <1>1, <1>2 DEF Turn, Calm, QuietInv, Begun, InPass, NoForeign

\* The place of a worktree in staging is left when the passes are over.
LEMMA QuietFinalize == ASSUME Distinct, Calm, NEW b \in Branches, Finalize(b) PROVE QuietInv' /\ RelocatedIsThere'
<1> USE DEF world, others, plan, loop
<1>0. /\ pc = "finalize" /\ pc' = "finalize" /\ Begun /\ pc # "idle" /\ ~InPass' /\ relocated' = relocated \cup {b}
      /\ UNCHANGED <<expected, obstacles, start, pending, moved, blocked, created>>
  BY DEF Finalize, Begun, InPass
<1>1. b \in moved /\ b \in Pending /\ b \notin relocated
  <2>1. 1 \in 1..Len(temps) /\ b = temps[1] /\ b \in moved
    <3>1. temps \in Seq(moved) /\ temps # <<>> /\ b = Head(temps)
      BY DEF Finalize, Calm, IInv, TypeOK
    <3> QED
      BY <3>1, HeadTailProperties, EmptySeq, LenProperties
  <2> QED
    BY <2>1, CalmFacts DEF Calm, IInv, StagingInv
<1>2. FreeInv /\ OnlyBlocked /\ Free(b) /\ \A c \in Branches : start[c] \notin obstacles
  BY <1>0, <1>1 DEF Calm, QuietInv, FreeInv
<1>3. \A c \in Branches : start[c] = expected[b] => c \in moved /\ c \in Pending
  BY <1>0, <1>2 DEF Calm, IInv, StagingInv, Remaining, Free
<1>4. expected[b] # Root
  <2>1. SUFFICES ASSUME expected[b] = Root PROVE FALSE
    OBVIOUS
  <2>2. b = Default
    BY <2>1, OnlyDefaultAtRoot
  <2>3. PICK c \in Branches : start[c] = Root
    BY <1>2, <2>1 DEF Free
  <2>4. locations[Root] = c /\ c \in moved
    BY <1>0, <1>3, <2>1, <2>3, CalmFacts DEF Calm, IInv, PlanInv
  <2> QED
    BY <1>0, <1>1, <2>2, <2>4 DEF Calm, IInv, WhereInv
<1>5. ~Exists(expected[b])
  BY <1>0, <1>1, <1>2, <1>3, <1>4, Vacant DEF Free
<1>6. at'[b] = expected[b] /\ \A c \in Branches \ {b} : at'[c] = at[c]
  BY <1>5, CalmFacts DEF Finalize, Moved
<1>7. OnlyBlocked' /\ \A d \in Branches : Free(d) => Free(d)'
  BY <1>0, <1>2, SameFree
<1>8. FreeInv'
  BY <1>0, <1>2, <1>7, CalmFacts DEF FreeInv
<1>9. RelocatedIsThere'
  BY <1>0, <1>6, CalmFacts DEF Calm, RelocatedIsThere
<1> QED
  BY <1>0, <1>2, <1>7, <1>8, <1>9 DEF QuietInv, NoForeign

\* A pass without progress: all that remain wait for each other, and one of them goes to staging.
LEMMA QuietBreak ==
    ASSUME Calm, NEW i \in 1..Len(pending), BreakCycle(i)
    PROVE  QuietInv' /\ RelocatedIsThere'
<1> USE DEF world, others, plan
<1> DEFINE b == pending[i]
           slot == <<"staging", i, b>>
<1>0. /\ pc = "pass" /\ pc' = "pass" /\ Begun /\ InPass /\ pc # "idle" /\ ~progress /\ next > Len(pending)
      /\ next' = 1 /\ b \in Remaining /\ locations[Root] # b /\ at' = Moved(b, slot)
      /\ locations' = [p \in Paths |-> IF locations[p] = b THEN None ELSE locations[p]]
      /\ moved' = moved \cup {b}
      /\ UNCHANGED <<expected, obstacles, start, pending, blocked, relocated, created>>
  BY DEF BreakCycle, PassEnds, Chosen, NextPass, IsMain, Begun, InPass
<1>1. NoForeign /\ FreeInv /\ OnlyBlocked /\ \A c \in Branches : start[c] \notin obstacles
  BY <1>0 DEF Calm, QuietInv
<1>2. b \in Branches /\ b \in Pending /\ b \notin moved /\ b \notin relocated /\ slot \in Staging
  BY <1>0, Slot, CalmFacts DEF Calm, IInv, Remaining
<1>3. at'[b] \notin Paths /\ \A c \in Branches \ {b} : at'[c] = at[c]
  <2>1. /\ \A c \in Branches \ {b} : at'[c] = at[c]
        /\ at'[b] = IF Exists(slot) THEN <<slot, b>> ELSE slot
    BY <1>0, <1>2, OnlyOneMoves DEF Calm, IInv
  <2> QED
    BY <1>2, <2>1, PlacesApart
<1>4. at[b] = start[b] /\ start[b] # None
  BY <1>0, <1>2, CalmFacts DEF Calm, IInv, WhereInv, PlanInv
<1>5. ASSUME NEW d \in Remaining PROVE Free(d)
  <2>1. PICK j \in 1..Len(pending) : pending[j] = d
    BY <1>5 DEF Remaining, Pending
  <2>2. j \in 1..next - 1
    BY <1>0, CalmFacts
  <2> QED
    BY <1>0, <1>1, <1>5, <2>1, <2>2 DEF FreeInv
<1>6. Pending' = Pending /\ Remaining' \subseteq Remaining /\ b \notin Remaining'
  BY <1>0, SamePending DEF Remaining
<1>7. ASSUME NEW d \in Remaining', Exists(expected[d])' PROVE locations'[expected[d]] # None
  <2>1. d \in Remaining /\ d \in Branches /\ expected[d] \in Paths
    BY <1>6, <1>7, CalmFacts DEF Remaining
  <2>2. Exists(expected[d])
    BY <1>0, <1>2, <1>3, <1>7, <2>1 DEF Exists, Occupied
  <2>3. locations[expected[d]] # None
    BY <1>0, <1>1, <2>1, <2>2 DEF NoForeign
  <2>4. ASSUME locations[expected[d]] = b PROVE FALSE
    <3>1. expected[d] # Root /\ start[b] = expected[d] /\ expected[d] \notin obstacles
      BY <1>0, <2>1, <2>3, <2>4, Occupant
    <3>2. PICK c \in Branches : at'[c] = expected[d]
      BY <1>0, <1>7, <3>1 DEF Exists, Occupied
    <3>3. c # b /\ at[c] = at[b]
      BY <1>3, <1>4, <2>1, <3>1, <3>2
    <3> QED
      BY <1>2, <1>4, <3>3 DEF Calm, IInv, WorldInv
  <2> QED
    BY <1>0, <2>1, <2>3, <2>4
<1>8. NoForeign'
  BY <1>0, <1>7 DEF NoForeign
<1>9. OnlyBlocked' /\ \A d \in Branches : Free(d) => Free(d)'
  BY <1>0, <1>1, SameFree
<1>10. FreeInv'
  <2>1. \A d \in moved' : Free(d)'
    BY <1>0, <1>1, <1>2, <1>5, <1>9, CalmFacts DEF FreeInv
  <2>2. \A d \in Remaining' : Free(d)'
    BY <1>5, <1>6, <1>9, CalmFacts DEF Remaining
  <2>3. 1..next' - 1 = {}
    BY <1>0
  <2> QED
    BY <2>1, <2>2, <2>3 DEF FreeInv
<1>11. RelocatedIsThere'
  BY <1>0, <1>2, <1>3, CalmFacts DEF Calm, RelocatedIsThere
<1> QED
  BY <1>0, <1>1, <1>8, <1>9, <1>10, <1>11 DEF QuietInv

LEMMA QuietInit == Init => QuietInv /\ RelocatedIsThere
BY DEF Init, QuietInv, Begun, RelocatedIsThere

LEMMA QuietStep ==
    ASSUME Distinct, IInv, QuietInv, RelocatedIsThere, [Next]_vars
    PROVE  QuietInv' /\ RelocatedIsThere'
<1> USE DEF world, others, plan, loop, done
<1>1. CASE created' # {}
  BY <1>1 DEF QuietInv, RelocatedIsThere
<1>2. CASE RunAgain
  BY <1>2 DEF RunAgain, QuietInv, Begun, RelocatedIsThere
<1>3. ASSUME NEW p \in Paths, Create(p) PROVE created' # {}
  BY <1>3 DEF Create
<1>4. ASSUME UNCHANGED created, created' = {},
             \/ UNCHANGED vars \/ Plan \/ Classify \/ ClassifyFails \/ Repeat \/ PassesEnd \/ Finish \/ Stops
             \/ \E b \in Branches :
                 \/ PassOver(b) \/ MoveLinked(b) \/ SwitchMain(b) \/ AddMain(b) \/ Block(b) \/ Wait(b)
                 \/ SkipForeign(b) \/ Finalize(b) \/ Refuse(b)
             \/ \E i \in 1..Len(pending) : BreakCycle(i)
      PROVE QuietInv' /\ RelocatedIsThere'
  <2>1. Calm
    BY <1>4 DEF Calm
  <2>2. ASSUME UNCHANGED vars \/ \E b \in Branches : Refuse(b) PROVE QuietInv' /\ RelocatedIsThere'
    <3>1. UNCHANGED <<expected, at, obstacles, start, pending, locations, moved, blocked, temps, relocated, created,
                      pc, next, progress>>
      BY <2>2 DEF vars, Refuse
    <3>2. InPass /\ ~progress => \A i \in 1..next - 1 : pending[i] \in Remaining => Free(pending[i])
      BY <2>1 DEF Calm, QuietInv, FreeInv, Begun, InPass
    <3> QED
      BY <2>1, <3>1, <3>2, QuietStill DEF Begun, InPass
  <2> QED
    BY <1>4, <2>1, <2>2, QuietOutside, QuietClassify, QuietLoop, QuietMove, QuietSwitch, QuietAdd, QuietBlock,
       QuietSkip, QuietFinalize, QuietBreak
<1> QED
  <2>1. \/ UNCHANGED vars \/ Plan \/ Classify \/ ClassifyFails \/ Repeat \/ PassesEnd \/ Finish \/ Stops
        \/ (\E b \in Branches :
             \/ PassOver(b) \/ MoveLinked(b) \/ SwitchMain(b) \/ AddMain(b) \/ Block(b) \/ Wait(b)
             \/ SkipForeign(b) \/ Finalize(b) \/ Refuse(b))
        \/ (\E i \in 1..Len(pending) : BreakCycle(i))
        => UNCHANGED created
    BY DEF vars, Plan, Classify, ClassifyFails, Repeat, PassesEnd, Finish, Stops, PassOver, MoveLinked, SwitchMain,
           AddMain, Block, Wait, SkipForeign, Finalize, Refuse, BreakCycle
  <2>2. TypeOK
    BY DEF IInv
  <2> QED
    BY <1>1, <1>2, <1>3, <1>4, <2>1, <2>2, Steps

-----------------------------------------------------------------------------
(* Theorems *)

LEMMA Invariant == Spec => []IInv
<1>1. Init => IInv
  BY TypeInit, WorldInit, PlanInit, WhereInit, StagingInit, PassInit DEF IInv
<1>2. IInv /\ [Next]_vars => IInv'
  BY TypeStep, WorldStep, PlanStep, WhereStep, StagingStep, PassStep DEF IInv
<1> QED
  BY <1>1, <1>2, PTL DEF Spec

\* TypeOK: every variable keeps its type, and no worktree is both moved and skipped
\* (RelocationExecutor).
THEOREM TypeCorrect == Spec => []TypeOK
<1>1. IInv => TypeOK
  BY DEF IInv
<1> QED
  BY <1>1, Invariant, PTL

\* PassesAreFew: the passes of a run are at most one more than the worktrees it is to move (execute).
THEOREM FewPassesOnly == Spec => []PassesAreFew
<1>1. IInv => PassesAreFew
  BY FewPasses DEF IInv
<1> QED
  BY <1>1, Invariant, PTL

LEMMA QuietInvariant == Distinct => (Spec => [](QuietInv /\ RelocatedIsThere))
<1> SUFFICES ASSUME Distinct PROVE Spec => [](QuietInv /\ RelocatedIsThere)
  OBVIOUS
<1>1. Init => QuietInv /\ RelocatedIsThere
  BY QuietInit
<1>2. IInv /\ (QuietInv /\ RelocatedIsThere) /\ [Next]_vars => (QuietInv /\ RelocatedIsThere)'
  BY QuietStep
<1> QED
  BY <1>1, <1>2, Invariant, PTL DEF Spec

\* RelocatedIsThere, for templates that give no two branches one path: what a run that nobody disturbs
\* reports as relocated is at its expected path (move_worktree, finalize_temp_relocations).
THEOREM Relocated == Distinct => (Spec => []RelocatedIsThere)
<1>1. QuietInv /\ RelocatedIsThere => RelocatedIsThere
  OBVIOUS
<1> QED
  BY <1>1, QuietInvariant, PTL

\* When such a run is over all have moved or are blocked, and those who moved could.
LEMMA OverIsExact == ASSUME IInv, QuietInv PROVE SkipsExactlyTheBlocked
<1> SUFFICES ASSUME pc = "done", created = {}
             PROVE  /\ relocated = Pending \ blocked
                    /\ Stays(blocked) /\ \A X \in SUBSET Pending : Stays(X) => blocked \subseteq X
  BY DEF SkipsExactlyTheBlocked
<1>1. Begun /\ FreeInv /\ OnlyBlocked
  BY DEF Begun, QuietInv
<1>2. Remaining = {} /\ temps = <<>> /\ 1..Len(temps) = {}
  BY DEF IInv, StagingInv
<1>3. /\ moved \subseteq Pending /\ moved \cap blocked = {} /\ relocated \subseteq moved
      /\ \A b \in moved : b \in relocated
  BY <1>2 DEF IInv, TypeOK, StagingInv
<1>4. moved = Pending \ blocked /\ relocated = moved
  BY <1>2, <1>3 DEF Remaining
<1>5. Stays(blocked)
  BY <1>1, <1>4 DEF Stays, FreeInv, Free
<1> QED
  BY <1>1, <1>4, <1>5 DEF OnlyBlocked

\* SkipsExactlyTheBlocked, for such templates: a run that nobody disturbs skips exactly the worktrees
\* whose chain of occupants ends at something that does not move (execute).
THEOREM SkipsOnlyTheBlocked == Distinct => (Spec => []SkipsExactlyTheBlocked)
<1>1. IInv /\ (QuietInv /\ RelocatedIsThere) => SkipsExactlyTheBlocked
  BY OverIsExact
<1> QED
  BY <1>1, Invariant, QuietInvariant, PTL

=============================================================================
