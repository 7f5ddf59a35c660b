---------------------------- MODULE PromoteProofs ----------------------------
(***************************************************************************)
(* Promote for any worktrees, branches, names, builds and numbers of       *)
(* promotes that follow one another, stopped at any step: no ignored file  *)
(* is lost, each is with its branch or in the staging directory, and that  *)
(* directory is deleted only when it is empty.                             *)
(***************************************************************************)
EXTENDS Promote, TLAPS, FiniteSetTheorems

JobTypes == [target : Linked, mainBranch : Branches \cup {None}, targetBranch : Branches \cup {None},
             entries : [Sides -> SUBSET Names], count : Nat]

PlaceTypes ==
    /\ head \in [Worktrees -> Branches \cup {None}] /\ exists \in BOOLEAN
    /\ pc \in [Promoters -> Labels] /\ owned \subseteq Files

FileTypes ==
    /\ disk \in [Worktrees -> [Names -> Content]]
    /\ staged \in [Sides -> [Names -> Content]]

PlanTypes ==
    /\ job \in [Promoters -> JobTypes]
    /\ todo \in [Promoters -> SUBSET Names]

Types == PlaceTypes /\ FileTypes /\ PlanTypes

Alone == \A p, q \in Promoters : Running(p) /\ Running(q) => p = q

\* Files are staged only in the directory.
StagingInv == exists \/ staged = Empty

\* A file on a disk is under its own name, and its branch is the one checked out there.
HomeInv == \A w \in Worktrees, n \in Names : disk[w][n] \in Files => disk[w][n] = <<head[w], n>>

\* Every file there was is on a disk or staged.
KeptInv ==
    \A f \in owned : (\E w \in Worktrees : disk[w][f[2]] = f) \/ (\E s \in Sides : staged[s][f[2]] = f)

NoFiles(w) == \A n \in Names : disk[w][n] \notin Files
FilesIn(w, S) == \A n \in Names : disk[w][n] \in Files => n \in S
StagedIn(s, S) == \A n \in Names : staged[s][n] # None => n \in S
Moving == {"detachTarget", "detachMain", "switchMain", "switchTarget"}

\* Before anything is staged.
Early(p) ==
    /\ pc[p] \in {"start", "leftover", "list", "mkdir"} => job[p].count = 0
    /\ pc[p] \in {"list", "mkdir"} => ~exists

\* Which branch is where: as they were read, and in the end exchanged.
Placed(p) ==
    /\ pc[p] \in {"leftover", "list", "mkdir", "stage a", "stage b"} =>
        head[Main] = job[p].mainBranch /\ head[job[p].target] = job[p].targetBranch
    /\ pc[p] \in {"switchTarget", "distribute b", "distribute a"} => head[Main] = job[p].targetBranch
    /\ pc[p] \in {"distribute b", "distribute a"} => head[job[p].target] = job[p].mainBranch

\* Each side holds files of the branch it was staged for.
Sorted(p) ==
    pc[p] \in Moving \cup {"stage a", "stage b", "distribute b", "distribute a"} =>
        \A n \in Names : /\ staged["a"][n] \in Files => staged["a"][n] = <<job[p].mainBranch, n>>
                         /\ staged["b"][n] \in Files => staged["b"][n] = <<job[p].targetBranch, n>>

\* No file is in either worktree while the branches move: what is there is listed and not yet staged,
\* or has been distributed.
Emptied(p) ==
    /\ pc[p] = "mkdir" => FilesIn(Main, job[p].entries["a"]) /\ FilesIn(job[p].target, job[p].entries["b"])
    /\ pc[p] = "stage a" => FilesIn(Main, todo[p]) /\ FilesIn(job[p].target, job[p].entries["b"])
    /\ pc[p] = "stage b" => NoFiles(Main) /\ FilesIn(job[p].target, todo[p])
    /\ pc[p] \in Moving => NoFiles(Main) /\ NoFiles(job[p].target)
    /\ pc[p] = "distribute b" => FilesIn(Main, Names \ todo[p]) /\ NoFiles(job[p].target)
    /\ pc[p] = "distribute a" => FilesIn(job[p].target, Names \ todo[p])

\* What is staged is listed, and was staged or is still to be distributed.
Sided(p) ==
    /\ pc[p] = "stage a" =>
        todo[p] \subseteq job[p].entries["a"] /\ StagedIn("a", job[p].entries["a"] \ todo[p]) /\ StagedIn("b", {})
    /\ pc[p] = "stage b" =>
        /\ todo[p] \subseteq job[p].entries["b"]
        /\ StagedIn("a", job[p].entries["a"]) /\ StagedIn("b", job[p].entries["b"] \ todo[p])
    /\ pc[p] \in Moving => StagedIn("a", job[p].entries["a"]) /\ StagedIn("b", job[p].entries["b"])
    /\ pc[p] = "distribute b" => StagedIn("a", job[p].entries["a"]) /\ StagedIn("b", todo[p])
    /\ pc[p] = "distribute a" => StagedIn("a", todo[p]) /\ StagedIn("b", {})

\* A promote that has counted nothing has staged nothing.
Counted(p) ==
    pc[p] \in Moving \cup {"stage a", "stage b"} /\ job[p].count = 0 => StagedIn("a", {}) /\ StagedIn("b", {})

Phase(p) == Early(p) /\ Placed(p) /\ Sorted(p) /\ Emptied(p) /\ Sided(p) /\ Counted(p)

IInv == Types /\ Alone /\ StagingInv /\ HomeInv /\ KeptInv /\ \A p \in Promoters : Phase(p)

\* One step of a promote.
Moves(p) ==
    \/ Fail(p) \/ Start(p) \/ CheckLeftover(p) \/ List(p) \/ OpenStaging(p)
    \/ StageOtherSide(p) \/ EndStaging(p) \/ Exchange(p)
    \/ DistributeOtherSide(p) \/ RemoveStaging(p)
    \/ \E s \in Sides, n \in Names :
        \/ StageEntry(p, s, n) \/ CopyToStagingFails(p, s, n)
        \/ DistributeEntry(p, s, n) \/ CopyFromStagingFails(p, s, n)

(* ---- one step at a time ---- *)

LEMMA Put ==
    ASSUME NEW S, NEW f \in [S -> [Names -> Content]], NEW w \in S, NEW n \in Names, NEW v \in Content
    PROVE  /\ [f EXCEPT ![w][n] = v] \in [S -> [Names -> Content]]
           /\ \A u \in S, m \in Names :
                [f EXCEPT ![w][n] = v][u][m] = IF u = w /\ m = n THEN v ELSE f[u][m]
OBVIOUS

LEMMA EmptyType == Empty \in [Sides -> [Names -> Content]] /\ \A s \in Sides, n \in Names : Empty[s][n] = None
BY DEF Empty, Content

LEMMA Ends ==
    ASSUME Types, NEW p \in Promoters, NEW s \in Sides
    PROVE  /\ Source(p, s) \in Worktrees /\ Destination(p, s) \in Worktrees /\ job[p].target \in Worktrees
           /\ Main \in Worktrees /\ job[p].target # Main
           /\ Source(p, "a") = Main /\ Source(p, "b") = job[p].target
           /\ Destination(p, "a") = job[p].target /\ Destination(p, "b") = Main
<1>1. job[p].target \in Linked
  BY DEF Types, PlanTypes, JobTypes
<1> QED
  BY <1>1, PromoteAssumption DEF Source, Destination, Worktrees

(* ---- what a move does to the plan of its promote ---- *)

\* A move changes the plan of its own promote only, and only as its step says.

LEMMA PlaceTypesMove ==
    ASSUME NEW p \in Promoters, Types, Moves(p)
    PROVE  PlaceTypes'
<1> USE PromoteAssumption DEF Types, PlaceTypes, PlanTypes, JobTypes, Labels, Worktrees
<1>1. ASSUME Fail(p) PROVE PlaceTypes'
  BY <1>1 DEF Fail, Running, Step, Goto
<1>2. ASSUME Start(p) PROVE PlaceTypes'
  BY <1>2 DEF Start, Step, Goto
<1>3. ASSUME CheckLeftover(p) PROVE PlaceTypes'
  BY <1>3 DEF CheckLeftover, Step, Goto
<1>4. ASSUME List(p) PROVE PlaceTypes'
  BY <1>4 DEF List, Listed, Step, Goto
<1>5. ASSUME OpenStaging(p) PROVE PlaceTypes'
  BY <1>5 DEF OpenStaging, Step, Goto
<1>6. ASSUME StageOtherSide(p) PROVE PlaceTypes'
  BY <1>6 DEF StageOtherSide, Step, Goto
<1>7. ASSUME EndStaging(p) PROVE PlaceTypes'
  BY <1>7 DEF EndStaging, DeleteStaging, Step, Goto
<1>8. ASSUME Detach(p, "detachTarget", "detachMain", job[p].target) PROVE PlaceTypes'
  BY <1>8 DEF Detach, Step, Goto
<1>9. ASSUME Detach(p, "detachMain", "switchMain", Main) PROVE PlaceTypes'
  BY <1>9 DEF Detach, Step, Goto
<1>10. ASSUME Switch(p, "switchMain", "switchTarget", Main, job[p].targetBranch) PROVE PlaceTypes'
  BY <1>10 DEF Switch, Step, Goto
<1>11. ASSUME Switch(p, "switchTarget", IF job[p].count > 0 THEN "distribute b" ELSE "done",
                   job[p].target, job[p].mainBranch) PROVE PlaceTypes'
  BY <1>11 DEF Switch, Step, Goto
<1>12. ASSUME DistributeOtherSide(p) PROVE PlaceTypes'
  BY <1>12 DEF DistributeOtherSide, Step, Goto
<1>13. ASSUME RemoveStaging(p) PROVE PlaceTypes'
  BY <1>13 DEF RemoveStaging, DeleteStaging, Step, Goto
<1>14. ASSUME NEW s \in Sides, NEW n \in Names, StageEntry(p, s, n) PROVE PlaceTypes'
  BY <1>14 DEF StageEntry, Step, Goto
<1>15. ASSUME NEW s \in Sides, NEW n \in Names, CopyToStagingFails(p, s, n) PROVE PlaceTypes'
  BY <1>15 DEF CopyToStagingFails, Step, Goto
<1>16. ASSUME NEW s \in Sides, NEW n \in Names, DistributeEntry(p, s, n) PROVE PlaceTypes'
  BY <1>16 DEF DistributeEntry, Step, Goto
<1>17. ASSUME NEW s \in Sides, NEW n \in Names, CopyFromStagingFails(p, s, n) PROVE PlaceTypes'
  BY <1>17 DEF CopyFromStagingFails, Step, Goto
<1> QED
  BY <1>1, <1>2, <1>3, <1>4, <1>5, <1>6, <1>7, <1>8, <1>9, <1>10, <1>11, <1>12, <1>13, <1>14,
     <1>15, <1>16, <1>17
  DEF Moves, Exchange

LEMMA FileTypesMove ==
    ASSUME NEW p \in Promoters, Types, Moves(p)
    PROVE  FileTypes'
<1> USE PromoteAssumption DEF Types, FileTypes
<1>1. ASSUME Fail(p) PROVE FileTypes'
  BY <1>1 DEF Fail, Running, Step, Goto
<1>2. ASSUME Start(p) PROVE FileTypes'
  BY <1>2 DEF Start, Step, Goto
<1>3. ASSUME CheckLeftover(p) PROVE FileTypes'
  BY <1>3 DEF CheckLeftover, Step, Goto
<1>4. ASSUME List(p) PROVE FileTypes'
  BY <1>4 DEF List, Listed, Step, Goto
<1>5. ASSUME OpenStaging(p) PROVE FileTypes'
  BY <1>5 DEF OpenStaging, Step, Goto
<1>6. ASSUME StageOtherSide(p) PROVE FileTypes'
  BY <1>6 DEF StageOtherSide, Step, Goto
<1>7. ASSUME EndStaging(p) PROVE FileTypes'
  BY <1>7, EmptyType DEF EndStaging, DeleteStaging
<1>8. ASSUME Detach(p, "detachTarget", "detachMain", job[p].target) PROVE FileTypes'
  BY <1>8 DEF Detach, Step, Goto
<1>9. ASSUME Detach(p, "detachMain", "switchMain", Main) PROVE FileTypes'
  BY <1>9 DEF Detach, Step, Goto
<1>10. ASSUME Switch(p, "switchMain", "switchTarget", Main, job[p].targetBranch) PROVE FileTypes'
  BY <1>10, Ends DEF Switch, Content
<1>11. ASSUME Switch(p, "switchTarget", IF job[p].count > 0 THEN "distribute b" ELSE "done",
                   job[p].target, job[p].mainBranch) PROVE FileTypes'
  BY <1>11, Ends DEF Switch, Content
<1>12. ASSUME DistributeOtherSide(p) PROVE FileTypes'
  BY <1>12 DEF DistributeOtherSide, Step, Goto
<1>13. ASSUME RemoveStaging(p) PROVE FileTypes'
  BY <1>13, EmptyType DEF RemoveStaging, DeleteStaging
<1>14. ASSUME NEW s \in Sides, NEW n \in Names, StageEntry(p, s, n) PROVE FileTypes'
  <2>1. /\ Source(p, s) \in Worktrees /\ disk[Source(p, s)][n] \in Content /\ None \in Content
        /\ disk \in [Worktrees -> [Names -> Content]] /\ staged \in [Sides -> [Names -> Content]]
    BY Ends DEF Types, FileTypes, Content
  <2>2. [disk EXCEPT ![Source(p, s)][n] = None] \in [Worktrees -> [Names -> Content]]
    BY <2>1, Put
  <2>3. [staged EXCEPT ![s][n] = disk[Source(p, s)][n]] \in [Sides -> [Names -> Content]]
    BY <2>1, Put
  <2> QED
    BY <1>14, <2>1, <2>2, <2>3 DEF StageEntry, FileTypes
<1>15. ASSUME NEW s \in Sides, NEW n \in Names, CopyToStagingFails(p, s, n) PROVE FileTypes'
  <2>1. disk[Source(p, s)][n] \in Content /\ staged \in [Sides -> [Names -> Content]]
    BY Ends DEF Types, FileTypes
  <2>2. [staged EXCEPT ![s][n] = disk[Source(p, s)][n]] \in [Sides -> [Names -> Content]]
    BY <2>1, Put
  <2> QED
    BY <1>15, <2>2 DEF CopyToStagingFails, Types, FileTypes
<1>16. ASSUME NEW s \in Sides, NEW n \in Names, DistributeEntry(p, s, n) PROVE FileTypes'
  <2>1. /\ Destination(p, s) \in Worktrees /\ staged[s][n] \in Content /\ None \in Content
        /\ disk \in [Worktrees -> [Names -> Content]] /\ staged \in [Sides -> [Names -> Content]]
    BY Ends DEF Types, FileTypes, Content
  <2>2. [disk EXCEPT ![Destination(p, s)][n] = staged[s][n]] \in [Worktrees -> [Names -> Content]]
    BY <2>1, Put
  <2>3. [staged EXCEPT ![s][n] = None] \in [Sides -> [Names -> Content]]
    BY <2>1, Put
  <2> QED
    BY <1>16, <2>1, <2>2, <2>3 DEF DistributeEntry, FileTypes
<1>17. ASSUME NEW s \in Sides, NEW n \in Names, CopyFromStagingFails(p, s, n) PROVE FileTypes'
  <2>1. Destination(p, s) \in Worktrees /\ staged[s][n] \in Content /\ disk \in [Worktrees -> [Names -> Content]]
    BY Ends DEF Types, FileTypes
  <2>2. [disk EXCEPT ![Destination(p, s)][n] = staged[s][n]] \in [Worktrees -> [Names -> Content]]
    BY <2>1, Put
  <2> QED
    BY <1>17, <2>2 DEF CopyFromStagingFails, Types, FileTypes
<1> QED
  BY <1>1, <1>2, <1>3, <1>4, <1>5, <1>6, <1>7, <1>8, <1>9, <1>10, <1>11, <1>12, <1>13, <1>14,
     <1>15, <1>16, <1>17
  DEF Moves, Exchange

LEMMA PlanTypesMove ==
    ASSUME NEW p \in Promoters, Types, Moves(p)
    PROVE  PlanTypes'
<1> USE PromoteAssumption DEF Types, PlaceTypes, PlanTypes, JobTypes, Worktrees, Sides
<1>1. ASSUME Fail(p) PROVE PlanTypes'
  BY <1>1 DEF Fail, Running, Step, Goto
<1>2. ASSUME Start(p) PROVE PlanTypes'
  <2>1. head[Main] \in Branches \cup {None} /\ head[job[p].target] \in Branches \cup {None} /\ job[p] \in JobTypes
    BY Ends DEF Types, PlaceTypes, PlanTypes
  <2>2. job' = [job EXCEPT ![p] = [job[p] EXCEPT !.mainBranch = head[Main], !.targetBranch = head[job[p].target]]]
    BY <1>2 DEF Start, Types, PlanTypes
  <2>3. [job[p] EXCEPT !.mainBranch = head[Main], !.targetBranch = head[job[p].target]] \in JobTypes
    BY <2>1 DEF JobTypes
  <2> QED
    BY <1>2, <2>2, <2>3 DEF Start, PlanTypes, Types
<1>3. ASSUME CheckLeftover(p) PROVE PlanTypes'
  BY <1>3 DEF CheckLeftover, Step, Goto
<1>4. ASSUME List(p) PROVE PlanTypes'
  BY <1>4, ZenonT(60) DEF List, Listed, Step, Goto
<1>5. ASSUME OpenStaging(p) PROVE PlanTypes'
  <2>1. job[p].entries["a"] \subseteq Names
    BY DEF Types, PlanTypes, JobTypes, Sides
  <2> QED
    BY <1>5, <2>1 DEF OpenStaging, PlanTypes, Types
<1>6. ASSUME StageOtherSide(p) PROVE PlanTypes'
  <2>1. job[p].entries["b"] \subseteq Names
    BY DEF Types, PlanTypes, JobTypes, Sides
  <2> QED
    BY <1>6, <2>1 DEF StageOtherSide, PlanTypes, Types
<1>7. ASSUME EndStaging(p) PROVE PlanTypes'
  BY <1>7 DEF EndStaging, DeleteStaging, Step, Goto
<1>8. ASSUME Detach(p, "detachTarget", "detachMain", job[p].target) PROVE PlanTypes'
  BY <1>8 DEF Detach, Step, Goto
<1>9. ASSUME Detach(p, "detachMain", "switchMain", Main) PROVE PlanTypes'
  BY <1>9 DEF Detach, Step, Goto
<1>10. ASSUME Switch(p, "switchMain", "switchTarget", Main, job[p].targetBranch) PROVE PlanTypes'
  BY <1>10 DEF Switch, Step, Goto
<1>11. ASSUME Switch(p, "switchTarget", IF job[p].count > 0 THEN "distribute b" ELSE "done",
                   job[p].target, job[p].mainBranch) PROVE PlanTypes'
  BY <1>11 DEF Switch, Step, Goto
<1>12. ASSUME DistributeOtherSide(p) PROVE PlanTypes'
  <2>1. job[p].entries["a"] \subseteq Names
    BY DEF Types, PlanTypes, JobTypes, Sides
  <2> QED
    BY <1>12, <2>1 DEF DistributeOtherSide, PlanTypes, Types
<1>13. ASSUME RemoveStaging(p) PROVE PlanTypes'
  BY <1>13 DEF RemoveStaging, DeleteStaging, Step, Goto
<1>14. ASSUME NEW s \in Sides, NEW n \in Names, StageEntry(p, s, n) PROVE PlanTypes'
  <2>1. job[p] \in JobTypes /\ [job[p] EXCEPT !.count = @ + 1] \in JobTypes
    BY SMTT(30) DEF Types, PlanTypes, JobTypes
  <2>2. job' = job \/ job' = [job EXCEPT ![p] = [job[p] EXCEPT !.count = @ + 1]]
    BY <1>14 DEF StageEntry, Types, PlanTypes
  <2>3. todo' = [todo EXCEPT ![p] = todo[p] \ {n}]
    BY <1>14 DEF StageEntry
  <2>4. job' \in [Promoters -> JobTypes]
    BY <2>1, <2>2, ZenonT(60) DEF Types, PlanTypes
  <2>5. todo' \in [Promoters -> SUBSET Names]
    BY <2>3 DEF Types, PlanTypes
  <2> QED
    BY <2>4, <2>5 DEF PlanTypes
<1>15. ASSUME NEW s \in Sides, NEW n \in Names, CopyToStagingFails(p, s, n) PROVE PlanTypes'
  BY <1>15 DEF CopyToStagingFails, Step, Goto
<1>16. ASSUME NEW s \in Sides, NEW n \in Names, DistributeEntry(p, s, n) PROVE PlanTypes'
  BY <1>16 DEF DistributeEntry, Step, Goto
<1>17. ASSUME NEW s \in Sides, NEW n \in Names, CopyFromStagingFails(p, s, n) PROVE PlanTypes'
  BY <1>17 DEF CopyFromStagingFails, Step, Goto
<1> QED
  BY <1>1, <1>2, <1>3, <1>4, <1>5, <1>6, <1>7, <1>8, <1>9, <1>10, <1>11, <1>12, <1>13, <1>14,
     <1>15, <1>16, <1>17
  DEF Moves, Exchange

\* What a step leaves as it is in the plan of its promote, and that of everybody else.
Still(p) ==
    /\ job'[p].target = job[p].target
    /\ pc[p] # "start" => job'[p].mainBranch = job[p].mainBranch /\ job'[p].targetBranch = job[p].targetBranch
    /\ pc[p] # "list" => job'[p].entries = job[p].entries
    /\ \A q \in Promoters \ {p} : job'[q] = job[q] /\ todo'[q] = todo[q] /\ pc'[q] = pc[q]

LEMMA StillMove ==
    ASSUME NEW p \in Promoters, Types, Moves(p)
    PROVE  Still(p)
<1> USE PromoteAssumption DEF Types, PlanTypes, JobTypes, PlaceTypes, Still
<1>1. ASSUME Fail(p) PROVE Still(p)
  BY <1>1 DEF Fail, Running, Step, Goto
<1>2. ASSUME Start(p) PROVE Still(p)
  BY <1>2 DEF Start, Step, Goto
<1>3. ASSUME CheckLeftover(p) PROVE Still(p)
  BY <1>3 DEF CheckLeftover, Step, Goto
<1>4. ASSUME List(p) PROVE Still(p)
  BY <1>4 DEF List, Listed, Step, Goto
<1>5. ASSUME OpenStaging(p) PROVE Still(p)
  BY <1>5 DEF OpenStaging, Step, Goto
<1>6. ASSUME StageOtherSide(p) PROVE Still(p)
  BY <1>6 DEF StageOtherSide, Step, Goto
<1>7. ASSUME EndStaging(p) PROVE Still(p)
  BY <1>7 DEF EndStaging, DeleteStaging, Step, Goto
<1>8. ASSUME Detach(p, "detachTarget", "detachMain", job[p].target) PROVE Still(p)
  BY <1>8 DEF Detach, Step, Goto
<1>9. ASSUME Detach(p, "detachMain", "switchMain", Main) PROVE Still(p)
  BY <1>9 DEF Detach, Step, Goto
<1>10. ASSUME Switch(p, "switchMain", "switchTarget", Main, job[p].targetBranch) PROVE Still(p)
  BY <1>10 DEF Switch, Step, Goto
<1>11. ASSUME Switch(p, "switchTarget", IF job[p].count > 0 THEN "distribute b" ELSE "done",
                   job[p].target, job[p].mainBranch) PROVE Still(p)
  BY <1>11 DEF Switch, Step, Goto
<1>12. ASSUME DistributeOtherSide(p) PROVE Still(p)
  BY <1>12 DEF DistributeOtherSide, Step, Goto
<1>13. ASSUME RemoveStaging(p) PROVE Still(p)
  BY <1>13 DEF RemoveStaging, DeleteStaging, Step, Goto
<1>14. ASSUME NEW s \in Sides, NEW n \in Names, StageEntry(p, s, n) PROVE Still(p)
  <2>1. job' = job \/ job' = [job EXCEPT ![p] = [job[p] EXCEPT !.count = @ + 1]]
    BY <1>14 DEF StageEntry
  <2>2. /\ job'[p].target = job[p].target /\ job'[p].mainBranch = job[p].mainBranch
        /\ job'[p].targetBranch = job[p].targetBranch /\ job'[p].entries = job[p].entries
    BY <2>1
  <2>3. \A q \in Promoters \ {p} : job'[q] = job[q]
    BY <2>1
  <2> QED
    BY <1>14, <2>2, <2>3 DEF StageEntry
<1>15. ASSUME NEW s \in Sides, NEW n \in Names, CopyToStagingFails(p, s, n) PROVE Still(p)
  BY <1>15 DEF CopyToStagingFails, Step, Goto
<1>16. ASSUME NEW s \in Sides, NEW n \in Names, DistributeEntry(p, s, n) PROVE Still(p)
  BY <1>16 DEF DistributeEntry, Step, Goto
<1>17. ASSUME NEW s \in Sides, NEW n \in Names, CopyFromStagingFails(p, s, n) PROVE Still(p)
  BY <1>17 DEF CopyFromStagingFails, Step, Goto
<1> HIDE DEF Still
<1> QED
  BY <1>1, <1>2, <1>3, <1>4, <1>5, <1>6, <1>7, <1>8, <1>9, <1>10, <1>11, <1>12, <1>13, <1>14,
     <1>15, <1>16, <1>17
  DEF Moves, Exchange

LEMMA EarlyMove ==
    ASSUME NEW p \in Promoters, Types, Early(p), Moves(p)
    PROVE  Early(p)'
<1> USE PromoteAssumption DEF Early, Types, PlaceTypes, PlanTypes, JobTypes
<1>1. ASSUME Fail(p) PROVE Early(p)'
  BY <1>1 DEF Fail, Running, Step, Goto
<1>2. ASSUME Start(p) PROVE Early(p)'
  BY <1>2 DEF Start, Step, Goto
<1>3. ASSUME CheckLeftover(p) PROVE Early(p)'
  BY <1>3 DEF CheckLeftover, Step, Goto
<1>4. ASSUME List(p) PROVE Early(p)'
  BY <1>4 DEF List, Listed, Step, Goto
<1>5. ASSUME OpenStaging(p) PROVE Early(p)'
  BY <1>5 DEF OpenStaging, Step, Goto
<1>6. ASSUME StageOtherSide(p) PROVE Early(p)'
  BY <1>6 DEF StageOtherSide, Step, Goto
<1>7. ASSUME EndStaging(p) PROVE Early(p)'
  BY <1>7 DEF EndStaging, DeleteStaging, Step, Goto
<1>8. ASSUME Detach(p, "detachTarget", "detachMain", job[p].target) PROVE Early(p)'
  BY <1>8 DEF Detach, Step, Goto
<1>9. ASSUME Detach(p, "detachMain", "switchMain", Main) PROVE Early(p)'
  BY <1>9 DEF Detach, Step, Goto
<1>10. ASSUME Switch(p, "switchMain", "switchTarget", Main, job[p].targetBranch) PROVE Early(p)'
  BY <1>10 DEF Switch, Step, Goto
<1>11. ASSUME Switch(p, "switchTarget", IF job[p].count > 0 THEN "distribute b" ELSE "done",
                   job[p].target, job[p].mainBranch) PROVE Early(p)'
  BY <1>11 DEF Switch, Step, Goto
<1>12. ASSUME DistributeOtherSide(p) PROVE Early(p)'
  BY <1>12 DEF DistributeOtherSide, Step, Goto
<1>13. ASSUME RemoveStaging(p) PROVE Early(p)'
  BY <1>13 DEF RemoveStaging, DeleteStaging, Step, Goto
<1>14. ASSUME NEW s \in Sides, NEW n \in Names, StageEntry(p, s, n) PROVE Early(p)'
  BY <1>14 DEF StageEntry, Step, Goto
<1>15. ASSUME NEW s \in Sides, NEW n \in Names, CopyToStagingFails(p, s, n) PROVE Early(p)'
  BY <1>15 DEF CopyToStagingFails, Step, Goto
<1>16. ASSUME NEW s \in Sides, NEW n \in Names, DistributeEntry(p, s, n) PROVE Early(p)'
  BY <1>16 DEF DistributeEntry, Step, Goto
<1>17. ASSUME NEW s \in Sides, NEW n \in Names, CopyFromStagingFails(p, s, n) PROVE Early(p)'
  BY <1>17 DEF CopyFromStagingFails, Step, Goto
<1> QED
  BY <1>1, <1>2, <1>3, <1>4, <1>5, <1>6, <1>7, <1>8, <1>9, <1>10, <1>11, <1>12, <1>13, <1>14,
     <1>15, <1>16, <1>17
  DEF Moves, Exchange

LEMMA PlacedMove ==
    ASSUME NEW p \in Promoters, Types, Placed(p), Moves(p)
    PROVE  Placed(p)'
<1>t. Main \in Worktrees /\ job[p].target \in Worktrees /\ job[p].target # Main
  BY Ends DEF Sides
<1>s. Still(p)
  BY StillMove
<1> USE PromoteAssumption DEF Placed, Types, PlaceTypes
<1>1. ASSUME Fail(p) PROVE Placed(p)'
  BY <1>1 DEF Fail, Running, Step, Goto
<1>2. ASSUME Start(p) PROVE Placed(p)'
  BY <1>2, <1>t, <1>s DEF Still, Start, Step, Goto, PlanTypes, JobTypes
<1>3. ASSUME CheckLeftover(p) PROVE Placed(p)'
  BY <1>3 DEF CheckLeftover, Step, Goto
<1>4. ASSUME List(p) PROVE Placed(p)'
  BY <1>4 DEF List, Listed, Step, Goto
<1>5. ASSUME OpenStaging(p) PROVE Placed(p)'
  BY <1>5 DEF OpenStaging, Step, Goto
<1>6. ASSUME StageOtherSide(p) PROVE Placed(p)'
  BY <1>6 DEF StageOtherSide, Step, Goto
<1>7. ASSUME EndStaging(p) PROVE Placed(p)'
  BY <1>7 DEF EndStaging, DeleteStaging, Step, Goto
<1>8. ASSUME Detach(p, "detachTarget", "detachMain", job[p].target) PROVE Placed(p)'
  BY <1>8 DEF Detach, Step, Goto
<1>9. ASSUME Detach(p, "detachMain", "switchMain", Main) PROVE Placed(p)'
  BY <1>9 DEF Detach, Step, Goto
<1>10. ASSUME Switch(p, "switchMain", "switchTarget", Main, job[p].targetBranch) PROVE Placed(p)'
  BY <1>10, <1>t, <1>s DEF Still, Switch, Step, Goto
<1>11. ASSUME Switch(p, "switchTarget", IF job[p].count > 0 THEN "distribute b" ELSE "done",
                   job[p].target, job[p].mainBranch) PROVE Placed(p)'
  BY <1>11, <1>t, <1>s DEF Still, Switch, Step, Goto
<1>12. ASSUME DistributeOtherSide(p) PROVE Placed(p)'
  BY <1>12 DEF DistributeOtherSide, Step, Goto
<1>13. ASSUME RemoveStaging(p) PROVE Placed(p)'
  BY <1>13 DEF RemoveStaging, DeleteStaging, Step, Goto
<1>14. ASSUME NEW s \in Sides, NEW n \in Names, StageEntry(p, s, n) PROVE Placed(p)'
  BY <1>14, <1>t, <1>s DEF Still, StageEntry, Step, Goto
<1>15. ASSUME NEW s \in Sides, NEW n \in Names, CopyToStagingFails(p, s, n) PROVE Placed(p)'
  BY <1>15 DEF CopyToStagingFails, Step, Goto
<1>16. ASSUME NEW s \in Sides, NEW n \in Names, DistributeEntry(p, s, n) PROVE Placed(p)'
  BY <1>16 DEF DistributeEntry, Step, Goto
<1>17. ASSUME NEW s \in Sides, NEW n \in Names, CopyFromStagingFails(p, s, n) PROVE Placed(p)'
  BY <1>17 DEF CopyFromStagingFails, Step, Goto
<1> QED
  BY <1>1, <1>2, <1>3, <1>4, <1>5, <1>6, <1>7, <1>8, <1>9, <1>10, <1>11, <1>12, <1>13, <1>14,
     <1>15, <1>16, <1>17
  DEF Moves, Exchange

LEMMA Counting == \A c \in Nat : c + 1 # 0
OBVIOUS

LEMMA Ignored == ASSUME NEW b, NEW m, <<b, m>> \in Files PROVE m \notin Tracked[b]
BY DEF Files

(* ---- what the moves that touch files do, name by name ---- *)

StageEffect(p, s, n) ==
    /\ pc[p] = IF s = "a" THEN "stage a" ELSE "stage b"
    /\ n \in todo[p] /\ todo'[p] = todo[p] \ {n} /\ UNCHANGED <<pc, head, owned>>
    /\ \A w \in Worktrees, m \in Names :
         disk'[w][m] = IF w = Source(p, s) /\ m = n THEN None ELSE disk[w][m]
    /\ \A t \in Sides, m \in Names :
         staged'[t][m] = IF t = s /\ m = n /\ disk[Source(p, s)][n] # None
                         THEN disk[Source(p, s)][n] ELSE staged[t][m]

DistributeEffect(p, s, n) ==
    /\ pc[p] = IF s = "a" THEN "distribute a" ELSE "distribute b"
    /\ n \in todo[p] /\ todo'[p] = todo[p] \ {n} /\ UNCHANGED <<pc, head, owned, exists, job>>
    /\ \A w \in Worktrees, m \in Names :
         disk'[w][m] = IF w = Destination(p, s) /\ m = n /\ staged[s][n] # None
                       THEN staged[s][n] ELSE disk[w][m]
    /\ \A t \in Sides, m \in Names :
         staged'[t][m] = IF t = s /\ m = n THEN None ELSE staged[t][m]

CopyInEffect(p, s, n) ==
    /\ pc[p] = (IF s = "a" THEN "stage a" ELSE "stage b") /\ pc'[p] = "failed"
    /\ n \in todo[p] /\ UNCHANGED <<head, disk, owned, job>> /\ exists'
    /\ \A t \in Sides, m \in Names :
         staged'[t][m] = IF t = s /\ m = n THEN disk[Source(p, s)][n] ELSE staged[t][m]

CopyOutEffect(p, s, n) ==
    /\ pc[p] = (IF s = "a" THEN "distribute a" ELSE "distribute b") /\ pc'[p] = "failed"
    /\ n \in todo[p] /\ staged[s][n] # None /\ UNCHANGED <<head, staged, owned, exists, job>>
    /\ \A w \in Worktrees, m \in Names :
         disk'[w][m] = IF w = Destination(p, s) /\ m = n THEN staged[s][n] ELSE disk[w][m]

SwitchEffect(p, from, to, w, b) ==
    /\ pc[p] = from /\ pc'[p] = to /\ todo'[p] = job[p].entries["b"] /\ UNCHANGED <<staged, owned, exists, job>>
    /\ \A v \in Worktrees, m \in Names :
         disk'[v][m] = IF v = w /\ m \in Tracked[b] THEN None ELSE disk[v][m]
    /\ \A v \in Worktrees : head'[v] = IF v = w THEN b ELSE head[v]

LEMMA Stages ==
    ASSUME Types, NEW p \in Promoters, NEW s \in Sides, NEW n \in Names, StageEntry(p, s, n)
    PROVE  StageEffect(p, s, n)
<1>1. /\ Source(p, s) \in Worktrees /\ disk[Source(p, s)][n] \in Content /\ None \in Content
      /\ disk \in [Worktrees -> [Names -> Content]] /\ staged \in [Sides -> [Names -> Content]]
  BY Ends DEF Types, FileTypes, Content
<1>2. CASE disk[Source(p, s)][n] = None
  <2>1. disk' = disk /\ staged' = staged
    BY <1>2 DEF StageEntry
  <2> QED
    BY <1>2, <2>1 DEF StageEffect, StageEntry, Types, PlanTypes
<1>3. CASE disk[Source(p, s)][n] # None
  <2>1. /\ disk' = [disk EXCEPT ![Source(p, s)][n] = None]
        /\ staged' = [staged EXCEPT ![s][n] = disk[Source(p, s)][n]]
    BY <1>3 DEF StageEntry
  <2>2. \A w \in Worktrees, m \in Names :
            disk'[w][m] = IF w = Source(p, s) /\ m = n THEN None ELSE disk[w][m]
    BY <1>1, <2>1, Put
  <2>3. \A t \in Sides, m \in Names :
            staged'[t][m] = IF t = s /\ m = n THEN disk[Source(p, s)][n] ELSE staged[t][m]
    BY <1>1, <2>1, Put
  <2> QED
    BY <1>3, <2>2, <2>3 DEF StageEffect, StageEntry, Types, PlanTypes
<1> QED
  BY <1>2, <1>3

LEMMA Distributes ==
    ASSUME Types, NEW p \in Promoters, NEW s \in Sides, NEW n \in Names, DistributeEntry(p, s, n)
    PROVE  DistributeEffect(p, s, n)
<1>1. /\ Destination(p, s) \in Worktrees /\ staged[s][n] \in Content /\ None \in Content
      /\ disk \in [Worktrees -> [Names -> Content]] /\ staged \in [Sides -> [Names -> Content]]
  BY Ends DEF Types, FileTypes, Content
<1>2. CASE staged[s][n] = None
  <2>1. disk' = disk /\ staged' = staged
    BY <1>2 DEF DistributeEntry
  <2> QED
    BY <1>2, <2>1 DEF DistributeEffect, DistributeEntry, Types, PlanTypes
<1>3. CASE staged[s][n] # None
  <2>1. /\ disk' = [disk EXCEPT ![Destination(p, s)][n] = staged[s][n]]
        /\ staged' = [staged EXCEPT ![s][n] = None]
    BY <1>3 DEF DistributeEntry
  <2>2. \A w \in Worktrees, m \in Names :
            disk'[w][m] = IF w = Destination(p, s) /\ m = n THEN staged[s][n] ELSE disk[w][m]
    BY <1>1, <2>1, Put
  <2>3. \A t \in Sides, m \in Names : staged'[t][m] = IF t = s /\ m = n THEN None ELSE staged[t][m]
    BY <1>1, <2>1, Put
  <2> QED
    BY <1>3, <2>2, <2>3 DEF DistributeEffect, DistributeEntry, Types, PlanTypes
<1> QED
  BY <1>2, <1>3

LEMMA CopiesIn ==
    ASSUME Types, NEW p \in Promoters, NEW s \in Sides, NEW n \in Names, CopyToStagingFails(p, s, n)
    PROVE  CopyInEffect(p, s, n)
<1>1. disk[Source(p, s)][n] \in Content /\ staged \in [Sides -> [Names -> Content]]
  BY Ends DEF Types, FileTypes
<1>2. staged' = [staged EXCEPT ![s][n] = disk[Source(p, s)][n]]
  BY DEF CopyToStagingFails
<1>3. \A t \in Sides, m \in Names :
        staged'[t][m] = IF t = s /\ m = n THEN disk[Source(p, s)][n] ELSE staged[t][m]
  BY <1>1, <1>2, Put
<1> QED
  BY <1>3 DEF CopyInEffect, CopyToStagingFails, Step, Goto, Types, PlaceTypes

LEMMA CopiesOut ==
    ASSUME Types, NEW p \in Promoters, NEW s \in Sides, NEW n \in Names, CopyFromStagingFails(p, s, n)
    PROVE  CopyOutEffect(p, s, n)
<1>1. /\ Destination(p, s) \in Worktrees /\ staged[s][n] \in Content
      /\ disk \in [Worktrees -> [Names -> Content]]
  BY Ends DEF Types, FileTypes
<1>2. disk' = [disk EXCEPT ![Destination(p, s)][n] = staged[s][n]]
  BY DEF CopyFromStagingFails
<1>3. \A w \in Worktrees, m \in Names :
        disk'[w][m] = IF w = Destination(p, s) /\ m = n THEN staged[s][n] ELSE disk[w][m]
  BY <1>1, <1>2, Put
<1> QED
  BY <1>3 DEF CopyOutEffect, CopyFromStagingFails, Step, Goto, Types, PlaceTypes

LEMMA Switches ==
    ASSUME Types, NEW p \in Promoters, NEW from, NEW to, NEW w \in Worktrees, NEW b, Switch(p, from, to, w, b)
    PROVE  SwitchEffect(p, from, to, w, b)
BY DEF SwitchEffect, Switch, Step, Goto, Types, PlaceTypes, FileTypes, PlanTypes

LEMMA SidedMove ==
    ASSUME NEW p \in Promoters, Types, StagingInv, Phase(p), Moves(p)
    PROVE  Sided(p)'
<1>t. Main \in Worktrees /\ job[p].target \in Worktrees /\ job[p].target # Main
  BY Ends DEF Sides
<1>s. Still(p)
  BY StillMove
<1>e. \A s \in Sides, n \in Names :
        /\ StageEntry(p, s, n) => StageEffect(p, s, n)
        /\ DistributeEntry(p, s, n) => DistributeEffect(p, s, n)
        /\ CopyToStagingFails(p, s, n) => CopyInEffect(p, s, n)
        /\ CopyFromStagingFails(p, s, n) => CopyOutEffect(p, s, n)
  BY Stages, Distributes, CopiesIn, CopiesOut
<1>n. None \notin Files /\ Fresh \notin Files
  BY PromoteAssumption
<1>x. /\ Source(p, "a") = Main /\ Source(p, "b") = job[p].target
      /\ Destination(p, "a") = job[p].target /\ Destination(p, "b") = Main
  BY Ends DEF Sides
<1> USE PromoteAssumption DEF Phase, Early, Sided, StagedIn, Sides, Moving, StagingInv, Types, PlaceTypes, PlanTypes
<1>1. ASSUME Fail(p) PROVE Sided(p)'
  BY <1>1, <1>t, <1>s, EmptyType DEF Fail, Running, Step, Goto, Still, Source
<1>2. ASSUME Start(p) PROVE Sided(p)'
  BY <1>2, <1>t, <1>s, EmptyType DEF Start, Step, Goto, Still, Source
<1>3. ASSUME CheckLeftover(p) PROVE Sided(p)'
  BY <1>3, <1>t, <1>s, EmptyType DEF CheckLeftover, Step, Goto, Still, Source
<1>4. ASSUME List(p) PROVE Sided(p)'
  BY <1>4, <1>t, <1>s, EmptyType DEF List, Listed, Step, Goto, Still, Source
<1>5. ASSUME OpenStaging(p) PROVE Sided(p)'
  BY <1>5, <1>t, <1>s, EmptyType, ZenonT(60) DEF OpenStaging, Step, Goto, Still, Source
<1>6. ASSUME StageOtherSide(p) PROVE Sided(p)'
  BY <1>6, <1>t, <1>s, EmptyType DEF StageOtherSide, Step, Goto, Still, Source
<1>7. ASSUME EndStaging(p) PROVE Sided(p)'
  BY <1>7, <1>t, <1>s, EmptyType, ZenonT(60) DEF EndStaging, DeleteStaging, Step, Goto, Still, Source
<1>8. ASSUME Detach(p, "detachTarget", "detachMain", job[p].target) PROVE Sided(p)'
  BY <1>8, <1>t, <1>s, EmptyType DEF Detach, Step, Goto, Still, Source
<1>9. ASSUME Detach(p, "detachMain", "switchMain", Main) PROVE Sided(p)'
  BY <1>9, <1>t, <1>s, EmptyType DEF Detach, Step, Goto, Still, Source
<1>10. ASSUME Switch(p, "switchMain", "switchTarget", Main, job[p].targetBranch) PROVE Sided(p)'
  <2> HIDE PromoteAssumption DEF Types, PlaceTypes, PlanTypes
  <2>1. SwitchEffect(p, "switchMain", "switchTarget", Main, job[p].targetBranch)
    BY <1>10, <1>t, Switches
  <2> QED
    BY <1>t, <1>s, <1>x, <2>1 DEF Still, SwitchEffect
<1>11. ASSUME Switch(p, "switchTarget", IF job[p].count > 0 THEN "distribute b" ELSE "done",
                   job[p].target, job[p].mainBranch) PROVE Sided(p)'
  <2> HIDE PromoteAssumption DEF Types, PlaceTypes, PlanTypes
  <2>1. SwitchEffect(p, "switchTarget", IF job[p].count > 0 THEN "distribute b" ELSE "done",
                     job[p].target, job[p].mainBranch)
    BY <1>11, <1>t, Switches
  <2> QED
    BY <1>t, <1>s, <1>x, <2>1 DEF Still, SwitchEffect
<1>12. ASSUME DistributeOtherSide(p) PROVE Sided(p)'
  BY <1>12, <1>t, <1>s, EmptyType DEF DistributeOtherSide, Step, Goto, Still, Source
<1>13. ASSUME RemoveStaging(p) PROVE Sided(p)'
  BY <1>13, <1>t, <1>s, EmptyType DEF RemoveStaging, DeleteStaging, Step, Goto, Still, Source
<1>14. ASSUME NEW s \in Sides, NEW n \in Names, StageEntry(p, s, n) PROVE Sided(p)'
  <2> HIDE PromoteAssumption DEF Types, PlaceTypes, PlanTypes
  <2>1. StageEffect(p, s, n)
    BY <1>14, <1>e
  <2>2. CASE s = "a"
    BY <1>t, <1>s, <1>x, <2>1, <2>2 DEF Still, StageEffect
  <2>3. CASE s = "b"
    BY <1>t, <1>s, <1>x, <2>1, <2>3 DEF Still, StageEffect
  <2> QED
    BY <2>2, <2>3
<1>15. ASSUME NEW s \in Sides, NEW n \in Names, CopyToStagingFails(p, s, n) PROVE Sided(p)'
  <2> HIDE PromoteAssumption DEF Types, PlaceTypes, PlanTypes
  <2>1. CopyInEffect(p, s, n)
    BY <1>15, <1>e
  <2> QED
    BY <1>t, <1>s, <1>x, <2>1 DEF Still, CopyInEffect
<1>16. ASSUME NEW s \in Sides, NEW n \in Names, DistributeEntry(p, s, n) PROVE Sided(p)'
  <2> HIDE PromoteAssumption DEF Types, PlaceTypes, PlanTypes
  <2>1. DistributeEffect(p, s, n)
    BY <1>16, <1>e
  <2>2. CASE s = "a"
    BY <1>t, <1>s, <1>x, <2>1, <2>2 DEF Still, DistributeEffect
  <2>3. CASE s = "b"
    BY <1>t, <1>s, <1>x, <2>1, <2>3 DEF Still, DistributeEffect
  <2> QED
    BY <2>2, <2>3
<1>17. ASSUME NEW s \in Sides, NEW n \in Names, CopyFromStagingFails(p, s, n) PROVE Sided(p)'
  <2> HIDE PromoteAssumption DEF Types, PlaceTypes, PlanTypes
  <2>1. CopyOutEffect(p, s, n)
    BY <1>17, <1>e
  <2> QED
    BY <1>t, <1>s, <1>x, <2>1 DEF Still, CopyOutEffect
<1> QED
  BY <1>1, <1>2, <1>3, <1>4, <1>5, <1>6, <1>7, <1>8, <1>9, <1>10, <1>11, <1>12, <1>13, <1>14,
     <1>15, <1>16, <1>17
  DEF Moves, Exchange

LEMMA SortedMove ==
    ASSUME NEW p \in Promoters, Types, StagingInv, HomeInv, Phase(p), Moves(p)
    PROVE  Sorted(p)'
<1>t. Main \in Worktrees /\ job[p].target \in Worktrees /\ job[p].target # Main
  BY Ends DEF Sides
<1>s. Still(p)
  BY StillMove
<1>e. \A s \in Sides, n \in Names :
        /\ StageEntry(p, s, n) => StageEffect(p, s, n)
        /\ DistributeEntry(p, s, n) => DistributeEffect(p, s, n)
        /\ CopyToStagingFails(p, s, n) => CopyInEffect(p, s, n)
        /\ CopyFromStagingFails(p, s, n) => CopyOutEffect(p, s, n)
  BY Stages, Distributes, CopiesIn, CopiesOut
<1>n. None \notin Files /\ Fresh \notin Files
  BY PromoteAssumption
<1>x. /\ Source(p, "a") = Main /\ Source(p, "b") = job[p].target
      /\ Destination(p, "a") = job[p].target /\ Destination(p, "b") = Main
  BY Ends DEF Sides
<1> USE PromoteAssumption DEF Phase, Early, Placed, Sided, Sorted, StagedIn, Sides, Moving, StagingInv, HomeInv, Types, PlaceTypes
<1>1. ASSUME Fail(p) PROVE Sorted(p)'
  BY <1>1, <1>t, <1>s, EmptyType DEF Fail, Running, Step, Goto, Still, Source
<1>2. ASSUME Start(p) PROVE Sorted(p)'
  BY <1>2, <1>t, <1>s, EmptyType DEF Start, Step, Goto, Still, Source
<1>3. ASSUME CheckLeftover(p) PROVE Sorted(p)'
  BY <1>3, <1>t, <1>s, EmptyType DEF CheckLeftover, Step, Goto, Still, Source
<1>4. ASSUME List(p) PROVE Sorted(p)'
  BY <1>4, <1>t, <1>s, EmptyType DEF List, Listed, Step, Goto, Still, Source
<1>5. ASSUME OpenStaging(p) PROVE Sorted(p)'
  <2>1. \A t \in Sides, m \in Names : staged'[t][m] = None
    BY <1>5, EmptyType DEF OpenStaging, Step
  <2> QED
    BY <2>1
<1>6. ASSUME StageOtherSide(p) PROVE Sorted(p)'
  BY <1>6, <1>t, <1>s, EmptyType DEF StageOtherSide, Step, Goto, Still, Source
<1>7. ASSUME EndStaging(p) PROVE Sorted(p)'
  <2>1. (\A t \in Sides, m \in Names : staged'[t][m] = None) \/ staged' = staged
    BY <1>7, EmptyType DEF EndStaging, DeleteStaging
  <2>2. pc[p] = "stage b" /\ job' = job
    BY <1>7 DEF EndStaging, Step
  <2> QED
    BY <2>1, <2>2
<1>8. ASSUME Detach(p, "detachTarget", "detachMain", job[p].target) PROVE Sorted(p)'
  BY <1>8, <1>t, <1>s, EmptyType DEF Detach, Step, Goto, Still, Source
<1>9. ASSUME Detach(p, "detachMain", "switchMain", Main) PROVE Sorted(p)'
  BY <1>9, <1>t, <1>s, EmptyType DEF Detach, Step, Goto, Still, Source
<1>10. ASSUME Switch(p, "switchMain", "switchTarget", Main, job[p].targetBranch) PROVE Sorted(p)'
  <2> HIDE PromoteAssumption DEF Types, PlaceTypes
  <2>1. SwitchEffect(p, "switchMain", "switchTarget", Main, job[p].targetBranch)
    BY <1>10, <1>t, Switches
  <2> QED
    BY <1>t, <1>s, <1>x, <2>1 DEF Still, SwitchEffect
<1>11. ASSUME Switch(p, "switchTarget", IF job[p].count > 0 THEN "distribute b" ELSE "done",
                   job[p].target, job[p].mainBranch) PROVE Sorted(p)'
  <2> HIDE PromoteAssumption DEF Types, PlaceTypes
  <2>1. SwitchEffect(p, "switchTarget", IF job[p].count > 0 THEN "distribute b" ELSE "done",
                     job[p].target, job[p].mainBranch)
    BY <1>11, <1>t, Switches
  <2> QED
    BY <1>t, <1>s, <1>x, <2>1 DEF Still, SwitchEffect
<1>12. ASSUME DistributeOtherSide(p) PROVE Sorted(p)'
  BY <1>12, <1>t, <1>s, EmptyType DEF DistributeOtherSide, Step, Goto, Still, Source
<1>13. ASSUME RemoveStaging(p) PROVE Sorted(p)'
  BY <1>13, <1>t, <1>s, EmptyType DEF RemoveStaging, DeleteStaging, Step, Goto, Still, Source
<1>14. ASSUME NEW s \in Sides, NEW n \in Names, StageEntry(p, s, n) PROVE Sorted(p)'
  <2> HIDE PromoteAssumption DEF Types, PlaceTypes
  <2>1. StageEffect(p, s, n)
    BY <1>14, <1>e
  <2>2. CASE s = "a"
    <3>1. pc[p] = "stage a" /\ pc' = pc
      BY <2>1, <2>2 DEF StageEffect
    <3>2. head[Main] = job[p].mainBranch
      BY <3>1
    <3>3. disk[Main][n] \in Files => disk[Main][n] = <<job[p].mainBranch, n>>
      BY <1>t, <3>2
    <3>4. \A m \in Names : /\ staged'["a"][m] = staged["a"][m] \/ (m = n /\ staged'["a"][m] = disk[Main][n])
                           /\ staged'["b"][m] = staged["b"][m]
      BY <1>x, <2>1, <2>2 DEF StageEffect
    <3> QED
      BY <1>s, <3>1, <3>3, <3>4 DEF Still
  <2>3. CASE s = "b"
    <3>1. pc[p] = "stage b" /\ pc' = pc
      BY <2>1, <2>3 DEF StageEffect
    <3>2. head[job[p].target] = job[p].targetBranch
      BY <3>1
    <3>3. disk[job[p].target][n] \in Files => disk[job[p].target][n] = <<job[p].targetBranch, n>>
      BY <1>t, <3>2
    <3>4. \A m \in Names : /\ staged'["b"][m] = staged["b"][m] \/ (m = n /\ staged'["b"][m] = disk[job[p].target][n])
                           /\ staged'["a"][m] = staged["a"][m]
      BY <1>x, <2>1, <2>3 DEF StageEffect
    <3> QED
      BY <1>s, <3>1, <3>3, <3>4 DEF Still
  <2> QED
    BY <2>2, <2>3
<1>15. ASSUME NEW s \in Sides, NEW n \in Names, CopyToStagingFails(p, s, n) PROVE Sorted(p)'
  <2> HIDE PromoteAssumption DEF Types, PlaceTypes
  <2>1. CopyInEffect(p, s, n)
    BY <1>15, <1>e
  <2> QED
    BY <1>t, <1>s, <1>x, <2>1 DEF Still, CopyInEffect
<1>16. ASSUME NEW s \in Sides, NEW n \in Names, DistributeEntry(p, s, n) PROVE Sorted(p)'
  <2> HIDE PromoteAssumption DEF Types, PlaceTypes
  <2>1. DistributeEffect(p, s, n)
    BY <1>16, <1>e
  <2>2. \A t \in Sides, m \in Names : staged'[t][m] = None \/ staged'[t][m] = staged[t][m]
    BY <2>1 DEF DistributeEffect
  <2>3. pc' = pc /\ job' = job
    BY <2>1 DEF DistributeEffect
  <2> QED
    BY <1>n, <2>2, <2>3
<1>17. ASSUME NEW s \in Sides, NEW n \in Names, CopyFromStagingFails(p, s, n) PROVE Sorted(p)'
  <2> HIDE PromoteAssumption DEF Types, PlaceTypes
  <2>1. CopyOutEffect(p, s, n)
    BY <1>17, <1>e
  <2> QED
    BY <1>t, <1>s, <1>x, <2>1 DEF Still, CopyOutEffect
<1> QED
  BY <1>1, <1>2, <1>3, <1>4, <1>5, <1>6, <1>7, <1>8, <1>9, <1>10, <1>11, <1>12, <1>13, <1>14,
     <1>15, <1>16, <1>17
  DEF Moves, Exchange

LEMMA EmptiedMove ==
    ASSUME NEW p \in Promoters, Types, HomeInv, Included = Names, Phase(p), Moves(p)
    PROVE  Emptied(p)'
<1>t. Main \in Worktrees /\ job[p].target \in Worktrees /\ job[p].target # Main
  BY Ends DEF Sides
<1>s. Still(p)
  BY StillMove
<1>e. \A s \in Sides, n \in Names :
        /\ StageEntry(p, s, n) => StageEffect(p, s, n)
        /\ DistributeEntry(p, s, n) => DistributeEffect(p, s, n)
        /\ CopyToStagingFails(p, s, n) => CopyInEffect(p, s, n)
        /\ CopyFromStagingFails(p, s, n) => CopyOutEffect(p, s, n)
  BY Stages, Distributes, CopiesIn, CopiesOut
<1>n. None \notin Files /\ Fresh \notin Files
  BY PromoteAssumption
<1>x. /\ Source(p, "a") = Main /\ Source(p, "b") = job[p].target
      /\ Destination(p, "a") = job[p].target /\ Destination(p, "b") = Main
  BY Ends DEF Sides
<1> USE PromoteAssumption DEF Phase, Emptied, Sided, StagedIn, NoFiles, FilesIn, Sides, Moving, Types, PlaceTypes, PlanTypes
<1>1. ASSUME Fail(p) PROVE Emptied(p)'
  BY <1>1, <1>t, <1>s, EmptyType DEF Fail, Running, Step, Goto, Still, Source
<1>2. ASSUME Start(p) PROVE Emptied(p)'
  BY <1>2, <1>t, <1>s, EmptyType DEF Start, Step, Goto, Still, Source
<1>3. ASSUME CheckLeftover(p) PROVE Emptied(p)'
  BY <1>3, <1>t, <1>s, EmptyType DEF CheckLeftover, Step, Goto, Still, Source
<1>4. ASSUME List(p) PROVE Emptied(p)'
  <2> HIDE PromoteAssumption DEF Types, PlaceTypes, PlanTypes
  <2>1. ASSUME NEW w \in Worktrees, NEW m \in Names, disk[w][m] \in Files PROVE m \in Listed(w)
    <3>1. disk[w][m] = <<head[w], m>>
      BY <2>1 DEF HomeInv
    <3>2. m \notin Tracked[head[w]]
      BY <2>1, <3>1, Ignored
    <3> QED
      BY <1>n, <2>1, <3>2 DEF Listed
  <2>2. pc'[p] \in {"mkdir", "detachTarget"} /\ UNCHANGED <<disk, todo>> /\ Listed(Main) = job'[p].entries["a"]
        /\ Listed(job[p].target) = job'[p].entries["b"]
    BY <1>4, <1>x DEF List, Step, Goto, Types, PlaceTypes, PlanTypes, JobTypes
  <2>3. pc'[p] = "detachTarget" => Listed(Main) = {} /\ Listed(job[p].target) = {}
    BY <1>4, <1>x DEF List, Step, Goto, Types, PlaceTypes, PlanTypes, JobTypes
  <2> QED
    BY <1>t, <1>s, <2>1, <2>2, <2>3 DEF Still
<1>5. ASSUME OpenStaging(p) PROVE Emptied(p)'
  BY <1>5, <1>t, <1>s, EmptyType, ZenonT(60) DEF OpenStaging, Step, Goto, Still, Source
<1>6. ASSUME StageOtherSide(p) PROVE Emptied(p)'
  BY <1>6, <1>t, <1>s, EmptyType DEF StageOtherSide, Step, Goto, Still, Source
<1>7. ASSUME EndStaging(p) PROVE Emptied(p)'
  BY <1>7, <1>t, <1>s, EmptyType DEF EndStaging, DeleteStaging, Step, Goto, Still, Source
<1>8. ASSUME Detach(p, "detachTarget", "detachMain", job[p].target) PROVE Emptied(p)'
  BY <1>8, <1>t, <1>s, EmptyType DEF Detach, Step, Goto, Still, Source
<1>9. ASSUME Detach(p, "detachMain", "switchMain", Main) PROVE Emptied(p)'
  BY <1>9, <1>t, <1>s, EmptyType DEF Detach, Step, Goto, Still, Source
<1>10. ASSUME Switch(p, "switchMain", "switchTarget", Main, job[p].targetBranch) PROVE Emptied(p)'
  <2> HIDE PromoteAssumption DEF Types, PlaceTypes, PlanTypes
  <2>1. SwitchEffect(p, "switchMain", "switchTarget", Main, job[p].targetBranch)
    BY <1>10, <1>t, Switches
  <2>2. \A v \in Worktrees, m \in Names : disk'[v][m] \in Files => disk[v][m] \in Files
    BY <1>n, <2>1 DEF SwitchEffect
  <2>3. pc[p] = "switchMain" /\ pc'[p] = "switchTarget"
    BY <2>1 DEF SwitchEffect
  <2> QED
    BY <1>t, <1>s, <2>2, <2>3 DEF Still
<1>11. ASSUME Switch(p, "switchTarget", IF job[p].count > 0 THEN "distribute b" ELSE "done",
                   job[p].target, job[p].mainBranch) PROVE Emptied(p)'
  <2> HIDE PromoteAssumption DEF Types, PlaceTypes, PlanTypes
  <2>1. SwitchEffect(p, "switchTarget", IF job[p].count > 0 THEN "distribute b" ELSE "done",
                     job[p].target, job[p].mainBranch)
    BY <1>11, <1>t, Switches
  <2>2. \A v \in Worktrees, m \in Names : disk'[v][m] \in Files => disk[v][m] \in Files
    BY <1>n, <2>1, ZenonT(60) DEF SwitchEffect
  <2>3. pc[p] = "switchTarget" /\ pc'[p] \in {"distribute b", "done"}
    BY <2>1 DEF SwitchEffect
  <2> QED
    BY <1>t, <1>s, <2>2, <2>3 DEF Still
<1>12. ASSUME DistributeOtherSide(p) PROVE Emptied(p)'
  BY <1>12, <1>t, <1>s, EmptyType DEF DistributeOtherSide, Step, Goto, Still, Source
<1>13. ASSUME RemoveStaging(p) PROVE Emptied(p)'
  BY <1>13, <1>t, <1>s, EmptyType DEF RemoveStaging, DeleteStaging, Step, Goto, Still, Source
<1>14. ASSUME NEW s \in Sides, NEW n \in Names, StageEntry(p, s, n) PROVE Emptied(p)'
  <2> HIDE PromoteAssumption DEF Types, PlaceTypes, PlanTypes
  <2>1. StageEffect(p, s, n)
    BY <1>14, <1>e
  <2>2. pc' = pc /\ todo'[p] = todo[p] \ {n}
    BY <2>1 DEF StageEffect
  <2>5. \A w \in Worktrees, m \in Names : disk'[w][m] \in Files => disk[w][m] \in Files
    <3>1. \A w \in Worktrees, m \in Names : disk'[w][m] = None \/ disk'[w][m] = disk[w][m]
      BY <2>1, ZenonT(60) DEF StageEffect
    <3> QED
      BY <1>n, <3>1
  <2>3. CASE s = "a"
    <3>1. pc[p] = "stage a" /\ disk'[Main][n] = None
      BY <1>t, <1>x, <2>1, <2>3 DEF StageEffect
    <3> QED
      BY <1>t, <1>s, <1>n, <2>2, <2>5, <3>1 DEF Still
  <2>4. CASE s = "b"
    <3>1. pc[p] = "stage b" /\ disk'[job[p].target][n] = None
      BY <1>t, <1>x, <2>1, <2>4 DEF StageEffect
    <3> QED
      BY <1>t, <1>s, <1>n, <2>2, <2>5, <3>1 DEF Still
  <2> QED
    BY <2>3, <2>4
<1>15. ASSUME NEW s \in Sides, NEW n \in Names, CopyToStagingFails(p, s, n) PROVE Emptied(p)'
  <2> HIDE PromoteAssumption DEF Types, PlaceTypes, PlanTypes
  <2>1. CopyInEffect(p, s, n)
    BY <1>15, <1>e
  <2> QED
    BY <1>t, <1>s, <1>x, <2>1 DEF Still, CopyInEffect
<1>16. ASSUME NEW s \in Sides, NEW n \in Names, DistributeEntry(p, s, n) PROVE Emptied(p)'
  <2> HIDE PromoteAssumption DEF Types, PlaceTypes, PlanTypes
  <2>1. DistributeEffect(p, s, n)
    BY <1>16, <1>e
  <2>2. pc' = pc /\ todo'[p] = todo[p] \ {n}
    BY <2>1 DEF DistributeEffect
  <2>3. CASE s = "a"
    <3>1. pc[p] = "distribute a" /\ \A m \in Names \ {n} : disk'[job[p].target][m] = disk[job[p].target][m]
      BY <1>t, <1>x, <2>1, <2>3, ZenonT(60) DEF DistributeEffect
    <3>2. \A m \in Names : disk[job[p].target][m] \in Files => m \notin todo[p]
      BY <3>1
    <3>3. \A m \in Names : disk'[job[p].target][m] \in Files => m \notin todo'[p]
      BY <2>2, <3>1, <3>2
    <3> QED
      BY <1>s, <2>2, <3>1, <3>3 DEF Still
  <2>4. CASE s = "b"
    <3>1. /\ pc[p] = "distribute b" /\ \A m \in Names \ {n} : disk'[Main][m] = disk[Main][m]
          /\ \A m \in Names : disk'[job[p].target][m] = disk[job[p].target][m]
      BY <1>t, <1>x, <2>1, <2>4, ZenonT(60) DEF DistributeEffect
    <3>2. \A m \in Names : disk[Main][m] \in Files => m \notin todo[p]
      BY <3>1
    <3>3. \A m \in Names : disk'[Main][m] \in Files => m \notin todo'[p]
      BY <2>2, <3>1, <3>2
    <3>4. \A m \in Names : disk'[job[p].target][m] \notin Files
      BY <3>1
    <3> QED
      BY <1>s, <2>2, <3>1, <3>3, <3>4 DEF Still
  <2> QED
    BY <2>3, <2>4
<1>17. ASSUME NEW s \in Sides, NEW n \in Names, CopyFromStagingFails(p, s, n) PROVE Emptied(p)'
  <2> HIDE PromoteAssumption DEF Types, PlaceTypes, PlanTypes
  <2>1. CopyOutEffect(p, s, n)
    BY <1>17, <1>e
  <2> QED
    BY <1>t, <1>s, <1>x, <2>1 DEF Still, CopyOutEffect
<1> QED
  BY <1>1, <1>2, <1>3, <1>4, <1>5, <1>6, <1>7, <1>8, <1>9, <1>10, <1>11, <1>12, <1>13, <1>14,
     <1>15, <1>16, <1>17
  DEF Moves, Exchange

LEMMA CountedMove ==
    ASSUME NEW p \in Promoters, Types, StagingInv, Phase(p), Moves(p)
    PROVE  Counted(p)'
<1>t. Main \in Worktrees /\ job[p].target \in Worktrees /\ job[p].target # Main
  BY Ends DEF Sides
<1>s. Still(p)
  BY StillMove
<1>e. \A s \in Sides, n \in Names :
        /\ StageEntry(p, s, n) => StageEffect(p, s, n)
        /\ DistributeEntry(p, s, n) => DistributeEffect(p, s, n)
        /\ CopyToStagingFails(p, s, n) => CopyInEffect(p, s, n)
        /\ CopyFromStagingFails(p, s, n) => CopyOutEffect(p, s, n)
  BY Stages, Distributes, CopiesIn, CopiesOut
<1>n. None \notin Files /\ Fresh \notin Files
  BY PromoteAssumption
<1>x. /\ Source(p, "a") = Main /\ Source(p, "b") = job[p].target
      /\ Destination(p, "a") = job[p].target /\ Destination(p, "b") = Main
  BY Ends DEF Sides
<1> USE PromoteAssumption DEF Phase, Early, Sided, Counted, StagedIn, Sides, Moving, StagingInv, Types, PlaceTypes, PlanTypes
<1>1. ASSUME Fail(p) PROVE Counted(p)'
  BY <1>1, <1>t, <1>s, EmptyType DEF Fail, Running, Step, Goto, Still, Source
<1>2. ASSUME Start(p) PROVE Counted(p)'
  BY <1>2, <1>t, <1>s, EmptyType DEF Start, Step, Goto, Still, Source
<1>3. ASSUME CheckLeftover(p) PROVE Counted(p)'
  BY <1>3, <1>t, <1>s, EmptyType DEF CheckLeftover, Step, Goto, Still, Source
<1>4. ASSUME List(p) PROVE Counted(p)'
  BY <1>4, <1>t, <1>s, EmptyType DEF List, Listed, Step, Goto, Still, Source
<1>5. ASSUME OpenStaging(p) PROVE Counted(p)'
  BY <1>5, <1>t, <1>s, EmptyType, ZenonT(60) DEF OpenStaging, Step, Goto, Still, Source
<1>6. ASSUME StageOtherSide(p) PROVE Counted(p)'
  BY <1>6, <1>t, <1>s, EmptyType DEF StageOtherSide, Step, Goto, Still, Source
<1>7. ASSUME EndStaging(p) PROVE Counted(p)'
  BY <1>7, <1>t, <1>s, EmptyType, ZenonT(60) DEF EndStaging, DeleteStaging, Step, Goto, Still, Source
<1>8. ASSUME Detach(p, "detachTarget", "detachMain", job[p].target) PROVE Counted(p)'
  BY <1>8, <1>t, <1>s, EmptyType DEF Detach, Step, Goto, Still, Source
<1>9. ASSUME Detach(p, "detachMain", "switchMain", Main) PROVE Counted(p)'
  BY <1>9, <1>t, <1>s, EmptyType DEF Detach, Step, Goto, Still, Source
<1>10. ASSUME Switch(p, "switchMain", "switchTarget", Main, job[p].targetBranch) PROVE Counted(p)'
  <2> HIDE PromoteAssumption DEF Types, PlaceTypes, PlanTypes
  <2>1. SwitchEffect(p, "switchMain", "switchTarget", Main, job[p].targetBranch)
    BY <1>10, <1>t, Switches
  <2> QED
    BY <1>t, <1>s, <1>x, <2>1 DEF Still, SwitchEffect
<1>11. ASSUME Switch(p, "switchTarget", IF job[p].count > 0 THEN "distribute b" ELSE "done",
                   job[p].target, job[p].mainBranch) PROVE Counted(p)'
  <2> HIDE PromoteAssumption DEF Types, PlaceTypes, PlanTypes
  <2>1. SwitchEffect(p, "switchTarget", IF job[p].count > 0 THEN "distribute b" ELSE "done",
                     job[p].target, job[p].mainBranch)
    BY <1>11, <1>t, Switches
  <2> QED
    BY <1>t, <1>s, <1>x, <2>1 DEF Still, SwitchEffect
<1>12. ASSUME DistributeOtherSide(p) PROVE Counted(p)'
  BY <1>12, <1>t, <1>s, EmptyType DEF DistributeOtherSide, Step, Goto, Still, Source
<1>13. ASSUME RemoveStaging(p) PROVE Counted(p)'
  BY <1>13, <1>t, <1>s, EmptyType DEF RemoveStaging, DeleteStaging, Step, Goto, Still, Source
<1>14. ASSUME NEW s \in Sides, NEW n \in Names, StageEntry(p, s, n) PROVE Counted(p)'
  <2> HIDE PromoteAssumption DEF Types, PlaceTypes, PlanTypes
  <2>1. StageEffect(p, s, n)
    BY <1>14, <1>e
  <2>2. pc[p] \in {"stage a", "stage b"} /\ pc' = pc
    BY <2>1 DEF StageEffect
  <2>3. CASE disk[Source(p, s)][n] = None
    BY <1>14, <2>2, <2>3 DEF StageEntry
  <2>4. CASE disk[Source(p, s)][n] # None
    <3>1. job'[p].count # 0
      <4>1. job[p].count \in Nat
        BY DEF Types, PlanTypes, JobTypes
      <4>2. job'[p].count = job[p].count + 1
        <5>1. job' = [job EXCEPT ![p] = [job[p] EXCEPT !.count = @ + 1]]
          BY <1>14, <2>4 DEF StageEntry
        <5> QED
          BY <5>1 DEF Types, PlanTypes, JobTypes
      <4>3. job[p].count + 1 # 0
        BY Zenon, <4>1, Counting
      <4> QED
        BY Zenon, <4>2, <4>3
    <3> QED
      BY <3>1
  <2> QED
    BY <2>3, <2>4
<1>15. ASSUME NEW s \in Sides, NEW n \in Names, CopyToStagingFails(p, s, n) PROVE Counted(p)'
  <2> HIDE PromoteAssumption DEF Types, PlaceTypes, PlanTypes
  <2>1. CopyInEffect(p, s, n)
    BY <1>15, <1>e
  <2> QED
    BY <1>t, <1>s, <1>x, <2>1 DEF Still, CopyInEffect
<1>16. ASSUME NEW s \in Sides, NEW n \in Names, DistributeEntry(p, s, n) PROVE Counted(p)'
  <2> HIDE PromoteAssumption DEF Types, PlaceTypes, PlanTypes
  <2>1. DistributeEffect(p, s, n)
    BY <1>16, <1>e
  <2>2. CASE s = "a"
    BY <1>t, <1>s, <1>x, <2>1, <2>2 DEF Still, DistributeEffect
  <2>3. CASE s = "b"
    BY <1>t, <1>s, <1>x, <2>1, <2>3 DEF Still, DistributeEffect
  <2> QED
    BY <2>2, <2>3
<1>17. ASSUME NEW s \in Sides, NEW n \in Names, CopyFromStagingFails(p, s, n) PROVE Counted(p)'
  <2> HIDE PromoteAssumption DEF Types, PlaceTypes, PlanTypes
  <2>1. CopyOutEffect(p, s, n)
    BY <1>17, <1>e
  <2> QED
    BY <1>t, <1>s, <1>x, <2>1 DEF Still, CopyOutEffect
<1> QED
  BY <1>1, <1>2, <1>3, <1>4, <1>5, <1>6, <1>7, <1>8, <1>9, <1>10, <1>11, <1>12, <1>13, <1>14,
     <1>15, <1>16, <1>17
  DEF Moves, Exchange

LEMMA StagingMove ==
    ASSUME NEW p \in Promoters, Types, StagingInv, Moves(p)
    PROVE  StagingInv'
<1>t. Main \in Worktrees /\ job[p].target \in Worktrees /\ job[p].target # Main
  BY Ends DEF Sides
<1>s. Still(p)
  BY StillMove
<1>e. \A s \in Sides, n \in Names :
        /\ StageEntry(p, s, n) => StageEffect(p, s, n)
        /\ DistributeEntry(p, s, n) => DistributeEffect(p, s, n)
        /\ CopyToStagingFails(p, s, n) => CopyInEffect(p, s, n)
        /\ CopyFromStagingFails(p, s, n) => CopyOutEffect(p, s, n)
  BY Stages, Distributes, CopiesIn, CopiesOut
<1>n. None \notin Files /\ Fresh \notin Files
  BY PromoteAssumption
<1>x. /\ Source(p, "a") = Main /\ Source(p, "b") = job[p].target
      /\ Destination(p, "a") = job[p].target /\ Destination(p, "b") = Main
  BY Ends DEF Sides
<1> USE PromoteAssumption DEF StagingInv
<1>1. ASSUME Fail(p) PROVE StagingInv'
  BY <1>1 DEF Fail, Running, Step, Goto
<1>2. ASSUME Start(p) PROVE StagingInv'
  BY <1>2 DEF Start, Step, Goto
<1>3. ASSUME CheckLeftover(p) PROVE StagingInv'
  BY <1>3 DEF CheckLeftover, Step, Goto
<1>4. ASSUME List(p) PROVE StagingInv'
  BY <1>4 DEF List, Listed, Step, Goto
<1>5. ASSUME OpenStaging(p) PROVE StagingInv'
  BY <1>5 DEF OpenStaging, Step, Goto
<1>6. ASSUME StageOtherSide(p) PROVE StagingInv'
  BY <1>6 DEF StageOtherSide, Step, Goto
<1>7. ASSUME EndStaging(p) PROVE StagingInv'
  BY <1>7 DEF EndStaging, DeleteStaging, Step, Goto
<1>8. ASSUME Detach(p, "detachTarget", "detachMain", job[p].target) PROVE StagingInv'
  BY <1>8 DEF Detach, Step, Goto
<1>9. ASSUME Detach(p, "detachMain", "switchMain", Main) PROVE StagingInv'
  BY <1>9 DEF Detach, Step, Goto
<1>10. ASSUME Switch(p, "switchMain", "switchTarget", Main, job[p].targetBranch) PROVE StagingInv'
  <2>1. SwitchEffect(p, "switchMain", "switchTarget", Main, job[p].targetBranch)
    BY <1>10, <1>t, Switches
  <2> QED
    BY <2>1 DEF SwitchEffect
<1>11. ASSUME Switch(p, "switchTarget", IF job[p].count > 0 THEN "distribute b" ELSE "done",
                   job[p].target, job[p].mainBranch) PROVE StagingInv'
  <2>1. SwitchEffect(p, "switchTarget", IF job[p].count > 0 THEN "distribute b" ELSE "done",
                     job[p].target, job[p].mainBranch)
    BY <1>11, <1>t, Switches
  <2> QED
    BY <2>1 DEF SwitchEffect
<1>12. ASSUME DistributeOtherSide(p) PROVE StagingInv'
  BY <1>12 DEF DistributeOtherSide, Step, Goto
<1>13. ASSUME RemoveStaging(p) PROVE StagingInv'
  BY <1>13 DEF RemoveStaging, DeleteStaging, Step, Goto
<1>14. ASSUME NEW s \in Sides, NEW n \in Names, StageEntry(p, s, n) PROVE StagingInv'
  BY <1>14 DEF StageEntry, Step, Goto
<1>15. ASSUME NEW s \in Sides, NEW n \in Names, CopyToStagingFails(p, s, n) PROVE StagingInv'
  <2>1. CopyInEffect(p, s, n)
    BY <1>15, <1>e
  <2> QED
    BY <2>1 DEF CopyInEffect
<1>16. ASSUME NEW s \in Sides, NEW n \in Names, DistributeEntry(p, s, n) PROVE StagingInv'
  BY <1>16, EmptyType DEF DistributeEntry
<1>17. ASSUME NEW s \in Sides, NEW n \in Names, CopyFromStagingFails(p, s, n) PROVE StagingInv'
  <2>1. CopyOutEffect(p, s, n)
    BY <1>17, <1>e
  <2> QED
    BY <2>1 DEF CopyOutEffect
<1> QED
  BY <1>1, <1>2, <1>3, <1>4, <1>5, <1>6, <1>7, <1>8, <1>9, <1>10, <1>11, <1>12, <1>13, <1>14,
     <1>15, <1>16, <1>17
  DEF Moves, Exchange

LEMMA HomeMove ==
    ASSUME NEW p \in Promoters, Types, HomeInv, Phase(p), Moves(p)
    PROVE  HomeInv'
<1>t. Main \in Worktrees /\ job[p].target \in Worktrees /\ job[p].target # Main
  BY Ends DEF Sides
<1>s. Still(p)
  BY StillMove
<1>e. \A s \in Sides, n \in Names :
        /\ StageEntry(p, s, n) => StageEffect(p, s, n)
        /\ DistributeEntry(p, s, n) => DistributeEffect(p, s, n)
        /\ CopyToStagingFails(p, s, n) => CopyInEffect(p, s, n)
        /\ CopyFromStagingFails(p, s, n) => CopyOutEffect(p, s, n)
  BY Stages, Distributes, CopiesIn, CopiesOut
<1>n. None \notin Files /\ Fresh \notin Files
  BY PromoteAssumption
<1>x. /\ Source(p, "a") = Main /\ Source(p, "b") = job[p].target
      /\ Destination(p, "a") = job[p].target /\ Destination(p, "b") = Main
  BY Ends DEF Sides
<1> USE PromoteAssumption DEF HomeInv
<1>1. ASSUME Fail(p) PROVE HomeInv'
  BY <1>1 DEF Fail, Running, Step, Goto
<1>2. ASSUME Start(p) PROVE HomeInv'
  BY <1>2 DEF Start, Step, Goto
<1>3. ASSUME CheckLeftover(p) PROVE HomeInv'
  BY <1>3 DEF CheckLeftover, Step, Goto
<1>4. ASSUME List(p) PROVE HomeInv'
  BY <1>4 DEF List, Listed, Step, Goto
<1>5. ASSUME OpenStaging(p) PROVE HomeInv'
  BY <1>5 DEF OpenStaging, Step, Goto
<1>6. ASSUME StageOtherSide(p) PROVE HomeInv'
  BY <1>6 DEF StageOtherSide, Step, Goto
<1>7. ASSUME EndStaging(p) PROVE HomeInv'
  BY <1>7 DEF EndStaging, DeleteStaging, Step, Goto
<1>8. ASSUME Detach(p, "detachTarget", "detachMain", job[p].target) PROVE HomeInv'
  <2>1. pc[p] \in Moving /\ disk' = disk /\ head' = [head EXCEPT ![job[p].target] = None]
    BY <1>8 DEF Detach, Step, Moving
  <2>2. NoFiles(job[p].target)
    BY <2>1 DEF Phase, Emptied
  <2>3. \A v \in Worktrees : v # job[p].target => head'[v] = head[v]
    BY <1>t, <2>1 DEF Types, PlaceTypes
  <2> QED
    BY <2>1, <2>2, <2>3 DEF NoFiles
<1>9. ASSUME Detach(p, "detachMain", "switchMain", Main) PROVE HomeInv'
  <2>1. pc[p] \in Moving /\ disk' = disk /\ head' = [head EXCEPT ![Main] = None]
    BY <1>9 DEF Detach, Step, Moving
  <2>2. NoFiles(Main)
    BY <2>1 DEF Phase, Emptied
  <2>3. \A v \in Worktrees : v # Main => head'[v] = head[v]
    BY <1>t, <2>1 DEF Types, PlaceTypes
  <2> QED
    BY <2>1, <2>2, <2>3 DEF NoFiles
<1>10. ASSUME Switch(p, "switchMain", "switchTarget", Main, job[p].targetBranch) PROVE HomeInv'
  <2>1. SwitchEffect(p, "switchMain", "switchTarget", Main, job[p].targetBranch)
    BY <1>10, <1>t, Switches
  <2>2. NoFiles(Main)
    BY <2>1 DEF SwitchEffect, Phase, Emptied, Moving
  <2>5. \A v \in Worktrees, m \in Names : disk'[v][m] = None \/ disk'[v][m] = disk[v][m]
    BY <2>1 DEF SwitchEffect
  <2>3. \A v \in Worktrees, m \in Names : disk'[v][m] \in Files => disk'[v][m] = disk[v][m] /\ v # Main
    BY <1>n, <2>2, <2>5 DEF NoFiles
  <2>4. \A v \in Worktrees : v # Main => head'[v] = head[v]
    BY <2>1 DEF SwitchEffect
  <2> QED
    BY <2>3, <2>4
<1>11. ASSUME Switch(p, "switchTarget", IF job[p].count > 0 THEN "distribute b" ELSE "done",
                   job[p].target, job[p].mainBranch) PROVE HomeInv'
  <2>1. SwitchEffect(p, "switchTarget", IF job[p].count > 0 THEN "distribute b" ELSE "done",
                     job[p].target, job[p].mainBranch)
    BY <1>11, <1>t, Switches
  <2>2. NoFiles(job[p].target)
    BY <2>1 DEF SwitchEffect, Phase, Emptied, Moving
  <2>5. \A v \in Worktrees, m \in Names : disk'[v][m] = None \/ disk'[v][m] = disk[v][m]
    BY <2>1 DEF SwitchEffect
  <2>3. \A v \in Worktrees, m \in Names : disk'[v][m] \in Files => disk'[v][m] = disk[v][m] /\ v # job[p].target
    BY <1>n, <2>2, <2>5 DEF NoFiles
  <2>4. \A v \in Worktrees : v # job[p].target => head'[v] = head[v]
    BY <2>1 DEF SwitchEffect
  <2> QED
    BY <2>3, <2>4
<1>12. ASSUME DistributeOtherSide(p) PROVE HomeInv'
  BY <1>12 DEF DistributeOtherSide, Step, Goto
<1>13. ASSUME RemoveStaging(p) PROVE HomeInv'
  BY <1>13 DEF RemoveStaging, DeleteStaging, Step, Goto
<1>14. ASSUME NEW s \in Sides, NEW n \in Names, StageEntry(p, s, n) PROVE HomeInv'
  <2>1. StageEffect(p, s, n)
    BY <1>14, <1>e
  <2>2. \A w \in Worktrees, m \in Names : disk'[w][m] = None \/ disk'[w][m] = disk[w][m]
    BY <2>1 DEF StageEffect
  <2>3. head' = head
    BY <2>1 DEF StageEffect
  <2> QED
    BY <1>n, <2>2, <2>3
<1>15. ASSUME NEW s \in Sides, NEW n \in Names, CopyToStagingFails(p, s, n) PROVE HomeInv'
  <2>1. CopyInEffect(p, s, n)
    BY <1>15, <1>e
  <2> QED
    BY <2>1 DEF CopyInEffect
<1>16. ASSUME NEW s \in Sides, NEW n \in Names, DistributeEntry(p, s, n) PROVE HomeInv'
  <2>1. DistributeEffect(p, s, n)
    BY <1>16, <1>e
  <2>2. staged[s][n] \in Files => staged[s][n] = <<head[Destination(p, s)], n>>
    <3>1. CASE s = "a"
      <4>1. pc[p] = "distribute a"
        BY <2>1, <3>1 DEF DistributeEffect
      <4> QED
        BY <1>x, <3>1, <4>1 DEF Phase, Placed, Sorted
    <3>2. CASE s = "b"
      <4>1. pc[p] = "distribute b"
        BY <2>1, <3>2 DEF DistributeEffect
      <4> QED
        BY <1>x, <3>2, <4>1 DEF Phase, Placed, Sorted
    <3> QED
      BY <3>1, <3>2 DEF Sides
  <2>3. \A w \in Worktrees, m \in Names :
            disk'[w][m] = disk[w][m] \/ (w = Destination(p, s) /\ m = n /\ disk'[w][m] = staged[s][n])
    BY <2>1 DEF DistributeEffect
  <2>4. head' = head
    BY <2>1 DEF DistributeEffect
  <2> QED
    BY <2>2, <2>3, <2>4
<1>17. ASSUME NEW s \in Sides, NEW n \in Names, CopyFromStagingFails(p, s, n) PROVE HomeInv'
  <2>1. CopyOutEffect(p, s, n)
    BY <1>17, <1>e
  <2>2. staged[s][n] \in Files => staged[s][n] = <<head[Destination(p, s)], n>>
    <3>1. CASE s = "a"
      <4>1. pc[p] = "distribute a"
        BY <2>1, <3>1 DEF CopyOutEffect
      <4> QED
        BY <1>x, <3>1, <4>1 DEF Phase, Placed, Sorted
    <3>2. CASE s = "b"
      <4>1. pc[p] = "distribute b"
        BY <2>1, <3>2 DEF CopyOutEffect
      <4> QED
        BY <1>x, <3>2, <4>1 DEF Phase, Placed, Sorted
    <3> QED
      BY <3>1, <3>2 DEF Sides
  <2>3. \A w \in Worktrees, m \in Names :
            disk'[w][m] = disk[w][m] \/ (w = Destination(p, s) /\ m = n /\ disk'[w][m] = staged[s][n])
    BY <2>1 DEF CopyOutEffect
  <2>4. head' = head
    BY <2>1 DEF CopyOutEffect
  <2> QED
    BY <2>2, <2>3, <2>4
<1> QED
  BY <1>1, <1>2, <1>3, <1>4, <1>5, <1>6, <1>7, <1>8, <1>9, <1>10, <1>11, <1>12, <1>13, <1>14,
     <1>15, <1>16, <1>17
  DEF Moves, Exchange

LEMMA KeptMove ==
    ASSUME NEW p \in Promoters, Types, KeptInv, Phase(p), Moves(p)
    PROVE  KeptInv'
<1>t. Main \in Worktrees /\ job[p].target \in Worktrees /\ job[p].target # Main
  BY Ends DEF Sides
<1>s. Still(p)
  BY StillMove
<1>e. \A s \in Sides, n \in Names :
        /\ StageEntry(p, s, n) => StageEffect(p, s, n)
        /\ DistributeEntry(p, s, n) => DistributeEffect(p, s, n)
        /\ CopyToStagingFails(p, s, n) => CopyInEffect(p, s, n)
        /\ CopyFromStagingFails(p, s, n) => CopyOutEffect(p, s, n)
  BY Stages, Distributes, CopiesIn, CopiesOut
<1>n. None \notin Files /\ Fresh \notin Files
  BY PromoteAssumption
<1>x. /\ Source(p, "a") = Main /\ Source(p, "b") = job[p].target
      /\ Destination(p, "a") = job[p].target /\ Destination(p, "b") = Main
  BY Ends DEF Sides
<1>o. \A f \in owned : f \in Files /\ f # None /\ f[2] \in Names
  BY <1>n DEF Types, PlaceTypes, Files
<1> USE PromoteAssumption DEF KeptInv
<1>1. ASSUME Fail(p) PROVE KeptInv'
  BY <1>1 DEF Fail, Running, Step, Goto
<1>2. ASSUME Start(p) PROVE KeptInv'
  BY <1>2 DEF Start, Step, Goto
<1>3. ASSUME CheckLeftover(p) PROVE KeptInv'
  BY <1>3 DEF CheckLeftover, Step, Goto
<1>4. ASSUME List(p) PROVE KeptInv'
  BY <1>4 DEF List, Listed, Step, Goto
<1>5. ASSUME OpenStaging(p) PROVE KeptInv'
  BY <1>5 DEF OpenStaging, Step, Goto
<1>6. ASSUME StageOtherSide(p) PROVE KeptInv'
  BY <1>6 DEF StageOtherSide, Step, Goto
<1>7. ASSUME EndStaging(p) PROVE KeptInv'
  <2>1. disk' = disk /\ owned' = owned /\ pc[p] = "stage b"
    BY <1>7 DEF EndStaging, Step
  <2>2. CASE staged' = staged
    BY <2>1, <2>2
  <2>3. CASE job[p].count = 0
    <3>1. \A t \in Sides, m \in Names : staged[t][m] = None
      BY <2>1, <2>3 DEF Phase, Counted, StagedIn, Sides
    <3> QED
      BY <1>o, <2>1, <3>1, ZenonT(60)
  <2> QED
    BY <1>7, <2>2, <2>3 DEF EndStaging
<1>8. ASSUME Detach(p, "detachTarget", "detachMain", job[p].target) PROVE KeptInv'
  BY <1>8 DEF Detach, Step, Goto
<1>9. ASSUME Detach(p, "detachMain", "switchMain", Main) PROVE KeptInv'
  BY <1>9 DEF Detach, Step, Goto
<1>10. ASSUME Switch(p, "switchMain", "switchTarget", Main, job[p].targetBranch) PROVE KeptInv'
  <2>1. SwitchEffect(p, "switchMain", "switchTarget", Main, job[p].targetBranch)
    BY <1>10, <1>t, Switches
  <2>2. NoFiles(Main)
    BY <2>1 DEF SwitchEffect, Phase, Emptied, Moving
  <2>3. \A v \in Worktrees, m \in Names : disk[v][m] \in Files => disk'[v][m] = disk[v][m]
    BY <1>n, <2>1, <2>2 DEF SwitchEffect, NoFiles
  <2>4. staged' = staged /\ owned' = owned
    BY <2>1 DEF SwitchEffect
  <2> QED
    BY <1>o, <2>3, <2>4
<1>11. ASSUME Switch(p, "switchTarget", IF job[p].count > 0 THEN "distribute b" ELSE "done",
                   job[p].target, job[p].mainBranch) PROVE KeptInv'
  <2>1. SwitchEffect(p, "switchTarget", IF job[p].count > 0 THEN "distribute b" ELSE "done",
                     job[p].target, job[p].mainBranch)
    BY <1>11, <1>t, Switches
  <2>2. NoFiles(job[p].target)
    BY <2>1 DEF SwitchEffect, Phase, Emptied, Moving
  <2>3. \A v \in Worktrees, m \in Names : disk[v][m] \in Files => disk'[v][m] = disk[v][m]
    BY <1>n, <2>1, <2>2 DEF SwitchEffect, NoFiles
  <2>4. staged' = staged /\ owned' = owned
    BY <2>1 DEF SwitchEffect
  <2> QED
    BY <1>o, <2>3, <2>4
<1>12. ASSUME DistributeOtherSide(p) PROVE KeptInv'
  BY <1>12 DEF DistributeOtherSide, Step, Goto
<1>13. ASSUME RemoveStaging(p) PROVE KeptInv'
  <2>1. disk' = disk /\ owned' = owned /\ pc[p] = "distribute a" /\ todo[p] = {}
    BY <1>13 DEF RemoveStaging, Step
  <2>2. \A t \in Sides, m \in Names : staged[t][m] = None
    BY <2>1 DEF Phase, Sided, StagedIn, Sides
  <2>3. \A f \in owned : \E w \in Worktrees : disk[w][f[2]] = f
    BY <1>o, <2>2
  <2> QED
    BY <2>1, <2>3
<1>14. ASSUME NEW s \in Sides, NEW n \in Names, StageEntry(p, s, n) PROVE KeptInv'
  <2>1. StageEffect(p, s, n)
    BY <1>14, <1>e
  <2>2. owned' = owned /\ Source(p, s) \in Worktrees
    BY <2>1, Ends DEF StageEffect
  <2>3. staged[s][n] = None
    <3>1. CASE s = "a"
      BY <2>1, <3>1 DEF StageEffect, Phase, Sided, StagedIn
    <3>2. CASE s = "b"
      BY <2>1, <3>2 DEF StageEffect, Phase, Sided, StagedIn
    <3> QED
      BY <3>1, <3>2 DEF Sides
  <2>4. \A w \in Worktrees, m \in Names :
            disk'[w][m] = disk[w][m] \/ (w = Source(p, s) /\ m = n)
    BY <2>1 DEF StageEffect
  <2>5. \A t \in Sides, m \in Names : staged[t][m] # None => staged'[t][m] = staged[t][m]
    BY <2>1, <2>3, ZenonT(60) DEF StageEffect
  <2>6. disk[Source(p, s)][n] # None => staged'[s][n] = disk[Source(p, s)][n]
    BY <2>1 DEF StageEffect
  <2>7. ASSUME NEW f \in owned'
        PROVE  (\E w \in Worktrees : disk'[w][f[2]] = f) \/ (\E t \in Sides : staged'[t][f[2]] = f)
    <3>1. f \in owned /\ f # None /\ f[2] \in Names
      BY <1>o, <2>2, <2>7
    <3>2. ASSUME NEW w \in Worktrees, disk[w][f[2]] = f
          PROVE  disk'[w][f[2]] = f \/ staged'[s][f[2]] = f
      BY <2>4, <2>6, <3>1, <3>2
    <3>3. ASSUME NEW t \in Sides, staged[t][f[2]] = f PROVE staged'[t][f[2]] = f
      BY <2>5, <3>1, <3>3
    <3> QED
      BY <3>1, <3>2, <3>3
  <2> QED
    BY <2>7
<1>15. ASSUME NEW s \in Sides, NEW n \in Names, CopyToStagingFails(p, s, n) PROVE KeptInv'
  <2>1. CopyInEffect(p, s, n)
    BY <1>15, <1>e
  <2>2. owned' = owned /\ disk' = disk
    BY <2>1 DEF CopyInEffect
  <2>3. staged[s][n] = None
    <3>1. CASE s = "a"
      BY <2>1, <3>1 DEF CopyInEffect, Phase, Sided, StagedIn
    <3>2. CASE s = "b"
      BY <2>1, <3>2 DEF CopyInEffect, Phase, Sided, StagedIn
    <3> QED
      BY <3>1, <3>2 DEF Sides
  <2>4. \A t \in Sides, m \in Names : staged[t][m] # None => staged'[t][m] = staged[t][m]
    BY <2>1, <2>3 DEF CopyInEffect
  <2> QED
    BY <1>o, <2>2, <2>4
<1>16. ASSUME NEW s \in Sides, NEW n \in Names, DistributeEntry(p, s, n) PROVE KeptInv'
  <2>1. DistributeEffect(p, s, n)
    BY <1>16, <1>e
  <2>2. owned' = owned /\ Destination(p, s) \in Worktrees
    BY <2>1, Ends DEF DistributeEffect
  <2>3. disk[Destination(p, s)][n] \notin Files
    <3>1. CASE s = "a"
      BY <1>x, <2>1, <3>1 DEF DistributeEffect, Phase, Emptied, FilesIn
    <3>2. CASE s = "b"
      BY <1>x, <2>1, <3>2 DEF DistributeEffect, Phase, Emptied, FilesIn
    <3> QED
      BY <3>1, <3>2 DEF Sides
  <2>4. \A w \in Worktrees, m \in Names : disk[w][m] \in Files => disk'[w][m] = disk[w][m]
    BY <2>1, <2>3 DEF DistributeEffect
  <2>5. \A t \in Sides, m \in Names : staged'[t][m] = staged[t][m] \/ (t = s /\ m = n)
    BY <2>1 DEF DistributeEffect
  <2>6. staged[s][n] # None => disk'[Destination(p, s)][n] = staged[s][n]
    BY <2>1, <2>2 DEF DistributeEffect
  <2>7. ASSUME NEW f \in owned'
        PROVE  (\E w \in Worktrees : disk'[w][f[2]] = f) \/ (\E t \in Sides : staged'[t][f[2]] = f)
    <3>1. f \in owned /\ f \in Files /\ f # None /\ f[2] \in Names
      BY <1>o, <2>2, <2>7
    <3>2. ASSUME NEW w \in Worktrees, disk[w][f[2]] = f PROVE disk'[w][f[2]] = f
      BY <2>4, <3>1, <3>2
    <3>3. ASSUME NEW t \in Sides, staged[t][f[2]] = f
          PROVE  staged'[t][f[2]] = f \/ disk'[Destination(p, s)][f[2]] = f
      BY <2>5, <2>6, <3>1, <3>3
    <3> QED
      BY <2>2, <3>1, <3>2, <3>3
  <2> QED
    BY <2>7
<1>17. ASSUME NEW s \in Sides, NEW n \in Names, CopyFromStagingFails(p, s, n) PROVE KeptInv'
  <2>1. CopyOutEffect(p, s, n)
    BY <1>17, <1>e
  <2>2. owned' = owned /\ Destination(p, s) \in Worktrees
    BY <2>1, Ends DEF CopyOutEffect
  <2>3. disk[Destination(p, s)][n] \notin Files
    <3>1. CASE s = "a"
      BY <1>x, <2>1, <3>1 DEF CopyOutEffect, Phase, Emptied, FilesIn
    <3>2. CASE s = "b"
      BY <1>x, <2>1, <3>2 DEF CopyOutEffect, Phase, Emptied, FilesIn
    <3> QED
      BY <3>1, <3>2 DEF Sides
  <2>4. \A w \in Worktrees, m \in Names : disk[w][m] \in Files => disk'[w][m] = disk[w][m]
    BY <2>1, <2>3 DEF CopyOutEffect
  <2>5. \A t \in Sides, m \in Names : staged'[t][m] = staged[t][m] \/ (t = s /\ m = n)
    BY <2>1 DEF CopyOutEffect
  <2>6. staged[s][n] # None => disk'[Destination(p, s)][n] = staged[s][n]
    BY <2>1, <2>2 DEF CopyOutEffect
  <2>7. ASSUME NEW f \in owned'
        PROVE  (\E w \in Worktrees : disk'[w][f[2]] = f) \/ (\E t \in Sides : staged'[t][f[2]] = f)
    <3>1. f \in owned /\ f \in Files /\ f # None /\ f[2] \in Names
      BY <1>o, <2>2, <2>7
    <3>2. ASSUME NEW w \in Worktrees, disk[w][f[2]] = f PROVE disk'[w][f[2]] = f
      BY <2>4, <3>1, <3>2
    <3>3. ASSUME NEW t \in Sides, staged[t][f[2]] = f
          PROVE  staged'[t][f[2]] = f \/ disk'[Destination(p, s)][f[2]] = f
      BY <2>5, <2>6, <3>1, <3>3
    <3> QED
      BY <2>2, <3>1, <3>2, <3>3
  <2> QED
    BY <2>7
<1> QED
  BY <1>1, <1>2, <1>3, <1>4, <1>5, <1>6, <1>7, <1>8, <1>9, <1>10, <1>11, <1>12, <1>13, <1>14,
     <1>15, <1>16, <1>17
  DEF Moves, Exchange

(* ---- who else is there, and builds ---- *)

LEMMA AloneMove ==
    ASSUME NEW p \in Promoters, Types, Alone, ~Concurrent, Moves(p)
    PROVE  Alone' /\ \A q \in Promoters \ {p} : ~Running(q)
<1>1. Still(p)
  BY StillMove
<1>2. ~Running(p) => Start(p)
  BY ZenonT(60) DEF Moves, Exchange, Running, Fail, CheckLeftover, List, OpenStaging, StageOtherSide, EndStaging, Detach,
     Switch, DistributeOtherSide, RemoveStaging, StageEntry, CopyToStagingFails, DistributeEntry,
     CopyFromStagingFails, Step, Sides
<1>3. Start(p) => \A q \in Promoters : ~Running(q)
  BY DEF Start
<1>4. \A q \in Promoters \ {p} : ~Running(q)
  BY <1>2, <1>3 DEF Alone
<1>5. \A q \in Promoters \ {p} : ~Running(q)'
  BY <1>1, <1>4 DEF Still, Running
<1> QED
  BY <1>4, <1>5 DEF Alone

\* A promote that is not running has no part in the phases of another.
LEMMA PhasesMove ==
    ASSUME NEW p \in Promoters, IInv, ~Concurrent, Included = Names, Moves(p)
    PROVE  \A q \in Promoters : Phase(q)'
<1>1. Phase(p)'
  BY EarlyMove, PlacedMove, SortedMove, EmptiedMove, SidedMove, CountedMove DEF IInv, Phase
<1>2. ASSUME NEW q \in Promoters \ {p} PROVE Phase(q)'
  <2>1. pc'[q] = pc[q] /\ job'[q] = job[q]
    BY StillMove DEF IInv, Still
  <2>2. pc[q] \in {"start", "done", "failed"}
    BY AloneMove DEF IInv, Running
  <2>3. pc[q] = "start" => job[q].count = 0
    BY DEF IInv, Phase, Early
  <2> QED
    BY <2>1, <2>2, <2>3 DEF Phase, Early, Placed, Sorted, Emptied, Sided, Counted, Moving
<1> QED
  BY <1>1, <1>2

\* A build takes a name that is free, and what it writes is none of the files there were.
LEMMA BuildStep ==
    ASSUME IInv, NEW w \in Worktrees, NEW n \in Names, Build(w, n)
    PROVE  IInv'
<1> USE DEF IInv
<1>1. disk[w][n] = None /\ UNCHANGED <<head, staged, exists, pc, job, todo, owned>>
  BY DEF Build
<1>2. disk \in [Worktrees -> [Names -> Content]] /\ Fresh \in Content
  BY DEF Types, FileTypes, Content
<1>3. disk' = [disk EXCEPT ![w][n] = Fresh]
  BY DEF Build
<1>4. /\ disk' \in [Worktrees -> [Names -> Content]]
      /\ \A v \in Worktrees, m \in Names : disk'[v][m] = IF v = w /\ m = n THEN Fresh ELSE disk[v][m]
  BY <1>2, <1>3, Put
<1>5. None \notin Files /\ Fresh \notin Files
  BY PromoteAssumption
<1>6. \A v \in Worktrees, m \in Names : disk[v][m] \in Files \/ disk'[v][m] \in Files => disk'[v][m] = disk[v][m]
  BY <1>1, <1>4, <1>5
<1>7. Types'
  BY <1>1, <1>4 DEF Types, PlaceTypes, FileTypes, PlanTypes
<1>8. Alone' /\ StagingInv'
  BY <1>1 DEF Alone, Running, StagingInv
<1>9. HomeInv'
  BY <1>1, <1>6 DEF HomeInv
<1>10. KeptInv'
  <2>1. \A f \in owned : f \in Files /\ f[2] \in Names
    BY DEF Types, PlaceTypes, Files
  <2> QED
    BY <1>1, <1>6, <2>1 DEF KeptInv
<1>11. ASSUME NEW p \in Promoters PROVE Phase(p)'
  <2>1. job[p].target \in Worktrees /\ Main \in Worktrees
    BY Ends DEF Sides
  <2>2. Early(p)' /\ Placed(p)' /\ Sorted(p)' /\ Sided(p)' /\ Counted(p)'
    BY <1>1, ZenonT(60) DEF Phase, Early, Placed, Sorted, Sided, Counted, StagedIn
  <2>3. \A v \in Worktrees, m \in Names : disk'[v][m] \in Files => disk[v][m] \in Files
    BY <1>6
  <2>4. Emptied(p)'
    <3>1. Emptied(p)
      BY DEF Phase
    <3>2. pc'[p] = pc[p] /\ job'[p] = job[p] /\ todo'[p] = todo[p]
      BY <1>1
    <3>3. (pc[p] = "mkdir" => FilesIn(Main, job[p].entries["a"]) /\ FilesIn(job[p].target, job[p].entries["b"]))'
      BY <2>1, <2>3, <3>1, <3>2 DEF Emptied, FilesIn
    <3>4. (pc[p] = "stage a" => FilesIn(Main, todo[p]) /\ FilesIn(job[p].target, job[p].entries["b"]))'
      BY <2>1, <2>3, <3>1, <3>2 DEF Emptied, FilesIn
    <3>5. (pc[p] = "stage b" => NoFiles(Main) /\ FilesIn(job[p].target, todo[p]))'
      BY <2>1, <2>3, <3>1, <3>2 DEF Emptied, FilesIn, NoFiles
    <3>6. (pc[p] \in Moving => NoFiles(Main) /\ NoFiles(job[p].target))'
      BY <2>1, <2>3, <3>1, <3>2 DEF Emptied, NoFiles
    <3>7. (pc[p] = "distribute b" => FilesIn(Main, Names \ todo[p]) /\ NoFiles(job[p].target))'
      BY <2>1, <2>3, <3>1, <3>2 DEF Emptied, FilesIn, NoFiles
    <3>8. (pc[p] = "distribute a" => FilesIn(job[p].target, Names \ todo[p]))'
      BY <2>1, <2>3, <3>1, <3>2 DEF Emptied, FilesIn
    <3> QED
      BY <3>3, <3>4, <3>5, <3>6, <3>7, <3>8 DEF Emptied
  <2> QED
    BY <2>2, <2>4 DEF Phase
<1> QED
  BY <1>7, <1>8, <1>9, <1>10, <1>11

LEMMA InvInit == Init => IInv
<1> SUFFICES ASSUME Init PROVE IInv
  OBVIOUS
<1> USE PromoteAssumption
<1>1. PICK found \in SUBSET Files :
        disk = [w \in Worktrees |-> [n \in Names |->
                    IF <<head[w], n>> \in found /\ n \notin Tracked[head[w]] THEN <<head[w], n>> ELSE None]]
  BY DEF Init
<1>2. head \in [Worktrees -> Branches] /\ staged = Empty /\ exists = FALSE
  BY DEF Init
<1>3. \A w \in Worktrees, n \in Names :
        disk[w][n] = IF <<head[w], n>> \in found /\ n \notin Tracked[head[w]] THEN <<head[w], n>> ELSE None
  BY <1>1
<1>4. \A w \in Worktrees, n \in Names : disk[w][n] \in Content
  BY <1>3 DEF Content
<1>5. disk \in [Worktrees -> [Names -> Content]]
  BY <1>1, <1>4
<1>6. \A p \in Promoters : job[p] \in JobTypes /\ job[p].count = 0 /\ pc[p] = "start"
  BY DEF Init, Jobs, JobTypes
<1>7. Types
  <2>1. PlaceTypes
    BY <1>2 DEF Init, PlaceTypes, Labels
  <2>2. FileTypes
    BY <1>2, <1>5, EmptyType DEF FileTypes
  <2>3. PlanTypes
    BY <1>6 DEF Init, PlanTypes
  <2> QED
    BY <2>1, <2>2, <2>3 DEF Types
<1>8. Alone /\ StagingInv
  BY <1>2, <1>6 DEF Alone, StagingInv, Running
<1>9. HomeInv
  BY <1>3 DEF HomeInv
<1>10. KeptInv
  BY DEF Init, KeptInv
<1>11. \A p \in Promoters : Phase(p)
  BY <1>6 DEF Phase, Early, Placed, Sorted, Emptied, Sided, Counted, Moving
<1> QED
  BY <1>7, <1>8, <1>9, <1>10, <1>11 DEF IInv

LEMMA InvStep ==
    ASSUME ~Concurrent, Included = Names, IInv, [Next]_vars
    PROVE  IInv'
<1>1. ASSUME NEW p \in Promoters, Moves(p) PROVE IInv'
  <2>1. Types'
    BY <1>1, PlaceTypesMove, FileTypesMove, PlanTypesMove DEF IInv, Types
  <2>2. Alone' /\ StagingInv' /\ HomeInv' /\ KeptInv'
    BY <1>1, AloneMove, StagingMove, HomeMove, KeptMove DEF IInv
  <2>3. \A q \in Promoters : Phase(q)'
    BY <1>1, PhasesMove
  <2> QED
    BY <2>1, <2>2, <2>3 DEF IInv
<1>2. CASE UNCHANGED vars
  <2>1. UNCHANGED <<head, disk, staged, exists, pc, job, todo, owned>>
    BY <1>2 DEF vars
  <2>2. Types'
    BY <2>1 DEF IInv, Types, PlaceTypes, FileTypes, PlanTypes
  <2>3. Alone' /\ StagingInv' /\ HomeInv' /\ KeptInv'
    BY <2>1 DEF IInv, Alone, Running, StagingInv, HomeInv, KeptInv
  <2>4. ASSUME NEW p \in Promoters PROVE Phase(p)'
    <3>1. Phase(p)
      BY DEF IInv
    <3>2. Early(p)' /\ Placed(p)' /\ Sorted(p)' /\ Counted(p)'
      BY <2>1, <3>1 DEF Phase, Early, Placed, Sorted, Counted, StagedIn
    <3>3. Emptied(p)'
      BY <2>1, <3>1 DEF Phase, Emptied, FilesIn, NoFiles
    <3>4. Sided(p)'
      BY <2>1, <3>1 DEF Phase, Sided, StagedIn
    <3> QED
      BY <3>2, <3>3, <3>4 DEF Phase
  <2> QED
    BY <2>2, <2>3, <2>4 DEF IInv
<1> QED
  BY <1>1, <1>2, BuildStep DEF Next, Moves

LEMMA Invariance == ASSUME ~Concurrent, Included = Names PROVE Spec => []IInv
<1>1. IInv /\ [Next]_vars => IInv'
  BY InvStep
<1> QED
  BY InvInit, <1>1, PTL DEF Spec

(* ---- what follows ---- *)

\* Where a file is that was there at the start.
LEMMA Owned ==
    ASSUME IInv, NEW f \in owned
    PROVE  InStaging(f) \/ \E w \in Worktrees : disk[w][f[2]] = f /\ head[w] = f[1]
<1>1. f \in Files /\ f[2] \in Names /\ f # None
  BY PromoteAssumption DEF IInv, Types, PlaceTypes, Files
<1>2. ASSUME NEW w \in Worktrees, disk[w][f[2]] = f PROVE head[w] = f[1]
  <2>1. f = <<head[w], f[2]>>
    BY <1>1, <1>2 DEF IInv, HomeInv
  <2> QED
    BY <2>1
<1>3. ASSUME NEW s \in Sides, staged[s][f[2]] = f PROVE exists
  BY <1>1, <1>3, EmptyType DEF IInv, StagingInv
<1> QED
  BY <1>2, <1>3 DEF IInv, KeptInv, InStaging

\* With promotes that follow one another and everything included, every ignored file there was is on a
\* disk or in the staging directory, wherever they stopped (handle_promote).
THEOREM NothingLost == ASSUME ~Concurrent, Included = Names PROVE Spec => []NoFileLost
<1>1. IInv => NoFileLost
  BY Owned DEF NoFileLost, OnDisk
<1> QED
  BY Invariance, <1>1, PTL

\* And it is with its branch, or in the staging directory that stops the next promote.
THEOREM FilesStayWithTheirBranch ==
    ASSUME ~Concurrent, Included = Names PROVE Spec => []FilesFollowBranch
<1>1. IInv => FilesFollowBranch
  BY Owned DEF FilesFollowBranch
<1> QED
  BY Invariance, <1>1, PTL

\* The staging directory is deleted only when it is empty (stage_ignored, distribute_staged).
THEOREM OnlyEmptyDeleted ==
    ASSUME ~Concurrent, Included = Names PROVE Spec => OnlyEmptyStagingDeleted
<1>1. IInv /\ [Next]_vars => [exists /\ ~exists' => \A s \in Sides, n \in Names : staged[s][n] = None]_vars
  <2> SUFFICES ASSUME IInv, Next, exists, ~exists' PROVE \A s \in Sides, n \in Names : staged[s][n] = None
    OBVIOUS
  <2>1. PICK p \in Promoters : EndStaging(p) \/ RemoveStaging(p)
    <3>1. ~\E w \in Worktrees, n \in Names : Build(w, n)
      BY DEF Build
    <3>2. ASSUME NEW p \in Promoters
          PROVE  ~(Fail(p) \/ Start(p) \/ CheckLeftover(p) \/ List(p) \/ OpenStaging(p) \/ StageOtherSide(p)
                   \/ Exchange(p) \/ DistributeOtherSide(p))
      BY DEF Fail, Start, CheckLeftover, List, OpenStaging, StageOtherSide, Exchange, Detach, Switch,
         DistributeOtherSide
    <3>3. ASSUME NEW p \in Promoters, NEW s \in Sides, NEW n \in Names
          PROVE  ~(\/ StageEntry(p, s, n) \/ CopyToStagingFails(p, s, n)
                   \/ DistributeEntry(p, s, n) \/ CopyFromStagingFails(p, s, n))
      BY DEF StageEntry, CopyToStagingFails, DistributeEntry, CopyFromStagingFails
    <3> QED
      BY <3>1, <3>2, <3>3 DEF Next
  <2>2. CASE EndStaging(p)
    BY <2>2 DEF EndStaging, Step, IInv, Phase, Counted, StagedIn, Sides
  <2>3. CASE RemoveStaging(p)
    BY <2>3 DEF RemoveStaging, Step, IInv, Phase, Sided, StagedIn, Sides
  <2> QED
    BY <2>1, <2>2, <2>3
<1> QED
  BY Invariance, <1>1, PTL DEF OnlyEmptyStagingDeleted, Spec

(* ---- the count of staged entries ---- *)

\* While files are staged each counted one has left the list, and who counted has the directory.
Tallied(p) ==
    /\ pc[p] \in {"start", "leftover", "list", "mkdir"} => job[p].count = 0
    /\ pc[p] = "stage a" => job[p].count <= Cardinality(Names \ todo[p])
    /\ pc[p] = "stage b" => job[p].count <= Cardinality(Names) + Cardinality(Names \ todo[p])
    /\ job[p].count <= 2 * Cardinality(Names)
    /\ job[p].count > 0 /\ Running(p) => exists

TypeInv == Types /\ Alone /\ builds \in 0..MaxBuilds /\ \A p \in Promoters : Tallied(p)

LEMMA Listing ==
    ASSUME NEW S \in SUBSET Names
    PROVE  /\ Cardinality(Names) \in Nat /\ Cardinality(Names \ S) \in Nat
           /\ Cardinality(Names \ S) <= Cardinality(Names)
           /\ \A n \in S : Cardinality(Names \ (S \ {n})) = Cardinality(Names \ S) + 1
<1>1. IsFiniteSet(Names)
  BY PromoteAssumption
<1>2. Names \ S \in SUBSET Names
  OBVIOUS
<1>3. IsFiniteSet(Names \ S) /\ Cardinality(Names \ S) <= Cardinality(Names)
  BY <1>1, <1>2, FS_Subset
<1>4. ASSUME NEW n \in S PROVE Cardinality(Names \ (S \ {n})) = Cardinality(Names \ S) + 1
  <2>1. Names \ (S \ {n}) = (Names \ S) \cup {n} /\ n \notin Names \ S
    OBVIOUS
  <2> QED
    BY <1>3, <2>1, FS_AddElement
<1> QED
  BY <1>1, <1>3, <1>4, FS_CardinalityType

LEMMA TalliedMove ==
    ASSUME NEW p \in Promoters, Types, Tallied(p), Moves(p)
    PROVE  Tallied(p)'
<1>t. pc \in [Promoters -> Labels] /\ todo[p] \subseteq Names /\ job[p].count \in Nat
  BY DEF Types, PlaceTypes, PlanTypes, JobTypes
<1>j. job \in [Promoters -> JobTypes]
  BY DEF Types, PlanTypes
<1>c. /\ Cardinality(Names) \in Nat /\ Cardinality(Names \ todo[p]) \in Nat
      /\ Cardinality(Names \ todo[p]) <= Cardinality(Names)
  BY <1>t, Listing
<1>h. /\ pc[p] = "stage a" => job[p].count <= Cardinality(Names \ todo[p])
      /\ pc[p] = "stage b" => job[p].count <= Cardinality(Names) + Cardinality(Names \ todo[p])
      /\ job[p].count <= 2 * Cardinality(Names)
      /\ job[p].count > 0 /\ Running(p) => exists
  BY DEF Tallied
<1> USE DEF Tallied
<1>1. ASSUME Fail(p) PROVE Tallied(p)'
  BY <1>1, <1>t DEF Fail, Running, Step, Goto, Running
<1>2. ASSUME Start(p) PROVE Tallied(p)'
  <2>1. job'[p].count = job[p].count
    BY <1>2, <1>j DEF Start, JobTypes
  <2> QED
    BY <1>2, <1>t, <2>1 DEF Start, Step, Goto, Running
<1>3. ASSUME CheckLeftover(p) PROVE Tallied(p)'
  BY <1>3, <1>t DEF CheckLeftover, Step, Goto, Running
<1>4. ASSUME List(p) PROVE Tallied(p)'
  <2>1. job'[p].count = job[p].count
    BY <1>4, <1>j DEF List, JobTypes
  <2> QED
    BY <1>4, <1>t, <2>1 DEF Running, List, Step, Goto
<1>5. ASSUME OpenStaging(p) PROVE Tallied(p)'
  <2> HIDE DEF Tallied
  <2>1. job'[p].count = 0 /\ pc'[p] = "stage a" /\ exists'
    <3>1. job[p].count = 0
      BY <1>5 DEF OpenStaging, Step, Tallied
    <3> QED
      BY <1>5, <1>t, <3>1 DEF OpenStaging, Step, Goto
  <2>2. todo'[p] \subseteq Names
    BY <1>5, PlanTypesMove DEF Moves, PlanTypes
  <2>3. Cardinality(Names \ todo'[p]) \in Nat
    BY <2>2, Listing
  <2>r. (pc[p] \in {"start", "leftover", "list", "mkdir"} => job[p].count = 0)'
    BY <2>1
  <2>4. job'[p].count = 0
    BY <2>1
  <2>5. (job[p].count <= Cardinality(Names \ todo[p]))'
    BY <2>3, <2>4
  <2>a. (pc[p] = "stage a" => job[p].count <= Cardinality(Names \ todo[p]))'
    BY <2>5
  <2>b. (pc[p] = "stage b" => job[p].count <= Cardinality(Names) + Cardinality(Names \ todo[p]))'
    BY <2>1
  <2>c. (job[p].count <= 2 * Cardinality(Names))'
    BY <1>c, <2>4
  <2>d. (job[p].count > 0 /\ Running(p) => exists)'
    BY <2>1
  <2> QED
    BY <2>r, <2>a, <2>b, <2>c, <2>d DEF Tallied
<1>6. ASSUME StageOtherSide(p) PROVE Tallied(p)'
  <2> HIDE DEF Tallied
  <2>1. job'[p].count = job[p].count /\ pc[p] = "stage a" /\ pc'[p] = "stage b" /\ exists' = exists
    BY <1>6, <1>t DEF StageOtherSide, Step, Goto
  <2>2. todo'[p] \subseteq Names
    BY <1>6, PlanTypesMove DEF Moves, PlanTypes
  <2>3. Cardinality(Names \ todo'[p]) \in Nat
    BY <2>2, Listing
  <2>4. job[p].count <= Cardinality(Names \ todo[p])
    BY <1>h, <2>1
  <2>5. (job[p].count <= Cardinality(Names) + Cardinality(Names \ todo[p]))'
    <3>1. job'[p].count = job[p].count
      BY <2>1
    <3> QED
      BY <1>t, <1>c, <2>3, <2>4, <3>1
  <2>r. (pc[p] \in {"start", "leftover", "list", "mkdir"} => job[p].count = 0)'
    BY <2>1
  <2>a. (pc[p] = "stage a" => job[p].count <= Cardinality(Names \ todo[p]))'
    BY <2>1
  <2>b. (pc[p] = "stage b" => job[p].count <= Cardinality(Names) + Cardinality(Names \ todo[p]))'
    BY <2>5
  <2>c. (job[p].count <= 2 * Cardinality(Names))'
    BY <2>1, <1>h
  <2>d. (job[p].count > 0 /\ Running(p) => exists)'
    BY <2>1, <1>h DEF Running
  <2> QED
    BY <2>r, <2>a, <2>b, <2>c, <2>d DEF Tallied
<1>7. ASSUME EndStaging(p) PROVE Tallied(p)'
  <2> HIDE DEF Tallied
  <2>1. job' = job /\ pc[p] = "stage b" /\ pc'[p] = "detachTarget" /\ (job[p].count # 0 => exists' = exists)
    BY <1>7, <1>t DEF EndStaging, Step, Goto
  <2>2. job[p].count > 0 => exists
    BY <1>h, <2>1 DEF Running
  <2>3. job[p].count > 0 => job[p].count # 0
    BY <1>t
  <2>r. (pc[p] \in {"start", "leftover", "list", "mkdir"} => job[p].count = 0)'
    BY <2>1
  <2>a. (pc[p] = "stage a" => job[p].count <= Cardinality(Names \ todo[p]))'
    BY <2>1
  <2>b. (pc[p] = "stage b" => job[p].count <= Cardinality(Names) + Cardinality(Names \ todo[p]))'
    BY <2>1
  <2>c. (job[p].count <= 2 * Cardinality(Names))'
    BY <2>1, <1>h
  <2>d. (job[p].count > 0 /\ Running(p) => exists)'
    <3>1. job'[p].count = job[p].count
      BY <2>1
    <3>2. ASSUME job[p].count > 0 PROVE exists'
      <4>1. exists' = exists
        BY <2>1, <2>3, <3>2
      <4>2. exists
        BY <2>2, <3>2
      <4> QED
        BY <4>1, <4>2
    <3> QED
      BY <3>1, <3>2
  <2> QED
    BY <2>r, <2>a, <2>b, <2>c, <2>d DEF Tallied
<1>8. ASSUME Detach(p, "detachTarget", "detachMain", job[p].target) PROVE Tallied(p)'
  BY <1>8, <1>t DEF Detach, Step, Goto, Running
<1>9. ASSUME Detach(p, "detachMain", "switchMain", Main) PROVE Tallied(p)'
  BY <1>9, <1>t DEF Detach, Step, Goto, Running
<1>10. ASSUME Switch(p, "switchMain", "switchTarget", Main, job[p].targetBranch) PROVE Tallied(p)'
  BY <1>10, <1>t DEF Switch, Step, Goto, Running
<1>11. ASSUME Switch(p, "switchTarget", IF job[p].count > 0 THEN "distribute b" ELSE "done",
                   job[p].target, job[p].mainBranch) PROVE Tallied(p)'
  BY <1>11, <1>t DEF Switch, Step, Goto, Running
<1>12. ASSUME DistributeOtherSide(p) PROVE Tallied(p)'
  BY <1>12, <1>t DEF DistributeOtherSide, Step, Goto, Running
<1>13. ASSUME RemoveStaging(p) PROVE Tallied(p)'
  BY <1>13, <1>t DEF RemoveStaging, DeleteStaging, Step, Goto, Running
<1>14. ASSUME NEW s \in Sides, NEW n \in Names, StageEntry(p, s, n) PROVE Tallied(p)'
  <2> HIDE DEF Tallied
  <2>1. /\ pc' = pc /\ pc[p] \in {"stage a", "stage b"} /\ n \in todo[p] /\ todo'[p] = todo[p] \ {n}
        /\ \/ job' = job /\ exists' = exists
           \/ job' = [job EXCEPT ![p].count = @ + 1] /\ exists' = TRUE
    BY <1>14, <1>j DEF StageEntry, Types, PlanTypes
  <2>2. Cardinality(Names \ todo'[p]) = Cardinality(Names \ todo[p]) + 1
    BY <1>t, <2>1, Listing
  <2>3. Cardinality(Names \ todo'[p]) <= Cardinality(Names)
    BY <1>t, <2>1, Listing
  <2>4. \/ job'[p].count = job[p].count /\ exists' = exists
        \/ job'[p].count = job[p].count + 1 /\ exists' = TRUE
    <3>1. CASE job' = job /\ exists' = exists
      BY <3>1
    <3>2. CASE job' = [job EXCEPT ![p].count = @ + 1] /\ exists' = TRUE
      <4>1. job'[p] = [job[p] EXCEPT !.count = @ + 1]
        BY <1>j, <3>2
      <4>2. job[p] \in JobTypes
        BY <1>j
      <4> QED
        BY <3>2, <4>1, <4>2 DEF JobTypes
    <3> QED
      BY <2>1, <3>1, <3>2
  <2>5. Running(p)
    BY <2>1 DEF Running
  <2>8. ASSUME pc[p] = "stage a"
       PROVE  (job[p].count <= Cardinality(Names \ todo[p]) /\ job[p].count <= 2 * Cardinality(Names))'
    <3>1. job[p].count <= Cardinality(Names \ todo[p])
      BY <1>h, <2>8
    <3> QED
      BY <1>t, <1>c, <3>1, <2>2, <2>3, <2>4
  <2>9. ASSUME pc[p] = "stage b"
       PROVE  (/\ job[p].count <= Cardinality(Names) + Cardinality(Names \ todo[p])
               /\ job[p].count <= 2 * Cardinality(Names))'
    <3>1. job[p].count <= Cardinality(Names) + Cardinality(Names \ todo[p])
      BY <1>h, <2>9
    <3> QED
      BY <1>t, <1>c, <3>1, <2>2, <2>3, <2>4
  <2>r. (pc[p] \in {"start", "leftover", "list", "mkdir"} => job[p].count = 0)'
    BY <2>1
  <2>a. (pc[p] = "stage a" => job[p].count <= Cardinality(Names \ todo[p]))'
    BY <2>1, <2>8
  <2>b. (pc[p] = "stage b" => job[p].count <= Cardinality(Names) + Cardinality(Names \ todo[p]))'
    BY <2>1, <2>9
  <2>c. (job[p].count <= 2 * Cardinality(Names))'
    BY <2>1, <2>8, <2>9
  <2>d. (job[p].count > 0 /\ Running(p) => exists)'
    BY <1>t, <1>h, <2>4, <2>5
  <2> QED
    BY <2>r, <2>a, <2>b, <2>c, <2>d DEF Tallied
<1>15. ASSUME NEW s \in Sides, NEW n \in Names, CopyToStagingFails(p, s, n) PROVE Tallied(p)'
  BY <1>15, <1>t DEF CopyToStagingFails, Step, Goto, Running
<1>16. ASSUME NEW s \in Sides, NEW n \in Names, DistributeEntry(p, s, n) PROVE Tallied(p)'
  BY <1>16, <1>t DEF DistributeEntry, Step, Goto, Running
<1>17. ASSUME NEW s \in Sides, NEW n \in Names, CopyFromStagingFails(p, s, n) PROVE Tallied(p)'
  BY <1>17, <1>t DEF CopyFromStagingFails, Step, Goto, Running
<1> QED
  BY <1>1, <1>2, <1>3, <1>4, <1>5, <1>6, <1>7, <1>8, <1>9, <1>10, <1>11, <1>12, <1>13, <1>14,
     <1>15, <1>16, <1>17
  DEF Moves, Exchange

LEMMA TypeInvStep == ASSUME ~Concurrent, TypeInv, [Next]_vars PROVE TypeInv'
<1> USE DEF TypeInv
<1>1. ASSUME NEW p \in Promoters, Moves(p) PROVE TypeInv'
  <2>1. Types'
    BY <1>1, PlaceTypesMove, FileTypesMove, PlanTypesMove DEF Types
  <2>2. Alone' /\ \A q \in Promoters \ {p} : ~Running(q)
    BY <1>1, AloneMove
  <2>3. builds' \in 0..MaxBuilds
    BY <1>1 DEF Moves, Exchange, Fail, Start, CheckLeftover, List, OpenStaging, StageOtherSide, EndStaging, Detach,
       Switch, DistributeOtherSide, RemoveStaging, StageEntry, CopyToStagingFails, DistributeEntry,
       CopyFromStagingFails
  <2>4. Tallied(p)'
    BY <1>1, TalliedMove
  <2>5. Still(p)
    BY <1>1, StillMove
  <2>6. \A q \in Promoters \ {p} : Tallied(q)'
    BY <2>2, <2>5 DEF Still, Tallied, Running
  <2> QED
    BY <2>1, <2>2, <2>3, <2>4, <2>6
<1>2. ASSUME NEW w \in Worktrees, NEW n \in Names, Build(w, n) PROVE TypeInv'
  <2>1. UNCHANGED <<head, staged, exists, pc, job, todo, owned>> /\ disk' = [disk EXCEPT ![w][n] = Fresh]
    BY <1>2 DEF Build
  <2>2. disk' \in [Worktrees -> [Names -> Content]]
    BY <2>1, Put DEF Types, FileTypes, Content
  <2>3. builds' \in 0..MaxBuilds
    BY <1>2, PromoteAssumption DEF Build
  <2>4. Types'
    BY <2>1, <2>2 DEF Types, PlaceTypes, FileTypes, PlanTypes
  <2>5. Alone' /\ \A p \in Promoters : Tallied(p)'
    BY <2>1 DEF Alone, Running, Tallied
  <2> QED
    BY <2>3, <2>4, <2>5
<1>3. CASE UNCHANGED vars
  <2>1. Types'
    BY <1>3 DEF vars, Types, PlaceTypes, FileTypes, PlanTypes
  <2>2. Alone' /\ builds' \in 0..MaxBuilds /\ \A p \in Promoters : Tallied(p)'
    BY <1>3 DEF vars, Alone, Running, Tallied
  <2> QED
    BY <2>1, <2>2
<1> QED
  BY <1>1, <1>2, <1>3 DEF Next, Moves

\* Every variable keeps its type when promotes follow one another; no worktree has more to stage than
\* there are names, and who has staged something still has the directory (handle_promote).
THEOREM TypeCorrect == ASSUME ~Concurrent PROVE Spec => []TypeOK
<1>1. Init => TypeInv
  <2> SUFFICES ASSUME Init PROVE TypeInv
    OBVIOUS
  <2>1. Types /\ Alone
    BY InvInit DEF IInv
  <2>2. builds \in 0..MaxBuilds
    BY PromoteAssumption DEF Init
  <2>3. ASSUME NEW p \in Promoters PROVE Tallied(p)
    <3>1. job[p].count = 0 /\ pc[p] = "start"
      BY DEF Init, Jobs
    <3>2. Cardinality(Names) \in Nat
      BY Listing
    <3> QED
      BY <3>1, <3>2 DEF Tallied
  <2> QED
    BY <2>1, <2>2, <2>3 DEF TypeInv
<1>2. TypeInv /\ [Next]_vars => TypeInv'
  BY TypeInvStep
<1>3. TypeInv => TypeOK
  <2> SUFFICES ASSUME TypeInv PROVE TypeOK
    OBVIOUS
  <2>1. ASSUME NEW p \in Promoters PROVE job[p] \in Jobs
    <3>1. job[p] \in JobTypes /\ job[p].count <= 2 * Cardinality(Names) /\ Cardinality(Names) \in Nat
      BY Listing DEF TypeInv, Types, PlanTypes, Tallied
    <3>2. job[p].count \in 0..(2 * Cardinality(Names))
      BY <3>1 DEF JobTypes
    <3> QED
      BY <3>1, <3>2 DEF JobTypes, Jobs
  <2>2. job \in [Promoters -> Jobs]
    BY <2>1 DEF TypeInv, Types, PlanTypes
  <2> QED
    BY <2>2 DEF TypeInv, TypeOK, Types, PlaceTypes, FileTypes, PlanTypes, Tallied
<1> QED
  BY <1>1, <1>2, <1>3, PTL DEF Spec
===============================================================================
