----------------------------- MODULE PruneProofs ------------------------------
(***************************************************************************)
(* Prune for every number of items, workers and changes by others: nothing *)
(* newer than the scan is destroyed, the interruption of one branch        *)
(* deletion stops the others, and the command implements PrunePromise.     *)
(***************************************************************************)
EXTENDS Prune, SequenceTheorems, TLAPS

Verdicts == {"remove", "keep", "print", "error", "interrupt"}
VerdictMessages == [item : Items, verdict : Verdicts]
Results == [item : Items, said : SUBSET Parts, err : BOOLEAN]
Labels == Removing \cup {"receive", "drain", "over", "idle", "print", "exited", "gate", "failed"}

\* What is on its way in a channel, and that nothing is in it twice.
Elems(s) == {s[k] : k \in 1..Len(s)}
ItemsIn(s) == {e.item : e \in Elems(s)}
ItemsOnce(s) == \A j, k \in 1..Len(s) : s[j].item = s[k].item => j = k
JobsOnce(s) == \A j, k \in 1..Len(s) : s[j] = s[k] /\ s[j] # None => j = k

Waiting == ItemsIn(verdicts)
Queued == Elems(jobs) \ {None}
Finished == ItemsIn(done)
EachOnce == ItemsOnce(verdicts) /\ JobsOnce(jobs) /\ ItemsOnce(done)

\* A thread has an item exactly while it removes it, and nothing to say otherwise.
Busy == Removing \cup {"gate", "failed"}
Held(i) == \E t \in Threads : job[t] = i

ThreadInv ==
    \A t \in Threads :
        /\ pc[t] \in Busy <=> job[t] # None
        /\ job[t] = None => said[t] = {}
        /\ job[t] = Current <=> t = Main /\ job[Main] # None
        /\ \A u \in Threads : job[t] = job[u] /\ job[t] # None => t = u
        /\ pc[t] \in {"hook", "stage"} => kind[job[t]] = "linked"
        /\ pc[t] \in {"gate", "hook", "stage", "prune"} => said[t] = {}
        /\ pc[t] \in {"capture", "topology", "mutex", "update", "classify"} => "branch" \notin said[t]
        /\ t \in Workers => pc[t] \notin {"receive", "drain", "over"}

MainInv ==
    /\ pc[Main] \notin {"idle", "print", "exited"}
    /\ deferred \in {None, Current}
    /\ pc[Main] \notin {"receive", "drain"} =>
          /\ \A w \in Workers : pc[w] = "exited"
          /\ done = <<>>
    /\ pc[Main] # "receive" => checked = Items /\ verdicts = <<>>
    /\ job[Main] # None => ~err

\* An item is in one place: not yet checked, a verdict, a queued job, with a thread, or a result.
PlaceInv ==
    /\ Waiting \subseteq checked
    /\ \A i \in Queued \cup Finished : i # Current /\ i \in checked \ Waiting
    /\ Queued \cap Finished = {}
    /\ \A t \in Threads : job[t] # None => job[t] \in checked \ (Waiting \cup Queued \cup Finished)

\* What this command certainly took of an item.
Sure(i) == IF i \in killed THEN took[i] \ {"branch"} ELSE took[i]
Fresh(i) == took[i] = {} /\ removed[i] = {} /\ i \notin killed

\* What was taken is what the thread, the result or the report says, wherever the item is.
AccountInv ==
    /\ \A i \in Items :
        /\ i \notin checked \/ i \in Waiting \cup Queued => Fresh(i)
        /\ i = Current /\ pc[Main] \in {"receive", "drain"} => Fresh(i)
        /\ Held(i) \/ i \in Finished => removed[i] = {}
        /\ ~Held(i) /\ i \notin Finished => Sure(i) = removed[i] /\ (i \in killed => err)
    /\ \A t \in Threads : job[t] # None =>
          Sure(job[t]) = said[t] /\ (job[t] \in killed => pc[t] = "failed")
    /\ \A e \in Elems(done) : Sure(e.item) = e.said /\ (e.item \in killed => e.err)

\* One branch deletion at a time, none once one was interrupted, and that one is on record.
LatchInv ==
    /\ \A t, u \in Threads : {pc[t], pc[u]} \subseteq {"update", "classify"} => t = u
    /\ latched =>
          /\ \A t \in Threads : pc[t] \notin {"update", "classify"}
          /\ \/ \E t \in Threads : pc[t] = "failed"
             \/ \E e \in Elems(done) : e.err
             \/ err

(* ---- what the channels hold ---- *)

LEMMA ElemsOfTail ==
    ASSUME NEW S, NEW s \in Seq(S), s # <<>>
    PROVE  /\ Head(s) \in S /\ Tail(s) \in Seq(S)
           /\ Len(s) \in Nat /\ Len(s) >= 1 /\ Len(Tail(s)) = Len(s) - 1
           /\ Head(s) = s[1] /\ \A k \in 1..Len(s) - 1 : Tail(s)[k] = s[k + 1]
           /\ Elems(s) = Elems(Tail(s)) \cup {Head(s)}
<1>1. Len(s) \in Nat /\ Len(s) >= 1 /\ Len(Tail(s)) = Len(s) - 1
  BY EmptySeq, LenProperties, HeadTailProperties
<1>2. Head(s) = s[1] /\ Head(s) \in S /\ Tail(s) \in Seq(S)
  BY HeadTailProperties
<1>3. \A k \in 1..Len(s) - 1 : Tail(s)[k] = s[k + 1]
  BY <1>1, HeadTailProperties
<1>4. \A k \in 1..Len(s) : k = 1 \/ (k - 1 \in 1..Len(s) - 1 /\ (k - 1) + 1 = k)
  BY <1>1
<1>5. \A k \in 1..Len(s) - 1 : k + 1 \in 1..Len(s)
  BY <1>1
<1>6. 1 \in 1..Len(s)
  BY <1>1
<1>7. ASSUME NEW e PROVE e \in Elems(s) <=> e \in Elems(Tail(s)) \cup {Head(s)}
  <2>1. ASSUME NEW k \in 1..Len(s), e = s[k] PROVE e \in Elems(Tail(s)) \cup {Head(s)}
    <3>1. CASE k = 1
      BY <2>1, <3>1, <1>2
    <3>2. CASE k # 1
      <4>1. k - 1 \in 1..Len(s) - 1 /\ Tail(s)[k - 1] = s[k]
        BY <3>2, <1>3, <1>4
      <4> QED
        BY <4>1, <2>1, <1>1 DEF Elems
    <3> QED
      BY <3>1, <3>2
  <2>2. ASSUME e \in Elems(Tail(s)) PROVE e \in Elems(s)
    <3>1. PICK k \in 1..Len(s) - 1 : e = Tail(s)[k]
      BY <2>2, <1>1 DEF Elems
    <3>2. e = s[k + 1] /\ k + 1 \in 1..Len(s)
      BY <3>1, <1>3, <1>5
    <3> QED
      BY <3>2 DEF Elems
  <2>3. Head(s) \in Elems(s)
    BY <1>2, <1>6 DEF Elems
  <2> QED
    BY <2>1, <2>2, <2>3 DEF Elems
<1> QED
  BY <1>1, <1>2, <1>3, <1>7

LEMMA ElemsOfAppend ==
    ASSUME NEW S, NEW s \in Seq(S), NEW e \in S
    PROVE  /\ Append(s, e) \in Seq(S)
           /\ Len(s) \in Nat /\ Len(Append(s, e)) = Len(s) + 1
           /\ Append(s, e)[Len(s) + 1] = e
           /\ \A k \in 1..Len(s) : Append(s, e)[k] = s[k]
           /\ Elems(Append(s, e)) = Elems(s) \cup {e}
<1>1. Len(s) \in Nat /\ Append(s, e) \in Seq(S) /\ Len(Append(s, e)) = Len(s) + 1
  BY LenProperties, AppendProperties
<1>2. Append(s, e)[Len(s) + 1] = e /\ \A k \in 1..Len(s) : Append(s, e)[k] = s[k]
  BY AppendProperties
<1>3. 1..Len(s) + 1 = 1..Len(s) \cup {Len(s) + 1}
  BY <1>1
<1>4. Elems(Append(s, e)) = {Append(s, e)[k] : k \in 1..Len(s)} \cup {Append(s, e)[Len(s) + 1]}
  BY <1>1, <1>3 DEF Elems
<1>5. {Append(s, e)[k] : k \in 1..Len(s)} = Elems(s)
  BY <1>2 DEF Elems
<1> QED
  BY <1>1, <1>2, <1>4, <1>5

LEMMA ItemsOfTail ==
    ASSUME NEW S, NEW s \in Seq(S), s # <<>>, ItemsOnce(s)
    PROVE  /\ ItemsOnce(Tail(s))
           /\ ItemsIn(s) = ItemsIn(Tail(s)) \cup {Head(s).item}
           /\ Head(s).item \notin ItemsIn(Tail(s))
<1> DEFINE n == Len(s) - 1
<1>1. Len(s) \in Nat /\ Len(s) >= 1 /\ Len(Tail(s)) = n /\ Head(s) = s[1]
  BY ElemsOfTail
<1>2. \A k \in 1..n : Tail(s)[k] = s[k + 1] /\ k + 1 \in 1..Len(s) /\ k + 1 # 1
  BY <1>1, ElemsOfTail
<1>3. ItemsOnce(Tail(s))
  <2>1. SUFFICES ASSUME NEW j \in 1..n, NEW k \in 1..n, Tail(s)[j].item = Tail(s)[k].item
                 PROVE  j = k
    BY <1>1 DEF ItemsOnce
  <2>2. j + 1 = k + 1
    BY <2>1, <1>2 DEF ItemsOnce
  <2> QED
    BY <2>2, <1>1
<1>4. Elems(s) = Elems(Tail(s)) \cup {Head(s)}
  BY ElemsOfTail
<1>5. ItemsIn(s) = ItemsIn(Tail(s)) \cup {Head(s).item}
  BY <1>4 DEF ItemsIn
<1>6. Head(s).item \notin ItemsIn(Tail(s))
  <2>1. SUFFICES ASSUME NEW k \in 1..n, Head(s).item = Tail(s)[k].item PROVE FALSE
    BY <1>1 DEF ItemsIn, Elems
  <2>2. 1 \in 1..Len(s)
    BY <1>1
  <2>3. 1 = k + 1
    BY <2>1, <2>2, <1>1, <1>2 DEF ItemsOnce
  <2> QED
    BY <2>3, <1>2
<1> QED
  BY <1>3, <1>5, <1>6

LEMMA ItemsOfAppend ==
    ASSUME NEW S, NEW s \in Seq(S), NEW e \in S, ItemsOnce(s), e.item \notin ItemsIn(s)
    PROVE  ItemsOnce(Append(s, e)) /\ ItemsIn(Append(s, e)) = ItemsIn(s) \cup {e.item}
<1>1. /\ Len(s) \in Nat /\ Len(Append(s, e)) = Len(s) + 1
      /\ Append(s, e)[Len(s) + 1] = e
      /\ \A k \in 1..Len(s) : Append(s, e)[k] = s[k]
  BY ElemsOfAppend
<1>2. Elems(Append(s, e)) = Elems(s) \cup {e}
  BY ElemsOfAppend
<1>3. \A k \in 1..Len(s) + 1 : k \in 1..Len(s) \/ k = Len(s) + 1
  BY <1>1
<1>4. \A k \in 1..Len(s) : s[k].item # e.item
  BY DEF ItemsIn, Elems
<1>5. ItemsOnce(Append(s, e))
  <2>1. SUFFICES ASSUME NEW j \in 1..Len(s) + 1, NEW k \in 1..Len(s) + 1,
                        Append(s, e)[j].item = Append(s, e)[k].item
                 PROVE  j = k
    BY <1>1 DEF ItemsOnce
  <2>2. CASE j \in 1..Len(s) /\ k \in 1..Len(s)
    BY <2>1, <2>2, <1>1 DEF ItemsOnce
  <2>3. CASE j = Len(s) + 1 \/ k = Len(s) + 1
    BY <2>1, <2>3, <1>1, <1>3, <1>4
  <2> QED
    BY <2>2, <2>3, <1>3
<1> QED
  BY <1>2, <1>5 DEF ItemsIn

LEMMA JobsOfTail ==
    ASSUME NEW S, NEW s \in Seq(S), s # <<>>, JobsOnce(s)
    PROVE  JobsOnce(Tail(s)) /\ (Head(s) # None => Head(s) \notin Elems(Tail(s)))
<1> DEFINE n == Len(s) - 1
<1>1. Len(s) \in Nat /\ Len(s) >= 1 /\ Len(Tail(s)) = n /\ Head(s) = s[1]
  BY ElemsOfTail
<1>2. \A k \in 1..n : Tail(s)[k] = s[k + 1] /\ k + 1 \in 1..Len(s) /\ k + 1 # 1
  BY <1>1, ElemsOfTail
<1>3. JobsOnce(Tail(s))
  <2>1. SUFFICES ASSUME NEW j \in 1..n, NEW k \in 1..n,
                        Tail(s)[j] = Tail(s)[k], Tail(s)[j] # None
                 PROVE  j = k
    BY <1>1 DEF JobsOnce
  <2>2. j + 1 = k + 1
    BY <2>1, <1>2 DEF JobsOnce
  <2> QED
    BY <2>2, <1>1
<1>4. ASSUME Head(s) # None, Head(s) \in Elems(Tail(s)) PROVE FALSE
  <2>1. PICK k \in 1..n : Head(s) = Tail(s)[k]
    BY <1>1, <1>4 DEF Elems
  <2>2. 1 \in 1..Len(s)
    BY <1>1
  <2>3. 1 = k + 1
    BY <2>1, <2>2, <1>1, <1>2, <1>4 DEF JobsOnce
  <2> QED
    BY <2>3, <1>2
<1> QED
  BY <1>3, <1>4

LEMMA JobsOfAppend ==
    ASSUME NEW S, NEW s \in Seq(S), NEW e \in S, JobsOnce(s), e \notin Elems(s) \ {None}
    PROVE  JobsOnce(Append(s, e))
<1>1. /\ Len(s) \in Nat /\ Len(Append(s, e)) = Len(s) + 1
      /\ Append(s, e)[Len(s) + 1] = e
      /\ \A k \in 1..Len(s) : Append(s, e)[k] = s[k]
  BY ElemsOfAppend
<1>2. \A k \in 1..Len(s) + 1 : k \in 1..Len(s) \/ k = Len(s) + 1
  BY <1>1
<1>3. \A k \in 1..Len(s) : s[k] # None => s[k] # e
  BY DEF Elems
<1>4. SUFFICES ASSUME NEW j \in 1..Len(s) + 1, NEW k \in 1..Len(s) + 1,
                      Append(s, e)[j] = Append(s, e)[k], Append(s, e)[j] # None
               PROVE  j = k
  BY <1>1 DEF JobsOnce
<1>5. CASE j \in 1..Len(s) /\ k \in 1..Len(s)
  BY <1>4, <1>5, <1>1 DEF JobsOnce
<1>6. CASE j = Len(s) + 1 \/ k = Len(s) + 1
  BY <1>4, <1>6, <1>1, <1>2, <1>3
<1> QED
  BY <1>5, <1>6, <1>2

IInv == TypeOK /\ EachOnce /\ ThreadInv /\ MainInv /\ PlaceInv /\ AccountInv /\ LatchInv

(* ---- types ---- *)

LEMMA TypeInit == Init => TypeOK
<1> SUFFICES ASSUME Init PROVE TypeOK
  OBVIOUS
<1>1. kind \in [Items -> Kinds] /\ branch \in [Items -> Branches \cup {None}] /\ foreground \in BOOLEAN
  BY PruneAssumption DEF Init
<1>2. at \in [Items -> {"live", "stale", "gone"}]
  BY DEF Init
<1>3. ref \in [Branches -> {"merged", "moved", "gone"}] /\ changes \in 0..MaxChanges
  BY PruneAssumption DEF Init
<1>4. pc \in [Threads -> Labels]
  BY DEF Init, Labels
<1>5. verdicts \in Seq(VerdictMessages) /\ jobs \in Seq(Items \cup {None}) /\ done \in Seq(Results)
  BY EmptySeq DEF Init
<1> QED
  BY <1>1, <1>2, <1>3, <1>4, <1>5 DEF Init, TypeOK, Labels, VerdictMessages, Verdicts, Results

LEMMA TypeStep == TypeOK /\ ThreadInv /\ [Next]_vars => TypeOK'
<1> SUFFICES ASSUME TypeOK, ThreadInv, [Next]_vars PROVE TypeOK'
  OBVIOUS
<1> USE PruneAssumption
    DEF TypeOK, items, world, channels, stops, threads, report, history, Removing, Threads
<1>1. ASSUME NEW i \in Items, Write(i) PROVE TypeOK'
  <2>1. changes' \in 0..MaxChanges
    BY <1>1 DEF Write, Change
  <2> QED
    BY <1>1, <2>1 DEF Write, Change
<1>2. ASSUME NEW b \in Branches, MoveBranch(b) PROVE TypeOK'
  <2>1. changes' \in 0..MaxChanges
    BY <1>2 DEF MoveBranch, Change
  <2> QED
    BY <1>2, <2>1 DEF MoveBranch, Change
<1>3. ASSUME NEW b \in Branches, DropBranch(b) PROVE TypeOK'
  <2>1. changes' \in 0..MaxChanges
    BY <1>3 DEF DropBranch, Change
  <2> QED
    BY <1>3, <2>1 DEF DropBranch, Change
<1>4. ASSUME NEW i \in Items, Return(i) PROVE TypeOK'
  <2>1. changes' \in 0..MaxChanges
    BY <1>4 DEF Return, Change
  <2> QED
    BY <1>4, <2>1 DEF Return, Change
<1>5. ASSUME Interrupt PROVE TypeOK'
  BY <1>5 DEF Interrupt
<1>6. ASSUME NEW i \in Items, Check(i) PROVE TypeOK'
  <2>1. PICK v \in Verdicts : verdicts' = Append(verdicts, [item |-> i, verdict |-> v])
    BY <1>6 DEF Check, Verdicts
  <2>2. [item |-> i, verdict |-> v] \in VerdictMessages
    BY DEF VerdictMessages
  <2>3. verdicts' \in Seq(VerdictMessages)
    BY <2>1, <2>2, ElemsOfAppend DEF VerdictMessages, Verdicts
  <2>4. checked' \subseteq Items
    BY <1>6 DEF Check
  <2> QED
    BY <1>6, <2>3, <2>4 DEF Check, VerdictMessages, Verdicts
<1>7. ASSUME Receive PROVE TypeOK'
  <2>1. Head(verdicts) \in VerdictMessages /\ verdicts' \in Seq(VerdictMessages)
    BY <1>7, ElemsOfTail DEF Receive, VerdictMessages, Verdicts
  <2> DEFINE i == Head(verdicts).item
             v == Head(verdicts).verdict
             failed == v \in {"error", "interrupt"}
  <2>2. i \in Items
    BY <2>1 DEF VerdictMessages
  <2>3. jobs' \in {jobs, Append(jobs, i), Append(jobs, None)}
    BY <1>7 DEF Receive
  <2>4. jobs' \in Seq(Items \cup {None})
    <3>1. i \in Items \cup {None} /\ None \in Items \cup {None} /\ jobs \in Seq(Items \cup {None})
      BY <2>2
    <3>2. /\ Append(jobs, i) \in Seq(Items \cup {None})
          /\ Append(jobs, None) \in Seq(Items \cup {None})
      BY <3>1, ElemsOfAppend
    <3> QED
      BY <2>3, <3>1, <3>2
  <2>5. deferred' \in Items \cup {None}
    BY <1>7, <2>2 DEF Receive
  <2>6. abort' \in BOOLEAN /\ err' \in BOOLEAN /\ cancelled' \in BOOLEAN
    <3> DEFINE h == Head(verdicts).verdict
    <3>1. /\ abort' = (abort \/ h \in {"error", "interrupt"})
          /\ err' = (err \/ h \in {"error", "interrupt"})
          /\ cancelled' = (cancelled \/ h = "interrupt")
      BY <1>7 DEF Receive
    <3> QED
      BY <3>1
  <2> QED
    BY <1>7, <2>1, <2>4, <2>5, <2>6 DEF Receive, VerdictMessages, Verdicts
<1>8. ASSUME EndOfScan PROVE TypeOK'
  BY <1>8 DEF EndOfScan, Step, Goto, Removing
<1>9. ASSUME Drain PROVE TypeOK'
  <2>1. Head(done) \in Results /\ done' \in Seq(Results)
    BY <1>9, ElemsOfTail DEF Drain, Results
  <2>2. Head(done).item \in Items /\ Head(done).said \in SUBSET Parts /\ Head(done).err \in BOOLEAN
    BY <2>1 DEF Results
  <2>3. removed' \in [Items -> SUBSET Parts] /\ err' \in BOOLEAN
    BY <1>9, <2>2 DEF Drain, Record
  <2> QED
    BY <1>9, <2>1, <2>3 DEF Drain, Results
<1>10. ASSUME StartLast PROVE TypeOK'
  <2>1. pc' \in [Threads -> Labels] /\ job' \in [Threads -> Items \cup {None}]
    BY <1>10 DEF StartLast, Goto, Labels
  <2> QED
    BY <1>10, <2>1 DEF StartLast, Labels
<1>11. ASSUME NEW w \in Workers, TakeJob(w) PROVE TypeOK'
  <2>1. Head(jobs) \in Items \cup {None} /\ jobs' \in Seq(Items \cup {None})
    BY <1>11, ElemsOfTail DEF TakeJob
  <2>2. pc' \in [Threads -> Labels] /\ job' \in [Threads -> Items \cup {None}]
    BY <1>11, <2>1, ZenonT(60) DEF TakeJob, Goto, Labels, Threads
  <2> QED
    BY <1>11, <2>1, <2>2 DEF TakeJob, Labels
<1>12. ASSUME NEW w \in Workers, PrintSkip(w) PROVE TypeOK'
  BY <1>12 DEF PrintSkip, Step, Goto, Removing
<1>13. ASSUME NEW w \in Workers, Exit(w) PROVE TypeOK'
  BY <1>13 DEF Exit, Step, Goto, Removing
<1>14. ASSUME NEW t \in Threads, Gate(t) PROVE TypeOK'
  BY <1>14, ZenonT(60) DEF Gate, Goto, FirstStep, Removing
<1>15. ASSUME NEW t \in Threads, Hook(t) PROVE TypeOK'
  BY <1>15 DEF Hook, Step, Goto, Removing
<1>16. ASSUME NEW t \in Threads, Stage(t) PROVE TypeOK'
  <2>1. job[t] \in Items
    BY <1>16 DEF Stage, Step, ThreadInv, Busy, Removing
  <2>2. took' \in [Items -> SUBSET Parts] /\ said' \in [Threads -> SUBSET Parts]
    BY <1>16, <2>1 DEF Stage, Take, Parts
  <2> QED
    BY <1>16, <2>1, <2>2 DEF Stage, Step, Goto, AfterTree
<1>17. ASSUME NEW t \in Threads, HandOver(t) PROVE TypeOK'
  <2>1. took' \in [Items -> SUBSET Parts] /\ said' \in [Threads -> SUBSET Parts]
    <3> DEFINE parts == {"tree"} \cup {p \in {"branch"} : Deletes(Current) /\ Ref(Current) = "merged"}
    <3>1. parts \in SUBSET Parts
      BY DEF Parts
    <3>2. took' = [took EXCEPT ![Current] = parts] /\ said' = [said EXCEPT ![t] = parts]
      BY <1>17 DEF HandOver
    <3> QED
      BY <3>1, <3>2
  <2> QED
    BY <1>17, <2>1 DEF HandOver, Step, Goto
<1>18. ASSUME NEW t \in Threads, PruneEntry(t) PROVE TypeOK'
  <2>1. job[t] \in Items
    BY <1>18 DEF PruneEntry, Step, ThreadInv, Busy, Removing
  <2>2. took' \in [Items -> SUBSET Parts] /\ said' \in [Threads -> SUBSET Parts]
    BY <1>18, <2>1 DEF PruneEntry, Take, Parts
  <2> QED
    BY <1>18, <2>1, <2>2 DEF PruneEntry, Step, Goto, AfterTree
<1>19. ASSUME NEW t \in Threads, Capture(t) PROVE TypeOK'
  BY <1>19 DEF Capture, Goto, Removing
<1>20. ASSUME NEW t \in Threads, Topology(t) PROVE TypeOK'
  BY <1>20 DEF Topology, Goto, Removing
<1>21. ASSUME NEW t \in Threads, LockDeletions(t) PROVE TypeOK'
  BY <1>21 DEF LockDeletions, Goto, Removing
<1>22. ASSUME NEW t \in Threads, DeleteRef(t) PROVE TypeOK'
  <2>1. job[t] \in Items
    BY <1>22 DEF DeleteRef, Step, ThreadInv, Busy, Removing
  <2>2. took' \in [Items -> SUBSET Parts] /\ said' \in [Threads -> SUBSET Parts]
    BY <1>22, <2>1 DEF DeleteRef, Take, Parts
  <2> QED
    BY <1>22, <2>1, <2>2 DEF DeleteRef, Step, Goto
<1>23. ASSUME NEW t \in Threads, DeleteRefuses(t) PROVE TypeOK'
  BY <1>23 DEF DeleteRefuses, Step, Goto, Removing
<1>24. ASSUME NEW t \in Threads, Classify(t) PROVE TypeOK'
  BY <1>24 DEF Classify, Step, Goto, Removing
<1>25. ASSUME NEW t \in Threads, DeletionKilled(t) PROVE TypeOK'
  <2>1. job[t] \in Items
    BY <1>25 DEF DeletionKilled, ThreadInv, Busy, Removing
  <2>2. took' \in [Items -> SUBSET Parts] /\ killed' \subseteq Items
    BY <1>25, <2>1 DEF DeletionKilled, Parts
  <2>3. ref' \in [Branches -> {"merged", "moved", "gone"}]
    BY <1>25 DEF DeletionKilled
  <2> QED
    BY <1>25, <2>2, <2>3 DEF DeletionKilled, Goto
<1>26. ASSUME NEW t \in Threads, Fail(t) PROVE TypeOK'
  <2>1. signalled' \in [Threads -> BOOLEAN]
    BY <1>26 DEF Fail
  <2> QED
    BY <1>26, <2>1 DEF Fail, Goto
<1>27. ASSUME NEW t \in Threads, Succeed(t) PROVE TypeOK'
  <2>1. job[t] \in Items /\ said[t] \in SUBSET Parts
    BY <1>27 DEF Succeed, ThreadInv, Busy, Removing
  <2>2. CASE t = Main
    <3>1. removed' \in [Items -> SUBSET Parts] /\ err' \in BOOLEAN
      <4>1. removed' = [removed EXCEPT ![job[t]] = removed[job[t]] \cup said[t]]
        BY <1>27, <2>2 DEF Succeed, Result, Record
      <4>2. removed' \in [Items -> SUBSET Parts]
        BY <2>1, <4>1
      <4>3. err' = (err \/ FALSE)
        BY <1>27, <2>2 DEF Succeed, Result
      <4> QED
        BY <4>2, <4>3
    <3> QED
      BY <1>27, <2>2, <3>1 DEF Succeed, Result, Goto
  <2>3. CASE t # Main
    <3>1. [item |-> job[t], said |-> said[t], err |-> FALSE] \in Results
      BY <2>1 DEF Results
    <3>2. done' \in Seq(Results)
      <4>1. done' = Append(done, [item |-> job[t], said |-> said[t], err |-> FALSE]) /\ done \in Seq(Results)
        BY <1>27, <2>3 DEF Succeed, Result, Results
      <4> QED
        BY <3>1, <4>1, ElemsOfAppend
    <3> QED
      BY <1>27, <2>3, <3>2 DEF Succeed, Result, Goto, Results
  <2> QED
    BY <2>2, <2>3
<1>28. ASSUME NEW t \in Threads, ReportFailure(t) PROVE TypeOK'
  <2>1. job[t] \in Items /\ said[t] \in SUBSET Parts
    BY <1>28 DEF ReportFailure, ThreadInv, Busy, Removing
  <2>2. CASE t = Main
    <3>1. removed' \in [Items -> SUBSET Parts] /\ err' \in BOOLEAN
      <4>1. removed' = [removed EXCEPT ![job[t]] = removed[job[t]] \cup said[t]]
        BY <1>28, <2>2 DEF ReportFailure, Result, Record
      <4>2. removed' \in [Items -> SUBSET Parts]
        BY <2>1, <4>1
      <4>3. err' = (err \/ TRUE)
        BY <1>28, <2>2 DEF ReportFailure, Result
      <4> QED
        BY <4>2, <4>3
    <3> QED
      BY <1>28, <2>2, <3>1 DEF ReportFailure, Result, Goto
  <2>3. CASE t # Main
    <3>1. [item |-> job[t], said |-> said[t], err |-> TRUE] \in Results
      BY <2>1 DEF Results
    <3>2. done' \in Seq(Results)
      <4>1. done' = Append(done, [item |-> job[t], said |-> said[t], err |-> TRUE]) /\ done \in Seq(Results)
        BY <1>28, <2>3 DEF ReportFailure, Result, Results
      <4> QED
        BY <3>1, <4>1, ElemsOfAppend
    <3> QED
      BY <1>28, <2>3, <3>2 DEF ReportFailure, Result, Goto, Results
  <2> QED
    BY <2>2, <2>3
<1>29. CASE UNCHANGED vars
  BY <1>29 DEF vars
<1> QED
  BY <1>1, <1>2, <1>3, <1>4, <1>5, <1>6, <1>7, <1>8, <1>9, <1>10, <1>11, <1>12, <1>13, <1>14,
     <1>15, <1>16, <1>17, <1>18, <1>19, <1>20, <1>21, <1>22, <1>23, <1>24, <1>25, <1>26, <1>27,
     <1>28, <1>29 DEF Next, Environment, Command, MainStep, WorkerStep, Remove

(* ---- kinds of steps ---- *)

\* Steps of others, which no bookkeeping of the command sees.
Quiet == UNCHANGED <<items, channels, abort, latched, threads, report, history>>

\* A thread goes on with its removal.
Progress(t) ==
    /\ pc[t] \in Busy /\ pc'[t] \in Busy
    /\ \A u \in Threads \ {t} : pc'[u] = pc[u] /\ said'[u] = said[u]
    /\ UNCHANGED <<items, channels, job, report>>

\* A thread is through with its removal, with or without an error.
Ended(t, e) ==
    /\ pc[t] = IF e THEN "failed" ELSE "finish"
    /\ Result(t, e)
    /\ job' = [job EXCEPT ![t] = None] /\ said' = [said EXCEPT ![t] = {}]
    /\ UNCHANGED <<items, checked, verdicts, jobs, latched, history>>

Removal(t) ==
    \/ Gate(t) \/ Hook(t) \/ Stage(t) \/ HandOver(t) \/ PruneEntry(t)
    \/ Capture(t) \/ Topology(t) \/ LockDeletions(t) \/ DeleteRef(t) \/ DeleteRefuses(t) \/ Classify(t)
    \/ DeletionKilled(t) \/ Fail(t)

LEMMA QuietSteps == Environment \/ Interrupt \/ UNCHANGED vars => Quiet
BY DEF Environment, Write, Return, MoveBranch, DropBranch, Change, Interrupt, vars, Quiet,
       items, channels, stops, threads, report, history

LEMMA EndedSteps ==
    ASSUME NEW t \in Threads
    PROVE  (Succeed(t) => Ended(t, FALSE)) /\ (ReportFailure(t) => Ended(t, TRUE))
BY DEF Succeed, ReportFailure, Ended, stops

LEMMA StepKinds ==
    ASSUME [Next]_vars
    PROVE  \/ Quiet
           \/ \E i \in Items : Check(i)
           \/ Receive \/ EndOfScan \/ Drain \/ StartLast
           \/ \E w \in Workers : TakeJob(w) \/ PrintSkip(w) \/ Exit(w)
           \/ \E t \in Threads : Removal(t) \/ \E e \in BOOLEAN : Ended(t, e)
<1>1. \/ Environment \/ Interrupt \/ UNCHANGED vars
      \/ \E i \in Items : Check(i)
      \/ Receive \/ EndOfScan \/ Drain \/ StartLast
      \/ \E w \in Workers : TakeJob(w) \/ PrintSkip(w) \/ Exit(w)
      \/ \E t \in Threads : Removal(t) \/ Succeed(t) \/ ReportFailure(t)
  BY Zenon DEF Next, Command, MainStep, WorkerStep, Remove, Removal, Threads
<1> QED
  BY <1>1, QuietSteps, EndedSteps

LEMMA ProgressSteps ==
    ASSUME TypeOK, NEW t \in Threads, Removal(t)
    PROVE  Progress(t)
<1> USE DEF TypeOK, Progress, Busy, Removing, items, channels, threads, report, Goto, Step
<1>1. ASSUME Gate(t) PROVE Progress(t)
  BY <1>1 DEF Gate, FirstStep
<1>2. ASSUME Hook(t) PROVE Progress(t)
  BY <1>2 DEF Hook
<1>3. ASSUME Stage(t) PROVE Progress(t)
  <2>1. \A u \in Threads \ {t} : said'[u] = said[u]
    BY <1>3 DEF Stage, Take
  <2> QED
    BY <1>3, <2>1 DEF Stage, AfterTree
<1>4. ASSUME HandOver(t) PROVE Progress(t)
  BY <1>4 DEF HandOver
<1>5. ASSUME PruneEntry(t) PROVE Progress(t)
  <2>1. \A u \in Threads \ {t} : said'[u] = said[u]
    BY <1>5 DEF PruneEntry, Take
  <2> QED
    BY <1>5, <2>1 DEF PruneEntry, AfterTree
<1>6. ASSUME Capture(t) PROVE Progress(t)
  BY <1>6 DEF Capture
<1>7. ASSUME Topology(t) PROVE Progress(t)
  BY <1>7 DEF Topology
<1>8. ASSUME LockDeletions(t) PROVE Progress(t)
  BY <1>8 DEF LockDeletions
<1>9. ASSUME DeleteRef(t) PROVE Progress(t)
  <2>1. \A u \in Threads \ {t} : said'[u] = said[u]
    BY <1>9 DEF DeleteRef, Take
  <2> QED
    BY <1>9, <2>1 DEF DeleteRef
<1>10. ASSUME DeleteRefuses(t) PROVE Progress(t)
  BY <1>10 DEF DeleteRefuses
<1>11. ASSUME Classify(t) PROVE Progress(t)
  BY <1>11 DEF Classify
<1>12. ASSUME DeletionKilled(t) PROVE Progress(t)
  BY <1>12 DEF DeletionKilled
<1>13. ASSUME Fail(t) PROVE Progress(t)
  BY <1>13 DEF Fail
<1> QED
  BY <1>1, <1>2, <1>3, <1>4, <1>5, <1>6, <1>7, <1>8, <1>9, <1>10, <1>11, <1>12, <1>13 DEF Removal

LEMMA CheckEffect ==
    ASSUME TypeOK, EachOnce, PlaceInv, NEW i \in Items, Check(i)
    PROVE  Waiting' = Waiting \cup {i} /\ EachOnce'
<1>1. PICK v \in Verdicts : verdicts' = Append(verdicts, [item |-> i, verdict |-> v])
  BY DEF Check, Verdicts
<1>2. [item |-> i, verdict |-> v] \in VerdictMessages /\ verdicts \in Seq(VerdictMessages)
  BY DEF VerdictMessages, Verdicts, TypeOK
<1>3. i \notin ItemsIn(verdicts)
  BY DEF Check, PlaceInv, Waiting
<1>4. ItemsOnce(verdicts') /\ ItemsIn(verdicts') = ItemsIn(verdicts) \cup {i}
  BY <1>1, <1>2, <1>3, ItemsOfAppend DEF EachOnce
<1>5. jobs' = jobs /\ done' = done
  BY DEF Check
<1> QED
  BY <1>4, <1>5 DEF EachOnce, Waiting

LEMMA ReceiveEffect ==
    ASSUME TypeOK, EachOnce, PlaceInv, Receive
    PROVE  /\ Head(verdicts) \in VerdictMessages
           /\ Waiting = Waiting' \cup {Head(verdicts).item} /\ Head(verdicts).item \notin Waiting'
           /\ \/ Queued' = Queued
              \/ Queued' = Queued \cup {Head(verdicts).item} /\ Head(verdicts).item # Current
           /\ EachOnce'
<1> DEFINE i == Head(verdicts).item
<1>1. verdicts \in Seq(VerdictMessages) /\ verdicts # <<>> /\ verdicts' = Tail(verdicts)
  BY DEF TypeOK, VerdictMessages, Verdicts, Receive
<1>2. Head(verdicts) \in VerdictMessages
  BY <1>1, ElemsOfTail
<1>3. /\ ItemsOnce(verdicts')
      /\ Waiting = Waiting' \cup {i} /\ i \notin Waiting'
  BY <1>1, ItemsOfTail DEF EachOnce, Waiting
<1>4. i \in Items /\ i \notin Queued /\ i # None
  BY <1>2, <1>3, PruneAssumption DEF VerdictMessages, PlaceInv
<1>5. /\ jobs \in Seq(Items \cup {None}) /\ JobsOnce(jobs)
      /\ i \in Items \cup {None} /\ None \in Items \cup {None}
  BY <1>4 DEF TypeOK, EachOnce
<1>6. /\ Elems(Append(jobs, i)) = Elems(jobs) \cup {i}
      /\ Elems(Append(jobs, None)) = Elems(jobs) \cup {None}
      /\ JobsOnce(Append(jobs, i)) /\ JobsOnce(Append(jobs, None))
  <2>1. i \notin Elems(jobs) \ {None} /\ None \notin Elems(jobs) \ {None}
    BY <1>4 DEF Queued
  <2>2. /\ Elems(Append(jobs, i)) = Elems(jobs) \cup {i}
        /\ Elems(Append(jobs, None)) = Elems(jobs) \cup {None}
    BY <1>5, ElemsOfAppend
  <2>3. JobsOnce(Append(jobs, i))
    BY <1>5, <2>1, JobsOfAppend
  <2>4. JobsOnce(Append(jobs, None))
    BY <1>5, <2>1, JobsOfAppend
  <2> QED
    BY <2>2, <2>3, <2>4
<1>7. jobs' \in {jobs, Append(jobs, None)} \/ (jobs' = Append(jobs, i) /\ i # Current)
  BY DEF Receive
<1>8. JobsOnce(jobs') /\ (Queued' = Queued \/ (Queued' = Queued \cup {i} /\ i # Current))
  <2>1. CASE jobs' = jobs
    BY <2>1, <1>5 DEF Queued
  <2>2. CASE jobs' = Append(jobs, None)
    <3>1. JobsOnce(jobs')
      BY <2>2, <1>6
    <3>2. Elems(jobs') = Elems(jobs) \cup {None}
      BY <2>2, <1>6
    <3> QED
      BY <3>1, <3>2 DEF Queued
  <2>3. CASE jobs' = Append(jobs, i) /\ i # Current
    <3>1. JobsOnce(jobs')
      BY <2>3, <1>6
    <3>2. Elems(jobs') = Elems(jobs) \cup {i}
      BY <2>3, <1>6
    <3> QED
      BY <3>1, <3>2, <2>3, <1>4 DEF Queued
  <2> QED
    BY <2>1, <2>2, <2>3, <1>7
<1>9. done' = done
  BY DEF Receive
<1> QED
  BY <1>2, <1>3, <1>8, <1>9 DEF EachOnce

LEMMA TakeEffect ==
    ASSUME TypeOK, EachOnce, NEW w \in Workers, TakeJob(w)
    PROVE  /\ Head(jobs) \in Items \cup {None}
           /\ Queued' = Queued \ {Head(jobs)}
           /\ Head(jobs) # None => Head(jobs) \in Queued
           /\ EachOnce'
<1>1. jobs \in Seq(Items \cup {None}) /\ jobs # <<>> /\ jobs' = Tail(jobs)
  BY DEF TypeOK, TakeJob
<1>2. Head(jobs) \in Items \cup {None} /\ Elems(jobs) = Elems(jobs') \cup {Head(jobs)}
  BY <1>1, ElemsOfTail
<1>3. JobsOnce(jobs') /\ (Head(jobs) # None => Head(jobs) \notin Elems(jobs'))
  BY <1>1, JobsOfTail DEF EachOnce
<1>4. verdicts' = verdicts /\ done' = done
  BY DEF TakeJob
<1> QED
  BY <1>2, <1>3, <1>4 DEF EachOnce, Queued

LEMMA DrainEffect ==
    ASSUME TypeOK, EachOnce, Drain
    PROVE  /\ Head(done) \in Results /\ Head(done) \in Elems(done)
           /\ Elems(done) = Elems(done') \cup {Head(done)}
           /\ Finished = Finished' \cup {Head(done).item} /\ Head(done).item \notin Finished'
           /\ EachOnce'
<1>1. done \in Seq(Results) /\ done # <<>> /\ done' = Tail(done)
  BY DEF TypeOK, Results, Drain
<1>2. Head(done) \in Results /\ Elems(done) = Elems(done') \cup {Head(done)}
  BY <1>1, ElemsOfTail
<1>3. /\ ItemsOnce(done')
      /\ Finished = Finished' \cup {Head(done).item} /\ Head(done).item \notin Finished'
  BY <1>1, ItemsOfTail DEF EachOnce, Finished
<1>4. verdicts' = verdicts /\ jobs' = jobs
  BY DEF Drain
<1> QED
  BY <1>2, <1>3, <1>4 DEF EachOnce

LEMMA EndedEffect ==
    ASSUME TypeOK, EachOnce, PlaceInv, ThreadInv, NEW t \in Workers, NEW e \in BOOLEAN, Ended(t, e)
    PROVE  /\ job[t] \in Items
           /\ Elems(done') = Elems(done) \cup {[item |-> job[t], said |-> said[t], err |-> e]}
           /\ Finished' = Finished \cup {job[t]}
           /\ EachOnce'
<1> DEFINE r == [item |-> job[t], said |-> said[t], err |-> e]
<1>1. t \in Threads /\ t # Main
  BY PruneAssumption DEF Threads
<1>2. job[t] # None
  BY <1>1 DEF Ended, ThreadInv, Busy, Removing
<1>3. job[t] \in Items /\ said[t] \in SUBSET Parts
  BY <1>1, <1>2 DEF TypeOK
<1>4. r \in Results /\ done \in Seq(Results) /\ r.item = job[t]
  BY <1>3 DEF Results, TypeOK
<1>5. job[t] \notin ItemsIn(done)
  BY <1>1, <1>2 DEF PlaceInv, Finished
<1>6. done' = Append(done, r)
  BY <1>1 DEF Ended, Result
<1>7. Elems(done') = Elems(done) \cup {r}
  BY <1>4, <1>6, ElemsOfAppend
<1>8. ItemsOnce(done') /\ ItemsIn(done') = ItemsIn(done) \cup {job[t]}
  BY <1>4, <1>5, <1>6, ItemsOfAppend DEF EachOnce
<1>9. verdicts' = verdicts /\ jobs' = jobs
  BY DEF Ended
<1> QED
  BY <1>3, <1>7, <1>8, <1>9 DEF EachOnce, Finished

(* ---- the invariants ---- *)

LEMMA InvInit == Init => EachOnce /\ ThreadInv /\ MainInv /\ PlaceInv /\ AccountInv /\ LatchInv
<1> SUFFICES ASSUME Init PROVE EachOnce /\ ThreadInv /\ MainInv /\ PlaceInv /\ AccountInv /\ LatchInv
  OBVIOUS
<1>1. Elems(<<>>) = {} /\ ItemsIn(<<>>) = {}
  BY DEF Elems, ItemsIn
<1>2. EachOnce
  BY DEF Init, EachOnce, ItemsOnce, JobsOnce
<1>3. Waiting = {} /\ Queued = {} /\ Finished = {}
  BY <1>1 DEF Init, Waiting, Queued, Finished
<1>4. ThreadInv
  BY PruneAssumption DEF Init, ThreadInv, Threads, Busy, Removing
<1>5. MainInv /\ LatchInv
  BY PruneAssumption DEF Init, MainInv, LatchInv, Threads
<1>6. PlaceInv
  BY <1>3 DEF Init, PlaceInv
<1>7. \A i \in Items : Fresh(i) /\ Sure(i) = {} /\ removed[i] = {}
  BY DEF Init, Fresh, Sure
<1>8. AccountInv
  BY <1>1, <1>3, <1>7 DEF Init, AccountInv, Held
<1> QED
  BY <1>2, <1>4, <1>5, <1>6, <1>8

LEMMA OnceStep == TypeOK /\ EachOnce /\ ThreadInv /\ PlaceInv /\ [Next]_vars => EachOnce'
<1> SUFFICES ASSUME TypeOK, EachOnce, ThreadInv, PlaceInv, [Next]_vars PROVE EachOnce'
  OBVIOUS
<1>1. CASE Quiet
  BY <1>1 DEF Quiet, channels, EachOnce
<1>2. ASSUME NEW i \in Items, Check(i) PROVE EachOnce'
  BY <1>2, CheckEffect
<1>3. ASSUME Receive PROVE EachOnce'
  BY <1>3, ReceiveEffect
<1>4. ASSUME EndOfScan PROVE EachOnce'
  BY <1>4 DEF EndOfScan, channels, EachOnce
<1>5. ASSUME Drain PROVE EachOnce'
  BY <1>5, DrainEffect
<1>6. ASSUME StartLast PROVE EachOnce'
  BY <1>6 DEF StartLast, channels, EachOnce
<1>7. ASSUME NEW w \in Workers, TakeJob(w) PROVE EachOnce'
  BY <1>7, TakeEffect
<1>8. ASSUME NEW w \in Workers, PrintSkip(w) PROVE EachOnce'
  BY <1>8 DEF PrintSkip, channels, EachOnce
<1>9. ASSUME NEW w \in Workers, Exit(w) PROVE EachOnce'
  BY <1>9 DEF Exit, channels, EachOnce
<1>10. ASSUME NEW t \in Threads, Removal(t) PROVE EachOnce'
  BY <1>10, ProgressSteps DEF Progress, channels, EachOnce
<1>11. ASSUME NEW t \in Threads, NEW e \in BOOLEAN, Ended(t, e) PROVE EachOnce'
  <2>1. CASE t = Main
    BY <1>11, <2>1 DEF Ended, Result, EachOnce
  <2>2. CASE t \in Workers
    BY <1>11, <2>2, EndedEffect
  <2> QED
    BY <2>1, <2>2 DEF Threads
<1> QED
  BY <1>1, <1>2, <1>3, <1>4, <1>5, <1>6, <1>7, <1>8, <1>9, <1>10, <1>11, StepKinds

LEMMA MainStepInv == TypeOK /\ ThreadInv /\ MainInv /\ PlaceInv /\ [Next]_vars => MainInv'
<1> SUFFICES ASSUME TypeOK, ThreadInv, MainInv, PlaceInv, [Next]_vars PROVE MainInv'
  OBVIOUS
<1> USE PruneAssumption DEF MainInv
<1> Main \in Threads /\ Main \notin Workers /\ \A w \in Workers : w \in Threads
  BY DEF Threads
<1>1. CASE Quiet
  BY <1>1 DEF Quiet, channels, threads, report
<1>2. ASSUME NEW i \in Items, Check(i) PROVE MainInv'
  <2>1. pc[Main] = "receive"
    BY <1>2 DEF Check
  <2> QED
    BY <1>2, <2>1 DEF Check, threads, report
<1>3. ASSUME Receive PROVE MainInv'
  <2>1. job[Main] = None
    BY <1>3 DEF Receive, ThreadInv, Busy, Removing
  <2> QED
    BY <1>3, <2>1 DEF Receive, threads
<1>4. ASSUME EndOfScan PROVE MainInv'
  BY <1>4 DEF EndOfScan, Step, Goto, channels, report, TypeOK
<1>5. ASSUME Drain PROVE MainInv'
  <2>1. job[Main] = None
    BY <1>5 DEF Drain, ThreadInv, Busy, Removing
  <2> QED
    BY <1>5, <2>1 DEF Drain, threads
<1>6. ASSUME StartLast PROVE MainInv'
  <2>1. pc[Main] = "drain" /\ job[Main] = None
    BY <1>6 DEF StartLast, ThreadInv, Busy, Removing
  <2>2. pc'[Main] \in {"gate", "over"} /\ \A w \in Workers : pc'[w] = pc[w]
    BY <1>6 DEF StartLast, Goto, TypeOK
  <2>3. job'[Main] # None => ~err
    BY <1>6, <2>1 DEF StartLast, TypeOK
  <2> QED
    BY <1>6, <2>1, <2>2, <2>3 DEF StartLast, channels, report
<1>7. ASSUME NEW w \in Workers, TakeJob(w) PROVE MainInv'
  <2>1. pc[w] = "idle" /\ pc'[Main] = pc[Main] /\ job'[Main] = job[Main]
    BY <1>7 DEF TakeJob, Goto, TypeOK
  <2>2. pc[Main] \in {"receive", "drain"}
    BY <2>1
  <2> QED
    BY <1>7, <2>1, <2>2 DEF TakeJob, report
<1>8. ASSUME NEW w \in Workers, PrintSkip(w) PROVE MainInv'
  <2>1. pc[w] = "print" /\ pc'[Main] = pc[Main]
    BY <1>8 DEF PrintSkip, Step, Goto, TypeOK
  <2>2. pc[Main] \in {"receive", "drain"}
    BY <2>1
  <2> QED
    BY <1>8, <2>1, <2>2 DEF PrintSkip, report, channels
<1>9. ASSUME NEW w \in Workers, Exit(w) PROVE MainInv'
  <2>1. pc'[Main] = pc[Main] /\ \A u \in Workers : pc[u] = "exited" => pc'[u] = "exited"
    BY <1>9 DEF Exit, Step, Goto, TypeOK
  <2> QED
    BY <1>9, <2>1 DEF Exit, report, channels
<1>10. ASSUME NEW t \in Threads, Removal(t) PROVE MainInv'
  <2>1. Progress(t)
    BY <1>10, ProgressSteps
  <2>2. CASE t = Main
    BY <2>1, <2>2 DEF Progress, Busy, Removing, channels, report
  <2>3. CASE t \in Workers
    <3>1. pc[t] # "exited" /\ pc'[Main] = pc[Main]
      BY <2>1, <2>3 DEF Progress, Busy, Removing
    <3>2. pc[Main] \in {"receive", "drain"}
      BY <2>3, <3>1
    <3> QED
      BY <2>1, <3>1, <3>2 DEF Progress, channels, report
  <2> QED
    BY <2>2, <2>3 DEF Threads
<1>11. ASSUME NEW t \in Threads, NEW e \in BOOLEAN, Ended(t, e) PROVE MainInv'
  <2>1. pc[t] \in {"finish", "failed"}
    BY <1>11 DEF Ended
  <2>2. CASE t = Main
    <3>1. pc'[Main] = "over" /\ \A w \in Workers : pc'[w] = pc[w]
      BY <1>11, <2>2 DEF Ended, Result, Goto, TypeOK
    <3>2. job'[Main] = None /\ deferred' = deferred /\ done' = done
      BY <1>11, <2>2 DEF Ended, Result, TypeOK
    <3> QED
      BY <1>11, <2>1, <2>2, <3>1, <3>2 DEF Ended
  <2>3. CASE t \in Workers
    <3>1. pc[t] # "exited" /\ pc'[Main] = pc[Main] /\ job'[Main] = job[Main]
      BY <1>11, <2>1, <2>3 DEF Ended, Result, Goto, TypeOK
    <3>2. pc[Main] \in {"receive", "drain"}
      BY <2>3, <3>1
    <3>3. deferred' = deferred /\ err' = err
      BY <1>11, <2>3 DEF Ended, Result, report
    <3> QED
      BY <1>11, <3>1, <3>2, <3>3 DEF Ended
  <2> QED
    BY <2>2, <2>3 DEF Threads
<1> QED
  BY <1>1, <1>2, <1>3, <1>4, <1>5, <1>6, <1>7, <1>8, <1>9, <1>10, <1>11, StepKinds

LEMMA PlaceStep ==
    TypeOK /\ EachOnce /\ ThreadInv /\ MainInv /\ PlaceInv /\ [Next]_vars => PlaceInv'
<1> SUFFICES ASSUME TypeOK, EachOnce, ThreadInv, MainInv, PlaceInv, [Next]_vars PROVE PlaceInv'
  OBVIOUS
<1> USE PruneAssumption
<1> Main \in Threads /\ Main \notin Workers /\ \A w \in Workers : w \in Threads
  BY DEF Threads
<1>1. CASE Quiet
  <2>1. Waiting' = Waiting /\ Queued' = Queued /\ Finished' = Finished
    BY <1>1 DEF Quiet, channels, Waiting, Queued, Finished
  <2> QED
    BY <1>1, <2>1 DEF Quiet, channels, threads, PlaceInv
<1>2. ASSUME NEW i \in Items, Check(i) PROVE PlaceInv'
  <2>1. Waiting' = Waiting \cup {i} /\ i \notin checked /\ checked' = checked \cup {i}
    BY <1>2, CheckEffect DEF Check
  <2>2. Queued' = Queued /\ Finished' = Finished /\ job' = job
    BY <1>2 DEF Check, Queued, Finished, threads
  <2> QED
    BY <2>1, <2>2 DEF PlaceInv
<1>3. ASSUME Receive PROVE PlaceInv'
  <2> DEFINE i == Head(verdicts).item
  <2>1. /\ Waiting = Waiting' \cup {i} /\ i \notin Waiting'
        /\ Queued' = Queued \/ (Queued' = Queued \cup {i} /\ i # Current)
    BY <1>3, ReceiveEffect
  <2>2. Finished' = Finished /\ job' = job /\ checked' = checked
    BY <1>3 DEF Receive, Finished, threads
  <2>3. i \in Waiting /\ i \in checked /\ i \notin Finished /\ \A t \in Threads : job[t] # None => job[t] # i
    BY <2>1 DEF PlaceInv
  <2> HIDE DEF i
  <2>4. CASE Queued' = Queued
    BY <2>1, <2>2, <2>3, <2>4 DEF PlaceInv
  <2>5. CASE Queued' = Queued \cup {i} /\ i # Current
    BY <2>1, <2>2, <2>3, <2>5 DEF PlaceInv
  <2> QED
    BY <2>1, <2>4, <2>5
<1>4. ASSUME EndOfScan PROVE PlaceInv'
  <2>1. Waiting' = Waiting /\ Queued' = Queued /\ Finished' = Finished
    BY <1>4 DEF EndOfScan, channels, Waiting, Queued, Finished
  <2> QED
    BY <1>4, <2>1 DEF EndOfScan, channels, PlaceInv
<1>5. ASSUME Drain PROVE PlaceInv'
  <2> DEFINE i == Head(done).item
  <2>1. Finished = Finished' \cup {i}
    BY <1>5, DrainEffect
  <2>2. Waiting' = Waiting /\ Queued' = Queued /\ job' = job /\ checked' = checked
    BY <1>5 DEF Drain, Waiting, Queued, threads
  <2> QED
    BY <2>1, <2>2 DEF PlaceInv
<1>6. ASSUME StartLast PROVE PlaceInv'
  <2>1. Waiting' = Waiting /\ Queued' = Queued /\ Finished' = Finished /\ checked' = checked
    BY <1>6 DEF StartLast, channels, Waiting, Queued, Finished
  <2>2. \A t \in Threads \ {Main} : job'[t] = job[t]
    BY <1>6 DEF StartLast, TypeOK
  <2>3. job'[Main] # None => job'[Main] = Current
    <3>1. job[Main] = None
      BY <1>6 DEF StartLast, ThreadInv, Busy, Removing
    <3> QED
      BY <1>6, <3>1 DEF StartLast, MainInv, TypeOK
  <2>4. Current \in checked \ (Waiting \cup Queued \cup Finished)
    <3>1. checked = Items /\ verdicts = <<>>
      BY <1>6 DEF StartLast, MainInv
    <3>2. Waiting = {}
      BY <3>1 DEF Waiting, ItemsIn, Elems
    <3> QED
      BY <3>1, <3>2 DEF PlaceInv
  <2> QED
    BY <2>1, <2>2, <2>3, <2>4 DEF PlaceInv
<1>7. ASSUME NEW w \in Workers, TakeJob(w) PROVE PlaceInv'
  <2> DEFINE i == Head(jobs)
  <2>1. /\ i \in Items \cup {None} /\ Queued' = Queued \ {i}
        /\ i # None => i \in Queued
    BY <1>7, TakeEffect
  <2>2. Waiting' = Waiting /\ Finished' = Finished /\ checked' = checked
    BY <1>7 DEF TakeJob, Waiting, Finished
  <2>3. \A t \in Threads : job'[t] = job[t] \/ (job'[t] = i /\ i # None)
    BY <1>7 DEF TakeJob, TypeOK
  <2> HIDE DEF i
  <2>4. Waiting' \subseteq checked'
    BY <2>2 DEF PlaceInv
  <2>5. \A j \in Queued' \cup Finished' : j # Current /\ j \in checked' \ Waiting'
    BY <2>1, <2>2 DEF PlaceInv
  <2>6. Queued' \cap Finished' = {}
    BY <2>1, <2>2 DEF PlaceInv
  <2>7. ASSUME NEW t \in Threads, job'[t] # None
        PROVE  job'[t] \in checked' \ (Waiting' \cup Queued' \cup Finished')
    BY <2>1, <2>2, <2>3, <2>7 DEF PlaceInv
  <2> QED
    BY <2>4, <2>5, <2>6, <2>7 DEF PlaceInv
<1>8. ASSUME NEW w \in Workers, PrintSkip(w) PROVE PlaceInv'
  <2>1. Waiting' = Waiting /\ Queued' = Queued /\ Finished' = Finished
    BY <1>8 DEF PrintSkip, channels, Waiting, Queued, Finished
  <2> QED
    BY <1>8, <2>1 DEF PrintSkip, channels, PlaceInv
<1>9. ASSUME NEW w \in Workers, Exit(w) PROVE PlaceInv'
  <2>1. Waiting' = Waiting /\ Queued' = Queued /\ Finished' = Finished
    BY <1>9 DEF Exit, channels, Waiting, Queued, Finished
  <2> QED
    BY <1>9, <2>1 DEF Exit, channels, PlaceInv
<1>10. ASSUME NEW t \in Threads, Removal(t) PROVE PlaceInv'
  <2>1. Progress(t)
    BY <1>10, ProgressSteps
  <2>2. Waiting' = Waiting /\ Queued' = Queued /\ Finished' = Finished
    BY <2>1 DEF Progress, channels, Waiting, Queued, Finished
  <2> QED
    BY <2>1, <2>2 DEF Progress, channels, PlaceInv
<1>11. ASSUME NEW t \in Threads, NEW e \in BOOLEAN, Ended(t, e) PROVE PlaceInv'
  <2>1. Waiting' = Waiting /\ Queued' = Queued /\ checked' = checked
    BY <1>11 DEF Ended, Waiting, Queued
  <2>2. \A u \in Threads : job'[u] # None => u # t /\ job'[u] = job[u]
    BY <1>11 DEF Ended, TypeOK
  <2>3. CASE t = Main
    <3>1. Finished' = Finished
      BY <1>11, <2>3 DEF Ended, Result, Finished
    <3> QED
      BY <2>1, <2>2, <3>1 DEF PlaceInv
  <2>4. CASE t \in Workers
    <3>1. Finished' = Finished \cup {job[t]} /\ job[t] \in Items /\ job[t] # None
      BY <1>11, <2>4, EndedEffect
    <3>2. job[t] # Current /\ \A u \in Threads : u # t /\ job[u] # None => job[u] # job[t]
      BY <2>4, <3>1 DEF ThreadInv
    <3>3. job[t] \in checked \ (Waiting \cup Queued \cup Finished)
      BY <2>4, <3>1 DEF PlaceInv
    <3> QED
      BY <2>1, <2>2, <3>1, <3>2, <3>3 DEF PlaceInv
  <2> QED
    BY <2>3, <2>4 DEF Threads
<1> QED
  BY <1>1, <1>2, <1>3, <1>4, <1>5, <1>6, <1>7, <1>8, <1>9, <1>10, <1>11, StepKinds

(* ---- threads, accounts and the latch ---- *)

\* What ThreadInv says of a thread by itself, and what it says of who has which item.
Own(t) ==
    /\ pc[t] \in Busy <=> job[t] # None
    /\ job[t] = None => said[t] = {}
    /\ pc[t] \in {"hook", "stage"} => kind[job[t]] = "linked"
    /\ pc[t] \in {"gate", "hook", "stage", "prune"} => said[t] = {}
    /\ pc[t] \in {"capture", "topology", "mutex", "update", "classify"} => "branch" \notin said[t]
    /\ t \in Workers => pc[t] \notin {"receive", "drain", "over"}
Exclusive ==
    \A t \in Threads :
        /\ job[t] = Current <=> t = Main /\ job[Main] # None
        /\ \A u \in Threads : job[t] = job[u] /\ job[t] # None => t = u

LEMMA ThreadInvParts == ThreadInv <=> Exclusive /\ \A t \in Threads : Own(t)
BY Zenon DEF ThreadInv, Exclusive, Own

LEMMA OwnStep ==
    ASSUME TypeOK, ThreadInv, NEW t \in Threads, Removal(t)
    PROVE  Own(t)'
<1>1. Progress(t) /\ Own(t) /\ job[t] # None /\ job'[t] = job[t] /\ kind' = kind
  <2>1. Progress(t)
    BY ProgressSteps
  <2>2. job' = job /\ kind' = kind
    BY <2>1 DEF Progress, threads, items
  <2> QED
    BY <2>1, <2>2, ThreadInvParts DEF Progress, Own
<1>2. job' = job /\ job[t] \in Items
  BY <1>1 DEF Progress, TypeOK
<1>3. pc'[t] \in Busy /\ (t \in Workers => pc'[t] \notin {"receive", "drain", "over"})
  BY <1>1 DEF Progress, Busy, Removing
<1>4. /\ pc'[t] \in {"hook", "stage"} => kind[job[t]] = "linked"
      /\ pc'[t] \in {"gate", "hook", "stage", "prune"} => said'[t] = {}
      /\ pc'[t] \in {"capture", "topology", "mutex", "update", "classify"} => "branch" \notin said'[t]
  <2> USE <1>1 DEF Own, TypeOK, Goto, Step
  <2>1. CASE Gate(t)
    BY <2>1 DEF Gate, FirstStep
  <2>2. CASE Hook(t)
    BY <2>2 DEF Hook
  <2>3. CASE Stage(t)
    BY <2>3 DEF Stage, AfterTree, Take
  <2>4. CASE HandOver(t)
    BY <2>4 DEF HandOver
  <2>5. CASE PruneEntry(t)
    BY <2>5 DEF PruneEntry, AfterTree, Take
  <2>6. CASE Capture(t)
    BY <2>6 DEF Capture
  <2>7. CASE Topology(t)
    BY <2>7 DEF Topology
  <2>8. CASE LockDeletions(t)
    BY <2>8 DEF LockDeletions
  <2>9. CASE DeleteRef(t)
    BY <2>9 DEF DeleteRef, Take
  <2>10. CASE DeleteRefuses(t)
    BY <2>10 DEF DeleteRefuses
  <2>11. CASE Classify(t)
    BY <2>11 DEF Classify
  <2>12. CASE DeletionKilled(t)
    BY <2>12 DEF DeletionKilled
  <2>13. CASE Fail(t)
    BY <2>13 DEF Fail
  <2> QED
    BY <2>1, <2>2, <2>3, <2>4, <2>5, <2>6, <2>7, <2>8, <2>9, <2>10, <2>11, <2>12, <2>13 DEF Removal
<1> QED
  BY <1>1, <1>2, <1>3, <1>4 DEF Own

LEMMA ThreadStep ==
    TypeOK /\ EachOnce /\ ThreadInv /\ MainInv /\ PlaceInv /\ [Next]_vars => ThreadInv'
<1> SUFFICES ASSUME TypeOK, EachOnce, ThreadInv, MainInv, PlaceInv, [Next]_vars PROVE ThreadInv'
  OBVIOUS
<1> USE PruneAssumption
<1>a. Main \in Threads /\ Main \notin Workers /\ \A w \in Workers : w \in Threads
  BY DEF Threads
<1>b. Exclusive /\ \A t \in Threads : Own(t)
  BY ThreadInvParts
<1>c. SUFFICES Exclusive' /\ \A t \in Threads : Own(t)'
  BY Zenon DEF ThreadInv, Exclusive, Own
<1>1. CASE Quiet
  <2>1. Exclusive' /\ \A t \in Threads : Own(t)'
    BY <1>b, <1>1 DEF Quiet, threads, items, Own, Exclusive
  <2> QED
    BY <2>1
<1>2. ASSUME NEW i \in Items, Check(i) PROVE Exclusive' /\ \A t \in Threads : Own(t)'
  BY <1>b, <1>2 DEF Check, threads, items, Own, Exclusive
<1>3. ASSUME Receive PROVE Exclusive' /\ \A t \in Threads : Own(t)'
  BY <1>b, <1>3 DEF Receive, threads, items, Own, Exclusive
<1>4. ASSUME EndOfScan PROVE Exclusive' /\ \A t \in Threads : Own(t)'
  <2>1. Exclusive'
    BY <1>b, <1>4 DEF EndOfScan, Exclusive
  <2>2. ASSUME NEW t \in Threads PROVE Own(t)'
    BY <1>a, <1>b, <1>4 DEF EndOfScan, Step, Goto, TypeOK, Own, items, Busy, Removing
  <2> QED
    BY <2>1, <2>2
<1>5. ASSUME Drain PROVE Exclusive' /\ \A t \in Threads : Own(t)'
  BY <1>b, <1>5 DEF Drain, threads, items, Own, Exclusive
<1>6. ASSUME StartLast PROVE Exclusive' /\ \A t \in Threads : Own(t)'
  <2>1. pc[Main] = "drain" /\ job[Main] = None /\ said[Main] = {}
    BY <1>a, <1>b, <1>6 DEF StartLast, Own, Busy, Removing
  <2>2. /\ \A t \in Threads \ {Main} : pc'[t] = pc[t] /\ job'[t] = job[t]
        /\ said' = said /\ kind' = kind
    BY <1>6 DEF StartLast, Goto, TypeOK, items
  <2>3. \/ pc'[Main] = "gate" /\ job'[Main] = Current
        \/ pc'[Main] = "over" /\ job'[Main] = None
    BY <1>a, <2>1, <1>6 DEF StartLast, Goto, TypeOK, MainInv
  <2>4. Exclusive'
    <3>1. \A t \in Threads \ {Main} : job[t] # Current /\ job'[t] # Current
      BY <1>b, <2>1, <2>2 DEF Exclusive
    <3> QED
      BY <1>a, <1>b, <2>1, <2>2, <2>3, <3>1 DEF Exclusive
  <2>5. ASSUME NEW t \in Threads PROVE Own(t)'
    <3>1. CASE t = Main
      BY <1>a, <2>1, <2>2, <2>3, <3>1 DEF Own, Busy, Removing
    <3>2. CASE t # Main
      BY <1>b, <2>2, <3>2 DEF Own
    <3> QED
      BY <3>1, <3>2
  <2> QED
    BY <2>4, <2>5
<1>7. ASSUME NEW w \in Workers, TakeJob(w) PROVE Exclusive' /\ \A t \in Threads : Own(t)'
  <2> DEFINE i == Head(jobs)
  <2>1. i \in Items \cup {None} /\ (i # None => i \in Queued)
    BY <1>7, TakeEffect
  <2>2. pc[w] = "idle" /\ job[w] = None /\ said[w] = {}
    BY <1>a, <1>b, <1>7 DEF TakeJob, Own, Busy, Removing
  <2>3. /\ \A t \in Threads \ {w} : pc'[t] = pc[t] /\ job'[t] = job[t]
        /\ said' = said /\ kind' = kind
    BY <1>7 DEF TakeJob, Goto, TypeOK, items
  <2>4. \/ pc'[w] \in {"idle", "print"} /\ job'[w] = None
        \/ pc'[w] = "gate" /\ job'[w] = i /\ i # None
    BY <1>a, <2>2, <1>7 DEF TakeJob, Goto, TypeOK
  <2>5. i # None => i # Current /\ \A t \in Threads : job[t] # i
    BY <2>1 DEF PlaceInv
  <2> HIDE DEF i
  <2>6. Exclusive'
    <3>1. w # Main /\ w \in Threads
      BY <1>a
    <3>2. CASE job'[w] = None
      BY <1>a, <1>b, <2>2, <2>3, <3>1, <3>2 DEF Exclusive
    <3>3. CASE job'[w] = i /\ i # None
      BY <1>a, <1>b, <2>2, <2>3, <2>5, <3>1, <3>3 DEF Exclusive
    <3> QED
      BY <2>4, <3>2, <3>3
  <2>7. ASSUME NEW t \in Threads PROVE Own(t)'
    <3>1. CASE t = w
      BY <2>2, <2>3, <2>4, <3>1 DEF Own, Busy, Removing
    <3>2. CASE t # w
      BY <1>b, <2>3, <3>2 DEF Own
    <3> QED
      BY <3>1, <3>2
  <2> QED
    BY <2>6, <2>7
<1>8. ASSUME NEW w \in Workers, PrintSkip(w) PROVE Exclusive' /\ \A t \in Threads : Own(t)'
  <2>1. Exclusive'
    BY <1>b, <1>8 DEF PrintSkip, Exclusive
  <2>2. ASSUME NEW t \in Threads PROVE Own(t)'
    BY <1>a, <1>b, <1>8 DEF PrintSkip, Step, Goto, TypeOK, Own, items, Busy, Removing
  <2> QED
    BY <2>1, <2>2
<1>9. ASSUME NEW w \in Workers, Exit(w) PROVE Exclusive' /\ \A t \in Threads : Own(t)'
  <2>1. Exclusive'
    BY <1>b, <1>9 DEF Exit, Exclusive
  <2>2. ASSUME NEW t \in Threads PROVE Own(t)'
    BY <1>a, <1>b, <1>9 DEF Exit, Step, Goto, TypeOK, Own, items, Busy, Removing
  <2> QED
    BY <2>1, <2>2
<1>10. ASSUME NEW t \in Threads, Removal(t) PROVE Exclusive' /\ \A u \in Threads : Own(u)'
  <2>1. Progress(t)
    BY <1>10, ProgressSteps
  <2>2. Exclusive'
    BY <1>b, <2>1 DEF Progress, Exclusive
  <2>3. Own(t)'
    BY <1>10, OwnStep
  <2>4. ASSUME NEW u \in Threads, u # t PROVE Own(u)'
    BY <1>b, <2>1, <2>4 DEF Progress, Own, items
  <2> QED
    BY <2>2, <2>3, <2>4
<1>11. ASSUME NEW t \in Threads, NEW e \in BOOLEAN, Ended(t, e) PROVE Exclusive' /\ \A u \in Threads : Own(u)'
  <2>1. pc'[t] = (IF t = Main THEN "over" ELSE "idle") /\ job'[t] = None /\ said'[t] = {}
    BY <1>11 DEF Ended, Result, Goto, TypeOK
  <2>2. /\ \A u \in Threads \ {t} : pc'[u] = pc[u] /\ job'[u] = job[u] /\ said'[u] = said[u]
        /\ kind' = kind
    BY <1>11 DEF Ended, Result, Goto, TypeOK, items
  <2>3. Exclusive'
    <3>1. CASE t = Main
      <4>1. \A u \in Threads \ {t} : job[u] # Current
        BY <1>b, <3>1 DEF Exclusive
      <4> QED
        BY <1>a, <1>b, <2>1, <2>2, <3>1, <4>1 DEF Exclusive
    <3>2. CASE t # Main
      BY <1>a, <1>b, <2>1, <2>2, <3>2 DEF Exclusive
    <3> QED
      BY <3>1, <3>2
  <2>4. ASSUME NEW u \in Threads PROVE Own(u)'
    <3>1. CASE u = t
      BY <1>a, <2>1, <2>2, <3>1 DEF Own, Busy, Removing
    <3>2. CASE u # t
      BY <1>b, <2>2, <3>2 DEF Own
    <3> QED
      BY <3>1, <3>2
  <2> QED
    BY <2>3, <2>4
<1> QED
  BY <1>1, <1>2, <1>3, <1>4, <1>5, <1>6, <1>7, <1>8, <1>9, <1>10, <1>11, StepKinds

(* ---- what is taken ---- *)

\* A removal takes parts of its item that are still there; its thread says so, unless git was
\* killed in the middle.
Taking(t, parts) ==
    /\ took' = [took EXCEPT ![job[t]] = @ \cup parts]
    /\ took[job[t]] \cap parts = {}
    /\ \/ killed' = killed /\ said'[t] = said[t] \cup parts
       \/ /\ killed' = killed \cup {job[t]} /\ said'[t] = said[t]
          /\ parts = {"branch"} /\ pc'[t] = "failed"

LEMMA RemovalTakes ==
    ASSUME TypeOK, ThreadInv, AccountInv, NEW t \in Threads, Removal(t)
    PROVE  /\ job[t] \in Items /\ job[t] \notin killed /\ took[job[t]] = said[t]
           /\ pc[t] # "failed"
           /\ \E parts \in SUBSET Parts : Taking(t, parts)
<1>1. pc[t] # "failed" /\ pc[t] \in Busy
  BY DEF Removal, Gate, Hook, Stage, HandOver, PruneEntry, Capture, Topology, LockDeletions, DeleteRef,
         DeleteRefuses, Classify, DeletionKilled, Fail, Step, Busy, Removing
<1>2. job[t] # None /\ job[t] \in Items
  BY <1>1 DEF ThreadInv, TypeOK
<1>3. job[t] \notin killed /\ took[job[t]] = said[t]
  BY <1>1, <1>2 DEF AccountInv, Sure
<1>4. took \in [Items -> SUBSET Parts] /\ said \in [Threads -> SUBSET Parts] /\ pc \in [Threads -> Labels]
  BY DEF TypeOK, Labels
<1>5. /\ pc[t] \in {"stage", "prune"} => said[t] = {}
      /\ pc[t] = "update" => "branch" \notin said[t]
  BY DEF ThreadInv
<1>6. CASE Gate(t) \/ Hook(t) \/ Capture(t) \/ Topology(t) \/ LockDeletions(t) \/ DeleteRefuses(t)
           \/ Classify(t) \/ Fail(t)
  <2>1. took' = took /\ killed' = killed /\ said' = said
    BY <1>6 DEF Gate, Hook, Capture, Topology, LockDeletions, DeleteRefuses, Classify, Fail, history
  <2>2. Taking(t, {})
    BY <2>1, <1>2, <1>4 DEF Taking
  <2> QED
    BY <2>2, <1>1, <1>2, <1>3
<1>7. CASE Stage(t) \/ PruneEntry(t)
  <2>1. pc[t] \in {"stage", "prune"} /\ Take(t, "tree") /\ killed' = killed
    BY <1>7 DEF Stage, PruneEntry, Step
  <2>2. Taking(t, {"tree"})
    BY <2>1, <1>2, <1>3, <1>4, <1>5 DEF Taking, Take
  <2> QED
    BY <2>2, <1>1, <1>2, <1>3 DEF Parts
<1>8. CASE DeleteRef(t)
  <2>1. pc[t] = "update" /\ Take(t, "branch") /\ killed' = killed
    BY <1>8 DEF DeleteRef, Step
  <2>2. Taking(t, {"branch"})
    BY <2>1, <1>2, <1>3, <1>4, <1>5 DEF Taking, Take
  <2> QED
    BY <2>2, <1>1, <1>2, <1>3 DEF Parts
<1>9. CASE HandOver(t)
  <2> DEFINE parts == {"tree"} \cup {p \in {"branch"} : Deletes(Current) /\ Ref(Current) = "merged"}
  <2>1. /\ pc[t] = "stage" /\ job[t] = Current /\ killed' = killed
        /\ took' = [took EXCEPT ![Current] = parts] /\ said' = [said EXCEPT ![t] = parts]
    BY <1>9 DEF HandOver, Step
  <2>2. parts \in SUBSET Parts
    BY DEF Parts
  <2> HIDE DEF parts
  <2>3. took[job[t]] = {} /\ said[t] = {}
    BY <2>1, <1>3, <1>5
  <2>4. took' = [took EXCEPT ![job[t]] = @ \cup parts] /\ said'[t] = said[t] \cup parts
    BY <2>1, <2>3, <1>2, <1>4
  <2>5. Taking(t, parts)
    BY <2>1, <2>3, <2>4 DEF Taking
  <2> QED
    BY <2>2, <2>5, <1>1, <1>2, <1>3
<1>10. CASE DeletionKilled(t)
  <2>1. said' = said
    BY <1>10 DEF DeletionKilled
  <2>2. CASE took' = took /\ killed' = killed
    <3>1. Taking(t, {})
      BY <2>1, <2>2, <1>2, <1>4 DEF Taking
    <3> QED
      BY <3>1, <1>1, <1>2, <1>3
  <2>3. CASE /\ pc[t] = "update" /\ killed' = killed \cup {job[t]}
             /\ took' = [took EXCEPT ![job[t]] = @ \cup {"branch"}]
    <3>1. pc'[t] = "failed"
      BY <1>4, <1>10 DEF DeletionKilled, Goto
    <3>2. Taking(t, {"branch"})
      BY <2>1, <2>3, <3>1, <1>3, <1>5 DEF Taking
    <3> QED
      BY <3>2, <1>1, <1>2, <1>3 DEF Parts
  <2> QED
    BY <2>2, <2>3, <1>10 DEF DeletionKilled
<1> QED
  BY <1>6, <1>7, <1>8, <1>9, <1>10 DEF Removal

\* The three accounts of AccountInv: of an item, of a thread, of a result.
ItemAccount(i) ==
    /\ i \notin checked \/ i \in Waiting \cup Queued => Fresh(i)
    /\ i = Current /\ pc[Main] \in {"receive", "drain"} => Fresh(i)
    /\ Held(i) \/ i \in Finished => removed[i] = {}
    /\ ~Held(i) /\ i \notin Finished => Sure(i) = removed[i] /\ (i \in killed => err)
ThreadAccount(t) == job[t] # None => Sure(job[t]) = said[t] /\ (job[t] \in killed => pc[t] = "failed")
ResultAccount(e) == Sure(e.item) = e.said /\ (e.item \in killed => e.err)

LEMMA AccountParts ==
    AccountInv <=> /\ \A i \in Items : ItemAccount(i)
                   /\ \A t \in Threads : ThreadAccount(t)
                   /\ \A e \in Elems(done) : ResultAccount(e)
BY Zenon DEF AccountInv, ItemAccount, ThreadAccount, ResultAccount

LEMMA AccountStep ==
    /\ TypeOK /\ EachOnce /\ ThreadInv /\ MainInv /\ PlaceInv /\ AccountInv
    /\ [Next]_vars
    => AccountInv'
<1> SUFFICES ASSUME TypeOK, EachOnce, ThreadInv, MainInv, PlaceInv, AccountInv, [Next]_vars
             PROVE  AccountInv'
  OBVIOUS
<1> USE PruneAssumption
<1>a. Main \in Threads /\ Main \notin Workers /\ \A w \in Workers : w \in Threads
  BY DEF Threads
<1>b. /\ \A i \in Items : ItemAccount(i)
      /\ \A t \in Threads : ThreadAccount(t)
      /\ \A e \in Elems(done) : ResultAccount(e)
  BY AccountParts
<1> DEFINE Goal == /\ \A i \in Items : ItemAccount(i)'
                   /\ \A t \in Threads : ThreadAccount(t)'
                   /\ \A e \in Elems(done') : ResultAccount(e)'
<1>c. SUFFICES Goal
  BY Zenon DEF AccountInv, ItemAccount, ThreadAccount, ResultAccount
<1>1. CASE Quiet
  <2>1. Waiting' = Waiting /\ Queued' = Queued /\ Finished' = Finished /\ UNCHANGED <<done, checked, pc, job, said, removed, err, took, killed>>
    BY <1>1 DEF Quiet, channels, threads, report, history, Waiting, Queued, Finished
  <2> QED
    BY <1>b, <2>1 DEF ItemAccount, ThreadAccount, ResultAccount, Fresh, Held, Sure
<1>2. ASSUME NEW i \in Items, Check(i) PROVE Goal
  <2>1. Waiting' = Waiting \cup {i} /\ i \notin checked /\ checked' = checked \cup {i}
    BY <1>2, CheckEffect DEF Check
  <2>2. /\ Queued' = Queued /\ Finished' = Finished
        /\ UNCHANGED <<done, pc, job, said, removed, err, took, killed>>
    BY <1>2 DEF Check, threads, report, history, Queued, Finished
  <2> QED
    BY <1>b, <2>1, <2>2 DEF ItemAccount, ThreadAccount, ResultAccount, Fresh, Held, Sure
<1>3. ASSUME Receive PROVE Goal
  <2> DEFINE i == Head(verdicts).item
  <2>1. /\ Waiting = Waiting' \cup {i}
        /\ Queued' = Queued \/ Queued' = Queued \cup {i}
    BY <1>3, ReceiveEffect
  <2>2. Finished' = Finished /\ UNCHANGED <<done, checked, pc, job, said, removed, took, killed>>
    BY <1>3 DEF Receive, threads, history, Finished
  <2>3. err => err'
    BY <1>3 DEF Receive
  <2> HIDE DEF i
  <2>4. \A j : Sure(j)' = Sure(j) /\ (Fresh(j)' <=> Fresh(j)) /\ (Held(j)' <=> Held(j))
    BY <2>2 DEF Fresh, Held, Sure
  <2>5. ASSUME NEW j \in Items PROVE ItemAccount(j)'
    <3>1. Waiting' \cup Queued' \subseteq Waiting \cup Queued
      BY <2>1
    <3> QED
      BY <1>b, <2>2, <2>3, <2>4, <3>1 DEF ItemAccount
  <2>6. \A t \in Threads : ThreadAccount(t)'
    BY <1>b, <2>2, <2>4 DEF ThreadAccount
  <2>7. \A e \in Elems(done') : ResultAccount(e)'
    BY <1>b, <2>2, <2>4 DEF ResultAccount
  <2> QED
    BY <2>5, <2>6, <2>7
<1>4. ASSUME EndOfScan PROVE Goal
  <2>1. Waiting' = Waiting /\ Queued' = Queued /\ Finished' = Finished /\ UNCHANGED <<done, checked, job, said, removed, err, took, killed>>
    BY <1>4 DEF EndOfScan, channels, report, history, Waiting, Queued, Finished
  <2>2. pc[Main] = "receive" /\ \A t \in Threads \ {Main} : pc'[t] = pc[t]
    BY <1>4 DEF EndOfScan, Step, Goto, TypeOK
  <2>3. job[Main] = None
    BY <1>a, <2>2 DEF ThreadInv, Busy, Removing
  <2> QED
    BY <1>b, <2>1, <2>2, <2>3, ZenonT(60) DEF ItemAccount, ThreadAccount, ResultAccount, Fresh, Held, Sure
<1>5. ASSUME Drain PROVE Goal
  <2> DEFINE h == Head(done)
             i == Head(done).item
  <2>1. /\ h \in Results /\ h \in Elems(done) /\ Elems(done') \subseteq Elems(done)
        /\ Finished = Finished' \cup {i} /\ i \notin Finished'
    BY <1>5, DrainEffect
  <2>2. /\ Waiting' = Waiting /\ Queued' = Queued
        /\ UNCHANGED <<checked, pc, job, said, took, killed>>
    BY <1>5 DEF Drain, threads, history, Waiting, Queued
  <2>3. removed' = [removed EXCEPT ![i] = @ \cup h.said] /\ err' = (err \/ h.err)
    BY <1>5 DEF Drain, Record
  <2>4. i \in Items /\ i \in Finished
    BY <2>1 DEF Results
  <2>5. removed[i] = {} /\ Sure(i) = h.said /\ (i \in killed => h.err)
    BY <1>b, <2>1, <2>4 DEF ItemAccount, ResultAccount
  <2>6. ~Held(i) /\ i \in checked \ (Waiting \cup Queued) /\ i # Current
    BY <2>4 DEF Held, PlaceInv
  <2>7. removed'[i] = h.said /\ \A j \in Items \ {i} : removed'[j] = removed[j]
    BY <2>3, <2>4, <2>5 DEF TypeOK
  <2>8. \A j : Sure(j)' = Sure(j) /\ (Held(j)' <=> Held(j))
    BY <2>2 DEF Held, Sure
  <2> HIDE DEF i, h
  <2>9. ASSUME NEW j \in Items PROVE ItemAccount(j)'
    <3>1. CASE j = i
      BY <2>1, <2>2, <2>3, <2>5, <2>6, <2>7, <2>8, <3>1 DEF ItemAccount
    <3>2. CASE j # i
      <4>1. Fresh(j)' <=> Fresh(j)
        BY <2>2, <2>7, <3>2 DEF Fresh
      <4>2. j \in Finished' <=> j \in Finished
        BY <2>1, <3>2
      <4>3. removed'[j] = removed[j] /\ (err => err')
        BY <2>3, <2>7, <3>2
      <4> QED
        BY <1>b, <2>2, <2>8, <4>1, <4>2, <4>3 DEF ItemAccount
    <3> QED
      BY <3>1, <3>2
  <2>10. \A t \in Threads : ThreadAccount(t)'
    BY <1>b, <2>2, <2>8 DEF ThreadAccount
  <2>11. \A e \in Elems(done') : ResultAccount(e)'
    BY <1>b, <2>1, <2>2, <2>8 DEF ResultAccount
  <2> QED
    BY <2>9, <2>10, <2>11
<1>6. ASSUME StartLast PROVE Goal
  <2>1. Waiting' = Waiting /\ Queued' = Queued /\ Finished' = Finished /\ UNCHANGED <<done, checked, said, removed, err, took, killed>>
    BY <1>6 DEF StartLast, channels, report, history, Waiting, Queued, Finished
  <2>2. pc[Main] = "drain" /\ pc'[Main] \in {"gate", "over"}
    BY <1>a, <1>6 DEF StartLast, Goto, TypeOK
  <2>3. job[Main] = None /\ said[Main] = {}
    BY <1>a, <2>2 DEF ThreadInv, Busy, Removing
  <2>4. \A t \in Threads \ {Main} : pc'[t] = pc[t] /\ job'[t] = job[t]
    BY <1>6 DEF StartLast, Goto, TypeOK
  <2>5. job'[Main] \in {Current, None}
    BY <1>a, <2>3, <1>6 DEF StartLast, MainInv, TypeOK
  <2>6. Fresh(Current) /\ Current \notin Finished
    BY <1>b, <2>2 DEF ItemAccount, PlaceInv
  <2>7. \A j \in Items : Sure(j)' = Sure(j) /\ (Fresh(j)' <=> Fresh(j))
    BY <2>1 DEF Sure, Fresh
  <2>8. \A j \in Items : j # Current => (Held(j)' <=> Held(j))
    BY <1>a, <2>3, <2>4, <2>5 DEF Held
  <2>9. ItemAccount(Current)'
    BY <2>1, <2>6, <2>7 DEF ItemAccount, Fresh, Sure
  <2>10. \A j \in Items \ {Current} : ItemAccount(j)'
    BY <1>b, <2>1, <2>7, <2>8 DEF ItemAccount
  <2>11. \A t \in Threads : ThreadAccount(t)'
    <3>1. ThreadAccount(Main)'
      BY <2>1, <2>3, <2>5, <2>6 DEF ThreadAccount, Fresh, Sure
    <3>2. \A t \in Threads \ {Main} : ThreadAccount(t)'
      BY <1>b, <2>1, <2>4 DEF ThreadAccount, Sure
    <3> QED
      BY <3>1, <3>2
  <2>12. \A e \in Elems(done') : ResultAccount(e)'
    BY <1>b, <2>1 DEF ResultAccount, Sure
  <2> QED
    BY <2>9, <2>10, <2>11, <2>12
<1>7. ASSUME NEW w \in Workers, TakeJob(w) PROVE Goal
  <2> PICK i : i = Head(jobs)
    OBVIOUS
  <2>1. i \in Items \cup {None} /\ Queued' = Queued \ {i} /\ (i # None => i \in Queued)
    BY <1>7, TakeEffect
  <2>2. /\ Waiting' = Waiting /\ Finished' = Finished
        /\ UNCHANGED <<done, checked, said, removed, err, took, killed>>
    BY <1>7 DEF TakeJob, report, history, Waiting, Finished
  <2>3. job[w] = None /\ said[w] = {}
    BY <1>a, <1>7 DEF TakeJob, ThreadInv, Busy, Removing
  <2>4. \A t \in Threads \ {w} : pc'[t] = pc[t] /\ job'[t] = job[t]
    BY <1>7 DEF TakeJob, Goto, TypeOK
  <2>5. job'[w] \in {i, None}
    BY <1>a, <2>3, <1>7 DEF TakeJob, TypeOK
  <2>6. i # None => i \in Items /\ Fresh(i) /\ i \notin Finished /\ i # Current
    BY <1>b, <2>1 DEF ItemAccount, PlaceInv
  <2>7. pc'[Main] = pc[Main]
    BY <1>a, <2>4
  <2>8. \A j \in Items : Sure(j)' = Sure(j) /\ (Fresh(j)' <=> Fresh(j))
    BY <2>2 DEF Sure, Fresh
  <2>9. \A j \in Items : j # i => (Held(j)' <=> Held(j))
    BY <1>a, <2>3, <2>4, <2>5 DEF Held
  <2>10. i # None => ItemAccount(i)'
    BY <2>2, <2>6, <2>8 DEF ItemAccount, Fresh, Sure
  <2>11. \A j \in Items \ {i} : ItemAccount(j)'
    BY <1>b, <2>1, <2>2, <2>7, <2>8, <2>9 DEF ItemAccount
  <2>12. \A t \in Threads : ThreadAccount(t)'
    <3>1. ThreadAccount(w)'
      BY <2>2, <2>3, <2>5, <2>6 DEF ThreadAccount, Fresh, Sure
    <3>2. \A t \in Threads \ {w} : ThreadAccount(t)'
      BY <1>b, <2>2, <2>4 DEF ThreadAccount, Sure
    <3> QED
      BY <3>1, <3>2
  <2>13. \A e \in Elems(done') : ResultAccount(e)'
    BY <1>b, <2>2 DEF ResultAccount, Sure
  <2> QED
    BY <2>10, <2>11, <2>12, <2>13
<1>8. ASSUME NEW w \in Workers, PrintSkip(w) PROVE Goal
  <2>1. Waiting' = Waiting /\ Queued' = Queued /\ Finished' = Finished /\ UNCHANGED <<done, checked, job, said, removed, err, took, killed>>
    BY <1>8 DEF PrintSkip, channels, report, history, Waiting, Queued, Finished
  <2>2. pc'[Main] = pc[Main] /\ \A t \in Threads \ {w} : pc'[t] = pc[t]
    BY <1>a, <1>8 DEF PrintSkip, Step, Goto, TypeOK
  <2>3. job[w] = None
    BY <1>a, <1>8 DEF PrintSkip, Step, ThreadInv, Busy, Removing
  <2> QED
    BY <1>b, <2>1, <2>2, <2>3, ZenonT(60) DEF ItemAccount, ThreadAccount, ResultAccount, Fresh, Held, Sure
<1>9. ASSUME NEW w \in Workers, Exit(w) PROVE Goal
  <2>1. Waiting' = Waiting /\ Queued' = Queued /\ Finished' = Finished /\ UNCHANGED <<done, checked, job, said, removed, err, took, killed>>
    BY <1>9 DEF Exit, channels, report, history, Waiting, Queued, Finished
  <2>2. pc'[Main] = pc[Main] /\ \A t \in Threads \ {w} : pc'[t] = pc[t]
    BY <1>a, <1>9 DEF Exit, Step, Goto, TypeOK
  <2>3. job[w] = None
    BY <1>a, <1>9 DEF Exit, Step, ThreadInv, Busy, Removing
  <2> QED
    BY <1>b, <2>1, <2>2, <2>3, ZenonT(60) DEF ItemAccount, ThreadAccount, ResultAccount, Fresh, Held, Sure
<1>10. ASSUME NEW t \in Threads, Removal(t) PROVE Goal
  <2>1. Progress(t) /\ job[t] # None
    BY <1>10, ProgressSteps DEF ThreadInv, Progress
  <2>2. job[t] \in Items /\ job[t] \notin killed /\ took[job[t]] = said[t] /\ pc[t] # "failed"
    BY <1>10, RemovalTakes
  <2>3. PICK parts \in SUBSET Parts : Taking(t, parts)
    BY <1>10, RemovalTakes
  <2> PICK i : i = job[t]
    OBVIOUS
  <2>4. Waiting' = Waiting /\ Queued' = Queued /\ Finished' = Finished /\ UNCHANGED <<done, checked, job, removed, err>>
    BY <2>1 DEF Progress, channels, report, Waiting, Queued, Finished
  <2>5. /\ i \in checked \ (Waiting \cup Queued \cup Finished) /\ Held(i)
        /\ \A u \in Threads \ {t} : job[u] # i
    BY <2>1, <2>2 DEF PlaceInv, Held, ThreadInv
  <2>6. \A e \in Elems(done) : e.item # i
    BY <2>5 DEF Finished, ItemsIn
  <2>7. i = Current => t = Main /\ pc[Main] \notin {"receive", "drain"}
    BY <2>1, <2>2 DEF ThreadInv, Progress, Busy, Removing
  <2>8. /\ \A j \in Items \ {i} : took'[j] = took[j]
        /\ \A j : j # i => (j \in killed' <=> j \in killed)
    BY <2>2, <2>3 DEF Taking, TypeOK
  <2>9. took'[i] = took[i] \cup parts
    BY <2>2, <2>3 DEF Taking, TypeOK
  <2>10. Sure(i)' = said'[t] /\ (i \in killed' => pc'[t] = "failed")
    BY <2>2, <2>3, <2>4, <2>9 DEF Taking, Sure
  <2>11. \A u \in Threads \ {t} : pc'[u] = pc[u] /\ said'[u] = said[u]
    BY <2>1 DEF Progress
  <2>12. pc[Main] \in {"receive", "drain"} <=> pc'[Main] \in {"receive", "drain"}
    BY <1>a, <2>1, <2>11 DEF Progress, Busy, Removing
  <2>13. \A j \in Items \ {i} : Sure(j)' = Sure(j) /\ (Fresh(j)' <=> Fresh(j))
    BY <2>4, <2>8 DEF Sure, Fresh
  <2>14. \A j \in Items : Held(j)' <=> Held(j)
    BY <2>4 DEF Held
  <2>15. ItemAccount(i)'
    BY <1>b, <2>2, <2>4, <2>5, <2>7, <2>12, <2>14 DEF ItemAccount
  <2>16. \A j \in Items \ {i} : ItemAccount(j)'
    BY <1>b, <2>4, <2>8, <2>12, <2>13, <2>14 DEF ItemAccount
  <2>17. ThreadAccount(t)'
    BY <2>4, <2>10 DEF ThreadAccount
  <2>18. ASSUME NEW u \in Threads \ {t} PROVE ThreadAccount(u)'
    <3>1. CASE job[u] = None
      BY <2>4, <3>1 DEF ThreadAccount
    <3>2. CASE job[u] # None
      <4>1. job[u] \in Items \ {i}
        BY <2>5, <3>2 DEF TypeOK
      <4> QED
        BY <1>b, <2>4, <2>8, <2>11, <2>13, <4>1 DEF ThreadAccount
    <3> QED
      BY <3>1, <3>2
  <2>19. ASSUME NEW e \in Elems(done') PROVE ResultAccount(e)'
    <3>1. e \in Elems(done) /\ e.item # i
      BY <2>4, <2>6
    <3>2. e.item \in Items
      BY <3>1 DEF TypeOK, PlaceInv, Finished, ItemsIn
    <3> QED
      BY <1>b, <2>8, <2>13, <3>1, <3>2 DEF ResultAccount
  <2> QED
    BY <2>15, <2>16, <2>17, <2>18, <2>19
<1>11. ASSUME NEW t \in Threads, NEW e \in BOOLEAN, Ended(t, e) PROVE Goal
  <2> PICK i : i = job[t]
    OBVIOUS
  <2>1. pc[t] = (IF e THEN "failed" ELSE "finish") /\ i # None /\ i \in Items
    <3>1. pc[t] = IF e THEN "failed" ELSE "finish"
      BY <1>11 DEF Ended
    <3>2. pc[t] \in Busy
      BY <3>1 DEF Busy, Removing
    <3> QED
      BY <3>1, <3>2 DEF ThreadInv, TypeOK
  <2>2. Sure(i) = said[t] /\ (i \in killed => e)
    BY <1>b, <2>1 DEF ThreadAccount
  <2>3. /\ i \in checked \ (Waiting \cup Queued \cup Finished) /\ Held(i)
        /\ \A u \in Threads \ {t} : job[u] # i
    BY <2>1 DEF PlaceInv, Held, ThreadInv
  <2>4. removed[i] = {}
    BY <1>b, <2>1, <2>3 DEF ItemAccount
  <2>5. /\ Waiting' = Waiting /\ Queued' = Queued /\ UNCHANGED <<checked, took, killed>>
    BY <1>11 DEF Ended, history, Waiting, Queued
  <2>6. /\ job'[t] = None
        /\ \A u \in Threads \ {t} : pc'[u] = pc[u] /\ job'[u] = job[u] /\ said'[u] = said[u]
    BY <1>11 DEF Ended, Result, Goto, TypeOK
  <2>7. \A j : Sure(j)' = Sure(j)
    BY <2>5 DEF Sure
  <2>8. ~Held(i)' /\ \A j \in Items \ {i} : Held(j)' <=> Held(j)
    <3>1. ~Held(i)'
      BY <2>1, <2>3, <2>6 DEF Held
    <3>2. ASSUME NEW j \in Items \ {i} PROVE Held(j)' <=> Held(j)
      BY <2>6, PruneAssumption DEF Held
    <3> QED
      BY <3>1, <3>2
  <2>9. \A u \in Threads : ThreadAccount(u)'
    BY <1>b, <2>5, <2>6, <2>7 DEF ThreadAccount
  <2>10. CASE t = Main
    <3>1. removed' = [removed EXCEPT ![i] = @ \cup said[t]] /\ err' = (err \/ e) /\ done' = done
      BY <1>11, <2>10 DEF Ended, Result, Record
    <3>2. Finished' = Finished /\ pc'[Main] = "over"
      BY <1>11, <2>10, <3>1 DEF Ended, Result, Goto, Finished, TypeOK
    <3>3. removed'[i] = said[t] /\ \A j \in Items \ {i} : removed'[j] = removed[j]
      BY <2>1, <2>4, <3>1 DEF TypeOK
    <3>4. ItemAccount(i)'
      BY <2>2, <2>3, <2>5, <2>7, <2>8, <3>1, <3>2, <3>3 DEF ItemAccount
    <3>5. ASSUME NEW j \in Items \ {i} PROVE ItemAccount(j)'
      <4>1. Fresh(j)' <=> Fresh(j)
        BY <2>5, <3>3 DEF Fresh
      <4>2. (Held(j)' <=> Held(j)) /\ removed'[j] = removed[j] /\ (err => err')
        BY <2>8, <3>1, <3>3
      <4> QED
        BY <1>b, <2>5, <2>7, <3>2, <4>1, <4>2 DEF ItemAccount
    <3>6. \A r \in Elems(done') : ResultAccount(r)'
      BY <1>b, <2>5, <2>7, <3>1 DEF ResultAccount
    <3> QED
      BY <2>9, <3>4, <3>5, <3>6
  <2>11. CASE t # Main
    <3>1. t \in Workers
      BY <2>11 DEF Threads
    <3>2. /\ Elems(done') = Elems(done) \cup {[item |-> i, said |-> said[t], err |-> e]}
          /\ Finished' = Finished \cup {i}
      BY <1>11, <3>1, EndedEffect
    <3>3. removed' = removed /\ err' = err /\ pc'[Main] = pc[Main]
      BY <1>11, <1>a, <2>6, <2>11 DEF Ended, Result, report
    <3>4. i # Current
      BY <2>1, <2>11 DEF ThreadInv
    <3>5. ItemAccount(i)'
      BY <2>3, <2>4, <2>5, <2>8, <3>2, <3>3, <3>4 DEF ItemAccount
    <3>6. ASSUME NEW j \in Items \ {i} PROVE ItemAccount(j)'
      <4>1. Fresh(j)' <=> Fresh(j)
        BY <2>5, <3>3 DEF Fresh
      <4>2. (Held(j)' <=> Held(j)) /\ (j \in Finished' <=> j \in Finished)
        BY <2>8, <3>2
      <4> QED
        BY <1>b, <2>5, <2>7, <3>3, <4>1, <4>2 DEF ItemAccount
    <3>7. ASSUME NEW r \in Elems(done') PROVE ResultAccount(r)'
      <4>1. CASE r \in Elems(done)
        BY <1>b, <2>5, <2>7, <4>1 DEF ResultAccount
      <4>2. CASE r = [item |-> i, said |-> said[t], err |-> e]
        BY <2>2, <2>5, <2>7, <4>2 DEF ResultAccount
      <4> QED
        BY <3>2, <4>1, <4>2
    <3> QED
      BY <2>9, <3>5, <3>6, <3>7
  <2> QED
    BY <2>10, <2>11
<1> QED
  BY <1>1, <1>2, <1>3, <1>4, <1>5, <1>6, <1>7, <1>8, <1>9, <1>10, <1>11, StepKinds

LEMMA LatchStep ==
    /\ TypeOK /\ EachOnce /\ ThreadInv /\ MainInv /\ PlaceInv /\ AccountInv /\ LatchInv
    /\ [Next]_vars
    => LatchInv'
<1> SUFFICES ASSUME TypeOK, EachOnce, ThreadInv, MainInv, PlaceInv, AccountInv, LatchInv, [Next]_vars
             PROVE  LatchInv'
  OBVIOUS
<1> USE PruneAssumption
<1> DEFINE Deleting == {"update", "classify"}
<1>a. Main \in Threads /\ Main \notin Workers /\ \A w \in Workers : w \in Threads
  BY DEF Threads
<1>1. CASE Quiet
  <2>1. UNCHANGED <<latched, done, err, pc>>
    BY <1>1 DEF Quiet, channels, threads, report
  <2> QED
    BY <2>1 DEF LatchInv
<1>2. ASSUME NEW i \in Items, Check(i) PROVE LatchInv'
  <2>1. UNCHANGED <<latched, done, err, pc>>
    BY <1>2 DEF Check, stops, threads, report
  <2> QED
    BY <2>1 DEF LatchInv
<1>3. ASSUME Receive PROVE LatchInv'
  <2>1. UNCHANGED <<latched, done, pc>> /\ (err => err')
    BY <1>3 DEF Receive, threads
  <2> QED
    BY <2>1 DEF LatchInv
<1>4. ASSUME EndOfScan PROVE LatchInv'
  <2>1. UNCHANGED <<latched, done, err>>
    BY <1>4 DEF EndOfScan, channels, stops, report
  <2>2. /\ \A u \in Threads \ {Main} : pc'[u] = pc[u]
        /\ pc[Main] # "failed" /\ pc'[Main] \notin Deleting
    BY <1>a, <1>4 DEF EndOfScan, Step, Goto, TypeOK
  <2> QED
    BY <2>1, <2>2 DEF LatchInv
<1>5. ASSUME Drain PROVE LatchInv'
  <2>1. UNCHANGED <<latched, pc>> /\ err' = (err \/ Head(done).err)
    BY <1>5 DEF Drain, stops, threads
  <2>2. Elems(done) = Elems(done') \cup {Head(done)}
    BY <1>5, DrainEffect
  <2>3. (\E e \in Elems(done) : e.err) => (\E e \in Elems(done') : e.err) \/ err'
    BY <2>1, <2>2
  <2> QED
    BY <2>1, <2>3 DEF LatchInv
<1>6. ASSUME StartLast PROVE LatchInv'
  <2>1. UNCHANGED <<latched, done, err>>
    BY <1>6 DEF StartLast, channels, stops, report
  <2>2. /\ \A u \in Threads \ {Main} : pc'[u] = pc[u]
        /\ pc[Main] # "failed" /\ pc'[Main] \notin Deleting
    BY <1>a, <1>6 DEF StartLast, Step, Goto, TypeOK
  <2> QED
    BY <2>1, <2>2 DEF LatchInv
<1>7. ASSUME NEW w \in Workers, TakeJob(w) PROVE LatchInv'
  <2>1. UNCHANGED <<latched, done, err>>
    BY <1>7 DEF TakeJob, channels, stops, report
  <2>2. /\ \A u \in Threads \ {w} : pc'[u] = pc[u]
        /\ pc[w] # "failed" /\ pc'[w] \notin Deleting
    BY <1>a, <1>7 DEF TakeJob, Step, Goto, TypeOK
  <2> QED
    BY <2>1, <2>2 DEF LatchInv
<1>8. ASSUME NEW w \in Workers, PrintSkip(w) PROVE LatchInv'
  <2>1. UNCHANGED <<latched, done, err>>
    BY <1>8 DEF PrintSkip, channels, stops, report
  <2>2. /\ \A u \in Threads \ {w} : pc'[u] = pc[u]
        /\ pc[w] # "failed" /\ pc'[w] \notin Deleting
    BY <1>a, <1>8 DEF PrintSkip, Step, Goto, TypeOK
  <2> QED
    BY <2>1, <2>2 DEF LatchInv
<1>9. ASSUME NEW w \in Workers, Exit(w) PROVE LatchInv'
  <2>1. UNCHANGED <<latched, done, err>>
    BY <1>9 DEF Exit, channels, stops, report
  <2>2. /\ \A u \in Threads \ {w} : pc'[u] = pc[u]
        /\ pc[w] # "failed" /\ pc'[w] \notin Deleting
    BY <1>a, <1>9 DEF Exit, Step, Goto, TypeOK
  <2> QED
    BY <2>1, <2>2 DEF LatchInv
<1>10. ASSUME NEW t \in Threads, Removal(t) PROVE LatchInv'
  <2>1. Progress(t)
    BY <1>10, ProgressSteps
  <2>2. /\ \A u \in Threads \ {t} : pc'[u] = pc[u]
        /\ done' = done /\ err' = err
    BY <2>1 DEF Progress, channels, report
  <2>3. pc[t] # "failed"
    BY <1>10, RemovalTakes
  <2>4. /\ pc'[t] \in Deleting => pc[t] \in Deleting \/ (~latched /\ \A u \in Threads : pc[u] \notin Deleting)
        /\ latched' # latched => pc[t] \in Deleting
        /\ latched' # latched => pc'[t] = "failed"
    <3> USE DEF TypeOK, Goto, Step, stops
    <3>1. CASE Gate(t)
      BY <3>1 DEF Gate, FirstStep
    <3>2. CASE Hook(t)
      BY <3>2 DEF Hook
    <3>3. CASE Stage(t)
      BY <3>3 DEF Stage, AfterTree
    <3>4. CASE HandOver(t)
      BY <3>4 DEF HandOver
    <3>5. CASE PruneEntry(t)
      BY <3>5 DEF PruneEntry, AfterTree
    <3>6. CASE Capture(t)
      BY <3>6 DEF Capture
    <3>7. CASE Topology(t)
      BY <3>7 DEF Topology
    <3>8. CASE LockDeletions(t)
      BY <3>8 DEF LockDeletions
    <3>9. CASE DeleteRef(t)
      BY <3>9 DEF DeleteRef
    <3>10. CASE DeleteRefuses(t)
      BY <3>10 DEF DeleteRefuses
    <3>11. CASE Classify(t)
      BY <3>11 DEF Classify
    <3>12. CASE DeletionKilled(t)
      BY <3>12 DEF DeletionKilled
    <3>13. CASE Fail(t)
      BY <3>13 DEF Fail
    <3> QED
      BY <1>10, <3>1, <3>2, <3>3, <3>4, <3>5, <3>6, <3>7, <3>8, <3>9, <3>10, <3>11, <3>12, <3>13 DEF Removal
  <2>5. ASSUME NEW u \in Threads, NEW v \in Threads, {pc'[u], pc'[v]} \subseteq Deleting PROVE u = v
    BY <2>2, <2>4, <2>5 DEF LatchInv
  <2>6. CASE latched' = latched
    BY <2>2, <2>3, <2>4, <2>5, <2>6 DEF LatchInv
  <2>7. CASE latched' # latched
    <3>1. pc[t] \in Deleting /\ pc'[t] = "failed"
      BY <2>4, <2>7
    <3>2. \A u \in Threads : pc'[u] \notin Deleting
      BY <2>2, <3>1 DEF LatchInv
    <3> QED
      BY <2>5, <3>1, <3>2 DEF LatchInv
  <2> QED
    BY <2>6, <2>7
<1>11. ASSUME NEW t \in Threads, NEW e \in BOOLEAN, Ended(t, e) PROVE LatchInv'
  <2>1. /\ \A u \in Threads \ {t} : pc'[u] = pc[u]
        /\ pc'[t] \notin Deleting /\ latched' = latched
    BY <1>11 DEF Ended, Result, Goto, TypeOK
  <2>2. pc[t] = "failed" => e
    BY <1>11 DEF Ended
  <2>3. CASE t = Main
    <3>1. done' = done /\ err' = (err \/ e)
      BY <1>11, <2>3 DEF Ended, Result
    <3>2. \A u \in Threads : pc[u] = "failed" => pc'[u] = "failed" \/ err'
      BY <2>1, <2>2, <3>1
    <3>3. (\E r \in Elems(done) : r.err) => \E r \in Elems(done') : r.err
      BY <3>1
    <3>4. err => err'
      BY <3>1
    <3> QED
      BY <2>1, <3>2, <3>3, <3>4 DEF LatchInv
  <2>4. CASE t # Main
    <3>1. t \in Workers
      BY <2>4 DEF Threads
    <3>2. Elems(done') = Elems(done) \cup {[item |-> job[t], said |-> said[t], err |-> e]}
      BY <1>11, <3>1, EndedEffect
    <3>3. err' = err
      BY <1>11, <2>4 DEF Ended, Result, report
    <3>4. e => \E r \in Elems(done') : r.err
      <4> PICK r : r = [item |-> job[t], said |-> said[t], err |-> e]
        OBVIOUS
      <4>1. r.err = e /\ r \in Elems(done')
        BY <3>2
      <4> QED
        BY <4>1
    <3>5. \A u \in Threads : pc[u] = "failed" => pc'[u] = "failed" \/ \E r \in Elems(done') : r.err
      BY <2>1, <2>2, <3>4
    <3>6. (\E r \in Elems(done) : r.err) => \E r \in Elems(done') : r.err
      BY <3>2
    <3> QED
      BY <2>1, <3>3, <3>5, <3>6 DEF LatchInv
  <2> QED
    BY <2>3, <2>4
<1> QED
  BY <1>1, <1>2, <1>3, <1>4, <1>5, <1>6, <1>7, <1>8, <1>9, <1>10, <1>11, StepKinds

LEMMA Invariance == Spec => []IInv
<1>1. Init => IInv
  BY TypeInit, InvInit DEF IInv
<1>2. IInv /\ [Next]_vars => IInv'
  BY TypeStep, OnceStep, ThreadStep, MainStepInv, PlaceStep, AccountStep, LatchStep DEF IInv
<1> QED
  BY <1>1, <1>2, PTL DEF Spec

-----------------------------------------------------------------------------
(* ---- the theorems ---- *)

\* Every variable keeps its type.
THEOREM TypeCorrect == Spec => []TypeOK
<1>1. IInv => TypeOK
  BY DEF IInv
<1> QED
  BY <1>1, Invariance, PTL

\* No removal destroys what is newer than the scan whose plan it executes: staging looks at the
\* worktree, pruning at the registration, and the deletion of a branch at the ref, in the very step.
THEOREM NewWorkSurvives == Spec => NothingNewDestroyed
<1> DEFINE Kept == \A t \in Threads : pc[t] \in Removing /\ pc'[t] # pc[t] =>
                      /\ \A i \in Items : at[i] = "live" /\ at'[i] = "gone" => kind[i] = "linked" /\ i \notin dirty
                      /\ \A b \in Branches : ref[b] = "moved" => ref'[b] = "moved"
<1>1. ASSUME IInv, [Next]_vars PROVE Kept
  <2> USE <1>1 DEF IInv, TypeOK
  <2>1. ASSUME UNCHANGED <<at, ref>> PROVE Kept
    BY <2>1
  <2>2. ASSUME pc' = pc PROVE Kept
    BY <2>2
  <2>3. ASSUME NEW t \in Threads, Stage(t) PROVE Kept
    <3>1. kind[job[t]] = "linked"
      BY <2>3 DEF Stage, Step, ThreadInv
    <3> QED
      BY <2>3, <3>1 DEF Stage
  <2>4. ASSUME NEW t \in Threads, PruneEntry(t) PROVE Kept
    BY <2>4 DEF PruneEntry
  <2>5. ASSUME NEW t \in Threads, DeleteRef(t) PROVE Kept
    BY <2>5 DEF DeleteRef, Ref
  <2>6. ASSUME NEW t \in Threads, DeletionKilled(t) PROVE Kept
    BY <2>6 DEF DeletionKilled, Ref
  <2> HIDE DEF IInv, TypeOK, Kept
  <2>7. ASSUME NEW t \in Threads, Removal(t) PROVE Kept
    BY <2>1, <2>3, <2>4, <2>5, <2>6, <2>7
    DEF Removal, Gate, Hook, HandOver, Capture, Topology, LockDeletions, DeleteRefuses, Classify, Fail, world
  <2>8. ASSUME NEW t \in Threads, Succeed(t) \/ ReportFailure(t) PROVE Kept
    BY <2>1, <2>8 DEF Succeed, ReportFailure, world
  <2>9. ASSUME Environment \/ Interrupt \/ UNCHANGED vars PROVE Kept
    <3>1. Quiet
      BY <2>9, QuietSteps
    <3> QED
      BY <2>2, <3>1 DEF Quiet, threads
  <2>10. ASSUME \/ Receive \/ EndOfScan \/ Drain \/ StartLast
                \/ \E i \in Items : Check(i)
                \/ \E w \in Workers : TakeJob(w) \/ PrintSkip(w) \/ Exit(w)
         PROVE  Kept
    BY <2>1, <2>10 DEF Receive, EndOfScan, Drain, StartLast, Check, TakeJob, PrintSkip, Exit, world
  <2> QED
    BY <2>7, <2>8, <2>9, <2>10
    DEF Next, Command, MainStep, WorkerStep, Remove, Removal, Threads
<1>2. IInv /\ [Next]_vars => [Kept]_vars
  BY <1>1
<1> QED
  BY <1>2, Invariance, PTL DEF Spec, NothingNewDestroyed

\* After one branch deletion was interrupted no other branch is deleted: the coordinator's latch stops
\* the threads behind its mutex, and the failure that comes with it keeps the current worktree, whose
\* detached removal deletes its branch without the coordinator, from having its turn.
THEOREM InterruptedDeletionIsLast == Spec => LatchStopsDeletions
<1> DEFINE Same == latched => \A i \in Items : ("branch" \in took'[i]) = ("branch" \in took[i])
<1>1. ASSUME IInv, [Next]_vars PROVE Same
  <2>1. SUFFICES ASSUME latched PROVE \A i \in Items : ("branch" \in took'[i]) = ("branch" \in took[i])
    OBVIOUS
  <2> DEFINE Goal == \A i \in Items : ("branch" \in took'[i]) = ("branch" \in took[i])
  <2> USE <1>1
  <2>2. ASSUME took' = took PROVE Goal
    BY <2>2
  <2>3. \A t \in Threads : pc[t] \notin {"update", "classify"}
    BY <2>1 DEF IInv, LatchInv
  <2>4. ASSUME NEW t \in Threads, HandOver(t) PROVE FALSE
    <3>1. t = Main /\ pc[Main] = "stage" /\ job[Main] # None
      BY <2>4, PruneAssumption DEF HandOver, Step, IInv, ThreadInv, Threads
    <3>2. /\ \A w \in Workers : pc[w] = "exited"
          /\ done = <<>> /\ ~err
      BY <3>1 DEF IInv, MainInv
    <3>3. Elems(done) = {}
      BY <3>2 DEF Elems
    <3> QED
      BY <2>1, <3>1, <3>2, <3>3 DEF IInv, LatchInv, Threads
  <2>5. ASSUME NEW t \in Threads, Stage(t) \/ PruneEntry(t) PROVE Goal
    <3>1. took' = [took EXCEPT ![job[t]] = @ \cup {"tree"}]
      BY <2>5 DEF Stage, PruneEntry, Take
    <3>2. \A i \in Items : took'[i] = took[i] \/ took'[i] = took[i] \cup {"tree"}
      BY <3>1 DEF IInv, TypeOK
    <3>3. \A i \in Items : "branch" \in took'[i] <=> "branch" \in took[i]
      BY <3>2
    <3> QED
      BY <3>3
  <2>6. ASSUME NEW t \in Threads, Removal(t) PROVE Goal
    BY <2>2, <2>3, <2>4, <2>5, <2>6
    DEF Removal, Gate, Hook, Capture, Topology, LockDeletions, DeleteRef, DeleteRefuses, Classify,
        DeletionKilled, Fail, Step, history
  <2>7. ASSUME \/ Quiet \/ Receive \/ EndOfScan \/ Drain \/ StartLast
               \/ \E i \in Items : Check(i)
               \/ \E w \in Workers : TakeJob(w) \/ PrintSkip(w) \/ Exit(w)
               \/ \E t \in Threads, e \in BOOLEAN : Ended(t, e)
        PROVE  took' = took
    BY <2>7 DEF Quiet, Receive, EndOfScan, Drain, StartLast, Check, TakeJob, PrintSkip, Exit, Ended, history
  <2> QED
    BY <2>2, <2>6, <2>7, StepKinds
<1>2. IInv /\ [Next]_vars => [Same]_vars
  BY <1>1
<1> QED
  BY <1>2, Invariance, PTL DEF Spec, LatchStopsDeletions

(* ---- the command implements PrunePromise ---- *)

\* When the main thread is through, the report is complete and a doubt about a branch is an error.
AtEnd == pc[Main] = "over"
Settled == \A i \in Items : Sure(i) = removed[i] /\ (i \in killed => err)

LEMMA EndIsSettled == IInv /\ AtEnd => Settled
<1> SUFFICES ASSUME IInv, AtEnd PROVE Settled
  OBVIOUS
<1> USE PruneAssumption DEF IInv
<1>1. done = <<>> /\ \A w \in Workers : pc[w] = "exited"
  BY DEF MainInv, AtEnd
<1>2. Finished = {}
  BY <1>1 DEF Finished, ItemsIn, Elems
<1>3. \A t \in Threads : job[t] = None
  BY <1>1 DEF ThreadInv, AtEnd, Threads, Busy, Removing
<1>4. \A i \in Items : ~Held(i)
  BY <1>3 DEF Held
<1> QED
  BY <1>2, <1>4 DEF AccountInv, Settled

LEMMA EndIsSettledNext == IInv' /\ AtEnd' => Settled'
BY EndIsSettled, PTL

LEMMA StepImplements == IInv /\ IInv' /\ [Next]_vars => [Promise!Next]_(Promise!vars)
<1> SUFFICES ASSUME IInv, IInv', [Next]_vars PROVE [Promise!Next]_(Promise!vars)
  OBVIOUS
<1> DEFINE Simulated == [Promise!Next]_(Promise!vars)
<1>a. /\ Main \in Threads /\ Main \notin Workers /\ (\A w \in Workers : w \in Threads)
      /\ None \notin Items /\ Current \in Items
  BY PruneAssumption DEF Threads
<1>b. /\ TypeOK /\ EachOnce /\ ThreadInv /\ MainInv /\ PlaceInv /\ AccountInv
      /\ TypeOK' /\ ThreadInv'
  BY DEF IInv
\* A step that the promise does not see, and one that only turns on the error.
<1>c. ASSUME UNCHANGED <<took, killed, err>>, job'[Main] # None <=> job[Main] # None,
             pc[Main] # "over", pc'[Main] # "over"
      PROVE  Simulated
  BY <1>c DEF Promise!vars
<1>d. ASSUME UNCHANGED <<took, killed, job, pc>>, pc[Main] # "over", err' \in {err, TRUE}
      PROVE  Simulated
  <2>1. CASE err' = err
    BY <1>d, <2>1 DEF Promise!vars
  <2>2. CASE err' = TRUE
    BY <1>d, <2>2 DEF Promise!Next, Promise!Fail
  <2> QED
    BY <1>d, <2>1, <2>2
\* The last step of the main thread.
<1>e. ASSUME UNCHANGED <<took, killed>>, pc[Main] # "over", pc'[Main] = "over", err' \in {err, TRUE}
      PROVE  Simulated
  <2>1. \A i \in Items : Sure(i)' = removed'[i] /\ (i \in killed' => err')
    BY <1>e, EndIsSettledNext DEF AtEnd, Settled
  <2>2. job'[Main] = None
    BY <1>a, <1>b, <1>e DEF ThreadInv, Busy, Removing
  <2>3. removed' \in [Items -> SUBSET Parts] /\ killed \subseteq Items
    BY <1>b DEF TypeOK
  <2>4. removed' = [i \in Items |-> IF i \in killed THEN took[i] \ {"branch"} ELSE took[i]]
    BY <1>e, <2>1, <2>3 DEF Sure
  <2>5. killed # {} => err'
    BY <1>e, <2>1, <2>3
  <2>6. Promise!Finish
    BY <1>e, <2>2, <2>4, <2>5 DEF Promise!Finish
  <2> QED
    BY <2>6 DEF Promise!Next
<1> HIDE DEF Simulated
<1>1. CASE Quiet
  <2>1. UNCHANGED <<took, killed, err, job, pc, removed>>
    BY <1>1 DEF Quiet, threads, report, history
  <2> QED
    BY <2>1 DEF Simulated, Promise!vars
<1>2. ASSUME NEW i \in Items, Check(i) PROVE Simulated
  <2>1. UNCHANGED <<took, killed, err, job, pc, removed>>
    BY <1>2 DEF Check, threads, report, history
  <2> QED
    BY <2>1 DEF Simulated, Promise!vars
<1>3. ASSUME Receive PROVE Simulated
  BY <1>3, <1>b, <1>d DEF Receive, threads, history, TypeOK
<1>4. ASSUME EndOfScan PROVE Simulated
  BY <1>3, <1>a, <1>b, <1>c, <1>4 DEF EndOfScan, Step, Goto, report, history, TypeOK
<1>5. ASSUME Drain PROVE Simulated
  <2>1. Head(done).err \in BOOLEAN
    BY <1>5, <1>b, DrainEffect DEF Results
  <2> QED
    BY <1>5, <1>b, <1>d, <2>1 DEF Drain, threads, history, TypeOK
<1>6. ASSUME StartLast PROVE Simulated
  <2>1. pc[Main] = "drain" /\ UNCHANGED <<took, killed, err>>
    BY <1>6 DEF StartLast, report, history
  <2>2. job[Main] = None
    BY <1>a, <1>b, <2>1 DEF ThreadInv, Busy, Removing
  <2>3. CASE ~err /\ deferred # None
    <3>1. job'[Main] # None /\ pc'[Main] # "over"
      BY <1>6, <1>a, <1>b, <2>3 DEF StartLast, Goto, TypeOK
    <3>2. Promise!BeginLast
      BY <2>1, <2>2, <2>3, <3>1 DEF Promise!BeginLast
    <3> QED
      BY <3>2 DEF Simulated, Promise!Next
  <2>4. CASE ~(~err /\ deferred # None)
    <3>1. pc'[Main] = "over"
      BY <1>6, <1>a, <1>b, <2>4 DEF StartLast, Goto, TypeOK
    <3> QED
      BY <1>e, <2>1, <3>1
  <2> QED
    BY <2>3, <2>4
<1>7. ASSUME NEW w \in Workers, TakeJob(w) \/ PrintSkip(w) \/ Exit(w) PROVE Simulated
  <2>1. UNCHANGED <<took, killed, err, removed>> /\ pc[w] \in {"idle", "print"}
    BY <1>7 DEF TakeJob, PrintSkip, Exit, Step, report, history
  <2>2. pc'[Main] = pc[Main] /\ job'[Main] = job[Main]
    BY <1>7, <1>a, <1>b DEF TakeJob, PrintSkip, Exit, Step, Goto, TypeOK
  <2> QED
    BY <2>1, <2>2 DEF Simulated, Promise!vars
<1>8. ASSUME NEW t \in Threads, Removal(t) PROVE Simulated
  <2>1. Progress(t) /\ job[t] \in Items /\ job[t] # None
    BY <1>8, <1>a, <1>b, ProgressSteps, RemovalTakes
  <2>2. PICK parts \in SUBSET Parts : Taking(t, parts)
    BY <1>8, <1>b, RemovalTakes
  <2>3. UNCHANGED <<err, job>> /\ \A u \in Threads \ {t} : pc'[u] = pc[u]
    BY <2>1 DEF Progress, report
  <2>4. pc[t] \in Busy /\ pc'[t] \in Busy
    BY <2>1 DEF Progress
  <2>5. t = Main \/ pc[Main] \in {"receive", "drain"}
    BY <1>b, <2>4 DEF MainInv, Threads, Busy, Removing
  <2>6. pc[Main] # "over" /\ pc'[Main] # "over"
    BY <1>a, <2>3, <2>4, <2>5 DEF Busy, Removing
  <2>7. job[Main] # None => job[t] = Current
    <3>1. CASE t = Main
      BY <1>a, <1>b, <2>1, <3>1 DEF ThreadInv
    <3>2. CASE t # Main
      BY <1>a, <1>b, <2>5, <3>2 DEF ThreadInv, Busy, Removing
    <3> QED
      BY <3>1, <3>2
  <2>8. CASE killed' = killed
    <3>1. Promise!Take(job[t], parts)
      BY <2>2, <2>3, <2>6, <2>7, <2>8 DEF Taking, Promise!Take
    <3> QED
      BY <2>1, <3>1 DEF Simulated, Promise!Next, Parts
  <2>9. CASE killed' = killed \cup {job[t]} /\ parts = {"branch"}
    <3>1. Promise!Killed(job[t])
      BY <2>2, <2>3, <2>6, <2>7, <2>9 DEF Taking, Promise!Killed
    <3> QED
      BY <2>1, <3>1 DEF Simulated, Promise!Next
  <2> QED
    BY <2>2, <2>8, <2>9 DEF Taking
<1>9. ASSUME NEW t \in Threads, NEW e \in BOOLEAN, Ended(t, e) PROVE Simulated
  <2>1. UNCHANGED <<took, killed>> /\ pc[t] \in {"finish", "failed"}
    BY <1>9 DEF Ended, history
  <2>2. CASE t = Main
    <3>1. pc'[Main] = "over" /\ err' = (err \/ e)
      BY <1>9, <1>a, <1>b, <2>2 DEF Ended, Result, Goto, TypeOK
    <3>2. err' \in {err, TRUE}
      BY <1>b, <3>1 DEF TypeOK
    <3> QED
      BY <1>e, <2>1, <2>2, <3>1, <3>2
  <2>3. CASE t # Main
    <3>1. UNCHANGED <<err, removed>> /\ pc'[Main] = pc[Main] /\ job'[Main] = job[Main]
      BY <1>9, <1>a, <1>b, <2>3 DEF Ended, Result, Goto, report, TypeOK
    <3> QED
      BY <2>1, <3>1 DEF Simulated, Promise!vars
  <2> QED
    BY <2>2, <2>3
<1> QED
  BY <1>1, <1>2, <1>3, <1>4, <1>5, <1>6, <1>7, <1>8, <1>9, StepKinds DEF Simulated

\* Workers, verdicts, results and the user together behave as the abstract prune: every step takes
\* parts of one item, gives the current worktree its turn, fails, ends the command with a report of
\* exactly what was taken, or is invisible.
THEOREM Implementation == Spec => ImplementsPromise
<1>1. Init => Promise!Init
  BY PruneAssumption DEF Init, Promise!Init, Threads
<1> QED
  BY <1>1, Invariance, StepImplements, PTL DEF Spec, ImplementsPromise, Promise!Spec
================================================================================
