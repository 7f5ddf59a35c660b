------------------------------ MODULE MergeProofs ------------------------------
(***************************************************************************)
(* wt merge, and the foreground commands that its hooks run as.            *)
(*                                                                         *)
(* Merge from any repositories, for any number of steps of others: no work *)
(* is lost, the report is what was done, HEAD is put back, and what was    *)
(* published when a stage looked is not rewritten, each but for the cases  *)
(* that its theorem names.  The second half has                            *)
(*                                                                         *)
(* Foreground for any children, pipelines and numbers of signals: every    *)
(* child that runs knows of a Ctrl-C that is latched, nothing starts once  *)
(* the operation is cancelled, a signal sent under a lease kills nobody    *)
(* else's wt, a cancellation is reported, and output is shown.             *)
(***************************************************************************)
EXTENDS Merge, Foreground, TLAPS, SequenceTheorems, FiniteSetTheorems, WellFoundedInduction

-----------------------------------------------------------------------------
(* Merge: the invariant *)

HistoryTypes ==
    /\ target \in Seq(Trees) \ {NoHistory} /\ branch \in Seq(Trees) /\ upstream \in Seq(Trees)
    /\ detached \in Seq(Trees) /\ tip \in Seq(Trees) /\ base \in Seq(Trees)
    /\ new \in Seq(Trees) /\ old \in Seq(Trees) /\ overtaken \subseteq Seq(Trees)
    /\ branch = NoHistory => gone
    /\ onto \in {"target", "upstream"} /\ (onto = "upstream" => upstream # NoHistory)

FileTypes ==
    /\ index \in Trees /\ work \in Trees /\ made \in Trees /\ behind \in Trees
    /\ backup \subseteq [parent : Seq(Trees), tree : Trees]

ProgressTypes ==
    [committed : BOOLEAN, squashed : BOOLEAN, rebased : BOOLEAN, merged : BOOLEAN,
     removed : {"unknown", "removed", "kept"}]

FlowTypes ==
    /\ rebasing \in BOOLEAN /\ gone \in BOOLEAN /\ users \in 0..MaxUser
    /\ mode \in {"all", "none"} /\ staged \in BOOLEAN
    /\ known \in BOOLEAN /\ progress \in ProgressTypes /\ told \in BOOLEAN
    /\ did \subseteq Kinds \cup {"removed"} /\ unread \subseteq Kinds

MergeTypeOK == HistoryTypes /\ FileTypes /\ FlowTypes

\* The steps of each stage, and what is known of its outcome.
PartInv ==
    /\ part \in {"gates", "commit", "squash", "rebase", "push", "finish"}
    /\ part = "gates" => step \in {"gates", "failed", "killed"}
    /\ part = "commit" => step \in {"stage", "hook", "restage", "inspect", "commit", "named", "announce",
                                    "failed", "killed"}
    /\ part = "squash" => step \in {"stage", "hook", "restage", "inspect", "decide", "backup", "tree", "cancel",
                                    "detach", "commit", "named", "move", "reattach", "putBack", "announce",
                                    "failed", "killed"}
    /\ part = "rebase" => step \in {"rebase", "gitRebase", "rebased", "preMerge", "failed", "killed"}
    /\ part = "push" => step \in {"prepare", "advance", "landed", "failed", "killed"}
    /\ part = "finish" => step \in {"finish", "remove", "finished", "done", "failed", "killed"}
    /\ gone => part = "finish" /\ step \in {"finished", "done", "failed", "killed"}

\* HEAD is detached only from the detaching to the reattaching of a squash, by a rebase that stopped, or
\* since an earlier run.
HeadInv ==
    /\ detached # NoHistory /\ part # "gates" =>
        \/ rebasing /\ part = "rebase" /\ step \in {"failed", "killed"}
        \/ part = "squash" /\ step \in {"commit", "named", "move", "reattach", "putBack", "killed"}
        \/ part = "squash" /\ step = "failed" /\ told
    /\ step = "move" => detached # NoHistory
    /\ rebasing => step \in {"gates", "failed", "killed"} /\ detached # NoHistory

\* A stage whose outcome is known, or is about to be reported, has had its effect.
KnownInv ==
    /\ known => step \in {"announce", "reattach", "landed", "finished", "done", "failed", "killed"}
    /\ step \in {"announce", "reattach", "landed", "finished"} => known
    /\ step \in {"named", "announce"} /\ part = "commit" => "committed" \in did
    /\ part = "squash" /\ (step \in {"announce", "reattach"} \/ (step = "named" /\ detached = NoHistory)) => "squashed" \in did
    /\ step = "rebased" => "rebased" \in did
    /\ step = "landed" => "merged" \in did
    /\ unread # {} => step \in {"putBack", "failed", "killed"}

\* What is reported has happened and is of a stage that is over; what has happened is reported, is about to
\* be, or was not read back.
DoneInv ==
    /\ progress.committed =>
        "committed" \in did /\ "committed" \notin unread /\ part \notin {"gates", "squash"}
        /\ (part = "commit" => step \in {"failed", "killed"})
    /\ progress.squashed =>
        "squashed" \in did /\ "squashed" \notin unread /\ part \notin {"gates", "commit"}
        /\ (part = "squash" => step \in {"failed", "killed"})
    /\ progress.rebased =>
        "rebased" \in did /\ "rebased" \notin unread /\ part \notin {"gates", "commit", "squash"}
        /\ (part = "rebase" => step \in {"preMerge", "failed", "killed"})
    /\ progress.merged =>
        "merged" \in did /\ "merged" \notin unread /\ part \in {"push", "finish"}
        /\ (part = "push" => step \in {"failed", "killed"})
    /\ "committed" \in did =>
        progress.committed \/ "committed" \in unread \/ step = "killed" \/ (part = "commit" /\ step \in {"named", "announce"})
    /\ "squashed" \in did =>
        \/ progress.squashed \/ "squashed" \in unread \/ step = "killed"
        \/ part = "squash" /\ (step \in {"announce", "reattach"} \/ (step = "named" /\ detached = NoHistory))
    /\ "rebased" \in did => progress.rebased \/ "rebased" \in unread \/ step \in {"rebased", "killed"}
    /\ "merged" \in did => progress.merged \/ "merged" \in unread \/ step \in {"landed", "killed"}
    /\ progress.removed = "removed" => gone
    /\ gone => progress.removed = "removed" \/ step \in {"finished", "killed"}

\* The published histories that the command answers for, and that t has them where s does.
Covered == Prefixes(upstream) \ overtaken
Carries(H, t, s) == \A h \in H : IsPrefix(h, s) => IsPrefix(h, t)

\* While the tip of a squash is current the branch only grows, and the merge base keeps what is published.
SquashInv ==
    /\ part = "squash" /\ step \in {"decide", "backup", "tree", "cancel", "detach", "commit", "named", "move"} =>
        /\ IsPrefix(tip, branch) /\ tip # NoHistory
        /\ base # NoHistory /\ IsPrefix(base, tip) /\ Carries(Covered, base, tip)
    /\ part = "squash" /\ step \in {"commit", "named", "move"} /\ detached # NoHistory => IsPrefix(base, detached)
    /\ part = "squash" /\ step \in {"commit", "named"} /\ detached = NoHistory => tip = base
    /\ step = "move" => IsPrefix(base, new)

\* What is measured against the target is not on the upstream beyond it.
MeasuredInv ==
    /\ Measuring => Carries(Covered, target, branch)
    /\ step = "gitRebase" => branch[1] = Ref(onto)[1]

\* What is to land goes on from the target, and a branch to be deleted has landed.
LandedInv ==
    /\ step = "advance" => IsPrefix(old, new) /\ old # NoHistory
    /\ step = "remove" /\ old # NoHistory => IsPrefix(old, branch) /\ Tree(old) \cap made \subseteq Content(target)

\* Where the work is: in the worktree, landed or published.
Elsewhere == Content(target) \cup Content(upstream)
KeptInv ==
    /\ ~gone /\ ~rebasing => made \subseteq work \cup Elsewhere
    /\ rebasing => made \subseteq (work \ index) \cup Tree(branch) \cup Elsewhere
    /\ gone => made \subseteq Content(branch) \cup Elsewhere

\* What others landed behind the detached HEAD is at the tip of the branch and not in the worktree, which
\* is dirty for it; the squash that had detached HEAD does not get to move the branch.
BehindInv ==
    /\ ~gone => behind \subseteq Tree(branch)
    /\ behind \cap (index \cup work) = {}
    /\ behind # {} =>
        /\ ~gone /\ ~rebasing
        /\ step \in {"gates", "commit", "named", "move"} => detached # NoHistory
        /\ step \in {"commit", "named", "move"} => branch # tip
        /\ step \notin {"stage", "hook", "restage", "inspect", "decide", "backup", "tree", "cancel", "detach"}

BackedUp == \E b \in backup : b.parent = tip
BackupInv ==
    /\ step \in {"tree", "cancel", "detach"} /\ staged => BackedUp \/ branch # tip
    /\ step \in {"commit", "named", "move"} /\ part = "squash" /\ detached # NoHistory /\ staged => BackedUp
    /\ "squashed" \in did /\ staged /\ tip # base => BackedUp

MergeIInv ==
    /\ MergeTypeOK /\ PartInv /\ HeadInv /\ KnownInv /\ DoneInv
    /\ SquashInv /\ MeasuredInv /\ LandedInv /\ KeptInv /\ BehindInv /\ BackupInv

(* ---- histories ---- *)

LEMMA Least ==
    ASSUME NEW K \in SUBSET Nat, K # {}
    PROVE \E least \in K : \A k \in K : least <= k
<1>1. PICK x \in K : \A y \in K : ~(<<y, x>> \in OpToRel(<, Nat))
  BY NatLessThanWellFounded, WFMin
<1>2. \A y \in K : ~(y < x)
  BY <1>1 DEF OpToRel
<1> QED BY <1>2

LEMMA PrefixDef ==
    ASSUME NEW X, NEW s \in Seq(X), NEW t \in Seq(X)
    PROVE IsPrefix(s, t) <=> Len(s) <= Len(t) /\ \A i \in 1..Len(s) : s[i] = t[i]
<1>1. ASSUME Len(s) <= Len(t)
      PROVE  SubSeq(s, 1, Len(s)) = SubSeq(t, 1, Len(s)) <=> \A i \in 1..Len(s) : s[i] = t[i]
  <2>1. SubSeq(s, 1, Len(s)) = s
    OBVIOUS
  <2>2. SubSeq(t, 1, Len(s)) \in Seq(X) /\ Len(SubSeq(t, 1, Len(s))) = Len(s)
    BY <1>1
  <2>3. \A i \in 1..Len(s) : SubSeq(t, 1, Len(s))[i] = t[i]
    BY <1>1
  <2> QED BY <2>1, <2>2, <2>3
<1> QED BY <1>1 DEF IsPrefix

LEMMA PrefixesDef ==
    ASSUME NEW X, NEW s \in Seq(X)
    PROVE Prefixes(s) = {h \in Seq(X) : IsPrefix(h, s)}
<1>1. ASSUME NEW h \in Prefixes(s) PROVE h \in Seq(X) /\ IsPrefix(h, s)
  <2>1. PICK l \in 0..Len(s) : h = SubSeq(s, 1, l)
    BY DEF Prefixes
  <2>2. h \in Seq(X) /\ Len(h) = l /\ \A i \in 1..l : h[i] = s[i]
    BY <2>1
  <2> QED BY <2>2, PrefixDef
<1>2. ASSUME NEW h \in Seq(X), IsPrefix(h, s) PROVE h \in Prefixes(s)
  <2>1. Len(h) <= Len(s) /\ \A i \in 1..Len(h) : h[i] = s[i]
    BY <1>2, PrefixDef
  <2>2. SubSeq(s, 1, Len(h)) \in Seq(X) /\ Len(SubSeq(s, 1, Len(h))) = Len(h)
    BY <2>1
  <2>3. \A i \in 1..Len(h) : SubSeq(s, 1, Len(h))[i] = h[i]
    BY <2>1
  <2>4. SubSeq(s, 1, Len(h)) = h
    BY <2>2, <2>3, SeqEqual
  <2>5. Len(h) \in 0..Len(s)
    BY <2>1
  <2> QED BY <2>4, <2>5 DEF Prefixes
<1> QED BY <1>1, <1>2

\* A history goes on from what it was.
LEMMA PrefixTrans ==
    ASSUME NEW X, NEW s \in Seq(X), NEW t \in Seq(X), NEW u \in Seq(X), IsPrefix(s, t), IsPrefix(t, u)
    PROVE IsPrefix(s, u)
BY PrefixDef

LEMMA PrefixOfItself ==
    ASSUME NEW X, NEW s \in Seq(X)
    PROVE IsPrefix(s, s)
BY PrefixDef

LEMMA PrefixOfAppend ==
    ASSUME NEW X, NEW s \in Seq(X), NEW t \in Seq(X), NEW x \in X, IsPrefix(s, t)
    PROVE IsPrefix(s, Append(t, x)) /\ Append(t, x) \in Seq(X) \ {<<>>} /\ s # Append(t, x)
<1>1. IsPrefix(s, Append(t, x))
  <2>1. Append(t, x) \in Seq(X) /\ Len(Append(t, x)) = Len(t) + 1 /\ \A i \in 1..Len(t) : Append(t, x)[i] = t[i]
    OBVIOUS
  <2>2. Len(s) <= Len(t) /\ \A i \in 1..Len(s) : s[i] = t[i]
    BY PrefixDef
  <2> DEFINE u == Append(t, x)
  <2> HIDE DEF u
  <2>3. u \in Seq(X) /\ Len(s) <= Len(u) /\ \A i \in 1..Len(s) : s[i] = u[i]
    BY <2>1, <2>2 DEF u
  <2>4. IsPrefix(s, u)
    BY <2>3, PrefixDef
  <2> QED BY <2>4 DEF u
<1>2. Len(s) <= Len(t)
  BY DEF IsPrefix
<1> QED BY <1>1, <1>2

\* Of two histories that one goes on from, one goes on from the other.
LEMMA PrefixesInLine ==
    ASSUME NEW X, NEW s \in Seq(X), NEW t \in Seq(X), NEW u \in Seq(X), IsPrefix(s, u), IsPrefix(t, u),
           Len(s) <= Len(t)
    PROVE IsPrefix(s, t)
BY PrefixDef

LEMMA PrefixBothWays ==
    ASSUME NEW X, NEW s \in Seq(X), NEW t \in Seq(X), IsPrefix(s, t), IsPrefix(t, s)
    PROVE s = t
<1>1. Len(s) = Len(t) /\ \A i \in 1..Len(s) : s[i] = t[i]
  BY PrefixDef
<1> QED BY <1>1

LEMMA ContentGrows ==
    ASSUME NEW X, NEW s \in Seq(X), NEW t \in Seq(X), IsPrefix(s, t)
    PROVE Content(s) \subseteq Content(t)
<1>1. Len(s) <= Len(t) /\ \A i \in 1..Len(s) : s[i] = t[i]
  BY PrefixDef
<1>2. ToSet(s) \subseteq ToSet(t)
  BY <1>1 DEF ToSet
<1> QED BY <1>2 DEF Content

LEMMA TipContent ==
    ASSUME NEW X, NEW s \in Seq(X), s # <<>>
    PROVE Tree(s) \in X /\ Tree(s) \subseteq Content(s) /\ \A i \in 1..Len(s) : s[i] \subseteq Content(s)
<1>1. Len(s) \in 1..Len(s) /\ DOMAIN s = 1..Len(s)
  OBVIOUS
<1>2. \A i \in 1..Len(s) : s[i] \in ToSet(s)
  BY <1>1 DEF ToSet
<1> QED BY <1>1, <1>2 DEF Content, Tree, Last

LEMMA ContentOfAppend ==
    ASSUME NEW X, NEW s \in Seq(X), NEW x \in X
    PROVE Content(Append(s, x)) = Content(s) \cup x /\ Tree(Append(s, x)) = x
<1>1. Append(s, x) \in Seq(X) /\ Len(Append(s, x)) = Len(s) + 1 /\ Append(s, x)[Len(s) + 1] = x
      /\ \A i \in 1..Len(s) : Append(s, x)[i] = s[i]
  OBVIOUS
<1>2. ToSet(Append(s, x)) = ToSet(s) \cup {x}
  BY <1>1 DEF ToSet
<1> QED BY <1>1, <1>2 DEF Content, Tree, Last

\* git merge-base: what both go on from and whatever both go on from is of.
LEMMA MergeBaseOfBoth ==
    ASSUME NEW X, NEW a \in Seq(X), NEW b \in Seq(X)
    PROVE /\ MergeBase(a, b) \in Seq(X) /\ IsPrefix(MergeBase(a, b), a) /\ IsPrefix(MergeBase(a, b), b)
          /\ \A h \in Seq(X) : IsPrefix(h, a) /\ IsPrefix(h, b) => IsPrefix(h, MergeBase(a, b))
<1> DEFINE Both == {h \in Seq(X) : IsPrefix(h, a) /\ IsPrefix(h, b)}
<1>1. CommonPrefixes({a, b}) = Both
  <2>1. UNION {Prefixes(s) : s \in {a, b}} = Prefixes(a) \cup Prefixes(b)
    OBVIOUS
  <2>2. UNION {Prefixes(s) : s \in {a, b}} = {h \in Seq(X) : IsPrefix(h, a) \/ IsPrefix(h, b)}
    BY <2>1, PrefixesDef
  <2> QED BY <2>2 DEF CommonPrefixes
<1>2. <<>> \in Both
  <2>1. <<>> \in Seq(X) /\ Len(<<>>) = 0
    OBVIOUS
  <2>2. \A s \in Seq(X) : IsPrefix(<<>>, s)
    <3> SUFFICES ASSUME NEW s \in Seq(X) PROVE IsPrefix(<<>>, s)
      OBVIOUS
    <3> DEFINE e == <<>>
    <3>1. e \in Seq(X) /\ Len(e) <= Len(s) /\ \A i \in 1..Len(e) : e[i] = s[i]
      BY <2>1
    <3> HIDE DEF e
    <3>2. IsPrefix(e, s)
      BY <3>1, PrefixDef
    <3> QED BY <3>2 DEF e
  <2> QED BY <2>1, <2>2
<1>3. \A h \in Both : Len(h) \in Nat /\ Len(h) <= Len(a) /\ Len(a) - Len(h) \in Nat
  BY DEF IsPrefix
<1> DEFINE K == {Len(a) - Len(h) : h \in Both}
<1>4. K \in SUBSET Nat /\ K # {}
  BY <1>2, <1>3
<1>5. PICK k \in K : \A j \in K : k <= j
  <2> HIDE DEF K
  <2> QED BY <1>4, Least
<1>6. PICK longest \in Both : k = Len(a) - Len(longest)
  BY <1>5
<1>7. \A other \in Both : Len(other) <= Len(longest)
  <2> SUFFICES ASSUME NEW other \in Both PROVE Len(other) <= Len(longest)
    OBVIOUS
  <2>1. Len(a) - Len(other) \in K
    OBVIOUS
  <2>2. Len(a) - Len(longest) <= Len(a) - Len(other)
    BY <1>5, <1>6, <2>1
  <2> QED BY <2>2, <1>3
<1> DEFINE m == MergeBase(a, b)
<1>8. m = CHOOSE h \in Both : \A other \in Both : Len(other) <= Len(h)
  BY <1>1 DEF MergeBase, LongestCommonPrefix
<1>9. m \in Both /\ \A other \in Both : Len(other) <= Len(m)
  <2> HIDE DEF Both
  <2> QED BY <1>7, <1>8
<1>10. \A h \in Both : IsPrefix(h, m)
  <2> SUFFICES ASSUME NEW h \in Both PROVE IsPrefix(h, m)
    OBVIOUS
  <2> HIDE DEF m
  <2> QED BY <1>9, PrefixesInLine
<1> QED BY <1>9, <1>10

\* Histories have a common ancestor when they have the same first commit.
LEMMA CommonRoot ==
    ASSUME NEW X, NEW a \in Seq(X), NEW b \in Seq(X), a # <<>>, b # <<>>
    PROVE MergeBase(a, b) # <<>> <=> a[1] = b[1]
<1> DEFINE m == MergeBase(a, b)
<1>1. m \in Seq(X) /\ IsPrefix(m, a) /\ IsPrefix(m, b)
      /\ \A h \in Seq(X) : IsPrefix(h, a) /\ IsPrefix(h, b) => IsPrefix(h, m)
  BY MergeBaseOfBoth
<1> HIDE DEF m
<1>2. ASSUME m # <<>> PROVE a[1] = b[1]
  <2>1. 1 \in 1..Len(m)
    BY <1>1, <1>2
  <2> QED BY <1>1, <2>1, PrefixDef
<1>3. ASSUME a[1] = b[1] PROVE m # <<>>
  <2>1. <<a[1]>> \in Seq(X) /\ Len(<<a[1]>>) = 1 /\ <<a[1]>>[1] = a[1]
    OBVIOUS
  <2>2. IsPrefix(<<a[1]>>, a) /\ IsPrefix(<<a[1]>>, b)
    <3> DEFINE h == <<a[1]>>
    <3>1. h \in Seq(X) /\ Len(h) = 1 /\ h[1] = a[1] /\ h[1] = b[1] /\ Len(a) >= 1 /\ Len(b) >= 1
      BY <2>1, <1>3
    <3> HIDE DEF h
    <3>2. \A i \in 1..Len(h) : h[i] = a[i] /\ h[i] = b[i]
      <4>1. \A i \in 1..Len(h) : i = 1
        BY <3>1
      <4> QED BY <3>1, <4>1
    <3>3. IsPrefix(h, a) /\ IsPrefix(h, b)
      BY <3>1, <3>2, PrefixDef
    <3> QED BY <3>3 DEF h
  <2>3. IsPrefix(<<a[1]>>, m)
    BY <2>1, <2>2, <1>1
  <2> QED BY <2>1, <2>3 DEF IsPrefix
<1> QED BY <1>2, <1>3 DEF m

LEMMA CarriesOn ==
    ASSUME NEW X, NEW H \in SUBSET Seq(X), NEW s \in Seq(X), NEW t \in Seq(X), NEW t2 \in Seq(X),
           Carries(H, t, s), IsPrefix(t, t2)
    PROVE Carries(H, t2, s)
BY PrefixTrans DEF Carries

\* A history that goes on carries what it did.
LEMMA CarriesGrown ==
    ASSUME NEW X, NEW H \in SUBSET Seq(X), NEW s \in Seq(X), NEW t \in Seq(X), IsPrefix(s, t)
    PROVE Carries(H, t, s)
BY PrefixTrans DEF Carries

LEMMA CarriesFewer ==
    ASSUME NEW H, NEW s, NEW t, Carries(H, t, s), NEW K \in SUBSET H
    PROVE Carries(K, t, s)
BY DEF Carries

LEMMA CarriesItself ==
    ASSUME NEW H, NEW s
    PROVE Carries(H, s, s)
BY DEF Carries

\* A commit with something new in it is not on the upstream.
LEMMA CarriesNew ==
    ASSUME NEW X, NEW u \in Seq(X), NEW H \in SUBSET Prefixes(u), NEW s \in Seq(X), NEW t \in Seq(X), NEW x \in X,
           NEW p \in x, p \notin Content(u), Carries(H, t, s)
    PROVE Carries(H, t, Append(s, x))
<1> SUFFICES ASSUME NEW h \in H, IsPrefix(h, Append(s, x)) PROVE IsPrefix(h, t)
  BY DEF Carries
<1> DEFINE a == Append(s, x)
<1>1. a \in Seq(X) /\ Len(a) = Len(s) + 1 /\ a[Len(s) + 1] = x /\ IsPrefix(s, a)
  BY PrefixOfAppend, PrefixOfItself
<1> HIDE DEF a
<1>2. h \in Seq(X) /\ IsPrefix(h, u) /\ IsPrefix(h, a)
  BY PrefixesDef DEF a
<1>3. Len(h) # Len(s) + 1
  <2> SUFFICES ASSUME Len(h) = Len(s) + 1 PROVE FALSE
    OBVIOUS
  <2>1. Len(s) + 1 \in 1..Len(h) /\ h # <<>>
    BY <1>2
  <2>2. h[Len(s) + 1] = x
    BY <1>1, <1>2, <2>1, PrefixDef
  <2>3. x \subseteq Content(h)
    BY <1>2, <2>1, <2>2, TipContent
  <2>4. Content(h) \subseteq Content(u)
    BY <1>2, ContentGrows
  <2> QED BY <2>3, <2>4
<1>4. Len(h) <= Len(s)
  <2>1. Len(h) <= Len(a) /\ Len(h) \in Nat /\ Len(s) \in Nat
    BY <1>1, <1>2, PrefixDef
  <2> QED BY <2>1, <1>1, <1>3
<1>5. IsPrefix(h, s)
  BY <1>1, <1>2, <1>4, PrefixesInLine
<1> QED BY <1>5 DEF Carries

LEMMA CoveredTypes ==
    ASSUME HistoryTypes
    PROVE /\ Covered \in SUBSET Seq(Trees) /\ Covered \in SUBSET Prefixes(upstream)
          /\ \A h \in Covered : IsPrefix(h, upstream)
BY PrefixesDef DEF HistoryTypes, Covered

\* The replayed commits: as many as there are above the merge base.
Picks(r, h, b, t) ==
    /\ Replay(h, b, t) = t \o r /\ Len(r) = Len(h) - Len(b)
    /\ \A k \in 1..Len(r) :
        r[k] = (Tree(t) \ Changed(h, b, Len(b) + k)) \cup (h[Len(b) + k] \cap Changed(h, b, Len(b) + k))

LEMMA ReplayHasPicks ==
    ASSUME NEW h \in Seq(Trees), NEW b \in Seq(Trees), NEW t \in Seq(Trees), t # <<>>, IsPrefix(b, h)
    PROVE \E r \in Seq(Trees) : Picks(r, h, b, t)
<1> DEFINE Picked(k) == (Tree(t) \ Changed(h, b, Len(b) + k)) \cup (h[Len(b) + k] \cap Changed(h, b, Len(b) + k))
           n == Len(h) - Len(b)
           r == [k \in 1..n |-> Picked(k)]
<1>1. n \in Nat /\ Len(b) \in Nat /\ Len(h) \in Nat
  BY PrefixDef
<1>2. Tree(t) \in Trees
  BY TipContent
<1>3. \A k \in 1..n : Picked(k) \in Trees
  <2> SUFFICES ASSUME NEW k \in 1..n PROVE Picked(k) \in Trees
    OBVIOUS
  <2>1. Len(b) + k \in 1..Len(h)
    BY <1>1
  <2>2. h[Len(b) + k] \in Trees
    BY <2>1
  <2> QED BY <2>2, <1>2 DEF Trees
<1>4. r \in Seq(Trees) /\ Len(r) = n /\ \A k \in 1..n : r[k] = Picked(k)
  <2> HIDE DEF Picked, n
  <2> QED BY <1>1, <1>3, IsASeq
<1>5. Replay(h, b, t) = t \o r
  BY DEF Replay
<1> HIDE DEF r
<1>6. Picks(r, h, b, t)
  BY <1>4, <1>5 DEF Picks
<1> QED BY <1>4, <1>6

\* A replayed branch goes on from where it was put.
LEMMA ReplayGoesOn ==
    ASSUME NEW h \in Seq(Trees), NEW b \in Seq(Trees), NEW t \in Seq(Trees), t # <<>>, IsPrefix(b, h)
    PROVE Replay(h, b, t) \in Seq(Trees) \ {<<>>} /\ IsPrefix(t, Replay(h, b, t))
<1>a. PICK r \in Seq(Trees) : Picks(r, h, b, t)
  BY ReplayHasPicks
<1>1. Replay(h, b, t) = t \o r
  BY <1>a DEF Picks
<1> DEFINE c == t \o r
<1>2. c \in Seq(Trees) /\ Len(t) <= Len(c) /\ Len(c) # 0 /\ \A i \in 1..Len(t) : t[i] = c[i]
  OBVIOUS
<1> HIDE DEF c
<1>3. IsPrefix(t, c) /\ c # <<>>
  BY <1>2, PrefixDef
<1> QED BY <1>1, <1>2, <1>3 DEF c

\* What a branch has when it is replayed it still has, or had from the merge base.
LEMMA ReplayKeeps ==
    ASSUME NEW h \in Seq(Trees), NEW b \in Seq(Trees), NEW t \in Seq(Trees), t # <<>>, b # <<>>, IsPrefix(b, h)
    PROVE Tree(h) \subseteq Tree(Replay(h, b, t)) \cup Tree(b)
<1> DEFINE n == Len(h)
<1>1. n \in Nat /\ Len(b) \in Nat /\ Len(b) >= 1 /\ Len(b) <= n /\ \A i \in 1..Len(b) : b[i] = h[i]
  BY PrefixDef
<1>2. Tree(h) = h[n] /\ Tree(b) = b[Len(b)] /\ b[Len(b)] = h[Len(b)]
  <2>1. Len(b) \in 1..Len(b)
    BY <1>1
  <2> QED BY <1>1, <2>1 DEF Tree, Last
<1>3. CASE Len(b) = n
  BY <1>2, <1>3
<1>4. CASE Len(b) < n
  <2>1. Tree(Replay(h, b, t)) = (Tree(t) \ Changed(h, b, n)) \cup (h[n] \cap Changed(h, b, n))
    <3>a. PICK r \in Seq(Trees) : Picks(r, h, b, t)
      BY ReplayHasPicks
    <3>1. /\ Replay(h, b, t) = t \o r /\ Len(r) = n - Len(b)
          /\ \A k \in 1..Len(r) :
              r[k] = (Tree(t) \ Changed(h, b, Len(b) + k)) \cup (h[Len(b) + k] \cap Changed(h, b, Len(b) + k))
      BY <3>a DEF Picks
    <3>2. Tree(t \o r) = r[Len(r)] /\ Len(r) \in 1..Len(r)
      BY <3>1, <1>1, <1>4 DEF Tree, Last
    <3>3. Len(b) + Len(r) = n
      BY <3>1, <1>1
    <3> QED BY <3>1, <3>2, <3>3
  <2>3. SUFFICES ASSUME NEW x \in h[n], x \notin Changed(h, b, n) PROVE x \in h[Len(b)]
    BY <2>1, <1>2
  <2> DEFINE K == {k \in Len(b)..n : x \in h[k]}
  <2>4. K \in SUBSET Nat /\ n \in K
    BY <1>1
  <2>5. PICK m \in K : \A k \in K : m <= k
    <3> HIDE DEF K
    <3> QED BY <2>4, Least
  <2>6. ASSUME m # Len(b) PROVE FALSE
    <3>1. m \in (Len(b) + 1)..n /\ m - 1 \in Len(b)..n /\ ~(m <= m - 1)
      BY <1>1, <2>6
    <3>2. x \notin h[m - 1] /\ x \in h[m]
      BY <3>1, <2>5
    <3>3. h[n] \in Trees
      BY <1>1
    <3>4. x \in Pieces
      BY <3>3 DEF Trees
    <3> QED BY <3>1, <3>2, <3>4, <2>3 DEF Changed
  <2> QED BY <2>5, <2>6
<1> QED BY <1>1, <1>3, <1>4

LEMMA ReplayedOnto ==
    ASSUME HistoryTypes
    PROVE /\ Ref(onto) \in Seq(Trees) \ {<<>>} /\ Replayed \in Seq(Trees) \ {<<>>}
          /\ IsPrefix(Ref(onto), Replayed)
<1> DEFINE b == MergeBase(branch, Ref(onto))
<1>1. Ref(onto) \in Seq(Trees) /\ Ref(onto) # <<>> /\ branch \in Seq(Trees)
  BY DEF Ref, NoHistory, HistoryTypes
<1>2. b \in Seq(Trees) /\ IsPrefix(b, branch)
  BY <1>1, MergeBaseOfBoth
<1> HIDE DEF b
<1>3. Replay(branch, b, Ref(onto)) \in Seq(Trees) \ {<<>>} /\ IsPrefix(Ref(onto), Replay(branch, b, Ref(onto)))
  BY <1>1, <1>2, ReplayGoesOn
<1> QED BY <1>1, <1>3 DEF Replayed, b

\* A rebase that stops leaves HEAD on a tree that no untracked file is in the way of.
LEMMA StoppedOn ==
    ASSUME HistoryTypes, RebaseStops
    PROVE detached' \in Seq(Trees) \ {<<>>} /\ Tree(detached') \in Trees /\ Untracked \cap Tree(detached') = {}
<1> DEFINE r == Replayed
           f == Ref(onto)
<1>1. r \in Seq(Trees) /\ f \in Seq(Trees) \ {<<>>}
  BY ReplayedOnto
<1>2. PICK k \in Len(f)..(Len(r) - 1) : Reaches(k) /\ detached' = SubSeq(r, 1, k)
  BY DEF RebaseStops
<1>3. Untracked \cap r[k] = {}
  <2>1. k \in Len(f)..k
    BY <1>1, <1>2
  <2> QED BY <1>2, <2>1 DEF Reaches
<1> HIDE DEF r, f
<1>4. Len(f) \in Nat \ {0} /\ k \in 1..Len(r)
  BY <1>1, <1>2
<1>5. SubSeq(r, 1, k) \in Seq(Trees) /\ Len(SubSeq(r, 1, k)) = k /\ SubSeq(r, 1, k)[k] = r[k]
  BY <1>1, <1>4
<1>6. detached' # <<>> /\ Tree(detached') = r[k]
  BY <1>2, <1>4, <1>5 DEF Tree, Last
<1> QED BY <1>1, <1>2, <1>3, <1>4, <1>5, <1>6

(* ---- every step keeps the invariant ---- *)

\* Histories stay histories, and only a removal takes the branch away.
LEMMA HistoryStep ==
    ASSUME HistoryTypes, FileTypes, PartInv, SquashInv, LandedInv, [MergeNext]_mergeVars
    PROVE  HistoryTypes'
<1> USE DEF HistoryTypes, Goto, Enter, refs, files, outside, plan, rest, report
<1>1. CASE Edit \/ EditAndAdd \/ Gates \/ Fail \/ Kill \/ SkipHook \/ PreCommit \/ Restage \/ CommitStaged
           \/ Announce \/ Decide \/ Backup \/ WriteTree \/ Detach \/ Rebased \/ PreMerge \/ Landed \/ Keep
           \/ Finish
  BY <1>1 DEF Edit, OutsideStep, WriteNew, New, EditAndAdd, Gates, Fail, Kill, SkipHook, PreCommit, Hook,
     Restage, CommitStaged, Announce, Decide, Backup, WriteTree, Detach, Rebased, PreMerge, Landed, Keep,
     Finish
<1>2. CASE EditAndCommit
  <2>1. PICK p \in Pieces : work' = work \cup {p} /\ index' = work'
    BY <1>2 DEF EditAndCommit
  <2>2. index' \in Trees
    BY <2>1 DEF FileTypes, Trees
  <2>3. Append(branch, index') \in Seq(Trees) \ {<<>>} /\ Append(detached, index') \in Seq(Trees)
    BY <2>2, PrefixOfAppend, PrefixOfItself
  <2> QED BY <1>2, <2>3 DEF EditAndCommit, OutsideStep, NoHistory
<1>3. CASE LandOnBranch
  <2>1. PICK p \in Pieces : branch' = Append(branch, Tree(branch) \cup {p})
    BY <1>3 DEF LandOnBranch
  <2>2. branch # <<>>
    BY <1>3 DEF LandOnBranch, OutsideStep, NoHistory
  <2>3. Tree(branch) \cup {p} \in Trees
    BY <2>2, TipContent DEF Trees
  <2>4. branch' \in Seq(Trees) \ {<<>>}
    BY <2>1, <2>3, PrefixOfAppend, PrefixOfItself
  <2> QED BY <1>3, <2>4 DEF LandOnBranch, OutsideStep, NoHistory
<1>4. CASE MoveTarget
  <2>1. ASSUME NEW p \in Pieces, target' = Append(target, Tree(target) \cup {p})
        PROVE  target' \in Seq(Trees) \ {NoHistory}
    <3>1. Tree(target) \cup {p} \in Trees
      BY TipContent DEF Trees, NoHistory
    <3> QED BY <2>1, <3>1, PrefixOfAppend, PrefixOfItself DEF NoHistory
  <2>2. target' \in Seq(Trees) \ {NoHistory}
    BY <1>4, <2>1 DEF MoveTarget
  <2> QED BY <1>4, <2>2 DEF MoveTarget, OutsideStep
<1>19. CASE TakeTargetBack
  <2>1. Prefixes(target) \subseteq Seq(Trees) /\ Prefixes(upstream) \subseteq Seq(Trees)
    BY PrefixesDef
  <2>2. target' \in Seq(Trees) \ {NoHistory} /\ overtaken' \subseteq Seq(Trees)
    BY <1>19, <2>1 DEF TakeTargetBack
  <2> QED BY <1>19, <2>2 DEF TakeTargetBack, OutsideStep
<1>20. CASE Publish
  <2>1. ASSUME NEW p \in Pieces, upstream' = Append(upstream, Tree(upstream) \cup {p})
        PROVE  upstream' \in Seq(Trees) \ {NoHistory}
    <3>1. Tree(upstream) \cup {p} \in Trees
      BY <1>20, TipContent DEF Trees, NoHistory, Publish
    <3> QED BY <2>1, <3>1, PrefixOfAppend, PrefixOfItself DEF NoHistory
  <2>2. branch # NoHistory
    BY <1>20 DEF Publish, OutsideStep
  <2>3. upstream' \in Seq(Trees) \ {NoHistory}
    BY <1>20, <2>1, <2>2 DEF Publish
  <2>4. Prefixes(upstream') \subseteq Seq(Trees)
    BY <2>3, PrefixesDef
  <2>5. overtaken' \subseteq Seq(Trees)
    BY <1>20, <2>4 DEF Publish
  <2> QED BY <1>20, <2>3, <2>5 DEF Publish, OutsideStep
<1>5. CASE Repair \/ Reattach
  <2>1. NoHistory \in Seq(Trees)
    BY DEF NoHistory
  <2> QED BY <1>5, <2>1 DEF Repair, Reattach
<1>6. CASE Rerun
  <2>1. NoHistory \in Seq(Trees)
    BY DEF NoHistory
  <2> QED BY <1>6, <2>1 DEF Rerun
<1>7. CASE Stage
  BY <1>7 DEF Stage, Span, Spans
<1>8. CASE GitCommit
  <2>1. Append(branch, index) \in Seq(Trees) \ {<<>>} /\ Append(detached, index) \in Seq(Trees)
    BY PrefixOfAppend, PrefixOfItself DEF FileTypes
  <2> QED BY <1>8, <2>1 DEF GitCommit, NoHistory
<1>9. CASE NameCommit \/ Prepare
  BY <1>9 DEF NameCommit, Prepare, HeadTip
<1>10. CASE ReadTip
  <2>1. HeadTip \in Seq(Trees) /\ Ref(onto) \in Seq(Trees)
    BY DEF HeadTip, Ref
  <2>2. MergeBase(HeadTip, Ref(onto)) \in Seq(Trees)
    BY <2>1, MergeBaseOfBoth
  <2> QED BY <1>10, <2>1, <2>2 DEF ReadTip
<1>11. CASE Cancel \/ MoveBranch
  <2>1. part = "squash" /\ (step = "move" => new # NoHistory) /\ (step = "cancel" => base # NoHistory)
    <3>1. part = "squash"
      BY <1>11 DEF PartInv, Cancel, MoveBranch
    <3>2. base # NoHistory /\ (step = "move" => IsPrefix(base, new))
      BY <1>11, <3>1 DEF SquashInv, Cancel, MoveBranch
    <3>3. ASSUME step = "move", new = <<>> PROVE FALSE
      <4>1. Len(base) <= Len(new) /\ Len(new) = 0 /\ Len(base) \in Nat
        BY <3>2, <3>3 DEF IsPrefix
      <4> QED BY <4>1, <3>2 DEF NoHistory
    <3> QED BY <3>1, <3>2, <3>3 DEF NoHistory
  <2> QED BY <1>11, <2>1 DEF Cancel, MoveBranch
<1>12. CASE DecideRebase
  BY <1>12 DEF DecideRebase, Span, Spans
<1>13. CASE GitRebase
  <2>1. branch' \in Seq(Trees) \ {NoHistory}
    BY <1>13, ReplayedOnto DEF GitRebase, NoHistory
  <2> QED BY <1>13, <2>1 DEF GitRebase
<1>14. CASE RebaseStops
  <2>1. detached' \in Seq(Trees)
    BY <1>14, StoppedOn
  <2> QED BY <1>14, <2>1 DEF RebaseStops
<1>15. CASE Advance
  <2>1. new # <<>>
    <3>1. IsPrefix(old, new) /\ old # NoHistory
      BY <1>15 DEF Advance, LandedInv
    <3>2. Len(old) <= Len(new) /\ Len(old) # 0 /\ Len(old) \in Nat
      BY <3>1 DEF IsPrefix, NoHistory
    <3> QED BY <3>2
  <2>2. Append(new, Tree(new)) \in Seq(Trees) \ {<<>>}
    BY <2>1, TipContent, PrefixOfAppend, PrefixOfItself
  <2> QED BY <1>15, <2>1, <2>2 DEF Advance, NoHistory
<1>21. CASE Strand
  <2>1. new # <<>>
    <3>1. IsPrefix(old, new) /\ old # NoHistory
      BY <1>21 DEF Strand, LandedInv
    <3>2. Len(old) <= Len(new) /\ Len(old) # 0 /\ Len(old) \in Nat
      BY <3>1 DEF IsPrefix, NoHistory
    <3> QED BY <3>2
  <2>2. PICK p \in Pieces, t \in {new, Append(new, Tree(new))} : target' = Append(t, Tree(t) \cup {p})
    BY <1>21 DEF Strand
  <2>3. t \in Seq(Trees) \ {<<>>}
    <3>1. new \in Seq(Trees) \ {<<>>}
      BY <2>1 DEF HistoryTypes
    <3>2. Tree(new) \in Trees
      BY <3>1, TipContent
    <3>3. Append(new, Tree(new)) \in Seq(Trees) \ {<<>>}
      BY <3>1, <3>2, PrefixOfAppend, PrefixOfItself
    <3> QED BY <2>2, <3>1, <3>3
  <2>4. Tree(t) \cup {p} \in Trees
    BY <2>3, TipContent DEF Trees
  <2>5. target' \in Seq(Trees) \ {NoHistory}
    BY <2>2, <2>3, <2>4, PrefixOfAppend, PrefixOfItself DEF NoHistory
  <2> QED BY <1>21, <2>5 DEF Strand
<1>16. CASE PlanRemoval
  <2>1. NoHistory \in Seq(Trees)
    BY DEF NoHistory
  <2> QED BY <1>16, <2>1 DEF PlanRemoval
<1>17. CASE TakeDown
  <2>1. NoHistory \in Seq(Trees)
    BY DEF NoHistory
  <2> QED BY <1>17, <2>1 DEF TakeDown
<1>18. CASE UNCHANGED mergeVars
  BY <1>18 DEF mergeVars
<1> QED BY <1>1, <1>2, <1>3, <1>4, <1>5, <1>6, <1>7, <1>8, <1>9, <1>10, <1>11, <1>12, <1>13, <1>14, <1>15, <1>16,
     <1>17, <1>18, <1>19, <1>20, <1>21 DEF MergeNext

\* The worktree, its index and the backups hold trees.
LEMMA FileStep ==
    ASSUME HistoryTypes, HistoryTypes', FileTypes, PartInv, HeadInv, [MergeNext]_mergeVars
    PROVE  FileTypes'
<1> USE DEF FileTypes, Goto, Enter, refs, files, outside, plan, rest, report
<1>1. CASE Edit \/ EditAndAdd \/ EditAndCommit \/ LandOnBranch \/ MoveTarget \/ TakeTargetBack
           \/ Publish \/ Strand
  BY <1>1 DEF Edit, OutsideStep, WriteNew, New, EditAndAdd, EditAndCommit, LandOnBranch, MoveTarget,
     TakeTargetBack, Publish, Strand, Trees
<1>2. CASE Repair
  <2>1. index' \in Trees /\ work' \in Trees
    <3>1. rebasing => branch # <<>>
      BY <1>2 DEF Repair, PartInv, HeadInv, HistoryTypes, NoHistory
    <3>2. rebasing => Tree(branch) \in Trees
      BY <3>1, TipContent DEF HistoryTypes
    <3> QED BY <1>2, <3>2 DEF Repair, Trees
  <2> QED BY <1>2, <2>1 DEF Repair
<1>11. CASE Rerun
  BY <1>11 DEF Rerun, Trees
<1>3. CASE Gates \/ Fail \/ Kill \/ SkipHook \/ CommitStaged \/ GitCommit \/ NameCommit \/ Announce
           \/ ReadTip \/ Decide \/ WriteTree \/ Cancel \/ Detach \/ MoveBranch \/ Reattach \/ DecideRebase
           \/ Rebased \/ Prepare \/ Advance \/ Landed \/ Keep \/ PlanRemoval \/ Finish
  BY <1>3 DEF Gates, Fail, Kill, SkipHook, CommitStaged, GitCommit, NameCommit, Announce, ReadTip,
     Decide, WriteTree, Cancel, Detach, MoveBranch, Reattach, DecideRebase, Rebased, Prepare, Advance,
     Landed, Keep, PlanRemoval, Finish
<1>4. CASE Stage \/ Restage
  BY <1>4 DEF Stage, Restage, Selected
<1>5. CASE PreCommit \/ PreMerge
  BY <1>5 DEF PreCommit, Hook, WriteNew, New, PreMerge, Trees
<1>6. CASE Backup
  BY <1>6 DEF Backup, HeadTip, HistoryTypes
<1>7. CASE GitRebase
  <2>1. Tree(branch') \in Trees
    <3>1. branch' # <<>>
      BY <1>7 DEF GitRebase, HistoryTypes, PartInv, NoHistory
    <3> QED BY <3>1, TipContent DEF HistoryTypes
  <2> QED BY <1>7, <2>1 DEF GitRebase, Untracked, Trees
<1>8. CASE RebaseStops
  <2>1. Tree(detached') \in Trees
    BY <1>8, StoppedOn
  <2> QED BY <1>8, <2>1 DEF RebaseStops, Untracked, Trees
<1>9. CASE TakeDown
  BY <1>9 DEF TakeDown, Trees
<1>10. CASE UNCHANGED mergeVars
  BY <1>10 DEF mergeVars
<1> QED BY <1>1, <1>2, <1>3, <1>4, <1>5, <1>6, <1>7, <1>8, <1>9, <1>10, <1>11 DEF MergeNext

\* What a stage adds to the report once its outcome is known.
LEMMA ReportedFields ==
    ASSUME progress \in ProgressTypes, part \in {"commit", "squash", "push", "finish"}
    PROVE /\ Reported(Removal) \in ProgressTypes
          /\ Reported(Removal).committed = (progress.committed \/ part = "commit")
          /\ Reported(Removal).squashed = (progress.squashed \/ part = "squash")
          /\ Reported(Removal).rebased = progress.rebased
          /\ Reported(Removal).merged = (progress.merged \/ part = "push")
          /\ Reported(Removal).removed = IF part = "finish" THEN Removal ELSE progress.removed
BY DEF Reported, Removal, ProgressTypes

\* The flags and the report keep their types.
LEMMA FlowStep ==
    ASSUME FlowTypes, PartInv, KnownInv, [MergeNext]_mergeVars
    PROVE  FlowTypes'
<1> USE DEF FlowTypes, Kinds, Goto, Enter, refs, files, outside, plan, rest, report
<1>1. CASE Edit \/ EditAndAdd \/ EditAndCommit \/ LandOnBranch \/ MoveTarget \/ TakeTargetBack \/ Publish \/ Repair
  <2>1. users' \in 0..MaxUser
    BY <1>1, MergeAssumption DEF Edit, EditAndAdd, EditAndCommit, LandOnBranch, MoveTarget, TakeTargetBack, Publish,
       OutsideStep, Repair
  <2>2. UNCHANGED <<gone, mode, staged, known, progress, told, did, unread>> /\ rebasing' \in BOOLEAN
    BY <1>1 DEF Edit, EditAndAdd, EditAndCommit, LandOnBranch, MoveTarget, TakeTargetBack, Publish, OutsideStep, Repair
  <2> QED BY <2>1, <2>2
<1>2. CASE Rerun
  <2>1. users' \in 0..MaxUser
    BY <1>2, MergeAssumption DEF Rerun
  <2>2. NoProgress \in ProgressTypes
    BY DEF NoProgress, ProgressTypes
  <2> QED BY <1>2, <2>1, <2>2 DEF Rerun
<1>3. CASE Gates
  BY <1>3 DEF Gates
<1>4. CASE Fail
  <2>1. known => part \in {"commit", "squash", "push", "finish"}
    BY <1>4 DEF Fail, Fallible, KnownInv, PartInv
  <2>2. progress' \in ProgressTypes
    BY <1>4, <2>1, ReportedFields DEF Fail
  <2>3. unread' \subseteq Kinds
    BY <1>4 DEF Fail, Unread
  <2> QED BY <1>4, <2>2, <2>3 DEF Fail
<1>10. CASE Strand
  <2>1. users' \in 0..MaxUser
    BY <1>10, MergeAssumption DEF Strand
  <2> QED BY <1>10, <2>1 DEF Strand
<1>5. CASE Kill \/ Stage \/ SkipHook \/ PreCommit \/ Restage \/ CommitStaged \/ GitCommit \/ NameCommit \/
           ReadTip \/ Decide \/ Backup \/ WriteTree \/ Cancel \/ Detach \/ MoveBranch \/ DecideRebase \/
           GitRebase \/ RebaseStops \/ PreMerge \/ Prepare \/ Advance \/ Keep \/ PlanRemoval \/ TakeDown
  BY <1>5, ZenonT(60) DEF Kill, Stage, SkipHook, PreCommit, Hook, WriteNew, New, Restage, CommitStaged, GitCommit,
     NameCommit, ReadTip, Decide, Backup, WriteTree, Cancel, Detach, MoveBranch, DecideRebase, GitRebase,
     RebaseStops, PreMerge, Prepare, Advance, Keep, PlanRemoval, TakeDown
<1>6. CASE Announce \/ Landed \/ Finish
  <2>1. part \in {"commit", "squash", "push", "finish"}
    BY <1>6 DEF Announce, Landed, Finish, PartInv
  <2>2. progress' \in ProgressTypes
    BY <1>6, <2>1, ReportedFields DEF Announce, Landed, Finish
  <2> QED BY <1>6, <2>2 DEF Announce, Landed, Finish
<1>7. CASE Reattach
  <2>1. part \in {"commit", "squash", "push", "finish"}
    BY <1>7 DEF Reattach, PartInv
  <2>2. progress' \in ProgressTypes
    BY <1>7, <2>1, ReportedFields DEF Reattach
  <2> QED BY <1>7, <2>2 DEF Reattach
<1>8. CASE Rebased
  BY <1>8 DEF Rebased, ProgressTypes
<1>9. CASE UNCHANGED mergeVars
  BY <1>9 DEF mergeVars
<1> QED BY <1>1, <1>2, <1>3, <1>4, <1>5, <1>6, <1>7, <1>8, <1>9, <1>10 DEF MergeNext

\* Each stage has its steps.
LEMMA PartStep ==
    ASSUME PartInv, HeadInv, [MergeNext]_mergeVars
    PROVE  PartInv'
<1> USE DEF PartInv, Goto, Enter, refs, files, outside, plan, rest, report
<1>1. CASE Edit \/ EditAndAdd \/ EditAndCommit \/ LandOnBranch \/ MoveTarget \/ TakeTargetBack \/ Publish \/
           Strand \/ Repair \/ Rerun \/ Gates \/ Kill \/ Stage \/ SkipHook \/ PreCommit \/ Restage \/ CommitStaged \/ GitCommit \/ Announce \/
           ReadTip \/ Decide \/ Backup \/ WriteTree \/ Cancel \/ Detach \/ MoveBranch \/ Reattach \/
           DecideRebase \/ GitRebase \/ RebaseStops \/ Rebased \/ PreMerge \/ Prepare \/ Advance \/ Landed
           \/ Keep \/ PlanRemoval \/ TakeDown \/ Finish
  BY <1>1 DEF Edit, OutsideStep, WriteNew, New, EditAndAdd, EditAndCommit, LandOnBranch, MoveTarget,
     TakeTargetBack, Publish, Strand, Repair, Rerun, Gates, Kill, Stage, SkipHook, PreCommit, Hook, Restage, CommitStaged, GitCommit,
     Announce, ReadTip, Decide, Backup, WriteTree, Cancel, Detach, MoveBranch, Reattach, DecideRebase,
     GitRebase, RebaseStops, Rebased, PreMerge, Prepare, Advance, Landed, Keep, PlanRemoval, TakeDown,
     Finish
<1>2. CASE Fail
  BY <1>2 DEF Fail, HeadInv, Fallible
<1>3. CASE NameCommit
  BY <1>3 DEF NameCommit, HeadInv
<1>4. CASE UNCHANGED mergeVars
  BY <1>4 DEF mergeVars
<1> QED BY <1>1, <1>2, <1>3, <1>4 DEF MergeNext

\* HEAD is put back before the squash is over.
LEMMA HeadStep ==
    ASSUME HistoryTypes, FileTypes, PartInv, HeadInv, [MergeNext]_mergeVars
    PROVE  HeadInv'
<1> USE DEF HeadInv, PartInv, Goto, Enter, refs, files, outside, plan, rest, report
<1>1. CASE Edit \/ EditAndAdd \/ LandOnBranch \/ MoveTarget \/ TakeTargetBack \/ Publish \/ Strand
           \/ Repair \/ Rerun \/ Gates \/ Stage \/ SkipHook
           \/ PreCommit \/ Restage \/ CommitStaged \/ GitCommit \/ NameCommit \/ Announce \/ ReadTip \/
           Decide \/ Backup \/ WriteTree \/ Cancel \/ Detach \/ MoveBranch \/ Reattach \/ DecideRebase \/
           GitRebase \/ Rebased \/ PreMerge \/ Prepare \/ Advance \/ Landed \/ Keep \/ PlanRemoval \/
           TakeDown \/ Finish
  BY <1>1 DEF Edit, OutsideStep, WriteNew, New, EditAndAdd, LandOnBranch, MoveTarget, TakeTargetBack,
     Publish, Strand, Repair, Rerun,
     Gates, Stage, SkipHook, PreCommit, Hook, Restage, CommitStaged, GitCommit, NameCommit, Announce,
     ReadTip, Decide, Backup, WriteTree, Cancel, Detach, MoveBranch, Reattach, DecideRebase, GitRebase,
     Rebased, PreMerge, Prepare, Advance, Landed, Keep, PlanRemoval, TakeDown, Finish
<1>2. CASE EditAndCommit
  <2>1. detached' # NoHistory => detached # NoHistory
    BY <1>2 DEF EditAndCommit
  <2>2. detached # NoHistory => detached' # NoHistory
    BY <1>2 DEF EditAndCommit, HistoryTypes, FileTypes, NoHistory, OutsideStep
  <2>3. UNCHANGED <<rebasing, step, part, told>> /\ ~rebasing
    BY <1>2 DEF EditAndCommit, OutsideStep
  <2> QED BY <2>1, <2>2, <2>3
<1>3. CASE Fail
  BY <1>3 DEF Fail, Fallible
<1>4. CASE Kill
  BY <1>4 DEF Kill, Ended
<1>5. CASE RebaseStops
  <2>1. detached' # NoHistory
    BY <1>5, StoppedOn DEF NoHistory
  <2> QED BY <1>5, <2>1 DEF RebaseStops
<1>6. CASE UNCHANGED mergeVars
  BY <1>6 DEF mergeVars
<1> QED BY <1>1, <1>2, <1>3, <1>4, <1>5, <1>6 DEF MergeNext

\* Only a rewind takes anything out of the target, and nothing takes anything off the upstream.
LEMMA NewNotEmpty ==
    ASSUME HistoryTypes, LandedInv, step = "advance"
    PROVE new # <<>>
<1>1. IsPrefix(old, new) /\ old # NoHistory
  BY DEF LandedInv
<1>2. Len(old) <= Len(new) /\ Len(old) # 0 /\ Len(old) \in Nat
  BY <1>1 DEF IsPrefix, NoHistory, HistoryTypes
<1> QED BY <1>2

LEMMA TargetMoves ==
    ASSUME HistoryTypes, MoveTarget
    PROVE IsPrefix(target, target')
<1>1. ASSUME NEW p \in Pieces, target' = Append(target, Tree(target) \cup {p})
      PROVE  IsPrefix(target, target')
  <2>1. Tree(target) \cup {p} \in Trees
    BY TipContent DEF Trees, HistoryTypes, NoHistory
  <2> QED BY <1>1, <2>1, PrefixOfAppend, PrefixOfItself DEF HistoryTypes
<1> QED BY <1>1 DEF MoveTarget, IsStrictPrefix

LEMMA TargetStep ==
    ASSUME HistoryTypes, LandedInv, [MergeNext]_mergeVars
    PROVE  TakeTargetBack \/ IsPrefix(target, target')
<1> USE DEF refs, files
<1>1. CASE UNCHANGED target
  BY <1>1, PrefixOfItself DEF HistoryTypes
<1>2. CASE MoveTarget \/ TakeTargetBack
  BY <1>2, TargetMoves
<1>3. CASE Advance \/ Strand
  <2>1. IsPrefix(target, new) /\ new # <<>>
    BY <1>3, NewNotEmpty DEF Advance, Strand, LandedInv
  <2>2. Append(new, Tree(new)) \in Seq(Trees) \ {<<>>} /\ IsPrefix(target, Append(new, Tree(new)))
    BY <2>1, TipContent, PrefixOfAppend DEF HistoryTypes
  <2>3. ASSUME NEW p \in Pieces, NEW t \in {new, Append(new, Tree(new))}
        PROVE  IsPrefix(target, Append(t, Tree(t) \cup {p}))
    <3>1. t \in Seq(Trees) /\ t # <<>> /\ IsPrefix(target, t)
      BY <2>1, <2>2 DEF HistoryTypes
    <3>2. Tree(t) \cup {p} \in Trees
      BY <3>1, TipContent DEF Trees
    <3> QED BY <3>1, <3>2, PrefixOfAppend DEF HistoryTypes
  <2> QED BY <1>3, <2>1, <2>2, <2>3 DEF Advance, Strand
<1>4. CASE Edit \/ EditAndAdd \/ EditAndCommit \/ LandOnBranch \/ Publish \/ Repair \/ Rerun \/ Gates \/ Fail \/ Kill
           \/ Stage \/ SkipHook \/ PreCommit \/ Restage \/ CommitStaged \/ GitCommit \/ NameCommit \/
           Announce \/ ReadTip \/ Decide \/ Backup \/ WriteTree \/ Cancel \/ Detach \/ MoveBranch \/
           Reattach \/ DecideRebase \/ GitRebase \/ RebaseStops \/ Rebased \/ PreMerge \/ Prepare \/ Landed
           \/ Keep \/ PlanRemoval \/ TakeDown \/ Finish
  <2>1. UNCHANGED target
    BY <1>4 DEF Edit, EditAndAdd, EditAndCommit, LandOnBranch, Publish, Repair, Rerun, Gates, Fail, Kill, Stage,
       SkipHook, PreCommit, Restage, CommitStaged, GitCommit, NameCommit, Announce, ReadTip, Decide, Backup,
       WriteTree, Cancel, Detach, MoveBranch, Reattach, DecideRebase, GitRebase, RebaseStops, Rebased,
       PreMerge, Prepare, Landed, Keep, PlanRemoval, TakeDown, Finish, OutsideStep
  <2> QED BY <2>1, <1>1
<1> QED BY <1>1, <1>2, <1>3, <1>4 DEF MergeNext, mergeVars

LEMMA UpstreamPublished ==
    ASSUME HistoryTypes, Publish
    PROVE IsPrefix(upstream, upstream')
<1>1. ASSUME NEW p \in Pieces, upstream' = Append(upstream, Tree(upstream) \cup {p})
      PROVE  IsPrefix(upstream, upstream')
  <2>1. Tree(upstream) \cup {p} \in Trees
    BY TipContent DEF Trees, HistoryTypes, NoHistory, Publish
  <2> QED BY <1>1, <2>1, PrefixOfAppend, PrefixOfItself DEF HistoryTypes
<1> QED BY <1>1 DEF Publish, IsStrictPrefix

LEMMA UpstreamStep ==
    ASSUME HistoryTypes, [MergeNext]_mergeVars
    PROVE Publish \/ UNCHANGED upstream
<1> USE DEF outside
<1>1. CASE Edit \/ EditAndAdd \/ EditAndCommit \/ LandOnBranch \/ MoveTarget \/ TakeTargetBack \/ Repair \/ Rerun
           \/ Gates \/ Fail \/ Kill \/ Stage \/ SkipHook \/ PreCommit \/ Restage \/ CommitStaged \/ GitCommit
           \/ NameCommit \/ Announce \/ ReadTip \/ Decide \/ Backup \/ WriteTree \/ Cancel \/ Detach
  BY <1>1 DEF Edit, EditAndAdd, EditAndCommit, LandOnBranch, MoveTarget, TakeTargetBack, Repair, Rerun, Gates, Fail,
     Kill, Stage, SkipHook, PreCommit, Restage, CommitStaged, GitCommit, NameCommit, Announce, ReadTip, Decide,
     Backup, WriteTree, Cancel, Detach
<1>2. CASE MoveBranch \/ Reattach \/ DecideRebase \/ GitRebase \/ RebaseStops \/ Rebased \/ PreMerge \/ Prepare
           \/ Advance \/ Strand \/ Landed \/ Keep \/ PlanRemoval \/ TakeDown \/ Finish \/ Publish
  BY <1>2 DEF MoveBranch, Reattach, DecideRebase, GitRebase, RebaseStops, Rebased, PreMerge, Prepare, Advance,
     Strand, Landed, Keep, PlanRemoval, TakeDown, Finish
<1> QED BY <1>1, <1>2 DEF MergeNext, mergeVars

\* What has landed or is published stays so, unless the target goes back.
LEMMA ElsewhereStep ==
    ASSUME HistoryTypes, HistoryTypes', LandedInv, [MergeNext]_mergeVars
    PROVE /\ Content(upstream) \subseteq Content(upstream')
          /\ TakeTargetBack \/ Content(target) \subseteq Content(target')
          /\ TakeTargetBack \/ Elsewhere \subseteq Elsewhere'
<1>1. IsPrefix(upstream, upstream')
  BY UpstreamStep, UpstreamPublished, PrefixOfItself DEF HistoryTypes
<1>2. Content(upstream) \subseteq Content(upstream')
  BY <1>1, ContentGrows DEF HistoryTypes
<1>3. TakeTargetBack \/ Content(target) \subseteq Content(target')
  BY TargetStep, ContentGrows DEF HistoryTypes
<1> QED BY <1>2, <1>3 DEF Elsewhere

\* The user and other processes only add to the branch and to a detached HEAD, and what they add is not
\* on the upstream.
Outside == Edit \/ EditAndAdd \/ EditAndCommit \/ LandOnBranch \/ MoveTarget \/ TakeTargetBack \/ Publish

\* What others do leaves the command as it is.
LEMMA OutsideStays ==
    ASSUME Outside
    PROVE /\ ~rebasing /\ ~gone
          /\ UNCHANGED <<mode, onto, tip, base, staged, new, old, backup, rebasing, gone, known, progress,
                        told, did, unread, step, part>>
BY DEF Outside, Edit, EditAndAdd, EditAndCommit, LandOnBranch, MoveTarget, TakeTargetBack, Publish, OutsideStep, plan,
   rest, report

LEMMA OutsideHead ==
    ASSUME HistoryTypes, FileTypes, Outside
    PROVE /\ detached = NoHistory => detached' = NoHistory
          /\ detached # NoHistory => detached' # NoHistory /\ IsPrefix(detached, detached')
<1>1. CASE Edit \/ EditAndAdd \/ MoveTarget \/ LandOnBranch \/ TakeTargetBack \/ Publish
  <2>1. UNCHANGED detached
    BY <1>1 DEF Edit, EditAndAdd, MoveTarget, LandOnBranch, TakeTargetBack, Publish, refs
  <2> QED BY <2>1, PrefixOfItself DEF HistoryTypes
<1>2. CASE EditAndCommit
  <2>1. PICK p \in Pieces : work' = work \cup {p} /\ index' = work'
    BY <1>2 DEF EditAndCommit
  <2>2. index' \in Trees
    BY <2>1 DEF FileTypes, Trees
  <2>3. IsPrefix(detached, Append(detached, index')) /\ Append(detached, index') # NoHistory
    BY <2>2, PrefixOfAppend, PrefixOfItself DEF HistoryTypes, NoHistory
  <2> QED BY <1>2, <2>3 DEF EditAndCommit
<1> QED BY <1>1, <1>2 DEF Outside

\* An outcome is known only once it has happened.
LEMMA KnownStep ==
    ASSUME HistoryTypes, HistoryTypes', FileTypes, PartInv, HeadInv, KnownInv, [MergeNext]_mergeVars
    PROVE  KnownInv'
<1> USE DEF KnownInv, PartInv, Goto, Enter, refs, files, outside, plan, rest, report
<1>1. CASE Edit \/ EditAndAdd \/ EditAndCommit \/ LandOnBranch \/ MoveTarget \/ TakeTargetBack \/ Publish
  <2>1. UNCHANGED <<step, part, known, did, unread>>
    BY <1>1, OutsideStays DEF Outside
  <2>2. detached' = NoHistory => detached = NoHistory
    BY <1>1, OutsideHead DEF Outside
  <2> QED BY <2>1, <2>2
<1>2. CASE Repair \/ Rerun \/ Gates \/ Kill \/ Strand
  BY <1>2 DEF Repair, Rerun, Gates, Kill, Strand
<1>3. CASE Fail
  BY <1>3 DEF Fail, Fallible, Unread
<1>4. CASE Stage \/ SkipHook \/ PreCommit \/ Restage \/ CommitStaged
  BY <1>4 DEF Stage, SkipHook, PreCommit, Hook, WriteNew, New, Restage, CommitStaged
<1>5. CASE GitCommit
  <2>1. detached # NoHistory => detached' # NoHistory
    BY <1>5, PrefixOfAppend, PrefixOfItself DEF GitCommit, HistoryTypes, FileTypes, NoHistory
  <2>2. part = "commit" => detached = NoHistory
    BY <1>5 DEF GitCommit, HeadInv
  <2> QED BY <1>5, <2>1, <2>2 DEF GitCommit
<1>6. CASE NameCommit \/ Announce
  BY <1>6 DEF NameCommit, Announce, HeadInv
<1>7. CASE ReadTip \/ Decide \/ Backup \/ WriteTree \/ Cancel \/ Detach
  BY <1>7 DEF ReadTip, Decide, Backup, WriteTree, Cancel, Detach
<1>8. CASE MoveBranch \/ Reattach
  BY <1>8 DEF MoveBranch, Reattach
<1>9. CASE DecideRebase \/ GitRebase \/ RebaseStops \/ Rebased \/ PreMerge
  BY <1>9 DEF DecideRebase, GitRebase, RebaseStops, Rebased, PreMerge, Hook, WriteNew, New
<1>10. CASE Prepare
  <2>1. HeadTip \in Seq(Trees)
    BY DEF HeadTip, HistoryTypes
  <2>2. target = HeadTip => Ancestor(target, HeadTip)
    BY <2>1, PrefixOfItself DEF Ancestor
  <2> QED BY <1>10, <2>2 DEF Prepare
<1>11. CASE Advance \/ Landed
  BY <1>11 DEF Advance, Landed
<1>12. CASE Keep \/ PlanRemoval \/ TakeDown \/ Finish
  BY <1>12 DEF Keep, PlanRemoval, TakeDown, Finish
<1>13. CASE UNCHANGED mergeVars
  BY <1>13 DEF mergeVars
<1> QED BY <1>1, <1>2, <1>3, <1>4, <1>5, <1>6, <1>7, <1>8, <1>9, <1>10, <1>11, <1>12, <1>13 DEF MergeNext

\* The report and what happened agree, but for what is still known only or was not read back.
LEMMA DoneStep ==
    ASSUME HistoryTypes, HistoryTypes', FileTypes, FlowTypes, PartInv, HeadInv, KnownInv, DoneInv,
           [MergeNext]_mergeVars
    PROVE  DoneInv'
<1> USE DEF DoneInv, PartInv, Goto, Enter, refs, files, outside, plan, rest, report
<1>1. CASE Edit \/ EditAndAdd \/ EditAndCommit \/ LandOnBranch \/ MoveTarget \/ TakeTargetBack \/ Publish
  <2>1. UNCHANGED <<step, part, known, did, unread, gone, progress>>
    BY <1>1, OutsideStays DEF Outside
  <2>2. detached = NoHistory => detached' = NoHistory
    BY <1>1, OutsideHead DEF Outside
  <2> QED BY <2>1, <2>2
<1>2. CASE Repair \/ Gates \/ Stage \/ SkipHook \/ PreCommit \/ Restage \/ CommitStaged \/ ReadTip \/ Decide
           \/ Backup \/ WriteTree \/ Cancel \/ Detach
  BY <1>2 DEF Repair, Gates, Stage, SkipHook, PreCommit, Hook, WriteNew, New, Restage, CommitStaged, ReadTip, Decide,
     Backup, WriteTree, Cancel, Detach
<1>3. CASE DecideRebase \/ GitRebase \/ RebaseStops \/ PreMerge \/ Keep \/ PlanRemoval \/ TakeDown
  BY <1>3 DEF DecideRebase, GitRebase, RebaseStops, PreMerge, Hook, WriteNew, New, Keep, PlanRemoval, TakeDown
<1>4. CASE GitCommit
  <2>1. step = "commit" /\ step' = "named" /\ UNCHANGED <<part, progress, unread, gone>> /\ part \in {"commit", "squash"}
    BY <1>4 DEF GitCommit
  <2>2. CASE detached = NoHistory
    <3>1. did' = did \cup {IF part = "squash" THEN "squashed" ELSE "committed"} /\ detached' = NoHistory
      BY <1>4, <2>2 DEF GitCommit
    <3> QED BY <2>1, <3>1
  <2>3. CASE detached # NoHistory
    <3>1. did' = did
      BY <1>4, <2>3 DEF GitCommit
    <3> QED BY <2>1, <2>3, <3>1
  <2> QED BY <2>2, <2>3
<1>17. CASE NameCommit
  <2>1. step = "named" /\ UNCHANGED <<part, detached, progress, did, unread, gone>>
    BY <1>17 DEF NameCommit
  <2>2. step' = IF detached = NoHistory THEN "announce" ELSE "move"
    BY <1>17 DEF NameCommit
  <2>3. part \in {"commit", "squash"} /\ (detached # NoHistory => part = "squash")
    BY <2>1 DEF HeadInv
  <2> QED BY <2>1, <2>2, <2>3
<1>5. CASE MoveBranch
  BY <1>5 DEF MoveBranch, KnownInv
<1>6. CASE Rerun
  BY <1>6 DEF Rerun, NoProgress
<1>7. CASE Fail
  BY <1>7, ReportedFields, ZenonT(60) DEF Fail, Fallible, Removal, KnownInv, FlowTypes, Unread
<1>8. CASE Kill
  BY <1>8 DEF Kill, Ended
<1>9. CASE Announce
  BY <1>9, ReportedFields DEF Announce, KnownInv, FlowTypes
<1>10. CASE Reattach
  BY <1>10, ReportedFields DEF Reattach, KnownInv, FlowTypes
<1>11. CASE Rebased
  BY <1>11 DEF Rebased, KnownInv, FlowTypes, ProgressTypes
<1>12. CASE Prepare
  <2>1. HeadTip \in Seq(Trees)
    BY DEF HeadTip, HistoryTypes
  <2>2. target = HeadTip => Ancestor(target, HeadTip)
    BY <2>1, PrefixOfItself DEF Ancestor
  <2> QED BY <1>12, <2>2 DEF Prepare, KnownInv
<1>13. CASE Advance \/ Strand
  BY <1>13 DEF Advance, Strand, KnownInv
<1>14. CASE Landed
  BY <1>14, ReportedFields DEF Landed, KnownInv, FlowTypes
<1>15. CASE Finish
  BY <1>15, ReportedFields DEF Finish, Removal, FlowTypes, KnownInv
<1>16. CASE UNCHANGED mergeVars
  BY <1>16 DEF mergeVars
<1> QED BY <1>1, <1>2, <1>3, <1>4, <1>5, <1>6, <1>7, <1>8, <1>9, <1>10, <1>11, <1>12, <1>13, <1>14, <1>15, <1>16,
     <1>17 DEF MergeNext

\* A commit with something new in it, on top of the branch.
LEMMA Appended ==
    ASSUME NEW x \in Trees, NEW p \in x, HistoryTypes, p \notin Content(upstream), branch # NoHistory
    PROVE /\ Append(branch, x) \in Seq(Trees) \ {<<>>} /\ IsPrefix(branch, Append(branch, x))
          /\ \A t \in Seq(Trees) : Carries(Covered, t, branch) => Carries(Covered, t, Append(branch, x))
          /\ \A t \in Seq(Trees) : IsPrefix(t, branch) => Append(branch, x) # t /\ IsPrefix(t, Append(branch, x))
<1>1. Append(branch, x) \in Seq(Trees) \ {<<>>} /\ IsPrefix(branch, Append(branch, x))
  BY PrefixOfAppend, PrefixOfItself DEF HistoryTypes
<1>2. \A t \in Seq(Trees) : IsPrefix(t, branch) => Append(branch, x) # t /\ IsPrefix(t, Append(branch, x))
  BY PrefixOfAppend DEF HistoryTypes
<1>3. \A t \in Seq(Trees) : Carries(Covered, t, branch) => Carries(Covered, t, Append(branch, x))
  BY CarriesNew, CoveredTypes DEF HistoryTypes
<1> QED BY <1>1, <1>2, <1>3

\* Others only take from what is covered, and what a rewind takes from the target it takes from there.
LEMMA RewindCovers ==
    ASSUME HistoryTypes, HistoryTypes', TakeTargetBack
    PROVE /\ Covered' \subseteq Covered
          /\ Measuring /\ Carries(Covered, target, branch) => Carries(Covered', target', branch')
<1>1. UNCHANGED <<upstream, branch>> /\ overtaken \subseteq overtaken'
      /\ (Measuring => Prefixes(upstream) \cap (Prefixes(target) \ Prefixes(target')) \subseteq overtaken')
  BY DEF TakeTargetBack
<1>2. Covered' \subseteq Covered
  BY <1>1 DEF Covered
<1>3. ASSUME Measuring, Carries(Covered, target, branch), NEW h \in Covered', IsPrefix(h, branch)
      PROVE  IsPrefix(h, target')
  <2>1. h \in Seq(Trees) /\ IsPrefix(h, target) /\ h \in Prefixes(upstream) /\ h \notin overtaken'
    BY <1>1, <1>2, <1>3, CoveredTypes DEF Carries, Covered
  <2>2. h \in Prefixes(target)
    BY <2>1, PrefixesDef DEF HistoryTypes
  <2>3. h \in Prefixes(target')
    BY <1>1, <1>3, <2>1, <2>2
  <2> QED BY <2>3, PrefixesDef DEF HistoryTypes
<1> QED BY <1>1, <1>2, <1>3 DEF Carries

LEMMA OutsideCovers ==
    ASSUME HistoryTypes, HistoryTypes', Outside
    PROVE Covered' \subseteq Covered
<1>1. CASE Edit \/ EditAndAdd \/ EditAndCommit \/ LandOnBranch \/ MoveTarget
  <2>1. UNCHANGED <<upstream, overtaken>>
    BY <1>1 DEF Edit, EditAndAdd, EditAndCommit, LandOnBranch, MoveTarget
  <2> QED BY <2>1 DEF Covered
<1>2. CASE Publish
  <2>1. Prefixes(upstream') \ overtaken' \subseteq Prefixes(upstream) \ overtaken
    BY <1>2 DEF Publish
  <2> QED BY <2>1 DEF Covered
<1>3. CASE TakeTargetBack
  BY <1>3, RewindCovers
<1> QED BY <1>1, <1>2, <1>3 DEF Outside

\* What others do to the branch.
LEMMA OutsideAdds ==
    ASSUME HistoryTypes, HistoryTypes', FileTypes, Outside
    PROVE /\ IsPrefix(branch, branch')
          /\ \A t \in Seq(Trees) : Carries(Covered, t, branch) => Carries(Covered', t, branch')
          /\ \A t \in Seq(Trees) : IsPrefix(t, branch) => IsPrefix(t, branch') /\ (branch' = branch \/ branch' # t)
<1>0. branch # NoHistory
  BY OutsideStays DEF HistoryTypes
<1>a. \A t \in Seq(Trees) : Carries(Covered, t, branch') => Carries(Covered', t, branch')
  BY OutsideCovers, CarriesFewer
<1> DEFINE Grown(t) == Carries(Covered, t, branch) => Carries(Covered, t, branch')
<1>1. CASE Edit \/ EditAndAdd \/ MoveTarget \/ TakeTargetBack \/ Publish
  <2>1. UNCHANGED branch
    BY <1>1 DEF Edit, EditAndAdd, MoveTarget, TakeTargetBack, Publish, refs
  <2> QED BY <2>1, <1>a, PrefixOfItself DEF HistoryTypes
<1>2. CASE EditAndCommit
  <2>1. PICK p \in Pieces : New(p) /\ work' = work \cup {p} /\ index' = work'
    BY <1>2 DEF EditAndCommit
  <2>2. p \notin Content(upstream) /\ p \in index' /\ index' \in Trees
    BY <2>1 DEF New, Used, FileTypes, Trees
  <2>3. CASE detached = NoHistory
    <3>1. branch' = Append(branch, index')
      BY <1>2, <2>3 DEF EditAndCommit
    <3>2. \A t \in Seq(Trees) : Grown(t)
      BY <3>1, <2>2, <1>0, Appended
    <3> QED BY <3>1, <3>2, <2>2, <1>0, <1>a, Appended
  <2>4. CASE detached # NoHistory
    <3>1. branch' = branch
      BY <1>2, <2>4 DEF EditAndCommit
    <3> QED BY <3>1, <1>a, PrefixOfItself DEF HistoryTypes
  <2> QED BY <2>3, <2>4
<1>3. CASE LandOnBranch
  <2>1. PICK p \in Pieces : New(p) /\ branch' = Append(branch, Tree(branch) \cup {p})
    BY <1>3 DEF LandOnBranch
  <2>2. p \notin Content(upstream)
    BY <2>1 DEF New, Used
  <2>3. Tree(branch) \cup {p} \in Trees
    BY <1>0, TipContent DEF HistoryTypes, Trees, NoHistory
  <2>4. \A t \in Seq(Trees) : Grown(t)
    BY <2>1, <2>2, <2>3, <1>0, Appended
  <2> QED BY <2>1, <2>2, <2>3, <2>4, <1>0, <1>a, Appended
<1> QED BY <1>1, <1>2, <1>3 DEF Outside

\* Where the branch does not span the upstream, the target has what the two share.
LEMMA NotSpanning ==
    ASSUME HistoryTypes, detached = NoHistory, Span = "target"
    PROVE Carries(Prefixes(upstream), target, branch)
<1> SUFFICES ASSUME NEW h \in Prefixes(upstream), IsPrefix(h, branch) PROVE IsPrefix(h, target)
  BY DEF Carries
<1>1. h \in Seq(Trees) /\ IsPrefix(h, upstream)
  BY PrefixesDef DEF HistoryTypes
<1>2. CASE upstream = NoHistory
  <2>1. h = <<>>
    <3>1. Len(h) <= Len(upstream) /\ Len(upstream) = 0 /\ Len(h) \in Nat
      BY <1>1, <1>2 DEF IsPrefix, NoHistory
    <3> QED BY <1>1, <3>1
  <2>2. Len(h) <= Len(target) /\ SubSeq(h, 1, Len(h)) = SubSeq(target, 1, Len(h))
    BY <2>1 DEF HistoryTypes
  <2> QED BY <2>2 DEF IsPrefix
<1>3. CASE upstream # NoHistory
  <2>1. IsPrefix(MergeBase(branch, upstream), target)
    BY <1>3 DEF Span, Spans, HeadTip, Ancestor
  <2>2. MergeBase(branch, upstream) \in Seq(Trees) /\ IsPrefix(h, MergeBase(branch, upstream))
    BY <1>1, MergeBaseOfBoth DEF HistoryTypes
  <2> QED BY <1>1, <2>1, <2>2, PrefixTrans DEF HistoryTypes
<1> QED BY <1>2, <1>3

\* The merge base of a squash stays one, and keeps what is published.
LEMMA SquashStep ==
    ASSUME HistoryTypes, HistoryTypes', FileTypes, PartInv, HeadInv, MeasuredInv, SquashInv,
           [MergeNext]_mergeVars
    PROVE  SquashInv'
<1> USE DEF SquashInv, Goto, Enter, refs, files, outside, plan, rest, report
<1>1. CASE Edit \/ EditAndAdd \/ EditAndCommit \/ LandOnBranch \/ MoveTarget \/ TakeTargetBack \/ Publish
  <2>1. UNCHANGED <<step, part, tip, base, new>>
    BY <1>1, OutsideStays DEF Outside
  <2>2. \A t \in Seq(Trees) : IsPrefix(t, branch) => IsPrefix(t, branch')
    BY <1>1, OutsideAdds DEF Outside
  <2>3. /\ detached = NoHistory => detached' = NoHistory
        /\ detached # NoHistory => detached' # NoHistory /\ IsPrefix(detached, detached')
    BY <1>1, OutsideHead DEF Outside
  <2>4. detached # NoHistory /\ IsPrefix(base, detached) => IsPrefix(base, detached')
    BY <2>3, PrefixTrans DEF HistoryTypes
  <2>5. Carries(Covered, base, tip) => Carries(Covered', base, tip)
    BY <1>1, OutsideCovers, CarriesFewer DEF Outside
  <2> QED BY <2>1, <2>2, <2>3, <2>4, <2>5 DEF HistoryTypes
<1>2. CASE Repair
  BY <1>2 DEF Repair, PartInv
<1>3. CASE Rerun \/ Gates \/ Fail \/ Kill \/ Strand
  BY <1>3 DEF Rerun, Gates, Fail, Kill, Fallible, Strand, PartInv, Covered
<1>4. CASE Stage \/ SkipHook \/ PreCommit \/ Restage \/ CommitStaged \/ Announce \/ Cancel \/ MoveBranch \/
           Reattach \/ DecideRebase \/ GitRebase \/ RebaseStops \/ Rebased \/ PreMerge \/ Prepare \/ Advance
           \/ Landed \/ Keep \/ PlanRemoval \/ TakeDown \/ Finish
  BY <1>4 DEF Stage, SkipHook, PreCommit, Hook, WriteNew, New, Restage, CommitStaged, Announce, Cancel,
     MoveBranch, Reattach, DecideRebase, GitRebase, RebaseStops, Rebased, PreMerge, Prepare, Advance,
     Landed, Keep, PlanRemoval, TakeDown, Finish, PartInv
<1>5. CASE GitCommit
  <2>0. UNCHANGED <<part, tip, base, upstream, overtaken>> /\ step' = "named" /\ step = "commit" /\ Covered' = Covered
    BY <1>5 DEF GitCommit, Covered
  <2>1. CASE detached = NoHistory
    <3>1. branch' = Append(branch, index) /\ detached' = detached
      BY <1>5, <2>1 DEF GitCommit
    <3>2. \A t \in Seq(Trees) : IsPrefix(t, branch) => IsPrefix(t, branch')
      BY <3>1, PrefixOfAppend DEF HistoryTypes, FileTypes
    <3> QED BY <2>0, <2>1, <3>1, <3>2 DEF HistoryTypes
  <2>2. CASE detached # NoHistory
    <3>1. detached' = Append(detached, index) /\ branch' = branch
      BY <1>5, <2>2 DEF GitCommit
    <3>2. \A t \in Seq(Trees) : IsPrefix(t, detached) => IsPrefix(t, detached')
      BY <3>1, PrefixOfAppend DEF HistoryTypes, FileTypes
    <3>3. detached' # NoHistory
      BY <3>1, PrefixOfAppend, PrefixOfItself DEF HistoryTypes, FileTypes, NoHistory
    <3> QED BY <2>0, <2>2, <3>1, <3>2, <3>3 DEF HistoryTypes
  <2> QED BY <2>1, <2>2
<1>6. CASE NameCommit
  <2>1. detached # NoHistory => part = "squash" /\ IsPrefix(base, detached)
    BY <1>6 DEF NameCommit, HeadInv, PartInv
  <2>2. Covered' = Covered
    BY <1>6 DEF NameCommit, Covered
  <2> QED BY <1>6, <2>1, <2>2 DEF NameCommit, HeadTip
<1>7. CASE ReadTip
  <2>1. detached = NoHistory /\ HeadTip = branch /\ branch # NoHistory
    BY <1>7 DEF ReadTip, HeadInv, PartInv, HeadTip, HistoryTypes
  <2>2. tip' = branch /\ base' = MergeBase(branch, Ref(onto)) /\ UNCHANGED <<branch, upstream, overtaken, detached, part>>
        /\ ((step' = "decide" /\ base' # NoHistory) \/ step' = "failed") /\ step = "inspect" /\ part = "squash"
    BY <1>7, <2>1 DEF ReadTip
  <2>3. Ref(onto) \in Seq(Trees)
    BY DEF Ref, HistoryTypes
  <2>4. base' \in Seq(Trees) /\ IsPrefix(base', branch)
        /\ \A h \in Seq(Trees) : IsPrefix(h, branch) /\ IsPrefix(h, Ref(onto)) => IsPrefix(h, base')
    BY <2>2, <2>3, MergeBaseOfBoth DEF HistoryTypes
  <2>5. Carries(Covered, base', branch)
    <3> SUFFICES ASSUME NEW h \in Covered, IsPrefix(h, branch) PROVE IsPrefix(h, base')
      BY DEF Carries
    <3>1. h \in Seq(Trees) /\ IsPrefix(h, upstream)
      BY CoveredTypes
    <3>2. onto = "target" => IsPrefix(h, target)
      BY <2>2 DEF MeasuredInv, Measuring, Carries
    <3>3. IsPrefix(h, Ref(onto))
      BY <3>1, <3>2 DEF Ref, HistoryTypes
    <3> QED BY <2>4, <3>1, <3>3
  <2>6. Covered' = Covered
    BY <2>2 DEF Covered
  <2> QED BY <2>1, <2>2, <2>4, <2>5, <2>6, PrefixOfItself DEF HistoryTypes
<1>8. CASE Decide
  <2>1. UNCHANGED <<branch, detached, tip, base, upstream, overtaken>> /\ step = "decide" /\ part = "squash"
        /\ (part' = "squash" => step' \in {"commit", "backup", "tree"}) /\ step' # "move"
    BY <1>8 DEF Decide, PartInv
  <2>2. Covered' = Covered
    BY <2>1 DEF Covered
  <2>3. detached = NoHistory
    BY <2>1 DEF HeadInv
  <2>4. step' = "commit" => tip = base
    <3>1. step' = "commit" => Len(tip) - Len(base) = 0
      BY <1>8 DEF Decide
    <3>2. IsPrefix(base, tip) /\ base \in Seq(Trees) /\ tip \in Seq(Trees)
      BY <2>1 DEF HistoryTypes
    <3>3. Len(base) = Len(tip) => IsPrefix(tip, base)
      BY <3>2, PrefixDef
    <3> QED BY <3>1, <3>2, <3>3, PrefixBothWays
  <2> QED BY <2>1, <2>2, <2>3, <2>4
<1>9. CASE Backup \/ WriteTree
  <2>1. Covered' = Covered
    BY <1>9 DEF Backup, WriteTree, Covered
  <2> QED BY <1>9, <2>1 DEF Backup, WriteTree, HeadInv
<1>10. CASE Detach
  <2>1. IsPrefix(base, base)
    BY PrefixOfItself DEF HistoryTypes
  <2>2. Covered' = Covered
    BY <1>10 DEF Detach, Covered
  <2> QED BY <1>10, <2>1, <2>2 DEF Detach, PartInv
<1>11. CASE UNCHANGED mergeVars
  <2>1. Covered' = Covered
    BY <1>11 DEF mergeVars, Covered
  <2> QED BY <1>11, <2>1 DEF mergeVars
<1> QED BY <1>1, <1>2, <1>3, <1>4, <1>5, <1>6, <1>7, <1>8, <1>9, <1>10, <1>11 DEF MergeNext

\* A stage that measures against the target may.
LEMMA MeasuredStep ==
    ASSUME HistoryTypes, HistoryTypes', FileTypes, PartInv, HeadInv, MeasuredInv, [MergeNext]_mergeVars
    PROVE  MeasuredInv'
<1> USE DEF MeasuredInv, Ref, Measuring, Goto, Enter, refs, files, outside, plan, rest, report
<1>1. CASE Edit \/ EditAndAdd \/ EditAndCommit \/ LandOnBranch \/ MoveTarget \/ TakeTargetBack \/ Publish
  <2>1. UNCHANGED <<step, part, onto>> /\ ~gone
    BY <1>1, OutsideStays DEF Outside
  <2>2. IsPrefix(branch, branch') /\ \A t \in Seq(Trees) : Carries(Covered, t, branch) => Carries(Covered', t, branch')
    BY <1>1, OutsideAdds DEF Outside
  <2>3. Covered' \in SUBSET Seq(Trees)
    BY CoveredTypes, <1>1, OutsideCovers DEF Outside
  <2>4. CASE TakeTargetBack
    <3>1. target' \in Prefixes(target) \ {NoHistory} /\ UNCHANGED <<branch, upstream>>
      BY <2>4 DEF TakeTargetBack
    <3>2. IsPrefix(target', target) /\ target' # <<>>
      BY <3>1, PrefixesDef DEF HistoryTypes, NoHistory
    <3>3. 1 \in 1..Len(target')
      BY <3>2 DEF HistoryTypes
    <3>4. target'[1] = target[1]
      BY <3>2, <3>3, PrefixDef DEF HistoryTypes
    <3> QED BY <2>1, <2>4, <3>1, <3>4, RewindCovers
  <2>5. CASE ~TakeTargetBack
    <3>1. IsPrefix(target, target') /\ IsPrefix(upstream, upstream')
      <4>1. IsPrefix(target, target')
        BY <1>1, <2>5, TargetMoves, PrefixOfItself DEF Edit, EditAndAdd, EditAndCommit, LandOnBranch, Publish, HistoryTypes
      <4>2. IsPrefix(upstream, upstream')
        BY UpstreamStep, UpstreamPublished, PrefixOfItself DEF HistoryTypes
      <4> QED BY <4>1, <4>2
    <3>2. Carries(Covered, target, branch) => Carries(Covered', target', branch')
      BY <2>2, <2>3, <3>1, CarriesOn DEF HistoryTypes
    <3>3. branch'[1] = branch[1] /\ target'[1] = target[1] /\ (onto = "upstream" => upstream'[1] = upstream[1])
      <4>1. branch # <<>> /\ target # <<>> /\ (onto = "upstream" => upstream # <<>>)
        BY <2>1 DEF HistoryTypes, NoHistory
      <4>2. 1 \in 1..Len(branch) /\ 1 \in 1..Len(target) /\ (onto = "upstream" => 1 \in 1..Len(upstream))
        BY <4>1 DEF HistoryTypes
      <4>3. branch'[1] = branch[1]
        BY <2>2, <4>2, PrefixDef DEF HistoryTypes
      <4>4. target'[1] = target[1]
        BY <3>1, <4>2, PrefixDef DEF HistoryTypes
      <4>5. onto = "upstream" => upstream'[1] = upstream[1]
        BY <3>1, <4>2, PrefixDef DEF HistoryTypes
      <4> QED BY <4>3, <4>4, <4>5
    <3> QED BY <2>1, <3>2, <3>3 DEF HistoryTypes
  <2> QED BY <2>4, <2>5
<1>2. CASE Rerun \/ Gates \/ Fail \/ Kill \/ Repair \/ Strand
  BY <1>2 DEF Rerun, Gates, Fail, Kill, Repair, Fallible, Strand
<1>3. CASE Stage
  <2>1. part = "squash" => detached = NoHistory
    BY <1>3 DEF Stage, HeadInv
  <2>2. part = "squash" /\ Span = "target" => Carries(Prefixes(upstream), target, branch)
    BY <2>1, NotSpanning
  <2>3. Covered' \subseteq Prefixes(upstream)
    BY <1>3 DEF Stage, Covered
  <2>4. part = "squash" /\ Span = "target" => Carries(Covered', target, branch)
    BY <2>2, <2>3, CarriesFewer
  <2> QED BY <1>3, <2>4 DEF Stage
<1>4. CASE SkipHook \/ PreCommit \/ Restage
  <2>1. Covered' = Covered
    BY <1>4 DEF SkipHook, PreCommit, Hook, WriteNew, New, Restage, Covered
  <2> QED BY <1>4, <2>1 DEF SkipHook, PreCommit, Restage
<1>5. CASE CommitStaged \/ GitCommit \/ NameCommit \/ Announce \/
           ReadTip \/ Decide \/ Backup \/ WriteTree \/ Cancel \/ Detach \/ MoveBranch \/ Reattach \/
           GitRebase \/ RebaseStops \/ Rebased \/ PreMerge \/ Prepare \/ Advance \/ Landed \/ Keep \/
           PlanRemoval \/ TakeDown \/ Finish
  BY <1>5 DEF CommitStaged, GitCommit, NameCommit,
     Announce, ReadTip, Decide, Backup, WriteTree, Cancel, Detach, MoveBranch, Reattach, GitRebase,
     RebaseStops, Rebased, PreMerge, Prepare, Advance, Landed, Keep, PlanRemoval, TakeDown, Finish
<1>6. CASE DecideRebase
  <2> SUFFICES ASSUME step' = "gitRebase" PROVE MeasuredInv'
    BY <1>6 DEF DecideRebase, PartInv
  <2>1. detached = NoHistory /\ HeadTip = branch /\ branch # <<>>
    BY <1>6 DEF DecideRebase, HeadInv, PartInv, HeadTip, HistoryTypes, NoHistory
  <2>2. onto' = Span /\ MergeBase(HeadTip, Ref(onto')) # NoHistory /\ UNCHANGED <<branch, target, upstream>>
    BY <1>6 DEF DecideRebase
  <2>3. Ref(onto') \in Seq(Trees) /\ Ref(onto') # <<>>
    BY <2>2 DEF Ref, HistoryTypes, NoHistory, Span, Spans
  <2>4. branch[1] = Ref(onto')[1]
    BY <2>1, <2>2, <2>3, CommonRoot DEF HistoryTypes, NoHistory
  <2>5. Span = "target" => Carries(Prefixes(upstream), target, branch)
    BY <2>1, NotSpanning
  <2>6. Covered' \subseteq Prefixes(upstream)
    BY <2>2 DEF Covered
  <2>7. Span = "target" => Carries(Covered', target, branch)
    BY <2>5, <2>6, CarriesFewer
  <2> QED BY <1>6, <2>2, <2>4, <2>7 DEF Ref, PartInv
<1>7. CASE UNCHANGED mergeVars
  <2>1. Covered' = Covered
    BY <1>7 DEF mergeVars, Covered
  <2> QED BY <1>7, <2>1 DEF mergeVars
<1> QED BY <1>1, <1>2, <1>3, <1>4, <1>5, <1>6, <1>7 DEF MergeNext

\* What others add to the work is new.
LEMMA OutsideMade ==
    ASSUME Outside
    PROVE \A q \in made' \ made : q \notin Used
<1>1. CASE Edit \/ EditAndAdd \/ MoveTarget
  BY <1>1 DEF Edit, EditAndAdd, MoveTarget, WriteNew, New
<1>2. CASE EditAndCommit \/ LandOnBranch
  BY <1>2 DEF EditAndCommit, LandOnBranch, New
<1>3. CASE TakeTargetBack \/ Publish
  BY <1>3 DEF TakeTargetBack, Publish
<1> QED BY <1>1, <1>2, <1>3 DEF Outside

\* A branch that is judged landed still is, for what is to be kept.
LEMMA LandedStep ==
    ASSUME HistoryTypes, HistoryTypes', FileTypes, PartInv, HeadInv, LandedInv, [MergeNext]_mergeVars
    PROVE  LandedInv'
<1> USE DEF LandedInv, Goto, Enter, refs, files, outside, plan, rest, report
<1>1. CASE Edit \/ EditAndAdd \/ EditAndCommit \/ LandOnBranch \/ MoveTarget \/ TakeTargetBack \/ Publish
  <2>1. UNCHANGED <<step, old, new>>
    BY <1>1, OutsideStays DEF Outside
  <2>2. IsPrefix(old, branch) => IsPrefix(old, branch')
    BY <1>1, OutsideAdds DEF Outside, HistoryTypes
  <2> SUFFICES ASSUME step = "remove", old # NoHistory PROVE Tree(old) \cap made' \subseteq Content(target')
    BY <2>1, <2>2
  <2>3. Tree(old) \subseteq Content(branch)
    <3>1. IsPrefix(old, branch) /\ old \in Seq(Trees) /\ branch \in Seq(Trees) /\ old # <<>>
      BY DEF HistoryTypes, NoHistory
    <3> QED BY <3>1, TipContent, ContentGrows
  <2>4. Tree(old) \cap made' \subseteq made
    BY <1>1, <2>3, OutsideMade DEF Outside, Used
  <2>5. CASE TakeTargetBack
    <3>1. made' \subseteq made \ (Content(target) \ Content(target'))
      BY <2>5 DEF TakeTargetBack
    <3> QED BY <2>4, <3>1
  <2>6. CASE ~TakeTargetBack
    BY <2>4, <2>6, ElsewhereStep
  <2> QED BY <2>5, <2>6
<1>2. CASE Rerun \/ Gates \/ Fail \/ Kill \/ Repair \/ Strand
  BY <1>2 DEF Rerun, Gates, Fail, Kill, Repair, Fallible, Strand, PartInv
<1>3. CASE Stage \/ SkipHook \/ PreCommit \/ Restage \/ CommitStaged \/ GitCommit \/ NameCommit \/ Announce
           \/ ReadTip \/ Decide \/ Backup \/ WriteTree \/ Cancel \/ Detach \/ MoveBranch \/ Reattach \/
           DecideRebase \/ GitRebase \/ RebaseStops \/ Rebased \/ PreMerge \/ Landed \/ Keep \/ TakeDown \/
           Finish
  BY <1>3 DEF Stage, SkipHook, PreCommit, Hook, WriteNew, New, Restage, CommitStaged, GitCommit,
     NameCommit, Announce, ReadTip, Decide, Backup, WriteTree, Cancel, Detach, MoveBranch, Reattach,
     DecideRebase, GitRebase, RebaseStops, Rebased, PreMerge, Landed, Keep, TakeDown, Finish
<1>4. CASE Prepare
  BY <1>4 DEF Prepare, Ancestor, HistoryTypes
<1>5. CASE Advance
  BY <1>5 DEF Advance
<1>6. CASE PlanRemoval
  <2>1. Tree(target) \subseteq Content(target)
    BY TipContent DEF HistoryTypes, NoHistory
  <2>2. IsPrefix(branch, branch)
    BY PrefixOfItself DEF HistoryTypes
  <2> QED BY <1>6, <2>1, <2>2 DEF PlanRemoval
<1>7. CASE UNCHANGED mergeVars
  BY <1>7 DEF mergeVars
<1> QED BY <1>1, <1>2, <1>3, <1>4, <1>5, <1>6, <1>7 DEF MergeNext

\* Whatever moves the branch, it keeps what is covered of what it shares with the upstream.
LEMMA PublishedStep ==
    ASSUME HistoryTypes, HistoryTypes', FileTypes, PartInv, HeadInv, SquashInv, MeasuredInv, [MergeNext]_mergeVars,
           branch' # NoHistory
    PROVE Carries(Covered, branch', branch)
<1> USE DEF Goto, Enter, refs, files, outside, plan, rest, report
<1>0. Covered \in SUBSET Seq(Trees)
  BY CoveredTypes
<1>1. CASE Edit \/ EditAndAdd \/ EditAndCommit \/ LandOnBranch \/ MoveTarget \/ TakeTargetBack \/ Publish
  <2>1. IsPrefix(branch, branch')
    BY <1>1, OutsideAdds DEF Outside
  <2> QED BY <1>0, <2>1, CarriesGrown DEF HistoryTypes
<1>2. CASE Repair \/ Rerun \/ Gates \/ Fail \/ Kill \/ Stage \/ SkipHook \/ PreCommit \/ Restage \/
           CommitStaged \/ NameCommit \/ Announce \/ ReadTip \/ Decide \/ Backup \/ WriteTree \/ Detach \/
           Reattach \/ DecideRebase \/ RebaseStops \/ Rebased \/ PreMerge \/ Prepare \/ Advance \/ Strand \/
           Landed \/ Keep \/ PlanRemoval \/ Finish
  <2>1. UNCHANGED branch
    BY <1>2 DEF Repair, Rerun, Gates, Fail, Kill, Stage, SkipHook, PreCommit, Hook, WriteNew, New, Restage,
       CommitStaged, NameCommit, Announce, ReadTip, Decide, Backup, WriteTree, Detach, Reattach, DecideRebase,
       RebaseStops, Rebased, PreMerge, Prepare, Advance, Strand, Landed, Keep, PlanRemoval, Finish
  <2> QED BY <2>1, CarriesItself
<1>3. CASE GitCommit
  <2>1. IsPrefix(branch, Append(branch, index)) /\ IsPrefix(branch, branch)
    BY PrefixOfAppend, PrefixOfItself DEF HistoryTypes, FileTypes
  <2> QED BY <1>0, <1>3, <2>1, CarriesGrown DEF GitCommit, HistoryTypes
<1>4. CASE Cancel
  <2>1. branch = tip /\ branch' = base /\ Carries(Covered, base, tip)
    BY <1>4 DEF Cancel, SquashInv, PartInv
  <2> QED BY <2>1
<1>5. CASE MoveBranch
  <2>1. CASE branch = tip
    <3>1. branch' = new /\ Carries(Covered, base, branch) /\ IsPrefix(base, new)
      BY <1>5, <2>1 DEF MoveBranch, SquashInv, PartInv
    <3> QED BY <1>0, <3>1, CarriesOn DEF HistoryTypes
  <2>2. CASE branch # tip
    <3>1. UNCHANGED branch
      BY <1>5, <2>2 DEF MoveBranch
    <3> QED BY <3>1, CarriesItself
  <2> QED BY <2>1, <2>2
<1>6. CASE GitRebase
  <2>1. branch' = Replayed /\ step = "gitRebase"
    BY <1>6 DEF GitRebase
  <2>2. Ref(onto) \in Seq(Trees) /\ IsPrefix(Ref(onto), branch')
    BY <2>1, ReplayedOnto
  <2>3. Carries(Covered, Ref(onto), branch)
    <3>1. CASE onto = "target"
      BY <3>1, <2>1 DEF MeasuredInv, Measuring, Ref
    <3>2. CASE onto = "upstream"
      BY <3>2, CoveredTypes DEF Carries, Ref
    <3> QED BY <3>1, <3>2 DEF HistoryTypes
  <2> QED BY <1>0, <2>2, <2>3, CarriesOn DEF HistoryTypes
<1>7. CASE TakeDown
  <2>1. branch' = branch
    BY <1>7 DEF TakeDown
  <2> QED BY <2>1, CarriesItself
<1>8. CASE UNCHANGED mergeVars
  <2>1. UNCHANGED branch
    BY <1>8 DEF mergeVars
  <2> QED BY <2>1, CarriesItself
<1> QED BY <1>1, <1>2, <1>3, <1>4, <1>5, <1>6, <1>7, <1>8 DEF MergeNext

\* While a worktree is clean and attached, nothing has landed behind it.
LEMMA NothingBehind ==
    ASSUME BehindInv, ~gone, detached = NoHistory, index = Tree(HeadTip)
    PROVE behind = {}
BY DEF BehindInv, HeadTip

\* Every piece of work stays somewhere.
LEMMA KeptStep ==
    ASSUME HistoryTypes, HistoryTypes', FileTypes, PartInv, PartInv', HeadInv, MeasuredInv, LandedInv, KeptInv,
           [MergeNext]_mergeVars
    PROVE  KeptInv'
<1> USE DEF KeptInv, Goto, Enter, refs, files, outside, plan, rest, report
<1>0. /\ Content(upstream) \subseteq Content(upstream')
      /\ TakeTargetBack \/ Elsewhere \subseteq Elsewhere'
  BY ElsewhereStep
<1>1. CASE Edit \/ EditAndAdd \/ EditAndCommit \/ LandOnBranch \/ MoveTarget \/ TakeTargetBack \/ Publish
  <2>1. UNCHANGED <<gone, rebasing>> /\ ~gone /\ ~rebasing
    BY <1>1, OutsideStays DEF Outside
  <2>2. CASE Edit \/ EditAndAdd \/ EditAndCommit \/ LandOnBranch
    <3>1. made' \ made \subseteq work' /\ work \subseteq work'
      BY <2>2 DEF Edit, EditAndAdd, EditAndCommit, LandOnBranch, WriteNew
    <3>2. ~TakeTargetBack \/ Elsewhere \subseteq Elsewhere'
      <4>1. UNCHANGED target
        BY <2>2 DEF Edit, EditAndAdd, EditAndCommit, LandOnBranch
      <4> QED BY <4>1, <1>0 DEF Elsewhere
    <3> QED BY <1>0, <2>1, <3>1, <3>2
  <2>3. CASE MoveTarget
    <3>1. UNCHANGED <<work, upstream>>
      BY <2>3 DEF MoveTarget
    <3>2. Content(target) \subseteq Content(target')
      BY <2>3, TargetMoves, ContentGrows DEF HistoryTypes
    <3>3. made' \subseteq made \cup Content(target')
      <4>1. ASSUME NEW p \in Pieces, made' = made \cup {p}, target' = Append(target, Tree(target) \cup {p})
            PROVE  p \in Content(target')
        <5>1. Tree(target) \cup {p} \in Trees
          BY TipContent DEF HistoryTypes, NoHistory, Trees
        <5> QED BY <4>1, <5>1, ContentOfAppend DEF HistoryTypes
      <4> QED BY <2>3, <4>1 DEF MoveTarget, WriteNew
    <3> QED BY <2>1, <3>1, <3>2, <3>3 DEF Elsewhere
  <2>4. CASE TakeTargetBack
    <3>1. UNCHANGED <<work, upstream>> /\ made' \subseteq made
      BY <2>4 DEF TakeTargetBack
    <3>2. made' \cap Content(target) \subseteq work \cup Content(target')
      BY <2>4 DEF TakeTargetBack
    <3> QED BY <2>1, <3>1, <3>2 DEF Elsewhere
  <2>5. CASE Publish
    <3>1. UNCHANGED <<work, target, made>>
      BY <2>5 DEF Publish
    <3> QED BY <1>0, <2>1, <3>1 DEF Elsewhere
  <2> QED BY <1>1, <2>2, <2>3, <2>4, <2>5
<1>2. CASE Repair
  <2>1. UNCHANGED <<gone, made, branch, target, upstream>> /\ rebasing' = FALSE /\ ~gone
        /\ (IF rebasing THEN work' = Tree(branch) \cup (work \ index) ELSE work' = work)
    BY <1>2 DEF Repair, PartInv, HeadInv
  <2>2. Elsewhere' = Elsewhere
    BY <2>1 DEF Elsewhere
  <2>3. rebasing \in BOOLEAN => made \subseteq work' \cup Elsewhere
    BY <2>1
  <2> QED BY <2>1, <2>2, <2>3
<1>3. CASE Rerun \/ Gates \/ Fail \/ Kill \/ SkipHook \/ CommitStaged \/ NameCommit \/ Announce \/ ReadTip \/ Decide
           \/ Backup \/ WriteTree \/ Detach \/ Reattach \/ DecideRebase \/ Rebased \/ Prepare \/ Landed \/ Keep
           \/ PlanRemoval \/ Finish
  <2>1. UNCHANGED <<gone, rebasing, branch, target, upstream, made, work, index>>
    BY <1>3 DEF Rerun, Gates, Fail, Kill, SkipHook, CommitStaged, NameCommit, Announce, ReadTip, Decide, Backup,
       WriteTree, Detach, Reattach, DecideRebase, Rebased, Prepare, Landed, Keep, PlanRemoval, Finish
  <2>2. Elsewhere' = Elsewhere
    BY <2>1 DEF Elsewhere
  <2> QED BY <2>1, <2>2
<1>4. CASE Stage \/ Restage \/ PreCommit \/ PreMerge \/ GitCommit \/ Cancel \/ MoveBranch
  <2>1. UNCHANGED <<gone, rebasing, target, upstream>> /\ ~rebasing /\ ~gone
    BY <1>4 DEF Stage, Restage, PreCommit, PreMerge, GitCommit, Cancel, MoveBranch, PartInv, HeadInv
  <2>2. made' \ made \subseteq work' /\ work \subseteq work'
    BY <1>4 DEF Stage, Restage, PreCommit, PreMerge, Hook, WriteNew, GitCommit, Cancel, MoveBranch
  <2>3. Elsewhere' = Elsewhere
    BY <2>1 DEF Elsewhere
  <2> QED BY <2>1, <2>2, <2>3
<1>5. CASE GitRebase
  <2> DEFINE b == MergeBase(branch, Ref(onto))
  <2>1. UNCHANGED <<gone, rebasing, made, upstream, target>> /\ ~rebasing /\ ~gone /\ detached = NoHistory
        /\ step = "gitRebase"
    BY <1>5 DEF GitRebase, PartInv, HeadInv
  <2>2. index = Tree(branch) /\ index \subseteq work /\ work' = Tree(branch') \cup (work \ index)
        /\ branch' = Replay(branch, b, Ref(onto))
    BY <1>5, <2>1 DEF GitRebase, Rebasable, HeadTip, Untracked, Replayed
  <2>3. Ref(onto) \in Seq(Trees) /\ Ref(onto) # <<>> /\ branch # <<>> /\ branch[1] = Ref(onto)[1]
    BY <2>1 DEF Ref, HistoryTypes, NoHistory, MeasuredInv
  <2>4. b \in Seq(Trees) /\ IsPrefix(b, branch) /\ IsPrefix(b, Ref(onto)) /\ b # <<>>
    BY <2>3, MergeBaseOfBoth, CommonRoot DEF HistoryTypes
  <2> HIDE DEF b
  <2>5. Tree(branch) \subseteq Tree(branch') \cup Tree(b)
    BY <2>2, <2>3, <2>4, ReplayKeeps DEF HistoryTypes
  <2>6. Tree(b) \subseteq Content(Ref(onto))
    BY <2>3, <2>4, TipContent, ContentGrows
  <2>7. Content(Ref(onto)) \subseteq Elsewhere
    BY DEF Ref, Elsewhere
  <2>8. Elsewhere' = Elsewhere
    BY <2>1 DEF Elsewhere
  <2>9. made' \subseteq work' \cup Elsewhere'
    BY <2>1, <2>2, <2>5, <2>6, <2>7, <2>8
  <2> QED BY <2>1, <2>9
<1>6. CASE RebaseStops
  <2>1. UNCHANGED <<gone, made, upstream, target, branch>> /\ ~gone /\ ~rebasing /\ rebasing' /\ detached = NoHistory
    BY <1>6 DEF RebaseStops, PartInv, HeadInv
  <2>2. index = Tree(branch) /\ index \subseteq work /\ index' = Tree(detached')
        /\ work' = Tree(detached') \cup (work \ index)
    BY <1>6, <2>1 DEF RebaseStops, Rebasable, HeadTip, Untracked
  <2>3. (work \ index) \cap Tree(detached') = {}
    BY <1>6, StoppedOn DEF Untracked
  <2>4. Elsewhere' = Elsewhere
    BY <2>1 DEF Elsewhere
  <2> QED BY <2>1, <2>2, <2>3, <2>4
<1>7. CASE Advance \/ Strand
  <2>1. UNCHANGED <<gone, rebasing, work, upstream>> /\ ~rebasing /\ ~gone
    BY <1>7 DEF Advance, Strand, PartInv, HeadInv
  <2>2. ~TakeTargetBack \/ Elsewhere \subseteq Elsewhere'
    BY <1>7, <2>1 DEF TakeTargetBack, OutsideStep, Advance, Strand
  <2>3. made' \subseteq made \cup Content(target')
    <3>1. CASE Advance
      BY <3>1 DEF Advance
    <3>2. CASE Strand
      <4>1. PICK p \in Pieces, t \in {new, Append(new, Tree(new))} :
              made' = made \cup {p} /\ target' = Append(t, Tree(t) \cup {p})
        BY <3>2 DEF Strand, WriteNew
      <4>2. new # <<>> /\ new \in Seq(Trees)
        BY <3>2, NewNotEmpty DEF Strand, HistoryTypes
      <4>3. t \in Seq(Trees) \ {<<>>}
        BY <4>1, <4>2, TipContent, PrefixOfAppend, PrefixOfItself
      <4>4. Tree(t) \cup {p} \in Trees
        BY <4>3, TipContent DEF Trees
      <4> QED BY <4>1, <4>3, <4>4, ContentOfAppend
    <3> QED BY <1>7, <3>1, <3>2
  <2> QED BY <1>0, <2>1, <2>2, <2>3 DEF Elsewhere
<1>8. CASE TakeDown
  <2>1. UNCHANGED <<rebasing, made, target, upstream>> /\ ~rebasing /\ ~gone /\ gone'
        /\ detached = NoHistory /\ step = "remove" /\ branch # <<>>
    BY <1>8 DEF TakeDown, PartInv, HeadInv, HistoryTypes, NoHistory
  <2>2. work = Tree(branch)
    BY <1>8, <2>1 DEF TakeDown, Dirty, HeadTip
  <2>3. Tree(branch) \cap made \subseteq Content(target) \cup Content(branch')
    <3>1. CASE branch = old
      BY <3>1, <2>1 DEF LandedInv, NoHistory
    <3>2. CASE branch # old
      <4>1. branch' = branch
        BY <1>8, <3>2 DEF TakeDown
      <4> QED BY <4>1, <2>1, TipContent DEF HistoryTypes
    <3> QED BY <3>1, <3>2
  <2>4. made' \subseteq Content(branch') \cup Elsewhere'
    BY <2>1, <2>2, <2>3 DEF Elsewhere
  <2> QED BY <2>1, <2>4
<1>9. CASE UNCHANGED mergeVars
  BY <1>9 DEF mergeVars, Elsewhere
<1> QED BY <1>1, <1>2, <1>3, <1>4, <1>5, <1>6, <1>7, <1>8, <1>9 DEF MergeNext

\* What others land behind a detached HEAD stays at the tip of the branch.
LEMMA BehindStep ==
    ASSUME HistoryTypes, HistoryTypes', FileTypes, PartInv, HeadInv, SquashInv, BehindInv, [MergeNext]_mergeVars
    PROVE  BehindInv'
<1> USE DEF BehindInv, Goto, Enter, refs, files, outside, plan, rest, report
<1>1. CASE Edit \/ EditAndAdd \/ MoveTarget \/ TakeTargetBack \/ Publish
  <2>1. UNCHANGED <<gone, rebasing, step, tip>>
    BY <1>1, OutsideStays DEF Outside
  <2>2. UNCHANGED <<behind, branch, detached>>
    BY <1>1 DEF Edit, EditAndAdd, MoveTarget, TakeTargetBack, Publish
  <2>3. behind \cap (index' \cup work') = {}
    BY <1>1 DEF Edit, EditAndAdd, MoveTarget, TakeTargetBack, Publish, WriteNew, New, Used
  <2> QED BY <2>1, <2>2, <2>3
<1>2. CASE EditAndCommit
  <2>1. UNCHANGED <<gone, rebasing, step, tip>> /\ ~gone
    BY <1>2, OutsideStays DEF Outside
  <2>2. PICK p \in Pieces : New(p) /\ work' = work \cup {p} /\ index' = work'
    BY <1>2 DEF EditAndCommit
  <2>3. behind' \subseteq behind /\ behind' \cap (index' \cup work') = {}
    BY <1>2, <2>2 DEF EditAndCommit, New, Used
  <2>4. CASE detached = NoHistory
    <3>1. behind' = {}
      BY <1>2, <2>1, <2>4 DEF EditAndCommit, HeadTip
    <3> QED BY <3>1, <2>1
  <2>5. CASE detached # NoHistory
    <3>1. branch' = branch
      BY <1>2, <2>5 DEF EditAndCommit
    <3>2. detached' # NoHistory
      BY <1>2, <2>5, OutsideHead DEF Outside
    <3> QED BY <3>1, <3>2, <2>1, <2>3, <2>5
  <2> QED BY <2>4, <2>5
<1>3. CASE LandOnBranch
  <2>1. UNCHANGED <<gone, rebasing, step, tip, part, detached>> /\ ~gone /\ ~rebasing /\ branch # <<>>
    BY <1>3, OutsideStays DEF Outside, LandOnBranch, HistoryTypes, NoHistory
  <2>2. PICK p \in Pieces :
          /\ New(p) /\ branch' = Append(branch, Tree(branch) \cup {p})
          /\ IF detached = NoHistory THEN index' = index \cup {p} /\ work' = work \cup {p} /\ behind' = behind
             ELSE behind' = behind \cup {p} /\ UNCHANGED files
    BY <1>3 DEF LandOnBranch
  <2>3. Tree(branch') = Tree(branch) \cup {p}
    <3>1. Tree(branch) \cup {p} \in Trees
      BY <2>1, TipContent DEF HistoryTypes, Trees
    <3> QED BY <2>2, <3>1, ContentOfAppend DEF HistoryTypes
  <2>4. behind' \subseteq Tree(branch') /\ behind' \cap (index' \cup work') = {}
    BY <2>1, <2>2, <2>3 DEF New, Used
  <2>5. step \in {"commit", "named", "move"} /\ detached # NoHistory => branch' # tip
    <3>1. step \in {"commit", "named", "move"} /\ detached # NoHistory => IsPrefix(tip, branch)
      BY DEF SquashInv, HeadInv, PartInv
    <3>2. branch' # branch
      <4>1. Tree(branch) \cup {p} \in Trees
        BY <2>1, TipContent DEF HistoryTypes, Trees
      <4> QED BY <2>2, <4>1, PrefixOfAppend, PrefixOfItself DEF HistoryTypes
    <3>3. IsPrefix(tip, branch) => branch' # tip
      BY <1>3, <3>2, OutsideAdds DEF Outside, HistoryTypes
    <3> QED BY <3>1, <3>3
  <2>6. detached # NoHistory => step \notin {"stage", "hook", "restage", "inspect", "decide", "backup", "tree", "cancel", "detach"}
    BY DEF HeadInv, PartInv
  <2> QED BY <2>1, <2>2, <2>4, <2>5, <2>6
<1>4. CASE Repair
  <2>1. UNCHANGED <<gone, behind, branch>> /\ step' = step /\ step \in {"failed", "killed"} /\ rebasing' = FALSE
        /\ (~rebasing => UNCHANGED <<index, work>>)
    BY <1>4 DEF Repair
  <2> QED BY <2>1
<1>5. CASE Rerun
  BY <1>5 DEF Rerun
<1>6. CASE Gates \/ Fail \/ Kill \/ SkipHook \/ CommitStaged \/ NameCommit \/ Announce \/ ReadTip \/ Decide
           \/ Backup \/ WriteTree \/ Detach \/ Reattach \/ DecideRebase \/ Rebased \/ Prepare \/ Landed \/ Keep
           \/ PlanRemoval \/ Finish \/ Advance \/ Strand
  <2>1. UNCHANGED <<gone, rebasing, branch, behind, work, index>>
    BY <1>6 DEF Gates, Fail, Kill, SkipHook, CommitStaged, NameCommit, Announce, ReadTip, Decide, Backup,
       WriteTree, Detach, Reattach, DecideRebase, Rebased, Prepare, Landed, Keep, PlanRemoval, Finish, Advance, Strand
  <2>2. behind # {} =>
          /\ step' \in {"commit", "named", "move"} => step \in {"commit", "named"} /\ UNCHANGED <<detached, tip>>
          /\ step' \notin {"gates", "stage", "hook", "restage", "inspect", "decide", "backup", "tree", "cancel", "detach"}
    BY <1>6 DEF Gates, Fail, Fallible, Kill, SkipHook, CommitStaged, NameCommit, Announce, ReadTip, Decide, Backup,
       WriteTree, Detach, Reattach, DecideRebase, Rebased, Prepare, Landed, Keep, PlanRemoval, Finish, Advance, Strand
  <2> QED BY <2>1, <2>2
<1>7. CASE Stage \/ Restage \/ PreCommit \/ Cancel
  <2>1. behind' = behind /\ behind = {}
    BY <1>7 DEF Stage, Restage, PreCommit, Cancel
  <2> QED BY <2>1
<1>8. CASE PreMerge
  <2>1. UNCHANGED <<gone, rebasing, branch, behind, index>> /\ step' = "prepare"
    BY <1>8 DEF PreMerge
  <2>2. behind \cap work' = {}
    BY <1>8 DEF PreMerge, Hook, WriteNew, New, Used
  <2> QED BY <2>1, <2>2
<1>9. CASE GitCommit
  <2>1. UNCHANGED <<gone, rebasing, behind, work, index, tip>> /\ step = "commit" /\ step' = "named"
    BY <1>9 DEF GitCommit
  <2>2. CASE detached = NoHistory
    BY <2>1, <2>2
  <2>3. CASE detached # NoHistory
    <3>1. branch' = branch /\ detached' # NoHistory
      BY <1>9, <2>3, PrefixOfAppend, PrefixOfItself DEF GitCommit, HistoryTypes, FileTypes, NoHistory
    <3> QED BY <2>1, <2>3, <3>1
  <2> QED BY <2>2, <2>3
<1>10. CASE MoveBranch
  <2>1. UNCHANGED <<gone, rebasing, behind, work, index>> /\ step = "move" /\ step' \in {"reattach", "putBack"}
        /\ (branch # tip => UNCHANGED branch)
    BY <1>10 DEF MoveBranch
  <2> QED BY <2>1
<1>11. CASE GitRebase \/ RebaseStops \/ TakeDown
  <2>1. ~gone /\ detached = NoHistory
    BY <1>11 DEF GitRebase, RebaseStops, TakeDown, PartInv, HeadInv
  <2>2. behind' = behind /\ index = Tree(HeadTip)
    BY <1>11 DEF GitRebase, RebaseStops, TakeDown, Rebasable, Dirty
  <2>3. behind = {}
    BY <2>1, <2>2, NothingBehind
  <2> QED BY <2>2, <2>3
<1>12. CASE UNCHANGED mergeVars
  BY <1>12 DEF mergeVars
<1> QED BY <1>1, <1>2, <1>3, <1>4, <1>5, <1>6, <1>7, <1>8, <1>9, <1>10, <1>11, <1>12 DEF MergeNext

\* Staged changes are backed up before a squash takes them.
LEMMA BackupStep ==
    ASSUME HistoryTypes, HistoryTypes', FileTypes, PartInv, HeadInv, KnownInv, DoneInv, SquashInv, BackupInv,
           [MergeNext]_mergeVars
    PROVE  BackupInv'
<1> USE DEF BackupInv, BackedUp, Goto, Enter, refs, files, outside, plan, rest, report
<1>1. CASE Edit \/ EditAndAdd \/ EditAndCommit \/ LandOnBranch \/ MoveTarget \/ TakeTargetBack \/ Publish
  <2>1. UNCHANGED <<step, part, tip, base, staged, backup, did>>
    BY <1>1, OutsideStays DEF Outside
  <2>2. detached' # NoHistory => detached # NoHistory
    BY <1>1, OutsideHead DEF Outside
  <2>3. step \in {"tree", "cancel", "detach"} => (branch' = tip => branch = tip)
    BY <1>1, OutsideAdds DEF Outside, SquashInv, PartInv, HistoryTypes
  <2> QED BY <2>1, <2>2, <2>3
<1>2. CASE Repair \/ Rerun \/ Gates \/ Fail \/ Kill \/ Strand
  BY <1>2 DEF Repair, Rerun, Gates, Fail, Kill, Strand, Fallible, PartInv
<1>3. CASE Stage \/ SkipHook \/ PreCommit \/ Restage \/ CommitStaged \/ NameCommit \/ Announce
  BY <1>3 DEF Stage, SkipHook, PreCommit, Hook, WriteNew, New, Restage, CommitStaged, NameCommit,
     Announce, DoneInv
<1>4. CASE GitCommit
  BY <1>4 DEF GitCommit, SquashInv, PartInv
<1>5. CASE ReadTip
  BY <1>5 DEF ReadTip, KnownInv, DoneInv, PartInv
<1>6. CASE Decide
  BY <1>6 DEF Decide, KnownInv, DoneInv, PartInv, HeadInv
<1>7. CASE Backup
  <2>1. HeadTip = branch
    BY <1>7 DEF Backup, HeadInv, PartInv, HeadTip
  <2>2. backup \subseteq backup' /\ [parent |-> branch, tree |-> index] \in backup'
        /\ UNCHANGED <<branch, tip, base, staged, did, part>> /\ step' = "tree"
    BY <1>7, <2>1 DEF Backup
  <2>3. branch = tip => BackedUp'
    BY <2>2
  <2> QED BY <2>2, <2>3
<1>8. CASE WriteTree
  BY <1>8 DEF WriteTree
<1>9. CASE Cancel
  BY <1>9 DEF Cancel
<1>10. CASE Detach
  BY <1>10 DEF Detach, HeadInv, HeadTip
<1>11. CASE MoveBranch
  BY <1>11 DEF MoveBranch, HeadInv, PartInv
<1>12. CASE Reattach
  BY <1>12 DEF Reattach
<1>13. CASE DecideRebase \/ GitRebase \/ RebaseStops \/ Rebased \/ PreMerge \/ Prepare \/ Advance \/ Landed
            \/ Keep \/ PlanRemoval \/ TakeDown \/ Finish
  BY <1>13 DEF DecideRebase, GitRebase, RebaseStops, Rebased, PreMerge, Hook, WriteNew, New, Prepare,
     Advance, Landed, Keep, PlanRemoval, TakeDown, Finish
<1>14. CASE UNCHANGED mergeVars
  BY <1>14 DEF mergeVars
<1> QED BY <1>1, <1>2, <1>3, <1>4, <1>5, <1>6, <1>7, <1>8, <1>9, <1>10, <1>11, <1>12, <1>13, <1>14 DEF MergeNext

(* ---- the theorems about wt merge ---- *)

\* The invariant holds of every repository to start from.
LEMMA MergeStart == MergeInit => MergeIInv
<1> SUFFICES ASSUME MergeInit PROVE MergeIInv
  OBVIOUS
<1> USE DEF MergeInit
<1>1. PICK s \in Starts :
        /\ target = s.target /\ upstream = s.upstream /\ branch = s.branch
        /\ index = s.index /\ work = s.work
        /\ made = s.work \cup Tree(s.target)
  OBVIOUS
<1>2. /\ target \in Seq(Trees) \ {NoHistory} /\ branch \in Seq(Trees) \ {NoHistory} /\ upstream \in Seq(Trees)
      /\ index \in Trees /\ work \in Trees
  BY <1>1, MergeAssumption
<1>3. Tree(target) \in Trees /\ Tree(target) \subseteq Content(target)
  BY <1>2, TipContent DEF NoHistory
<1>4. HistoryTypes
  BY <1>2 DEF HistoryTypes, NoHistory
<1>5. FileTypes
  BY <1>1, <1>2, <1>3 DEF FileTypes, Trees
<1>6. FlowTypes
  <2>1. NoProgress \in ProgressTypes
    BY DEF NoProgress, ProgressTypes
  <2>2. 0 \in 0..MaxUser
    BY MergeAssumption
  <2> QED BY <2>1, <2>2 DEF FlowTypes
<1>7. PartInv /\ HeadInv /\ KnownInv /\ SquashInv /\ MeasuredInv /\ LandedInv /\ BackupInv
  BY DEF PartInv, HeadInv, KnownInv, SquashInv, MeasuredInv, Measuring, LandedInv, BackupInv
<1>8. DoneInv
  BY DEF DoneInv, NoProgress
<1>9. KeptInv /\ BehindInv
  BY <1>1, <1>3 DEF KeptInv, BehindInv, Elsewhere
<1> QED BY <1>4, <1>5, <1>6, <1>7, <1>8, <1>9 DEF MergeIInv, MergeTypeOK

\* The parts of the invariant hold on to one another in this order.
LEMMA MergeStep == MergeIInv /\ [MergeNext]_mergeVars => MergeIInv'
<1> SUFFICES ASSUME MergeIInv, [MergeNext]_mergeVars PROVE MergeIInv'
  OBVIOUS
<1> USE DEF MergeIInv, MergeTypeOK
<1>1. HistoryTypes'
  BY HistoryStep
<1>2. FileTypes' /\ FlowTypes'
  BY <1>1, FileStep, FlowStep
<1>3. PartInv' /\ HeadInv'
  BY PartStep, HeadStep
<1>4. KnownInv' /\ DoneInv'
  BY <1>1, KnownStep, DoneStep
<1>5. SquashInv' /\ MeasuredInv' /\ LandedInv'
  BY <1>1, SquashStep, MeasuredStep, LandedStep
<1>6. KeptInv' /\ BehindInv' /\ BackupInv'
  BY <1>1, <1>3, KeptStep, BehindStep, BackupStep
<1> QED BY <1>1, <1>2, <1>3, <1>4, <1>5, <1>6

LEMMA MergeInvariance == MergeSpec => []MergeIInv
BY MergeStart, MergeStep, PTL DEF MergeSpec

\* Every variable of wt merge keeps its type; a branch is deleted only with its worktree.
THEOREM MergeTypeCorrect == MergeSpec => []MergeTypeOK
<1>1. MergeIInv => MergeTypeOK
  BY DEF MergeIInv
<1> QED BY <1>1, MergeInvariance, PTL

\* A wt merge that ends on its own leaves HEAD on the branch, or says that it could not (squash.rs,
\* reattach_after_failure), whatever fails and whoever else moves things.
THEOREM HeadComesBack == MergeSpec => []HeadReattached
<1>1. MergeIInv => HeadReattached
  BY DEF MergeIInv, HeadInv, PartInv, HeadReattached
<1> QED BY <1>1, MergeInvariance, PTL

\* The commit, squash, rebase, advance and removal that a wt merge reports when it ends on its own are those
\* that it made (merge.rs, MergeProgress), whatever stage fails; but it does not report the commit, the
\* rebase or the advance that it failed right after and did not read back.
THEOREM ReportIsTrue == MergeSpec => []ReportedAsDone
<1>1. MergeIInv => ReportedAsDone
  <2> SUFFICES ASSUME MergeIInv, step \in {"done", "failed"}
               PROVE  /\ {k \in Kinds : progress[k]} = (did \cap Kinds) \ unread
                      /\ gone <=> progress.removed = "removed"
    BY DEF ReportedAsDone
  <2> USE DEF MergeIInv, MergeTypeOK, PartInv, KnownInv, DoneInv
  <2>1. ASSUME NEW k \in Kinds PROVE progress[k] <=> k \in did /\ k \notin unread
    BY <2>1 DEF Kinds
  <2>2. gone <=> progress.removed = "removed"
    OBVIOUS
  <2> QED BY <2>1, <2>2
<1> QED BY <1>1, MergeInvariance, PTL

\* No piece of work is lost, wherever wt merge fails or is killed, however often it is run again and
\* whoever edits, commits and lands meanwhile, and a squash that swept staged changes in has backed them up
\* (squash.rs, create_safety_backup).  What another wt lands behind the detached HEAD of a squash is kept
\* until wt merge is run again and not beyond; what the target gives up, where the worktree has it.
THEOREM NoWorkLost == MergeSpec => []WorkKept
<1>1. MergeIInv => WorkKept
  <2> SUFFICES ASSUME MergeIInv PROVE WorkKept
    OBVIOUS
  <2> USE DEF MergeIInv, MergeTypeOK
  <2>1. ~gone => Tree(branch) \subseteq Content(branch)
    BY TipContent DEF HistoryTypes, NoHistory
  <2>2. made \subseteq work \cup Content(branch) \cup Content(target) \cup Content(upstream)
    BY <2>1 DEF KeptInv, Elsewhere, FlowTypes
  <2>3. behind \subseteq Content(branch)
    BY <2>1 DEF BehindInv
  <2> QED BY <2>2, <2>3 DEF BackupInv, BackedUp, WorkKept
<1> QED BY <1>1, MergeInvariance, PTL

\* No step of wt merge, nor of anybody next to it, folds what the branch shares with the upstream into
\* other commits (squash.rs, rebase.rs, span_upstream): of what was published when the stage looked, and
\* that the target it then measured against has not given up.
THEOREM PublishedStays == MergeSpec => PublishedKept
<1>1. MergeIInv /\ MergeIInv' /\ [MergeNext]_mergeVars =>
        [branch' # NoHistory =>
            \A h \in Prefixes(upstream) \ overtaken :
                h # NoHistory /\ Ancestor(h, branch) => Ancestor(h, branch')]_mergeVars
  <2> SUFFICES ASSUME MergeIInv, MergeIInv', [MergeNext]_mergeVars, branch' # NoHistory,
                      NEW h \in Covered, Ancestor(h, branch)
               PROVE  Ancestor(h, branch')
    BY DEF Covered
  <2>1. Carries(Covered, branch', branch)
    BY PublishedStep DEF MergeIInv, MergeTypeOK
  <2> QED BY <2>1 DEF Carries, Ancestor
<1> QED BY <1>1, MergeInvariance, PTL DEF MergeSpec, PublishedKept

-----------------------------------------------------------------------------
(* Foreground: the invariant *)

\* The child to create is there from the admission to its second look, and admission needs the lease.
Forking ==
    /\ pc \in {"fork", "recheck"} => spawning \in Children
    /\ pc \in {"admit", "fork", "recheck"} => lease

\* A signal of a lease is settled before the last lease ends.
LeaseInv == caught \subseteq pending /\ (Idle => caught = {}) /\ ~fatal

\* Whoever runs when the terminal sends Ctrl-C hears it; nobody is created until it is handled.
HeardInv ==
    /\ "INT" \in pending \/ handling = "INT" => Running \subseteq heard
    /\ NoneUnaware

\* A round that was cancelled before it began stays cancelled and has no child.
LateInv ==
    /\ pc = "install" => ~late /\ Spawned = {}
    /\ late => Refuses /\ pc \notin {"fork", "recheck"}
    /\ NothingAfterCancel

\* What reached the scope while it was installed is in a flag the result is read from.
HitInv ==
    /\ hit => Seen
    /\ pc = "next" => ~installed
    /\ CancelIsReported

\* No pipe is open before the drain.
OpenInv == pc \in {"install", "admit", "fork", "recheck", "setup"} => open = {}

IInv == TypeOK /\ Forking /\ LeaseInv /\ HeardInv /\ LateInv /\ HitInv /\ OpenInv

(* ---- the parts of the type invariant ---- *)

PlaceTypes ==
    /\ pipeline \in Pipelines /\ round \in 1..Len(pipeline)
    /\ pc \in {"install", "admit", "fork", "recheck", "setup", "forward", "latewake", "wait", "read", "take",
               "release", "check", "poll", "join", "stop", "retire", "result", "next", "over", "dead"}
    /\ result \in {"none", "ok", "error", "interrupted"}
    /\ listener \in {"off", "on", "term"} /\ others \in {"running", "waking", "over"}

SignalTypes ==
    /\ signals \in 0..MaxSignals /\ pending \subseteq Signals /\ caught \subseteq Signals
    /\ handling \in Signals \cup {None} /\ queue \subseteq Signals

FlagTypes ==
    /\ fatal \in BOOLEAN /\ signal \in BOOLEAN /\ terminated \in BOOLEAN /\ interrupted \in BOOLEAN
    /\ ownkey \in BOOLEAN /\ lease \in BOOLEAN /\ collected \in BOOLEAN /\ installed \in BOOLEAN
    /\ wakeSet \in BOOLEAN /\ late \in BOOLEAN /\ hit \in BOOLEAN /\ refused \in BOOLEAN /\ byte \in BOOLEAN

ChildTypes ==
    /\ todo \subseteq Children /\ spawning \in Children \cup {None}
    /\ child \in [Children -> {"unborn", "running", "exited", "killed"}]
    /\ heard \subseteq Children /\ held \subseteq Children /\ queued \subseteq Children
    /\ open \subseteq Children /\ waiter \in [Children -> {"off", "waiting", "wake", "done"}]
    /\ sent \subseteq Children /\ outcomes \subseteq Children

LEMMA TypeParts == TypeOK <=> PlaceTypes /\ SignalTypes /\ FlagTypes /\ ChildTypes
<1>1. TypeOK => PlaceTypes /\ SignalTypes
  BY DEF TypeOK, PlaceTypes, SignalTypes
<1>2. TypeOK => FlagTypes
  BY Zenon DEF TypeOK, FlagTypes
<1>3. TypeOK => ChildTypes
  BY DEF TypeOK, ChildTypes
<1>4. PlaceTypes /\ SignalTypes /\ FlagTypes /\ ChildTypes => TypeOK
  BY Zenon DEF TypeOK, PlaceTypes, SignalTypes, FlagTypes, ChildTypes
<1> QED
  BY <1>1, <1>2, <1>3, <1>4

(* ---- the invariant holds at first ---- *)

LEMMA InvInit == Init => IInv
<1> SUFFICES ASSUME Init PROVE IInv
  OBVIOUS
<1> USE ForegroundAssumption DEF Init
<1>1. pipeline \in Seq(Modes) /\ pipeline # <<>>
  OBVIOUS
<1>2. round \in 1..Len(pipeline)
  BY <1>1
<1>3. TypeOK
  <2>1. PlaceTypes /\ SignalTypes
    BY <1>2 DEF PlaceTypes, SignalTypes
  <2>2. FlagTypes
    BY DEF FlagTypes
  <2>3. ChildTypes
    BY DEF ChildTypes
  <2> QED
    BY <2>1, <2>2, <2>3, TypeParts
<1>4. Spawned = {} /\ Running = {}
  BY DEF Spawned, Running
<1> QED
  BY <1>3, <1>4 DEF IInv, Forking, LeaseInv, HeardInv, NoneUnaware, LateInv, NothingAfterCancel, HitInv,
     CancelIsReported, OpenInv

(* ---- types ---- *)

LEMMA PlaceStep == PlaceTypes /\ [Next]_vars => PlaceTypes'
<1> SUFFICES ASSUME PlaceTypes, [Next]_vars PROVE PlaceTypes'
  OBVIOUS
<1> USE ForegroundAssumption DEF PlaceTypes, place, sending, latches, scope, admission, children, drain
<1>1. ASSUME Install PROVE PlaceTypes'
  BY <1>1 DEF Install
<1>2. ASSUME Admit PROVE PlaceTypes'
  BY <1>2 DEF Admit, Refuse
<1>3. ASSUME Fork PROVE PlaceTypes'
  BY <1>3 DEF Fork
<1>4. ASSUME Recheck PROVE PlaceTypes'
  BY <1>4 DEF Recheck, Refuse
<1>5. ASSUME Setup PROVE PlaceTypes'
  BY <1>5 DEF Setup
<1>6. ASSUME Forward PROVE PlaceTypes'
  BY <1>6 DEF Forward
<1>7. ASSUME LateWake PROVE PlaceTypes'
  BY <1>7 DEF LateWake
<1>8. ASSUME WaitChild PROVE PlaceTypes'
  BY <1>8 DEF WaitChild
<1>9. ASSUME ReadByte PROVE PlaceTypes'
  BY <1>9 DEF ReadByte
<1>10. ASSUME TakeOutcomes PROVE PlaceTypes'
  BY <1>10 DEF TakeOutcomes
<1>11. ASSUME Release PROVE PlaceTypes'
  BY <1>11 DEF Release
<1>12. ASSUME Check PROVE PlaceTypes'
  BY <1>12 DEF Check
<1>13. ASSUME Poll PROVE PlaceTypes'
  BY <1>13 DEF Poll
<1>14. ASSUME Join PROVE PlaceTypes'
  BY <1>14 DEF Join
<1>15. ASSUME Stop PROVE PlaceTypes'
  BY <1>15 DEF Stop
<1>16. ASSUME Retire PROVE PlaceTypes'
  BY <1>16 DEF Retire
<1>17. ASSUME Result PROVE PlaceTypes'
  BY <1>17 DEF Result
<1>18. ASSUME NextRound PROVE PlaceTypes'
  <2>1. pipeline \in Seq(Modes) /\ round \in Nat /\ Len(pipeline) \in Nat
    OBVIOUS
  <2>2. round' \in 1..Len(pipeline') /\ pipeline' \in Pipelines
    BY <1>18, <2>1 DEF NextRound, Start
  <2> QED
    BY <1>18, <2>2 DEF NextRound, Start
<1>19. ASSUME End PROVE PlaceTypes'
  BY <1>19 DEF End
<1>20. ASSUME SetupFails PROVE PlaceTypes'
  BY <1>20 DEF SetupFails, KillAll
<1>21. ASSUME LoopFails PROVE PlaceTypes'
  BY <1>21 DEF LoopFails, KillAll
<1>22. ASSUME NEW s \in Signals, Handle(s) PROVE PlaceTypes'
  BY <1>22 DEF Handle
<1>23. ASSUME ListenTerm PROVE PlaceTypes'
  BY <1>23 DEF ListenTerm
<1>24. ASSUME ListenForward PROVE PlaceTypes'
  BY <1>24 DEF ListenForward
<1>25. ASSUME OthersEnd PROVE PlaceTypes'
  BY <1>25 DEF OthersEnd
<1>26. ASSUME OthersCancel PROVE PlaceTypes'
  BY <1>26 DEF OthersCancel
<1>27. ASSUME OthersWake PROVE PlaceTypes'
  BY <1>27 DEF OthersWake
<1>28. ASSUME UNCHANGED <<pipeline, round, pc, result, listener, others>> PROVE PlaceTypes'
  BY <1>28
<1> HIDE DEF PlaceTypes
<1>29. CASE MainStep
  BY <1>29, <1>1, <1>2, <1>3, <1>4, <1>5, <1>6, <1>7, <1>8, <1>9, <1>10, <1>11, <1>12, <1>13,
     <1>14, <1>15, <1>16, <1>17, <1>18, <1>19, <1>28
  DEF MainStep
<1>30. CASE UNCHANGED vars
  BY <1>28, <1>30 DEF vars
<1> QED
  BY <1>29, <1>30, <1>20, <1>21, <1>22, <1>23, <1>24, <1>25, <1>26, <1>27, <1>28
  DEF Next, HandlerStep, ListenerStep, WaiterStep, Notify, ListenInt, Key, Send, Terminate,
     Reap, Wake, ChildExits, Write, DescendantEnds

LEMMA SignalStep == SignalTypes /\ [Next]_vars => SignalTypes'
<1> SUFFICES ASSUME SignalTypes, [Next]_vars PROVE SignalTypes'
  OBVIOUS
<1> USE ForegroundAssumption DEF SignalTypes, Signals, place, sending, latches, scope, admission, children,
      drain
<1>1. ASSUME Stop PROVE SignalTypes'
  BY <1>1 DEF Stop
<1>2. ASSUME NextRound PROVE SignalTypes'
  BY <1>2 DEF NextRound, Start
<1>3. ASSUME Notify PROVE SignalTypes'
  BY <1>3 DEF Notify
<1>4. ASSUME NEW s \in Signals, Handle(s) PROVE SignalTypes'
  BY <1>4 DEF Handle
<1>5. ASSUME ListenInt PROVE SignalTypes'
  BY <1>5 DEF ListenInt
<1>6. ASSUME ListenTerm PROVE SignalTypes'
  BY <1>6 DEF ListenTerm
<1>7. ASSUME Key PROVE SignalTypes'
  BY <1>7 DEF Key, Send
<1>8. ASSUME Terminate PROVE SignalTypes'
  BY <1>8 DEF Terminate, Send
<1>9. ASSUME UNCHANGED <<signals, pending, caught, handling, queue>> PROVE SignalTypes'
  BY <1>9
<1> HIDE DEF SignalTypes
<1>10. CASE MainStep
  BY <1>10, <1>1, <1>2, <1>9
  DEF MainStep, Install, Admit, Fork, Recheck, Setup, Forward, LateWake, WaitChild, ReadByte,
     TakeOutcomes, Release, Check, Poll, Join, Retire, Result, End
<1>11. CASE UNCHANGED vars
  BY <1>9, <1>11 DEF vars
<1> QED
  BY <1>10, <1>11, <1>3, <1>4, <1>5, <1>6, <1>7, <1>8, <1>9
  DEF Next, HandlerStep, ListenerStep, WaiterStep, SetupFails, KillAll, LoopFails,
     ListenForward, OthersEnd, OthersCancel, OthersWake, Reap, Wake, ChildExits, Write,
     DescendantEnds

LEMMA FlagStep == FlagTypes /\ [Next]_vars => FlagTypes'
<1> SUFFICES ASSUME FlagTypes, [Next]_vars PROVE FlagTypes'
  OBVIOUS
<1> USE DEF FlagTypes, place, sending, latches, scope, admission, children, drain
<1>1. ASSUME Install PROVE FlagTypes'
  BY <1>1 DEF Install, Refuses, Seen
<1>2. ASSUME Admit PROVE FlagTypes'
  <2>1. signal' \in BOOLEAN
    BY <1>2 DEF Admit, Refuse
  <2>2. refused' \in BOOLEAN
    BY <1>2 DEF Admit, Refuse
  <2>3. UNCHANGED <<fatal, terminated, interrupted, ownkey, lease, collected, installed, wakeSet, late,
      hit, byte>>
    BY <1>2 DEF Admit
  <2> QED
    BY Zenon, <2>1, <2>2, <2>3 DEF FlagTypes
<1>3. ASSUME Recheck PROVE FlagTypes'
  BY <1>3, ZenonT(60) DEF Recheck, Refuse, Refuses, Seen
<1>4. ASSUME Forward PROVE FlagTypes'
  BY <1>4 DEF Forward
<1>5. ASSUME LateWake PROVE FlagTypes'
  BY <1>5 DEF LateWake
<1>6. ASSUME WaitChild PROVE FlagTypes'
  BY <1>6 DEF WaitChild
<1>7. ASSUME ReadByte PROVE FlagTypes'
  BY <1>7, ZenonT(60) DEF ReadByte
<1>8. ASSUME Release PROVE FlagTypes'
  BY <1>8, ZenonT(60) DEF Release
<1>9. ASSUME Check PROVE FlagTypes'
  BY <1>9 DEF Check, Refuses, Seen
<1>10. ASSUME Retire PROVE FlagTypes'
  BY <1>10, ZenonT(60) DEF Retire
<1>11. ASSUME Result PROVE FlagTypes'
  BY <1>11 DEF Result, Refuses, Seen
<1>12. ASSUME NextRound PROVE FlagTypes'
  BY <1>12 DEF NextRound, Start
<1>13. ASSUME NEW s \in Signals, Handle(s) PROVE FlagTypes'
  <2>1. fatal' \in BOOLEAN /\ hit' \in BOOLEAN
    <3>1. CASE Idle
      BY <1>13, <3>1 DEF Handle
    <3>2. CASE ~Idle
      BY <1>13, <3>2 DEF Handle
    <3> QED
      BY <3>1, <3>2
  <2>2. terminated' \in BOOLEAN /\ interrupted' \in BOOLEAN /\ ownkey' \in BOOLEAN
    BY <1>13 DEF Handle
  <2> QED
    BY <1>13, <2>1, <2>2 DEF Handle
<1>14. ASSUME ListenInt PROVE FlagTypes'
  BY <1>14 DEF ListenInt
<1>15. ASSUME ListenTerm PROVE FlagTypes'
  BY <1>15 DEF ListenTerm
<1>16. ASSUME ListenForward PROVE FlagTypes'
  BY <1>16 DEF ListenForward
<1>17. ASSUME OthersCancel PROVE FlagTypes'
  BY <1>17 DEF OthersCancel
<1>18. ASSUME OthersWake PROVE FlagTypes'
  BY <1>18 DEF OthersWake
<1>19. ASSUME NEW c \in Children, Reap(c) PROVE FlagTypes'
  BY <1>19 DEF Reap
<1>20. ASSUME NEW c \in Children, Wake(c) PROVE FlagTypes'
  BY <1>20 DEF Wake
<1>21. ASSUME UNCHANGED <<fatal, signal, terminated, interrupted, ownkey, lease, collected, installed,
      wakeSet, late, hit, refused, byte>> PROVE FlagTypes'
  BY <1>21
<1> HIDE DEF FlagTypes
<1>22. CASE MainStep
  BY <1>22, <1>1, <1>2, <1>3, <1>4, <1>5, <1>6, <1>7, <1>8, <1>9, <1>10, <1>11, <1>12, <1>21
  DEF MainStep, Fork, Setup, TakeOutcomes, Poll, Join, Stop, End
<1>23. CASE UNCHANGED vars
  BY <1>21, <1>23 DEF vars
<1> QED
  BY <1>22, <1>23, <1>13, <1>14, <1>15, <1>16, <1>17, <1>18, <1>19, <1>20, <1>21
  DEF Next, HandlerStep, ListenerStep, WaiterStep, SetupFails, KillAll, LoopFails, Notify,
     OthersEnd, Key, Send, Terminate, ChildExits, Write, DescendantEnds

LEMMA ChildStep == ChildTypes /\ Forking /\ [Next]_vars => ChildTypes'
<1> SUFFICES ASSUME ChildTypes, Forking, [Next]_vars PROVE ChildTypes'
  OBVIOUS
<1> USE ForegroundAssumption DEF ChildTypes, Running, Spawned, Forking, place, sending, latches, scope,
      admission, children, drain
<1>1. ASSUME Install PROVE ChildTypes'
  BY <1>1 DEF Install
<1>2. ASSUME Admit PROVE ChildTypes'
  <2>1. CASE todo = {}
    BY <1>2, <2>1 DEF Admit
  <2>2. CASE todo # {} /\ Refuses /\ Refuse
    BY <1>2, <2>2 DEF Admit, Refuse
  <2>3. CASE todo # {} /\ ~(Refuses /\ Refuse)
    <3>1. PICK c : /\ c = IF First \in todo THEN First ELSE CHOOSE d \in todo : TRUE
                   /\ spawning' = c /\ todo' = todo \ {c}
      BY <1>2, <2>3 DEF Admit
    <3>2. c \in Children
      BY <2>3, <3>1
    <3> QED
      BY <1>2, <3>1, <3>2 DEF Admit
  <2> QED
    BY <2>1, <2>2, <2>3
<1>3. ASSUME Fork PROVE ChildTypes'
  BY <1>3 DEF Fork
<1>4. ASSUME Recheck PROVE ChildTypes'
  BY <1>4 DEF Recheck, Refuse
<1>5. ASSUME Setup PROVE ChildTypes'
  BY <1>5 DEF Setup
<1>6. ASSUME LateWake PROVE ChildTypes'
  BY <1>6 DEF LateWake
<1>7. ASSUME TakeOutcomes PROVE ChildTypes'
  BY <1>7 DEF TakeOutcomes
<1>8. ASSUME Check PROVE ChildTypes'
  BY <1>8 DEF Check
<1>9. ASSUME Poll PROVE ChildTypes'
  BY <1>9 DEF Poll
<1>10. ASSUME NextRound PROVE ChildTypes'
  BY <1>10 DEF NextRound, Start
<1>11. ASSUME SetupFails PROVE ChildTypes'
  BY <1>11 DEF SetupFails, KillAll
<1>12. ASSUME LoopFails PROVE ChildTypes'
  BY <1>12 DEF LoopFails, KillAll
<1>13. ASSUME ListenForward PROVE ChildTypes'
  BY <1>13 DEF ListenForward
<1>14. ASSUME Key PROVE ChildTypes'
  BY <1>14 DEF Key, Send
<1>15. ASSUME Terminate PROVE ChildTypes'
  BY <1>15 DEF Terminate, Send
<1>16. ASSUME NEW c \in Children, Reap(c) PROVE ChildTypes'
  BY <1>16 DEF Reap
<1>17. ASSUME NEW c \in Children, Wake(c) PROVE ChildTypes'
  BY <1>17 DEF Wake
<1>18. ASSUME NEW c \in Children, ChildExits(c) PROVE ChildTypes'
  BY <1>18 DEF ChildExits
<1>19. ASSUME NEW c \in Children, Write(c) PROVE ChildTypes'
  BY <1>19 DEF Write
<1>20. ASSUME NEW c \in Children, DescendantEnds(c) PROVE ChildTypes'
  BY <1>20 DEF DescendantEnds
<1>21. ASSUME UNCHANGED <<todo, spawning, child, heard, held, queued, open, waiter, sent,
      outcomes>> PROVE ChildTypes'
  BY <1>21
<1> HIDE DEF ChildTypes
<1>22. CASE MainStep
  BY <1>22, <1>1, <1>2, <1>3, <1>4, <1>5, <1>6, <1>7, <1>8, <1>9, <1>10, <1>21
  DEF MainStep, Forward, WaitChild, ReadByte, Release, Join, Stop, Retire, Result, End
<1>23. CASE UNCHANGED vars
  BY <1>21, <1>23 DEF vars
<1> QED
  BY <1>22, <1>23, <1>11, <1>12, <1>13, <1>14, <1>15, <1>16, <1>17, <1>18, <1>19, <1>20, <1>21
  DEF Next, HandlerStep, ListenerStep, WaiterStep, Notify, Handle, ListenInt, ListenTerm,
     OthersEnd, OthersCancel, OthersWake

LEMMA TypeStep == TypeOK /\ Forking /\ [Next]_vars => TypeOK'
<1> SUFFICES ASSUME TypeOK, Forking, [Next]_vars PROVE TypeOK'
  OBVIOUS
<1>1. PlaceTypes' /\ SignalTypes' /\ FlagTypes' /\ ChildTypes'
  BY TypeParts, PlaceStep, SignalStep, FlagStep, ChildStep
<1> QED
  BY <1>1, TypeParts, PTL

LEMMA ForkingStep == TypeOK /\ Forking /\ [Next]_vars => Forking'
<1> SUFFICES ASSUME TypeOK, Forking, [Next]_vars PROVE Forking'
  OBVIOUS
<1> USE DEF Forking, TypeOK, place, sending, latches, scope, admission, children, drain
<1>1. ASSUME Install PROVE Forking'
  BY <1>1 DEF Install
<1>2. ASSUME Admit PROVE Forking'
  <2>1. CASE todo # {} /\ pc' = "fork"
    <3>1. spawning' = IF First \in todo THEN First ELSE CHOOSE d \in todo : TRUE
      BY <1>2, <2>1 DEF Admit, Refuse
    <3> QED
      BY <1>2, <2>1, <3>1 DEF Admit
  <2>2. CASE pc' # "fork"
    BY <1>2, <2>2 DEF Admit, Refuse
  <2> QED
    BY <1>2, <2>1, <2>2 DEF Admit
<1>3. ASSUME Fork PROVE Forking'
  BY <1>3 DEF Fork
<1>4. ASSUME Recheck PROVE Forking'
  BY <1>4 DEF Recheck, Refuse
<1>5. ASSUME Setup PROVE Forking'
  BY <1>5 DEF Setup
<1>6. ASSUME Forward PROVE Forking'
  BY <1>6 DEF Forward
<1>7. ASSUME LateWake PROVE Forking'
  BY <1>7 DEF LateWake
<1>8. ASSUME WaitChild PROVE Forking'
  BY <1>8 DEF WaitChild
<1>9. ASSUME ReadByte PROVE Forking'
  BY <1>9 DEF ReadByte
<1>10. ASSUME TakeOutcomes PROVE Forking'
  BY <1>10 DEF TakeOutcomes
<1>11. ASSUME Release PROVE Forking'
  BY <1>11 DEF Release
<1>12. ASSUME Check PROVE Forking'
  BY <1>12 DEF Check
<1>13. ASSUME Poll PROVE Forking'
  BY <1>13 DEF Poll
<1>14. ASSUME Join PROVE Forking'
  BY <1>14 DEF Join
<1>15. ASSUME Stop PROVE Forking'
  BY <1>15 DEF Stop
<1>16. ASSUME Retire PROVE Forking'
  BY <1>16 DEF Retire
<1>17. ASSUME Result PROVE Forking'
  BY <1>17 DEF Result
<1>18. ASSUME NextRound PROVE Forking'
  BY <1>18 DEF NextRound, Start
<1>19. ASSUME End PROVE Forking'
  BY <1>19 DEF End
<1>20. ASSUME SetupFails PROVE Forking'
  BY <1>20 DEF SetupFails, KillAll
<1>21. ASSUME LoopFails PROVE Forking'
  BY <1>21 DEF LoopFails, KillAll
<1>22. ASSUME NEW s \in Signals, Handle(s) PROVE Forking'
  BY <1>22 DEF Handle
<1>23. ASSUME UNCHANGED <<pc, spawning, lease>> PROVE Forking'
  BY <1>23
<1> HIDE DEF Forking
<1>24. CASE MainStep
  BY <1>24, <1>1, <1>2, <1>3, <1>4, <1>5, <1>6, <1>7, <1>8, <1>9, <1>10, <1>11, <1>12, <1>13,
     <1>14, <1>15, <1>16, <1>17, <1>18, <1>19, <1>23
  DEF MainStep
<1>25. CASE UNCHANGED vars
  BY <1>23, <1>25 DEF vars
<1> QED
  BY <1>24, <1>25, <1>20, <1>21, <1>22, <1>23
  DEF Next, HandlerStep, ListenerStep, WaiterStep, Notify, ListenInt, ListenTerm, ListenForward,
     OthersEnd, OthersCancel, OthersWake, Key, Send, Terminate, Reap, Wake, ChildExits, Write,
     DescendantEnds

LEMMA LeaseStep == LeaseInv /\ [Next]_vars => LeaseInv'
<1> SUFFICES ASSUME LeaseInv, [Next]_vars PROVE LeaseInv'
  OBVIOUS
<1> USE DEF LeaseInv, Idle, OwnerFree, place, sending, latches, scope, admission, children, drain
<1>1. ASSUME Install PROVE LeaseInv'
  BY <1>1 DEF Install
<1>2. ASSUME Release PROVE LeaseInv'
  BY <1>2 DEF Release
<1>3. ASSUME Retire PROVE LeaseInv'
  BY <1>3 DEF Retire
<1>4. ASSUME NextRound PROVE LeaseInv'
  BY <1>4 DEF NextRound, Start
<1>5. ASSUME NEW s \in Signals, Handle(s) PROVE LeaseInv'
  BY <1>5 DEF Handle
<1>6. ASSUME OthersEnd PROVE LeaseInv'
  BY <1>6 DEF OthersEnd
<1>7. ASSUME OthersCancel PROVE LeaseInv'
  BY <1>7 DEF OthersCancel
<1>8. ASSUME OthersWake PROVE LeaseInv'
  BY <1>8 DEF OthersWake
<1>9. ASSUME Key PROVE LeaseInv'
  BY <1>9 DEF Key, Send
<1>10. ASSUME Terminate PROVE LeaseInv'
  BY <1>10 DEF Terminate, Send
<1>11. ASSUME UNCHANGED <<pending, caught, fatal, lease, others>> PROVE LeaseInv'
  BY <1>11
<1> HIDE DEF LeaseInv
<1>12. CASE MainStep
  BY <1>12, <1>1, <1>2, <1>3, <1>4, <1>11
  DEF MainStep, Admit, Fork, Recheck, Setup, Forward, LateWake, WaitChild, ReadByte,
     TakeOutcomes, Check, Poll, Join, Stop, Result, End
<1>13. CASE UNCHANGED vars
  BY <1>11, <1>13 DEF vars
<1> QED
  BY <1>12, <1>13, <1>5, <1>6, <1>7, <1>8, <1>9, <1>10, <1>11
  DEF Next, HandlerStep, ListenerStep, WaiterStep, SetupFails, KillAll, LoopFails, Notify,
     ListenInt, ListenTerm, ListenForward, Reap, Wake, ChildExits, Write, DescendantEnds

LEMMA HeardStep == TypeOK /\ Forking /\ HeardInv /\ [Next]_vars => HeardInv'
<1> SUFFICES ASSUME TypeOK, Forking, HeardInv, [Next]_vars PROVE HeardInv'
  OBVIOUS
<1> USE ForegroundAssumption DEF HeardInv, NoneUnaware, Running, Cancels, Mode, TypeOK, Forking, Idle,
      OwnerFree, place, sending, latches, scope, admission, children, drain
<1>1. ASSUME Install PROVE HeardInv'
  BY <1>1 DEF Install
<1>2. ASSUME Admit PROVE HeardInv'
  BY <1>2 DEF Admit, Refuse
<1>3. ASSUME Fork PROVE HeardInv'
  <2>1. UNCHANGED <<pipeline, round, pending, handling, interrupted, ownkey, heard,
      spawning>> /\ pc' = "recheck"
    BY <1>3 DEF Fork
  <2>2. pending = {} /\ handling = None /\ None # "INT"
    BY <1>3 DEF Fork, Signals
  <2>3. \A c \in Children : child'[c] = "running" => child[c] = "running" \/ c = spawning
    BY <1>3 DEF Fork
  <2>4. \A c \in Children : child[c] = "running" => ~(IF Cancels THEN interrupted ELSE ownkey) \/ c \in heard
    BY <1>3 DEF Fork
  <2> QED
    BY <2>1, <2>2, <2>3, <2>4
<1>4. ASSUME Recheck PROVE HeardInv'
  <2>1. UNCHANGED <<pipeline, round, pending, handling, child, interrupted, ownkey>> /\ heard \subseteq heard'
    BY <1>4 DEF Recheck, Refuse
  <2>2. (IF Cancels THEN interrupted ELSE ownkey) => (child[spawning] = "running" => spawning \in heard')
    BY <1>4 DEF Recheck, Refuse, Refuses
  <2> QED
    BY <2>1, <2>2
<1>5. ASSUME Setup PROVE HeardInv'
  BY <1>5 DEF Setup
<1>6. ASSUME Forward PROVE HeardInv'
  BY <1>6 DEF Forward
<1>7. ASSUME LateWake PROVE HeardInv'
  BY <1>7 DEF LateWake
<1>8. ASSUME WaitChild PROVE HeardInv'
  BY <1>8 DEF WaitChild
<1>9. ASSUME ReadByte PROVE HeardInv'
  BY <1>9 DEF ReadByte
<1>10. ASSUME TakeOutcomes PROVE HeardInv'
  BY <1>10 DEF TakeOutcomes
<1>11. ASSUME Release PROVE HeardInv'
  BY <1>11 DEF Release
<1>12. ASSUME Check PROVE HeardInv'
  BY <1>12 DEF Check
<1>13. ASSUME Poll PROVE HeardInv'
  BY <1>13 DEF Poll
<1>14. ASSUME Join PROVE HeardInv'
  BY <1>14 DEF Join
<1>15. ASSUME Stop PROVE HeardInv'
  BY <1>15 DEF Stop
<1>16. ASSUME Retire PROVE HeardInv'
  BY <1>16 DEF Retire
<1>17. ASSUME Result PROVE HeardInv'
  BY <1>17 DEF Result
<1>18. ASSUME NextRound PROVE HeardInv'
  BY <1>18 DEF NextRound, Start
<1>19. ASSUME End PROVE HeardInv'
  BY <1>19 DEF End
<1>20. ASSUME SetupFails PROVE HeardInv'
  BY <1>20 DEF SetupFails, KillAll
<1>21. ASSUME LoopFails PROVE HeardInv'
  BY <1>21 DEF LoopFails, KillAll
<1>22. ASSUME Notify PROVE HeardInv'
  <2>1. UNCHANGED <<pipeline, round, pc, pending, interrupted, ownkey, child, heard,
      spawning>> /\ handling' = None
    BY <1>22 DEF Notify
  <2>2. None # "INT"
    BY DEF Signals
  <2> QED
    BY <2>1, <2>2
<1>23. ASSUME NEW s \in Signals, Handle(s) PROVE HeardInv'
  <2>1. UNCHANGED <<pipeline, round, child, heard, spawning>>
    BY <1>23 DEF Handle
  <2>2. CASE Idle
    BY <1>23, <2>1, <2>2 DEF Handle
  <2>3. CASE ~Idle /\ s = "INT"
    BY <1>23, <2>1, <2>3 DEF Handle
  <2>4. CASE ~Idle /\ s # "INT"
    BY <1>23, <2>1, <2>4 DEF Handle
  <2> QED
    BY <2>2, <2>3, <2>4
<1>24. ASSUME ListenForward PROVE HeardInv'
  BY <1>24 DEF ListenForward
<1>25. ASSUME Key PROVE HeardInv'
  BY <1>25 DEF Key, Send
<1>26. ASSUME Terminate PROVE HeardInv'
  BY <1>26 DEF Terminate, Send
<1>27. ASSUME NEW c \in Children, ChildExits(c) PROVE HeardInv'
  BY <1>27 DEF ChildExits
<1>28. ASSUME UNCHANGED <<pipeline, round, pc, pending, handling, interrupted, ownkey, child, heard,
      spawning>> PROVE HeardInv'
  BY <1>28
<1> HIDE DEF HeardInv
<1>29. CASE MainStep
  BY <1>29, <1>1, <1>2, <1>3, <1>4, <1>5, <1>6, <1>7, <1>8, <1>9, <1>10, <1>11, <1>12, <1>13,
     <1>14, <1>15, <1>16, <1>17, <1>18, <1>19, <1>28
  DEF MainStep
<1>30. CASE UNCHANGED vars
  BY <1>28, <1>30 DEF vars
<1> QED
  BY <1>29, <1>30, <1>20, <1>21, <1>22, <1>23, <1>24, <1>25, <1>26, <1>27, <1>28
  DEF Next, HandlerStep, ListenerStep, WaiterStep, ListenInt, ListenTerm, OthersEnd,
     OthersCancel, OthersWake, Reap, Wake, Write, DescendantEnds

LEMMA LateStep == FlagTypes /\ Forking /\ LateInv /\ [Next]_vars => LateInv'
<1> SUFFICES ASSUME FlagTypes, Forking, LateInv, [Next]_vars PROVE LateInv'
  OBVIOUS
<1> USE DEF LateInv, NothingAfterCancel, Spawned, Refuses, Cancels, Mode, place, sending, latches, scope,
      admission, children, drain
<1>1. ASSUME Install PROVE LateInv'
  BY <1>1 DEF Install
<1>2. ASSUME Admit PROVE LateInv'
  BY <1>2 DEF Admit, Refuse
<1>3. ASSUME Fork PROVE LateInv'
  BY <1>3 DEF Fork
<1>4. ASSUME Recheck PROVE LateInv'
  BY <1>4 DEF Recheck, Refuse
<1>5. ASSUME Setup PROVE LateInv'
  BY <1>5 DEF Setup
<1>6. ASSUME Forward PROVE LateInv'
  BY <1>6 DEF Forward
<1>7. ASSUME LateWake PROVE LateInv'
  BY <1>7 DEF LateWake
<1>8. ASSUME WaitChild PROVE LateInv'
  BY <1>8 DEF WaitChild
<1>9. ASSUME ReadByte PROVE LateInv'
  BY <1>9 DEF ReadByte
<1>10. ASSUME TakeOutcomes PROVE LateInv'
  BY <1>10 DEF TakeOutcomes
<1>11. ASSUME Release PROVE LateInv'
  BY <1>11 DEF Release
<1>12. ASSUME Check PROVE LateInv'
  BY <1>12 DEF Check
<1>13. ASSUME Poll PROVE LateInv'
  BY <1>13 DEF Poll
<1>14. ASSUME Join PROVE LateInv'
  BY <1>14 DEF Join
<1>15. ASSUME Stop PROVE LateInv'
  BY <1>15 DEF Stop
<1>16. ASSUME Retire PROVE LateInv'
  BY <1>16 DEF Retire
<1>17. ASSUME Result PROVE LateInv'
  BY <1>17 DEF Result
<1>18. ASSUME NextRound PROVE LateInv'
  BY <1>18 DEF NextRound, Start
<1>19. ASSUME End PROVE LateInv'
  BY <1>19 DEF End
<1>20. ASSUME SetupFails PROVE LateInv'
  BY <1>20 DEF SetupFails, KillAll
<1>21. ASSUME LoopFails PROVE LateInv'
  BY <1>21 DEF LoopFails, KillAll
<1>22. ASSUME NEW s \in Signals, Handle(s) PROVE LateInv'
  BY <1>22 DEF Handle
<1>23. ASSUME ListenTerm PROVE LateInv'
  BY <1>23 DEF ListenTerm
<1>24. ASSUME OthersCancel PROVE LateInv'
  BY <1>24 DEF OthersCancel
<1>25. ASSUME NEW c \in Children, Reap(c) PROVE LateInv'
  BY <1>25 DEF Reap
<1>26. ASSUME NEW c \in Children, ChildExits(c) PROVE LateInv'
  BY <1>26 DEF ChildExits
<1>27. ASSUME UNCHANGED <<pipeline, round, pc, late, signal, terminated, interrupted, ownkey,
      child>> PROVE LateInv'
  BY <1>27
<1> HIDE DEF LateInv
<1>28. CASE MainStep
  BY <1>28, <1>1, <1>2, <1>3, <1>4, <1>5, <1>6, <1>7, <1>8, <1>9, <1>10, <1>11, <1>12, <1>13,
     <1>14, <1>15, <1>16, <1>17, <1>18, <1>19, <1>27
  DEF MainStep
<1>29. CASE UNCHANGED vars
  BY <1>27, <1>29 DEF vars
<1> QED
  BY <1>28, <1>29, <1>20, <1>21, <1>22, <1>23, <1>24, <1>25, <1>26, <1>27
  DEF Next, HandlerStep, ListenerStep, WaiterStep, Notify, ListenInt, ListenForward, OthersEnd,
     OthersWake, Key, Send, Terminate, Wake, Write, DescendantEnds

LEMMA HitStep == TypeOK /\ HitInv /\ [Next]_vars => HitInv'
<1> SUFFICES ASSUME TypeOK, HitInv, [Next]_vars PROVE HitInv'
  OBVIOUS
<1> USE DEF HitInv, CancelIsReported, Seen, Cancels, Mode, place, sending, latches, scope, admission,
      children, drain
<1>1. ASSUME Install PROVE HitInv'
  BY <1>1 DEF Install
<1>2. ASSUME Admit PROVE HitInv'
  BY <1>2 DEF Admit, Refuse
<1>3. ASSUME Fork PROVE HitInv'
  BY <1>3 DEF Fork
<1>4. ASSUME Recheck PROVE HitInv'
  BY <1>4 DEF Recheck, Refuse
<1>5. ASSUME Setup PROVE HitInv'
  BY <1>5 DEF Setup
<1>6. ASSUME Forward PROVE HitInv'
  BY <1>6 DEF Forward
<1>7. ASSUME LateWake PROVE HitInv'
  BY <1>7 DEF LateWake
<1>8. ASSUME WaitChild PROVE HitInv'
  BY <1>8 DEF WaitChild
<1>9. ASSUME ReadByte PROVE HitInv'
  BY <1>9 DEF ReadByte
<1>10. ASSUME TakeOutcomes PROVE HitInv'
  BY <1>10 DEF TakeOutcomes
<1>11. ASSUME Release PROVE HitInv'
  BY <1>11 DEF Release
<1>12. ASSUME Check PROVE HitInv'
  BY <1>12 DEF Check
<1>13. ASSUME Poll PROVE HitInv'
  BY <1>13 DEF Poll
<1>14. ASSUME Join PROVE HitInv'
  BY <1>14 DEF Join
<1>15. ASSUME Stop PROVE HitInv'
  BY <1>15 DEF Stop
<1>16. ASSUME Retire PROVE HitInv'
  BY <1>16 DEF Retire
<1>17. ASSUME Result PROVE HitInv'
  BY <1>17 DEF Result
<1>18. ASSUME NextRound PROVE HitInv'
  BY <1>18 DEF NextRound, Start
<1>19. ASSUME End PROVE HitInv'
  BY <1>19 DEF End
<1>20. ASSUME SetupFails PROVE HitInv'
  BY <1>20 DEF SetupFails, KillAll
<1>21. ASSUME LoopFails PROVE HitInv'
  BY <1>21 DEF LoopFails, KillAll
<1>22. ASSUME NEW s \in Signals, Handle(s) PROVE HitInv'
  <2>1. UNCHANGED <<pipeline, round, result, installed, signal>> /\ pc' \in {pc, "dead"}
    BY <1>22 DEF Handle
  <2>2. CASE Idle
    BY <1>22, <2>1, <2>2 DEF Handle
  <2>3. CASE ~Idle
    <3>1. (terminated => terminated') /\ (interrupted => interrupted') /\ pc' = pc
      BY <1>22, <2>3 DEF Handle
    <3>2. hit' => hit \/ (installed /\ (s = "TERM" \/ Cancels))
      BY <1>22, <2>3 DEF Handle
    <3>3. s = "TERM" => terminated'
      BY <1>22, <2>3 DEF Handle
    <3>4. s = "INT" /\ installed /\ Cancels => interrupted'
      BY <1>22, <2>3 DEF Handle
    <3> QED
      BY <2>1, <3>1, <3>2, <3>3, <3>4 DEF Signals
  <2> QED
    BY <2>2, <2>3
<1>23. ASSUME ListenTerm PROVE HitInv'
  BY <1>23 DEF ListenTerm
<1>24. ASSUME OthersCancel PROVE HitInv'
  BY <1>24 DEF OthersCancel
<1>25. ASSUME NEW c \in Children, Reap(c) PROVE HitInv'
  BY <1>25 DEF Reap
<1>26. ASSUME UNCHANGED <<pipeline, round, pc, result, hit, installed, signal, terminated,
      interrupted>> PROVE HitInv'
  BY <1>26
<1> HIDE DEF HitInv
<1>27. CASE MainStep
  BY <1>27, <1>1, <1>2, <1>3, <1>4, <1>5, <1>6, <1>7, <1>8, <1>9, <1>10, <1>11, <1>12, <1>13,
     <1>14, <1>15, <1>16, <1>17, <1>18, <1>19, <1>26
  DEF MainStep
<1>28. CASE UNCHANGED vars
  BY <1>26, <1>28 DEF vars
<1> QED
  BY <1>27, <1>28, <1>20, <1>21, <1>22, <1>23, <1>24, <1>25, <1>26
  DEF Next, HandlerStep, ListenerStep, WaiterStep, Notify, ListenInt, ListenForward, OthersEnd,
     OthersWake, Key, Send, Terminate, Wake, ChildExits, Write, DescendantEnds

LEMMA OpenStep == OpenInv /\ [Next]_vars => OpenInv'
<1> SUFFICES ASSUME OpenInv, [Next]_vars PROVE OpenInv'
  OBVIOUS
<1> USE DEF OpenInv, place, sending, latches, scope, admission, children, drain
<1>1. ASSUME Install PROVE OpenInv'
  BY <1>1 DEF Install
<1>2. ASSUME Admit PROVE OpenInv'
  BY <1>2 DEF Admit, Refuse
<1>3. ASSUME Fork PROVE OpenInv'
  BY <1>3 DEF Fork
<1>4. ASSUME Recheck PROVE OpenInv'
  BY <1>4 DEF Recheck, Refuse
<1>5. ASSUME Setup PROVE OpenInv'
  BY <1>5 DEF Setup
<1>6. ASSUME Forward PROVE OpenInv'
  BY <1>6 DEF Forward
<1>7. ASSUME LateWake PROVE OpenInv'
  BY <1>7 DEF LateWake
<1>8. ASSUME WaitChild PROVE OpenInv'
  BY <1>8 DEF WaitChild
<1>9. ASSUME ReadByte PROVE OpenInv'
  BY <1>9 DEF ReadByte
<1>10. ASSUME TakeOutcomes PROVE OpenInv'
  BY <1>10 DEF TakeOutcomes
<1>11. ASSUME Release PROVE OpenInv'
  BY <1>11 DEF Release
<1>12. ASSUME Check PROVE OpenInv'
  BY <1>12 DEF Check
<1>13. ASSUME Poll PROVE OpenInv'
  BY <1>13 DEF Poll
<1>14. ASSUME Join PROVE OpenInv'
  BY <1>14 DEF Join
<1>15. ASSUME Stop PROVE OpenInv'
  BY <1>15 DEF Stop
<1>16. ASSUME Retire PROVE OpenInv'
  BY <1>16 DEF Retire
<1>17. ASSUME Result PROVE OpenInv'
  BY <1>17 DEF Result
<1>18. ASSUME NextRound PROVE OpenInv'
  BY <1>18 DEF NextRound, Start
<1>19. ASSUME End PROVE OpenInv'
  BY <1>19 DEF End
<1>20. ASSUME SetupFails PROVE OpenInv'
  BY <1>20 DEF SetupFails, KillAll
<1>21. ASSUME LoopFails PROVE OpenInv'
  BY <1>21 DEF LoopFails, KillAll
<1>22. ASSUME NEW s \in Signals, Handle(s) PROVE OpenInv'
  BY <1>22 DEF Handle
<1>23. ASSUME UNCHANGED <<pc, open>> PROVE OpenInv'
  BY <1>23
<1> HIDE DEF OpenInv
<1>24. CASE MainStep
  BY <1>24, <1>1, <1>2, <1>3, <1>4, <1>5, <1>6, <1>7, <1>8, <1>9, <1>10, <1>11, <1>12, <1>13,
     <1>14, <1>15, <1>16, <1>17, <1>18, <1>19, <1>23
  DEF MainStep
<1>25. CASE UNCHANGED vars
  BY <1>23, <1>25 DEF vars
<1> QED
  BY <1>24, <1>25, <1>20, <1>21, <1>22, <1>23
  DEF Next, HandlerStep, ListenerStep, WaiterStep, Notify, ListenInt, ListenTerm, ListenForward,
     OthersEnd, OthersCancel, OthersWake, Key, Send, Terminate, Reap, Wake, ChildExits, Write,
     DescendantEnds

(* ---- the invariant, and what follows from it ---- *)

LEMMA Invariance == Spec => []IInv
<1>1. IInv /\ [Next]_vars => IInv'
  <2> SUFFICES ASSUME IInv, [Next]_vars PROVE IInv'
    OBVIOUS
  <2> USE DEF IInv
  <2>1. FlagTypes
    BY TypeParts
  <2>2. TypeOK' /\ Forking' /\ LeaseInv'
    BY TypeStep, ForkingStep, LeaseStep
  <2>3. HeardInv' /\ LateInv' /\ HitInv' /\ OpenInv'
    BY <2>1, HeardStep, LateStep, HitStep, OpenStep
  <2> QED
    BY <2>2, <2>3
<1> QED
  BY InvInit, <1>1, PTL DEF Spec

\* Every state has the types that the variables are declared with.
THEOREM TypeCorrect == Spec => []TypeOK
<1>1. IInv => TypeOK
  BY DEF IInv
<1> QED
  BY Invariance, <1>1, PTL

\* Once a Ctrl-C is latched every child that runs has heard of it, whatever the order of the key, the
\* fork, the second look and the handler (Admission::spawn).
THEOREM NobodyUnaware == Spec => []NoneUnaware
<1>1. IInv => NoneUnaware
  BY DEF IInv, HeardInv
<1> QED
  BY Invariance, <1>1, PTL

\* A round that begins after a cancellation starts no child (CommandOperation shares its latch).
THEOREM CancelledStartsNothing == Spec => []NothingAfterCancel
<1>1. IInv => NothingAfterCancel
  BY DEF IInv, LateInv
<1> QED
  BY Invariance, <1>1, PTL

\* A signal that was sent under a lease does not kill wt when it is handled late (Lease::drop).
THEOREM LeaseShields == Spec => []CaughtIsNotFatal
<1>1. IInv => CaughtIsNotFatal
  BY DEF IInv, LeaseInv, CaughtIsNotFatal
<1> QED
  BY Invariance, <1>1, PTL

\* A signal handled during a round shows in its result, unless the round failed (ActiveForwarder::stop).
THEOREM NoCancellationMissed == Spec => []CancelIsReported
<1>1. IInv => CancelIsReported
  BY DEF IInv, HitInv
<1> QED
  BY Invariance, <1>1, PTL

\* A pipe is let go only with nothing of the child left in it, unless the loop failed (finish_children).
THEOREM OutputSurvivesDrain == Spec => OutputIsShown
<1> DEFINE Shown == \A c \in Children : c \in open \ open' /\ result' # "error" => c \notin queued'
<1>1. IInv /\ [Next]_vars => [Shown]_vars
  <2> SUFFICES ASSUME OpenInv, Next PROVE Shown
    BY DEF IInv
  <2> USE DEF OpenInv, place, sending, latches, scope, admission, children, drain
  <2>1. CASE Setup
    BY <2>1 DEF Setup
  <2>2. CASE Check
    BY <2>2 DEF Check
  <2>3. CASE Poll
    BY <2>3 DEF Poll
  <2>4. CASE LoopFails
    BY <2>4 DEF LoopFails, KillAll
  <2>5. CASE NextRound
    BY <2>5 DEF NextRound, Start
  <2>6. CASE UNCHANGED open
    BY <2>6
  <2> HIDE DEF Shown
  <2>7. CASE MainStep
    BY <2>1, <2>2, <2>3, <2>5, <2>6, <2>7
    DEF MainStep, Install, Admit, Fork, Recheck, Forward, LateWake, WaitChild, ReadByte,
       TakeOutcomes, Release, Join, Stop, Retire, Result, End
  <2> QED
    BY <2>4, <2>6, <2>7
    DEF Next, HandlerStep, ListenerStep, WaiterStep, SetupFails, KillAll, Notify, Handle,
       ListenInt, ListenTerm, ListenForward, OthersEnd, OthersCancel, OthersWake, Key, Send,
       Terminate, Reap, Wake, ChildExits, Write, DescendantEnds
<1> QED
  BY Invariance, <1>1, PTL DEF OutputIsShown, Spec
================================================================================
