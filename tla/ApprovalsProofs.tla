-------------------------- MODULE ApprovalsProofs ---------------------------
(***************************************************************************)
(* Approvals for any number of processes, projects, keys and commands: the *)
(* type invariant; the approvals in force are those the user gave and did  *)
(* not take back; what runs was consented to; and wt's writers of          *)
(* config.toml do not undo each other.                                     *)
(***************************************************************************)
EXTENDS Approvals, TLAPS

-----------------------------------------------------------------------------
(* Types *)

LEMMA NormalType == \A C \in SUBSET Commands : Normal(C) \subseteq Commands
BY ApprovalsAssumption DEF Normal

LEMMA FirstLabel == \A j : First(j) \in {"select", "preview", "lockConfig", "look"}
BY DEF First

PcType == pc \in [Procs -> Labels]

LEMMA PcStep == PcType /\ [Next]_vars => PcType'
<1> SUFFICES ASSUME PcType, [Next]_vars PROVE PcType'
  OBVIOUS
<1> USE DEF PcType, Labels, Goto, Step, Unlock, Conclude
<1>1. ASSUME NEW p \in Procs, Select(p) PROVE PcType'
  BY <1>1 DEF Select
<1>2. ASSUME NEW p \in Procs, Execute(p) PROVE PcType'
  BY <1>2 DEF Execute
<1>3. ASSUME NEW p \in Procs, Look(p) PROVE PcType'
  BY <1>3 DEF Look
<1>4. ASSUME NEW p \in Procs, Read(p) PROVE PcType'
  BY <1>4 DEF Read
<1>5. ASSUME NEW p \in Procs, Gate(p) PROVE PcType'
  BY <1>5 DEF Gate
<1>6. ASSUME NEW p \in Procs, Filter(p) PROVE PcType'
  BY <1>6 DEF Filter
<1>7. ASSUME NEW p \in Procs, Review(p) PROVE PcType'
  BY <1>7 DEF Review
<1>8. ASSUME NEW p \in Procs, Accept(p) PROVE PcType'
  BY <1>8 DEF Accept
<1>9. ASSUME NEW p \in Procs, Decline(p) PROVE PcType'
  BY <1>9 DEF Decline
<1>10. ASSUME NEW p \in Procs, Count(p) PROVE PcType'
  BY <1>10 DEF Count
<1>11. ASSUME NEW p \in Procs, ReadTemplates(p) PROVE PcType'
  BY <1>11 DEF ReadTemplates
<1>12. ASSUME NEW p \in Procs, Lock(p) PROVE PcType'
  BY <1>12 DEF Lock
<1>13. ASSUME NEW p \in Procs, Approve(p) PROVE PcType'
  BY <1>13 DEF Approve
<1>14. ASSUME NEW p \in Procs, Revoke(p) PROVE PcType'
  BY <1>14 DEF Revoke
<1>15. ASSUME NEW p \in Procs, RevokeStale(p) PROVE PcType'
  BY <1>15 DEF RevokeStale
<1>16. ASSUME NEW p \in Procs, SaveFails(p) PROVE PcType'
  BY <1>16 DEF SaveFails
<1>17. ASSUME NEW p \in Procs, LockConfig(p) PROVE PcType'
  BY <1>17 DEF LockConfig
<1>18. ASSUME NEW p \in Procs, SaveConfig(p) PROVE PcType'
  BY <1>18 DEF SaveConfig
<1>19. ASSUME NEW p \in Procs, Preview(p) PROVE PcType'
  BY <1>19 DEF Preview
<1>20. ASSUME NEW p \in Procs, Confirm(p) PROVE PcType'
  BY <1>20 DEF Confirm
<1>21. ASSUME NEW p \in Procs, CancelUpdate(p) PROVE PcType'
  BY <1>21 DEF CancelUpdate
<1>22. ASSUME NEW p \in Procs, LockCopy(p) PROVE PcType'
  BY <1>22 DEF LockCopy
<1>23. ASSUME NEW p \in Procs, Copy(p) PROVE PcType'
  BY <1>23 DEF Copy
<1>24. ASSUME NEW p \in Procs, CopyFails(p) PROVE PcType'
  BY <1>24 DEF CopyFails
<1>25. ASSUME NEW p \in Procs, Rewrite(p) PROVE PcType'
  BY <1>25 DEF Rewrite
<1>26. ASSUME NEW p \in Procs, Kill(p) PROVE PcType'
  BY <1>26 DEF Kill
<1>27. ASSUME NEW p \in Procs, Start(p) PROVE PcType'
  BY <1>27, FirstLabel DEF Start
<1>28. CASE UNCHANGED pc
  BY <1>28
<1> QED
  BY <1>1, <1>2, <1>3, <1>4, <1>5, <1>6, <1>7, <1>8, <1>9, <1>10, <1>11, <1>12, <1>13, <1>14,
     <1>15, <1>16, <1>17, <1>18, <1>19, <1>20, <1>21, <1>22, <1>23, <1>24, <1>25, <1>26, <1>27,
     <1>28 DEF Next, vars, files, locks, own, history

(* Who is what, and what it has read by the time it needs it *)

RoleInv ==
    /\ job \in [Procs -> Jobs \cup {None}] /\ project \in [Procs -> Projects \cup {None}]
    /\ \A p \in Procs : pc[p] # "start" => project[p] \in Projects

LEMMA RoleStep == PcType /\ RoleInv /\ [Next]_vars => RoleInv'
<1> SUFFICES ASSUME PcType, RoleInv, [Next]_vars PROVE RoleInv'
  OBVIOUS
<1> USE DEF PcType, RoleInv, Goto, Step, Unlock, own
<1>1. ASSUME NEW p \in Procs, Start(p) PROVE RoleInv'
  BY <1>1 DEF Start
<1>2. ASSUME NEW p \in Procs, Select(p) PROVE RoleInv'
  BY <1>2 DEF Select
<1>3. ASSUME NEW p \in Procs, Execute(p) PROVE RoleInv'
  BY <1>3 DEF Execute
<1>4. ASSUME NEW p \in Procs, Look(p) PROVE RoleInv'
  BY <1>4 DEF Look
<1>5. ASSUME NEW p \in Procs, Read(p) PROVE RoleInv'
  BY <1>5 DEF Read
<1>6. ASSUME NEW p \in Procs, Gate(p) PROVE RoleInv'
  BY <1>6 DEF Gate
<1>7. ASSUME NEW p \in Procs, Filter(p) PROVE RoleInv'
  BY <1>7 DEF Filter
<1>8. ASSUME NEW p \in Procs, Review(p) PROVE RoleInv'
  BY <1>8 DEF Review
<1>9. ASSUME NEW p \in Procs, Accept(p) PROVE RoleInv'
  BY <1>9 DEF Accept
<1>10. ASSUME NEW p \in Procs, Decline(p) PROVE RoleInv'
  BY <1>10 DEF Decline
<1>11. ASSUME NEW p \in Procs, Count(p) PROVE RoleInv'
  BY <1>11 DEF Count
<1>12. ASSUME NEW p \in Procs, ReadTemplates(p) PROVE RoleInv'
  BY <1>12 DEF ReadTemplates
<1>13. ASSUME NEW p \in Procs, Lock(p) PROVE RoleInv'
  BY <1>13 DEF Lock
<1>14. ASSUME NEW p \in Procs, Approve(p) PROVE RoleInv'
  BY <1>14 DEF Approve
<1>15. ASSUME NEW p \in Procs, Revoke(p) PROVE RoleInv'
  BY <1>15 DEF Revoke
<1>16. ASSUME NEW p \in Procs, RevokeStale(p) PROVE RoleInv'
  BY <1>16 DEF RevokeStale
<1>17. ASSUME NEW p \in Procs, SaveFails(p) PROVE RoleInv'
  BY <1>17 DEF SaveFails
<1>18. ASSUME NEW p \in Procs, LockConfig(p) PROVE RoleInv'
  BY <1>18 DEF LockConfig
<1>19. ASSUME NEW p \in Procs, SaveConfig(p) PROVE RoleInv'
  BY <1>19 DEF SaveConfig
<1>20. ASSUME NEW p \in Procs, Preview(p) PROVE RoleInv'
  BY <1>20 DEF Preview
<1>21. ASSUME NEW p \in Procs, Confirm(p) PROVE RoleInv'
  BY <1>21 DEF Confirm
<1>22. ASSUME NEW p \in Procs, CancelUpdate(p) PROVE RoleInv'
  BY <1>22 DEF CancelUpdate
<1>23. ASSUME NEW p \in Procs, LockCopy(p) PROVE RoleInv'
  BY <1>23 DEF LockCopy
<1>24. ASSUME NEW p \in Procs, Copy(p) PROVE RoleInv'
  BY <1>24 DEF Copy
<1>25. ASSUME NEW p \in Procs, CopyFails(p) PROVE RoleInv'
  BY <1>25 DEF CopyFails
<1>26. ASSUME NEW p \in Procs, Rewrite(p) PROVE RoleInv'
  BY <1>26 DEF Rewrite
<1>27. ASSUME NEW p \in Procs, Kill(p) PROVE RoleInv'
  BY <1>27 DEF Kill
<1>28. CASE UNCHANGED <<pc, job, project>>
  BY <1>28
<1> QED
  BY <1>1, <1>2, <1>3, <1>4, <1>5, <1>6, <1>7, <1>8, <1>9, <1>10, <1>11, <1>12, <1>13, <1>14,
     <1>15, <1>16, <1>17, <1>18, <1>19, <1>20, <1>21, <1>22, <1>23, <1>24, <1>25, <1>26, <1>27,
     <1>28 DEF Next, vars, files, locks, own, history

AskType == plan \in [Procs -> SUBSET SUBSET Commands] /\ ask \in [Procs -> SUBSET Commands]

LEMMA AskStep == AskType /\ [Next]_vars => AskType'
<1> SUFFICES ASSUME AskType, [Next]_vars PROVE AskType'
  OBVIOUS
<1> USE DEF AskType
<1>1. ASSUME NEW p \in Procs, Select(p) PROVE AskType'
  BY <1>1, ApprovalsAssumption DEF Select
<1>2. ASSUME NEW p \in Procs, Gate(p) PROVE AskType'
  BY <1>2, ApprovalsAssumption DEF Gate
<1>3. ASSUME NEW p \in Procs, Filter(p) PROVE AskType'
  BY <1>3, ApprovalsAssumption DEF Filter
<1>4. ASSUME NEW p \in Procs, Review(p) PROVE AskType'
  BY <1>4, ApprovalsAssumption DEF Review
<1>5. ASSUME NEW p \in Procs, Decline(p) PROVE AskType'
  BY <1>5, ApprovalsAssumption DEF Decline
<1>6. ASSUME NEW p \in Procs, ReadTemplates(p) PROVE AskType'
  BY <1>6, ApprovalsAssumption DEF ReadTemplates
<1>7. CASE UNCHANGED <<plan, ask>>
  BY <1>7
<1> QED
  BY <1>1, <1>2, <1>3, <1>4, <1>5, <1>6, <1>7 DEF Next, vars, files, locks, own, history, Start,
     Execute, Look, Read, Accept, Count, Lock, Approve, Revoke, RevokeStale, SaveFails,
     LockConfig, SaveConfig, Preview, Confirm, CancelUpdate, LockCopy, Copy, CopyFails, Rewrite,
     Kill

FileType ==
    /\ file \in Entries \cup {None} /\ config \in Configs
    /\ loaded \in [Procs -> Entries] /\ snapshot \in [Procs -> Configs \cup {None}]
    /\ \A p \in Procs :
        /\ pc[p] = "read" => file # None
        /\ pc[p] \in {"saveConfig", "confirm", "lockCopy", "copy", "rewrite"} => snapshot[p] \in Configs


LEMMA LegacyType == \A x \in Configs : x.legacy \in Entries
BY DEF Configs

LEMMA SavedType ==
    ASSUME FileType, NEW new \in Entries, NEW old, SaveIfChanged(new, old)
    PROVE  file' \in Entries \cup {None} /\ (file # None => file' # None)
BY ApprovalsAssumption DEF FileType, SaveIfChanged

LEMMA ClearedType == \A e \in Entries : \A keys :
    /\ Cleared(e, keys) \in Entries
    /\ \A current : WithoutStale(e, keys, current) \in Entries
BY DEF Entries, Cleared, WithoutStale

LEMMA AddedType == \A e \in Entries, k \in Keys, C \in SUBSET Commands :
    [e EXCEPT ![k] = @ \cup C] \in Entries
BY DEF Entries

LEMMA FileStep == PcType /\ RoleInv /\ AskType /\ FileType /\ [Next]_vars => FileType'
<1> SUFFICES ASSUME PcType, RoleInv, AskType, FileType, [Next]_vars PROVE FileType'
  OBVIOUS
<1> USE ApprovalsAssumption DEF PcType, RoleInv, AskType, FileType, Goto, Step, Unlock, Conclude, files, own
<1>1. ASSUME NEW p \in Procs, Start(p) PROVE FileType'
  BY <1>1, FirstLabel DEF Start
<1>2. ASSUME NEW p \in Procs, Select(p) PROVE FileType'
  BY <1>2 DEF Select
<1>3. ASSUME NEW p \in Procs, Execute(p) PROVE FileType'
  BY <1>3 DEF Execute
<1>4. ASSUME NEW p \in Procs, Look(p) PROVE FileType'
  BY <1>4 DEF Look
<1>5. ASSUME NEW p \in Procs, Read(p) PROVE FileType'
  BY <1>5, LegacyType DEF Read
<1>6. ASSUME NEW p \in Procs, Gate(p) PROVE FileType'
  BY <1>6 DEF Gate
<1>7. ASSUME NEW p \in Procs, Filter(p) PROVE FileType'
  BY <1>7 DEF Filter
<1>8. ASSUME NEW p \in Procs, Review(p) PROVE FileType'
  BY <1>8 DEF Review
<1>9. ASSUME NEW p \in Procs, Accept(p) PROVE FileType'
  BY <1>9 DEF Accept
<1>10. ASSUME NEW p \in Procs, Decline(p) PROVE FileType'
  BY <1>10 DEF Decline
<1>11. ASSUME NEW p \in Procs, Count(p) PROVE FileType'
  BY <1>11 DEF Count
<1>12. ASSUME NEW p \in Procs, ReadTemplates(p) PROVE FileType'
  BY <1>12 DEF ReadTemplates
<1>13. ASSUME NEW p \in Procs, Lock(p) PROVE FileType'
  BY <1>13, LegacyType DEF Lock, Authority
<1>14. ASSUME NEW p \in Procs, Approve(p) PROVE FileType'
  <2>1. PICK fresh \in SUBSET ask[p] :
            SaveIfChanged([loaded[p] EXCEPT ![Current[project[p]]] = @ \cup fresh], loaded[p])
    BY <1>14 DEF Approve
  <2>2. loaded[p] \in Entries /\ Current[project[p]] \in Keys
    BY <1>14 DEF Approve
  <2>3. [loaded[p] EXCEPT ![Current[project[p]]] = @ \cup fresh] \in Entries
    BY <2>2 DEF Entries
  <2> QED
    BY <1>14, <2>1, <2>2, <2>3, SavedType DEF Approve
<1>15. ASSUME NEW p \in Procs, Revoke(p) PROVE FileType'
  <2>1. PICK keys : SaveIfChanged(Cleared(loaded[p], keys), loaded[p])
    BY <1>15 DEF Revoke
  <2>2. Cleared(loaded[p], keys) \in Entries
    BY ClearedType
  <2>3. UNCHANGED <<config, loaded, snapshot>> /\ pc' = [pc EXCEPT ![p] = "done"]
    BY <1>15 DEF Revoke
  <2>4. file' \in Entries \cup {None} /\ (file # None => file' # None)
    BY <2>1, <2>2, SavedType
  <2> QED
    BY <2>3, <2>4
<1>16. ASSUME NEW p \in Procs, RevokeStale(p) PROVE FileType'
  <2>1. PICK keys, current : SaveIfChanged(WithoutStale(loaded[p], keys, current), loaded[p])
    BY <1>16 DEF RevokeStale
  <2>2. WithoutStale(loaded[p], keys, current) \in Entries
    BY ClearedType
  <2>3. UNCHANGED <<config, loaded, snapshot>> /\ pc' = [pc EXCEPT ![p] = "done"]
    BY <1>16 DEF RevokeStale
  <2>4. file' \in Entries \cup {None} /\ (file # None => file' # None)
    BY <2>1, <2>2, SavedType
  <2> QED
    BY <2>3, <2>4
<1>17. ASSUME NEW p \in Procs, SaveFails(p) PROVE FileType'
  BY <1>17 DEF SaveFails
<1>18. ASSUME NEW p \in Procs, LockConfig(p) PROVE FileType'
  BY <1>18 DEF LockConfig
<1>19. ASSUME NEW p \in Procs, SaveConfig(p) PROVE FileType'
  <2>1. snapshot[p] \in Configs
    BY <1>19 DEF SaveConfig
  <2>2. PICK x \in Settings, d \in {FALSE, snapshot[p].deprecated} : config' =
            [legacy |-> snapshot[p].legacy, deprecated |-> d, settings |-> snapshot[p].settings \cup {x}]
    BY <1>19 DEF SaveConfig
  <2>3. config' \in Configs
    BY <2>1, <2>2 DEF Configs
  <2> QED
    BY <1>19, <2>3 DEF SaveConfig
<1>20. ASSUME NEW p \in Procs, Preview(p) PROVE FileType'
  BY <1>20 DEF Preview
<1>21. ASSUME NEW p \in Procs, Confirm(p) PROVE FileType'
  BY <1>21 DEF Confirm
<1>22. ASSUME NEW p \in Procs, CancelUpdate(p) PROVE FileType'
  BY <1>22 DEF CancelUpdate
<1>23. ASSUME NEW p \in Procs, LockCopy(p) PROVE FileType'
  BY <1>23 DEF LockCopy
<1>24. ASSUME NEW p \in Procs, Copy(p) PROVE FileType'
  BY <1>24, LegacyType DEF Copy
<1>25. ASSUME NEW p \in Procs, CopyFails(p) PROVE FileType'
  BY <1>25 DEF CopyFails
<1>26. ASSUME NEW p \in Procs, Rewrite(p) PROVE FileType'
  BY <1>26 DEF Rewrite, Configs, Entries, NoEntries
<1>27. ASSUME NEW p \in Procs, Kill(p) PROVE FileType'
  BY <1>27 DEF Kill
<1>28. CASE UNCHANGED <<pc, files, loaded, snapshot>>
  BY <1>28
<1> QED
  BY <1>1, <1>2, <1>3, <1>4, <1>5, <1>6, <1>7, <1>8, <1>9, <1>10, <1>11, <1>12, <1>13, <1>14,
     <1>15, <1>16, <1>17, <1>18, <1>19, <1>20, <1>21, <1>22, <1>23, <1>24, <1>25, <1>26, <1>27,
     <1>28 DEF Next, vars, files, locks, own, history

LockInv ==
    /\ lock \in Procs \cup {None} /\ configLock \in Procs \cup {None}
    /\ \A p \in Procs :
        /\ pc[p] \in {"save", "copy"} => lock = p
        /\ pc[p] = "saveConfig" => configLock = p

LEMMA LockStep == PcType /\ LockInv /\ [Next]_vars => LockInv'
<1> SUFFICES ASSUME PcType, LockInv, [Next]_vars PROVE LockInv'
  OBVIOUS
<1> USE ApprovalsAssumption DEF PcType, LockInv, Goto, Step, Unlock, Conclude, locks
<1>1. ASSUME NEW p \in Procs, Start(p) PROVE LockInv'
  BY <1>1, FirstLabel DEF Start
<1>2. ASSUME NEW p \in Procs, Select(p) PROVE LockInv'
  BY <1>2 DEF Select
<1>3. ASSUME NEW p \in Procs, Execute(p) PROVE LockInv'
  BY <1>3 DEF Execute
<1>4. ASSUME NEW p \in Procs, Look(p) PROVE LockInv'
  BY <1>4 DEF Look
<1>5. ASSUME NEW p \in Procs, Read(p) PROVE LockInv'
  BY <1>5 DEF Read
<1>6. ASSUME NEW p \in Procs, Gate(p) PROVE LockInv'
  BY <1>6 DEF Gate
<1>7. ASSUME NEW p \in Procs, Filter(p) PROVE LockInv'
  BY <1>7 DEF Filter
<1>8. ASSUME NEW p \in Procs, Review(p) PROVE LockInv'
  BY <1>8 DEF Review
<1>9. ASSUME NEW p \in Procs, Accept(p) PROVE LockInv'
  BY <1>9 DEF Accept
<1>10. ASSUME NEW p \in Procs, Decline(p) PROVE LockInv'
  BY <1>10 DEF Decline
<1>11. ASSUME NEW p \in Procs, Count(p) PROVE LockInv'
  BY <1>11 DEF Count
<1>12. ASSUME NEW p \in Procs, ReadTemplates(p) PROVE LockInv'
  BY <1>12 DEF ReadTemplates
<1>13. ASSUME NEW p \in Procs, Lock(p) PROVE LockInv'
  BY <1>13 DEF Lock
<1>14. ASSUME NEW p \in Procs, Approve(p) PROVE LockInv'
  BY <1>14 DEF Approve
<1>15. ASSUME NEW p \in Procs, Revoke(p) PROVE LockInv'
  BY <1>15 DEF Revoke
<1>16. ASSUME NEW p \in Procs, RevokeStale(p) PROVE LockInv'
  BY <1>16 DEF RevokeStale
<1>17. ASSUME NEW p \in Procs, SaveFails(p) PROVE LockInv'
  BY <1>17 DEF SaveFails
<1>18. ASSUME NEW p \in Procs, LockConfig(p) PROVE LockInv'
  BY <1>18 DEF LockConfig
<1>19. ASSUME NEW p \in Procs, SaveConfig(p) PROVE LockInv'
  BY <1>19 DEF SaveConfig
<1>20. ASSUME NEW p \in Procs, Preview(p) PROVE LockInv'
  BY <1>20 DEF Preview
<1>21. ASSUME NEW p \in Procs, Confirm(p) PROVE LockInv'
  BY <1>21 DEF Confirm
<1>22. ASSUME NEW p \in Procs, CancelUpdate(p) PROVE LockInv'
  BY <1>22 DEF CancelUpdate
<1>23. ASSUME NEW p \in Procs, LockCopy(p) PROVE LockInv'
  BY <1>23 DEF LockCopy
<1>24. ASSUME NEW p \in Procs, Copy(p) PROVE LockInv'
  BY <1>24 DEF Copy
<1>25. ASSUME NEW p \in Procs, CopyFails(p) PROVE LockInv'
  BY <1>25 DEF CopyFails
<1>26. ASSUME NEW p \in Procs, Rewrite(p) PROVE LockInv'
  BY <1>26 DEF Rewrite
<1>27. ASSUME NEW p \in Procs, Kill(p) PROVE LockInv'
  BY <1>27 DEF Kill
<1>28. CASE UNCHANGED <<pc, locks>>
  BY <1>28
<1> QED
  BY <1>1, <1>2, <1>3, <1>4, <1>5, <1>6, <1>7, <1>8, <1>9, <1>10, <1>11, <1>12, <1>13, <1>14,
     <1>15, <1>16, <1>17, <1>18, <1>19, <1>20, <1>21, <1>22, <1>23, <1>24, <1>25, <1>26, <1>27,
     <1>28 DEF Next, vars, files, locks, own, history

HistoryType ==
    /\ granted \in Entries
    /\ seen \in [Procs -> SUBSET Commands]
    /\ consented \in [Procs -> SUBSET Commands] /\ ran \in [Procs -> SUBSET Commands]

LEMMA MatchingKeys == \A q \in Projects : Matching(q) \subseteq Keys
BY ApprovalsAssumption DEF Matching

LEMMA GrantedType == ASSUME HistoryType PROVE \A q \in Projects : Granted(q) \subseteq Commands
BY MatchingKeys DEF HistoryType, Entries, Granted

LEMMA HistoryStep == RoleInv /\ AskType /\ HistoryType /\ [Next]_vars => HistoryType'
<1> SUFFICES ASSUME RoleInv, AskType, HistoryType, [Next]_vars PROVE HistoryType'
  OBVIOUS
<1> USE DEF RoleInv, AskType, HistoryType, history
<1>1. ASSUME NEW p \in Procs, Select(p) PROVE HistoryType'
  BY <1>1, GrantedType, ApprovalsAssumption DEF Select
<1>2. ASSUME NEW p \in Procs, Execute(p) PROVE HistoryType'
  BY <1>2, GrantedType, ApprovalsAssumption DEF Execute
<1>3. ASSUME NEW p \in Procs, Look(p) PROVE HistoryType'
  BY <1>3, GrantedType, ApprovalsAssumption DEF Look
<1>4. ASSUME NEW p \in Procs, Read(p) PROVE HistoryType'
  BY <1>4, GrantedType, ApprovalsAssumption DEF Read
<1>5. ASSUME NEW p \in Procs, Gate(p) PROVE HistoryType'
  BY <1>5, GrantedType, ApprovalsAssumption DEF Gate
<1>6. ASSUME NEW p \in Procs, Filter(p) PROVE HistoryType'
  BY <1>6, GrantedType, ApprovalsAssumption DEF Filter
<1>7. ASSUME NEW p \in Procs, Accept(p) PROVE HistoryType'
  BY <1>7, GrantedType, ApprovalsAssumption DEF Accept
<1>8. ASSUME NEW p \in Procs, Approve(p) PROVE HistoryType'
  <2>1. Current[project[p]] \in Keys /\ Normal(ask[p]) \in SUBSET Commands
    BY <1>8, NormalType, ApprovalsAssumption DEF Approve
  <2>2. granted' = [granted EXCEPT ![Current[project[p]]] = @ \cup Normal(ask[p])]
    BY <1>8 DEF Approve
  <2>3. granted' \in Entries
    BY <2>1, <2>2 DEF Entries
  <2> QED
    BY <1>8, <2>3 DEF Approve
<1>9. ASSUME NEW p \in Procs, Revoke(p) PROVE HistoryType'
  BY <1>9, ClearedType DEF Revoke
<1>10. ASSUME NEW p \in Procs, RevokeStale(p) PROVE HistoryType'
  BY <1>10, ClearedType DEF RevokeStale
<1>11. CASE UNCHANGED history
  BY <1>11
<1> QED
  BY <1>1, <1>2, <1>3, <1>4, <1>5, <1>6, <1>7, <1>8, <1>9, <1>10, <1>11 DEF Next, vars, files,
     locks, own, history, Start, Review, Decline, Count, ReadTemplates, Lock, SaveFails,
     LockConfig, SaveConfig, Preview, Confirm, CancelUpdate, LockCopy, Copy, CopyFails, Rewrite,
     Kill

Types == PcType /\ RoleInv /\ AskType /\ FileType /\ LockInv /\ HistoryType

LEMMA TypesInit == Init => Types
<1> SUFFICES ASSUME Init PROVE Types
  OBVIOUS
<1> USE DEF Init
<1>1. PICK a \in FirstApprovals, b \in FirstApprovals, d \in BOOLEAN :
        /\ config = [legacy |-> a, deprecated |-> d, settings |-> {}]
        /\ file \in {None, b}
  OBVIOUS
<1>2. a \in Entries /\ b \in Entries /\ NoEntries \in Entries
  BY ApprovalsAssumption DEF Entries, NoEntries
<1>3. config \in Configs /\ file \in Entries \cup {None} /\ Authority \in Entries
  BY <1>1, <1>2 DEF Configs, Authority
<1>4. granted \in Entries
  BY <1>3, NormalType DEF Entries
<1>5. PcType /\ RoleInv /\ AskType /\ LockInv
  BY DEF PcType, Labels, RoleInv, AskType, LockInv
<1>6. FileType
  BY <1>2, <1>3 DEF FileType
<1>7. HistoryType
  BY <1>4 DEF HistoryType
<1> QED
  BY <1>5, <1>6, <1>7 DEF Types

LEMMA TypesStep == Types /\ [Next]_vars => Types'
BY PcStep, RoleStep, AskStep, FileStep, LockStep, HistoryStep DEF Types

LEMMA TypesTypeOK == Types => TypeOK
BY DEF Types, PcType, RoleInv, AskType, FileType, LockInv, HistoryType, TypeOK

-----------------------------------------------------------------------------
(* The approvals in force *)

\* While there is no approvals.toml, nobody holds a config.toml that would change the approvals
\* in it, and an update about to strip them has found none.
LegacyInv == file = None => \A p \in Procs :
    /\ pc[p] = "saveConfig" => snapshot[p].legacy = config.legacy
    /\ pc[p] = "rewrite" => config.legacy = NoEntries

\* A write under the lock leaves new in force.
LEMMA SavedAuthority ==
    ASSUME NEW new \in Entries, SaveIfChanged(new, Authority), UNCHANGED config
    PROVE  Authority' = new
BY ApprovalsAssumption DEF SaveIfChanged, Authority

\* approvals.toml is never taken away again.
LEMMA FileStays == Types /\ file # None /\ [Next]_vars => file' # None
<1> SUFFICES ASSUME Types, file # None, [Next]_vars PROVE file' # None
  OBVIOUS
<1>1. ASSUME NEW p \in Procs, Approve(p) PROVE file' # None
  <2>1. PICK fresh \in SUBSET ask[p] :
            SaveIfChanged([loaded[p] EXCEPT ![Current[project[p]]] = @ \cup fresh], loaded[p])
    BY <1>1 DEF Approve
  <2>2. [loaded[p] EXCEPT ![Current[project[p]]] = @ \cup fresh] \in Entries
    BY <1>1, AddedType, ApprovalsAssumption DEF Approve, Types, RoleInv, AskType, FileType
  <2> QED
    BY <2>1, <2>2, SavedType DEF Types
<1>2. ASSUME NEW p \in Procs, Revoke(p) PROVE file' # None
  <2>1. PICK keys : SaveIfChanged(Cleared(loaded[p], keys), loaded[p])
    BY <1>2 DEF Revoke
  <2>2. Cleared(loaded[p], keys) \in Entries
    BY ClearedType DEF Types, FileType
  <2> QED
    BY <2>1, <2>2, SavedType DEF Types
<1>3. ASSUME NEW p \in Procs, RevokeStale(p) PROVE file' # None
  <2>1. PICK keys, current : SaveIfChanged(WithoutStale(loaded[p], keys, current), loaded[p])
    BY <1>3 DEF RevokeStale
  <2>2. WithoutStale(loaded[p], keys, current) \in Entries
    BY ClearedType DEF Types, FileType
  <2> QED
    BY <2>1, <2>2, SavedType DEF Types
<1>4. ASSUME NEW p \in Procs, Copy(p) PROVE file' # None
  BY <1>4 DEF Copy
<1>5. CASE UNCHANGED file
  BY <1>5
<1> QED
  BY <1>1, <1>2, <1>3, <1>4, <1>5 DEF Next, vars, files, locks, own, history, Start, Select,
     Execute, Look, Read, Gate, Filter, Review, Accept, Decline, Count, ReadTemplates, Lock,
     SaveFails, LockConfig, SaveConfig, Preview, Confirm, CancelUpdate, LockCopy, CopyFails,
     Rewrite, Kill

LEMMA LegacyStep == Types /\ LegacyInv /\ [Next]_vars => LegacyInv'
<1> SUFFICES ASSUME Types, LegacyInv, [Next]_vars PROVE LegacyInv'
  OBVIOUS
<1>0. file # None => file' # None
  BY FileStays
<1> USE <1>0 DEF Types, PcType, FileType, LegacyInv, Goto, Step, Unlock, Conclude, files, locks, own
<1>1. ASSUME NEW p \in Procs, Start(p) PROVE LegacyInv'
  BY <1>1, FirstLabel DEF Start
<1>2. ASSUME NEW p \in Procs, Select(p) PROVE LegacyInv'
  BY <1>2 DEF Select
<1>3. ASSUME NEW p \in Procs, Execute(p) PROVE LegacyInv'
  BY <1>3 DEF Execute
<1>4. ASSUME NEW p \in Procs, Look(p) PROVE LegacyInv'
  BY <1>4 DEF Look
<1>5. ASSUME NEW p \in Procs, Read(p) PROVE LegacyInv'
  BY <1>5 DEF Read
<1>6. ASSUME NEW p \in Procs, Gate(p) PROVE LegacyInv'
  BY <1>6 DEF Gate
<1>7. ASSUME NEW p \in Procs, Filter(p) PROVE LegacyInv'
  BY <1>7 DEF Filter
<1>8. ASSUME NEW p \in Procs, Review(p) PROVE LegacyInv'
  BY <1>8 DEF Review
<1>9. ASSUME NEW p \in Procs, Accept(p) PROVE LegacyInv'
  BY <1>9 DEF Accept
<1>10. ASSUME NEW p \in Procs, Decline(p) PROVE LegacyInv'
  BY <1>10 DEF Decline
<1>11. ASSUME NEW p \in Procs, Count(p) PROVE LegacyInv'
  BY <1>11 DEF Count
<1>12. ASSUME NEW p \in Procs, ReadTemplates(p) PROVE LegacyInv'
  BY <1>12 DEF ReadTemplates
<1>13. ASSUME NEW p \in Procs, Lock(p) PROVE LegacyInv'
  BY <1>13 DEF Lock
<1>14. ASSUME NEW p \in Procs, Approve(p) PROVE LegacyInv'
  BY <1>14 DEF Approve
<1>15. ASSUME NEW p \in Procs, Revoke(p) PROVE LegacyInv'
  BY <1>15 DEF Revoke
<1>16. ASSUME NEW p \in Procs, RevokeStale(p) PROVE LegacyInv'
  BY <1>16 DEF RevokeStale
<1>17. ASSUME NEW p \in Procs, SaveFails(p) PROVE LegacyInv'
  BY <1>17 DEF SaveFails
<1>18. ASSUME NEW p \in Procs, LockConfig(p) PROVE LegacyInv'
  BY <1>18 DEF LockConfig
<1>19. ASSUME NEW p \in Procs, SaveConfig(p) PROVE LegacyInv'
  BY <1>19 DEF SaveConfig
<1>20. ASSUME NEW p \in Procs, Preview(p) PROVE LegacyInv'
  BY <1>20 DEF Preview
<1>21. ASSUME NEW p \in Procs, Confirm(p) PROVE LegacyInv'
  BY <1>21 DEF Confirm
<1>22. ASSUME NEW p \in Procs, CancelUpdate(p) PROVE LegacyInv'
  BY <1>22 DEF CancelUpdate
<1>23. ASSUME NEW p \in Procs, LockCopy(p) PROVE LegacyInv'
  BY <1>23 DEF LockCopy
<1>24. ASSUME NEW p \in Procs, Copy(p) PROVE LegacyInv'
  BY <1>24, LegacyType, ApprovalsAssumption DEF Copy
<1>25. ASSUME NEW p \in Procs, CopyFails(p) PROVE LegacyInv'
  BY <1>25 DEF CopyFails
<1>26. ASSUME NEW p \in Procs, Rewrite(p) PROVE LegacyInv'
  BY <1>26 DEF Rewrite
<1>27. ASSUME NEW p \in Procs, Kill(p) PROVE LegacyInv'
  BY <1>27 DEF Kill
<1>28. CASE UNCHANGED <<pc, files, snapshot>>
  BY <1>28
<1> QED
  BY <1>1, <1>2, <1>3, <1>4, <1>5, <1>6, <1>7, <1>8, <1>9, <1>10, <1>11, <1>12, <1>13, <1>14,
     <1>15, <1>16, <1>17, <1>18, <1>19, <1>20, <1>21, <1>22, <1>23, <1>24, <1>25, <1>26, <1>27,
     <1>28 DEF Next, vars, files, locks, own, history

\* Three steps change the approvals in force, each under the lock.
Saving(p) == Approve(p) \/ Revoke(p) \/ RevokeStale(p)

LEMMA AuthorityKept ==
    Types /\ LegacyInv /\ [Next]_vars => UNCHANGED Authority \/ \E p \in Procs : Saving(p)
<1> SUFFICES ASSUME Types, LegacyInv, [Next]_vars, \A p \in Procs : ~Saving(p)
             PROVE  UNCHANGED Authority
  OBVIOUS
<1> USE DEF Authority, LegacyInv, Types, FileType
<1>1. ASSUME NEW p \in Procs, SaveConfig(p) PROVE UNCHANGED Authority
  BY <1>1 DEF SaveConfig, Step
<1>2. ASSUME NEW p \in Procs, Rewrite(p) PROVE UNCHANGED Authority
  BY <1>2 DEF Rewrite, Step
<1>3. ASSUME NEW p \in Procs, Copy(p) PROVE UNCHANGED Authority
  BY <1>3, LegacyType, ApprovalsAssumption DEF Copy
<1>4. CASE UNCHANGED files
  BY <1>4 DEF files
<1> QED
  BY <1>1, <1>2, <1>3, <1>4 DEF Next, Saving, vars, files, locks, own, history, Start, Select, Execute,
     Look, Read, Gate, Filter, Review, Accept, Decline, Count, ReadTemplates, Lock, SaveFails,
     LockConfig, SaveConfig, Preview, Confirm, CancelUpdate, LockCopy, Copy, CopyFails, Rewrite,
     Kill

\* What a holder of the lock read under it is in force until it writes.
LoadInv == \A p \in Procs : pc[p] = "save" => loaded[p] = Authority

LEMMA OnlyLockLoads ==
    PcType /\ [Next]_vars => \A q \in Procs : pc[q] # "save" /\ pc'[q] = "save" => Lock(q)
<1> SUFFICES ASSUME PcType, [Next]_vars, NEW q \in Procs, pc[q] # "save", pc'[q] = "save" PROVE Lock(q)
  OBVIOUS
<1> USE DEF PcType, Goto, Step, Unlock, Conclude
<1>1. ASSUME NEW p \in Procs, Start(p) PROVE FALSE
  BY <1>1, FirstLabel DEF Start
<1>2. ASSUME NEW p \in Procs, Lock(p) PROVE Lock(q)
  BY <1>2 DEF Lock
<1>3. ASSUME NEW p \in Procs, Select(p) \/ Execute(p) \/ Look(p) \/ Read(p)
             PROVE  FALSE
  BY <1>3 DEF Select, Execute, Look, Read
<1>4. ASSUME NEW p \in Procs, Gate(p) \/ Filter(p) \/ Review(p) \/ Accept(p)
             PROVE  FALSE
  BY <1>4 DEF Gate, Filter, Review, Accept
<1>5. ASSUME NEW p \in Procs, Decline(p) \/ Count(p) \/ ReadTemplates(p)
             PROVE  FALSE
  BY <1>5 DEF Decline, Count, ReadTemplates
<1>6. ASSUME NEW p \in Procs, Approve(p) \/ Revoke(p) \/ RevokeStale(p) \/ SaveFails(p)
             PROVE  FALSE
  BY <1>6 DEF Approve, Revoke, RevokeStale, SaveFails
<1>7. ASSUME NEW p \in Procs,
     LockConfig(p) \/ SaveConfig(p) \/ Preview(p) \/ Confirm(p) \/ CancelUpdate(p)
             PROVE  FALSE
  BY <1>7 DEF LockConfig, SaveConfig, Preview, Confirm, CancelUpdate
<1>8. ASSUME NEW p \in Procs, LockCopy(p) \/ Copy(p) \/ CopyFails(p) \/ Rewrite(p) \/ Kill(p)
             PROVE  FALSE
  BY <1>8 DEF LockCopy, Copy, CopyFails, Rewrite, Kill
<1>9. pc' # pc
  OBVIOUS
<1> QED
  BY <1>1, <1>2, <1>3, <1>4, <1>5, <1>6, <1>7, <1>8, <1>9 DEF Next, vars

LEMMA LoadStep == Types /\ LegacyInv /\ LoadInv /\ [Next]_vars => LoadInv'
<1> SUFFICES ASSUME Types, LegacyInv, LoadInv, [Next]_vars, NEW q \in Procs, pc'[q] = "save"
             PROVE  loaded'[q] = Authority'
  BY DEF LoadInv
<1> USE DEF Types, PcType, FileType, LockInv, Goto, Step, Unlock, Conclude
<1>1. CASE pc[q] = "save"
  <2>1. loaded'[q] = loaded[q]
    BY <1>1, ZenonT(60) DEF Next, vars, files, locks, own, history, Start, Select, Execute, Look, Read, Gate,
     Filter, Review, Accept, Decline, Count, ReadTemplates, Lock, Approve, Revoke, RevokeStale,
     SaveFails, LockConfig, SaveConfig, Preview, Confirm, CancelUpdate, LockCopy, Copy, CopyFails,
     Rewrite, Kill
  <2>2. ASSUME NEW p \in Procs, Saving(p) PROVE FALSE
    <3>1. pc[p] = "save" /\ p = q
      BY <1>1, <2>2 DEF Saving, Approve, Revoke, RevokeStale
    <3>2. pc'[p] # "save"
      BY <2>2 DEF Saving, Approve, Revoke, RevokeStale
    <3> QED
      BY <3>1, <3>2
  <2> QED
    BY <1>1, <2>1, <2>2, AuthorityKept DEF LoadInv
<1>2. CASE pc[q] # "save"
  <2> QED
    BY <1>2, OnlyLockLoads DEF Lock, Authority, files
<1> QED
  BY <1>1, <1>2

\* The approvals in force are, key by key, those the user gave and did not take back.
GrantInv == \A k \in Keys : granted[k] = Normal(Authority[k])

LEMMA AuthorityType == Types => Authority \in Entries
BY LegacyType DEF Types, FileType, Authority

LEMMA NormalUnion == \A C, D \in SUBSET Commands : Normal(C \cup D) = Normal(C) \cup Normal(D)
BY DEF Normal

LEMMA NormalCleared ==
    ASSUME NEW e \in Entries, NEW keys, NEW k \in Keys
    PROVE  Normal(Cleared(e, keys)[k]) = Cleared([x \in Keys |-> Normal(e[x])], keys)[k]
BY DEF Normal, Cleared

LEMMA NormalWithoutStale ==
    ASSUME NEW e \in Entries, NEW keys, NEW current, NEW k \in Keys
    PROVE  Normal(WithoutStale(e, keys, current)[k])
             = WithoutStale([x \in Keys |-> Normal(e[x])], keys, current)[k]
<1> DEFINE kept == {c \in e[k] : Norm[c] \in current}
<1>1. e[k] \in SUBSET Commands
  BY DEF Entries
<1>2. Normal(kept) = {c \in Normal(e[k]) : Norm[c] \in current}
  BY <1>1, ApprovalsAssumption DEF Normal
<1> QED
  BY <1>2 DEF WithoutStale

LEMMA GrantStep == Types /\ LegacyInv /\ LoadInv /\ GrantInv /\ [Next]_vars => GrantInv'
<1> SUFFICES ASSUME Types, LegacyInv, LoadInv, GrantInv, [Next]_vars PROVE GrantInv'
  OBVIOUS
<1>0. Authority \in Entries /\ granted = [k \in Keys |-> Normal(Authority[k])]
  BY AuthorityType DEF GrantInv, Types, HistoryType, Entries
<1>1. ASSUME NEW p \in Procs, Approve(p) PROVE GrantInv'
  <2> DEFINE key == Current[project[p]]
  <2>1. key \in Keys /\ ask[p] \in SUBSET Commands /\ loaded[p] = Authority
    BY <1>1, ApprovalsAssumption DEF Approve, Types, RoleInv, AskType, LoadInv
  <2>2. PICK fresh \in SUBSET ask[p] :
            /\ Normal(fresh) = Normal(ask[p]) \ Normal(Authority[key])
            /\ SaveIfChanged([Authority EXCEPT ![key] = @ \cup fresh], Authority)
    BY <1>1, <2>1 DEF Approve
  <2>3. [Authority EXCEPT ![key] = @ \cup fresh] \in Entries
    BY <1>0, <2>1, AddedType
  <2>4. Authority' = [Authority EXCEPT ![key] = @ \cup fresh]
    BY <1>1, <2>2, <2>3, SavedAuthority DEF Approve
  <2>5. Normal(Authority'[key]) = Normal(Authority[key]) \cup Normal(ask[p])
    <3>1. Authority[key] \in SUBSET Commands /\ Authority'[key] = Authority[key] \cup fresh
      BY <1>0, <2>1, <2>4 DEF Entries
    <3> QED
      BY <2>1, <2>2, <3>1, NormalUnion
  <2>6. \A k \in Keys : k # key => Authority'[k] = Authority[k]
    BY <1>0, <2>4 DEF Entries
  <2>7. granted' = [granted EXCEPT ![key] = @ \cup Normal(ask[p])]
    BY <1>1 DEF Approve
  <2> QED
    BY <1>0, <2>1, <2>5, <2>6, <2>7 DEF GrantInv
<1>2. ASSUME NEW p \in Procs, Revoke(p) PROVE GrantInv'
  <2>1. PICK keys : SaveIfChanged(Cleared(loaded[p], keys), loaded[p]) /\ granted' = Cleared(granted, keys)
    BY <1>2 DEF Revoke
  <2>2. loaded[p] = Authority /\ UNCHANGED config
    BY <1>2 DEF LoadInv, Revoke
  <2>3. Authority' = Cleared(Authority, keys)
    BY <1>0, <2>1, <2>2, ClearedType, SavedAuthority
  <2> QED
    BY <1>0, <2>1, <2>3, NormalCleared DEF GrantInv
<1>3. ASSUME NEW p \in Procs, RevokeStale(p) PROVE GrantInv'
  <2>1. PICK keys, current :
            /\ SaveIfChanged(WithoutStale(loaded[p], keys, current), loaded[p])
            /\ granted' = WithoutStale(granted, keys, current)
    BY <1>3 DEF RevokeStale
  <2>2. loaded[p] = Authority /\ UNCHANGED config
    BY <1>3 DEF LoadInv, RevokeStale
  <2>3. Authority' = WithoutStale(Authority, keys, current)
    BY <1>0, <2>1, <2>2, ClearedType, SavedAuthority
  <2> QED
    BY <1>0, <2>1, <2>3, NormalWithoutStale DEF GrantInv
<1>4. CASE \A p \in Procs : ~Saving(p)
  <2>1. granted' = granted
    BY <1>4 DEF Next, Saving, vars, files, locks, own, history, Start, Select, Execute, Look, Read, Gate,
     Filter, Review, Accept, Decline, Count, ReadTemplates, Lock, SaveFails, LockConfig,
     SaveConfig, Preview, Confirm, CancelUpdate, LockCopy, Copy, CopyFails, Rewrite, Kill
  <2> QED
    BY <1>4, <2>1, AuthorityKept DEF GrantInv, Normal
<1> QED
  BY <1>1, <1>2, <1>3, <1>4 DEF Saving

LEMMA InForce == Types /\ GrantInv => \A q \in Projects : Effective(Authority, q) = Granted(q)
<1> SUFFICES ASSUME Types, GrantInv, NEW q \in Projects PROVE Effective(Authority, q) = Granted(q)
  OBVIOUS
<1>1. Matching(q) \subseteq Keys
  BY MatchingKeys
<1>2. \A k \in Matching(q) : granted[k] = Normal(Authority[k])
  BY <1>1 DEF GrantInv
<1> QED
  BY <1>2 DEF Effective, Granted, Normal

-----------------------------------------------------------------------------
(* What a process runs *)

\* A process that found no approvals.toml goes on to config.toml: whatever that says by then, or
\* is about to say, was granted when the process looked.
SeenInv == \A p \in Procs : pc[p] = "readConfig" =>
    /\ Effective(config.legacy, project[p]) \subseteq seen[p]
    /\ \A q \in Procs : pc[q] = "saveConfig" => Effective(snapshot[q].legacy, project[p]) \subseteq seen[p]

LEMMA NothingInForce == ASSUME NEW q \in Projects PROVE Effective(NoEntries, q) = {}
BY MatchingKeys DEF Effective, NoEntries, Normal

LEMMA SeenStep == Types /\ LegacyInv /\ GrantInv /\ SeenInv /\ [Next]_vars => SeenInv'
<1> SUFFICES ASSUME Types, LegacyInv, GrantInv, SeenInv, [Next]_vars PROVE SeenInv'
  OBVIOUS
<1> USE DEF Types, PcType, RoleInv, FileType, HistoryType, SeenInv, Goto, Step, Unlock, Conclude, files, own, history
<1>1. ASSUME NEW p \in Procs, Start(p) PROVE SeenInv'
  BY <1>1, FirstLabel DEF Start
<1>2. ASSUME NEW p \in Procs, Select(p) PROVE SeenInv'
  BY <1>2 DEF Select
<1>3. ASSUME NEW p \in Procs, Execute(p) PROVE SeenInv'
  BY <1>3 DEF Execute
<1>4. ASSUME NEW p \in Procs, Look(p) PROVE SeenInv'
  <2>1. pc[p] # "start" /\ project[p] \in Projects /\ seen' = [seen EXCEPT ![p] = Granted(project[p])]
    BY <1>4 DEF Look
  <2>2. pc'[p] = "readConfig" => file = None
    BY <1>4, <2>1 DEF Look
  <2>3. file = None => Effective(config.legacy, project[p]) = Granted(project[p])
    BY <2>1, InForce DEF Authority
  <2>4. file = None => \A q \in Procs : pc[q] = "saveConfig" => snapshot[q].legacy = config.legacy
    BY DEF LegacyInv
  <2>5. UNCHANGED <<config, snapshot, project>> /\ \A q \in Procs : pc'[q] = "saveConfig" => pc[q] = "saveConfig"
    BY <1>4 DEF Look
  <2>6. \A q \in Procs \ {p} : pc'[q] = pc[q] /\ seen'[q] = seen[q]
    BY <1>4, <2>1 DEF Look
  <2>7. seen'[p] = Granted(project[p])
    BY <2>1
  <2> QED
    BY <2>2, <2>3, <2>4, <2>5, <2>6, <2>7
<1>5. ASSUME NEW p \in Procs, Read(p) PROVE SeenInv'
  BY <1>5 DEF Read
<1>6. ASSUME NEW p \in Procs, Gate(p) PROVE SeenInv'
  BY <1>6 DEF Gate
<1>7. ASSUME NEW p \in Procs, Filter(p) PROVE SeenInv'
  BY <1>7 DEF Filter
<1>8. ASSUME NEW p \in Procs, Review(p) PROVE SeenInv'
  BY <1>8 DEF Review
<1>9. ASSUME NEW p \in Procs, Accept(p) PROVE SeenInv'
  BY <1>9 DEF Accept
<1>10. ASSUME NEW p \in Procs, Decline(p) PROVE SeenInv'
  BY <1>10 DEF Decline
<1>11. ASSUME NEW p \in Procs, Count(p) PROVE SeenInv'
  BY <1>11 DEF Count
<1>12. ASSUME NEW p \in Procs, ReadTemplates(p) PROVE SeenInv'
  BY <1>12 DEF ReadTemplates
<1>13. ASSUME NEW p \in Procs, Lock(p) PROVE SeenInv'
  BY <1>13 DEF Lock
<1>14. ASSUME NEW p \in Procs, Approve(p) PROVE SeenInv'
  BY <1>14 DEF Approve
<1>15. ASSUME NEW p \in Procs, Revoke(p) PROVE SeenInv'
  BY <1>15 DEF Revoke
<1>16. ASSUME NEW p \in Procs, RevokeStale(p) PROVE SeenInv'
  BY <1>16 DEF RevokeStale
<1>17. ASSUME NEW p \in Procs, SaveFails(p) PROVE SeenInv'
  BY <1>17 DEF SaveFails
<1>18. ASSUME NEW p \in Procs, LockConfig(p) PROVE SeenInv'
  <2>1. UNCHANGED <<config, project, seen>> /\ snapshot' = [snapshot EXCEPT ![p] = config]
    BY <1>18 DEF LockConfig
  <2>2. pc' = [pc EXCEPT ![p] = "saveConfig"]
    BY <1>18 DEF LockConfig
  <2>3. \A q \in Procs : pc'[q] = "saveConfig" =>
            snapshot'[q].legacy = config.legacy \/ (pc[q] = "saveConfig" /\ snapshot'[q].legacy = snapshot[q].legacy)
    BY <2>1, <2>2
  <2>4. \A q \in Procs : pc'[q] = "readConfig" => pc[q] = "readConfig"
    BY <2>2
  <2> QED
    BY <2>1, <2>3, <2>4
<1>19. ASSUME NEW p \in Procs, SaveConfig(p) PROVE SeenInv'
  <2>1. pc[p] = "saveConfig" /\ config'.legacy = snapshot[p].legacy
    BY <1>19 DEF SaveConfig
  <2>2. UNCHANGED <<snapshot, project, seen>> /\ pc' = [pc EXCEPT ![p] = "done"]
    BY <1>19 DEF SaveConfig
  <2> QED
    BY <2>1, <2>2
<1>20. ASSUME NEW p \in Procs, Preview(p) PROVE SeenInv'
  BY <1>20 DEF Preview
<1>21. ASSUME NEW p \in Procs, Confirm(p) PROVE SeenInv'
  BY <1>21 DEF Confirm
<1>22. ASSUME NEW p \in Procs, CancelUpdate(p) PROVE SeenInv'
  BY <1>22 DEF CancelUpdate
<1>23. ASSUME NEW p \in Procs, LockCopy(p) PROVE SeenInv'
  BY <1>23 DEF LockCopy
<1>24. ASSUME NEW p \in Procs, Copy(p) PROVE SeenInv'
  BY <1>24 DEF Copy
<1>25. ASSUME NEW p \in Procs, CopyFails(p) PROVE SeenInv'
  BY <1>25 DEF CopyFails
<1>26. ASSUME NEW p \in Procs, Rewrite(p) PROVE SeenInv'
  <2>1. config'.legacy = NoEntries
    BY <1>26 DEF Rewrite
  <2>2. UNCHANGED <<snapshot, project, seen>> /\ pc' = [pc EXCEPT ![p] = "done"]
    BY <1>26 DEF Rewrite
  <2>3. \A q \in Procs : pc[q] = "readConfig" => Effective(config'.legacy, project[q]) = {}
    BY <2>1, NothingInForce
  <2> QED
    BY <2>2, <2>3
<1>27. ASSUME NEW p \in Procs, Kill(p) PROVE SeenInv'
  BY <1>27 DEF Kill
<1>28. CASE UNCHANGED vars
  BY <1>28 DEF vars
<1> QED
  BY <1>1, <1>2, <1>3, <1>4, <1>5, <1>6, <1>7, <1>8, <1>9, <1>10, <1>11, <1>12, <1>13, <1>14,
     <1>15, <1>16, <1>17, <1>18, <1>19, <1>20, <1>21, <1>22, <1>23, <1>24, <1>25, <1>26, <1>27,
     <1>28 DEF Next

\* What a process read was granted at some time during its gate; what its gate let through, the
\* user consented to; and what it does not run yet, it has not run.
ConsentInv == \A p \in Procs :
    /\ pc[p] = "loaded" => Effective(loaded[p], project[p]) \subseteq seen[p]
    /\ pc[p] = "prompt" /\ job[p] = "run" => UNION plan[p] \subseteq consented[p] \cup ask[p]
    /\ pc[p] \in {"lock", "save"} /\ job[p] = "run" => UNION plan[p] \subseteq consented[p]
    /\ pc[p] = "execute" => UNION plan[p] \subseteq consented[p]
    /\ pc[p] \notin {"done", "killed"} => ran[p] = {}
    /\ ran[p] \subseteq consented[p]

LEMMA ConsentStep == Types /\ GrantInv /\ SeenInv /\ ConsentInv /\ [Next]_vars => ConsentInv'
<1> SUFFICES ASSUME Types, GrantInv, SeenInv, ConsentInv, [Next]_vars PROVE ConsentInv'
  OBVIOUS
<1> USE DEF Types, PcType, RoleInv, AskType, FileType, HistoryType, ConsentInv, Goto, Step, Unlock, Conclude, files, own, history
<1>1. ASSUME NEW p \in Procs, Start(p) PROVE ConsentInv'
  BY <1>1, FirstLabel DEF Start
<1>2. ASSUME NEW p \in Procs, Select(p) PROVE ConsentInv'
  <2>1. PICK s \in ProjectConfigs :
            /\ plan' = [plan EXCEPT ![p] = s]
            /\ pc' = [pc EXCEPT ![p] = IF UNION s = {} \/ job[p] = "runYes" THEN "execute" ELSE "look"]
            /\ consented' = [consented EXCEPT ![p] = IF job[p] = "runYes" THEN UNION s ELSE {}]
    BY <1>2 DEF Select
  <2>2. UNCHANGED <<job, project, loaded, ask, seen, ran>> /\ pc[p] = "select"
    BY <1>2 DEF Select
  <2>3. pc'[p] = "execute" => UNION plan'[p] \subseteq consented'[p]
    BY <2>1
  <2>4. ran[p] = {} /\ pc'[p] \in {"execute", "look"}
    BY <2>1, <2>2
  <2> QED
    BY <2>1, <2>2, <2>3, <2>4
<1>3. ASSUME NEW p \in Procs, Execute(p) PROVE ConsentInv'
  BY <1>3 DEF Execute
<1>4. ASSUME NEW p \in Procs, Look(p) PROVE ConsentInv'
  BY <1>4 DEF Look
<1>5. ASSUME NEW p \in Procs, Read(p) PROVE ConsentInv'
  <2>1. pc[p] \in {"read", "readConfig"} /\ project[p] \in Projects
    BY <1>5 DEF Read
  <2>2. /\ UNCHANGED <<job, project, plan, ask, consented, ran>> /\ pc' = [pc EXCEPT ![p] = "loaded"]
        /\ loaded' = [loaded EXCEPT ![p] = IF pc[p] = "read" THEN file ELSE config.legacy]
        /\ seen' = [seen EXCEPT ![p] = @ \cup Granted(project[p])]
    BY <1>5 DEF Read
  <2>3. Effective(loaded'[p], project[p]) \subseteq seen'[p]
    <3>1. CASE pc[p] = "read"
      <4>1. loaded'[p] = Authority
        BY <2>2, <3>1 DEF Authority
      <4> QED
        BY <2>1, <2>2, <4>1, InForce
    <3>2. CASE pc[p] = "readConfig"
      <4>1. loaded'[p] = config.legacy
        BY <2>2, <3>2
      <4> QED
        BY <2>2, <3>2, <4>1 DEF SeenInv
    <3> QED
      BY <2>1, <3>1, <3>2
  <2>4. ran[p] = {}
    BY <2>1
  <2> QED
    BY <2>2, <2>3, <2>4
<1>6. ASSUME NEW p \in Procs, Gate(p) PROVE ConsentInv'
  <2>1. pc[p] = "loaded" /\ UNCHANGED <<job, project, plan, loaded, seen, ran>>
    BY <1>6 DEF Gate
  <2>2. PICK needs : needs = {c \in UNION plan[p] : ~Approved(loaded[p], project[p], c)}
    OBVIOUS
  <2>3. /\ ask' = [ask EXCEPT ![p] = needs]
        /\ pc' = [pc EXCEPT ![p] = IF needs = {} THEN "execute" ELSE "prompt"]
        /\ consented' = [consented EXCEPT ![p] = {c \in Commands : Norm[c] \in seen[p]}]
    BY <1>6, <2>2 DEF Gate
  <2>4. \A c \in UNION plan[p] : c \in Commands /\ (Approved(loaded[p], project[p], c) => Norm[c] \in seen[p])
    BY <2>1 DEF Approved
  <2>5. UNION plan[p] \subseteq consented'[p] \cup needs
    BY <2>2, <2>3, <2>4
  <2>6. ran[p] = {} /\ pc'[p] \in {"execute", "prompt"} /\ ask'[p] = needs /\ (pc'[p] = "execute" => needs = {})
    BY <2>1, <2>3
  <2> QED
    BY <2>1, <2>3, <2>5, <2>6
<1>7. ASSUME NEW p \in Procs, Filter(p) PROVE ConsentInv'
  <2>1. pc[p] = "loaded" /\ UNCHANGED <<job, project, loaded, ask, seen, ran>>
    BY <1>7 DEF Filter
  <2>2. PICK s \in ProjectConfigs :
            plan' = [plan EXCEPT ![p] = {w \in s : \A c \in w : Approved(loaded[p], project[p], c)}]
    BY <1>7 DEF Filter
  <2>3. /\ pc' = [pc EXCEPT ![p] = "execute"]
        /\ consented' = [consented EXCEPT ![p] = {c \in Commands : Norm[c] \in seen[p]}]
    BY <1>7 DEF Filter
  <2>4. \A c \in UNION plan'[p] : c \in Commands /\ Approved(loaded[p], project[p], c)
    BY <2>2, ApprovalsAssumption
  <2>5. UNION plan'[p] \subseteq consented'[p]
    BY <2>1, <2>3, <2>4 DEF Approved
  <2>6. ran[p] = {} /\ pc'[p] = "execute"
    BY <2>1, <2>3
  <2> QED
    BY <2>1, <2>2, <2>3, <2>5, <2>6
<1>8. ASSUME NEW p \in Procs, Review(p) PROVE ConsentInv'
  BY <1>8 DEF Review
<1>9. ASSUME NEW p \in Procs, Accept(p) PROVE ConsentInv'
  BY <1>9 DEF Accept
<1>10. ASSUME NEW p \in Procs, Decline(p) PROVE ConsentInv'
  BY <1>10 DEF Decline
<1>11. ASSUME NEW p \in Procs, Count(p) PROVE ConsentInv'
  BY <1>11 DEF Count
<1>12. ASSUME NEW p \in Procs, ReadTemplates(p) PROVE ConsentInv'
  BY <1>12 DEF ReadTemplates
<1>13. ASSUME NEW p \in Procs, Lock(p) PROVE ConsentInv'
  BY <1>13 DEF Lock
<1>14. ASSUME NEW p \in Procs, Approve(p) PROVE ConsentInv'
  BY <1>14 DEF Approve
<1>15. ASSUME NEW p \in Procs, Revoke(p) PROVE ConsentInv'
  BY <1>15 DEF Revoke
<1>16. ASSUME NEW p \in Procs, RevokeStale(p) PROVE ConsentInv'
  BY <1>16 DEF RevokeStale
<1>17. ASSUME NEW p \in Procs, SaveFails(p) PROVE ConsentInv'
  BY <1>17 DEF SaveFails
<1>18. ASSUME NEW p \in Procs, LockConfig(p) PROVE ConsentInv'
  BY <1>18 DEF LockConfig
<1>19. ASSUME NEW p \in Procs, SaveConfig(p) PROVE ConsentInv'
  BY <1>19 DEF SaveConfig
<1>20. ASSUME NEW p \in Procs, Preview(p) PROVE ConsentInv'
  BY <1>20 DEF Preview
<1>21. ASSUME NEW p \in Procs, Confirm(p) PROVE ConsentInv'
  BY <1>21 DEF Confirm
<1>22. ASSUME NEW p \in Procs, CancelUpdate(p) PROVE ConsentInv'
  BY <1>22 DEF CancelUpdate
<1>23. ASSUME NEW p \in Procs, LockCopy(p) PROVE ConsentInv'
  BY <1>23 DEF LockCopy
<1>24. ASSUME NEW p \in Procs, Copy(p) PROVE ConsentInv'
  BY <1>24 DEF Copy
<1>25. ASSUME NEW p \in Procs, CopyFails(p) PROVE ConsentInv'
  BY <1>25 DEF CopyFails
<1>26. ASSUME NEW p \in Procs, Rewrite(p) PROVE ConsentInv'
  BY <1>26 DEF Rewrite
<1>27. ASSUME NEW p \in Procs, Kill(p) PROVE ConsentInv'
  BY <1>27 DEF Kill
<1>28. CASE UNCHANGED vars
  BY <1>28 DEF vars
<1> QED
  BY <1>1, <1>2, <1>3, <1>4, <1>5, <1>6, <1>7, <1>8, <1>9, <1>10, <1>11, <1>12, <1>13, <1>14,
     <1>15, <1>16, <1>17, <1>18, <1>19, <1>20, <1>21, <1>22, <1>23, <1>24, <1>25, <1>26, <1>27,
     <1>28 DEF Next

-----------------------------------------------------------------------------
(* config.toml *)

Updating == {"preview", "confirm", "lockCopy", "copy", "rewrite"}
UpdateInv == \A p \in Procs : pc[p] \in Updating => job[p] = "update"

LEMMA UpdateStep == Types /\ UpdateInv /\ [Next]_vars => UpdateInv'
<1> SUFFICES ASSUME Types, UpdateInv, [Next]_vars PROVE UpdateInv'
  OBVIOUS
<1> USE DEF Types, PcType, RoleInv, UpdateInv, Updating, Goto, Step, Unlock, Conclude, own
<1>1. ASSUME NEW p \in Procs, Start(p) PROVE UpdateInv'
  <2>1. PICK j \in Jobs, q \in Projects :
            job' = [job EXCEPT ![p] = j] /\ pc' = [pc EXCEPT ![p] = First(j)]
    BY <1>1 DEF Start
  <2>2. First(j) \in Updating => j = "update"
    BY DEF First
  <2> QED
    BY <2>1, <2>2
<1>2. ASSUME NEW p \in Procs, Select(p) PROVE UpdateInv'
  BY <1>2 DEF Select
<1>3. ASSUME NEW p \in Procs, Execute(p) PROVE UpdateInv'
  BY <1>3 DEF Execute
<1>4. ASSUME NEW p \in Procs, Look(p) PROVE UpdateInv'
  BY <1>4 DEF Look
<1>5. ASSUME NEW p \in Procs, Read(p) PROVE UpdateInv'
  BY <1>5 DEF Read
<1>6. ASSUME NEW p \in Procs, Gate(p) PROVE UpdateInv'
  BY <1>6 DEF Gate
<1>7. ASSUME NEW p \in Procs, Filter(p) PROVE UpdateInv'
  BY <1>7 DEF Filter
<1>8. ASSUME NEW p \in Procs, Review(p) PROVE UpdateInv'
  BY <1>8 DEF Review
<1>9. ASSUME NEW p \in Procs, Accept(p) PROVE UpdateInv'
  BY <1>9 DEF Accept
<1>10. ASSUME NEW p \in Procs, Decline(p) PROVE UpdateInv'
  BY <1>10 DEF Decline
<1>11. ASSUME NEW p \in Procs, Count(p) PROVE UpdateInv'
  BY <1>11 DEF Count
<1>12. ASSUME NEW p \in Procs, ReadTemplates(p) PROVE UpdateInv'
  BY <1>12 DEF ReadTemplates
<1>13. ASSUME NEW p \in Procs, Lock(p) PROVE UpdateInv'
  BY <1>13 DEF Lock
<1>14. ASSUME NEW p \in Procs, Approve(p) PROVE UpdateInv'
  BY <1>14 DEF Approve
<1>15. ASSUME NEW p \in Procs, Revoke(p) PROVE UpdateInv'
  BY <1>15 DEF Revoke
<1>16. ASSUME NEW p \in Procs, RevokeStale(p) PROVE UpdateInv'
  BY <1>16 DEF RevokeStale
<1>17. ASSUME NEW p \in Procs, SaveFails(p) PROVE UpdateInv'
  BY <1>17 DEF SaveFails
<1>18. ASSUME NEW p \in Procs, LockConfig(p) PROVE UpdateInv'
  BY <1>18 DEF LockConfig
<1>19. ASSUME NEW p \in Procs, SaveConfig(p) PROVE UpdateInv'
  BY <1>19 DEF SaveConfig
<1>20. ASSUME NEW p \in Procs, Preview(p) PROVE UpdateInv'
  BY <1>20 DEF Preview
<1>21. ASSUME NEW p \in Procs, Confirm(p) PROVE UpdateInv'
  BY <1>21 DEF Confirm
<1>22. ASSUME NEW p \in Procs, CancelUpdate(p) PROVE UpdateInv'
  BY <1>22 DEF CancelUpdate
<1>23. ASSUME NEW p \in Procs, LockCopy(p) PROVE UpdateInv'
  BY <1>23 DEF LockCopy
<1>24. ASSUME NEW p \in Procs, Copy(p) PROVE UpdateInv'
  BY <1>24 DEF Copy
<1>25. ASSUME NEW p \in Procs, CopyFails(p) PROVE UpdateInv'
  BY <1>25 DEF CopyFails
<1>26. ASSUME NEW p \in Procs, Rewrite(p) PROVE UpdateInv'
  BY <1>26 DEF Rewrite
<1>27. ASSUME NEW p \in Procs, Kill(p) PROVE UpdateInv'
  BY <1>27 DEF Kill
<1>28. CASE UNCHANGED vars
  BY <1>28 DEF vars
<1> QED
  BY <1>1, <1>2, <1>3, <1>4, <1>5, <1>6, <1>7, <1>8, <1>9, <1>10, <1>11, <1>12, <1>13, <1>14,
     <1>15, <1>16, <1>17, <1>18, <1>19, <1>20, <1>21, <1>22, <1>23, <1>24, <1>25, <1>26, <1>27,
     <1>28 DEF Next

\* What a writer of config.toml is about to write back has every setting there is, but for those an
\* update's rewrite put there since.
Rewritten == \E q \in Procs : pc[q] = "done" /\ job[q] = "update" /\ config.settings = snapshot[q].settings
ConfigInv == \A p \in Procs : pc[p] = "saveConfig" => config.settings \subseteq snapshot[p].settings \/ Rewritten

\* Who is done stays done, with what it read.
LEMMA DoneStays == PcType /\ [Next]_vars =>
    \A q \in Procs : pc[q] = "done" => pc'[q] = "done" /\ job'[q] = job[q] /\ snapshot'[q] = snapshot[q]
<1> SUFFICES ASSUME PcType, [Next]_vars, NEW q \in Procs, pc[q] = "done"
             PROVE  pc'[q] = "done" /\ job'[q] = job[q] /\ snapshot'[q] = snapshot[q]
  OBVIOUS
<1> USE DEF PcType, Goto, Step, Unlock, own
<1>1. ASSUME NEW p \in Procs, Start(p) PROVE pc'[q] = "done" /\ job'[q] = job[q] /\ snapshot'[q] = snapshot[q]
  BY <1>1 DEF Start
<1>2. ASSUME NEW p \in Procs, Select(p) PROVE pc'[q] = "done" /\ job'[q] = job[q] /\ snapshot'[q] = snapshot[q]
  BY <1>2 DEF Select
<1>3. ASSUME NEW p \in Procs, Execute(p) PROVE pc'[q] = "done" /\ job'[q] = job[q] /\ snapshot'[q] = snapshot[q]
  BY <1>3 DEF Execute
<1>4. ASSUME NEW p \in Procs, Look(p) PROVE pc'[q] = "done" /\ job'[q] = job[q] /\ snapshot'[q] = snapshot[q]
  BY <1>4 DEF Look
<1>5. ASSUME NEW p \in Procs, Read(p) PROVE pc'[q] = "done" /\ job'[q] = job[q] /\ snapshot'[q] = snapshot[q]
  BY <1>5 DEF Read
<1>6. ASSUME NEW p \in Procs, Gate(p) PROVE pc'[q] = "done" /\ job'[q] = job[q] /\ snapshot'[q] = snapshot[q]
  BY <1>6 DEF Gate
<1>7. ASSUME NEW p \in Procs, Filter(p) PROVE pc'[q] = "done" /\ job'[q] = job[q] /\ snapshot'[q] = snapshot[q]
  BY <1>7 DEF Filter
<1>8. ASSUME NEW p \in Procs, Review(p) PROVE pc'[q] = "done" /\ job'[q] = job[q] /\ snapshot'[q] = snapshot[q]
  BY <1>8 DEF Review
<1>9. ASSUME NEW p \in Procs, Accept(p) PROVE pc'[q] = "done" /\ job'[q] = job[q] /\ snapshot'[q] = snapshot[q]
  BY <1>9 DEF Accept
<1>10. ASSUME NEW p \in Procs, Decline(p) PROVE pc'[q] = "done" /\ job'[q] = job[q] /\ snapshot'[q] = snapshot[q]
  BY <1>10 DEF Decline
<1>11. ASSUME NEW p \in Procs, Count(p) PROVE pc'[q] = "done" /\ job'[q] = job[q] /\ snapshot'[q] = snapshot[q]
  BY <1>11 DEF Count
<1>12. ASSUME NEW p \in Procs, ReadTemplates(p) PROVE pc'[q] = "done" /\ job'[q] = job[q] /\ snapshot'[q] = snapshot[q]
  BY <1>12 DEF ReadTemplates
<1>13. ASSUME NEW p \in Procs, Lock(p) PROVE pc'[q] = "done" /\ job'[q] = job[q] /\ snapshot'[q] = snapshot[q]
  BY <1>13 DEF Lock
<1>14. ASSUME NEW p \in Procs, Approve(p) PROVE pc'[q] = "done" /\ job'[q] = job[q] /\ snapshot'[q] = snapshot[q]
  BY <1>14 DEF Approve
<1>15. ASSUME NEW p \in Procs, Revoke(p) PROVE pc'[q] = "done" /\ job'[q] = job[q] /\ snapshot'[q] = snapshot[q]
  BY <1>15 DEF Revoke
<1>16. ASSUME NEW p \in Procs, RevokeStale(p) PROVE pc'[q] = "done" /\ job'[q] = job[q] /\ snapshot'[q] = snapshot[q]
  BY <1>16 DEF RevokeStale
<1>17. ASSUME NEW p \in Procs, SaveFails(p) PROVE pc'[q] = "done" /\ job'[q] = job[q] /\ snapshot'[q] = snapshot[q]
  BY <1>17 DEF SaveFails
<1>18. ASSUME NEW p \in Procs, LockConfig(p) PROVE pc'[q] = "done" /\ job'[q] = job[q] /\ snapshot'[q] = snapshot[q]
  BY <1>18 DEF LockConfig
<1>19. ASSUME NEW p \in Procs, SaveConfig(p) PROVE pc'[q] = "done" /\ job'[q] = job[q] /\ snapshot'[q] = snapshot[q]
  BY <1>19 DEF SaveConfig
<1>20. ASSUME NEW p \in Procs, Preview(p) PROVE pc'[q] = "done" /\ job'[q] = job[q] /\ snapshot'[q] = snapshot[q]
  BY <1>20 DEF Preview
<1>21. ASSUME NEW p \in Procs, Confirm(p) PROVE pc'[q] = "done" /\ job'[q] = job[q] /\ snapshot'[q] = snapshot[q]
  BY <1>21 DEF Confirm
<1>22. ASSUME NEW p \in Procs, CancelUpdate(p) PROVE pc'[q] = "done" /\ job'[q] = job[q] /\ snapshot'[q] = snapshot[q]
  BY <1>22 DEF CancelUpdate
<1>23. ASSUME NEW p \in Procs, LockCopy(p) PROVE pc'[q] = "done" /\ job'[q] = job[q] /\ snapshot'[q] = snapshot[q]
  BY <1>23 DEF LockCopy
<1>24. ASSUME NEW p \in Procs, Copy(p) PROVE pc'[q] = "done" /\ job'[q] = job[q] /\ snapshot'[q] = snapshot[q]
  BY <1>24 DEF Copy
<1>25. ASSUME NEW p \in Procs, CopyFails(p) PROVE pc'[q] = "done" /\ job'[q] = job[q] /\ snapshot'[q] = snapshot[q]
  BY <1>25 DEF CopyFails
<1>26. ASSUME NEW p \in Procs, Rewrite(p) PROVE pc'[q] = "done" /\ job'[q] = job[q] /\ snapshot'[q] = snapshot[q]
  BY <1>26 DEF Rewrite
<1>27. ASSUME NEW p \in Procs, Kill(p) PROVE pc'[q] = "done" /\ job'[q] = job[q] /\ snapshot'[q] = snapshot[q]
  BY <1>27 DEF Kill
<1>28. CASE UNCHANGED vars
  BY <1>28 DEF vars
<1> QED
  BY <1>1, <1>2, <1>3, <1>4, <1>5, <1>6, <1>7, <1>8, <1>9, <1>10, <1>11, <1>12, <1>13, <1>14,
     <1>15, <1>16, <1>17, <1>18, <1>19, <1>20, <1>21, <1>22, <1>23, <1>24, <1>25, <1>26, <1>27,
     <1>28 DEF Next

LEMMA ConfigStep == Types /\ UpdateInv /\ ConfigInv /\ [Next]_vars => ConfigInv'
<1> SUFFICES ASSUME Types, UpdateInv, ConfigInv, [Next]_vars PROVE ConfigInv'
  OBVIOUS
<1>0. config' = config => (Rewritten => Rewritten')
  BY DoneStays DEF Types, Rewritten
<1> USE ApprovalsAssumption DEF Types, PcType, FileType, LockInv, ConfigInv, Goto, Step, Unlock, Conclude, files, locks, own
<1>1. ASSUME NEW p \in Procs, Start(p) PROVE ConfigInv'
  <2>1. config' = config /\ \A q \in Procs : pc'[q] = "saveConfig" => pc[q] = "saveConfig" /\ snapshot'[q] = snapshot[q]
    BY <1>1, FirstLabel DEF Start
  <2> QED
    BY <2>1, <1>0
<1>2. ASSUME NEW p \in Procs, Select(p) PROVE ConfigInv'
  <2>1. config' = config /\ \A q \in Procs : pc'[q] = "saveConfig" => pc[q] = "saveConfig" /\ snapshot'[q] = snapshot[q]
    BY <1>2 DEF Select
  <2> QED
    BY <2>1, <1>0
<1>3. ASSUME NEW p \in Procs, Execute(p) PROVE ConfigInv'
  <2>1. config' = config /\ \A q \in Procs : pc'[q] = "saveConfig" => pc[q] = "saveConfig" /\ snapshot'[q] = snapshot[q]
    BY <1>3 DEF Execute
  <2> QED
    BY <2>1, <1>0
<1>4. ASSUME NEW p \in Procs, Look(p) PROVE ConfigInv'
  <2>1. config' = config /\ \A q \in Procs : pc'[q] = "saveConfig" => pc[q] = "saveConfig" /\ snapshot'[q] = snapshot[q]
    BY <1>4 DEF Look
  <2> QED
    BY <2>1, <1>0
<1>5. ASSUME NEW p \in Procs, Read(p) PROVE ConfigInv'
  <2>1. config' = config /\ \A q \in Procs : pc'[q] = "saveConfig" => pc[q] = "saveConfig" /\ snapshot'[q] = snapshot[q]
    BY <1>5 DEF Read
  <2> QED
    BY <2>1, <1>0
<1>6. ASSUME NEW p \in Procs, Gate(p) PROVE ConfigInv'
  <2>1. config' = config /\ \A q \in Procs : pc'[q] = "saveConfig" => pc[q] = "saveConfig" /\ snapshot'[q] = snapshot[q]
    BY <1>6 DEF Gate
  <2> QED
    BY <2>1, <1>0
<1>7. ASSUME NEW p \in Procs, Filter(p) PROVE ConfigInv'
  <2>1. config' = config /\ \A q \in Procs : pc'[q] = "saveConfig" => pc[q] = "saveConfig" /\ snapshot'[q] = snapshot[q]
    BY <1>7 DEF Filter
  <2> QED
    BY <2>1, <1>0
<1>8. ASSUME NEW p \in Procs, Review(p) PROVE ConfigInv'
  <2>1. config' = config /\ \A q \in Procs : pc'[q] = "saveConfig" => pc[q] = "saveConfig" /\ snapshot'[q] = snapshot[q]
    BY <1>8 DEF Review
  <2> QED
    BY <2>1, <1>0
<1>9. ASSUME NEW p \in Procs, Accept(p) PROVE ConfigInv'
  <2>1. config' = config /\ \A q \in Procs : pc'[q] = "saveConfig" => pc[q] = "saveConfig" /\ snapshot'[q] = snapshot[q]
    BY <1>9 DEF Accept
  <2> QED
    BY <2>1, <1>0
<1>10. ASSUME NEW p \in Procs, Decline(p) PROVE ConfigInv'
  <2>1. config' = config /\ \A q \in Procs : pc'[q] = "saveConfig" => pc[q] = "saveConfig" /\ snapshot'[q] = snapshot[q]
    BY <1>10 DEF Decline
  <2> QED
    BY <2>1, <1>0
<1>11. ASSUME NEW p \in Procs, Count(p) PROVE ConfigInv'
  <2>1. config' = config /\ \A q \in Procs : pc'[q] = "saveConfig" => pc[q] = "saveConfig" /\ snapshot'[q] = snapshot[q]
    BY <1>11 DEF Count
  <2> QED
    BY <2>1, <1>0
<1>12. ASSUME NEW p \in Procs, ReadTemplates(p) PROVE ConfigInv'
  <2>1. config' = config /\ \A q \in Procs : pc'[q] = "saveConfig" => pc[q] = "saveConfig" /\ snapshot'[q] = snapshot[q]
    BY <1>12 DEF ReadTemplates
  <2> QED
    BY <2>1, <1>0
<1>13. ASSUME NEW p \in Procs, Lock(p) PROVE ConfigInv'
  <2>1. config' = config /\ \A q \in Procs : pc'[q] = "saveConfig" => pc[q] = "saveConfig" /\ snapshot'[q] = snapshot[q]
    BY <1>13 DEF Lock
  <2> QED
    BY <2>1, <1>0
<1>14. ASSUME NEW p \in Procs, Approve(p) PROVE ConfigInv'
  <2>1. config' = config /\ \A q \in Procs : pc'[q] = "saveConfig" => pc[q] = "saveConfig" /\ snapshot'[q] = snapshot[q]
    BY <1>14 DEF Approve
  <2> QED
    BY <2>1, <1>0
<1>15. ASSUME NEW p \in Procs, Revoke(p) PROVE ConfigInv'
  <2>1. config' = config /\ \A q \in Procs : pc'[q] = "saveConfig" => pc[q] = "saveConfig" /\ snapshot'[q] = snapshot[q]
    BY <1>15 DEF Revoke
  <2> QED
    BY <2>1, <1>0
<1>16. ASSUME NEW p \in Procs, RevokeStale(p) PROVE ConfigInv'
  <2>1. config' = config /\ \A q \in Procs : pc'[q] = "saveConfig" => pc[q] = "saveConfig" /\ snapshot'[q] = snapshot[q]
    BY <1>16 DEF RevokeStale
  <2> QED
    BY <2>1, <1>0
<1>17. ASSUME NEW p \in Procs, SaveFails(p) PROVE ConfigInv'
  <2>1. config' = config /\ \A q \in Procs : pc'[q] = "saveConfig" => pc[q] = "saveConfig" /\ snapshot'[q] = snapshot[q]
    BY <1>17 DEF SaveFails
  <2> QED
    BY <2>1, <1>0
<1>18. ASSUME NEW p \in Procs, LockConfig(p) PROVE ConfigInv'
  <2>1. config' = config /\ snapshot' = [snapshot EXCEPT ![p] = config] /\ configLock = None
    BY <1>18 DEF LockConfig
  <2>2. \A q \in Procs : pc'[q] = "saveConfig" => q = p
    BY <1>18, <2>1 DEF LockConfig
  <2> QED
    BY <2>1, <2>2
<1>19. ASSUME NEW p \in Procs, SaveConfig(p) PROVE ConfigInv'
  <2>1. \A q \in Procs : pc[q] = "saveConfig" => q = p
    BY <1>19 DEF SaveConfig
  <2>2. pc' = [pc EXCEPT ![p] = "done"]
    BY <1>19 DEF SaveConfig
  <2> QED
    BY <2>1, <2>2
<1>20. ASSUME NEW p \in Procs, Preview(p) PROVE ConfigInv'
  <2>1. config' = config /\ \A q \in Procs : pc'[q] = "saveConfig" => pc[q] = "saveConfig" /\ snapshot'[q] = snapshot[q]
    BY <1>20 DEF Preview
  <2> QED
    BY <2>1, <1>0
<1>21. ASSUME NEW p \in Procs, Confirm(p) PROVE ConfigInv'
  <2>1. config' = config /\ \A q \in Procs : pc'[q] = "saveConfig" => pc[q] = "saveConfig" /\ snapshot'[q] = snapshot[q]
    BY <1>21 DEF Confirm
  <2> QED
    BY <2>1, <1>0
<1>22. ASSUME NEW p \in Procs, CancelUpdate(p) PROVE ConfigInv'
  <2>1. config' = config /\ \A q \in Procs : pc'[q] = "saveConfig" => pc[q] = "saveConfig" /\ snapshot'[q] = snapshot[q]
    BY <1>22 DEF CancelUpdate
  <2> QED
    BY <2>1, <1>0
<1>23. ASSUME NEW p \in Procs, LockCopy(p) PROVE ConfigInv'
  <2>1. config' = config /\ \A q \in Procs : pc'[q] = "saveConfig" => pc[q] = "saveConfig" /\ snapshot'[q] = snapshot[q]
    BY <1>23 DEF LockCopy
  <2> QED
    BY <2>1, <1>0
<1>24. ASSUME NEW p \in Procs, Copy(p) PROVE ConfigInv'
  <2>1. config' = config /\ \A q \in Procs : pc'[q] = "saveConfig" => pc[q] = "saveConfig" /\ snapshot'[q] = snapshot[q]
    BY <1>24 DEF Copy
  <2> QED
    BY <2>1, <1>0
<1>25. ASSUME NEW p \in Procs, CopyFails(p) PROVE ConfigInv'
  <2>1. config' = config /\ \A q \in Procs : pc'[q] = "saveConfig" => pc[q] = "saveConfig" /\ snapshot'[q] = snapshot[q]
    BY <1>25 DEF CopyFails
  <2> QED
    BY <2>1, <1>0
<1>26. ASSUME NEW p \in Procs, Rewrite(p) PROVE ConfigInv'
  <2>1. config'.settings = snapshot[p].settings /\ UNCHANGED <<job, snapshot>> /\ pc[p] = "rewrite"
    BY <1>26 DEF Rewrite
  <2>2. pc'[p] = "done" /\ job[p] = "update"
    BY <1>26, <2>1 DEF Rewrite, UpdateInv, Updating
  <2>3. Rewritten'
    BY <2>1, <2>2 DEF Rewritten
  <2> QED
    BY <2>3
<1>27. ASSUME NEW p \in Procs, Kill(p) PROVE ConfigInv'
  <2>1. config' = config /\ \A q \in Procs : pc'[q] = "saveConfig" => pc[q] = "saveConfig" /\ snapshot'[q] = snapshot[q]
    BY <1>27 DEF Kill
  <2> QED
    BY <2>1, <1>0
<1>28. CASE UNCHANGED vars
  BY <1>0, <1>28 DEF vars
<1> QED
  BY <1>1, <1>2, <1>3, <1>4, <1>5, <1>6, <1>7, <1>8, <1>9, <1>10, <1>11, <1>12, <1>13, <1>14,
     <1>15, <1>16, <1>17, <1>18, <1>19, <1>20, <1>21, <1>22, <1>23, <1>24, <1>25, <1>26, <1>27,
     <1>28 DEF Next

-----------------------------------------------------------------------------
(* The theorems *)

IInv ==
    /\ Types /\ LegacyInv /\ LoadInv /\ GrantInv
    /\ SeenInv /\ ConsentInv /\ UpdateInv /\ ConfigInv

LEMMA IInvInit == Init => IInv
<1> SUFFICES ASSUME Init PROVE IInv
  OBVIOUS
<1>1. Types
  BY TypesInit
<1>2. LegacyInv /\ LoadInv /\ GrantInv
  BY DEF Init, LegacyInv, LoadInv, GrantInv
<1>3. SeenInv /\ ConsentInv /\ UpdateInv /\ ConfigInv
  BY DEF Init, SeenInv, ConsentInv, UpdateInv, Updating, ConfigInv
<1> QED
  BY <1>1, <1>2, <1>3 DEF IInv

LEMMA IInvStep == IInv /\ [Next]_vars => IInv'
BY TypesStep, LegacyStep, LoadStep, GrantStep, SeenStep, ConsentStep, UpdateStep,
   ConfigStep DEF IInv

LEMMA Invariance == Spec => []IInv
BY IInvInit, IInvStep, PTL DEF Spec

\* For any processes, projects and approvals to start from: every variable keeps its type, and a
\* process that is about to write either file holds that file's lock (acquire_config_lock).
THEOREM TypesCorrect == Spec => []TypeOK
<1>1. IInv => TypeOK
  BY TypesTypeOK DEF IInv
<1> QED
  BY <1>1, Invariance, PTL

\* Whatever the processes interleave, no approval is in force that the user did not give or has
\* taken back: neither the fall-back to config.toml, nor its migration, nor a write from an old
\* read brings one back (Approvals::with_locked_mutation, wt config update).
THEOREM NoApprovalRevived == Spec => []NoneRevived
<1>1. IInv => NoneRevived
  BY InForce DEF IInv, NoneRevived
<1> QED
  BY <1>1, Invariance, PTL

\* Whatever the processes interleave, an approval the user gave and did not take back stays in
\* force, even while config.toml is rewritten without its approved-commands.
THEOREM NoApprovalLost == Spec => []NoneLost
<1>1. IInv => NoneLost
  BY InForce DEF IInv, NoneLost
<1> QED
  BY <1>1, Invariance, PTL

\* Whatever a process runs, the user consented to at its prompt, passed --yes, or had approved at some
\* time during its gate: also when it looked for approvals.toml before the file was created and read
\* config.toml after it was rewritten (HookPlan::approve, approve_command_batch).
THEOREM RunsAreConsented == Spec => []OnlyConsentedRun
<1>1. IInv => OnlyConsentedRun
  BY DEF IInv, ConsentInv, OnlyConsentedRun
<1> QED
  BY <1>1, Invariance, PTL

\* Whatever the processes interleave, wt's own writers of config.toml do not undo each other: only an
\* update's rewrite loses a setting, or had put back the one that is lost
\* (UserConfig::with_locked_mutation; wt config update takes no lock).
THEOREM SavesAreKept == Spec => SettingsKeptByWriters
<1> DEFINE Kept == \/ config.settings \subseteq config'.settings
                   \/ \E p \in Procs : pc[p] = "rewrite" /\ pc'[p] = "done"
                   \/ \E p \in Procs : pc[p] = "done" /\ job[p] = "update" /\ config.settings = snapshot[p].settings
<1>1. IInv /\ [Next]_vars => [Kept]_vars
  <2> SUFFICES ASSUME IInv, [Next]_vars PROVE Kept
    OBVIOUS
  <2>1. ASSUME NEW p \in Procs, SaveConfig(p) PROVE Kept
    <3>1. pc[p] = "saveConfig" /\ snapshot[p].settings \subseteq config'.settings
      BY <2>1 DEF SaveConfig, Step
    <3> QED
      BY <3>1 DEF IInv, ConfigInv, Rewritten
  <2>2. ASSUME NEW p \in Procs, Rewrite(p) PROVE Kept
    <3>1. pc[p] = "rewrite" /\ pc'[p] = "done"
      BY <2>2 DEF Rewrite, Step, Goto, IInv, Types, PcType
    <3> QED
      BY <3>1
  <2>3. CASE config' = config
    BY <2>3
  <2> QED
    BY <2>1, <2>2, <2>3, ZenonT(60) DEF Next, vars, files, locks, own, history, Start, Select, Execute, Look, Read,
     Gate, Filter, Review, Accept, Decline, Count, ReadTemplates, Lock, Approve, Revoke, RevokeStale,
     SaveFails, LockConfig, Preview, Confirm, CancelUpdate, LockCopy, Copy, CopyFails, Kill
<1> QED
  BY <1>1, Invariance, PTL DEF Spec, SettingsKeptByWriters
=============================================================================
