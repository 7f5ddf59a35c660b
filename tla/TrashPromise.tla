---------------------------- MODULE TrashPromise ----------------------------
(***************************************************************************)
(* What the trash promises, whoever empties it: a worktree is staged once, *)
(* only a staged and deletable entry disappears, it disappears once, and   *)
(* nothing returns.  A fault may orphan the entries present; the next      *)
(* command that looks at the trash takes them back.                        *)
(***************************************************************************)
CONSTANTS Entries, Stubborn

VARIABLES trash, unused, orphaned

vars == <<trash, unused, orphaned>>

Init ==
    /\ trash = {}
    /\ unused = Entries
    /\ orphaned = {}

Stage ==
    /\ \E e \in unused :
        /\ trash' = trash \cup {e}
        /\ unused' = unused \ {e}
    /\ orphaned' \in {orphaned, {}}

Delete ==
    /\ \E e \in trash \ Stubborn : trash' = trash \ {e}
    /\ UNCHANGED <<unused, orphaned>>

Fault ==
    /\ orphaned' = trash
    /\ UNCHANGED <<trash, unused>>

TakeBack ==
    /\ orphaned' = {}
    /\ UNCHANGED <<trash, unused>>

Next == Stage \/ Delete \/ Fault \/ TakeBack

Spec == Init /\ [][Next]_vars
=============================================================================
