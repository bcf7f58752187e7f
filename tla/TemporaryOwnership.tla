------------------------- MODULE TemporaryOwnership -------------------------
(***************************************************************************)
(* What a Mod Root's staging area promises, whatever happens to the        *)
(* processes that use it: every temporary entry that is on disk is named   *)
(* by the durable ownership claim, so a later run can always find it.      *)
(*                                                                         *)
(* The claim is one atomically replaced snapshot.  Nothing is said here of *)
(* locks, scratch files, run children, recovery or crashes: they are how   *)
(* StagingOwnership keeps the promise.                                     *)
(***************************************************************************)
CONSTANT Names          \* the unpredictable temporary names runs generate

VARIABLES
    claimed,            \* names the durable snapshot claims
    present             \* temporary entries on disk

Init ==
    /\ claimed \in SUBSET Names
    /\ present \in SUBSET claimed

(* A complete snapshot replaces the previous one; it may gain and lose     *)
(* names, but never one whose entry is still on disk.                      *)
Snapshot(S) ==
    /\ present \subseteq S
    /\ claimed' = S
    /\ UNCHANGED present

(* An entry is created only under a name that is already claimed.          *)
Create(n) ==
    /\ n \in claimed \ present
    /\ present' = present \cup {n}
    /\ UNCHANGED claimed

(* An entry leaves its temporary name: published or deleted.               *)
Leave(n) ==
    /\ n \in present
    /\ present' = present \ {n}
    /\ UNCHANGED claimed

Next ==
    \/ \E S \in SUBSET Names : Snapshot(S)
    \/ \E n \in Names : Create(n) \/ Leave(n)

Spec == Init /\ [][Next]_<<claimed, present>>

=============================================================================
