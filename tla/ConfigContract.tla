--------------------------- MODULE ConfigContract ---------------------------
(***************************************************************************)
(* What the delivery of automation configurations promises the users of    *)
(* one gateway, whatever publishers, disks and messages do below: the      *)
(* gateway runs revisions that users made, each newer than the one before; *)
(* the cloud knows of no more than what runs; and the status it shows is   *)
(* about the revision desired now.                                         *)
(***************************************************************************)
EXTENDS Naturals

VARIABLES
    desired,  \* the last revision made
    running,  \* the revision the gateway works with, 0 for none
    known,    \* the last revision the cloud knows to be applied
    shown     \* the sync status

vars == <<desired, running, known, shown>>

Init == desired = 0 /\ running = 0 /\ known = 0 /\ shown = "none"

\* A user's change; the cloud may refuse to send it.
Change ==
    /\ desired' = desired + 1
    /\ shown' \in {"PENDING", "REJECTED"}
    /\ UNCHANGED <<running, known>>

\* The gateway puts a newer revision to work, not always the newest.
PutToWork ==
    /\ running' \in running + 1 .. desired
    /\ UNCHANGED <<desired, known, shown>>

\* The cloud learns of a revision that was put to work.
LearnApplied ==
    /\ known' \in known + 1 .. running
    /\ shown' = IF known' = desired THEN "APPLIED" ELSE shown
    /\ UNCHANGED <<desired, running>>

\* The cloud learns that the desired revision was rejected.
LearnRejected ==
    /\ known < desired
    /\ shown' = "REJECTED"
    /\ UNCHANGED <<desired, running, known>>

Next == Change \/ PutToWork \/ LearnApplied \/ LearnRejected

Spec == Init /\ [][Next]_vars

(***************************************************************************)
(* What the contract is worth                                              *)
(***************************************************************************)
\* Revisions are counted, the status is one of four.
TypeOK ==
    /\ desired \in Nat /\ running \in Nat /\ known \in Nat
    /\ shown \in {"none", "PENDING", "APPLIED", "REJECTED"}

\* The cloud is behind the gateway, the gateway behind the users, and "APPLIED"
\* is shown just when neither is.
InOrder ==
    /\ known <= running /\ running <= desired
    /\ shown = "APPLIED" <=> known = desired /\ desired # 0
=============================================================================
