--------------------------- MODULE StatusContract ---------------------------
(***************************************************************************)
(* What the gateway promises the API about one status check, whatever      *)
(* duplicates, reconnects, failures and restarts do below: the mesh is     *)
(* read for it once at most, it gets one verdict and keeps it, "observed"  *)
(* is said of a check that was carried out, "expired" only of one that was *)
(* not, and everything published about it is that verdict.                 *)
(***************************************************************************)
EXTENDS Naturals

CONSTANT Checks

VARIABLES
    reads,    \* how often each check was carried out
    verdict,  \* open, or the final result
    told      \* the results published

vars == <<reads, verdict, told>>

Open == "nothing"
Verdicts == {"observed", "STATUS_TIMEOUT", "COMMAND_EXPIRED", "GATEWAY_SHUTDOWN",
             "GATEWAY_RESTART_INDETERMINATE"}

Init ==
    /\ reads = [c \in Checks |-> 0]
    /\ verdict = [c \in Checks |-> Open]
    /\ told = [c \in Checks |-> {}]

CarryOut(c) ==
    /\ verdict[c] = Open /\ reads[c] = 0
    /\ reads' = [reads EXCEPT ![c] = 1]
    /\ UNCHANGED <<verdict, told>>

\* A shutdown or a lost run may come before the check or after it.
Settle(c, v) ==
    /\ verdict[c] = Open
    /\ v \in {"observed", "STATUS_TIMEOUT"} => reads[c] = 1
    /\ v = "COMMAND_EXPIRED" => reads[c] = 0
    /\ verdict' = [verdict EXCEPT ![c] = v]
    /\ UNCHANGED <<reads, told>>

Tell(c) ==
    /\ verdict[c] # Open
    /\ told' = [told EXCEPT ![c] = @ \cup {verdict[c]}]
    /\ UNCHANGED <<reads, verdict>>

Next ==
    \E c \in Checks :
        \/ CarryOut(c) \/ Tell(c)
        \/ \E v \in Verdicts : Settle(c, v)

Spec == Init /\ [][Next]_vars

(***************************************************************************)
(* What the contract is worth                                              *)
(***************************************************************************)
\* No check is carried out twice, and verdicts and reports are verdicts.
TypeOK ==
    /\ reads \in [Checks -> 0..1]
    /\ verdict \in [Checks -> Verdicts \cup {Open}]
    /\ told \in [Checks -> SUBSET Verdicts]

\* A verdict is true of the check, and it is all that was published.
Truthful ==
    \A c \in Checks :
        /\ reads[c] <= 1
        /\ verdict[c] \in {"observed", "STATUS_TIMEOUT"} => reads[c] = 1
        /\ verdict[c] = "COMMAND_EXPIRED" => reads[c] = 0
        /\ told[c] \subseteq {verdict[c]} \ {Open}
=============================================================================
