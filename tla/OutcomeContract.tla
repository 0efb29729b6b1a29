-------------------------- MODULE OutcomeContract --------------------------
(***************************************************************************)
(* What the API promises a user about the outcome of a dimming command,    *)
(* whatever publishers, timeouts and late ACKs do below: a command that is *)
(* closed unsent stays unsent, one that may have been sent is settled on   *)
(* an answer of the gateway only, and what is settled stays settled.       *)
(***************************************************************************)
CONSTANT Commands

VARIABLES
    outcome,   \* none, pending, unknown or a definite outcome
    sent,      \* commands whose Set may reach the gateway
    heard      \* commands the gateway has answered for

vars == <<outcome, sent, heard>>

Definite == {"applied", "partially_applied", "not_applied"}

Init == outcome = [c \in Commands |-> "none"] /\ sent = {} /\ heard = {}

Settle(c, o) == outcome' = [outcome EXCEPT ![c] = o] /\ UNCHANGED sent

Hear(c) == heard' = heard \cup {c}

Create(c) == outcome[c] = "none" /\ Settle(c, "pending") /\ UNCHANGED heard

Send(c) ==
    /\ outcome[c] = "pending"
    /\ sent' = sent \cup {c}
    /\ UNCHANGED <<outcome, heard>>

\* Given up before it could reach the gateway.
Withdraw(c) ==
    /\ outcome[c] = "pending" /\ c \notin sent
    /\ Settle(c, "not_applied") /\ UNCHANGED heard

\* Given up with the Set possibly sent, or answered without evidence.
LoseTrack(c) ==
    /\ outcome[c] = "pending"
    /\ Settle(c, "unknown")
    /\ UNCHANGED heard \/ Hear(c)

\* The gateway answers the Set itself.
Report(c, o) == outcome[c] = "pending" /\ c \in sent /\ Settle(c, o) /\ Hear(c)

\* A late answer or the answers to a status check resolve the uncertainty.
Resolve(c, o) == outcome[c] = "unknown" /\ Settle(c, o) /\ Hear(c)

\* An answer that leaves the outcome as it is.
Note(c) == outcome[c] # "none" /\ Hear(c) /\ UNCHANGED <<outcome, sent>>

Next ==
    \E c \in Commands :
        \/ Create(c) \/ Send(c) \/ Withdraw(c) \/ LoseTrack(c) \/ Note(c)
        \/ \E o \in Definite : Report(c, o) \/ Resolve(c, o)

Spec == Init /\ [][Next]_vars

(***************************************************************************)
(* What the contract is worth                                              *)
(***************************************************************************)
\* Every command has an outcome; commands are sent and answered for.
TypeOK ==
    /\ outcome \in [Commands -> {"none", "pending", "unknown"} \cup Definite]
    /\ sent \subseteq Commands /\ heard \subseteq Commands

\* A definite outcome of a command that may have been sent rests on an answer, and
\* without an answer nothing is said but that it was not applied.
Evident ==
    \A c \in Commands :
        /\ outcome[c] = "none" => c \notin sent
        /\ outcome[c] \in Definite /\ c \in sent => c \in heard
        /\ outcome[c] \in Definite /\ c \notin heard => outcome[c] = "not_applied"

\* What is no longer pending is not sent any more, and what is definite stays.
Final ==
    [][\A c \in Commands :
          /\ outcome[c] \notin {"none", "pending"} => (c \in sent' <=> c \in sent)
          /\ outcome[c] \in Definite => outcome'[c] = outcome[c]]_vars
=============================================================================
