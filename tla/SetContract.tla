---------------------------- MODULE SetContract ----------------------------
(***************************************************************************)
(* What the gateway promises the API about one dimming command, whatever   *)
(* duplicates, crashes and refusals happen below: lamps are written while  *)
(* the command is open, it is settled once, "refused" is only said of a    *)
(* command that wrote nothing, and "succeeded" only of a lamp it wrote.    *)
(***************************************************************************)
CONSTANTS Commands, Fixtures, Targets

VARIABLES
    state,    \* open, done, refused or forgotten
    outcome,  \* the settled per-fixture result
    lit       \* fixtures whose physical write started

vars == <<state, outcome, lit>>

Undecided == [f \in Fixtures |-> "none"]

Init ==
    /\ state = [c \in Commands |-> "open"]
    /\ outcome = [c \in Commands |-> Undecided]
    /\ lit = [c \in Commands |-> {}]

WriteLamp(c, f) ==
    /\ state[c] = "open"
    /\ lit' = [lit EXCEPT ![c] = @ \cup {f}]
    /\ UNCHANGED <<state, outcome>>

\* Every target gets a status and nobody else does.
Covers(c, r) == \A f \in Fixtures : r[f] = "none" <=> f \notin Targets[c]

Finish(c, r) ==
    /\ state[c] = "open"
    /\ Covers(c, r)
    /\ \A f \in Fixtures : r[f] = "succeeded" => f \in lit[c]
    /\ state' = [state EXCEPT ![c] = "done"]
    /\ outcome' = [outcome EXCEPT ![c] = r]
    /\ UNCHANGED lit

Refuse(c, r) ==
    /\ state[c] = "open"
    /\ lit[c] = {}
    /\ Covers(c, r)
    /\ \A f \in Fixtures : r[f] # "succeeded"
    /\ state' = [state EXCEPT ![c] = "refused"]
    /\ outcome' = [outcome EXCEPT ![c] = r]
    /\ UNCHANGED lit

Forget(c) ==
    /\ state[c] \in {"done", "refused"}
    /\ state' = [state EXCEPT ![c] = "forgotten"]
    /\ outcome' = [outcome EXCEPT ![c] = Undecided]
    /\ UNCHANGED lit

Next ==
    \E c \in Commands :
        \/ \E f \in Targets[c] : WriteLamp(c, f)
        \/ \E r \in [Fixtures -> {"none", "succeeded", "failed", "timed_out"}] :
              Finish(c, r) \/ Refuse(c, r)
        \/ Forget(c)

Spec == Init /\ [][Next]_vars

(***************************************************************************)
(* What the contract is worth                                              *)
(***************************************************************************)
\* Every command has a state, a status per fixture, and lamps it wrote.
TypeOK ==
    /\ state \in [Commands -> {"open", "done", "refused", "forgotten"}]
    /\ outcome \in [Commands -> [Fixtures -> {"none", "succeeded", "failed", "timed_out"}]]
    /\ lit \in [Commands -> SUBSET Fixtures]

\* The outcome is true: a refused command wrote nothing, a lamp that is reported
\* as succeeded was written, and every target has its report.
Honest ==
    \A c \in Commands :
        /\ state[c] = "refused" => lit[c] = {}
        /\ state[c] \in {"done", "refused"} => Covers(c, outcome[c])
        /\ \A f \in Fixtures : outcome[c][f] = "succeeded" => f \in lit[c]

\* What is settled is over: no lamp is written for it any more.
OverIsOver ==
    [][\A c \in Commands : state[c] # "open" => state'[c] # "open" /\ lit'[c] = lit[c]]_vars
=============================================================================
