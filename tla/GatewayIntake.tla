--------------------------- MODULE GatewayIntake ---------------------------
(***************************************************************************)
(* The gateway's MQTT intake of commands: one connection whose packets are *)
(* handled one after the other, handlers that hold the PUBACK of their     *)
(* PUBLISH until the journal has the command, and that then publish ACKs   *)
(* of their own and wait for the broker's PUBACK on the same connection.   *)
(*                                                                         *)
(* A status check (Get) is modelled in full; of a Set there is what the    *)
(* intake sees of it, the rest is in GatewayCommand.                       *)
(*                                                                         *)
(* apps/gateway/src/commands/gateway-status-check-handler.ts, index.ts,    *)
(* runtime/gateway-mqtt-runtime.ts, commands/gateway-command-handler.ts.   *)
(***************************************************************************)
EXTENDS Naturals, Sequences

CONSTANTS
    Sets,        \* dimming commands
    Gets,        \* status checks, each of one fixture
    Groups,      \* mesh groups
    NoGroup,
    GroupOf,     \* the mesh group of a Set, or NoGroup
    Copies,      \* bound: PUBLISH packets of a command, server retries included
    NoDelivery,
    OutboxCanFill, \* may a Set be rejected before its execution?
    MaxDrops,    \* bound: connections lost while the process lives
    MaxCrashes   \* bound: restarts of the process

Commands == Sets \cup Gets

ASSUME KindAssumption == Sets \cap Gets = {}
ASSUME GroupAssumption == GroupOf \in [Sets -> Groups \cup {NoGroup}] /\ NoGroup \notin Groups
ASSUME BoundAssumption ==
    Copies \in [Commands -> Nat] /\ MaxDrops \in Nat /\ MaxCrashes \in Nat

\* A delivery is one PUBLISH packet of a command.
Deliveries == UNION {[of : {c}, copy : 1..Copies[c]] : c \in Commands}

ASSUME DeliveryAssumption == NoDelivery \notin Deliveries

VARIABLES
    wire,       \* per delivery: "unsent", "sent", or "acked" by our PUBACK
    inbox,      \* packets received and not handled yet, in order
    intake,     \* the delivery whose handler the intake waits for
    handler,    \* per delivery: its handler
    outgoing,   \* deliveries whose handler's ACK is with the broker
    record,     \* command journal, on disk
    expired,    \* commands whose delivery window is over
    stopping,   \* has shutdown aborted the status checks?
    reads,      \* history: how often each status check was carried out
    reported,   \* history: the results published for each status check
    drops, crashes

mqttVars == <<wire, inbox, intake, outgoing>>
historyVars == <<reads, reported>>
envVars == <<expired, stopping, drops, crashes>>
vars == <<mqttVars, handler, record, historyVars, envVars>>

Packets == [kind : {"publish", "puback"}, of : Deliveries]
Publish(d) == [kind |-> "publish", of |-> d]
Puback(d) == [kind |-> "puback", of |-> d]

Acceptances == {"accepted", "rejected"}
Results == {"observed", "STATUS_TIMEOUT", "COMMAND_EXPIRED", "GATEWAY_SHUTDOWN",
            "GATEWAY_RESTART_INDETERMINATE", "executed",
            "GATEWAY_CLOCK_UNTRUSTED", "STATE_OUTBOX_CAPACITY"}

Nothing == "nothing"
NoRecord == [state |-> "none", acceptance |-> Nothing, result |-> Nothing]
Accepted(a) == [state |-> "accepted", acceptance |-> a, result |-> Nothing]
Completed(a, r) == [state |-> "completed", acceptance |-> a, result |-> r]
Records == {NoRecord} \cup {Accepted(a) : a \in Acceptances}
           \cup {Completed(a, r) : a \in Acceptances, r \in Results}

\* Inside handleGatewayStatusCheck and handleGatewayDimmingCommand, in order;
\* "settling" answers for a run that was lost.
Inside == {"lookup", "admit", "announce", "acking", "check", "executing", "settling"}
Waiting == {"queued", "sharing"}
Reporting == {"report", "reporting", "status", "statusing"}
Over == {"none", "done", "failed"}
NoHandler == [pc |-> "none", told |-> FALSE, answer |-> NoRecord]
Handlers == [pc : Inside \cup Waiting \cup Reporting \cup Over,
             told : BOOLEAN,      \* acceptancePublished
             answer : Records]    \* the GatewayCommandResult

TypeOK ==
    /\ wire \in [Deliveries -> {"unsent", "sent", "acked"}]
    /\ inbox \in Seq(Packets)
    /\ intake \in Deliveries \cup {NoDelivery}
    /\ handler \in [Deliveries -> Handlers]
    /\ outgoing \subseteq Deliveries
    /\ record \in [Commands -> Records]
    /\ expired \subseteq Commands
    /\ stopping \in BOOLEAN
    /\ reads \in [Gets -> Nat]
    /\ reported \in [Gets -> SUBSET Results]
    /\ drops \in 0..MaxDrops /\ crashes \in 0..MaxCrashes

Init ==
    /\ wire = [d \in Deliveries |-> "unsent"]
    /\ inbox = <<>>
    /\ intake = NoDelivery
    /\ handler = [d \in Deliveries |-> NoHandler]
    /\ outgoing = {}
    /\ record = [c \in Commands |-> NoRecord]
    /\ expired = {}
    /\ stopping = FALSE
    /\ reads = [c \in Gets |-> 0]
    /\ reported = [c \in Gets |-> {}]
    /\ drops = 0 /\ crashes = 0

(***************************************************************************)
(* Who runs, who waits for whom                                            *)
(***************************************************************************)
IsGet(d) == d.of \in Gets
At(d, pc) == handler[d].pc = pc
Goto(d, pc) == handler' = [handler EXCEPT ![d].pc = pc]

\* Mutant: live status checks are not shared.
OwnersOfSets(d) ==
    {e \in Deliveries \ {d} : handler[e].pc \in Inside /\ d.of \in Sets /\ d.of = e.of}

\* liveCommands and groupQueue: Sets of one key or one mesh group run in turn.
Conflict(d, e) ==
    \/ d.of = e.of
    \/ /\ {d.of, e.of} \subseteq Sets
       /\ GroupOf[d.of] = GroupOf[e.of] /\ GroupOf[d.of] # NoGroup

Owners(d) == {e \in Deliveries \ {d} : handler[e].pc \in Inside /\ Conflict(d, e)}

\* Mutant: a duplicate is acknowledged on sight.
ReceiptAtOnce(e) == handler[e].pc \in Inside

\* Mutant: a duplicate is acknowledged with the result.
ReceiptWithResult(e) == handler[e].pc \notin Inside

\* durableReceipt of a live status check: its journal record exists.
ReceiptIsDurable(e) == handler[e].pc \in Inside \ {"lookup", "admit"}

\* A live duplicate of a status check gets the receipt, the result and the
\* failure of its owner.
Sharers(d) == {e \in Deliveries : e.of = d.of /\ At(e, "sharing")}
With(d) == {d} \cup Sharers(d)

\* acknowledgeDurable: the PUBACK leaves and the intake goes on.
Acknowledge(D) ==
    /\ wire' = [d \in Deliveries |-> IF d \in D THEN "acked" ELSE wire[d]]
    /\ intake' = IF intake \in D THEN NoDelivery ELSE intake

\* The owner's promise resolves: it and its sharers go on to report.
Return(d, answer) ==
    handler' = [e \in Deliveries |->
        IF e \in With(d) THEN [handler[e] EXCEPT !.pc = "report", !.answer = answer]
        ELSE handler[e]]

\* journal.complete, then the handler returns.
Complete(d, answer) ==
    /\ record' = [record EXCEPT ![d.of] = answer]
    /\ Return(d, answer)

(***************************************************************************)
(* The connection                                                          *)
(***************************************************************************)
\* The broker sends a PUBLISH: the first, a retry of the server, or again
\* after a reconnect. Packets of one command are alike: they go out in order.
Send(d) ==
    /\ wire[d] = "unsent" /\ handler[d] = NoHandler
    /\ \A e \in Deliveries : e.of = d.of /\ e.copy < d.copy => wire[e] # "unsent"
    /\ wire' = [wire EXCEPT ![d] = "sent"]
    /\ inbox' = Append(inbox, Publish(d))
    /\ UNCHANGED <<intake, outgoing, handler, record, historyVars, envVars>>

\* The broker confirms an ACK the gateway has published.
Confirm(d) ==
    /\ d \in outgoing
    /\ outgoing' = outgoing \ {d}
    /\ inbox' = Append(inbox, Puback(d))
    /\ UNCHANGED <<wire, intake, handler, record, historyVars, envVars>>

\* MQTT.js hands on one packet at a time, and no next one while a PUBLISH is held.
IsNext(packet) == intake = NoDelivery /\ inbox # <<>> /\ Head(inbox) = packet

ReceiveGet(d) ==
    /\ IsGet(d) /\ IsNext(Publish(d)) /\ ~stopping
    /\ Owners(d) = {} /\ Goto(d, "lookup") /\ intake' = d
    /\ inbox' = Tail(inbox)
    /\ UNCHANGED <<wire, outgoing, record, historyVars, envVars>>

\* inFlight has the key: a duplicate waits for the owner, its PUBACK for the
\* owner's receipt only.
ShareGet(d) ==
    /\ IsGet(d) /\ IsNext(Publish(d)) /\ ~stopping
    /\ Owners(d) # {} /\ Goto(d, "sharing")
    /\ inbox' = Tail(inbox)
    /\ IF \A e \in Owners(d) : ReceiptIsDurable(e)
       THEN wire' = [wire EXCEPT ![d] = "acked"] /\ UNCHANGED intake
       ELSE intake' = d /\ UNCHANGED wire
    /\ UNCHANGED <<outgoing, record, historyVars, envVars>>

\* "status check runtime stopped": no PUBACK.
RefuseGet(d) ==
    /\ IsGet(d) /\ IsNext(Publish(d)) /\ stopping
    /\ Goto(d, "failed")
    /\ inbox' = Tail(inbox)
    /\ UNCHANGED <<wire, intake, outgoing, record, historyVars, envVars>>

ReceiveSet(d) ==
    /\ ~IsGet(d) /\ IsNext(Publish(d))
    /\ Goto(d, "queued") /\ intake' = d
    /\ inbox' = Tail(inbox)
    /\ UNCHANGED <<wire, outgoing, record, historyVars, envVars>>

\* The callback of publish: onAccepted goes on with the execution.
ReceivePuback(d) ==
    /\ IsNext(Puback(d))
    /\ inbox' = Tail(inbox)
    /\ \/ /\ At(d, "acking")
          /\ handler' = [handler EXCEPT ![d].pc = "check", ![d].told = TRUE]
          /\ UNCHANGED wire
       \/ At(d, "reporting") /\ Goto(d, "status") /\ UNCHANGED wire
       \/ At(d, "statusing") /\ Goto(d, "done") /\ wire' = [wire EXCEPT ![d] = "acked"]
    /\ UNCHANGED <<intake, outgoing, record, historyVars, envVars>>

Receive(d) == ReceiveGet(d) \/ ShareGet(d) \/ RefuseGet(d) \/ ReceiveSet(d) \/ ReceivePuback(d)

\* The connection drops and is set up again: what was not handled is sent
\* again, and so is what the client has published. Handlers live on, and the
\* PUBACK one of them still owes goes out on the new connection.
Drop ==
    /\ drops < MaxDrops
    /\ drops' = drops + 1
    /\ inbox' = <<>> /\ intake' = NoDelivery
    /\ outgoing' = outgoing \cup {d \in Deliveries : \E i \in DOMAIN inbox : inbox[i] = Puback(d)}
    /\ LET again == {d \in Deliveries : wire[d] = "sent" /\ handler[d].pc \in Over}
       IN /\ wire' = [d \in Deliveries |-> IF d \in again THEN "unsent" ELSE wire[d]]
          /\ handler' = [d \in Deliveries |-> IF d \in again THEN NoHandler ELSE handler[d]]
    /\ UNCHANGED <<record, historyVars, expired, stopping, crashes>>

(***************************************************************************)
(* The handlers                                                            *)
(***************************************************************************)
Dequeue(d) ==
    /\ At(d, "queued") /\ Owners(d) = {}
    /\ Goto(d, "lookup")
    /\ UNCHANGED <<mqttVars, record, historyVars, envVars>>

\* Mutant: a lost run is taken up again.
LookupResumes(d) ==
    /\ At(d, "lookup")
    /\ IF record[d.of].state = "completed" THEN Return(d, record[d.of])
       ELSE Goto(d, IF record[d.of].state = "none" THEN "admit" ELSE "announce")
    /\ IF record[d.of].state = "none" THEN UNCHANGED <<wire, intake>> ELSE Acknowledge(With(d))
    /\ UNCHANGED <<inbox, outgoing, record, historyVars, envVars>>

\* journal.get: a completed record is replayed, an accepted one has lost its run.
Lookup(d) ==
    /\ At(d, "lookup")
    /\ \/ /\ record[d.of].state = "none"
          /\ Goto(d, "admit")
          /\ UNCHANGED <<wire, intake>>
       \/ /\ record[d.of].state = "accepted"
          /\ Goto(d, "settling") /\ Acknowledge(With(d))
       \/ /\ record[d.of].state = "completed"
          /\ Return(d, record[d.of]) /\ Acknowledge(With(d))
    /\ UNCHANGED <<inbox, outgoing, record, historyVars, envVars>>

\* A Set whose record says pre_rf is refused, any other lost run is indeterminate.
LostRun(c, preRf) ==
    IF preRf THEN Completed("rejected", "GATEWAY_CLOCK_UNTRUSTED")
    ELSE Completed(record[c].acceptance, "GATEWAY_RESTART_INDETERMINATE")

Settle(d) ==
    /\ At(d, "settling")
    /\ \E preRf \in BOOLEAN :
          /\ preRf => ~IsGet(d)
          /\ Complete(d, LostRun(d.of, preRf))
    /\ UNCHANGED <<mqttVars, historyVars, envVars>>

\* journal.accept, then acknowledgeDurable. An expired status check is
\* accepted into the journal all the same, with a rejecting acceptance.
Accept(d) ==
    /\ At(d, "admit")
    /\ IF d.of \in expired
       THEN IsGet(d) /\ record' = [record EXCEPT ![d.of] = Accepted("rejected")] /\ Goto(d, "check")
       ELSE record' = [record EXCEPT ![d.of] = Accepted("accepted")] /\ Goto(d, "announce")
    /\ Acknowledge(With(d))
    /\ UNCHANGED <<inbox, outgoing, historyVars, envVars>>

\* rejectSetCommand, before or after the record is accepted.
RefuseSet(d) ==
    /\ ~IsGet(d) /\ d.of \in expired /\ handler[d].pc \in {"admit", "announce", "check"}
    /\ Complete(d, Completed("rejected", "COMMAND_EXPIRED"))
    /\ Acknowledge({d})
    /\ UNCHANGED <<inbox, outgoing, historyVars, envVars>>

\* rejectBeforeExecution: the group is not ready or the state outbox is full.
\* It does not call acknowledgeDurable.
RejectBeforeExecution(d) ==
    /\ ~IsGet(d) /\ At(d, "admit") /\ OutboxCanFill
    /\ Complete(d, Completed("rejected", "STATE_OUTBOX_CAPACITY"))
    /\ UNCHANGED <<mqttVars, historyVars, envVars>>

\* onAccepted: the acceptance is published, and its PUBACK awaited.
PublishAcceptance(d) ==
    /\ At(d, "announce") /\ (IsGet(d) \/ d.of \notin expired)
    /\ outgoing' = outgoing \cup {d} /\ Goto(d, "acking")
    /\ UNCHANGED <<wire, inbox, intake, record, historyVars, envVars>>

\* observeTargets, or the adapter call of a Set.
Execute(d) ==
    /\ At(d, "check") /\ d.of \notin expired
    /\ IsGet(d) => ~stopping
    /\ reads' = [c \in Gets |-> IF c = d.of THEN reads[c] + 1 ELSE reads[c]]
    /\ Goto(d, "executing")
    /\ UNCHANGED <<mqttVars, record, reported, envVars>>

\* Mutant: a check that is skipped is not completed in the journal.
SkipGetUnrecorded(d) ==
    /\ IsGet(d) /\ At(d, "check") /\ (d.of \in expired \/ stopping)
    /\ Return(d, Completed(record[d.of].acceptance, "COMMAND_EXPIRED"))
    /\ UNCHANGED <<mqttVars, record, historyVars, envVars>>

\* Expired before the Get, or shut down: terminal without an observation.
SkipGet(d) ==
    /\ IsGet(d) /\ At(d, "check") /\ (d.of \in expired \/ stopping)
    /\ Complete(d, Completed(record[d.of].acceptance,
                IF d.of \in expired THEN "COMMAND_EXPIRED" ELSE "GATEWAY_SHUTDOWN"))
    /\ UNCHANGED <<mqttVars, historyVars, envVars>>

\* The reports of a Set are those of GatewayCommand.
Outcomes(d) == IF IsGet(d)
               THEN {"observed", IF stopping THEN "GATEWAY_SHUTDOWN" ELSE "STATUS_TIMEOUT"}
               ELSE {"executed"}

EndExecution(d) ==
    /\ At(d, "executing")
    /\ \E r \in Outcomes(d) : Complete(d, Completed(record[d.of].acceptance, r))
    /\ UNCHANGED <<mqttVars, historyVars, envVars>>

\* The final acceptance, unless it was published and is not a refusal of a Set.
TellAcceptance(d) == ~handler[d].told \/ (~IsGet(d) /\ handler[d].answer.acceptance = "rejected")

PublishFinalAcceptance(d) ==
    /\ At(d, "report") /\ TellAcceptance(d)
    /\ outgoing' = outgoing \cup {d} /\ Goto(d, "reporting")
    /\ UNCHANGED <<wire, inbox, intake, record, historyVars, envVars>>

PublishStatus(d) ==
    /\ At(d, "status") \/ (At(d, "report") /\ ~TellAcceptance(d))
    /\ outgoing' = outgoing \cup {d} /\ Goto(d, "statusing")
    /\ reported' = [c \in Gets |->
           reported[c] \cup IF c = d.of THEN {handler[d].answer.result} ELSE {}]
    /\ UNCHANGED <<wire, inbox, intake, record, reads, envVars>>

(***************************************************************************)
(* What goes wrong                                                         *)
(***************************************************************************)
\* retryDelivery: no PUBACK, the intake goes on; sharers fail with their owner.
Fail(D) ==
    /\ handler' = [d \in Deliveries |-> IF d \in D THEN [handler[d] EXCEPT !.pc = "failed"]
                                        ELSE handler[d]]
    /\ intake' = IF intake \in D THEN NoDelivery ELSE intake

\* Mutant: sharers do not hear of their owner's failure.
JournalFailsAlone(d) ==
    /\ handler[d].pc \in {"lookup", "admit", "check", "settling", "executing"}
    /\ Fail({d})
    /\ UNCHANGED <<wire, inbox, outgoing, record, historyVars, envVars>>

\* The journal cannot be read or written.
JournalFails(d) ==
    /\ handler[d].pc \in {"lookup", "admit", "check", "settling", "executing"}
    /\ Fail(With(d))
    /\ UNCHANGED <<wire, inbox, outgoing, record, historyVars, envVars>>

\* The client is closed under a publish: its callback gets an error.
PublishFails(d) ==
    /\ d \in outgoing
    /\ outgoing' = outgoing \ {d}
    /\ Fail(IF At(d, "acking") THEN With(d) ELSE {d})
    /\ UNCHANGED <<wire, inbox, record, historyVars, envVars>>

\* stopAndDrain.
Stop ==
    /\ ~stopping /\ stopping' = TRUE
    /\ UNCHANGED <<mqttVars, handler, record, historyVars, expired, drops, crashes>>

Expire(c) ==
    /\ expired' = expired \cup {c} /\ c \notin expired
    /\ UNCHANGED <<mqttVars, handler, record, historyVars, stopping, drops, crashes>>

\* The process ends and comes back. Sets are settled before the intake opens,
\* a status check only by its next delivery.
Restart ==
    /\ crashes < MaxCrashes
    /\ crashes' = crashes + 1
    /\ inbox' = <<>> /\ intake' = NoDelivery /\ outgoing' = {}
    /\ handler' = [d \in Deliveries |-> NoHandler]
    /\ wire' = [d \in Deliveries |-> IF wire[d] = "sent" THEN "unsent" ELSE wire[d]]
    /\ stopping' = FALSE
    /\ \E preRf \in [Sets -> BOOLEAN] :
          record' = [c \in Commands |->
              IF c \in Sets /\ record[c].state = "accepted" THEN LostRun(c, preRf[c])
              ELSE record[c]]
    /\ UNCHANGED <<historyVars, expired, drops>>

HandlerStep(d) ==
    \/ Dequeue(d) \/ Lookup(d) \/ Settle(d) \/ Accept(d) \/ RefuseSet(d)
    \/ RejectBeforeExecution(d) \/ PublishAcceptance(d) \/ Execute(d) \/ SkipGet(d)
    \/ EndExecution(d) \/ PublishFinalAcceptance(d) \/ PublishStatus(d)

Next ==
    \/ \E d \in Deliveries :
          \/ HandlerStep(d) \/ Send(d) \/ Confirm(d) \/ Receive(d)
          \/ JournalFails(d) \/ PublishFails(d)
    \/ \E c \in Commands : Expire(c)
    \/ Drop \/ Stop \/ Restart

Spec == Init /\ [][Next]_vars

(***************************************************************************)
(* Properties                                                              *)
(***************************************************************************)
\* The handlers whose progress the intake waits for while it holds d.
Behind(d) == IF handler[d].pc \in Waiting THEN Owners(d) ELSE {d}

\* While a status check holds the intake, the owner of its key is at the
\* journal: nothing that would come in behind it, and no execution, is waited
\* for (gateway-status-check-handler.ts:42-44).
ChecksReleaseIntake ==
    intake \in Deliveries /\ IsGet(intake) =>
        \E e \in Behind(intake) : handler[e].pc \in {"lookup", "admit"}

\* While a Set holds the intake, nobody it waits for waits for a PUBACK that
\* comes in behind it.
SetsReleaseIntake ==
    intake \in Deliveries /\ ~IsGet(intake) =>
        \A e \in Behind(intake) : handler[e].pc \notin {"acking", "reporting", "statusing"}

\* A duplicate that shares a live status check has an owner that will give it
\* the result or the failure.
SharersHaveOwner == \A d \in Deliveries : At(d, "sharing") => Owners(d) # {}

\* A status check is carried out at most once, over every duplicate,
\* reconnect, failure and restart.
ReadOnce == \A c \in Gets : reads[c] <= 1

\* Every published status of a status check is the result in its journal: owner,
\* sharers and later deliveries give one answer.
OneAnswer == \A c \in Gets : reported[c] \subseteq {record[c].result}

\* No PUBACK for a command the journal does not have.
PubackIsDurable == \A d \in Deliveries : wire[d] = "acked" => record[d.of].state # "none"

\* A status check as the API may rely on it: its reads, the result of its record
\* and the statuses published.
Contract == INSTANCE StatusContract
                WITH Checks <- Gets, verdict <- [c \in Gets |-> record[c].result],
                     told <- reported

\* Duplicates, reconnects, failures of journal and broker, shutdown and restarts
\* keep the contract of every status check: it is carried out once at most, what
\* its result says of that is true, and owner, sharers and later deliveries
\* publish that one result (gateway-status-check-handler.ts:27-104).
ImplementsContract == Contract!Spec

\* A result in the journal is never replaced.
ResultIsFinal == [][\A c \in Commands :
    record[c].state = "completed" => record'[c] = record[c]]_vars
=============================================================================
