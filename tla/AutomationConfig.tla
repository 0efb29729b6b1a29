-------------------------- MODULE AutomationConfig --------------------------
(***************************************************************************)
(* Delivery of the automation configuration of one gateway. The cloud keeps *)
(* the revision it desires, the revision it believes applied, and a leased  *)
(* outbox row per revision; several API processes publish. The gateway      *)
(* writes a revision to its disk, activates it and reports the result       *)
(* through an outbox of its own, until the cloud confirms; it asks for its  *)
(* configuration again and again. Messages are lost, repeated and late, the *)
(* disk fails before or after the rename, and both sides restart.           *)
(*                                                                         *)
(* apps/api/src/automation/ automation-snapshot.service.ts, automation-     *)
(* outbox-publisher.service.ts, automation-mqtt-consumer.service.ts;        *)
(* apps/gateway/src/automation/ automation-config-store.ts, automation-     *)
(* runtime.ts, automation-config-ack-outbox.ts, gateway.ts.                 *)
(***************************************************************************)
EXTENDS Naturals

CONSTANTS
    Publishers,     \* API processes that run the outbox publisher
    NoPublisher,    \* no lock owner
    MaxRevision,    \* bound: revisions that users make
    MaxFaults       \* bound: failures of processes, publishes and disks

ASSUME PublisherAssumption == NoPublisher \notin Publishers
ASSUME BoundAssumption == MaxRevision \in Nat /\ MaxFaults \in Nat

VARIABLES
    config,     \* GatewayAutomationConfiguration
    row,        \* MqttOutbox: the row of each revision
    publisher,  \* what a publisher works on between its transactions
    inbox,      \* revisions published that may reach the gateway, again and late
    disk,       \* the file as it is visible, and what a power loss may leave of it
    memory,     \* revision of AutomationRuntime.snapshot, 0 for none
    work,       \* the handler of a configuration message, at its awaits
    ack,        \* where each result is on its way to the cloud and back
    faults      \* failures so far

cloudVars == <<config, row>>
gatewayVars == <<disk, memory, work>>
vars == <<cloudVars, publisher, inbox, gatewayVars, ack, faults>>

(***************************************************************************)
(* Data                                                                    *)
(***************************************************************************)
Revisions == 1..MaxRevision
Stored == 0..MaxRevision        \* 0: no configuration, no file

Results == [revision: Revisions, status: {"applied", "rejected"}]
Result(r, s) == [revision |-> r, status |-> s]

\* "owner": who holds a lease that has not ended.
Rows == [state: {"none", "waiting", "published", "superseded", "dead"},
         owner: Publishers \cup {NoPublisher}]

Unleased(state) == [state |-> state, owner |-> NoPublisher]

Idle == [pc |-> "idle", on |-> 0]
Batches == {Idle} \cup [pc: {"renew", "fence", "send", "finish"}, on: Revisions]

\* "back" is what an uncertain write is undone to.
Quiet == [pc |-> "idle"]
Down == [pc |-> "down"]
Works == {Quiet, Down}
    \cup [pc: {"store", "undo"}, revision: Revisions, back: Stored]
    \cup [pc: {"activate", "rollback"}, revision: Revisions]
    \cup [pc: {"record"}, result: Results]

TypeOK ==
    /\ config \in [desired: Stored, applied: Stored,
                   status: {"none", "PENDING", "APPLIED", "REJECTED"}]
    /\ row \in [Revisions -> Rows]
    /\ publisher \in [Publishers -> Batches]
    /\ inbox \in SUBSET Revisions
    /\ disk \in [visible: Stored, durable: SUBSET Stored]
    /\ memory \in Stored
    /\ work \in Works
    /\ ack \in [Results -> {"none", "stored", "ingested", "deleted"}]
    /\ faults \in 0..MaxFaults

Init ==
    /\ config = [desired |-> 0, applied |-> 0, status |-> "none"]
    /\ row = [r \in Revisions |-> Unleased("none")]
    /\ publisher = [p \in Publishers |-> Idle]
    /\ inbox = {}
    /\ disk = [visible |-> 0, durable |-> {0}] /\ memory = 0
    /\ work = Quiet
    /\ ack = [a \in Results |-> "none"]
    /\ faults = 0

\* One failure more, as long as the bound admits it.
Fault == faults < MaxFaults /\ faults' = faults + 1

(***************************************************************************)
(* Changes of the configuration                                            *)
(***************************************************************************)
\* incrementDesiredRevision, in the transaction of the user's change.
Save ==
    /\ config.desired < MaxRevision
    /\ config' = [config EXCEPT !.desired = @ + 1, !.status = "PENDING"]
    /\ row' = [row EXCEPT ![config.desired + 1] = Unleased("waiting")]
    /\ UNCHANGED <<publisher, inbox, gatewayVars, ack, faults>>

\* The gateway cannot do what the rules ask for: rejected, and never published.
SaveUnsupported ==
    /\ config.desired < MaxRevision
    /\ config' = [config EXCEPT !.desired = @ + 1, !.status = "REJECTED"]
    /\ UNCHANGED <<row, publisher, inbox, gatewayVars, ack, faults>>

(***************************************************************************)
(* The publishers                                                          *)
(***************************************************************************)
PublisherUnchanged == UNCHANGED <<config, gatewayVars, ack>>

Return(p) == publisher' = [publisher EXCEPT ![p] = Idle]
Goto(p, pc) == publisher' = [publisher EXCEPT ![p].pc = pc]

\* ownedPublishableWhere
Owned(p, r) == row[r] = [state |-> "waiting", owner |-> p]

Outdated(r) == row[r].state = "waiting" /\ r < config.desired
Claimable(r) == row[r] = Unleased("waiting") /\ ~Outdated(r)

\* claimConfigBatch: older rows are superseded, whoever holds them.
Claim(p) ==
    /\ publisher[p] = Idle
    /\ \E r \in Revisions : Outdated(r) \/ Claimable(r)
    /\ row' = [r \in Revisions |->
                  IF Outdated(r) THEN Unleased("superseded")
                  ELSE IF Claimable(r) THEN [row[r] EXCEPT !.owner = p]
                  ELSE row[r]]
    /\ \/ \E r \in Revisions : Claimable(r)
              /\ publisher' = [publisher EXCEPT ![p] = [pc |-> "renew", on |-> r]]
       \/ (\A r \in Revisions : ~Claimable(r)) /\ UNCHANGED publisher
    /\ UNCHANGED <<inbox, faults>> /\ PublisherUnchanged

\* publishClaimed up to the renewed lease: an outdated row is superseded, and one
\* that was lost is left alone.
Renew(p) ==
    LET r == publisher[p].on
    IN /\ publisher[p].pc = "renew"
       /\ IF Owned(p, r) /\ ~Outdated(r) THEN Goto(p, "fence") ELSE Return(p)
       /\ row' = IF Owned(p, r) /\ Outdated(r)
                 THEN [row EXCEPT ![r] = Unleased("superseded")] ELSE row
       /\ UNCHANGED <<inbox, faults>> /\ PublisherUnchanged

\* The fence transaction; its return leaves the lease to expire.
Fence(p) ==
    LET r == publisher[p].on
    IN /\ publisher[p].pc = "fence"
       /\ IF Owned(p, r) /\ r = config.desired THEN Goto(p, "send") ELSE Return(p)
       /\ UNCHANGED <<row, inbox, faults>> /\ PublisherUnchanged

\* publishTopic, until the PUBACK.
Send(p) ==
    /\ publisher[p].pc = "send"
    /\ inbox' = inbox \cup {publisher[p].on}
    /\ Goto(p, "finish")
    /\ UNCHANGED <<row, faults>> /\ PublisherUnchanged

Finish(p) ==
    LET r == publisher[p].on
    IN /\ publisher[p].pc = "finish" /\ Return(p)
       /\ row' = IF Owned(p, r) THEN [row EXCEPT ![r] = Unleased("published")] ELSE row
       /\ UNCHANGED <<inbox, faults>> /\ PublisherUnchanged

\* recordFailure: no PUBACK, with or without the message under way. The row is
\* tried again, or dead after ten attempts or at the age of 15 minutes.
PublishFails(p) ==
    LET r == publisher[p].on
    IN /\ publisher[p].pc = "send" /\ Fault /\ Return(p)
       /\ inbox' \in {inbox, inbox \cup {r}}
       /\ \/ ~Owned(p, r) /\ UNCHANGED row
          \/ /\ Owned(p, r)
             /\ \E state \in {"waiting", "dead"} : row' = [row EXCEPT ![r] = Unleased(state)]
       /\ PublisherUnchanged

PublisherCrash(p) ==
    /\ publisher[p] # Idle /\ Fault /\ Return(p)
    /\ UNCHANGED <<row, inbox>> /\ PublisherUnchanged

WorksOn(p, r) == publisher[p].on = r

\* A lease ends: of a row that nobody works on any more, or as a failure, of one
\* whose publisher takes too long.
LeaseExpires(r) ==
    /\ row[r].owner # NoPublisher
    /\ IF WorksOn(row[r].owner, r) THEN Fault ELSE UNCHANGED faults
    /\ row' = [row EXCEPT ![r].owner = NoPublisher]
    /\ UNCHANGED <<publisher, inbox>> /\ PublisherUnchanged

\* Mutant: only a row that was published is brought back.
RequestPublishedOnly ==
    LET r == config.desired
    IN /\ work # Down /\ r # 0
       /\ row[r].state = "published"
       /\ row' = [row EXCEPT ![r] = Unleased("waiting")]
       /\ UNCHANGED <<config, publisher, inbox, gatewayVars, ack, faults>>

\* onCurrentConfigRequest: the desired row is brought back, a dead one too, unless
\* a publisher holds it. The gateway repeats the request while it is connected.
Request ==
    LET r == config.desired
    IN /\ work # Down /\ r # 0
       /\ row[r].state # "none" /\ row[r].owner = NoPublisher
       /\ row' = [row EXCEPT ![r] = Unleased("waiting")]
       /\ UNCHANGED <<config, publisher, inbox, gatewayVars, ack, faults>>

\* The broker or the connection drops a message.
Lose(r) ==
    /\ r \in inbox /\ inbox' = inbox \ {r} /\ Fault
    /\ UNCHANGED <<cloudVars, publisher, gatewayVars, ack>>

(***************************************************************************)
(* The gateway's disk                                                      *)
(***************************************************************************)
\* writeJsonAtomic, or removeFileDurable of no file: done; failed before the
\* rename; or renamed while the directory could not be synced.
Written(r) == disk' = [visible |-> r, durable |-> {r}] /\ UNCHANGED faults
Unwritten == UNCHANGED disk /\ Fault
WrittenUncertain(r) ==
    disk' = [visible |-> r, durable |-> disk.durable \cup {r}] /\ Fault

(***************************************************************************)
(* AutomationRuntime.hotReload                                             *)
(***************************************************************************)
GatewayUnchanged == UNCHANGED <<cloudVars, publisher, inbox, ack>>

\* handleAutomationConfigPayload has a result to record.
Report(r, s) == work' = [pc |-> "record", result |-> Result(r, s)]
Silent == work' = Quiet

\* Mutant: the order of revisions is not looked at.
ReceiveAnyRevision(r) ==
    /\ r \in inbox /\ work = Quiet
    /\ \/ r = memory /\ Report(r, "applied")
       \/ r # memory /\ Report(r, "rejected")
       \/ r # memory /\ work' = [pc |-> "store", revision |-> r, back |-> disk.visible]
    /\ UNCHANGED <<disk, memory, faults>> /\ GatewayUnchanged

\* hotReload begins: the revision is older, or the same, or newer; then it is
\* preflighted, which may refuse it.
Receive(r) ==
    /\ r \in inbox /\ work = Quiet
    /\ \/ r = memory /\ Report(r, "applied")
       \/ r # memory /\ Report(r, "rejected")
       \/ r > memory /\ work' = [pc |-> "store", revision |-> r, back |-> disk.visible]
    /\ UNCHANGED <<disk, memory, faults>> /\ GatewayUnchanged

Activating == work' = [pc |-> "activate", revision |-> work.revision]

\* AutomationConfigStore.apply
Store ==
    /\ work.pc = "store"
    /\ \/ Written(work.revision) /\ Activating
       \/ Unwritten /\ Report(work.revision, "rejected")
       \/ WrittenUncertain(work.revision) /\ work' = [work EXCEPT !.pc = "undo"]
    /\ UNCHANGED memory /\ GatewayUnchanged

\* apply, catch: the former file is restored, and whether or not that succeeds
\* nothing is reported.
Undo ==
    /\ work.pc = "undo" /\ Silent
    /\ Written(work.back) \/ Unwritten \/ WrittenUncertain(work.back)
    /\ UNCHANGED memory /\ GatewayUnchanged

Activate ==
    /\ work.pc = "activate"
    /\ \/ memory' = work.revision /\ Report(work.revision, "applied") /\ UNCHANGED faults
       \/ Fault /\ work' = [work EXCEPT !.pc = "rollback"] /\ UNCHANGED memory
    /\ UNCHANGED disk /\ GatewayUnchanged

\* rollbackActivation: the file goes back to the running configuration. Nothing is
\* reported if that fails, or if the state file is what was uncertain.
RollbackActivation ==
    /\ work.pc = "rollback"
    /\ \/ Written(memory) /\ (Report(work.revision, "rejected") \/ Silent)
       \/ (Unwritten \/ WrittenUncertain(memory)) /\ Silent
    /\ UNCHANGED memory /\ GatewayUnchanged

(***************************************************************************)
(* Acknowledgements                                                        *)
(***************************************************************************)
\* AutomationConfigAckOutbox.enqueue: one record per result; it may fail.
Record ==
    /\ work.pc = "record" /\ Silent
    /\ LET a == work.result
       IN \/ /\ ack' = [ack EXCEPT ![a] = IF @ \in {"none", "deleted"} THEN "stored" ELSE @]
             /\ UNCHANGED faults
          \/ Fault /\ UNCHANGED ack
    /\ UNCHANGED <<cloudVars, publisher, inbox, disk, memory>>

\* Mutant: a result of an older revision hides the rejection of the desired one.
StatusForgetful(r) == IF r = config.desired THEN "APPLIED" ELSE "PENDING"

\* The status after revision r turns out to be applied.
StatusAfter(r) ==
    IF r = config.desired THEN "APPLIED"
    ELSE IF config.status = "REJECTED" THEN "REJECTED" ELSE "PENDING"

ApplyResult(a) ==
    LET r == a.revision
    IN IF r <= config.applied \/ (a.status = "rejected" /\ r # config.desired)
       THEN UNCHANGED config
       ELSE IF a.status = "rejected"
       THEN config' = [config EXCEPT !.status = "REJECTED"]
       ELSE config' = [config EXCEPT !.applied = r, !.status = StatusAfter(r)]

\* onConfigApplied: a result comes once or often, from the record or late. It is
\* stored with the receipt.
IngestAck(a) ==
    /\ ack[a] # "none" /\ ApplyResult(a)
    /\ ack' = [ack EXCEPT ![a] = IF @ = "stored" THEN "ingested" ELSE @]
    /\ UNCHANGED <<row, publisher, inbox, gatewayVars, faults>>

\* AutomationConfigAckOutbox.acknowledge: the receipt has got through.
ReceiveReceipt(a) ==
    /\ ack[a] = "ingested" /\ work # Down
    /\ ack' = [ack EXCEPT ![a] = "deleted"]
    /\ UNCHANGED <<cloudVars, publisher, inbox, gatewayVars, faults>>

(***************************************************************************)
(* Restart of the gateway                                                  *)
(***************************************************************************)
\* The process dies, or the power: then any of the possible files is found.
Crash ==
    /\ work # Down /\ Fault
    /\ \/ UNCHANGED disk
       \/ \E d \in disk.durable : disk' = [visible |-> d, durable |-> {d}]
    /\ work' = Down
    /\ UNCHANGED memory /\ GatewayUnchanged

\* Mutant: the start reads the file without a sync of the directory before it.
StartUnsynced ==
    /\ work = Down /\ work' = Quiet
    /\ memory' = disk.visible
    /\ UNCHANGED <<disk, faults>> /\ GatewayUnchanged

\* The protocol revision is reserved before the file is read: the write syncs the
\* directory of both, and the process does not start without it.
Start ==
    /\ work = Down /\ work' = Quiet
    /\ disk' = [disk EXCEPT !.durable = {disk.visible}] /\ memory' = disk.visible
    /\ UNCHANGED faults /\ GatewayUnchanged

PublisherStep(p) == Claim(p) \/ Renew(p) \/ Fence(p) \/ Send(p) \/ Finish(p)
RuntimeStep == Store \/ Undo \/ Activate \/ RollbackActivation \/ Record

Next ==
    \/ Save \/ SaveUnsupported \/ Request
    \/ \E p \in Publishers : PublisherStep(p) \/ PublishFails(p) \/ PublisherCrash(p)
    \/ \E r \in Revisions : LeaseExpires(r) \/ Lose(r) \/ Receive(r)
    \/ RuntimeStep
    \/ \E a \in Results : IngestAck(a) \/ ReceiveReceipt(a)
    \/ Crash \/ Start

Spec == Init /\ [][Next]_vars

\* Publishers are interval timers and leases end; the gateway repeats its request
\* every 30 s, so that one of them meets a free row and one of the messages it
\* causes gets through; a recorded result is repeated until its receipt comes.
Fairness ==
    /\ \A p \in Publishers : WF_vars(PublisherStep(p))
    /\ \A r \in Revisions : WF_vars(LeaseExpires(r))
    /\ SF_vars(Request)
    /\ SF_vars(\E r \in Revisions : r = config.desired /\ Receive(r))
    /\ WF_vars(RuntimeStep)
    /\ \A a \in Results : WF_vars(IngestAck(a)) /\ WF_vars(ReceiveReceipt(a))
    /\ WF_vars(Start)

FairSpec == Spec /\ Fairness

(***************************************************************************)
(* Safety                                                                  *)
(***************************************************************************)
\* What the cloud shows as applied survives: whichever of the files an uncertain
\* write, an undo or a power loss leaves, the gateway starts from that revision
\* or a later one.
AppliedIsHeld == \A d \in disk.durable \cup {disk.visible} : config.applied <= d

\* The sync status is about the desired revision, however late, repeated or out of
\* order the results of others come: it is shown as applied just if it was applied,
\* as rejected only if the gateway rejected it or was never sent it, and no longer
\* as pending once its rejection has come in.
StatusIsHonest ==
    LET sent == row[config.desired].state # "none"
        rejection == ack[Result(config.desired, "rejected")]
    IN /\ config.status = "APPLIED" <=> config.applied = config.desired /\ config.desired # 0
       /\ config.status = "REJECTED" => ~sent \/ rejection # "none"
       /\ config.status = "PENDING" => sent /\ rejection \in {"none", "stored"}

\* The gateway never goes back to an older configuration, not for a late message of
\* a publisher that was overtaken and not over a restart.
NeverGoesBack == [][memory' >= memory]_memory

\* Configuration, running revision and status as the users may rely on them.
Contract == INSTANCE ConfigContract
                WITH desired <- config.desired, running <- memory,
                     known <- config.applied, shown <- config.status

\* Overtaken publishers, late, lost and repeated messages and results, uncertain
\* writes and restarts keep the contract: hotReload and initialize put newer
\* revisions to work that a user made, onConfigApplied learns of those only, and
\* the status changes for the desired one alone.
ImplementsContract == Contract!Spec

(***************************************************************************)
(* Liveness                                                                *)
(***************************************************************************)
\* A change is settled in the end: lost messages, rows that are dead or stuck in a
\* lease, crashes and failed writes notwithstanding, the cloud learns whether the
\* desired revision is applied.
ChangesSettle == config.status = "PENDING" ~> config.status # "PENDING"
=============================================================================
