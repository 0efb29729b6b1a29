--------------------------- MODULE GatewayCommand ---------------------------
(***************************************************************************)
(* The gateway's handling of one dimming command: the durable command      *)
(* journal, the handler that walks a command through admission, automation *)
(* ownership, the RF phase marker and the mesh adapter, duplicate          *)
(* deliveries, crashes and the recovery that runs before MQTT intake.      *)
(*                                                                         *)
(* apps/gateway/src/commands/gateway-command-handler.ts, command-journal.ts*)
(* automation/schedule-runtime.ts (manual ownership), index.ts (caller).   *)
(***************************************************************************)
EXTENDS Naturals, Sequences, FiniteSets

CONSTANTS
    Commands,       \* dimming commands, one idempotency key each
    Fixtures,       \* light fixtures
    Groups,         \* mesh control groups
    Targets,        \* the fixtures each command addresses
    Group,          \* the mesh group of a mesh_group command, or NoGroup
    Permit,         \* is a setPermit (DB clock and epoch proof) configured?
    DiskCanFill,    \* may the automation state fall back to memory (ENOSPC)?
    MaxDeliveries,  \* bound: MQTT deliveries of one command
    MaxCrashes,     \* bound: gateway restarts
    NoCommand,
    NoGroup

ASSUME TargetsAssumption == Targets \in [Commands -> (SUBSET Fixtures) \ {{}}]
ASSUME GroupAssumption == Group \in [Commands -> Groups \cup {NoGroup}]
ASSUME FlagAssumption == Permit \in BOOLEAN /\ DiskCanFill \in BOOLEAN
ASSUME BoundAssumption == MaxDeliveries \in Nat /\ MaxCrashes \in Nat
ASSUME NoneAssumption == NoCommand \notin Commands /\ NoGroup \notin Groups

VARIABLES
    phase,        \* "recovering" until initializeAutomationBeforeManualRecovery ends
    crashes,      \* restarts so far
    gate,         \* what a synchronous refusal check sees besides expiry
    expired,      \* has the delivery window of the command closed?
    deliveries,   \* MQTT deliveries so far
    waiting,      \* queued deliveries: was each refused when it was received?
    pubacked,     \* was a PUBACK for the command released?
    journal,      \* the fsynced command journal
    pruned,       \* history: the record of the command was removed by TTL
    task,         \* the live handler of each command
    replies,      \* ACKs a returned handler has still to publish
    adapter,      \* is a mesh adapter call of the command running?
    written,      \* history: fixtures whose native Set write started
    starts,       \* history: adapter invocations
    pendingMem,   \* pendingManualControls: owner of each fixture, in memory
    pendingDisk,  \* the same, as last written to disk
    awaiting,     \* pendingObservationFixtures
    acceptAcks,   \* history: acceptance statuses published
    statusAcks    \* history: device-status reports published

processVars == <<phase, crashes>>
envVars     == <<gate, expired>>
brokerVars  == <<deliveries, waiting>>
physVars    == <<adapter, written, starts>>
autoVars    == <<pendingMem, pendingDisk, awaiting>>
ackVars     == <<acceptAcks, statusAcks>>
recordVars  == <<journal, pruned>>
handlerVars == <<task, replies>>
vars == <<processVars, envVars, brokerVars, pubacked, recordVars, handlerVars,
          physVars, autoVars, ackVars>>

(***************************************************************************)
(* Data                                                                    *)
(***************************************************************************)
Gates    == {"open", "bio"} \cup IF Permit THEN {"clock"} ELSE {}
Statuses == {"none", "succeeded", "failed", "timed_out"}
Reports  == [Fixtures -> Statuses]
Acceptances == {"none", "accepted", "rejected"}

NoReports == [f \in Fixtures |-> "none"]

\* Every target of the command reported with the same status.
AllReport(c, s) == [f \in Fixtures |-> IF f \in Targets[c] THEN s ELSE "none"]

Records == [state: {"none", "accepted", "completed"},
            phase: {"none", "pre_rf", "may_have_written"},
            acceptance: Acceptances,
            reports: Reports,
            handoff: {"not_required", "pending", "completed"},
            abort: {"none", "pending", "completed"}]

NoRecord == [state |-> "none", phase |-> "none", acceptance |-> "none",
             reports |-> NoReports, handoff |-> "not_required", abort |-> "none"]

Pcs == {"idle", "lookup", "intake", "ready", "reject", "refuse", "accepted",
        "acking", "acked", "prepared", "marked", "applying", "refuseAbort",
        "finish", "abort", "abortMark", "handoff", "handoffMark"}

Tasks == [pc: Pcs, latched: BOOLEAN, acked: BOOLEAN, vetoed: BOOLEAN,
          wrote: BOOLEAN, reports: Reports]

NoTask == [pc |-> "idle", latched |-> FALSE, acked |-> FALSE,
           vetoed |-> FALSE, wrote |-> FALSE, reports |-> NoReports]

TypeOK ==
    /\ phase \in {"recovering", "running"}
    /\ crashes \in 0..MaxCrashes
    /\ gate \in Gates
    /\ expired \in [Commands -> BOOLEAN]
    /\ deliveries \in [Commands -> 0..MaxDeliveries]
    /\ waiting \in [Commands -> Seq(BOOLEAN)]
    /\ pubacked \in [Commands -> BOOLEAN]
    /\ journal \in [Commands -> Records]
    /\ pruned \in [Commands -> BOOLEAN]
    /\ task \in [Commands -> Tasks]
    /\ replies \in [Commands -> SUBSET {"acceptance", "status"}]
    /\ adapter \in [Commands -> {"idle", "running"}]
    /\ written \in [Commands -> SUBSET Fixtures]
    /\ starts \in [Commands -> Nat]
    /\ pendingMem \in [Fixtures -> Commands \cup {NoCommand}]
    /\ pendingDisk \in [Fixtures -> Commands \cup {NoCommand}]
    /\ awaiting \in SUBSET Fixtures
    /\ acceptAcks \in [Commands -> SUBSET Acceptances]
    /\ statusAcks \in [Commands -> SUBSET Reports]

Init ==
    /\ phase = "recovering"
    /\ crashes = 0
    /\ gate \in Gates
    /\ expired = [c \in Commands |-> FALSE]
    /\ deliveries = [c \in Commands |-> 0]
    /\ waiting = [c \in Commands |-> <<>>]
    /\ pubacked = [c \in Commands |-> FALSE]
    /\ journal = [c \in Commands |-> NoRecord]
    /\ pruned = [c \in Commands |-> FALSE]
    /\ task = [c \in Commands |-> NoTask]
    /\ replies = [c \in Commands |-> {}]
    /\ adapter = [c \in Commands |-> "idle"]
    /\ written = [c \in Commands |-> {}]
    /\ starts = [c \in Commands |-> 0]
    /\ pendingMem = [f \in Fixtures |-> NoCommand]
    /\ pendingDisk = [f \in Fixtures |-> NoCommand]
    /\ awaiting = {}
    /\ acceptAcks = [c \in Commands |-> {}]
    /\ statusAcks = [c \in Commands |-> {}]

(***************************************************************************)
(* Guards                                                                  *)
(***************************************************************************)
\* setPermit: only configured after cutover; it proves the window and the clock.
PermitRefuses(c) == Permit /\ (expired[c] \/ gate = "clock")

\* commandRefusal: the BIO source guard, the receipt TTL, then the permit.
Refused(c) == gate = "bio" \/ expired[c] \/ PermitRefuses(c)

\* Mutant: writesClosed is forgotten when the handler leaves the adapter call.
MayStartWriteUnclosed(c) == ~task[c].vetoed /\ ~Refused(c)

\* mayStartWrite: the gate every native Set passes through. Once the handler
\* has left the adapter call (writesClosed) or vetoed a write it stays shut.
MayStartWrite(c) == task[c].pc = "applying" /\ ~task[c].vetoed /\ ~Refused(c)

\* Mutant: a veto counts as a refusal although an earlier write has started.
RefusedAnyway(c) == task[c].vetoed

\* writeRefusal && !physicalWriteStarted
RefusedUnwritten(c) == task[c].vetoed /\ ~task[c].wrote

\* isPendingAutomationRecovery
PendingRecovery(c) ==
    \/ journal[c].state = "accepted"
    \/ journal[c].state = "completed" /\ journal[c].handoff = "pending"
    \/ journal[c].abort = "pending"

\* resultIsUncertain: such a record is never pruned.
Uncertain(c) == \E f \in Fixtures : journal[c].reports[f] = "timed_out"

Idle(c) == task[c].pc = "idle"

\* Mutant: mesh groups are not queued.
GroupUnqueued(c) == TRUE

\* keyed-serial-task-queue: a mesh group runs one handler at a time.
GroupFree(c) ==
    \A d \in Commands \ {c} :
        Group[c] # NoGroup /\ Group[d] = Group[c] => Idle(d)

(***************************************************************************)
(* Helpers of the actions                                                  *)
(***************************************************************************)
Goto(c, pc) == task' = [task EXCEPT ![c].pc = pc]

Durable(c) == pubacked' = [pubacked EXCEPT ![c] = TRUE]

\* The handler returned a result: its caller publishes the final acceptance
\* unless it was already published and accepted, then the device status.
Return(c, acceptance) ==
    /\ task' = [task EXCEPT ![c] = NoTask]
    /\ replies' = [replies EXCEPT ![c] = @ \cup {"status"} \cup
           IF task[c].acked /\ acceptance # "rejected" THEN {} ELSE {"acceptance"}]

\* The last journal step of a replay: a handler returns, the recovery loop goes on.
ReturnOrRecoverNext(c) ==
    IF phase = "running" THEN Return(c, journal[c].acceptance)
    ELSE task' = [task EXCEPT ![c] = NoTask] /\ UNCHANGED replies

Refusal(c) == [journal[c] EXCEPT !.state = "completed", !.acceptance = "rejected",
                                 !.reports = AllReport(c, "failed"),
                                 !.handoff = "not_required"]

\* Mutant: any write failure, not only a full disk, falls back to memory.
WriteMaybe(owners) ==
    pendingMem' = owners /\ (pendingDisk' = owners \/ UNCHANGED pendingDisk)

\* updateControlState: written through, or kept in memory while the disk is full.
WriteThrough(owners) ==
    /\ pendingMem' = owners
    /\ \/ pendingDisk' = owners
       \/ DiskCanFill /\ UNCHANGED pendingDisk

\* Mutant: the sourceId of a pending manual control is not compared.
OwnedByAnyone(c) == Targets[c]

\* Fixtures whose pending manual control the command still owns.
OwnedBy(c) == {f \in Targets[c] : pendingMem[f] = c}

Released(fs) == [f \in Fixtures |-> IF f \in fs THEN NoCommand ELSE pendingMem[f]]

Process(c) == phase = "running" /\ task[c].pc # "idle"

(***************************************************************************)
(* Delivery                                                                *)
(***************************************************************************)
\* handleMessage / handleDimmingPayloadV2: the permit refusal is latched when
\* the packet arrives, before the packet waits for its turn.
Deliver(c) ==
    /\ phase = "running"
    /\ deliveries[c] < MaxDeliveries
    /\ deliveries' = [deliveries EXCEPT ![c] = @ + 1]
    /\ waiting' = [waiting EXCEPT ![c] = Append(@, PermitRefuses(c))]
    /\ UNCHANGED <<processVars, envVars, pubacked, recordVars, handlerVars,
                   physVars, autoVars, ackVars>>

\* handleGatewayDimmingCommand: deliveries of one key run one after the other,
\* those of one mesh group too.
Dequeue(c) ==
    /\ phase = "running"
    /\ waiting[c] # <<>>
    /\ Idle(c)
    /\ GroupFree(c)
    /\ waiting' = [waiting EXCEPT ![c] = Tail(@)]
    /\ task' = [task EXCEPT ![c] = [NoTask EXCEPT !.pc = "lookup",
                                                  !.latched = Head(waiting[c])]]
    /\ UNCHANGED <<processVars, envVars, deliveries, pubacked, recordVars,
                   replies, physVars, autoVars, ackVars>>

\* journal.get: a completed record is replayed (with the abort or handoff it
\* still owes), an accepted one belongs to a run that was lost.
Lookup(c) ==
    /\ Process(c) /\ task[c].pc = "lookup"
    /\ \/ /\ journal[c].state = "none"
          /\ Goto(c, "intake")
          /\ UNCHANGED <<pubacked, replies>>
       \/ /\ journal[c].state = "completed"
          /\ Durable(c)
          /\ \/ journal[c].abort = "pending" /\ Goto(c, "abort") /\ UNCHANGED replies
             \/ /\ journal[c].abort # "pending" /\ journal[c].handoff = "pending"
                /\ Goto(c, "handoff") /\ UNCHANGED replies
             \/ /\ journal[c].abort # "pending" /\ journal[c].handoff # "pending"
                /\ Return(c, journal[c].acceptance)
       \/ /\ journal[c].state = "accepted"
          /\ Durable(c)
          /\ UNCHANGED replies
          /\ \/ journal[c].phase = "pre_rf" /\ Goto(c, "refuseAbort")
             \/ /\ journal[c].phase # "pre_rf"
                /\ task' = [task EXCEPT ![c].pc = "finish",
                                        ![c].reports = AllReport(c, "timed_out")]
    /\ UNCHANGED <<processVars, envVars, brokerVars, recordVars, physVars,
                   autoVars, ackVars>>

(***************************************************************************)
(* Admission                                                               *)
(***************************************************************************)
\* Mutant: the PUBACK is released before the journal knows the command.
PassIntakeEarlyPuback(c) ==
    /\ Process(c) /\ task[c].pc = "intake"
    /\ ~task[c].latched /\ ~Refused(c)
    /\ Durable(c)
    /\ Goto(c, "ready")
    /\ UNCHANGED <<processVars, envVars, brokerVars, recordVars, replies,
                   physVars, autoVars, ackVars>>

PassIntake(c) ==
    /\ Process(c) /\ task[c].pc = "intake"
    /\ ~task[c].latched /\ ~Refused(c)
    /\ Goto(c, "ready")
    /\ UNCHANGED <<processVars, envVars, brokerVars, pubacked, recordVars,
                   replies, physVars, autoVars, ackVars>>

\* rejectSetCommand, not yet accepted: the terminal refusal is the first record.
AdmissionRefused(c) ==
    /\ Process(c)
    /\ \/ task[c].pc = "intake" /\ (task[c].latched \/ Refused(c))
       \/ task[c].pc = "ready" /\ Refused(c)
    /\ journal' = [journal EXCEPT ![c] = Refusal(c)]
    /\ Goto(c, "refuse")
    /\ UNCHANGED <<processVars, envVars, brokerVars, pubacked, pruned, replies,
                   physVars, autoVars, ackVars>>

\* rejectBeforeExecution: the mesh group is not ready or the state outbox has
\* no room. The record is first accepted, with a rejected acceptance.
RejectBeforeExecution(c) ==
    /\ Process(c) /\ task[c].pc = "ready"
    /\ journal' = [journal EXCEPT ![c] = [NoRecord EXCEPT !.state = "accepted",
                                                          !.acceptance = "rejected"]]
    /\ Goto(c, "reject")
    /\ UNCHANGED <<processVars, envVars, brokerVars, pubacked, pruned, replies,
                   physVars, autoVars, ackVars>>

Accept(c) ==
    /\ Process(c) /\ task[c].pc = "ready"
    /\ ~Refused(c)
    /\ journal' = [journal EXCEPT ![c] =
           [NoRecord EXCEPT !.state = "accepted", !.acceptance = "accepted",
                            !.phase = IF Permit THEN "pre_rf" ELSE "none"]]
    /\ Goto(c, "accepted")
    /\ UNCHANGED <<processVars, envVars, brokerVars, pubacked, pruned, replies,
                   physVars, autoVars, ackVars>>

\* onDurableReceipt after the fsync, then the refusal check is repeated.
ReleasePuback(c) ==
    /\ Process(c) /\ task[c].pc = "accepted"
    /\ Durable(c)
    /\ Goto(c, IF Refused(c) THEN "refuse" ELSE "acking")
    /\ UNCHANGED <<processVars, envVars, brokerVars, recordVars, replies,
                   physVars, autoVars, ackVars>>

PublishAcceptance(c) ==
    /\ Process(c) /\ task[c].pc = "acking"
    /\ acceptAcks' = [acceptAcks EXCEPT ![c] = @ \cup {"accepted"}]
    /\ task' = [task EXCEPT ![c].pc = "acked", ![c].acked = TRUE]
    /\ UNCHANGED <<processVars, envVars, brokerVars, pubacked, recordVars,
                   replies, physVars, autoVars, statusAcks>>

(***************************************************************************)
(* Execution                                                               *)
(***************************************************************************)
\* The refusal check after an await: without ownership the record is simply
\* completed as rejected, with ownership an abort is owed.
Recheck(c) ==
    /\ Process(c)
    /\ Refused(c)
    /\ \/ task[c].pc = "acked" /\ Goto(c, "refuse")
       \/ task[c].pc \in {"prepared", "marked"} /\ Goto(c, "refuseAbort")
    /\ UNCHANGED <<processVars, envVars, brokerVars, pubacked, recordVars,
                   replies, physVars, autoVars, ackVars>>

\* prepareManualControl: the command takes the fixtures over from any older owner.
Prepare(c) ==
    /\ Process(c) /\ task[c].pc = "acked"
    /\ ~Refused(c)
    /\ WriteThrough([f \in Fixtures |-> IF f \in Targets[c] THEN c ELSE pendingMem[f]])
    /\ Goto(c, "prepared")
    /\ UNCHANGED <<processVars, envVars, brokerVars, pubacked, recordVars,
                   replies, physVars, awaiting, ackVars>>

\* Without a permit a failed prepare becomes a failed device status.
PrepareFails(c) ==
    /\ Process(c) /\ task[c].pc = "acked"
    /\ ~Permit /\ ~Refused(c)
    /\ task' = [task EXCEPT ![c].pc = "finish", ![c].reports = AllReport(c, "failed")]
    /\ UNCHANGED <<processVars, envVars, brokerVars, pubacked, recordVars,
                   replies, physVars, autoVars, ackVars>>

MarkExecutionMayHaveStarted(c) ==
    /\ Process(c) /\ task[c].pc = "prepared"
    /\ Permit /\ ~Refused(c)
    /\ journal' = [journal EXCEPT ![c].phase = "may_have_written"]
    /\ Goto(c, "marked")
    /\ UNCHANGED <<processVars, envVars, brokerVars, pubacked, pruned, replies,
                   physVars, autoVars, ackVars>>

\* applyCommand: the check before it and the call are one synchronous step.
StartExecution(c) ==
    /\ Process(c) /\ task[c].pc = IF Permit THEN "marked" ELSE "prepared"
    /\ ~Refused(c)
    /\ adapter' = [adapter EXCEPT ![c] = "running"]
    /\ starts' = [starts EXCEPT ![c] = @ + 1]
    /\ Goto(c, "applying")
    /\ UNCHANGED <<processVars, envVars, brokerVars, pubacked, recordVars,
                   replies, written, autoVars, ackVars>>

\* A native Set of one fixture; a continuation that outlived the watchdog gets
\* here too, and is stopped by the gate only.
Write(c, f) ==
    /\ adapter[c] = "running"
    /\ MayStartWrite(c)
    /\ f \in Targets[c] \ written[c]
    /\ written' = [written EXCEPT ![c] = @ \cup {f}]
    /\ task' = [task EXCEPT ![c].wrote = TRUE]
    /\ UNCHANGED <<processVars, envVars, brokerVars, pubacked, recordVars,
                   replies, adapter, starts, autoVars, ackVars>>

\* mayStartWrite answered no: writeRefusal is remembered for this run.
Veto(c) ==
    /\ adapter[c] = "running"
    /\ task[c].pc = "applying" /\ ~task[c].vetoed
    /\ Refused(c)
    /\ task' = [task EXCEPT ![c].vetoed = TRUE]
    /\ UNCHANGED <<processVars, envVars, brokerVars, pubacked, recordVars,
                   replies, physVars, autoVars, ackVars>>

\* The adapter returns verified reports: success means the value was read back.
AdapterReports(c) ==
    /\ Process(c) /\ task[c].pc = "applying"
    /\ adapter[c] = "running"
    /\ adapter' = [adapter EXCEPT ![c] = "idle"]
    /\ \/ RefusedUnwritten(c) /\ Goto(c, "refuseAbort")
       \/ /\ ~RefusedUnwritten(c)
          /\ \E r \in [Targets[c] -> Statuses \ {"none"}] :
                /\ \A f \in Targets[c] : r[f] = "succeeded" => f \in written[c]
                /\ task' = [task EXCEPT ![c].pc = "finish",
                       ![c].reports = [f \in Fixtures |->
                           IF f \in Targets[c] THEN r[f] ELSE "none"]]
    /\ UNCHANGED <<processVars, envVars, brokerVars, pubacked, recordVars,
                   replies, written, starts, autoVars, ackVars>>

\* The catch block: a refused and unwritten run is a refusal, a run that may
\* have written is timed out, anything else failed.
ExecutionFails(c, watchdog) ==
    \/ RefusedUnwritten(c) /\ Goto(c, "refuseAbort")
    \/ /\ ~RefusedUnwritten(c)
       /\ task' = [task EXCEPT ![c].pc = "finish",
              ![c].reports = AllReport(c, IF task[c].wrote \/ watchdog
                                          THEN "timed_out" ELSE "failed")]

AdapterThrows(c) ==
    /\ Process(c) /\ task[c].pc = "applying"
    /\ adapter[c] = "running"
    /\ adapter' = [adapter EXCEPT ![c] = "idle"]
    /\ ExecutionFails(c, FALSE)
    /\ UNCHANGED <<processVars, envVars, brokerVars, pubacked, recordVars,
                   replies, written, starts, autoVars, ackVars>>

\* withTimeout: the handler stops waiting, the adapter call is still running.
Watchdog(c) ==
    /\ Process(c) /\ task[c].pc = "applying"
    /\ ExecutionFails(c, TRUE)
    /\ UNCHANGED <<processVars, envVars, brokerVars, pubacked, recordVars,
                   replies, physVars, autoVars, ackVars>>

AdapterEndsLate(c) ==
    /\ adapter[c] = "running" /\ task[c].pc # "applying"
    /\ adapter' = [adapter EXCEPT ![c] = "idle"]
    /\ UNCHANGED <<processVars, envVars, brokerVars, pubacked, recordVars,
                   handlerVars, written, starts, autoVars, ackVars>>

(***************************************************************************)
(* Completion                                                              *)
(***************************************************************************)
\* rejectSetCommand without ownership; the terminal fsync releases the PUBACK.
CompleteRefusal(c) ==
    /\ Process(c) /\ task[c].pc = "refuse"
    /\ journal' = [journal EXCEPT ![c] = Refusal(c)]
    /\ Durable(c)
    /\ Return(c, "rejected")
    /\ UNCHANGED <<processVars, envVars, brokerVars, pruned, physVars, autoVars, ackVars>>

\* rejectBeforeExecution: here the PUBACK waits until the handler has published.
CompleteRejection(c) ==
    /\ Process(c) /\ task[c].pc = "reject"
    /\ journal' = [journal EXCEPT ![c] = Refusal(c)]
    /\ Return(c, "rejected")
    /\ UNCHANGED <<processVars, envVars, brokerVars, pubacked, pruned, physVars,
                   autoVars, ackVars>>

\* Mutant: the abort intent is not part of the terminal fsync.
CompleteWithoutAbortIntent(c) ==
    /\ task[c].pc = "refuseAbort"
    /\ journal' = [journal EXCEPT ![c] = Refusal(c)]
    /\ Goto(c, "abort")
    /\ UNCHANGED <<processVars, envVars, brokerVars, pubacked, pruned, replies,
                   physVars, autoVars, ackVars>>

\* completeWithAutomationAbort: refusal and abort intent share one fsync.
CompleteWithAbort(c) ==
    /\ task[c].pc = "refuseAbort"
    /\ journal' = [journal EXCEPT ![c] = [Refusal(c) EXCEPT !.abort = "pending"]]
    /\ Goto(c, "abort")
    /\ UNCHANGED <<processVars, envVars, brokerVars, pubacked, pruned, replies,
                   physVars, autoVars, ackVars>>

\* Mutant: the abort uses the write path with the memory-only fallback.
AbortMaybeInMemory(c) ==
    /\ task[c].pc = "abort"
    /\ WriteThrough(Released(OwnedBy(c)))
    /\ awaiting' = awaiting \ OwnedBy(c)
    /\ Goto(c, "abortMark")
    /\ UNCHANGED <<processVars, envVars, brokerVars, pubacked, recordVars,
                   replies, physVars, ackVars>>

\* abortManualControl: only the owner's entries, and only durably.
AbortManualControl(c) ==
    /\ task[c].pc = "abort"
    /\ pendingMem' = Released(OwnedBy(c))
    /\ pendingDisk' = pendingMem'
    /\ awaiting' = awaiting \ OwnedBy(c)
    /\ Goto(c, "abortMark")
    /\ UNCHANGED <<processVars, envVars, brokerVars, pubacked, recordVars,
                   replies, physVars, ackVars>>

MarkAutomationAbortComplete(c) ==
    /\ task[c].pc = "abortMark"
    /\ journal' = [journal EXCEPT ![c].abort = "completed"]
    /\ ReturnOrRecoverNext(c)
    /\ UNCHANGED <<processVars, envVars, brokerVars, pubacked, pruned, physVars,
                   autoVars, ackVars>>

\* completeWithAutomationHandoff: the result and the owed handoff share one fsync.
CompleteWithHandoff(c) ==
    /\ task[c].pc = "finish"
    /\ journal' = [journal EXCEPT ![c].state = "completed",
                                  ![c].reports = task[c].reports,
                                  ![c].handoff = "pending"]
    /\ Goto(c, "handoff")
    /\ UNCHANGED <<processVars, envVars, brokerVars, pubacked, pruned, replies,
                   physVars, autoVars, ackVars>>

\* handoffManualTerminal: settles the fixtures the command still owns.
HandoffManualTerminal(c) ==
    /\ task[c].pc = "handoff"
    /\ WriteThrough(Released(OwnedBy(c)))
    /\ awaiting' = awaiting \ OwnedBy(c)
    /\ Goto(c, "handoffMark")
    /\ UNCHANGED <<processVars, envVars, brokerVars, pubacked, recordVars,
                   replies, physVars, ackVars>>

MarkAutomationHandoffComplete(c) ==
    /\ task[c].pc = "handoffMark"
    /\ journal' = [journal EXCEPT ![c].handoff = "completed"]
    /\ ReturnOrRecoverNext(c)
    /\ UNCHANGED <<processVars, envVars, brokerVars, pubacked, pruned, physVars,
                   autoVars, ackVars>>

\* replayAutomationHandoff swallows the error; the record keeps the handoff owed.
HandoffFails(c) ==
    /\ Process(c) /\ task[c].pc \in {"handoff", "handoffMark"}
    /\ Return(c, journal[c].acceptance)
    /\ UNCHANGED <<processVars, envVars, brokerVars, pubacked, recordVars,
                   physVars, autoVars, ackVars>>

\* Mutant: the per-key chain is not continued after a rejected handler.
HandlerThrowsAndBlocks(c) ==
    /\ Process(c) /\ task[c].pc \in {"lookup", "intake", "ready"}
    /\ Goto(c, "failed")
    /\ UNCHANGED <<processVars, envVars, brokerVars, pubacked, recordVars,
                   replies, physVars, autoVars, ackVars>>

\* Any other I/O of the handler may reject: no result is published, and the
\* record stays as far as it got.
HandlerThrows(c) ==
    /\ Process(c)
    /\ task[c].pc \in {"lookup", "intake", "ready", "reject", "refuse", "accepted",
                       "acking", "refuseAbort", "finish", "abort", "abortMark"}
                      \cup IF Permit THEN {"acked", "prepared"} ELSE {}
    /\ task' = [task EXCEPT ![c] = NoTask]
    /\ UNCHANGED <<processVars, envVars, brokerVars, pubacked, recordVars,
                   replies, physVars, autoVars, ackVars>>

(***************************************************************************)
(* Publication by the caller, after the per-key queue moved on             *)
(***************************************************************************)
PublishFinalAcceptance(c) ==
    /\ "acceptance" \in replies[c]
    /\ acceptAcks' = [acceptAcks EXCEPT ![c] = @ \cup {journal[c].acceptance}]
    /\ replies' = [replies EXCEPT ![c] = @ \ {"acceptance"}]
    /\ UNCHANGED <<processVars, envVars, brokerVars, pubacked, recordVars, task,
                   physVars, autoVars, statusAcks>>

\* The device status has no outbox; a handler that returns releases the PUBACK.
PublishStatus(c) ==
    /\ replies[c] = {"status"}
    /\ statusAcks' = [statusAcks EXCEPT ![c] = @ \cup {journal[c].reports}]
    /\ replies' = [replies EXCEPT ![c] = {}]
    /\ Durable(c)
    /\ UNCHANGED <<processVars, envVars, brokerVars, recordVars, task, physVars,
                   autoVars, acceptAcks>>

\* The connection is gone: the remaining publications of the handler are lost.
PublishFails(c) ==
    /\ replies[c] # {}
    /\ replies' = [replies EXCEPT ![c] = {}]
    /\ UNCHANGED <<processVars, envVars, brokerVars, pubacked, recordVars, task,
                   physVars, autoVars, ackVars>>

(***************************************************************************)
(* Restart                                                                 *)
(***************************************************************************)
\* Everything in memory is lost; initialize marks the fixtures whose pending
\* transition survived as awaiting an observation.
Crash ==
    /\ crashes < MaxCrashes
    /\ crashes' = crashes + 1
    /\ phase' = "recovering"
    /\ waiting' = [c \in Commands |-> <<>>]
    /\ task' = [c \in Commands |-> NoTask]
    /\ replies' = [c \in Commands |-> {}]
    /\ adapter' = [c \in Commands |-> "idle"]
    /\ pendingMem' = pendingDisk
    /\ awaiting' = {f \in Fixtures : pendingDisk[f] # NoCommand}
    /\ UNCHANGED <<envVars, deliveries, pubacked, recordVars, written, starts,
                   pendingDisk, ackVars>>

\* Mutant: recovery treats a completed record that owes its handoff as work cut off.
RecoverAsIndeterminate(c) ==
    /\ phase = "recovering"
    /\ \A d \in Commands : Idle(d)
    /\ PendingRecovery(c)
    /\ task' = [task EXCEPT ![c].pc = "finish",
                            ![c].reports = AllReport(c, "timed_out")]
    /\ UNCHANGED <<processVars, envVars, brokerVars, pubacked, recordVars,
                   replies, physVars, autoVars, ackVars>>

\* recoverPendingManualAutomationHandoffs, one record after the other. Work that
\* was accepted but has no marker is refused, any other becomes indeterminate.
Recover(c) ==
    /\ phase = "recovering"
    /\ \A d \in Commands : Idle(d)
    /\ \/ journal[c].abort = "pending" /\ Goto(c, "abort")
       \/ /\ journal[c].state = "accepted" /\ journal[c].phase = "pre_rf"
          /\ Goto(c, "refuseAbort")
       \/ /\ journal[c].state = "accepted" /\ journal[c].phase # "pre_rf"
          /\ task' = [task EXCEPT ![c].pc = "finish",
                                  ![c].reports = AllReport(c, "timed_out")]
       \/ /\ journal[c].state = "completed" /\ journal[c].handoff = "pending"
          /\ Goto(c, "handoff")
    /\ UNCHANGED <<processVars, envVars, brokerVars, pubacked, recordVars,
                   replies, physVars, autoVars, ackVars>>

\* Mutant: MQTT intake does not wait for the recovery loop.
OpenIntakeAtOnce ==
    /\ phase = "recovering"
    /\ phase' = "running"
    /\ UNCHANGED <<crashes, envVars, brokerVars, pubacked, recordVars,
                   handlerVars, physVars, autoVars, ackVars>>

\* MQTT intake starts only after the recovery loop has returned.
OpenIntake ==
    /\ phase = "recovering"
    /\ \A c \in Commands : Idle(c) /\ ~PendingRecovery(c)
    /\ phase' = "running"
    /\ UNCHANGED <<crashes, envVars, brokerVars, pubacked, recordVars,
                   handlerVars, physVars, autoVars, ackVars>>

(***************************************************************************)
(* Environment                                                             *)
(***************************************************************************)
\* recordFixtureState: the first fresh observation after a restart settles the
\* control that was pending on the fixture.
SettleByObservation(f) ==
    /\ phase = "running"
    /\ f \in awaiting /\ pendingMem[f] # NoCommand
    /\ WriteThrough(Released({f}))
    /\ awaiting' = awaiting \ {f}
    /\ UNCHANGED <<processVars, envVars, brokerVars, pubacked, recordVars,
                   handlerVars, physVars, ackVars>>

\* The DB clock proof is lost or regained, a BIO source claims or frees a target.
GateChange ==
    /\ gate' \in Gates \ {gate}
    /\ UNCHANGED <<processVars, expired, brokerVars, pubacked, recordVars,
                   handlerVars, physVars, autoVars, ackVars>>

Expire(c) ==
    /\ ~expired[c]
    /\ expired' = [expired EXCEPT ![c] = TRUE]
    /\ UNCHANGED <<processVars, gate, brokerVars, pubacked, recordVars,
                   handlerVars, physVars, autoVars, ackVars>>

\* Mutant: records are pruned while the delivery window is still open.
PruneEarly(c) ==
    /\ Idle(c) /\ replies[c] = {}
    /\ journal[c].state = "completed"
    /\ ~PendingRecovery(c) /\ ~Uncertain(c)
    /\ journal' = [journal EXCEPT ![c] = NoRecord]
    /\ pruned' = [pruned EXCEPT ![c] = TRUE]
    /\ UNCHANGED <<processVars, envVars, brokerVars, pubacked, handlerVars,
                   physVars, autoVars, ackVars>>

\* The 24 h TTL of a record is far longer than the delivery window.
Prune(c) ==
    /\ expired[c] /\ Idle(c) /\ replies[c] = {}
    /\ journal[c].state = "completed"
    /\ ~PendingRecovery(c) /\ ~Uncertain(c)
    /\ journal' = [journal EXCEPT ![c] = NoRecord]
    /\ pruned' = [pruned EXCEPT ![c] = TRUE]
    /\ UNCHANGED <<processVars, envVars, brokerVars, pubacked, handlerVars,
                   physVars, autoVars, ackVars>>

HandlerStep(c) ==
    \/ Dequeue(c) \/ Lookup(c) \/ PassIntake(c) \/ AdmissionRefused(c)
    \/ RejectBeforeExecution(c) \/ Accept(c) \/ ReleasePuback(c)
    \/ PublishAcceptance(c) \/ Recheck(c) \/ Prepare(c) \/ PrepareFails(c)
    \/ MarkExecutionMayHaveStarted(c) \/ StartExecution(c)
    \/ AdapterReports(c) \/ AdapterThrows(c) \/ Watchdog(c)
    \/ CompleteRefusal(c) \/ CompleteRejection(c) \/ CompleteWithAbort(c)
    \/ AbortManualControl(c) \/ MarkAutomationAbortComplete(c)
    \/ CompleteWithHandoff(c) \/ HandoffManualTerminal(c)
    \/ MarkAutomationHandoffComplete(c) \/ HandoffFails(c)
    \/ HandlerThrows(c) \/ PublishFinalAcceptance(c) \/ PublishStatus(c)
    \/ PublishFails(c) \/ Recover(c)

Next ==
    \/ \E c \in Commands :
          \/ HandlerStep(c) \/ Deliver(c) \/ Veto(c) \/ AdapterEndsLate(c)
          \/ Expire(c) \/ Prune(c)
          \/ \E f \in Fixtures : Write(c, f)
    \/ \E f \in Fixtures : SettleByObservation(f)
    \/ OpenIntake \/ Crash \/ GateChange

Spec == Init /\ [][Next]_vars

\* The event loop runs every ready continuation, the watchdog timer fires, and
\* startup ends once recovery has. Deliveries, crashes and the gate are not fair.
Fairness == /\ \A c \in Commands : WF_vars(HandlerStep(c))
            /\ WF_vars(OpenIntake)

FairSpec == Spec /\ Fairness

(***************************************************************************)
(* Safety                                                                  *)
(***************************************************************************)
\* A command the journal calls rejected has never touched a lamp: every refusal
\* path (admission, rechecks, sticky write veto, duplicate of a lost run,
\* startup recovery) is taken before the first native Set only.
RefusedMeansUnwritten ==
    \A c \in Commands :
        journal[c].state = "completed" /\ journal[c].acceptance = "rejected"
        /\ ~pruned[c] => written[c] = {}

\* Over all duplicates, retries, restarts and even the pruning of its record,
\* a command reaches the mesh adapter at most once.
SingleExecution == \A c \in Commands : starts[c] <= 1

\* Whatever was published for a command is what its journal record says, now
\* and after any later replay or recovery.
AckMatchesJournal ==
    \A c \in Commands :
        ~pruned[c] =>
            /\ \A r \in statusAcks[c] :
                  journal[c].state = "completed" /\ journal[c].reports = r
            /\ "rejected" \in acceptAcks[c] =>
                  journal[c].state = "completed" /\ journal[c].acceptance = "rejected"

\* A PUBACK, after which the broker forgets the command, is only released once
\* the journal knows the command.
PubackIsDurable ==
    \A c \in Commands : pubacked[c] => pruned[c] \/ journal[c].state # "none"

\* An aborted command owns no fixture, in memory or on disk, whatever prepare,
\* duplicate or restart comes after the abort was acknowledged.
AbortReleasesOwnership ==
    \A c \in Commands, f \in Fixtures :
        journal[c].abort = "completed" => pendingMem[f] # c /\ pendingDisk[f] # c

\* A fixture held by a manual control is always going to be released: by its
\* command's owed abort or handoff, or, if a full disk brought the ownership
\* back at a restart, by the next observation of the fixture.
OwnershipIsReleasable ==
    \A f \in Fixtures :
        pendingMem[f] # NoCommand =>
            PendingRecovery(pendingMem[f]) \/ f \in awaiting

\* With room on the disk the ownership on disk is always owed by a record that
\* startup recovery will find.
DiskOwnershipIsRecoverable ==
    \A f \in Fixtures :
        ~DiskCanFill /\ pendingDisk[f] # NoCommand => PendingRecovery(pendingDisk[f])

(***************************************************************************)
(* Action properties                                                       *)
(***************************************************************************)
\* A lamp is written only while the durable record admits the command and, with
\* a permit, already says that writes may have happened: a crash right after the
\* write can never be mistaken for a command that wrote nothing.
WritesAreRecorded ==
    [][\A c \in Commands : written'[c] # written[c] =>
          /\ journal[c].state = "accepted" /\ journal[c].acceptance = "accepted"
          /\ Permit => journal[c].phase = "may_have_written"]_vars

\* A completed result never changes: not by a replay, not by recovery, not by a
\* duplicate that was waiting. It can only be pruned.
ResultIsFinal ==
    [][\A c \in Commands : journal[c].state = "completed" =>
          \/ pruned'[c] /\ journal'[c] = NoRecord
          \/ /\ journal'[c].state = "completed"
             /\ journal'[c].acceptance = journal[c].acceptance
             /\ journal'[c].reports = journal[c].reports]_vars

\* Two commands to one mesh group never write in turns: no write of one while
\* the handler of the other is under way, late adapter continuations included.
GroupWritesAreSerial ==
    [][\A c, d \in Commands :
          c # d /\ Group[c] # NoGroup /\ Group[d] = Group[c]
          /\ written'[c] # written[c] => Idle(d)]_vars

\* With room on the disk, a fixture owned by a command that is still under way is
\* not set free by anybody: not by the abort or handoff of an older command, not
\* by an observation. Only a newer command may take it over.
LiveOwnershipIsKept ==
    [][\A c \in Commands, f \in Fixtures :
          /\ ~DiskCanFill /\ phase' = "running"
          /\ journal[c].state = "accepted" /\ pendingMem[f] = c
          => pendingMem'[f] # NoCommand]_vars

(***************************************************************************)
(* Liveness                                                                *)
(***************************************************************************)
\* Startup settles every command a crash interrupted.
RecoverySettles ==
    \A c \in Commands :
        phase = "recovering" /\ journal[c].state = "accepted"
            ~> journal[c].state = "completed"

\* Every queued delivery gets its turn: neither the per-key chain nor the group
\* queue can block for ever.
DeliveriesDrain == \A c \in Commands : waiting[c] # <<>> ~> waiting[c] = <<>>

(***************************************************************************)
(* Refinement                                                              *)
(***************************************************************************)
\* What the record, the only thing that survives a crash, says of the command.
contractState == [c \in Commands |->
    IF pruned[c] THEN "forgotten"
    ELSE IF journal[c].state # "completed" THEN "open"
    ELSE IF journal[c].acceptance = "rejected" THEN "refused" ELSE "done"]

contractOutcome == [c \in Commands |->
    IF pruned[c] \/ journal[c].state # "completed" THEN NoReports
    ELSE journal[c].reports]

Contract == INSTANCE SetContract
                WITH state <- contractState, outcome <- contractOutcome, lit <- written

\* The handler with its journal keeps the contract of a Set command.
ImplementsContract == Contract!Spec
=============================================================================
