-------------------------- MODULE CommandDelivery --------------------------
(***************************************************************************)
(* The API's side of a dimming command: the command with its outcome, the  *)
(* Set dispatch and the status-check (Get) dispatches that may have to     *)
(* verify it, the leased MQTT outbox and the publisher processes, the      *)
(* timeout worker, and the two kinds of gateway ACK, which the broker may  *)
(* lose, delay, duplicate and reorder.                                     *)
(*                                                                         *)
(* apps/api/src/mqtt/outbox-publisher.service.ts, mqtt/mqtt.service.ts,    *)
(* commands/command-timeout.service.ts, command-verification.service.ts,   *)
(* commands.service.ts. Each database transaction is one step: they all    *)
(* take the same advisory lock first (automationSnapshot.lockMutation).    *)
(***************************************************************************)
EXTENDS Naturals, FiniteSets

CONSTANTS
    Commands,       \* dimming commands
    Fixtures,       \* light fixtures
    Chunks,         \* wire-sized chunks of a status check
    Targets,        \* the fixtures each command addresses
    ChunkOf,        \* the chunk a fixture falls in
    MeshCommands,   \* commands delivered to a mesh group
    SetPublishers,  \* OutboxPublisherService processes
    GetPublishers,  \* StatusCheckOutboxPublisher processes
    Epoch,          \* is the publish epoch (admitSet) required?
    MaxAttempts,    \* MAX_ATTEMPTS of one outbox row
    MaxChecks,      \* verification attempts of one command
    MaxSetEvents,   \* bound: distinct status events of one Set dispatch
    MaxCheckEvents, \* bound: distinct status events of one status check
    MaxFaults,      \* bound: publisher crashes and stalls longer than a lease
    Whole,          \* the "chunk" of a Set dispatch
    NoPublisher

Publishers == SetPublishers \cup GetPublishers

ASSUME TargetsAssumption == Targets \in [Commands -> (SUBSET Fixtures) \ {{}}]
ASSUME ChunkAssumption == ChunkOf \in [Fixtures -> Chunks] /\ Whole \notin Chunks
ASSUME MeshAssumption == MeshCommands \subseteq Commands
ASSUME PublisherAssumption ==
    SetPublishers \cap GetPublishers = {} /\ NoPublisher \notin Publishers
ASSUME FlagAssumption == Epoch \in BOOLEAN
ASSUME BoundAssumption ==
    /\ MaxAttempts \in Nat \ {0} /\ MaxChecks \in Nat
    /\ MaxSetEvents \in Nat /\ MaxCheckEvents \in Nat /\ MaxFaults \in Nat

VARIABLES
    outcome,      \* Command.outcome; Command.status follows from it
    dispatch,     \* CommandDispatch rows with their CommandFixtureResult rows
    outbox,       \* MqttOutbox rows
    publisher,    \* the batch each publisher is working on
    group,        \* the mesh control group a command names
    scan,         \* the timeout worker's stale view of the overdue dispatches
    handed,       \* history: dispatches enqueued into the MQTT client
    claimed,      \* ProcessedGatewayEvent: status events already consumed
    faults        \* publisher crashes and stalls so far

rowVars == <<outcome, dispatch>>
vars == <<rowVars, outbox, publisher, group, scan, handed, claimed, faults>>

(***************************************************************************)
(* Data                                                                    *)
(***************************************************************************)
SetOf(c) == [command |-> c, attempt |-> 0, chunk |-> Whole]
CheckOf(c, n, k) == [command |-> c, attempt |-> n, chunk |-> k]

Checks == [command: Commands, attempt: 1..MaxChecks, chunk: Chunks]
Dispatches == {SetOf(c) : c \in Commands} \cup Checks

IsSet(d) == d.chunk = Whole

\* The fixtures a dispatch has a result row for.
Covers(d) == IF IsSet(d) THEN Targets[d.command]
             ELSE {f \in Targets[d.command] : ChunkOf[f] = d.chunk}

ActiveStatuses == {"pending", "published", "accepted"}
TimeoutCodes   == {"ACCEPTANCE_TIMEOUT", "STATUS_TIMEOUT"}
PublishCodes   == {"MQTT_DEAD_LETTER", "COMMAND_DELIVERY_EXPIRED", "MESH_GROUP_STALE"}
ClockRefusal   == "GATEWAY_CLOCK_UNTRUSTED"
RefusalCodes   == {ClockRefusal, "COMMAND_EXPIRED"}
AckMismatch    == "ack_mismatch"
Codes == TimeoutCodes \cup PublishCodes \cup RefusalCodes
             \cup {"none", "DELIVERY_TIMEOUT", AckMismatch}

\* "differs": a Get succeeded and read another brightness than the Set asked for.
Answers == {"succeeded", "differs", "failed", "timed_out"}
Results == [Fixtures -> Answers \cup {"none", "pending"}]

\* On the wire older producers encode a lost Status as a failure.
Reports == [Fixtures -> Answers \cup {"none", "lost"}]

DispatchRows == [status: ActiveStatuses \cup {"none", "completed", "failed", "timed_out"},
                 code: Codes, results: Results]

OutboxRows == [state: {"none", "open", "published", "dead"},
               owner: Publishers \cup {NoPublisher},
               lease: {"none", "live", "expired"},
               attempted: BOOLEAN, attempts: Nat]

Definite == {"applied", "partially_applied", "not_applied"}

Work == [pc: {"idle", "attempt", "fence", "publishing", "sent", "finish", "failing"},
         batch: SUBSET Dispatches,
         on: Dispatches \cup {NoPublisher},
         error: {"none", "retry", "admission"} \cup PublishCodes]

StatusAcks == [on: Dispatches, report: Reports, valid: BOOLEAN]

TypeOK ==
    /\ outcome \in [Commands -> Definite \cup {"none", "pending", "unknown"}]
    /\ dispatch \in [Dispatches -> DispatchRows]
    /\ outbox \in [Dispatches -> OutboxRows]
    /\ publisher \in [Publishers -> Work]
    /\ group \in [Commands -> {"ready", "configuring", "stale"}]
    /\ scan \in [Dispatches -> ActiveStatuses \cup {"none"}]
    /\ handed \in SUBSET Dispatches
    /\ claimed \in SUBSET StatusAcks
    /\ faults \in 0..MaxFaults

NoResults == [f \in Fixtures |-> "none"]
NoDispatch == [status |-> "none", code |-> "none", results |-> NoResults]
NoOutbox == [state |-> "none", owner |-> NoPublisher, lease |-> "none",
             attempted |-> FALSE, attempts |-> 0]
NoWork == [pc |-> "idle", batch |-> {}, on |-> NoPublisher, error |-> "none"]

NewDispatch(d) == [status |-> "pending", code |-> "none",
    results |-> [f \in Fixtures |-> IF f \in Covers(d) THEN "pending" ELSE "none"]]
NewOutbox == [NoOutbox EXCEPT !.state = "open"]

Init ==
    /\ outcome = [c \in Commands |-> "none"]
    /\ dispatch = [d \in Dispatches |-> NoDispatch]
    /\ outbox = [d \in Dispatches |-> NoOutbox]
    /\ publisher = [p \in Publishers |-> NoWork]
    /\ group = [c \in Commands |-> "ready"]
    /\ scan = [d \in Dispatches |-> "none"]
    /\ handed = {}
    /\ claimed = {}
    /\ faults = 0

(***************************************************************************)
(* Rows                                                                    *)
(***************************************************************************)
Active(d) == dispatch[d].status \in ActiveStatuses

\* The fence of a Set publisher holds the dispatch row FOR UPDATE from its last
\* check until the PUBACK; every other writer of that row waits.
RowLocked(d) ==
    \E p \in SetPublishers : /\ publisher[p].on = d
                             /\ publisher[p].pc \in {"publishing", "sent"}

\* Closing a row gives every fixture that is still pending the same status.
Closed(row, status, code) ==
    [status |-> status, code |-> code,
     results |-> [f \in Fixtures |-> IF row.results[f] = "pending" THEN status
                                     ELSE row.results[f]]]

\* The outbox row leaves the hands of its owner.
Unleased(row) == [row EXCEPT !.owner = NoPublisher, !.lease = "none"]
Dead(row) == [Unleased(row) EXCEPT !.state = "dead"]
Tried(row, n) == [row EXCEPT !.attempts = @ + n]

Owned(p, d) == outbox[d].state = "open" /\ outbox[d].owner = p

\* The condition of the publisher's guarded updates.
Publishable(p, d) == Owned(p, d) /\ outbox[d].lease = "live" /\ Active(d)

Answered(row, fs, answers) == {f \in fs : row.results[f] \in answers}

\* Does the closed Set row leave the physical result open?
Inconclusive(row) ==
    \/ row.code \in TimeoutCodes \cup {AckMismatch}
    \/ row.status = "timed_out" /\ row.code \in PublishCodes

Tally(good, all) == IF good = all THEN "applied"
                    ELSE IF good = {} THEN "not_applied" ELSE "partially_applied"

DimmingOutcome(row, fs) ==
    IF Inconclusive(row) THEN "unknown"
    ELSE Tally(Answered(row, fs, {"succeeded"}), fs)

\* The outcome a whole verification attempt establishes.
VerificationOutcome(rows, checks, fs) ==
    LET ok(f) == \E d \in checks : rows[d].results[f] = "succeeded"
        read(f) == \E d \in checks : rows[d].results[f] \in {"succeeded", "differs"}
    IN IF \E f \in fs : ~read(f) THEN "unknown" ELSE Tally({f \in fs : ok(f)}, fs)

\* The status checks of one verification attempt.
AttemptOf(rows, d) == {e \in Checks : /\ e.command = d.command
                                      /\ e.attempt = d.attempt
                                      /\ rows[e].status # "none"}

\* Mutant: a check may conclude whatever the outcome already is.
FinishParentAnyOutcome(d, rows) ==
    IF IsSet(d) THEN DimmingOutcome(rows[d], Covers(d))
    ELSE IF \E e \in AttemptOf(rows, d) : rows[e].status \in ActiveStatuses
         THEN outcome[d.command]
    ELSE VerificationOutcome(rows, AttemptOf(rows, d), Targets[d.command])

\* finishParentCommand, after an ACK has written rows[d]: the new outcome.
FinishParent(d, rows) ==
    LET c == d.command
        peers == IF IsSet(d) THEN {d} ELSE AttemptOf(rows, d)
    IN IF \E e \in peers : rows[e].status \in ActiveStatuses THEN outcome[c]
       ELSE IF IsSet(d) THEN DimmingOutcome(rows[d], Covers(d))
       ELSE IF outcome[c] # "unknown" THEN outcome[c]
       ELSE VerificationOutcome(rows, peers, Targets[c])

\* What the gateway and the broker do with a delivery failure: an attempt that
\* was persisted makes the physical result uncertain.
Lost(d) == IF outbox[d].attempted THEN "unknown" ELSE "not_applied"

\* Only a dimming command that is still pending takes the outcome o.
SettlePending(d, o) ==
    outcome' = IF IsSet(d) /\ outcome[d.command] = "pending"
               THEN [outcome EXCEPT ![d.command] = o] ELSE outcome

(***************************************************************************)
(* HTTP requests                                                           *)
(***************************************************************************)
Overlap(c, e) == Targets[c] \cap Targets[e] # {}

\* createDimmingCommand. A repeated client request answers from the rows.
CreateDimmingCommand(c) ==
    /\ outcome[c] = "none"
    /\ group[c] = "ready"
    /\ \A e \in Commands : outcome[e] = "unknown" => ~Overlap(c, e)
    /\ outcome' = [outcome EXCEPT ![c] = "pending"]
    /\ dispatch' = [dispatch EXCEPT ![SetOf(c)] = NewDispatch(SetOf(c))]
    /\ outbox' = [outbox EXCEPT ![SetOf(c)] = NewOutbox]
    /\ UNCHANGED <<publisher, group, scan, handed, claimed, faults>>

\* requestStatusCheck: the next attempt, one Get per chunk of the targets.
RequestStatusCheck(c, n) ==
    LET checks == {d \in Checks : d.command = c /\ dispatch[d].status # "none"}
        new == {d \in Checks : d.command = c /\ d.attempt = n /\ Covers(d) # {}}
    IN /\ outcome[c] = "unknown"
       /\ \A d \in checks : ~Active(d)
       /\ {d.attempt : d \in checks} = 1..(n - 1)
       /\ dispatch' = [d \in Dispatches |-> IF d \in new THEN NewDispatch(d)
                                             ELSE dispatch[d]]
       /\ outbox' = [d \in Dispatches |-> IF d \in new THEN NewOutbox ELSE outbox[d]]
       /\ UNCHANGED <<outcome, publisher, group, scan, handed, claimed, faults>>

(***************************************************************************)
(* Publisher processes                                                     *)
(***************************************************************************)
Serves(p, d) == IsSet(d) <=> p \in SetPublishers

Idle(p) == publisher[p].pc = "idle"
At(p, pc) == publisher[p].pc = pc
Goto(p, pc) == publisher' = [publisher EXCEPT ![p].pc = pc]
Fail(p, e) == publisher' = [publisher EXCEPT ![p].pc = "failing", ![p].error = e]
Drop(p) == publisher' = [publisher EXCEPT ![p].pc = "idle", ![p].on = NoPublisher,
                                          ![p].error = "none"]

OthersUnchanged == UNCHANGED <<group, scan, claimed, faults>>

Claimable(p) == {d \in Dispatches : /\ Serves(p, d)
                                    /\ outbox[d].state = "open" /\ Active(d)
                                    /\ outbox[d].lease # "live"}

\* claimBatch: lease the rows whose backoff is over.
ClaimBatch(p) ==
    /\ Idle(p) /\ publisher[p].batch = {}
    /\ \E S \in (SUBSET Claimable(p)) \ {{}} :
          /\ publisher' = [publisher EXCEPT ![p].batch = S]
          /\ outbox' = [d \in Dispatches |-> IF d \in S
                          THEN [outbox[d] EXCEPT !.owner = p, !.lease = "live"]
                          ELSE outbox[d]]
    /\ UNCHANGED <<rowVars, handed>> /\ OthersUnchanged

Take(p, d, pc, e) ==
    publisher' = [publisher EXCEPT ![p] = [pc |-> pc, on |-> d, error |-> e,
                                           batch |-> publisher[p].batch \ {d}]]

\* publishClaimed, first transaction: the mesh group is still the one of the
\* command, the lease is renewed, the delivery window is fixed once.
Prepare(p, d) ==
    /\ Idle(p) /\ d \in publisher[p].batch
    /\ LET state == IF IsSet(d) /\ d.command \in MeshCommands
                    THEN group[d.command] ELSE "ready"
       IN \/ state = "stale" /\ Take(p, d, "failing", "MESH_GROUP_STALE")
          \/ state = "configuring" /\ Take(p, d, "failing", "retry")
          \/ state = "ready" /\ Publishable(p, d) /\ Take(p, d, "attempt", "none")
          \/ /\ state = "ready" /\ ~Publishable(p, d)
             /\ publisher' = [publisher EXCEPT ![p].batch = @ \ {d}]
    /\ UNCHANGED <<rowVars, outbox, handed>> /\ OthersUnchanged

\* Second transaction: persist that the broker may get it, before it may. A row
\* that was lost is left alone, and so is one whose lease would not outlast the
\* publish: such a lease counts as expired here.
Attempt(p) ==
    LET d == publisher[p].on
    IN /\ At(p, "attempt")
       /\ IF Publishable(p, d)
          THEN /\ outbox' = [outbox EXCEPT ![d].attempted = TRUE]
               /\ Goto(p, IF IsSet(d) THEN "fence" ELSE "publishing")
          ELSE Drop(p) /\ UNCHANGED outbox
       /\ UNCHANGED <<rowVars, handed>> /\ OthersUnchanged

\* Mutant: the fence trusts the earlier check of the dispatch.
FenceUnchecked(p) ==
    /\ At(p, "fence") /\ ~RowLocked(publisher[p].on)
    /\ IF Owned(p, publisher[p].on) THEN Goto(p, "publishing") ELSE Drop(p)
    /\ UNCHANGED <<rowVars, outbox, handed>> /\ OthersUnchanged

\* publishLegacySetWithTerminalFence, publishUnderRetentionPermit: lock the live
\* dispatch, check the outbox row again, and keep the lock.
Fence(p) ==
    /\ At(p, "fence") /\ ~RowLocked(publisher[p].on)
    /\ IF Publishable(p, publisher[p].on) THEN Goto(p, "publishing") ELSE Drop(p)
    /\ UNCHANGED <<rowVars, outbox, handed>> /\ OthersUnchanged

\* publishWire, enqueue: the MQTT client has the message; it may reach the
\* gateway from now on, even after the publisher has given up on the PUBACK.
Enqueue(p) ==
    /\ At(p, "publishing")
    /\ handed' = handed \cup {publisher[p].on}
    /\ Goto(p, "sent")
    /\ UNCHANGED <<rowVars, outbox>> /\ OthersUnchanged

\* The 10 s window that was fixed with the payload has closed at a check.
WindowClosed(p) ==
    /\ \/ publisher[p].pc \in {"attempt", "fence"}
       \/ At(p, "publishing") /\ p \in GetPublishers
    /\ Fail(p, "COMMAND_DELIVERY_EXPIRED")
    /\ UNCHANGED <<rowVars, outbox, handed>> /\ OthersUnchanged

Puback(p) ==
    /\ At(p, "sent")
    /\ Goto(p, "finish")
    /\ UNCHANGED <<rowVars, outbox, handed>> /\ OthersUnchanged

\* The database, the broker connection or the PUBACK fails.
PublishFails(p) ==
    /\ \/ publisher[p].pc \notin {"idle", "failing"} /\ Fail(p, "retry")
       \/ \E d \in publisher[p].batch : Idle(p) /\ Take(p, d, "failing", "retry")
    /\ UNCHANGED <<rowVars, outbox, handed>> /\ OthersUnchanged

\* admitSet refuses at one of its checks.
AdmissionRefused(p) ==
    /\ Epoch /\ p \in SetPublishers
    /\ \/ publisher[p].pc \in {"attempt", "fence"} /\ Fail(p, "admission")
       \/ \E d \in publisher[p].batch : Idle(p) /\ Take(p, d, "failing", "admission")
    /\ UNCHANGED <<rowVars, outbox, handed>> /\ OthersUnchanged

\* Last transaction: close the row; an ACK may have moved the dispatch already.
Finish(p) ==
    LET d == publisher[p].on
    IN /\ At(p, "finish")
       /\ Drop(p)
       /\ IF Owned(p, d)
          THEN /\ ~RowLocked(d)
               /\ outbox' = [outbox EXCEPT ![d] = [Unleased(@) EXCEPT !.state = "published"]]
               /\ IF dispatch[d].status = "pending"
                  THEN dispatch' = [dispatch EXCEPT ![d].status = "published"]
                  ELSE UNCHANGED dispatch
          ELSE UNCHANGED <<outbox, dispatch>>
       /\ UNCHANGED <<outcome, handed>> /\ OthersUnchanged

\* Mutant: a stale group means that nothing was ever published.
TerminalFailureForgetful(p, d, code) ==
    IF ~Owned(p, d) THEN UNCHANGED <<rowVars, outbox>>
    ELSE /\ ~RowLocked(d)
         /\ outbox' = [outbox EXCEPT ![d] = Tried(Dead(@), 1)]
         /\ IF Active(d)
            THEN /\ dispatch' = [dispatch EXCEPT ![d] = Closed(@, "failed", code)]
                 /\ SettlePending(d, "not_applied")
            ELSE UNCHANGED rowVars

\* moveToTerminalFailure: an attempt that was persisted leaves the outcome open.
TerminalFailure(p, d, code) ==
    IF ~Owned(p, d) THEN UNCHANGED <<rowVars, outbox>>
    ELSE /\ ~RowLocked(d)
         /\ outbox' = [outbox EXCEPT ![d] = Tried(Dead(@), 1)]
         /\ IF Active(d)
            THEN /\ dispatch' = [dispatch EXCEPT ![d] =
                       Closed(@, IF outbox[d].attempted THEN "timed_out" ELSE "failed", code)]
                 /\ SettlePending(d, Lost(d))
            ELSE UNCHANGED rowVars

\* The row goes back to the queue, with or without a failed attempt on it.
Release(p, d, attempts) ==
    /\ outbox' = IF Owned(p, d)
                 THEN [outbox EXCEPT ![d] = Tried(Unleased(@), attempts)]
                 ELSE outbox
    /\ UNCHANGED rowVars

\* publishClaimed, catch: refusals give the row back, expiry and staleness close
\* it, anything else is retried until the attempts or 15 minutes are used up.
HandleError(p) ==
    LET d == publisher[p].on
        e == publisher[p].error
    IN /\ At(p, "failing")
       /\ Drop(p)
       /\ \/ e = "admission" /\ Release(p, d, 0)
          \/ e = "retry" /\ outbox[d].attempts + 1 < MaxAttempts /\ Release(p, d, 1)
          \/ e = "retry" /\ TerminalFailure(p, d, "MQTT_DEAD_LETTER")
          \/ e \in PublishCodes /\ TerminalFailure(p, d, e)
       /\ UNCHANGED handed /\ OthersUnchanged

\* The process dies; its leases run out on their own, its row lock is released.
Crash(p) ==
    /\ faults < MaxFaults
    /\ publisher[p] # NoWork
    /\ faults' = faults + 1
    /\ publisher' = [publisher EXCEPT ![p] = NoWork]
    /\ UNCHANGED <<rowVars, outbox, handed, group, scan, claimed>>

(***************************************************************************)
(* Timeout worker                                                          *)
(***************************************************************************)
\* Mutant: the worker forgets the dispatches a gateway has accepted.
ScanExpiredUnaccepted(S) ==
    /\ S # {}
    /\ \A d \in Dispatches : scan[d] = "none"
    /\ \A d \in S : dispatch[d].status \in {"pending", "published"}
    /\ scan' = [d \in Dispatches |-> IF d \in S THEN dispatch[d].status ELSE "none"]
    /\ UNCHANGED <<rowVars, outbox, publisher, group, handed, claimed, faults>>

\* closeExpired reads the rows that are overdue, outside of any transaction.
ScanExpired(S) ==
    /\ S # {}
    /\ \A d \in Dispatches : scan[d] = "none"
    /\ \A d \in S : Active(d)
    /\ scan' = [d \in Dispatches |-> IF d \in S THEN dispatch[d].status ELSE "none"]
    /\ UNCHANGED <<rowVars, outbox, publisher, group, handed, claimed, faults>>

\* Mutant: the evidence of a hand-over is the scan's, not the fenced row's.
CloseByScan(d) ==
    LET code == IF scan[d] = "pending" THEN "DELIVERY_TIMEOUT" ELSE "ACCEPTANCE_TIMEOUT"
    IN /\ scan[d] # "none" /\ ~RowLocked(d)
       /\ scan' = [scan EXCEPT ![d] = "none"]
       /\ IF dispatch[d].status = scan[d]
          THEN /\ dispatch' = [dispatch EXCEPT ![d] = Closed(@, "timed_out", code)]
               /\ SettlePending(d, IF scan[d] = "pending" THEN "not_applied" ELSE "unknown")
               /\ outbox' = IF scan[d] = "pending" THEN [outbox EXCEPT ![d] = Dead(@)] ELSE outbox
          ELSE UNCHANGED <<rowVars, outbox>>
       /\ UNCHANGED <<publisher, group, handed, claimed, faults>>

\* The code a timed-out status gets.
TimeoutCode(d) ==
    IF scan[d] = "accepted" THEN "STATUS_TIMEOUT"
    ELSE IF scan[d] = "pending" /\ ~outbox[d].attempted THEN "DELIVERY_TIMEOUT"
    ELSE "ACCEPTANCE_TIMEOUT"

\* closeExpired, one row: a pending one only if no publisher holds its outbox
\* row, and any only if its status is still the scanned one.
CloseExpired(d) ==
    /\ scan[d] # "none" /\ ~RowLocked(d)
    /\ scan' = [scan EXCEPT ![d] = "none"]
    /\ IF /\ dispatch[d].status = scan[d]
          /\ scan[d] = "pending" => outbox[d].state = "open" /\ outbox[d].lease # "live"
       THEN /\ dispatch' = [dispatch EXCEPT ![d] = Closed(@, "timed_out", TimeoutCode(d))]
            /\ SettlePending(d, IF scan[d] = "pending" THEN Lost(d) ELSE "unknown")
            /\ outbox' = IF scan[d] = "pending" THEN [outbox EXCEPT ![d] = Dead(@)] ELSE outbox
       ELSE UNCHANGED <<rowVars, outbox>>
    /\ UNCHANGED <<publisher, group, handed, claimed, faults>>

(***************************************************************************)
(* Gateway ACKs                                                            *)
(***************************************************************************)
AcksUnchanged == UNCHANGED <<publisher, group, scan, handed, faults>>

\* A dispatch can be answered once the MQTT client has had it, any number of
\* times and in any order.
Answerable(d) == d \in handed /\ ~RowLocked(d)

\* storeAcceptanceAck, accepted.
StoreAcceptance(d) ==
    /\ Answerable(d)
    /\ dispatch[d].status \in {"pending", "published"}
    /\ dispatch' = [dispatch EXCEPT ![d].status = "accepted", ![d].code = "none"]
    /\ UNCHANGED <<outcome, outbox, claimed>> /\ AcksUnchanged

\* storeAcceptanceAck, rejected. The clock refusal is a Set's, before any result,
\* and closes the outbox row with the dispatch.
StoreRejection(d, code) ==
    LET clock == code = ClockRefusal
        row == Closed(dispatch[d], "failed", code)
    IN /\ Answerable(d) /\ Active(d)
       /\ clock => /\ IsSet(d) /\ outcome[d.command] = "pending"
                   /\ \A f \in Covers(d) : dispatch[d].results[f] = "pending"
       /\ dispatch' = [dispatch EXCEPT ![d] = row]
       /\ outbox' = IF clock /\ outbox[d].state = "open"
                    THEN [outbox EXCEPT ![d] = Dead(@)] ELSE outbox
       /\ outcome' = [outcome EXCEPT ![d.command] = FinishParent(d, dispatch')]
       /\ UNCHANGED claimed /\ AcksUnchanged

\* The status a well-formed report gives its dispatch.
ReportStatus(r, fs) ==
    IF \A f \in fs : r[f] \in {"succeeded", "differs"} THEN "completed"
    ELSE IF \A f \in fs : r[f] = "timed_out" THEN "timed_out" ELSE "failed"

\* Mutant: a report is stored the way it came on the wire.
NormalizedNot(r) == r

\* A lost Status that an older producer reported as a failure.
Normalized(r) == [f \in Fixtures |-> IF r[f] = "lost" THEN "timed_out" ELSE r[f]]

\* The row a report leaves: malformed, it fails the dispatch.
ReportedRow(m) ==
    LET r == Normalized(m.report)
        fs == Covers(m.on)
    IN IF ~m.valid
       THEN [status |-> "failed", code |-> AckMismatch,
             results |-> [f \in Fixtures |-> IF f \in fs THEN "failed" ELSE "none"]]
       ELSE [status |-> ReportStatus(r, fs),
             code |-> IF \E f \in fs : r[f] = "timed_out" THEN "STATUS_TIMEOUT" ELSE "none",
             results |-> r]

\* A Set that ended without evidence may still be reconciled by its report.
Reconcilable(d) ==
    /\ IsSet(d) /\ outcome[d.command] = "unknown"
    /\ dispatch[d].status \in {"failed", "timed_out"}
    /\ dispatch[d].code \in TimeoutCodes \cup PublishCodes

\* storeDeviceStatusAck: each event once, for an active dispatch or as late
\* evidence; malformed late evidence is consumed without effect.
StoreStatus(m) ==
    LET d == m.on
        late == Reconcilable(d)
        row == ReportedRow(m)
    IN /\ Answerable(d) /\ m \notin claimed
       /\ Active(d) \/ late
       /\ claimed' = claimed \cup {m}
       /\ IF late /\ ~m.valid THEN UNCHANGED rowVars
          ELSE /\ dispatch' = [dispatch EXCEPT ![d] = row]
               /\ outcome' = [outcome EXCEPT ![d.command] = FinishParent(d, dispatch')]
       /\ UNCHANGED outbox /\ AcksUnchanged

(***************************************************************************)
(* Environment                                                             *)
(***************************************************************************)
\* The mesh group of a command is reconfigured, or replaced for good.
GroupChange(c) ==
    /\ c \in MeshCommands /\ group[c] # "stale"
    /\ \E g \in {"ready", "configuring", "stale"} \ {group[c]} :
          group' = [group EXCEPT ![c] = g]
    /\ UNCHANGED <<rowVars, outbox, publisher, scan, handed, claimed, faults>>

WorksOn(p, d) ==
    p \in Publishers /\ (d \in publisher[p].batch \/ publisher[p].on = d)

Expire(d) == /\ outbox[d].lease = "live"
             /\ outbox' = [outbox EXCEPT ![d].lease = "expired"]
             /\ UNCHANGED <<rowVars, publisher, group, scan, handed, claimed>>

\* The lease of a row whose publisher has died or returned.
LeaseExpires(d) ==
    /\ ~WorksOn(outbox[d].owner, d)
    /\ Expire(d) /\ UNCHANGED faults

\* A publisher takes longer than its lease over a row, or over those before it.
Stall(d) ==
    /\ faults < MaxFaults
    /\ WorksOn(outbox[d].owner, d)
    /\ Expire(d) /\ faults' = faults + 1

PublisherStep(p) ==
    \/ ClaimBatch(p) \/ Attempt(p) \/ Fence(p) \/ Enqueue(p) \/ WindowClosed(p)
    \/ Puback(p) \/ PublishFails(p) \/ AdmissionRefused(p)
    \/ Finish(p) \/ HandleError(p)
    \/ \E d \in Dispatches : Prepare(p, d)

\* A status event of the gateway for one of its dispatches. Only a Get reads a
\* brightness; what a malformed report says is never used.
StatusEvents(d) ==
    LET answers == {"succeeded", "failed", "timed_out", "lost"}
                       \cup IF IsSet(d) THEN {} ELSE {"differs"}
        event(r, ok) == [on |-> d, valid |-> ok,
            report |-> [f \in Fixtures |-> IF f \in Covers(d) THEN r[f] ELSE "none"]]
    IN {event(r, TRUE) : r \in [Covers(d) -> answers]}
           \cup {event([f \in Covers(d) |-> "failed"], FALSE)}

\* The status ACKs of d that can still come.
Incoming(d) ==
    IF Cardinality({m \in claimed : m.on = d})
           < IF IsSet(d) THEN MaxSetEvents ELSE MaxCheckEvents
    THEN StatusEvents(d) ELSE {}

Next ==
    \/ \E c \in Commands : CreateDimmingCommand(c) \/ GroupChange(c)
    \/ \E c \in Commands, n \in 1..MaxChecks : RequestStatusCheck(c, n)
    \/ \E p \in Publishers : PublisherStep(p) \/ Crash(p)
    \/ \E S \in SUBSET Dispatches : ScanExpired(S)
    \/ \E d \in Dispatches :
          \/ CloseExpired(d) \/ LeaseExpires(d) \/ Stall(d)
          \/ StoreAcceptance(d)
          \/ \E code \in RefusalCodes : StoreRejection(d, code)
          \/ \E m \in Incoming(d) : StoreStatus(m)

Spec == Init /\ [][Next]_vars

\* The publishers and the worker run on interval timers, and an active dispatch
\* is overdue at last; users, gateways and the broker owe nothing.
Fairness ==
    /\ \A p \in Publishers : WF_vars(PublisherStep(p))
    /\ \A d \in Dispatches :
          /\ SF_vars(\E S \in SUBSET Dispatches : d \in S /\ ScanExpired(S))
          /\ WF_vars(CloseExpired(d))
          /\ WF_vars(LeaseExpires(d))

FairSpec == Spec /\ Fairness

(***************************************************************************)
(* Safety                                                                  *)
(***************************************************************************)
\* A Set that was given up as undelivered was never handed to the MQTT client:
\* several publishers, a reclaimed lease, a lost PUBACK and the timeout worker's
\* stale scan notwithstanding. Only then may the outcome be "not applied".
UndeliveredIsUnsent ==
    \A c \in Commands :
        LET row == dispatch[SetOf(c)]
        IN \/ row.code = "DELIVERY_TIMEOUT"
           \/ row.status = "failed" /\ row.code \in PublishCodes
           => SetOf(c) \notin handed

\* The outcome of a command is what its rows say: pending while its Set is,
\* otherwise what the Set's report establishes or, if that is nothing, what one
\* complete verification attempt has read of every target.
OutcomeExplained ==
    \A c \in Commands :
        LET s == SetOf(c)
            own == DimmingOutcome(dispatch[s], Targets[c])
            attempt(n) == {d \in Checks : d.command = c /\ d.attempt = n}
        IN /\ outcome[c] = "pending" <=> Active(s)
           /\ outcome[c] = "unknown" => own = "unknown"
           /\ outcome[c] \in Definite =>
                 \/ own = outcome[c]
                 \/ /\ own = "unknown"
                    /\ \E n \in 1..MaxChecks :
                          VerificationOutcome(dispatch, attempt(n), Targets[c]) = outcome[c]

\* The verification attempts of a command follow one another: none is begun while a
\* chunk of an earlier one is open. While a check is open the outcome is what the Set's
\* own row says, which is unknown unless a late report has decided it meanwhile: an
\* attempt decides it with its last chunk only, and no attempt is begun after that.
AttemptsAreSequential ==
    /\ \A d, e \in Checks :
          d.command = e.command /\ d.attempt < e.attempt /\ dispatch[e].status # "none"
              => Covers(d) = {} \/ (dispatch[d].status # "none" /\ ~Active(d))
    /\ \A d \in Checks :
          LET c == d.command
          IN Active(d) => outcome[c] = DimmingOutcome(dispatch[SetOf(c)], Targets[c])

(***************************************************************************)
(* Action properties                                                       *)
(***************************************************************************)
\* No Set is handed to the MQTT client once an ACK, the timeout worker or another
\* publisher has closed its dispatch, not even by a publisher whose lease is gone.
SetsAreFenced ==
    [][\A p \in SetPublishers :
          At(p, "publishing") /\ publisher'[p].pc = "sent" =>
              /\ Active(publisher[p].on)
              /\ outcome[publisher[p].on.command] = "pending"]_vars

\* What was established of a command is never revised: no late report, timeout,
\* publisher or older verification changes a definite outcome.
DefiniteIsFinal ==
    [][\A c \in Commands : outcome[c] \in Definite => outcome'[c] = outcome[c]]_vars

(***************************************************************************)
(* Liveness                                                                *)
(***************************************************************************)
\* Every dispatch, and so every pending command, is closed in the end, with or
\* without an answer of the gateway.
DispatchesConclude == \A d \in Dispatches : Active(d) ~> ~Active(d)

(***************************************************************************)
(* Refinement                                                              *)
(***************************************************************************)
\* The commands a gateway has said anything conclusive about: it refused the
\* Set, or it answered the Set or a status check.
HeardOf == {c \in Commands : \/ dispatch[SetOf(c)].code \in RefusalCodes
                             \/ \E m \in claimed : m.on.command = c}

Contract == INSTANCE OutcomeContract
                WITH sent <- {c \in Commands : SetOf(c) \in handed}, heard <- HeardOf

\* The rows, publishers and ACK writers keep the contract of a command's outcome.
ImplementsContract == Contract!Spec
=============================================================================
