# Verification of the LED control service

TLA+ models, TLC runs and TLAPS proofs for the LED control service: the dimming
path with the REST API and its database, the MQTT outbox, and the gateway that
turns a command into radio (BLE mesh / BIO) writes; and the two protocols that
keep a gateway's mesh groups and its automation configuration in step with the
cloud. File names below are those of the repository.

## 1. The system

    web/mobile --HTTP--> API (NestJS, PostgreSQL) --MQTT 5, QoS 1--> gateway (Node.js) --BLE mesh / BIO USB--> fixtures
                            ^                                            |
                            +------------- ACKs, states, events ---------+

Every API transaction that touches commands takes one PostgreSQL advisory lock
first (`AutomationSnapshotService.lockMutation`). Everything the API sends goes
through an outbox row that a publisher leases; everything it receives may be
lost, late, repeated and out of order. The gateway is one event loop; its
durable state is a set of JSON files that are fsynced and renamed.

### Components

| component | state | operations | hard behaviour | what makes it correct |
|---|---|---|---|---|
| command creation, verification (`apps/api/src/commands`) | Command, CommandDispatch, CommandFixtureResult | create a Set, request a status check (Get) | creation races an outcome that just became unknown | one attempt at a time; no new Set on a target in doubt |
| outbox publishers (`apps/api/src/mqtt/outbox-publisher.service.ts`) | MqttOutbox leases, publish attempts | claim, prepare, attempt, fence, publish, finish, dead-letter | several processes, leases, lost PUBACK, crash between steps | "not applied" only if never handed over; a closed Set is never sent |
| timeout worker (`command-timeout.service.ts`) | none of its own | scan, close | stale scan against publishers and ACKs | every dispatch ends; durable evidence decides |
| ACK ingestion (`apps/api/src/mqtt/mqtt.service.ts`) | rows above, ProcessedGatewayEvent | acceptance, rejection, device status | reordering, duplicates, late evidence | outcome explained by rows, definite outcomes final |
| gateway command handler (`apps/gateway/src/commands`) | command journal, per-key and per-group queues | admit, accept, write, complete, recover | duplicates, crashes, watchdog, late adapter, gate that flips | at most one execution; refusal means nothing was written |
| manual-control ownership (`automation/schedule-runtime.ts`, `automation-state-store.ts`) | pendingManualControls | prepare, abort, hand off, settle | crash between journal and state file, full disk | nobody frees another command's fixture; ownership ends |
| gateway status check (`gateway-status-check-handler.ts`) | journal record, live checks by key | accept, share, observe, complete, shut down | a duplicate of a live check, a failing owner, a serial intake behind it | carried out once, one answer, the intake is released at the journal |
| gateway MQTT runtime (`runtime/gateway-mqtt-runtime.ts`) | packets held for their PUBACK, connection epoch | hold, acknowledge, retry, replace the client, quiesce | packets are handled one after the other, connections drop | nobody holds the intake for a packet behind it; replacement and quiescing not modelled yet |
| gateway state outbox (`state/`) | state events | append, replay | backpressure, sequence gaps | not modelled yet |
| fixture state ingestion (`mqtt.service.ts`) | FixtureState, event ledger, sequence watermark | store, dedupe, reject stale | event time against arrival order | not modelled yet |
| command deadlines (`packages/shared/src/command-delivery.ts`, `db-clock-proof.ts`, `command-timeout.service.ts`) | delivery window, message TTL, clock proof, row timestamps | expire, refuse, veto, time out | four clocks, a TTL that restarts with each hop | no write outside its window or after the timeout |
| publish epoch, quiesce, broker fence, DB clock health (`command-publish-*.ts`, `command-db-clock-*.ts`) | epoch state, members, health proof | admit, quiesce, advance | multi-process cutover, stale health proof | only its refusals appear, as `AdmissionRefused` and the gate `clock` |
| mesh control groups (`mesh-control-groups/`, `fixture-groups/`, gateway `mesh/group-*.ts`) | group version, desired and applied members, sync plan; the gateway's group store and resync request | edit, sync, apply on the radio, report, restart, resync | version races, partial operations, a lost store, results that come late | what is ready or settled is what the radio has; every group gets settled |
| automation (schedules, vehicle events, arbiter, BIO pulses), gateway side | automation state store | activate, resume, arbitrate, retain | timers, restarts, priorities | not modelled yet |
| automation configuration delivery (`apps/api/src/automation`, gateway `automation/automation-config-*.ts`, `automation-runtime.ts`) | desired and applied revision, sync status, leased outbox; configuration file, running snapshot, result outbox | save, publish, request, store, activate, undo, report, acknowledge | uncertain disk commits, stale publishers, late results, dead rows | the disk holds what the cloud shows as applied; the status is about the desired revision; every change is settled |
| telemetry outbox, gap journal | buffered telemetry, gap ranges | append, hand over, drop oldest | full buffer, crash while handing over | not modelled yet |
| monitoring refresh, incidents, activity | refresh requests, incident rows | request, ingest, expire, reconcile | expiry against a late answer | not modelled yet |
| provisioning, registration, removal | scan/provision jobs, addresses, journals | scan, provision, remove | long jobs with restarts, two journals | not modelled yet |
| temporary controls, fixture identify, sensor modes | leases, result outboxes | start, renew, expire | deadline against a late result | not modelled yet |
| command recovery, late Set ACK, retention and purge | receipts, purge staging, redaction | recover, redact, purge | redaction against late ACKs | not modelled yet |
| gateway onboarding, PKI, certificate rotation | certificates, recommission jobs | issue, rotate, revoke | crash inside a rotation | not modelled yet |
| floor editor, import, map, statistics, energy, users, auth, landing, web, mobile, firmware | - | - | CRUD, geometry, UI and I/O | not modelled |

## 2. The modules

| module | models | kind |
|---|---|---|
| `GatewayCommand` | the gateway's handling of a Set: journal, handler, RF marker, adapter with watchdog and zombie continuation, automation ownership in memory and on disk, PUBACK, restart and recovery | detailed specification |
| `SetContract` | what the gateway promises about one Set | abstract specification |
| `MCGatewayCommand` | instances of `GatewayCommand` | model checking |
| `GatewayCommandProofs` | theorems about `GatewayCommand`: types, life cycle | proofs |
| `GatewayJournalProofs` | theorems about its records and acknowledgements, and that it implements `SetContract` | proofs |
| `GatewayOwnershipProofs` | theorems about its ownership of fixtures and its group queue | proofs |
| `CommandDelivery` | the API's side: command, Set and Get dispatches, leased outbox, publisher processes, timeout worker, ACK writers | detailed specification |
| `OutcomeContract` | what the API promises about a command's outcome | abstract specification |
| `MCCommandDelivery` | instances of `CommandDelivery` | model checking |
| `CommandDeliveryProofs` | theorems about `CommandDelivery`, and that it implements `OutcomeContract` | proofs |
| `GatewayIntake` | the gateway's serial MQTT intake with the status check handler, and Sets as the intake sees them | detailed specification |
| `StatusContract` | what the gateway promises about one status check | abstract specification |
| `MCGatewayIntake` | instances of `GatewayIntake` | model checking |
| `GatewayIntakeProofs` | theorems about `GatewayIntake`, and that it implements `StatusContract` | proofs |
| `CommandDeadlines` | the clocks behind one Set, from the publisher's window to the last native write and the timeout worker | timed specification |
| `MCCommandDeadlines` | instances of `CommandDeadlines` | model checking |
| `CommandDeadlinesProofs` | theorems about `CommandDeadlines` | proofs |
| `MeshGroups` | mesh control groups: user edits, sync worker and result transaction in the cloud, sync handler, radio and stores on the gateway, restart and resync | detailed specification |
| `MCMeshGroups` | instances of `MeshGroups` | model checking |
| `MeshGroupsProofs` | theorems about `MeshGroups` | proofs |
| `AutomationConfig` | delivery of one gateway's automation configuration: revisions, outbox publishers and ACK ingestion in the cloud; disk, runtime and result outbox on the gateway | detailed specification |
| `ConfigContract` | what the delivery promises about the configuration of one gateway | abstract specification |
| `MCAutomationConfig` | an instance of `AutomationConfig` | model checking |
| `AutomationConfigProofs` | theorems about `AutomationConfig`, and that it implements `ConfigContract` | proofs |

The four contracts are what an actor on the other side may rely on. Each says at its
end what it is worth (`Honest` and `OverIsOver` of a Set, `Evident` and `Final` of
an outcome, `Truthful` of a status check, `InOrder` of a configuration). That is
proved of the contract alone, in a few lines, and holds of the detailed
specification by its refinement.

`GatewayCommand` and `CommandDelivery` meet in the messages: what one answers
or is handed, the other may get any number of times, or never. `GatewayIntake`
is the connection in front of `GatewayCommand`, which takes deliveries one by
one and knows no order of packets. All three leave time
out (every window closes whenever it likes); `CommandDeadlines` is the third view,
of the same Set with its clocks and without retries, journal or restarts.
`MeshGroups` and `AutomationConfig` each hold both sides of a protocol of their
own. `CommandDelivery` sees of the first only whether the group of a command is
ready in the cloud, `GatewayCommand` and `GatewayIntake` whether it is on the gateway.

### GatewayCommand: state and actions against the code

`journal` is `CommandJournal` (a record per idempotency key: state, execution
phase, acceptance, per-fixture reports, the abort and handoff it owes to the
automation state). `task` is the live call of `executeGatewayDimmingCommand`
for a key; its `pc` values are the `await` points of that function, so between
two actions anything else of the event loop may run. `waiting` is the per-key
promise chain, `replies` what the caller in `index.ts` still has to publish
after the chain has moved on. `pendingMem` and `pendingDisk` are
`pendingManualControls` in memory and as last written; `awaiting` is
`pendingObservationFixtures`. `adapter`, `written` and `starts` are the mesh
adapter call, the fixtures whose native write has started and the number of
adapter invocations.

The order of the actions is the order of the code: `Deliver`, `Dequeue`,
`Lookup` (`journal.get`, replays and lost runs), `PassIntake` or
`AdmissionRefused`, `Accept` or `RejectBeforeExecution`, `ReleasePuback`,
`PublishAcceptance`, `Recheck`, `Prepare`, `MarkExecutionMayHaveStarted`,
`StartExecution`, then `Write`/`Veto` inside the adapter, and `AdapterReports`,
`AdapterThrows` or `Watchdog`; then the completion with an abort
(`CompleteWithAbort`, `AbortManualControl`, `MarkAutomationAbortComplete`) or
with a handoff. `HandlerThrows`, `HandoffFails`, `PublishFails` are the error
paths; `Crash`, `Recover`, `OpenIntake` the restart.

Abstractions: one `gate` stands for the BIO source guard and the clock proof,
and flips at any time; the delivery window closes at any time (`Expire`), also
while recovery runs, which covers a clock that jumps; recovery takes the records
in any order (the code: file order); the order in a mesh group's queue is any;
replies of a replay are a set, so an identical ACK sent twice counts once; a
report is one status per fixture, brightness and fault codes are left out;
automatic (schedule) writes and BIO temporary controls are not part of this
module.

### CommandDelivery: state and actions against the code

`dispatch` holds the CommandDispatch rows with their fixture results, `outbox`
the MqttOutbox rows, `outcome` the `Command.outcome` column (`Command.status`
is a function of it). `publisher[p]` is what a publisher process remembers
between its transactions: the batch it claimed, the row it is on, and where it
is in `publishClaimed`. `scan` is the timeout worker's result of `findMany`,
which is read outside the transactions that use it. `handed` is the set of
dispatches enqueued natively in the MQTT client: from then on the gateway may
get them, even after the publisher gave up on the PUBACK
(`mqtt.service.ts:301-308`). `claimed` is the ledger of consumed status events.

A transaction is one action, since each takes the advisory lock first; the
exception is the fence of a Set, which keeps a row lock from its last check to
the PUBACK and is therefore several actions with `RowLocked` guarding all
other writers of that dispatch. The publisher is `ClaimBatch`, `Prepare`,
`Attempt`, `Fence`, `Enqueue`, `Puback`, `Finish`, with `WindowClosed`,
`AdmissionRefused`, `PublishFails` leading to `HandleError`. The worker is
`ScanExpired`, `CloseExpired`. ACKs are `StoreAcceptance`, `StoreRejection`,
`StoreStatus`; a gateway may answer whatever was handed over, in any order, and
each event any number of times.

Abstractions: no clocks. The window, the leases, the deadlines and the backoff end
whenever the model says so, except that a lease held by a working publisher expires
only as a counted fault (`Stall`). Not included: commands created before outcomes
existed (outcome null), redaction and the retention cutoff, recommission jobs,
temporary controls (which write rows of their own). One timeout worker runs.

### CommandDeadlines: state and actions against the code

`now` is the clock of the API and its database, `offset` what the gateway's
wall clock is ahead of it, `timeCheck` how the gateway looks at `expiresAt`: by
the database clock proof (`setPermit`), by a wall clock it trusts, or, while it
does not, by the broker's TTL alone. `row` is the dispatch with the timestamps
the timeout worker compares, `generated` the `deliveryGeneratedAt` of the stored
payload, `packet` the Set on its way with the TTL each hop counts from its own
receipt (`createGatewayCommandReceipt`), `gateway` the place of
`executeGatewayDimmingCommand` with the end of the receipt and of the adapter's
budget, `reply` the ACKs under way. `acceptedTrue`, `adapterStart` and
`lastWrite` are history.

Each check of `commandRefusal` is the guard of the action it stands before:
`Accept`, `PublishAcceptance`, `StartExecution`; `Refuse` takes the other
outcome of any of them. `Write` is one native Set of a command to several
fixtures, with `mayStartWrite` as its guard. `Tick` passes time; only the
adapter's deadline stops it, since the watchdog is a timer. Packets, ACKs and
every await may take any time. The uncertainty of the clock proof is any value
up to the guard. One tick is two seconds.

Abstractions: the wall clock does not step while a Set is under way; API and
database share one clock; one packet (a retry has the same window and less TTL
left); the 15-minute timeout of an unpublished row is outside the horizon.

### GatewayIntake: state and actions against the code

MQTT.js hands on one packet at a time, and `installDeferredPubackBoundary`
makes it wait for the handler of a QoS 1 command: `intake` is the delivery it
waits for, `inbox` what has arrived behind it, `wire` whether the PUBACK of a
delivery is out. A delivery is one PUBLISH; the copies of a command are retries
of the server or of the broker. `outgoing` are the handlers whose own publish
the broker has not confirmed; its PUBACK joins the `inbox` (`Confirm`) and the
handler goes on when it is taken from there (`ReceivePuback`). `record` is the
journal, `reads` and `reported` are history.

`ReceiveGet`, `ShareGet`, `RefuseGet` are `handleGatewayStatusCheck` with its
map of live checks and the shutdown signal; `ReceiveSet` and `Dequeue` the queues
of `handleGatewayDimmingCommand`. `Lookup`, `Settle`, `Accept`,
`PublishAcceptance`, `Execute`, `SkipGet`, `EndExecution` follow
`executeStatusCheck` await by await; `PublishFinalAcceptance` and
`PublishStatus` its caller in `index.ts`. `RefuseSet` and
`RejectBeforeExecution` are where a Set differs for the intake. `JournalFails`
and `PublishFails` throw, which frees the intake without a PUBACK and takes the
sharers along. `Drop` is a connection that ends and is resumed, `Restart` the
process.

Abstractions: a status check has one fixture, so a check that is cut short has
no partial observation; what the adapter observes is any outcome; a lost Set is
settled either way, since its phase is in `GatewayCommand`; the order in a
queue is any; invalid payloads, whose PUBACK is given at once, are left out, as
are the other topics of the intake, unsubscribing and the closing of the intake.

`StatusContract` is met by the history and the journal of the Gets: `reads` is how
often a check was executed, `told` what was published, `verdict` the result in its
record; a record that is only accepted is still open.

### MeshGroups: state and actions against the code

`cloud[g]` is the MeshControlGroup row (version, desired members, the applied ones
as results have reported them, plan, status), `fixture[g]` the life cycle of its
FixtureGroup (of a group of a floor: whether it exists). The gateway's groups share
one `GroupStateStore`: `store` is its `state`, `available` the flag of the same name,
`disk` and `torn` what is in the two files, which differ from `store` after a write
that failed or was cut short. `task[g]` is the handler of a sync message at its awaits,
one per group (`KeyedSerialTaskQueue`); the handlers of several groups interleave.
`syncs` and `results` are the messages that were published: they may come any number of
times, late or never. `asking` is the time between a start that finds no records
(`index.ts:925`) and the request it persists (`index.ts:932`); `pending`, `requests`,
`processed` and `acks` are that request on its way to the cloud and back. `subs` is
which nodes the radio has subscribed. History: `doubt`, nodes whose last operation is
on nobody's record, since it was lost or cut off; `unread`, members on record that a
handler did not see since the store could not be read; `cut`, whether a start ended
while it was `asking`.

`Create`, `Update`, `MoveAway`, `Remove`, `UserResync`, `AttachMember` are the services
that change a group, each with `Renew` (a new version, status and plan); the first
member of a floor makes its group. `PublishSync` is the worker; its plan comes from the
applied members in the cloud. On the gateway `Receive`, `WriteConfiguring`,
`SyncGroupSubscriptions`, `WriteTerminal`, `PublishResult` are the awaits of `handle` in
order; `RefusePlan` is `assertOperationPlan`, `AdapterFails` an adapter that cannot
start, `WriteFailed` the catch clause. A write of the store is two steps, for
`available` is false while its two files are written (`group-state-store.ts:203-209`):
`WriteConfiguring`, `WriteTerminal` and `WriteFailed` begin one when no other is in
flight (`exclusive`), and `ConfiguringWritten`, `TerminalWritten` and `FailedWritten`
end it, with either file changed or not if it fails (`LeftOnDisk`, for
`writeJsonAtomic` may fail after its rename). `readAppliedMembers` is not in that queue:
a `Receive` in between reads no members. `StoreResult` is the whole transaction of a
result in `mqtt.service.ts`. `Restart` comes up with what the files have,
`RestartWithoutState` without records; then `PersistRequest`, `RequestResync`,
`ResetGatewayGroups`, `AckResync`, `ReceiveAck`.

Two behaviours of this code break what its parts are for, without being against a
sentence of the documentation. They are hazards in PROJECT.json and named exceptions of
the properties, without which TLC finds a counterexample:

- `unread`: while the configuring write of one group is in flight, the handler of
  another receives the plan that retires its group or takes a node out, reads no
  members, and so takes the delete for satisfied (`bluez-mesh-adapter.ts:420-423`). The
  group is recorded as ready or retired on both sides with its node still subscribed.
  It takes two groups and no failure; with one group a failed write does the same.
- `cut`: the start that finds the records gone makes fresh files
  (`group-state-store.ts:127-133`) and is cut off before it persists its request. The
  next one finds good, empty files and reports `startup`, for which
  `group-resync-store.ts:88` and `103` request nothing, so the groups stay ready in the
  cloud and unknown to the gateway.

Abstractions: address allocation and the removal of retired nodes from groups are left
out. The latter is `retireAddress` (`group-state-store.ts:90-103`), which opens the same
window without members as any other write. A crash between the two files of the resync
store is left out (it only makes a request more, `replaceWithFailSafe`); a start that
finds the same unreadable files again counts as another loss; a group's mode and address
do not change; every failure is counted in one budget (`MaxFaults`), which with the
requests of users is at most `MaxEvents`.

### AutomationConfig: state and actions against the code

`config` is GatewayAutomationConfiguration, `row[r]` the outbox row of revision
`r` with the holder of a live lease, `publisher[p]` where a process is in
`publishClaimed`. `inbox` are the revisions published that may reach the
gateway, again and late. `disk` is the configuration file: `visible` is what a
read returns, `durable` the files a power loss may leave, which are several after
a rename whose directory could not be synced. `memory` is
`AutomationRuntime.snapshot`, `work` the handler of a configuration message at
its awaits, and `ack[a]` where a result is: in the gateway's result outbox,
ingested by the cloud, or deleted there on its receipt.

`Save` and `SaveUnsupported` are the two ends of `incrementDesiredRevision`.
`Claim`, `Renew`, `Fence`, `Send`, `Finish` are the transactions of the
publisher, `PublishFails` is `recordFailure`, `Request` is
`onCurrentConfigRequest`. `Receive`, `Store`, `Undo`, `Activate`,
`RollbackActivation` are `hotReload` with `AutomationConfigStore.apply` and
`rollbackActivation`; `Record`, `IngestAck`, `ReceiveReceipt` the result on its way.
`Start` syncs the directory before it reads the file: the protocol revision is
reserved first, with a durable write beside the configuration file, and the
process does not come up without it (`index.ts:860-862`). The mutant that leaves
this out shows that `AppliedIsHeld` depends on it.

Abstractions: one schema version is declared for good (a declaration that changes
it makes a new revision, as `Save` does); BIO convergence, degraded recovery and
conflicts of hashes are left out; messages of this topic are handled one by one
(after a reconnect two handlers may overlap, but only in the serial result
outbox); a result is identified by revision and status, since ingesting it again
changes nothing and a receipt of an old identity finds no record; the row of a
receipt has the same publisher and is one step; a result whose write is uncertain
counts as written; a clock that is ahead shows as a lease that ends too early.

`ConfigContract` is met by `config` (`desired`, `known` for the applied revision,
`shown` for the status) and the runtime's snapshot (`running`); rows, publishers,
messages and disk are below it.

Two things the model makes visible, neither of them against a promise: a
revision whose write was uncertain and whose undo failed may run after a restart
although the cloud was never told so, and the failure of a later attempt may even
report it as rejected.

## 3. The runs

| run | instance | checks |
|---|---|---|
| `gateway_one_command` | 1 command, 2 fixtures, 2 deliveries, 2 restarts, permit, disk may fill, fair | types, single execution, ACK/journal agreement, PUBACK, ownership, RF marker, final results, recovery and queues end, `SetContract` |
| `gateway_group` | 2 commands of 1 mesh group, 1 fixture, 1 restart, no permit | writes of a group are serial, zombie continuations included; ownership is never freed by another command, and on disk always has a record to recover it from |
| `intake_checks` | a status check delivered twice and a Set, 1 drop, 1 restart, shutdown | a status check holds the intake for the journal only, a sharer has its owner, what is acknowledged is durable, `StatusContract` |
| `intake_sets` | 2 Sets of a mesh group | violated: see below |
| `delivery_races` | 1 command, 2 Set publishers, 1 Get publisher, 2 publish attempts, 1 fault, fair | undelivered is unsent, fencing, every dispatch is closed in the end |
| `delivery_attempts` | 1 command of a mesh group under the epoch, 2 verification attempts, late reports | types, outcomes have their evidence, attempts are sequential, `OutcomeContract` |
| `deadlines` | clock proof or trusted wall clock, off by -40, -2, 2 or 40 s | writes and adapter calls inside the window, quiet after an acceptance timeout, writes end with the adapter call |
| `deadlines_slow_gateway` | trusted wall clock off by up to 2 s | violated: see below |
| `deadlines_status` | untrusted wall clock off by 40 s | violated: see below |
| `mesh_groups` | 2 groups (one of a floor), 1 node, 3 requests or failures, at most 2 failures, fair | types, ready and settled groups are exact, offered groups are known to the gateway or owed a resync, a plan is refused only where the two sides disagree, every group gets settled |
| `mesh_edits` | 1 group, 1 node, 2 requests (its creation and an edit), no failure, fair | violated: see below |
| `automation_config` | 2 revisions, 1 publisher, 2 faults, fair | applied is held, the status is honest, every change is settled, `ConfigContract` |

Four runs end in a counterexample. `SetsReleaseIntake` states for Sets the rule
that the status check handler was written to keep
(`gateway-status-check-handler.ts:42-44`, `bio-sensor-mode-handler.ts:30`): a
receipt must not wait for a PUBACK that comes in behind its own delivery.
`rejectBeforeExecution` (group not ready, state outbox full) returns without
`onDurableReceipt`, so the PUBLISH is held until the handler has ended, and the
handler first waits for the PUBACK of its acceptance, which the intake would
have to take in. With `OutboxCanFill = FALSE` the same instance fails another
way: the second Set of a mesh group holds the intake while it is queued behind
the first, and the first awaits the PUBACK of its acceptance; so does a second
delivery of one Set. Either wait lasts until the connection drops.
`ChecksReleaseIntake`, the rule for status checks, holds.

`EditsConverge` states what `docs/menus/control.md:2353-2355` says of edits: the
results of old versions are ignored and the new expected set of operations brings
the group to its state, also when it is left retiring with an empty set. It fails
without any fault. A result that is older than the row's version is dropped,
operations that succeeded included, and the next plan is made from the cloud's
applied members, so it has no delete for a node that the gateway has subscribed
meanwhile. If the edit leaves that node out, `assertOperationPlan` refuses the
plan, no result is published, and the worker repeats it for good. A member that is
only added converges, since the plan then grows; `GroupsSettle` in `mesh_groups`
says when a group does get settled.

Two more show where a document says more than the code does. `StatusDeadlineIsKept`
(`docs/menus/control.md:2397`: the device status has 30 s after the acceptance) fails
because the worker compares the API's clock with an `acceptedAt` the gateway stamped:
a slow clock loses the 30 s, a fast one extends them. `SlowGatewayStopsAtDeadline`
(`docs/menus/control.md:2409`: a gateway up to two seconds slow does not execute BLE
after the deadline) fails because the last look at the wall clock comes before the
adapter call, and the call may go on for the rest of a TTL that a held-back packet has
stretched. What does hold is `AdapterStartsInWindow`, and under the clock proof
`WritesInWindow`. The second promise has a weaker form that holds, and is proved: writes
end less than one adapter call (8 s) after they may start (`WritesEndWithCall`), so
the slow gateway stops less than that after the deadline (`SlowGatewayStopsAfterCall`,
which follows and is only proved).

Bounds, and why they are enough. Two deliveries give one duplicate, which can
be queued behind, replay after, or follow a crash of the first; two restarts
let a crash hit recovery itself. Two fixtures give partial results. Two
publishers and a fault let a row be reclaimed from a stalled publisher that
then goes on. `MaxAttempts` is 10 in the code and 1 or 2 here: a row is
exhausted after a retry. `MaxChecks` is 3 in the code and 1 or 2 here: the
relation is between one attempt and the next. The bounds on status events
(`MaxSetEvents`, `MaxCheckEvents`) allow one after the dispatch was settled.
`delivery_attempts` has one fixture in one chunk, since two chunks of two attempts
are too many states. That an outcome waits for the last of several chunks is therefore
no result of the run: it rests on the proofs alone (`OutcomeFollowsRows`,
`ChecksComeInTurn`), which hold for any chunking.
In `intake_checks` two
deliveries give one sharer or one replay, and a drop or restart gives both again;
a third delivery would share or replay like the second. In
`deadlines` the horizon of 24 s is more than two windows of 10 s: a packet held
back for a whole window and its receipt TTL fit; `deadlines_status` has 48 s for
the 30 s of the status deadline.

In `mesh_groups` the two groups share what the code shares, the store with its queue and
flag, and the start; one of a floor grows by provisioning only and never retires. Three
requests or failures let a group be created and edited while the other, or a failure, is
under way; two failures, a failed write followed by a crash. One node is enough for every
relation the properties speak of (wanted or not, recorded or not, subscribed or not);
sets of several nodes, and longer sequences, are covered by the proofs, which hold for
any number. `OfferedIsKnown` and `OfferedIsOwed` are stated for one loss of the store:
with two, a pending request is used again (`group-resync-store.ts:103`) which the cloud
has carried out and now deduplicates, and the property fails; it takes two lost stores
within one round trip. In `automation_config` two revisions give one
that overtakes the other, two faults an uncertain write followed by a crash, or a lost
message after a lost lease. A second publisher would only add overtaken publishers,
whose one trace, a late message of an older revision, is in the run already (a message
stays in `inbox`); the safety properties are proved for any number.

Deadlock is not checked: a system whose users, deliveries and faults are used
up rightly stops.

Fairness. `GatewayCommand`: the event loop runs every ready continuation and
the watchdog is a timer, so each handler step is weakly fair; deliveries,
crashes and gate changes are not. `CommandDelivery`: publishers and worker are
interval timers (weak fairness of a publisher's next step and of closing a
scanned row); a scan includes an overdue row whenever it is overdue
at the time of a scan, and scans recur, which is strong fairness; leases expire by
time. Users, gateways and the broker owe nothing.
`MeshGroups`: the worker and the gateway's heartbeat are interval timers (weak fairness
of `PublishSync` and of the steps of a resync). A handler comes to an end: its waits are
a queue that is first in first out, file writes, and adapter and publish calls with
timeouts (`[]<>At(g, "idle")`). While a group is being worked on, the worker publishes
its sync every 10 s: some of these are received, and not for ever within the few
milliseconds in which another group's write is in flight; and of the complete results
that answer them one gets through. The model keeps a message available for as long as
it may come, so the second is weak fairness of `StoreResult` while the group is unsettled,
and the first is `ReceiveCurrent` infinitely often. Nobody repeats either after that,
and then nothing is assumed. Edits, failures and restarts owe nothing.
`AutomationConfig`: publishers are timers, leases end, the runtime and the result
outbox go on (weak); the gateway repeats its request at least every 30 s for as
long as it is connected (`automation-current-config-requester.ts:92-118`: with a
declared protocol `confirm` never ends it), so that one request meets a row
without a lease and one of the messages it causes gets through (strong).
`GatewayIntake` needs no fairness: its properties say whom a held packet or a
sharer waits for, and that this one has a step of its own to take.

## 4. The proofs

`GatewayCommandProofs` proves for every set of commands, fixtures and groups,
every number of deliveries and restarts, with and without a permit:

- `TypeCorrect`: the type invariant;
- `RefusedIsUnwritten`: a record that says rejected belongs to a command that
  wrote nothing (`SetContract` has it too, so no run checks it by itself);
- `ExecutedOnce`: the adapter is invoked at most once per command.

Assumptions: the named ASSUMEs of `GatewayCommand`, no more. Neither invariant
is inductive: a second execution is excluded because a handler gets to the
adapter only through `intake`, which needs an absent record, and a record is
only absent before acceptance or after pruning, when the window has closed and
admission refuses. `LifeCycleInv` says this: it relates the journal record,
the pruned history and the place of the live handler to `starts` and `written`
(`RecordInv` without, `HandlerInv` with a handler). `LifeCycleNext` proves that
every action keeps it; most actions are discharged by three lemmas
(`MoveKeeps`, `EndKeeps`, `QuietStep`) that say which moves of a handler are
harmless.

`GatewayJournalProofs` extends it, with the same assumptions:

- `PubackIsAlwaysDurable`, `AcksAreTheRecord`: what the broker and the API were told
  is in the journal;
- `ResultsAreFinal`, `WritesAreOnRecord`: no step changes a completed result, none
  writes a lamp without the record that admits it;
- `GatewayKeepsContract`: `GatewayCommand` implements `SetContract`;
- `ReportsAreHonest`, `SettledIsNotWritten`: from the contract, a lamp reported as
  succeeded was written, and none is written once the result is in the journal.

`RecordNext` lists what a step may do to the record of a command (`RecordStep`: keep
it up to its marks, open it, refuse, finish, forget, or write a lamp beside it), and
that it does so to one command at most. With it the three action properties are a
case split over six cases instead of forty actions. It needs the rest of
`JournalInv`: an admitted record under a permit has its marker, a handler that is
about to refuse a completed record repeats that very refusal (`WorkInv`), and replies
are only owed for a completed record (`ToldInv`), which is why a late publication
reports the record it was made for: pruning waits for it.

`GatewayOwnershipProofs` proves who owns a fixture:

- `AbortIsFinal`, `OwnershipIsAlwaysReleasable`, `DiskOwnershipIsAlwaysRecoverable`,
  `LiveOwnershipSurvives`: nothing is left owned for ever, resurrected after an abort,
  or taken from a command under way;
- `GroupWritesNeverInterleave`: the writes of one mesh group are serial.

`OwnershipInv` uses `Held`: a fixture in the memory of the gateway for a command and,
where the disk may fill, not awaiting an observation. A held fixture always has a
record that owes its release; a handler before its prepare, or past its abort or
handoff, holds none; and as long as the disk has room, disk and memory agree and
nothing is awaited once intake has opened, so that no observation can take a fixture
from a live command.

`CommandDeadlinesProofs` proves for every length of the windows and deadlines,
every set of clock offsets and every horizon:

- `TypeCorrect`: the type invariant, so no hop is given a negative TTL;
- `WrittenInWindow`: with the clock proof every native write starts before
  `expiresAt`;
- `StartedInWindow`: with a trusted wall clock at most `Guard` slow, the adapter
  is called before `expiresAt`;
- `TimeoutIsQuiet`: with the clock proof no write follows an acceptance timeout;
- `WritesEnd`, `SlowGatewayStops`: writes end less than one adapter call after its
  start, hence less than that after `expiresAt` for a trusted clock.

The assumption that carries them is `DurationAssumption` (the guard is a natural
number smaller than the window). The inductive invariant `WindowInv` adds two
facts: the window is fixed before the packet leaves and never moves
(`WindowIsFixed`), and a row is published no earlier than that, so a worker that
waits a whole window after it has waited past `expiresAt` (`TimeoutWaits`). The
adapter's part is `CallIsBounded`: the budget given to a call ends at most
`CommandTimeout` after its start, and no write starts later.

`GatewayIntakeProofs` proves everything `intake_checks` checks, for every set of
commands and mesh groups, every number of packets of a command, lost connections
and restarts, whether or not the outbox can fill:

- `TypeCorrect`: the type invariant;
- `IntakeReleased`, `SharersAreServed`: whom a held PUBLISH and a duplicate wait for;
- `CarriedOutOnce`, `AnswersAgree`: one execution and one answer per status check;
- `AcknowledgedIsDurable`, `ResultsAreFinal`: what the broker is told and what
  the journal says stay true;
- `StatusChecksKeepContract`: `GatewayIntake` implements `StatusContract`;
- `VerdictsAreTrue`: what is said of a check is true of it, from the contract;
- `LoneSetsReleaseIntake`: where no Set can be rejected before its execution
  (`~OutboxCanFill`) and no two deliveries of Sets conflict (one delivery each, one
  Set per mesh group), no Set holds the intake for a PUBACK either.

Assumptions: `KindAssumption` (no command is both a Set and a Get),
`DeliveryAssumption` and `BoundAssumption`. None of these is inductive by itself, and
they are proved together as `IInv`. `OwnerInv` says that a key has one live owner (the
code's `inFlight` and `liveCommands`); `RecordInv` relates the owner's place to its
record, so that only the owner writes the journal and never over a result; `IntakeInv`
and `HistoryInv` add the intake and what was read and reported. `PacketInv` is what a
failing publish needs: a packet comes once, so that the error callback meets a handler
that still waits for it and its sharers fail with it, not a handler that is long at
the next step. There is one lemma per action, over a few that say what a step does to
the handlers (`OwnerGoesOn`, `OwnerReturns`, `OutsiderGoesOn`, `OwnerEnters`) and to
the packets (`PacketsStay`, `AckIsPublished`, `PublishTaken`). For the contract
`HistoryInv` says which Gets have read: one under execution has, once, and one before
it has not, so that an expiry is only said of a check that was not carried out.
`SetsReleaseIntake` is false without the two hypotheses of `LoneSetsReleaseIntake`:
`intake_sets` violates it with the first one dropped, and with the second. Under both,
a Set that holds the intake has not reached its journal record (`SetInv`), so it has a
step of its own to take.

`CommandDeliveryProofs` proves for every set of commands, fixtures, chunks and
publishers, every number of attempts, checks, events and faults, with and without
mesh groups and the epoch:

- `TypeCorrect`: the type invariant;
- `UndeliveredSetsAreUnsent`, `FenceHolds`: a Set that was given up was never in
  the MQTT client, and who hands one over holds an open dispatch;
- `ChecksComeInTurn`, `OutcomeFollowsRows`: attempts follow one another, none is under
  way once an attempt has decided the outcome, and the outcome is what the Set's row or
  one whole attempt says;
- `DefiniteOutcomesStay`: a definite outcome never changes;
- `DeliveryKeepsContract`: `CommandDelivery` implements `OutcomeContract`;
- `OutcomesAreEvident`, `ClosedIsNotSent`: from the contract, a definite outcome of
  a Set that may be on its way has an answer of the gateway behind it, and a command
  that is not pending is handed over by nobody.

They rest on one invariant. `RowInv`: whatever the MQTT client had was marked
as attempted before, a row that was given up without that mark was not, and an
open dispatch has heard nothing. `WorkInv`: what a publisher works on exists and is
of its kind; past the marker it is attempted, and inside the fence it is an open
Set. `CommandInv`: the outcome follows the Set's row or one whole attempt with none
after it, and attempts are in turn. The refinement has one lemma per writer of the outcome
(`GiveUpRefines`, `RejectionRefines`, `StatusRefines`, ...); a rejected check is the
delicate one, since it closes without reading anything (`RefusedCheckReadsNothing`).

`MeshGroupsProofs` proves for any groups, nodes, edits and failures:

- `TypeCorrect`: the type invariant, so versions are bounded by edits and losses:
  a request that is repeated renews nothing;
- `ReadyGroupsAreExact`: a group whose record says ready is subscribed by the
  members of that version, nodes in `doubt` or `unread` aside;
- `SettledGroupsAreExact`: the same of what the cloud shows as ready or retired, as
  long as no store is lost;
- `OfferedGroupsAreOwed`: a group offered as a target is known to the gateway, or a
  resync that will bring it back is under way, over one loss of the store and a start
  that gets as far as its request;
- `RefusedPlansAreOvertaken`: a current plan is refused only where the members that the
  handler has read and the cloud's disagree on a node (`RefusedIsOvertaken`).

Assumptions: `FloorAssumption` and `BoundAssumption`. `StoreInv` says that
an available store is what the files hold and that a write in flight is the only one and
makes the store unavailable, `HandlerInv` that a handler works on a sync of its group and
that from its configuring write on the store has the version of that sync, and no ready
record until the handler writes one. `RadioInv` is the heart: the
members on record, those the handler has read, and those it is about to write differ
from the radio only in nodes in doubt, in operations not yet recorded, and, where the
handler could not read the store, in members that are unread. `RecordInv` (a ready record
is of a sync that was published, and nothing on record or on the disk is newer than the
cloud) and `SettledInv` follow the complete
result to the cloud; `VersionInv` and `CountInv` keep versions apart. `OwedInv` is about
the resync: the cloud takes a group for ready only on a result of its version, which the
store had when the result was made; a loss makes a start ask, unless it is cut off, and
then a request be wanted until the cloud has renewed every group, of whose new versions
nobody has been told yet. `PlanInv` follows the plan of a version through its partial
results: what it leaves out is reported as done. So the gateway only refuses it where
results of an older version were dropped or lost, a store was lost or could not be read:
the exception in `GroupsSettle`, and what `mesh_edits` shows.

`AutomationConfigProofs` proves for any number of publishers, revisions and faults:

- `TypeCorrect`: the type invariant;
- `AppliedConfigurationsAreHeld`: no file the disk may come back with is older
  than what the cloud shows as applied;
- `StatusIsTrue`: the sync status is about the desired revision;
- `ConfigurationNeverGoesBack`: the running revision never decreases;
- `ConfigurationsKeepContract`: `AutomationConfig` implements `ConfigContract`;
- `RevisionsAreInOrder`: from the contract, the cloud knows of no more than what
  runs, and "APPLIED" is shown just when the desired revision runs and is known to.

`AppliedIsHeld` is not inductive: `HeldInv` puts the running revision between the
two sides (the cloud's is at most that, every possible file at least that), and
says that the handler works on a newer revision, undoes to no older one, and
activates only what is durable. `RevisionInv` says that nothing is about a
revision that no user has made, which is why a new revision starts with no
row and no result. The refinement needs one fact more, that nothing on the disk and
nothing to be restored is newer than what users have made (`MadeInv`): a restart or
a rollback may put any of it to work.

Model-checked only: liveness (`RecoverySettles`, `DeliveriesDrain`,
`DispatchesConclude`, `GroupsSettle`, `ChangesSettle`: fairness and ENABLED are
outside the prover's reach), and `OfferedIsKnown`, which is a liveness property too;
its safety half is `OfferedIsOwed`.

## 5. Plan

Done: `GatewayCommand`, `CommandDelivery`, `CommandDeadlines`, `GatewayIntake`,
`MeshGroups`, `AutomationConfig` with their proofs, and the four contracts. What is
left, the most important first:

1. `CommandControl`: `OutcomeContract` and `SetContract` composed over a broker that
   loses, duplicates and reorders, with a status check racing a Set and two
   overlapping Sets.
2. Fixture-state ingestion: gateway state outbox, sequence watermark, event time.
3. The automation runtime: arbiter, schedules and vehicle events beside manual
   ownership.
4. Telemetry outbox and gap journal; monitoring refresh; temporary controls.
5. Provisioning and removal journals; publish epoch, quiesce and broker fence;
   DB clock health; editor lease; storage headroom.

### Not modelled, and why

- The composition of API and gateway (item 1): two hazards of PROJECT.json, a Get
  that overtakes its Set and two overlapping Sets, wait for it. Each side is checked
  against every message the other may send, which is more than it does send.
- Items 2 to 5: protocols of their own with little in common with the modules
  here. They can be modelled; they come after the paths that move a light.
- Geometry, CAD import, reports, energy aggregation, authentication, CRUD, web and
  mobile clients: single transactions, computation or user interface, with no
  protocol between actors that a model checker would reach.
- BLE, BIO and BlueZ adapters, PKI, firmware, scripts: device I/O and cryptography;
  what they may do to the modelled parts is in the external actions.
