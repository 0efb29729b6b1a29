----------------------------- MODULE MeshGroups -----------------------------
(***************************************************************************)
(* Mesh control groups: which nodes subscribe to the address of a group.   *)
(* The cloud keeps the desired and the applied members of a version of the *)
(* group and a worker publishes the plan of the version, again and again;  *)
(* the gateway checks the plan against the members it has on disk, changes *)
(* the subscriptions over the radio, writes its store and reports. Both    *)
(* sides restart, the store may fail or be lost, and messages are late,    *)
(* repeated or dropped.                                                    *)
(*                                                                         *)
(* apps/api/src/mesh-control-groups/, fixture-groups/fixture-groups.       *)
(* service.ts, mqtt/mqtt.service.ts; apps/gateway/src/mesh/ group-         *)
(* subscription-handler.ts, group-state-store.ts, group-resync-store.ts,   *)
(* bluez-mesh-adapter.ts.                                                  *)
(***************************************************************************)
EXTENDS Naturals

CONSTANTS
    Groups,         \* the mesh groups of one gateway
    Floors,         \* those that stand for a floor; the others are fixture groups
    Nodes,          \* mesh nodes of the gateway, at fixed addresses
    MaxEvents,      \* bound: requests of users and failures, taken together
    MaxFaults       \* bound: failures of the radio, the disk and the process

ASSUME FloorAssumption == Floors \subseteq Groups
ASSUME BoundAssumption == MaxEvents \in Nat /\ MaxFaults \in Nat

VARIABLES
    cloud,      \* MeshControlGroup rows with their members and planned operations
    fixture,    \* lifecycle of the FixtureGroup, and whether it is at this gateway
    syncs,      \* subscription-sync messages published
    results,    \* subscription results published
    store,      \* GroupStateStore.state: the records last persisted
    available,  \* GroupStateStore.available
    disk,       \* the records in the state file, which a failed write may have changed
    torn,       \* is the manifest ahead of the state file?
    task,       \* per group: the handler at work in the group's queue
    asking,     \* a start that found no records has yet to persist its request
    pending,    \* the resync request the gateway wants acknowledged, 0 if none
    requests,   \* resync requests published
    processed,  \* ProcessedGatewayEvent: resync requests carried out
    acks,       \* resync acknowledgements published
    subs,       \* the radio: the nodes that subscribe to each group
    doubt,      \* history: nodes whose last operation nobody has on record
    unread,     \* history: nodes on record when the handler could not read the store
    losses,     \* starts that did not find the records
    cut,        \* history: was a start cut off before it persisted its request?
    edits,      \* requests of users so far
    faults      \* failures so far, losses among them

apiVars == <<cloud, fixture, processed>>
storeVars == <<store, available, disk, torn>>
radioVars == <<subs, doubt, unread>>
resyncVars == <<asking, pending, requests, acks, losses, cut>>
vars == <<apiVars, syncs, results, storeVars, task, radioVars, resyncVars, edits, faults>>

(***************************************************************************)
(* Data                                                                    *)
(***************************************************************************)
Versions == 0..MaxEvents
Events == 0..MaxFaults

Rows == [version: Versions, planned: Versions,
         status: {"none", "configuring", "ready", "failed", "retiring", "retired"},
         members: SUBSET Nodes, desired: SUBSET Nodes, applied: SUBSET Nodes,
         adds: SUBSET Nodes, deletes: SUBSET Nodes, full: BOOLEAN]

Syncs == [group: Groups, version: Versions, full: BOOLEAN, desired: SUBSET Nodes,
          adds: SUBSET Nodes, deletes: SUBSET Nodes]

\* Whether every operation of the plan succeeded, and the nodes it succeeded for.
Results == [group: Groups, version: Versions, complete: BOOLEAN, done: SUBSET Nodes]

Records == [version: Versions, members: SUBSET Nodes,
            status: {"none", "configuring", "ready", "failed"}]

NoRow == [version |-> 0, planned |-> 0, status |-> "none", members |-> {}, desired |-> {},
          applied |-> {}, adds |-> {}, deletes |-> {}, full |-> FALSE]
NoRecord == [version |-> 0, members |-> {}, status |-> "none"]
NoTask == [pc |-> "idle"]

\* "base": the members the handler has read, "done": nodes whose operation is ready.
Tasks == {NoTask}
    \cup [pc: {"configure", "configuring", "operate"}, sync: Syncs, base: SUBSET Nodes]
    \cup [pc: {"record", "recording", "report"}, sync: Syncs, base: SUBSET Nodes,
          done: SUBSET Nodes]
    \cup [pc: {"giveup", "failing"}, sync: Syncs]

TypeOK ==
    /\ cloud \in [Groups -> Rows]
    /\ fixture \in [Groups -> {"none", "active", "away", "retiring", "retired"}]
    /\ syncs \in SUBSET Syncs
    /\ results \in SUBSET Results
    /\ store \in [Groups -> Records] /\ disk \in [Groups -> Records]
    /\ available \in BOOLEAN /\ torn \in BOOLEAN
    /\ task \in [Groups -> Tasks]
    /\ asking \in BOOLEAN /\ pending \in Events
    /\ requests \in SUBSET Events /\ processed \in SUBSET Events /\ acks \in SUBSET Events
    /\ subs \in [Groups -> SUBSET Nodes]
    /\ doubt \in [Groups -> SUBSET Nodes] /\ unread \in [Groups -> SUBSET Nodes]
    /\ losses \in 0..MaxFaults /\ cut \in BOOLEAN
    /\ edits \in 0..MaxEvents /\ faults \in 0..MaxFaults

Init ==
    /\ cloud = [g \in Groups |-> NoRow]
    /\ fixture = [g \in Groups |-> "none"]
    /\ syncs = {} /\ results = {}
    /\ store = [g \in Groups |-> NoRecord] /\ disk = store /\ available = TRUE /\ torn = FALSE
    /\ task = [g \in Groups |-> NoTask]
    /\ asking = FALSE /\ pending = 0 /\ requests = {} /\ processed = {} /\ acks = {}
    /\ subs = [g \in Groups |-> {}]
    /\ doubt = [g \in Groups |-> {}] /\ unread = [g \in Groups |-> {}]
    /\ losses = 0 /\ cut = FALSE /\ edits = 0 /\ faults = 0

\* One request or one failure more, as long as the bounds admit it.
Edit == edits + faults < MaxEvents /\ edits' = edits + 1 /\ UNCHANGED faults
Fault == faults < MaxFaults /\ edits + faults < MaxEvents /\ faults' = faults + 1

(***************************************************************************)
(* Requests of users                                                       *)
(***************************************************************************)
\* A new version of the group, whose plan the worker has yet to make. The row of a
\* member stays when the member is no longer desired.
Renewed(row, status, D) ==
    [row EXCEPT !.version = @ + 1, !.planned = 0, !.status = status,
                !.members = @ \cup D, !.desired = D]

Renew(g, status, D) ==
    /\ Edit
    /\ cloud' = [cloud EXCEPT ![g] = Renewed(@, status, D)]
    /\ UNCHANGED <<processed, syncs, results, storeVars, task, radioVars, resyncVars>>

Lifecycle(g, state) == fixture' = [fixture EXCEPT ![g] = state]

\* create: the group begins with version 1 and members.
Create(g, D) ==
    /\ g \notin Floors /\ fixture[g] = "none" /\ D # {}
    /\ Renew(g, "configuring", D) /\ Lifecycle(g, "active")

\* update, with this gateway: the members are replaced, whatever is under way.
Update(g, D) ==
    /\ g \notin Floors /\ fixture[g] \in {"active", "away"} /\ D # {}
    /\ Renew(g, "configuring", D) /\ Lifecycle(g, "active")

\* update, with another gateway: the group retires here.
MoveAway(g) ==
    /\ g \notin Floors /\ fixture[g] = "active"
    /\ Renew(g, "retiring", {}) /\ Lifecycle(g, "away")

Remove(g) ==
    /\ g \notin Floors /\ fixture[g] = "active"
    /\ Renew(g, "retiring", {}) /\ Lifecycle(g, "retiring")

\* resync of a user: same members, new version.
UserResync(g) ==
    /\ g \notin Floors /\ fixture[g] \in {"active", "retiring"}
    /\ Renew(g, IF fixture[g] = "retiring" THEN "retiring" ELSE "configuring",
             cloud[g].desired)
    /\ UNCHANGED fixture

\* attachMemberToGroup: provisioning inserts a member that has no row yet. A floor
\* gets its group with its first member.
AttachMember(g, n) ==
    /\ fixture[g] = "active" \/ (g \in Floors /\ fixture[g] = "none")
    /\ n \notin cloud[g].members
    /\ Renew(g, "configuring", cloud[g].desired \cup {n}) /\ Lifecycle(g, "active")

(***************************************************************************)
(* The worker                                                              *)
(***************************************************************************)
Working(g) == cloud[g].status \in {"configuring", "retiring"}

\* Mutant: the plan has no deletes.
PlannedAdds(row) ==
    IF row.planned = row.version THEN row
    ELSE [row EXCEPT !.planned = row.version,
                     !.adds = IF row.full THEN row.desired ELSE row.desired \ row.applied,
                     !.deletes = {}]

\* prepareSubscriptionSync plans a version once.
Planned(row) ==
    IF row.planned = row.version THEN row
    ELSE [row EXCEPT !.planned = row.version,
                     !.adds = IF row.full THEN row.desired ELSE row.desired \ row.applied,
                     !.deletes = row.applied \ row.desired]

SyncOf(g, row) == [group |-> g, version |-> row.version, full |-> row.full,
                   desired |-> row.desired, adds |-> row.adds, deletes |-> row.deletes]

\* runOnce, one group: every 10 s while the group is unsettled. The message stays
\* in syncs, for the worker repeats it and MQTT may deliver it twice or late.
PublishSync(g) ==
    LET row == Planned(cloud[g])
    IN /\ Working(g)
       /\ cloud' = [cloud EXCEPT ![g] = row]
       /\ syncs' = syncs \cup {SyncOf(g, row)}
       /\ UNCHANGED <<fixture, processed, results, storeVars, task, radioVars, resyncVars,
                      edits, faults>>

(***************************************************************************)
(* The gateway's handler and its store                                     *)
(***************************************************************************)
At(g, pc) == task[g].pc = pc
Finish(g) == task' = [task EXCEPT ![g] = NoTask]
GiveUp(g) == task' = [task EXCEPT ![g] = [pc |-> "giveup", sync |-> task[g].sync]]
HandlerUnchanged == UNCHANGED <<apiVars, syncs, resyncVars, edits>>
StoreUnchanged == UNCHANGED <<storeVars, faults>>

\* update runs in one queue for all groups: a write begins when none is in flight.
Writing(g) == task[g].pc \in {"configuring", "recording", "failing"}
StoreFree == \A g \in Groups : ~Writing(g)

\* readAppliedMembers is not in that queue: it finds nothing while a write of any
\* group is in flight, or the last one has failed.
AppliedMembers(g) == IF available THEN store[g].members ELSE {}

Complete(t) == t.done = t.sync.adds \cup t.sync.deletes

\* applySuccessfulOperations
NextMembers(t) == (t.base \cup (t.sync.adds \cap t.done)) \ (t.sync.deletes \cap t.done)

\* The record that a handler writes; only writeReady and writeFailed after the
\* operations bring members, the others keep those on record.
Draft(g) ==
    LET t == task[g]
    IN [version |-> t.sync.version,
        members |-> IF t.pc = "recording" THEN NextMembers(t) ELSE store[g].members,
        status |-> CASE t.pc = "configuring" -> "configuring"
                     [] t.pc = "recording" /\ Complete(t) -> "ready"
                     [] OTHER -> "failed"]

BeginWrite(g, pc) ==
    /\ task' = [task EXCEPT ![g].pc = pc] /\ available' = FALSE
    /\ UNCHANGED <<store, disk, torn>>

\* Manifest and state file are written.
Written(g) ==
    /\ store' = [store EXCEPT ![g] = Draft(g)] /\ disk' = store'
    /\ available' = TRUE /\ torn' = FALSE

\* What a write that is cut short leaves: the files as they were, a new manifest
\* only, or both files new, for a rename may take effect and its sync fail.
LeftOnDisk(g) ==
    \/ UNCHANGED <<disk, torn>>
    \/ torn' = TRUE /\ UNCHANGED disk
    \/ torn' = FALSE /\ disk' = [store EXCEPT ![g] = Draft(g)]

Unwritten(g) == Fault /\ LeftOnDisk(g) /\ UNCHANGED <<store, available>>

\* handle: the members are read before the group is marked as being configured.
Receive(m) ==
    LET g == m.group
        members == store[g].members
    IN /\ ~asking /\ At(g, "idle")
       /\ task' = [task EXCEPT ![g] = [pc |-> "configure", sync |-> m,
                                       base |-> AppliedMembers(g)]]
       /\ unread' = [unread EXCEPT ![g] = IF available THEN @ \ members ELSE @ \cup members]
       /\ StoreUnchanged /\ UNCHANGED <<results, subs, doubt>> /\ HandlerUnchanged

\* Mutant: a version that the store has already is refused like an older one.
WriteConfiguringOnce(g) ==
    LET stale == task[g].sync.version <= store[g].version
    IN /\ At(g, "configure") /\ StoreFree
       /\ \/ stale /\ Finish(g) /\ UNCHANGED storeVars
          \/ ~stale /\ BeginWrite(g, "configuring")
       /\ UNCHANGED <<results, radioVars, faults>> /\ HandlerUnchanged

\* writeConfiguring: an older version than the recorded one is refused.
WriteConfiguring(g) ==
    LET stale == task[g].sync.version < store[g].version
    IN /\ At(g, "configure") /\ StoreFree
       /\ \/ stale /\ Finish(g) /\ UNCHANGED storeVars
          \/ ~stale /\ BeginWrite(g, "configuring")
       /\ UNCHANGED <<results, radioVars, faults>> /\ HandlerUnchanged

\* The write ends, and has recovered the store if it was unavailable.
ConfiguringWritten(g) ==
    /\ At(g, "configuring")
    /\ \/ Written(g) /\ task' = [task EXCEPT ![g].pc = "operate"] /\ UNCHANGED faults
       \/ Unwritten(g) /\ Finish(g)
    /\ UNCHANGED <<results, radioVars>> /\ HandlerUnchanged

\* Mutant: members that the plan does not delete are nobody's concern.
PlanFitsAdds(m, base) == m.desired \ base \subseteq m.adds

\* assertOperationPlan
PlanFits(m, base) ==
    /\ m.desired \ base \subseteq m.adds
    /\ base \ m.desired \subseteq m.deletes
    /\ m.adds \subseteq m.desired
    /\ m.deletes \cap m.desired = {}

\* The plan does not fit the members that the handler has read.
RefusePlan(g) ==
    /\ At(g, "operate") /\ ~PlanFits(task[g].sync, task[g].base)
    /\ GiveUp(g) /\ StoreUnchanged /\ UNCHANGED <<results, radioVars>> /\ HandlerUnchanged

\* The adapter cannot start at all: no operation reaches the radio.
AdapterFails(g) ==
    /\ At(g, "operate") /\ PlanFits(task[g].sync, task[g].base)
    /\ Fault /\ GiveUp(g)
    /\ UNCHANGED <<storeVars, results, radioVars>> /\ HandlerUnchanged

\* The operations that go out over the radio: in an incremental plan those that
\* the members read have not satisfied already.
OnAir(m, base) ==
    IF m.full THEN m.adds \cup m.deletes
    ELSE (m.adds \ base) \cup (m.deletes \cap base)

\* syncGroupSubscriptions: "lost" operations go unanswered, with or without effect.
SyncGroupSubscriptions(g, lost, took) ==
    LET m == task[g].sync
        air == OnAir(m, task[g].base)
        effective == (air \ lost) \cup took
    IN /\ At(g, "operate") /\ PlanFits(m, task[g].base)
       /\ lost \subseteq air /\ took \subseteq lost
       /\ IF lost = {} THEN UNCHANGED faults ELSE Fault
       /\ subs' = [subs EXCEPT ![g] =
                     (@ \cup (m.adds \cap effective)) \ (m.deletes \cap effective)]
       /\ doubt' = [doubt EXCEPT ![g] = (@ \ air) \cup lost]
       /\ unread' = [unread EXCEPT ![g] = @ \ air]
       /\ task' = [task EXCEPT ![g] = [pc |-> "record", sync |-> m, base |-> task[g].base,
                                       done |-> (m.adds \cup m.deletes) \ lost]]
       /\ UNCHANGED <<storeVars, results>> /\ HandlerUnchanged

\* Operations whose effect the store has yet to record.
InFlight(g) ==
    IF task[g].pc \in {"record", "recording"}
    THEN task[g].done \cap OnAir(task[g].sync, task[g].base) ELSE {}

\* The effects of the operations are on no record.
Forget(g) == doubt' = [doubt EXCEPT ![g] = @ \cup InFlight(g)]

\* writeReady, or writeFailed with the members, which do not recover the store.
WriteTerminal(g) ==
    /\ At(g, "record") /\ StoreFree
    /\ \/ available /\ BeginWrite(g, "recording") /\ UNCHANGED doubt
       \/ ~available /\ GiveUp(g) /\ Forget(g) /\ UNCHANGED storeVars
    /\ UNCHANGED <<results, subs, unread, faults>> /\ HandlerUnchanged

TerminalWritten(g) ==
    /\ At(g, "recording")
    /\ \/ Written(g) /\ task' = [task EXCEPT ![g].pc = "report"] /\ UNCHANGED <<doubt, faults>>
       \/ Unwritten(g) /\ GiveUp(g) /\ Forget(g)
    /\ UNCHANGED <<results, subs, unread>> /\ HandlerUnchanged

\* writeFailed without members, in the catch clause, whose own failure is ignored.
WriteFailed(g) ==
    /\ At(g, "giveup") /\ StoreFree
    /\ \/ available /\ BeginWrite(g, "failing")
       \/ ~available /\ Finish(g) /\ UNCHANGED storeVars
    /\ UNCHANGED <<results, radioVars, faults>> /\ HandlerUnchanged

FailedWritten(g) ==
    /\ At(g, "failing") /\ Finish(g)
    /\ (Written(g) /\ UNCHANGED faults) \/ Unwritten(g)
    /\ UNCHANGED <<results, radioVars>> /\ HandlerUnchanged

ResultOf(g, t) == [group |-> g, version |-> t.sync.version,
                   complete |-> Complete(t), done |-> t.done]

\* The result is published once; nobody repeats it if that fails.
PublishResult(g) ==
    /\ At(g, "report")
    /\ \/ results' = results \cup {ResultOf(g, task[g])} /\ UNCHANGED faults
       \/ Fault /\ UNCHANGED results
    /\ Finish(g) /\ UNCHANGED <<storeVars, radioVars>> /\ HandlerUnchanged

(***************************************************************************)
(* Results at the API                                                      *)
(***************************************************************************)
\* Mutant: the version of a result is not compared.
CurrentAnyVersion(r) == cloud[r.group].status # "retired"

\* Only the result of the group's current version counts.
Current(r) ==
    r.version = cloud[r.group].version /\ cloud[r.group].status # "retired"

\* The applied members after a result.
AppliedAfter(row, r) == (row.applied \cup (row.adds \cap r.done)) \ (row.deletes \cap r.done)

NextStatus(row, r, floor) ==
    LET applied == AppliedAfter(row, r)
        retiring == row.status = "retiring"
    IN IF ~r.complete THEN IF retiring THEN "retiring" ELSE "failed"
       ELSE IF retiring /\ ~floor /\ row.desired = {} /\ applied = {} THEN "retired"
       ELSE IF applied = row.desired THEN "ready"
       ELSE IF retiring THEN "retiring" ELSE "configuring"

\* storeMeshGroupSubscriptionResult
StoreResult(r) ==
    LET g == r.group
        row == cloud[g]
        status == NextStatus(row, r, g \in Floors)
    IN /\ Current(r)
       /\ cloud' = [cloud EXCEPT ![g].applied = AppliedAfter(row, r), ![g].status = status,
                                 ![g].full = @ /\ status \notin {"ready", "retired"}]
       /\ fixture' = IF status = "retired" /\ fixture[g] = "retiring"
                     THEN [fixture EXCEPT ![g] = "retired"] ELSE fixture
       /\ UNCHANGED <<processed, syncs, results, storeVars, task, radioVars, resyncVars,
                      edits, faults>>

(***************************************************************************)
(* Restart and resync                                                      *)
(***************************************************************************)
\* No handler is at work, and nobody has the effects that were to be recorded.
HandlersEnd ==
    /\ task' = [g \in Groups |-> NoTask]
    /\ UNCHANGED <<apiVars, syncs, results, subs, unread, requests, acks, edits>>

\* The gateway restarts and restores the records that the files have. If it was
\* about to ask for a resync, nothing tells that it has to.
Restart ==
    /\ Fault /\ HandlersEnd
    /\ IF StoreFree THEN UNCHANGED <<disk, torn>>
       ELSE \E g \in Groups : Writing(g) /\ LeftOnDisk(g)
    /\ ~torn' /\ store' = disk' /\ available' = TRUE
    /\ doubt' = [g \in Groups |-> doubt[g] \cup InFlight(g)]
    /\ asking' = FALSE /\ cut' = (cut \/ (asking /\ pending = 0))
    /\ UNCHANGED <<pending, losses>>

\* The gateway restarts without its records: the files are gone and made anew
\* (first_run), or one is missing, corrupt or of another revision. As long as the
\* files stay so, another restart finds the same.
RestartWithoutState ==
    /\ Fault /\ HandlersEnd
    /\ store' = [g \in Groups |-> NoRecord] /\ disk' = store'
    /\ available' \in BOOLEAN /\ torn' = ~available'
    /\ doubt' = [g \in Groups |-> doubt[g] \cup InFlight(g) \cup store[g].members]
    /\ asking' = TRUE /\ losses' = losses + 1
    /\ UNCHANGED <<pending, cut>>

\* Mutant: a first run asks for nothing, as if the gateway were new.
PersistRequestIfCorrupt ==
    /\ asking /\ asking' = FALSE
    /\ pending' = IF pending = 0 /\ ~available THEN losses ELSE pending
    /\ UNCHANGED <<apiVars, syncs, results, storeVars, task, radioVars, requests, acks,
                   losses, cut, edits, faults>>

\* MeshGroupResyncStore.restore, which follows once the adapter has been hydrated:
\* the request is persisted unless one is wanted already.
PersistRequest ==
    /\ asking /\ asking' = FALSE
    /\ pending' = IF pending = 0 THEN losses ELSE pending
    /\ UNCHANGED <<apiVars, syncs, results, storeVars, task, radioVars, requests, acks,
                   losses, cut, edits, faults>>

\* publishPending, on connect and with every heartbeat.
RequestResync ==
    /\ ~asking /\ pending # 0 /\ requests' = requests \cup {pending}
    /\ UNCHANGED <<apiVars, syncs, results, storeVars, task, radioVars, asking, pending, acks,
                   losses, cut, edits, faults>>

ResyncedRow(row) ==
    [Renewed(row, IF row.status = "retiring" THEN "retiring" ELSE "configuring", row.desired)
        EXCEPT !.full = TRUE]

\* Mutant: a request that comes again is carried out again.
ResetGatewayGroupsAgain(e) ==
    /\ e \in requests
    /\ cloud' = [g \in Groups |-> IF cloud[g].status \in {"none", "retired"} THEN cloud[g]
                                  ELSE ResyncedRow(cloud[g])]
    /\ processed' = processed \cup {e}
    /\ UNCHANGED <<fixture, syncs, results, storeVars, task, radioVars, resyncVars, edits,
                   faults>>

\* resetGatewayGroupsForResync, once per request.
ResetGatewayGroups(e) ==
    /\ e \in requests \ processed
    /\ cloud' = [g \in Groups |-> IF cloud[g].status \in {"none", "retired"} THEN cloud[g]
                                  ELSE ResyncedRow(cloud[g])]
    /\ processed' = processed \cup {e}
    /\ UNCHANGED <<fixture, syncs, results, storeVars, task, radioVars, resyncVars, edits,
                   faults>>

\* Mutant: the request is acknowledged on arrival.
AckResyncAtOnce(e) ==
    /\ e \in requests /\ acks' = acks \cup {e}
    /\ UNCHANGED <<apiVars, syncs, results, storeVars, task, radioVars, asking, pending,
                   requests, losses, cut, edits, faults>>

\* The application ACK of a request, after the transaction or for a repetition.
AckResync(e) ==
    /\ e \in processed /\ acks' = acks \cup {e}
    /\ UNCHANGED <<apiVars, syncs, results, storeVars, task, radioVars, asking, pending,
                   requests, losses, cut, edits, faults>>

\* MeshGroupResyncStore.acknowledge
ReceiveAck(e) ==
    /\ ~asking /\ e \in acks /\ e = pending /\ pending' = 0
    /\ UNCHANGED <<apiVars, syncs, results, storeVars, task, radioVars, asking, requests, acks,
                   losses, cut, edits, faults>>

UserStep(g) ==
    \/ \E D \in SUBSET Nodes : Create(g, D) \/ Update(g, D)
    \/ MoveAway(g) \/ Remove(g) \/ UserResync(g)
    \/ \E n \in Nodes : AttachMember(g, n)

HandlerStep(g) ==
    \/ WriteConfiguring(g) \/ ConfiguringWritten(g) \/ RefusePlan(g) \/ AdapterFails(g)
    \/ \E lost \in SUBSET Nodes : \E took \in SUBSET lost : SyncGroupSubscriptions(g, lost, took)
    \/ WriteTerminal(g) \/ TerminalWritten(g) \/ WriteFailed(g) \/ FailedWritten(g)
    \/ PublishResult(g)

ResyncStep == PersistRequest \/ RequestResync \/ \E e \in Events : ResetGatewayGroups(e) \/ AckResync(e) \/ ReceiveAck(e)

Next ==
    \/ \E g \in Groups : UserStep(g) \/ PublishSync(g) \/ HandlerStep(g)
    \/ \E m \in syncs : Receive(m)
    \/ \E r \in results : StoreResult(r)
    \/ Restart \/ RestartWithoutState
    \/ ResyncStep

Spec == Init /\ [][Next]_vars

\* A sync of the current version is received while no write is in flight.
ReceiveCurrent(g) ==
    /\ StoreFree
    /\ \E m \in syncs : m.group = g /\ m.version = cloud[g].version /\ Receive(m)

\* The worker and the heartbeat go on, and handlers come to an end, whose waits are
\* limited or first in first out. Of a sync that the worker repeats every 10 s some are
\* received, not for ever within the short writes of other groups, and of the results
\* that answer them one gets through. Nobody repeats either once the group has settled.
Fairness ==
    /\ \A g \in Groups : WF_vars(PublishSync(g)) /\ []<>At(g, "idle")
    /\ \A g \in Groups : []<>~Working(g) \/ []<><<ReceiveCurrent(g)>>_vars
    /\ \A g \in Groups :
          WF_vars(\E r \in results : r.group = g /\ r.complete /\ Working(g) /\ StoreResult(r))
    /\ WF_vars(ResyncStep)

FairSpec == Spec /\ Fairness

(***************************************************************************)
(* Safety                                                                  *)
(***************************************************************************)
\* The radio reaches the nodes of D, but for those that a lost operation or a store
\* that could not be read accounts for.
Reaches(g, D) ==
    /\ D \ subs[g] \subseteq doubt[g]
    /\ subs[g] \ D \subseteq doubt[g] \cup unread[g]

\* A group the gateway lets commands through to (assertReady) is subscribed by
\* exactly the members of that version, whatever was repeated, reordered or cut
\* short. It may lack a node only if nobody has that node's last operation on record;
\* it may have one too many only for that reason, or because the handler found the
\* store unavailable, took the node for no member, and has not operated on it since.
ReadyIsExact ==
    \A m \in syncs :
        LET g == m.group
            record == store[g]
        IN available /\ record.status = "ready" /\ record.version = m.version
              => Reaches(g, m.desired)

\* What the cloud shows as settled is so on the radio: a ready group reaches its
\* members and a retired one nobody, with the same exceptions, unless the gateway has
\* lost its store.
SettledIsExact ==
    \A g \in Groups :
        cloud[g].status \in {"ready", "retired"} /\ losses = 0 => Reaches(g, cloud[g].desired)

\* The gateway has the version of the group; a resync is wanted that the cloud has
\* yet to carry out.
Known(g) == store[g].version = cloud[g].version
Owed == asking \/ (pending # 0 /\ pending \notin processed)

\* A group that the cloud offers as a target and the gateway does not know is owed a
\* resync, whatever result is late and whenever the store was lost. It may not be if the
\* start that found the store lost was itself cut off before it persisted the request
\* (index.ts:925-932), nor with a second loss, if the first request has been carried out
\* and its ACK is on its way (group-resync-store.ts:103).
OfferedIsOwed ==
    losses <= 1 /\ ~cut => \A g \in Groups : cloud[g].status = "ready" => Known(g) \/ Owed

\* The gateway would refuse the current plan for these members.
Misfit(g, members) ==
    /\ cloud[g].planned = cloud[g].version
    /\ ~PlanFits(SyncOf(g, cloud[g]), members)

\* The plan of a version is only ever refused where the members that the handler has
\* read and the cloud disagree: it has read a node that the cloud neither wants nor
\* knows to be subscribed, or has not read one that the cloud wants and takes to be
\* subscribed. No restart, partial result or repetition of the plan makes it misfit.
RefusedIsOvertaken ==
    \A g \in Groups :
        LET t == task[g]
            row == cloud[g]
        IN At(g, "operate") /\ t.sync.version = row.version /\ ~PlanFits(t.sync, t.base) =>
              \/ ~(t.base \subseteq row.applied \cup row.desired)
              \/ ~(row.applied \cap row.desired \subseteq t.base)

(***************************************************************************)
(* Liveness                                                                *)
(***************************************************************************)
\* The worker gets every group settled, through restarts, lost stores, failed
\* writes and an answer that is late: only a plan that the gateway refuses for
\* good can keep a group from settling.
GroupsSettle == \A g \in Groups : []<>~Working(g) \/ <>[]Misfit(g, store[g].members)

\* Whatever the cloud offers as a target is known to the gateway at last: a store
\* that is lost makes the groups in it be configured again, with the exceptions of
\* OfferedIsOwed.
OfferedIsKnown ==
    \A g \in Groups : []<>(losses <= 1 /\ ~cut /\ cloud[g].status = "ready" => Known(g))

\* An edited group settles, however the edits interleave with its syncs.
EditsConverge == \A g \in Groups : Working(g) ~> ~Working(g)
=============================================================================
