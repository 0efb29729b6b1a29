-------------------------- MODULE MeshGroupsProofs --------------------------
(***************************************************************************)
(* Theorems about MeshGroups, for any groups, nodes, requests and          *)
(* failures: what the gateway calls ready and the cloud shows as settled   *)
(* is what the radio has, a group that a lost store left behind is owed a  *)
(* resync, and a plan is refused where the two sides disagree.             *)
(***************************************************************************)
EXTENDS MeshGroups, FiniteSets, FiniteSetTheorems, TLAPS

(***************************************************************************)
(* The inductive invariant                                                 *)
(***************************************************************************)
\* Requests are those of losses so far, and each is carried out once, so that the
\* versions of a group are bounded by the users' requests and the losses.
CountInv ==
    /\ losses <= faults /\ pending <= losses /\ edits + faults <= MaxEvents
    /\ requests \subseteq 1..losses
    /\ processed \subseteq requests
    /\ \A g \in Groups : cloud[g].version <= edits + Cardinality(processed)

\* No message is of a version to come, and the syncs of a version agree.
VersionInv ==
    /\ \A m \in syncs :
          /\ m.version <= cloud[m.group].version
          /\ m.version = cloud[m.group].version => m.desired = cloud[m.group].desired
    /\ \A m1, m2 \in syncs :
          m1.group = m2.group /\ m1.version = m2.version => m1.desired = m2.desired
    /\ \A r \in results : r.version <= cloud[r.group].version

\* An available store is the file's content, and one write is in flight at most, which
\* makes the store unavailable.
StoreInv ==
    /\ available => disk = store
    /\ \A g, h \in Groups : Writing(g) => ~available /\ (Writing(h) => g = h)

\* A handler works on a sync of its group; once it has marked the group, the store
\* has the version of the sync, and no ready record until the handler writes it.
HandlerInv(g) ==
    /\ ~At(g, "idle") => task[g].sync \in syncs /\ task[g].sync.group = g
    /\ At(g, "configuring") => ~(task[g].sync.version < store[g].version)
    /\ task[g].pc \in {"operate", "record", "recording", "report", "giveup", "failing"}
          => store[g].version = task[g].sync.version
    /\ task[g].pc \in {"operate", "record", "recording", "giveup", "failing"}
          => store[g].status # "ready"
    /\ task[g].pc \in {"record", "recording"} => PlanFits(task[g].sync, task[g].base)

\* The radio has the members M, or an operation is yet to be recorded.
Near(g, M) ==
    /\ M \ subs[g] \subseteq doubt[g] \cup InFlight(g)
    /\ subs[g] \ M \subseteq doubt[g] \cup unread[g] \cup InFlight(g)

\* The members on record, in memory and in the file, are near the radio's; those that
\* the handler has read, and those it is about to record, are what the radio has.
RadioInv(g) ==
    /\ Near(g, store[g].members) /\ Near(g, disk[g].members)
    /\ task[g].pc \in {"configure", "configuring", "operate"} => Reaches(g, task[g].base)
    /\ task[g].pc \in {"record", "recording"} => Reaches(g, NextMembers(task[g]))

\* A ready record has the members of its version.
ReadyRecord(g, record) ==
    record.status = "ready" =>
        \E m \in syncs : m.group = g /\ m.version = record.version /\ m.desired = record.members

\* The file's record may be ahead of the one in memory, but not of the cloud.
RecordInv(g) ==
    /\ ReadyRecord(g, store[g]) /\ ReadyRecord(g, disk[g])
    /\ store[g].version <= disk[g].version /\ disk[g].version <= cloud[g].version

\* The radio has what the cloud wants, and no record or handler has a node that is
\* not wanted.
Settled(g) ==
    /\ store[g].version = cloud[g].version
    /\ Reaches(g, cloud[g].desired)
    /\ store[g].members \subseteq cloud[g].desired /\ disk[g].members \subseteq cloud[g].desired
    /\ task[g].pc \in {"configure", "configuring", "operate", "record", "recording"}
          => task[g].base \subseteq cloud[g].desired

\* A complete result of the current version, or its effect, tells of a settled group.
SettledInv(g) ==
    losses = 0 =>
        /\ cloud[g].status \in {"ready", "retired"} => Settled(g)
        /\ At(g, "report") /\ Complete(task[g]) /\ task[g].sync.version = cloud[g].version => Settled(g)
        /\ \A r \in results :
              r.group = g /\ r.complete /\ r.version = cloud[g].version => Settled(g)

GroupInv(g) == HandlerInv(g) /\ RadioInv(g) /\ RecordInv(g) /\ SettledInv(g)

IInv == TypeOK /\ CountInv /\ VersionInv /\ StoreInv /\ \A g \in Groups : GroupInv(g)

(***************************************************************************)
(* Types                                                                   *)
(***************************************************************************)
LEMMA RequestCount ==
    ASSUME TypeOK, CountInv
    PROVE  IsFiniteSet(processed) /\ Cardinality(processed) \in Nat /\ Cardinality(processed) <= losses
<1>1. losses \in Nat
  BY BoundAssumption DEF TypeOK
<1>2. IsFiniteSet(1..losses) /\ Cardinality(1..losses) = losses
  BY <1>1, FS_Interval
<1>3. processed \subseteq 1..losses
  BY DEF CountInv
<1>4. QED BY <1>1, <1>2, <1>3, FS_Subset, FS_CardinalityType

\* The versions that renewals lead to.
LEMMA VersionBound ==
    ASSUME TypeOK, CountInv, NEW g \in Groups
    PROVE  /\ cloud[g].version \in Nat /\ edits \in Nat /\ faults \in Nat
           /\ edits + faults < MaxEvents => cloud[g].version + 1 \in Versions
           /\ Cardinality(processed) < losses => cloud[g].version + 1 \in Versions
<1>1. cloud[g].version \in Versions /\ Versions = 0..MaxEvents
  BY DEF TypeOK, Rows, Versions
<1>2. cloud[g].version <= edits + Cardinality(processed) /\ Cardinality(processed) \in Nat
      /\ Cardinality(processed) <= losses /\ losses <= faults /\ edits + faults <= MaxEvents
  BY RequestCount DEF CountInv
<1>3. losses \in Nat /\ edits \in Nat /\ faults \in Nat /\ cloud[g].version \in Nat
  BY <1>1, BoundAssumption DEF TypeOK
<1>4. ASSUME NEW c \in Nat, c <= losses, cloud[g].version <= edits + c
      PROVE  (c < losses \/ edits + faults < MaxEvents) => cloud[g].version + 1 <= MaxEvents
  BY <1>2, <1>3, <1>4, BoundAssumption
<1>5. (Cardinality(processed) < losses \/ edits + faults < MaxEvents) => cloud[g].version + 1 <= MaxEvents
  BY <1>2, <1>4
<1>6. QED BY <1>1, <1>3, <1>5, BoundAssumption

LEMMA RenewedType ==
    ASSUME NEW row \in Rows, NEW status \in {"configuring", "retiring"},
           NEW D \in SUBSET Nodes, row.version + 1 \in Versions
    PROVE  Renewed(row, status, D) \in Rows
<1>1. 0 \in Versions
  BY BoundAssumption DEF Versions
<1>2. QED BY <1>1 DEF Renewed, Rows

LEMMA RenewType ==
    ASSUME TypeOK, CountInv, NEW g \in Groups, NEW status \in {"configuring", "retiring"},
           NEW D \in SUBSET Nodes, Renew(g, status, D),
           fixture' \in [Groups -> {"none", "active", "away", "retiring", "retired"}]
    PROVE  TypeOK' /\ CountInv'
<1>1. edits + faults < MaxEvents /\ edits' = edits + 1 /\ faults' = faults
  BY DEF Renew, Edit
<1>2. edits \in Nat /\ faults \in Nat /\ edits' \in 0..MaxEvents /\ edits' + faults <= MaxEvents
  BY <1>1, BoundAssumption DEF TypeOK
<1>3. cloud[g] \in Rows /\ cloud' = [cloud EXCEPT ![g] = Renewed(cloud[g], status, D)]
  BY DEF TypeOK, Renew
<1>4. Renewed(cloud[g], status, D) \in Rows
  BY <1>1, <1>3, RenewedType, VersionBound
<1>5. cloud' \in [Groups -> Rows]
  BY <1>3, <1>4 DEF TypeOK
<1>6. TypeOK'
  BY <1>1, <1>2, <1>5 DEF TypeOK, Renew, storeVars, radioVars, resyncVars
<1>7. cloud'[g].version = cloud[g].version + 1 /\ \A h \in Groups \ {g} : cloud'[h] = cloud[h]
  BY <1>3 DEF Renewed, Rows, TypeOK
<1>8. \A h \in Groups : cloud[h].version \in Nat /\ cloud'[h].version \in Nat
  BY <1>5, BoundAssumption DEF TypeOK, Rows, Versions
<1>9. Cardinality(processed) \in Nat
  BY RequestCount
<1>10. \A h \in Groups : cloud'[h].version <= edits' + Cardinality(processed)
  BY <1>1, <1>2, <1>7, <1>8, <1>9 DEF CountInv
<1>11. QED BY <1>1, <1>2, <1>6, <1>10 DEF CountInv, Renew, resyncVars

LEMMA UserType ==
    ASSUME TypeOK, CountInv, NEW g \in Groups, UserStep(g)
    PROVE  TypeOK' /\ CountInv'
<1>1. CASE \E D \in SUBSET Nodes : Create(g, D) \/ Update(g, D)
  BY <1>1, RenewType DEF Create, Update, Lifecycle, TypeOK
<1>2. CASE MoveAway(g)
  BY <1>2, RenewType DEF MoveAway, Lifecycle, TypeOK
<1>3. CASE Remove(g)
  BY <1>3, RenewType DEF Remove, Lifecycle, TypeOK
<1>4. CASE UserResync(g)
  <2>1. cloud[g].desired \in SUBSET Nodes
    BY DEF TypeOK, Rows
  <2>2. QED BY <1>4, <2>1, RenewType DEF UserResync, TypeOK
<1>5. CASE \E n \in Nodes : AttachMember(g, n)
  <2>1. \A n \in Nodes : cloud[g].desired \cup {n} \in SUBSET Nodes
    BY DEF TypeOK, Rows
  <2>2. QED BY <1>5, <2>1, RenewType DEF AttachMember, Lifecycle, TypeOK
<1>6. QED BY <1>1, <1>2, <1>3, <1>4, <1>5 DEF UserStep

\* A fault is one of at most MaxFaults.
LEMMA FaultBound ==
    ASSUME TypeOK, CountInv, (faults' = faults) \/ Fault
    PROVE  /\ faults \in Nat /\ faults' \in 0..MaxFaults /\ faults <= faults'
           /\ faults' \in Nat /\ edits + faults' <= MaxEvents
           /\ Fault => faults' = faults + 1
  BY BoundAssumption DEF TypeOK, CountInv, Fault

\* Nothing that is counted changes.
LEMMA CountKept ==
    ASSUME TypeOK, CountInv, losses' = losses, (faults' = faults) \/ Fault, edits' = edits,
           processed' = processed, pending' = pending, requests' = requests,
           \A g \in Groups : cloud'[g].version = cloud[g].version
    PROVE  CountInv'
<1>1. losses \in Nat /\ losses <= faults'
  BY FaultBound, BoundAssumption DEF TypeOK, CountInv
<1>2. QED BY <1>1, FaultBound DEF CountInv

LEMMA PlannedType ==
    ASSUME NEW row \in Rows
    PROVE  Planned(row) \in Rows /\ Planned(row).version = row.version
  BY DEF Planned, Rows

LEMMA SyncType ==
    ASSUME NEW g \in Groups, NEW row \in Rows
    PROVE  SyncOf(g, row) \in Syncs
  BY DEF SyncOf, Syncs, Rows

LEMMA PublishSyncType ==
    ASSUME TypeOK, CountInv, NEW g \in Groups, PublishSync(g)
    PROVE  TypeOK' /\ CountInv'
<1>1. cloud[g] \in Rows
  BY DEF TypeOK
<1>2. cloud' = [cloud EXCEPT ![g] = Planned(cloud[g])] /\ cloud' \in [Groups -> Rows]
  BY <1>1, PlannedType DEF PublishSync, TypeOK
<1>3. syncs' \in SUBSET Syncs
  BY <1>1, PlannedType, SyncType DEF PublishSync, TypeOK
<1>4. TypeOK'
  BY <1>2, <1>3 DEF PublishSync, TypeOK, storeVars, radioVars, resyncVars
<1>5. \A h \in Groups : cloud'[h].version = cloud[h].version
  BY <1>1, <1>2, PlannedType DEF TypeOK
<1>6. QED BY <1>4, <1>5 DEF CountInv, PublishSync, resyncVars

\* Tasks at work.
LEMMA TaskType ==
    ASSUME TypeOK, NEW g \in Groups, ~At(g, "idle")
    PROVE  /\ task[g].sync \in Syncs
           /\ task[g].pc \in {"configure", "configuring", "operate", "record", "recording", "report",
                              "giveup", "failing"}
           /\ task[g].pc \in {"record", "recording", "report"} =>
                task[g] \in [pc: {"record", "recording", "report"}, sync: Syncs,
                             base: SUBSET Nodes, done: SUBSET Nodes]
           /\ task[g].pc \in {"configure", "configuring", "operate"} =>
                task[g] \in [pc: {"configure", "configuring", "operate"}, sync: Syncs,
                             base: SUBSET Nodes]
           /\ task[g].pc \in {"giveup", "failing"} =>
                task[g] \in [pc: {"giveup", "failing"}, sync: Syncs]
<1>1. task[g] \in Tasks
  BY DEF TypeOK
<1>2. QED BY <1>1 DEF Tasks, At, NoTask

\* The step of a handler to its next state.
LEMMA NextPcType ==
    ASSUME TypeOK, NEW g \in Groups, NEW pc, task' = [task EXCEPT ![g].pc = pc],
           <<task[g].pc, pc>> \in {<<"configure", "configuring">>, <<"configuring", "operate">>,
               <<"record", "recording">>, <<"recording", "report">>, <<"giveup", "failing">>}
    PROVE  /\ task' \in [Groups -> Tasks]
           /\ task'[g].pc = pc /\ task'[g].sync = task[g].sync
           /\ task[g].pc \in {"configure", "configuring"} => task'[g].base = task[g].base
           /\ task[g].pc \in {"record", "recording"} =>
                task'[g].base = task[g].base /\ task'[g].done = task[g].done
           /\ \A h \in Groups \ {g} : task'[h] = task[h]
<1>1. ~At(g, "idle") /\ task'[g] = [task[g] EXCEPT !.pc = pc]
      /\ \A h \in Groups \ {g} : task'[h] = task[h]
  BY DEF At, TypeOK
<1>2. CASE <<task[g].pc, pc>> \in {<<"configure", "configuring">>, <<"configuring", "operate">>}
  <2>1. task[g] \in [pc: {"configure", "configuring", "operate"}, sync: Syncs, base: SUBSET Nodes]
    BY <1>1, <1>2, TaskType
  <2>2. task'[g] \in Tasks /\ task'[g].pc = pc /\ task'[g].sync = task[g].sync /\ task'[g].base = task[g].base
    BY <1>1, <1>2, <2>1 DEF Tasks
  <2>3. QED BY <1>1, <1>2, <2>2 DEF TypeOK
<1>3. CASE <<task[g].pc, pc>> \in {<<"record", "recording">>, <<"recording", "report">>}
  <2>1. task[g] \in [pc: {"record", "recording", "report"}, sync: Syncs, base: SUBSET Nodes,
                     done: SUBSET Nodes]
    BY <1>1, <1>3, TaskType
  <2>2. task'[g] \in Tasks /\ task'[g].pc = pc /\ task'[g].sync = task[g].sync
        /\ task'[g].base = task[g].base /\ task'[g].done = task[g].done
    BY <1>1, <1>3, <2>1 DEF Tasks
  <2>3. QED BY <1>1, <1>3, <2>2 DEF TypeOK
<1>4. CASE <<task[g].pc, pc>> = <<"giveup", "failing">>
  <2>1. task[g] \in [pc: {"giveup", "failing"}, sync: Syncs]
    BY <1>1, <1>4, TaskType
  <2>2. task'[g] \in Tasks /\ task'[g].pc = pc /\ task'[g].sync = task[g].sync
    BY <1>1, <1>4, <2>1 DEF Tasks
  <2>3. QED BY <1>1, <1>4, <2>2 DEF TypeOK
<1>5. QED BY <1>2, <1>3, <1>4

\* A handler that ends or gives up.
LEMMA StopType ==
    ASSUME TypeOK, NEW g \in Groups, Finish(g) \/ (GiveUp(g) /\ ~At(g, "idle"))
    PROVE  /\ task' \in [Groups -> Tasks]
           /\ task'[g] \in {NoTask, [pc |-> "giveup", sync |-> task[g].sync]}
           /\ Finish(g) => task'[g] = NoTask
           /\ \A h \in Groups \ {g} : task'[h] = task[h]
<1>1. CASE Finish(g)
  BY <1>1 DEF Finish, TypeOK, Tasks
<1>2. CASE GiveUp(g) /\ ~At(g, "idle")
  <2>1. [pc |-> "giveup", sync |-> task[g].sync] \in Tasks
    BY <1>2, TaskType DEF Tasks
  <2>2. QED BY <1>2, <2>1 DEF GiveUp, Finish, TypeOK
<1>3. QED BY <1>1, <1>2

LEMMA RecordType ==
    /\ NoRecord \in Records
    /\ \A v \in Versions, M \in SUBSET Nodes, status \in {"none", "configuring", "ready", "failed"} :
          [version |-> v, members |-> M, status |-> status] \in Records
<1>1. 0 \in Versions
  BY BoundAssumption DEF Versions
<1>2. QED BY <1>1 DEF NoRecord, Records

LEMMA DraftType ==
    ASSUME TypeOK, NEW g \in Groups, Writing(g)
    PROVE  Draft(g) \in Records
<1> DEFINE t == task[g]
           status == CASE t.pc = "configuring" -> "configuring"
                       [] t.pc = "recording" /\ Complete(t) -> "ready"
                       [] OTHER -> "failed"
<1>1. t.sync \in Syncs /\ t.sync.version \in Versions
  BY TaskType DEF Writing, At, Syncs
<1>2. t.pc = "recording" => NextMembers(t) \in SUBSET Nodes
  BY <1>1, TaskType DEF At, NextMembers, Syncs
<1>3. store[g].members \in SUBSET Nodes
  BY DEF TypeOK, Records
<1>4. status \in {"configuring", "ready", "failed"}
  OBVIOUS
<1> HIDE DEF status
<1>5. Draft(g) = [version |-> t.sync.version,
                  members |-> IF t.pc = "recording" THEN NextMembers(t) ELSE store[g].members,
                  status |-> status]
  BY Zenon DEF Draft, status
<1>6. QED BY <1>1, <1>2, <1>3, <1>4, <1>5, RecordType

\* The records in the file after a write that was cut short, and after one that was not.
LEMMA LeftOnDiskType ==
    ASSUME TypeOK, NEW g \in Groups, Writing(g), LeftOnDisk(g)
    PROVE  /\ disk' \in [Groups -> Records] /\ torn' \in BOOLEAN
           /\ \A h \in Groups \ {g} : disk'[h] \in {disk[h], store[h]}
           /\ disk'[g] \in {disk[g], Draft(g)}
  BY DraftType DEF LeftOnDisk, TypeOK

LEMMA WrittenType ==
    ASSUME TypeOK, NEW g \in Groups, Writing(g), Written(g)
    PROVE  /\ store' \in [Groups -> Records] /\ disk' = store'
           /\ available' = TRUE /\ torn' = FALSE
           /\ store'[g] = Draft(g) /\ \A h \in Groups \ {g} : store'[h] = store[h]
  BY DraftType DEF Written, TypeOK

\* What the handlers leave alone, and what they must keep of a type.
LEMMA HandlerType ==
    ASSUME TypeOK, CountInv, HandlerUnchanged, (faults' = faults) \/ Fault,
           task' \in [Groups -> Tasks], results' \in SUBSET Results,
           store' \in [Groups -> Records], disk' \in [Groups -> Records],
           available' \in BOOLEAN, torn' \in BOOLEAN,
           subs' \in [Groups -> SUBSET Nodes], doubt' \in [Groups -> SUBSET Nodes],
           unread' \in [Groups -> SUBSET Nodes]
    PROVE  TypeOK' /\ CountInv'
<1>1. faults' \in 0..MaxFaults
  BY FaultBound
<1>2. TypeOK'
  BY <1>1 DEF TypeOK, HandlerUnchanged, apiVars, resyncVars
<1>3. CountInv'
  BY CountKept DEF HandlerUnchanged, apiVars, resyncVars
<1>4. QED BY <1>2, <1>3

LEMMA ReceiveType ==
    ASSUME TypeOK, CountInv, NEW m \in syncs, Receive(m)
    PROVE  TypeOK' /\ CountInv'
<1>1. m \in Syncs /\ m.group \in Groups
  BY DEF TypeOK, Syncs
<1>2. store[m.group].members \in SUBSET Nodes
  BY <1>1 DEF TypeOK, Records
<1>3. AppliedMembers(m.group) \in SUBSET Nodes
  BY <1>2 DEF AppliedMembers
<1>4. task' \in [Groups -> Tasks]
  <2>1. [pc |-> "configure", sync |-> m, base |-> AppliedMembers(m.group)] \in Tasks
    BY <1>1, <1>3 DEF Tasks
  <2>2. QED BY <2>1 DEF Receive, TypeOK
<1>5. unread' \in [Groups -> SUBSET Nodes]
  BY <1>1, <1>2 DEF Receive, TypeOK
<1>6. QED BY <1>4, <1>5, HandlerType DEF Receive, StoreUnchanged, storeVars, TypeOK

LEMMA InFlightType ==
    ASSUME TypeOK, NEW g \in Groups
    PROVE  InFlight(g) \in SUBSET Nodes
<1>1. CASE task[g].pc \in {"record", "recording"}
  BY <1>1, TaskType DEF InFlight, At
<1>2. QED BY <1>1 DEF InFlight

\* A write begins: no record changes.
LEMMA BeginWriteType ==
    ASSUME TypeOK, CountInv, NEW g \in Groups, NEW pc, BeginWrite(g, pc), HandlerUnchanged,
           <<task[g].pc, pc>> \in {<<"configure", "configuring">>, <<"record", "recording">>,
                                   <<"giveup", "failing">>},
           UNCHANGED <<results, radioVars, faults>>
    PROVE  TypeOK' /\ CountInv'
<1>1. task' \in [Groups -> Tasks]
  BY NextPcType DEF BeginWrite
<1>2. QED BY <1>1, HandlerType DEF BeginWrite, radioVars, TypeOK

\* A write is done.
LEMMA WrittenStepType ==
    ASSUME TypeOK, CountInv, NEW g \in Groups, Writing(g), Written(g), HandlerUnchanged,
           task' \in [Groups -> Tasks], UNCHANGED <<results, radioVars, faults>>
    PROVE  TypeOK' /\ CountInv'
  BY WrittenType, HandlerType DEF radioVars, TypeOK

\* A handler ends or gives up, with the file as it is or as a failed write leaves it.
LEMMA StopStepType ==
    ASSUME TypeOK, CountInv, NEW g \in Groups, ~At(g, "idle"), HandlerUnchanged,
           Finish(g) \/ GiveUp(g), (faults' = faults) \/ Fault,
           \/ UNCHANGED <<disk, torn>>
           \/ Writing(g) /\ LeftOnDisk(g),
           UNCHANGED <<store, available, results, subs, unread>>,
           doubt' = doubt \/ Forget(g)
    PROVE  TypeOK' /\ CountInv'
<1>1. task' \in [Groups -> Tasks]
  BY StopType
<1>2. doubt' \in [Groups -> SUBSET Nodes]
  BY InFlightType DEF Forget, TypeOK
<1>3. disk' \in [Groups -> Records] /\ torn' \in BOOLEAN
  BY LeftOnDiskType DEF TypeOK
<1>4. QED BY <1>1, <1>2, <1>3, HandlerType DEF TypeOK

LEMMA SyncGroupSubscriptionsType ==
    ASSUME TypeOK, CountInv, NEW g \in Groups, NEW lost \in SUBSET Nodes, NEW took \in SUBSET lost,
           SyncGroupSubscriptions(g, lost, took)
    PROVE  TypeOK' /\ CountInv'
<1>1. task[g].sync \in Syncs /\ task[g].base \in SUBSET Nodes
  BY TaskType DEF SyncGroupSubscriptions, At
<1>2. task[g].sync.adds \in SUBSET Nodes /\ task[g].sync.deletes \in SUBSET Nodes
  BY <1>1 DEF Syncs
<1>3. task' \in [Groups -> Tasks]
  <2>1. [pc |-> "record", sync |-> task[g].sync, base |-> task[g].base,
         done |-> (task[g].sync.adds \cup task[g].sync.deletes) \ lost] \in Tasks
    BY <1>1, <1>2 DEF Tasks
  <2>2. QED BY <2>1 DEF SyncGroupSubscriptions, TypeOK
<1>4. /\ subs' \in [Groups -> SUBSET Nodes] /\ doubt' \in [Groups -> SUBSET Nodes]
      /\ unread' \in [Groups -> SUBSET Nodes]
  BY <1>2 DEF SyncGroupSubscriptions, TypeOK
<1>5. QED BY <1>3, <1>4, HandlerType DEF SyncGroupSubscriptions, storeVars, TypeOK

LEMMA PublishResultType ==
    ASSUME TypeOK, CountInv, NEW g \in Groups, PublishResult(g)
    PROVE  TypeOK' /\ CountInv'
<1>1. task[g] \in [pc: {"record", "recording", "report"}, sync: Syncs, base: SUBSET Nodes,
                   done: SUBSET Nodes]
  BY TaskType DEF PublishResult, At
<1>2. ResultOf(g, task[g]) \in Results
  BY <1>1 DEF ResultOf, Results, Complete, Syncs
<1>3. results' \in SUBSET Results
  BY <1>2 DEF PublishResult, TypeOK
<1>4. task' \in [Groups -> Tasks]
  BY StopType DEF PublishResult
<1>5. QED BY <1>3, <1>4, HandlerType DEF PublishResult, storeVars, radioVars, TypeOK

LEMMA StoreResultType ==
    ASSUME TypeOK, CountInv, NEW r \in results, StoreResult(r)
    PROVE  TypeOK' /\ CountInv'
<1> DEFINE g == r.group
           row == cloud[g]
           status == NextStatus(row, r, g \in Floors)
<1>1. r \in Results /\ g \in Groups /\ row \in Rows
  BY DEF TypeOK, Results
<1>2. AppliedAfter(row, r) \in SUBSET Nodes
  BY <1>1 DEF AppliedAfter, Rows
<1>3. status \in {"configuring", "ready", "failed", "retiring", "retired"}
  BY DEF NextStatus
<1>4. cloud' = [cloud EXCEPT ![g] =
          [row EXCEPT !.applied = AppliedAfter(row, r), !.status = status,
                      !.full = row.full /\ status \notin {"ready", "retired"}]]
  BY <1>1 DEF StoreResult, TypeOK
<1>5. [row EXCEPT !.applied = AppliedAfter(row, r), !.status = status,
                  !.full = row.full /\ status \notin {"ready", "retired"}] \in Rows
  BY <1>1, <1>2, <1>3 DEF Rows
<1>6. cloud' \in [Groups -> Rows]
  BY <1>4, <1>5 DEF TypeOK
<1>7. fixture' \in [Groups -> {"none", "active", "away", "retiring", "retired"}]
  BY <1>1 DEF StoreResult, TypeOK
<1>8. TypeOK'
  BY <1>6, <1>7 DEF StoreResult, TypeOK, storeVars, radioVars, resyncVars
<1>9. \A h \in Groups : cloud'[h].version = cloud[h].version
  BY <1>1, <1>4 DEF TypeOK, Rows
<1>10. QED BY <1>8, <1>9 DEF CountInv, StoreResult, resyncVars

\* The records that a restart finds.
LEMMA RestartFinds ==
    ASSUME TypeOK, Restart
    PROVE  /\ store' \in [Groups -> Records] /\ disk' = store' /\ available' = TRUE
           /\ \A h \in Groups : store'[h] \in {disk[h], store[h]} \/ (Writing(h) /\ store'[h] = Draft(h))
<1>1. CASE UNCHANGED <<disk, torn>>
  BY <1>1 DEF Restart, TypeOK
<1>2. CASE \E g \in Groups : Writing(g) /\ LeftOnDisk(g)
  <2>1. PICK g \in Groups : Writing(g) /\ LeftOnDisk(g)
    BY <1>2
  <2>2. QED BY <2>1, LeftOnDiskType DEF Restart
<1>3. QED BY <1>1, <1>2 DEF Restart

LEMMA RestartType ==
    ASSUME TypeOK, CountInv, Restart
    PROVE  TypeOK' /\ CountInv'
<1>1. faults' \in 0..MaxFaults
  BY FaultBound DEF Restart
<1>2. task' \in [Groups -> Tasks]
  BY DEF Restart, HandlersEnd, Tasks
<1>3. doubt' \in [Groups -> SUBSET Nodes]
  BY InFlightType DEF Restart, TypeOK
<1>4. torn' \in BOOLEAN /\ cut' \in BOOLEAN
  <2>1. torn' \in BOOLEAN
    <3>1. CASE UNCHANGED <<disk, torn>>
      BY <3>1 DEF TypeOK
    <3>2. CASE \E g \in Groups : Writing(g) /\ LeftOnDisk(g)
      BY <3>2, LeftOnDiskType
    <3>3. QED BY <3>1, <3>2 DEF Restart
  <2>2. QED BY <2>1 DEF Restart, TypeOK
<1>5. TypeOK'
  BY <1>1, <1>2, <1>3, <1>4, RestartFinds DEF Restart, HandlersEnd, TypeOK, apiVars
<1>6. QED BY <1>5, CountKept DEF Restart, HandlersEnd, apiVars

LEMMA RestartWithoutStateType ==
    ASSUME TypeOK, CountInv, RestartWithoutState
    PROVE  TypeOK' /\ CountInv'
<1>1. faults \in Nat /\ faults' = faults + 1 /\ faults' \in 0..MaxFaults /\ edits + faults' <= MaxEvents
  BY FaultBound DEF RestartWithoutState
<1>2. losses \in Nat /\ losses' = losses + 1 /\ losses' <= faults' /\ losses' \in 0..MaxFaults
  BY <1>1, BoundAssumption DEF RestartWithoutState, TypeOK, CountInv
<1>3. pending' = pending /\ pending <= losses'
  BY <1>2, BoundAssumption DEF RestartWithoutState, TypeOK, CountInv, Events
<1>4. task' \in [Groups -> Tasks]
  BY DEF RestartWithoutState, HandlersEnd, Tasks
<1>5. store' \in [Groups -> Records] /\ disk' = store'
  BY RecordType DEF RestartWithoutState
<1>6. doubt' \in [Groups -> SUBSET Nodes]
  <2>1. \A g \in Groups : doubt[g] \cup InFlight(g) \cup store[g].members \in SUBSET Nodes
    BY InFlightType DEF TypeOK, Records
  <2>2. QED BY <2>1 DEF RestartWithoutState
<1>7. available' \in BOOLEAN /\ torn' \in BOOLEAN /\ asking' = TRUE /\ cut' = cut
  BY DEF RestartWithoutState
<1>8. TypeOK'
  BY <1>1, <1>2, <1>3, <1>4, <1>5, <1>6, <1>7 DEF RestartWithoutState, HandlersEnd, TypeOK, apiVars
<1>9. requests' \subseteq 1..losses'
  BY <1>2 DEF RestartWithoutState, HandlersEnd, CountInv
<1>10. QED BY <1>1, <1>2, <1>3, <1>8, <1>9 DEF RestartWithoutState, HandlersEnd, CountInv, apiVars

LEMMA PersistRequestType ==
    ASSUME TypeOK, CountInv, PersistRequest
    PROVE  TypeOK' /\ CountInv'
<1>1. pending' \in Events /\ pending' <= losses
  BY BoundAssumption DEF PersistRequest, TypeOK, CountInv, Events
<1>2. TypeOK'
  BY <1>1 DEF PersistRequest, TypeOK, apiVars, storeVars, radioVars
<1>3. QED BY <1>1, <1>2 DEF PersistRequest, CountInv, apiVars

LEMMA RequestResyncType ==
    ASSUME TypeOK, CountInv, RequestResync
    PROVE  TypeOK' /\ CountInv'
<1>1. pending \in 1..losses
  BY BoundAssumption DEF RequestResync, TypeOK, CountInv, Events
<1>2. TypeOK'
  BY DEF RequestResync, TypeOK, apiVars, storeVars, radioVars
<1>3. QED BY <1>1, <1>2 DEF RequestResync, CountInv, apiVars

LEMMA ResyncedType ==
    ASSUME NEW row \in Rows, row.version + 1 \in Versions
    PROVE  ResyncedRow(row) \in Rows /\ ResyncedRow(row).version = row.version + 1
<1> DEFINE renewed == Renewed(row, IF row.status = "retiring" THEN "retiring" ELSE "configuring", row.desired)
<1>1. renewed \in Rows /\ renewed.version = row.version + 1
  BY RenewedType DEF Renewed, Rows
<1>2. QED BY <1>1 DEF ResyncedRow, Rows

LEMMA ResetGatewayGroupsType ==
    ASSUME TypeOK, CountInv, NEW e \in Events, ResetGatewayGroups(e)
    PROVE  TypeOK' /\ CountInv'
<1>1. processed' = processed \cup {e} /\ e \notin processed /\ e \in requests
  BY DEF ResetGatewayGroups
<1>2. IsFiniteSet(processed) /\ Cardinality(processed) \in Nat
  BY RequestCount
<1>3. Cardinality(processed') = Cardinality(processed) + 1
  BY <1>1, <1>2, FS_AddElement
<1>4. losses \in Nat /\ Cardinality(processed') <= losses
  <2>1. losses \in Nat
    BY BoundAssumption DEF TypeOK
  <2>2. IsFiniteSet(1..losses) /\ Cardinality(1..losses) = losses
    BY <2>1, FS_Interval
  <2>3. processed' \subseteq 1..losses
    BY <1>1 DEF CountInv
  <2>4. QED BY <2>1, <2>2, <2>3, FS_Subset
<1>5. Cardinality(processed) < losses
  BY <1>2, <1>3, <1>4
<1>6. \A g \in Groups : /\ cloud[g] \in Rows /\ ResyncedRow(cloud[g]) \in Rows
                        /\ ResyncedRow(cloud[g]).version = cloud[g].version + 1
  BY <1>5, VersionBound, ResyncedType DEF TypeOK
<1>7. cloud' \in [Groups -> Rows] /\ \A g \in Groups : cloud'[g] \in {cloud[g], ResyncedRow(cloud[g])}
  BY <1>6 DEF ResetGatewayGroups
<1>8. TypeOK'
  BY <1>7 DEF ResetGatewayGroups, TypeOK, storeVars, radioVars, resyncVars
<1>9. \A g \in Groups : cloud'[g].version <= edits + Cardinality(processed')
  <2>1. \A g \in Groups : cloud[g].version \in Nat /\ edits \in Nat
                          /\ cloud[g].version <= edits + Cardinality(processed)
    BY VersionBound DEF CountInv
  <2>2. QED BY <1>2, <1>3, <1>6, <1>7, <2>1
<1>10. QED BY <1>1, <1>8, <1>9 DEF CountInv, ResetGatewayGroups, resyncVars

LEMMA AckType ==
    ASSUME TypeOK, CountInv, NEW e \in Events, AckResync(e) \/ ReceiveAck(e)
    PROVE  TypeOK' /\ CountInv'
<1>1. 0 \in Events /\ 0 <= losses
  BY BoundAssumption DEF Events, TypeOK
<1>2. TypeOK'
  BY <1>1 DEF AckResync, ReceiveAck, TypeOK, apiVars, storeVars, radioVars
<1>3. QED BY <1>1, <1>2 DEF AckResync, ReceiveAck, CountInv, apiVars

\* The steps of a handler that begin a write, that stop, and that end a write.
WriteSteps == {<<"configure", "configuring">>, <<"record", "recording">>, <<"giveup", "failing">>}

Begins(g) ==
    /\ StoreFree /\ \E step \in WriteSteps : task[g].pc = step[1] /\ BeginWrite(g, step[2])
    /\ At(g, "configure") => ~(task[g].sync.version < store[g].version)
    /\ UNCHANGED <<results, radioVars, faults>> /\ HandlerUnchanged

Stops(g) ==
    /\ \/ Finish(g) /\ task[g].pc \in {"configure", "configuring", "giveup", "failing"}
       \/ GiveUp(g) /\ task[g].pc \in {"operate", "record", "recording"}
    /\ UNCHANGED <<disk, torn>> \/ (Writing(g) /\ LeftOnDisk(g))
    /\ (faults' = faults) \/ Fault
    /\ doubt' = doubt \/ Forget(g)
    /\ task[g].pc \in {"record", "recording"} => Forget(g)
    /\ UNCHANGED <<store, available, results, subs, unread>> /\ HandlerUnchanged

Ends(g) ==
    /\ Written(g)
    /\ \/ At(g, "configuring") /\ task' = [task EXCEPT ![g].pc = "operate"]
       \/ At(g, "recording") /\ task' = [task EXCEPT ![g].pc = "report"]
       \/ At(g, "failing") /\ Finish(g)
    /\ UNCHANGED <<results, radioVars, faults>> /\ HandlerUnchanged

LEMMA HandlerForms ==
    ASSUME NEW g \in Groups, HandlerStep(g)
    PROVE  \/ Begins(g) \/ Stops(g) \/ Ends(g) \/ PublishResult(g)
           \/ \E lost \in SUBSET Nodes : \E took \in SUBSET lost : SyncGroupSubscriptions(g, lost, took)
<1>1. ASSUME NEW pc, <<task[g].pc, pc>> \in WriteSteps, BeginWrite(g, pc)
      PROVE  \E step \in WriteSteps : task[g].pc = step[1] /\ BeginWrite(g, step[2])
  BY <1>1
<1>2. CASE WriteConfiguring(g)
  <2>1. CASE Finish(g) /\ UNCHANGED storeVars
    BY <1>2, <2>1 DEF WriteConfiguring, Stops, storeVars, radioVars, At
  <2>2. CASE ~(task[g].sync.version < store[g].version) /\ BeginWrite(g, "configuring")
    BY <1>1, <1>2, <2>2 DEF WriteConfiguring, Begins, WriteSteps, At
  <2>3. QED BY <1>2, <2>1, <2>2 DEF WriteConfiguring
<1>3. CASE ConfiguringWritten(g)
  <2>1. CASE Written(g)
    BY <1>3, <2>1 DEF ConfiguringWritten, Ends, Stops, Unwritten, Writing, At, radioVars
  <2>2. CASE Unwritten(g) /\ Finish(g)
    BY <1>3, <2>2 DEF ConfiguringWritten, Stops, Unwritten, Writing, At, radioVars
  <2>3. QED BY <1>3, <2>1, <2>2 DEF ConfiguringWritten
<1>4. CASE RefusePlan(g)
  BY <1>4 DEF RefusePlan, Stops, StoreUnchanged, storeVars, radioVars, At
<1>5. CASE AdapterFails(g)
  BY <1>5 DEF AdapterFails, Stops, storeVars, radioVars, At
<1>6. CASE WriteTerminal(g)
  <2>1. CASE BeginWrite(g, "recording") /\ UNCHANGED doubt
    BY <1>1, <1>6, <2>1 DEF WriteTerminal, Begins, WriteSteps, At, radioVars
  <2>2. CASE GiveUp(g) /\ Forget(g) /\ UNCHANGED storeVars
    BY <1>6, <2>2 DEF WriteTerminal, Stops, storeVars, At
  <2>3. QED BY <1>6, <2>1, <2>2 DEF WriteTerminal
<1>7. CASE TerminalWritten(g)
  <2>1. CASE Written(g) /\ task' = [task EXCEPT ![g].pc = "report"] /\ UNCHANGED <<doubt, faults>>
    BY <1>7, <2>1 DEF TerminalWritten, Ends, At, radioVars
  <2>2. CASE Unwritten(g) /\ GiveUp(g) /\ Forget(g)
    BY <1>7, <2>2 DEF TerminalWritten, Stops, Unwritten, Writing, At
  <2>3. QED BY <1>7, <2>1, <2>2 DEF TerminalWritten
<1>8. CASE WriteFailed(g)
  <2>1. CASE BeginWrite(g, "failing")
    BY <1>1, <1>8, <2>1 DEF WriteFailed, Begins, WriteSteps, At
  <2>2. CASE Finish(g) /\ UNCHANGED storeVars
    BY <1>8, <2>2 DEF WriteFailed, Stops, storeVars, radioVars, At
  <2>3. QED BY <1>8, <2>1, <2>2 DEF WriteFailed
<1>9. CASE FailedWritten(g)
  <2>1. CASE Written(g) /\ UNCHANGED faults
    BY <1>9, <2>1 DEF FailedWritten, Ends, At
  <2>2. CASE Unwritten(g)
    BY <1>9, <2>2 DEF FailedWritten, Stops, Unwritten, Writing, At, radioVars
  <2>3. QED BY <1>9, <2>1, <2>2 DEF FailedWritten
<1>10. QED BY <1>2, <1>3, <1>4, <1>5, <1>6, <1>7, <1>8, <1>9 DEF HandlerStep

LEMMA BeginsType ==
    ASSUME TypeOK, CountInv, NEW g \in Groups, Begins(g)
    PROVE  TypeOK' /\ CountInv'
<1>1. PICK step \in WriteSteps : task[g].pc = step[1] /\ BeginWrite(g, step[2])
  BY DEF Begins
<1>2. <<task[g].pc, step[2]>> \in {<<"configure", "configuring">>, <<"record", "recording">>,
                                   <<"giveup", "failing">>}
  BY <1>1 DEF WriteSteps
<1>3. QED BY <1>1, <1>2, BeginWriteType DEF Begins

LEMMA StopsType ==
    ASSUME TypeOK, CountInv, NEW g \in Groups, Stops(g)
    PROVE  TypeOK' /\ CountInv'
<1>1. ~At(g, "idle")
  BY DEF Stops, At
<1>2. QED BY <1>1, StopStepType DEF Stops

LEMMA EndsType ==
    ASSUME TypeOK, CountInv, NEW g \in Groups, Ends(g)
    PROVE  TypeOK' /\ CountInv'
<1>1. task' \in [Groups -> Tasks]
  BY NextPcType, StopType DEF Ends, At
<1>2. QED BY <1>1, WrittenStepType DEF Ends, Writing, At

LEMMA HandlerStepType ==
    ASSUME TypeOK, CountInv, NEW g \in Groups, HandlerStep(g)
    PROVE  TypeOK' /\ CountInv'
  BY HandlerForms, BeginsType, StopsType, EndsType, PublishResultType, SyncGroupSubscriptionsType

LEMMA ResyncStepType ==
    ASSUME TypeOK, CountInv, ResyncStep
    PROVE  TypeOK' /\ CountInv'
  BY PersistRequestType, RequestResyncType, ResetGatewayGroupsType, AckType DEF ResyncStep

LEMMA TypeStep ==
    ASSUME TypeOK, CountInv, [Next]_vars
    PROVE  TypeOK' /\ CountInv'
<1>1. CASE UNCHANGED vars
  BY <1>1 DEF vars, apiVars, storeVars, radioVars, resyncVars, TypeOK, CountInv
<1>2. QED BY <1>1, UserType, PublishSyncType, HandlerStepType, ReceiveType, StoreResultType,
             RestartType, RestartWithoutStateType, ResyncStepType DEF Next

(***************************************************************************)
(* The handlers                                                            *)
(***************************************************************************)
\* A plan that fits and is carried out leads to the desired members.
LEMMA CompleteIsDesired ==
    ASSUME NEW t, PlanFits(t.sync, t.base), Complete(t)
    PROVE  NextMembers(t) = t.sync.desired
  BY DEF PlanFits, Complete, NextMembers

\* The versions of a group can be compared.
LEMMA VersionNat ==
    ASSUME TypeOK, NEW g \in Groups
    PROVE  cloud[g].version \in Nat /\ store[g].version \in Nat /\ disk[g].version \in Nat
  BY BoundAssumption DEF TypeOK, Rows, Records, Versions

\* The sync that a handler works on.
LEMMA SyncNat ==
    ASSUME IInv, NEW g \in Groups, ~At(g, "idle")
    PROVE  /\ task[g].sync \in syncs /\ task[g].sync.group = g
           /\ task[g].sync.version \in Nat /\ task[g].sync.version <= cloud[g].version
           /\ task[g].sync.version = cloud[g].version => task[g].sync.desired = cloud[g].desired
<1>1. task[g].sync \in syncs /\ task[g].sync.group = g
  BY DEF IInv, GroupInv, HandlerInv
<1>2. QED BY <1>1, BoundAssumption DEF IInv, VersionInv, TypeOK, Syncs, Versions

\* The record in flight could be on file at any moment.
LEMMA DraftInv ==
    ASSUME IInv, NEW g \in Groups, Writing(g)
    PROVE  /\ Draft(g).version = task[g].sync.version
           /\ store[g].version <= Draft(g).version /\ Draft(g).version <= cloud[g].version
           /\ Near(g, Draft(g).members)
           /\ ReadyRecord(g, Draft(g))
           /\ Draft(g).status = "ready" => Complete(task[g])
           /\ Settled(g) => Draft(g).members \subseteq cloud[g].desired
<1> DEFINE t == task[g]
<1>1. /\ t.sync \in syncs /\ t.sync.group = g /\ t.sync.version \in Nat
      /\ t.sync.version <= cloud[g].version
      /\ t.sync.version = cloud[g].version => t.sync.desired = cloud[g].desired
      /\ cloud[g].version \in Nat /\ store[g].version \in Nat
  BY SyncNat, VersionNat DEF Writing, At, IInv
<1>2. Draft(g).version = t.sync.version
  BY Zenon DEF Draft
<1>3. store[g].version <= Draft(g).version
  BY <1>1, <1>2 DEF IInv, GroupInv, HandlerInv, Writing, At
<1>4. HandlerInv(g) /\ RadioInv(g)
  BY DEF IInv, GroupInv
<1>5. CASE t.pc = "recording"
  <2>1. /\ Draft(g).members = NextMembers(t)
        /\ Draft(g).status = IF Complete(t) THEN "ready" ELSE "failed"
    BY <1>5 DEF Draft
  <2>2. PlanFits(t.sync, t.base) /\ Reaches(g, NextMembers(t))
    BY <1>4, <1>5 DEF HandlerInv, RadioInv
  <2>3. Near(g, Draft(g).members)
    BY <2>1, <2>2 DEF Near, Reaches
  <2>4. ReadyRecord(g, Draft(g))
    BY <1>1, <1>2, <2>1, <2>2, CompleteIsDesired DEF ReadyRecord
  <2>5. Settled(g) => Draft(g).members \subseteq cloud[g].desired
    <3>1. store[g].version = t.sync.version
      BY <1>4, <1>5 DEF HandlerInv
    <3>2. QED BY <1>1, <1>5, <2>1, <2>2, <3>1 DEF Settled, PlanFits, NextMembers
  <2>6. QED BY <1>1, <1>2, <1>3, <2>1, <2>3, <2>4, <2>5
<1>6. CASE t.pc \in {"configuring", "failing"}
  <2>1. Draft(g).members = store[g].members /\ Draft(g).status \in {"configuring", "failed"}
    BY <1>6 DEF Draft
  <2>2. QED BY <1>1, <1>2, <1>3, <1>4, <2>1 DEF RadioInv, ReadyRecord, Settled
<1>7. QED BY <1>5, <1>6 DEF Writing

\* What a step of another group leaves of a group.
LEMMA OtherGroup ==
    ASSUME NEW h \in Groups, GroupInv(h), task'[h] = task[h], store'[h] = store[h],
           disk'[h] \in {disk[h], store[h]}, subs'[h] = subs[h], doubt'[h] = doubt[h],
           unread'[h] = unread[h], cloud'[h] = cloud[h], syncs' = syncs, losses' = losses,
           cloud[h].version \in Nat, store[h].version \in Nat, disk[h].version \in Nat,
           \A r \in results' : r.group = h => r \in results
    PROVE  GroupInv(h)'
<1>1. HandlerInv(h)'
  BY DEF GroupInv, HandlerInv, At
<1>2. RadioInv(h)'
  BY DEF GroupInv, RadioInv, Near, Reaches, InFlight
<1>3. RecordInv(h)'
  BY DEF GroupInv, RecordInv, ReadyRecord
<1>4. Settled(h) => Settled(h)'
  BY DEF Settled, Reaches
<1>5. SettledInv(h)'
  BY <1>4 DEF GroupInv, SettledInv, At
<1>6. QED BY <1>1, <1>2, <1>3, <1>5 DEF GroupInv

\* A step of the handler of g, which brings no result or one of its version.
HandlerMoves(g) ==
    /\ HandlerUnchanged
    /\ \A h \in Groups \ {g} :
          /\ task'[h] = task[h] /\ store'[h] = store[h] /\ disk'[h] \in {disk[h], store[h]}
          /\ subs'[h] = subs[h] /\ doubt'[h] = doubt[h] /\ unread'[h] = unread[h]
    /\ \/ results' = results
       \/ At(g, "report") /\ results' = results \cup {ResultOf(g, task[g])}

LEMMA HandlerMovesKeep ==
    ASSUME IInv, TypeOK', CountInv', StoreInv', NEW g \in Groups, HandlerMoves(g), GroupInv(g)'
    PROVE  IInv'
<1>1. cloud' = cloud /\ syncs' = syncs /\ losses' = losses
  BY DEF HandlerMoves, HandlerUnchanged, apiVars, resyncVars
<1>2. VersionInv'
  <2>1. At(g, "report") => task[g].sync \in syncs /\ task[g].sync.group = g
    BY DEF IInv, GroupInv, HandlerInv, At
  <2>2. \A r \in results' : r.version <= cloud[r.group].version
    BY <2>1 DEF HandlerMoves, ResultOf, IInv, VersionInv
  <2>3. QED BY <1>1, <2>2 DEF IInv, VersionInv
<1>3. \A h \in Groups \ {g} : GroupInv(h)'
  <2> SUFFICES ASSUME NEW h \in Groups \ {g} PROVE GroupInv(h)'
    OBVIOUS
  <2>1. \A r \in results' : r.group = h => r \in results
    BY DEF HandlerMoves, ResultOf
  <2>2. QED BY <1>1, <2>1, OtherGroup, VersionNat DEF HandlerMoves, IInv
<1>4. QED BY <1>2, <1>3 DEF IInv

\* A handler that is not writing after its step leaves the store to others.
LEMMA StoreKept ==
    ASSUME IInv, NEW g \in Groups, \A h \in Groups \ {g} : task'[h] = task[h], ~Writing(g)',
           available' = available \/ Writing(g), available' => disk' = store'
    PROVE  StoreInv'
<1>1. \A h \in Groups : Writing(h)' => h # g /\ Writing(h)
  BY DEF Writing
<1>2. QED BY <1>1 DEF IInv, StoreInv

LEMMA ReceiveStep ==
    ASSUME IInv, NEW m \in syncs, Receive(m)
    PROVE  IInv'
<1> DEFINE g == m.group
           members == store[g].members
<1>1. g \in Groups /\ TypeOK' /\ CountInv'
  BY ReceiveType DEF IInv, TypeOK, Syncs
<1>2. /\ task'[g] = [pc |-> "configure", sync |-> m, base |-> AppliedMembers(g)]
      /\ unread'[g] = IF available THEN unread[g] \ members ELSE unread[g] \cup members
      /\ \A h \in Groups \ {g} : task'[h] = task[h] /\ unread'[h] = unread[h]
      /\ UNCHANGED <<cloud, syncs, results, store, disk, available, subs, doubt, losses>>
      /\ HandlerUnchanged /\ At(g, "idle")
  BY <1>1 DEF Receive, StoreUnchanged, storeVars, HandlerUnchanged, apiVars, resyncVars, IInv, TypeOK
<1>3. HandlerMoves(g)
  BY <1>2 DEF HandlerMoves
<1>4. StoreInv'
  <2>1. available' => disk' = store'
    BY <1>2 DEF IInv, StoreInv
  <2>2. QED BY <1>1, <1>2, <2>1, StoreKept DEF Writing
<1>5. HandlerInv(g)'
  BY <1>2 DEF HandlerInv, At
<1>6. Near(g, members) /\ Near(g, disk[g].members) /\ InFlight(g) = {} /\ InFlight(g)' = {}
  BY <1>1, <1>2 DEF IInv, GroupInv, RadioInv, InFlight, At
<1>7. RadioInv(g)'
  <2>1. CASE available
    <3>1. disk = store /\ AppliedMembers(g) = members
      BY <2>1 DEF IInv, StoreInv, AppliedMembers
    <3>2. QED BY <1>2, <1>6, <2>1, <3>1 DEF RadioInv, Near, Reaches
  <2>2. CASE ~available
    <3>1. AppliedMembers(g) = {}
      BY <2>2 DEF AppliedMembers
    <3>2. QED BY <1>2, <1>6, <2>2, <3>1 DEF RadioInv, Near, Reaches
  <2>3. QED BY <2>1, <2>2
<1>8. RecordInv(g)'
  BY <1>1, <1>2 DEF IInv, GroupInv, RecordInv, ReadyRecord
<1>9. SettledInv(g)'
  <2>1. Settled(g) => Settled(g)'
    BY <1>2 DEF Settled, Reaches, AppliedMembers
  <2>2. SettledInv(g)
    BY <1>1 DEF IInv, GroupInv
  <2>3. QED BY <1>2, <2>1, <2>2 DEF SettledInv, At
<1>10. QED BY <1>1, <1>3, <1>4, <1>5, <1>7, <1>8, <1>9, HandlerMovesKeep DEF GroupInv

LEMMA BeginsStep ==
    ASSUME IInv, NEW g \in Groups, Begins(g)
    PROVE  IInv'
<1>1. TypeOK' /\ CountInv' /\ TypeOK
  BY BeginsType DEF IInv
<1>2. PICK step \in WriteSteps : task[g].pc = step[1] /\ BeginWrite(g, step[2])
  BY DEF Begins
<1>3. /\ task'[g].pc = step[2] /\ task'[g].sync = task[g].sync
      /\ task[g].pc \in {"configure", "configuring"} => task'[g].base = task[g].base
      /\ task[g].pc \in {"record", "recording"} =>
            task'[g].base = task[g].base /\ task'[g].done = task[g].done
      /\ \A h \in Groups \ {g} : task'[h] = task[h]
  <2>1. <<task[g].pc, step[2]>> \in {<<"configure", "configuring">>, <<"configuring", "operate">>,
               <<"record", "recording">>, <<"recording", "report">>, <<"giveup", "failing">>}
    BY <1>2 DEF WriteSteps
  <2>2. QED BY <1>1, <1>2, <2>1, NextPcType, Zenon DEF BeginWrite
<1>4. /\ UNCHANGED <<cloud, syncs, results, store, disk, subs, doubt, unread, losses>>
      /\ available' = FALSE /\ HandlerUnchanged
  BY <1>2 DEF Begins, BeginWrite, HandlerUnchanged, apiVars, resyncVars, radioVars
<1>5. HandlerMoves(g)
  BY <1>3, <1>4 DEF HandlerMoves
<1>6. StoreInv'
  <2>1. \A h \in Groups : Writing(h)' => h = g
    BY <1>3 DEF Begins, StoreFree, Writing
  <2>2. QED BY <1>4, <2>1 DEF StoreInv
<1>7. \/ task[g].pc = "configure" /\ task'[g].pc = "configuring"
      \/ task[g].pc = "record" /\ task'[g].pc = "recording"
      \/ task[g].pc = "giveup" /\ task'[g].pc = "failing"
  BY <1>2, <1>3 DEF WriteSteps
<1>8. HandlerInv(g)'
  BY <1>3, <1>4, <1>7 DEF IInv, GroupInv, HandlerInv, Begins, At
<1>9. InFlight(g)' = InFlight(g)
  BY <1>3, <1>7 DEF InFlight
<1>10. RadioInv(g)'
  <2>1. RadioInv(g)
    BY DEF IInv, GroupInv
  <2>2. task'[g].pc = "recording" => NextMembers(task[g])' = NextMembers(task[g])
    BY <1>3, <1>7 DEF NextMembers
  <2>3. QED BY <1>3, <1>4, <1>7, <1>9, <2>1, <2>2 DEF RadioInv, Near, Reaches
<1>11. RecordInv(g)'
  BY <1>4 DEF IInv, GroupInv, RecordInv, ReadyRecord
<1>12. SettledInv(g)'
  <2>1. Settled(g) => Settled(g)'
    BY <1>3, <1>4, <1>7 DEF Settled, Reaches
  <2>2. QED BY <1>4, <1>7, <2>1 DEF IInv, GroupInv, SettledInv, At
<1>13. QED BY <1>1, <1>5, <1>6, <1>8, <1>10, <1>11, <1>12, HandlerMovesKeep DEF GroupInv

\* What is not on record is in doubt when a handler stops.
LEMMA StopsStep ==
    ASSUME IInv, NEW g \in Groups, Stops(g)
    PROVE  IInv'
<1>1. TypeOK' /\ CountInv' /\ TypeOK
  BY StopsType DEF IInv
<1>2. /\ task'[g] \in {NoTask, [pc |-> "giveup", sync |-> task[g].sync]}
      /\ task'[g] # NoTask => task[g].pc \in {"operate", "record", "recording"}
      /\ \A h \in Groups \ {g} : task'[h] = task[h]
  BY <1>1, StopType DEF Stops, At
<1>3. task'[g].pc \in {"idle", "giveup"} /\ InFlight(g)' = {}
  BY <1>2 DEF NoTask, InFlight
<1>4. /\ UNCHANGED <<cloud, syncs, results, store, available, subs, unread, losses>>
      /\ HandlerUnchanged
  BY DEF Stops, HandlerUnchanged, apiVars, resyncVars
<1>5. /\ doubt[g] \cup InFlight(g) \subseteq doubt'[g]
      /\ \A h \in Groups \ {g} : doubt'[h] = doubt[h]
  <2>1. CASE Forget(g)
    BY <1>1, <2>1 DEF Forget, TypeOK
  <2>2. CASE doubt' = doubt /\ task[g].pc \notin {"record", "recording"}
    BY <2>2 DEF InFlight
  <2>3. QED BY <2>1, <2>2 DEF Stops
<1>6. /\ disk'[g] = disk[g] \/ (Writing(g) /\ disk'[g] = Draft(g))
      /\ \A h \in Groups \ {g} : disk'[h] \in {disk[h], store[h]}
  <2>1. CASE UNCHANGED <<disk, torn>>
    BY <2>1
  <2>2. CASE Writing(g) /\ LeftOnDisk(g)
    BY <1>1, <2>2, LeftOnDiskType
  <2>3. QED BY <2>1, <2>2 DEF Stops
<1>7. HandlerMoves(g)
  BY <1>2, <1>4, <1>5, <1>6 DEF HandlerMoves
<1>8. StoreInv'
  <2>1. available' => disk' = store'
    BY <1>4 DEF Stops, IInv, StoreInv
  <2>2. QED BY <1>2, <1>3, <1>4, <2>1, StoreKept DEF Writing
<1>9. HandlerInv(g)'
  BY <1>2, <1>3, <1>4 DEF IInv, GroupInv, HandlerInv, At, NoTask
<1>10. /\ Near(g, store[g].members) /\ Near(g, disk'[g].members)
       /\ ReadyRecord(g, store[g]) /\ ReadyRecord(g, disk'[g])
       /\ store[g].version <= disk'[g].version /\ disk'[g].version <= cloud[g].version
       /\ Settled(g) => disk'[g].members \subseteq cloud[g].desired
  <2>1. CASE disk'[g] = disk[g]
    BY <2>1 DEF IInv, GroupInv, RadioInv, RecordInv, Settled
  <2>2. CASE Writing(g) /\ disk'[g] = Draft(g)
    BY <2>2, DraftInv DEF IInv, GroupInv, RadioInv, RecordInv
  <2>3. QED BY <1>6, <2>1, <2>2
<1>11. RadioInv(g)'
  BY <1>3, <1>4, <1>5, <1>10 DEF RadioInv, Near
<1>12. RecordInv(g)'
  BY <1>4, <1>10 DEF RecordInv, ReadyRecord
<1>13. SettledInv(g)'
  <2>1. Settled(g) => Settled(g)'
    BY <1>3, <1>4, <1>5, <1>10 DEF Settled, Reaches
  <2>2. QED BY <1>3, <1>4, <2>1 DEF IInv, GroupInv, SettledInv, At
<1>14. QED BY <1>1, <1>7, <1>8, <1>9, <1>11, <1>12, <1>13, HandlerMovesKeep DEF GroupInv

\* A write that ends makes its record the store's and the file's.
LEMMA EndsStep ==
    ASSUME IInv, NEW g \in Groups, Ends(g)
    PROVE  IInv'
<1> DEFINE t == task[g]
<1>1. TypeOK' /\ CountInv' /\ TypeOK /\ Writing(g)
  BY EndsType DEF IInv, Ends, Writing, At
<1>2. /\ store'[g] = Draft(g) /\ \A h \in Groups \ {g} : store'[h] = store[h]
      /\ disk' = store' /\ available' = TRUE
  BY <1>1, WrittenType DEF Ends
<1>3. /\ \A h \in Groups \ {g} : task'[h] = task[h]
      /\ \/ /\ t.pc = "configuring" /\ task'[g].pc = "operate"
            /\ task'[g].sync = t.sync /\ task'[g].base = t.base
         \/ /\ t.pc = "recording" /\ task'[g].pc = "report"
            /\ task'[g].sync = t.sync /\ task'[g].done = t.done
         \/ t.pc = "failing" /\ task'[g] = NoTask
  BY <1>1, NextPcType, StopType DEF Ends, At
<1>4. /\ UNCHANGED <<cloud, syncs, results, subs, doubt, unread, losses>> /\ HandlerUnchanged
  BY DEF Ends, HandlerUnchanged, apiVars, resyncVars, radioVars
<1>5. HandlerMoves(g)
  BY <1>2, <1>3, <1>4 DEF HandlerMoves
<1>6. StoreInv'
  <2>1. ~Writing(g)'
    BY <1>3 DEF Writing, NoTask
  <2>2. QED BY <1>1, <1>2, <1>3, <2>1, StoreKept
<1>7. /\ Draft(g).version = t.sync.version
      /\ store[g].version <= Draft(g).version /\ Draft(g).version <= cloud[g].version
      /\ Near(g, Draft(g).members) /\ ReadyRecord(g, Draft(g))
      /\ Settled(g) => Draft(g).members \subseteq cloud[g].desired
      /\ Draft(g).version \in Nat /\ store[g].version \in Nat /\ cloud[g].version \in Nat
  BY <1>1, DraftInv, VersionNat, SyncNat DEF Writing, At
<1>8. /\ HandlerInv(g) /\ RadioInv(g) /\ SettledInv(g)
      /\ t.sync \in syncs /\ t.sync.group = g
      /\ t.sync.version = cloud[g].version => t.sync.desired = cloud[g].desired
  BY <1>1, SyncNat DEF IInv, GroupInv, Writing, At
<1>9. HandlerInv(g)'
  <2>1. t.pc = "configuring" => Draft(g).status = "configuring"
    BY DEF Draft
  <2>2. QED BY <1>2, <1>3, <1>4, <1>7, <1>8, <2>1 DEF HandlerInv, At, NoTask
<1>10. InFlight(g)' = {}
  BY <1>3 DEF InFlight, NoTask
<1>11. CASE t.pc \in {"configuring", "failing"}
  <2>1. InFlight(g) = {}
    BY <1>11 DEF InFlight
  <2>2. RadioInv(g)'
    BY <1>2, <1>3, <1>4, <1>7, <1>8, <1>10, <1>11, <2>1 DEF RadioInv, Near, Reaches, NoTask
  <2>3. SettledInv(g)'
    <3>1. Settled(g) => Settled(g)'
      BY <1>2, <1>3, <1>4, <1>7, <1>11 DEF Settled, Reaches, NoTask
    <3>2. QED BY <1>3, <1>4, <1>8, <1>11, <3>1 DEF SettledInv, At, NoTask
  <2>4. RecordInv(g)'
    BY <1>2, <1>4, <1>7 DEF RecordInv, ReadyRecord
  <2>5. QED BY <1>1, <1>5, <1>6, <1>9, <2>2, <2>3, <2>4, HandlerMovesKeep DEF GroupInv
<1>12. CASE t.pc = "recording"
  <2>1. Draft(g).members = NextMembers(t) /\ Reaches(g, NextMembers(t)) /\ PlanFits(t.sync, t.base)
    BY <1>8, <1>12 DEF Draft, RadioInv, HandlerInv
  <2>2. RadioInv(g)'
    BY <1>2, <1>3, <1>4, <1>10, <1>12, <2>1 DEF RadioInv, Near, Reaches
  <2>3. SettledInv(g)'
    <3>1. Settled(g) => Settled(g)'
      BY <1>2, <1>3, <1>4, <1>7, <1>12 DEF Settled, Reaches
    <3>2. Complete(t) /\ t.sync.version = cloud[g].version => Settled(g)'
      <4>1. Complete(t) => NextMembers(t) = t.sync.desired
        BY <2>1, CompleteIsDesired
      <4>2. QED BY <1>2, <1>3, <1>4, <1>7, <1>8, <1>12, <2>1, <4>1 DEF Settled, Reaches
    <3>3. Complete(task[g])' <=> Complete(t)
      BY <1>3, <1>12 DEF Complete
    <3>4. QED BY <1>3, <1>4, <1>8, <1>12, <3>1, <3>2, <3>3 DEF SettledInv, At
  <2>4. RecordInv(g)'
    BY <1>2, <1>4, <1>7 DEF RecordInv, ReadyRecord
  <2>5. QED BY <1>1, <1>5, <1>6, <1>9, <2>2, <2>3, <2>4, HandlerMovesKeep DEF GroupInv
<1>13. QED BY <1>1, <1>11, <1>12 DEF Writing

\* What the radio operations do to a node.
LEMMA RadioEffect ==
    ASSUME TypeOK, NEW g \in Groups, NEW lost \in SUBSET Nodes, NEW took \in SUBSET lost,
           SyncGroupSubscriptions(g, lost, took)
    PROVE  LET m == task[g].sync
               air == OnAir(m, task[g].base)
           IN /\ \A n \in air \ lost : /\ n \in subs'[g] <=> n \in m.adds
                                       /\ n \in m.adds \/ n \in m.deletes
                                       /\ n \notin m.adds \/ n \notin m.deletes
              /\ \A n \in lost : n \in doubt'[g]
              /\ \A n : n \notin air => /\ n \in subs'[g] <=> n \in subs[g]
                                        /\ n \in doubt'[g] <=> n \in doubt[g]
                                        /\ n \in unread'[g] <=> n \in unread[g]
<1> DEFINE m == task[g].sync
           air == OnAir(m, task[g].base)
           effective == (air \ lost) \cup took
<1>1. /\ subs'[g] = (subs[g] \cup (m.adds \cap effective)) \ (m.deletes \cap effective)
      /\ doubt'[g] = (doubt[g] \ air) \cup lost
      /\ unread'[g] = unread[g] \ air
      /\ lost \subseteq air /\ took \subseteq lost
  BY DEF SyncGroupSubscriptions, TypeOK
<1>2. air \subseteq m.adds \cup m.deletes /\ m.adds \cap m.deletes = {}
  BY DEF SyncGroupSubscriptions, PlanFits, OnAir
<1>3. QED BY <1>1, <1>2

LEMMA SyncGroupSubscriptionsStep ==
    ASSUME IInv, NEW g \in Groups, NEW lost \in SUBSET Nodes, NEW took \in SUBSET lost,
           SyncGroupSubscriptions(g, lost, took)
    PROVE  IInv'
<1> DEFINE m == task[g].sync
           base == task[g].base
           air == OnAir(m, base)
<1>1. TypeOK' /\ CountInv' /\ TypeOK
  BY SyncGroupSubscriptionsType DEF IInv
<1>2. /\ At(g, "operate") /\ HandlerUnchanged /\ PlanFits(m, base)
      /\ UNCHANGED <<cloud, syncs, results, store, disk, available, losses>>
      /\ task'[g] = [pc |-> "record", sync |-> m, base |-> base, done |-> (m.adds \cup m.deletes) \ lost]
      /\ \A h \in Groups \ {g} : /\ task'[h] = task[h] /\ subs'[h] = subs[h]
                                 /\ doubt'[h] = doubt[h] /\ unread'[h] = unread[h]
  BY <1>1 DEF SyncGroupSubscriptions, HandlerUnchanged, apiVars, resyncVars, storeVars, TypeOK
<1>3. /\ \A n \in air \ lost : /\ n \in subs'[g] <=> n \in m.adds
                               /\ n \in m.adds \/ n \in m.deletes
                               /\ n \notin m.adds \/ n \notin m.deletes
      /\ \A n \in lost : n \in doubt'[g]
      /\ \A n : n \notin air => /\ n \in subs'[g] <=> n \in subs[g]
                                /\ n \in doubt'[g] <=> n \in doubt[g]
                                /\ n \in unread'[g] <=> n \in unread[g]
  BY <1>1, RadioEffect
<1>4. HandlerMoves(g)
  BY <1>2 DEF HandlerMoves
<1>5. StoreInv'
  <2>1. available' => disk' = store'
    BY <1>2 DEF IInv, StoreInv
  <2>2. ~Writing(g)'
    BY <1>2 DEF Writing
  <2>3. QED BY <1>2, <2>1, <2>2, StoreKept
<1>6. /\ m \in syncs /\ m.group = g /\ store[g].version = m.version /\ store[g].status # "ready"
      /\ Near(g, store[g].members) /\ Near(g, disk[g].members) /\ InFlight(g) = {}
      /\ Reaches(g, base)
  BY <1>2 DEF IInv, GroupInv, HandlerInv, RadioInv, InFlight, At
<1>7. HandlerInv(g)'
  BY <1>2, <1>6 DEF HandlerInv, At
<1>8. InFlight(g)' = ((m.adds \cup m.deletes) \ lost) \cap air
  BY <1>2 DEF InFlight
<1>9. ASSUME NEW M, Near(g, M) PROVE Near(g, M)'
  <2>1. \A n \in air : n \in doubt'[g] \/ n \in InFlight(g)'
    BY <1>3, <1>8
  <2>2. QED BY <1>3, <1>6, <1>9, <2>1 DEF Near
<1>10. Reaches(g, NextMembers(task[g]))'
  <2>1. NextMembers(task[g])' =
            (base \cup (m.adds \cap ((m.adds \cup m.deletes) \ lost))) \ (m.deletes \cap ((m.adds \cup m.deletes) \ lost))
    BY <1>2 DEF NextMembers
  <2>2. \A n \in air \ lost : n \in subs'[g] <=> n \in NextMembers(task[g])'
    BY <1>2, <1>3, <2>1 DEF PlanFits
  <2>3. ASSUME NEW n, n \notin air PROVE n \in NextMembers(task[g])' <=> n \in base
    <3>1. (n \in m.adds => n \in base \/ n \in lost) /\ (n \in m.deletes => n \notin base)
      BY <2>3 DEF OnAir
    <3>2. n \notin lost
      BY <2>3 DEF SyncGroupSubscriptions
    <3>3. QED BY <2>1, <3>1, <3>2
  <2>4. \A n : n \notin air => (n \in NextMembers(task[g])' <=> n \in base)
    BY <2>3
  <2> HIDE DEF air
  <2>5. QED BY <1>3, <1>6, <2>2, <2>4 DEF Reaches
<1>11. RadioInv(g)'
  BY <1>2, <1>6, <1>9, <1>10 DEF RadioInv, Near
<1>12. RecordInv(g)'
  BY <1>2 DEF IInv, GroupInv, RecordInv, ReadyRecord
<1>13. SettledInv(g)'
  <2>1. ASSUME Settled(g) PROVE Settled(g)'
    <3>1. m.desired = cloud[g].desired
      BY <1>6, <2>1 DEF IInv, VersionInv, Settled
    <3>2. \A n \in air \ lost : n \in subs'[g] <=> n \in cloud[g].desired
      BY <1>2, <1>3, <3>1 DEF PlanFits
    <3>3. Reaches(g, cloud[g].desired)'
      BY <1>2, <1>3, <2>1, <3>2 DEF Reaches, Settled
    <3>4. QED BY <1>2, <2>1, <3>3 DEF Settled, At
  <2>2. QED BY <1>2, <2>1 DEF IInv, GroupInv, SettledInv, At
<1>14. QED BY <1>1, <1>4, <1>5, <1>7, <1>11, <1>12, <1>13, HandlerMovesKeep DEF GroupInv

LEMMA PublishResultStep ==
    ASSUME IInv, NEW g \in Groups, PublishResult(g)
    PROVE  IInv'
<1>1. TypeOK' /\ CountInv' /\ TypeOK
  BY PublishResultType DEF IInv
<1>2. /\ At(g, "report") /\ HandlerUnchanged
      /\ UNCHANGED <<cloud, syncs, store, disk, available, subs, doubt, unread, losses>>
      /\ task'[g] = NoTask /\ \A h \in Groups \ {g} : task'[h] = task[h]
      /\ results' \in {results, results \cup {ResultOf(g, task[g])}}
  BY <1>1 DEF PublishResult, Finish, HandlerUnchanged, apiVars, resyncVars, storeVars, radioVars, TypeOK
<1>3. HandlerMoves(g)
  BY <1>2 DEF HandlerMoves
<1>4. StoreInv'
  <2>1. available' => disk' = store'
    BY <1>2 DEF IInv, StoreInv
  <2>2. ~Writing(g)'
    BY <1>2 DEF Writing, NoTask
  <2>3. QED BY <1>2, <2>1, <2>2, StoreKept
<1>5. HandlerInv(g)'
  BY <1>2 DEF HandlerInv, At, NoTask
<1>6. RadioInv(g)'
  BY <1>2 DEF IInv, GroupInv, RadioInv, Near, At, InFlight, NoTask
<1>7. RecordInv(g)'
  BY <1>2 DEF IInv, GroupInv, RecordInv, ReadyRecord
<1>8. SettledInv(g)'
  <2>1. Settled(g) => Settled(g)'
    BY <1>2 DEF Settled, Reaches, NoTask
  <2>2. QED BY <1>2, <2>1 DEF IInv, GroupInv, SettledInv, At, NoTask, ResultOf
<1>9. QED BY <1>1, <1>3, <1>4, <1>5, <1>6, <1>7, <1>8, HandlerMovesKeep DEF GroupInv

(***************************************************************************)
(* The cloud                                                               *)
(***************************************************************************)
\* The gateway and the radio as they were.
GatewayUnchanged ==
    UNCHANGED <<syncs, results, store, disk, available, task, subs, doubt, unread, losses>>

\* A group of the cloud as it was, or at work on a new version.
RowMoves(g) == \/ cloud'[g] = cloud[g]
               \/ cloud'[g].version > cloud[g].version /\ cloud'[g].status \in {"configuring", "retiring"}

\* What the gateway has of a group does not depend on the row but for its version.
LEMMA GatewayKeeps ==
    ASSUME IInv, GatewayUnchanged, NEW g \in Groups,
           cloud'[g].version \in Nat, cloud'[g].version >= cloud[g].version
    PROVE  HandlerInv(g)' /\ RadioInv(g)' /\ RecordInv(g)'
<1>1. HandlerInv(g)'
  BY DEF GatewayUnchanged, IInv, GroupInv, HandlerInv, At
<1>2. RadioInv(g)'
  BY DEF GatewayUnchanged, IInv, GroupInv, RadioInv, Near, Reaches, InFlight
<1>3. RecordInv(g)'
  <2>1. cloud[g].version \in Nat /\ disk[g].version \in Nat
    BY VersionNat DEF IInv
  <2>2. QED BY <2>1 DEF GatewayUnchanged, IInv, GroupInv, RecordInv, ReadyRecord
<1>4. QED BY <1>1, <1>2, <1>3

LEMMA RowMovesKeep ==
    ASSUME IInv, TypeOK', CountInv', GatewayUnchanged, \A g \in Groups : RowMoves(g)
    PROVE  IInv'
<1>1. /\ \A g \in Groups : cloud[g].version \in Nat /\ cloud'[g].version \in Nat
      /\ \A m \in syncs : m.group \in Groups /\ m.version \in Nat
      /\ \A r \in results : r.group \in Groups /\ r.version \in Nat
  BY BoundAssumption DEF IInv, TypeOK, Rows, Syncs, Results, Versions
<1>2. VersionInv'
  <2>1. \A m \in syncs : /\ m.version <= cloud'[m.group].version
                         /\ m.version = cloud'[m.group].version => m.desired = cloud'[m.group].desired
    BY <1>1 DEF RowMoves, IInv, VersionInv
  <2>2. \A r \in results : r.version <= cloud'[r.group].version
    BY <1>1 DEF RowMoves, IInv, VersionInv
  <2>3. QED BY <2>1, <2>2 DEF GatewayUnchanged, IInv, VersionInv
<1>3. StoreInv'
  BY DEF GatewayUnchanged, IInv, StoreInv, Writing
<1>4. ASSUME NEW g \in Groups PROVE GroupInv(g)'
  <2>1. HandlerInv(g)' /\ RadioInv(g)' /\ RecordInv(g)'
    BY <1>1, GatewayKeeps DEF RowMoves
  <2>2. CASE cloud'[g] = cloud[g]
    <3>1. Settled(g) => Settled(g)'
      BY <2>2 DEF GatewayUnchanged, Settled, Reaches
    <3>2. SettledInv(g)'
      BY <2>2, <3>1 DEF GatewayUnchanged, IInv, GroupInv, SettledInv, At
    <3>3. QED BY <2>1, <3>2 DEF GroupInv
  <2>3. CASE cloud'[g].version > cloud[g].version /\ cloud'[g].status \in {"configuring", "retiring"}
    <3>1. \A r \in results : r.group = g => r.version # cloud'[g].version
      BY <1>1, <2>3 DEF IInv, VersionInv
    <3>2. ~At(g, "idle") => task[g].sync.version # cloud'[g].version
      BY <1>1, <2>3 DEF IInv, VersionInv, GroupInv, HandlerInv
    <3>3. SettledInv(g)'
      BY <2>3, <3>1, <3>2 DEF GatewayUnchanged, SettledInv, At
    <3>4. QED BY <2>1, <3>3 DEF GroupInv
  <2>4. QED BY <2>2, <2>3 DEF RowMoves
<1>5. QED BY <1>2, <1>3, <1>4 DEF IInv

LEMMA RenewedMoves ==
    ASSUME NEW row \in Rows, NEW status, NEW D
    PROVE  Renewed(row, status, D).version > row.version /\ Renewed(row, status, D).status = status
<1>1. row.version \in Nat
  BY BoundAssumption DEF Rows, Versions
<1>2. QED BY <1>1 DEF Renewed, Rows

LEMMA RenewStep ==
    ASSUME IInv, NEW g \in Groups, NEW status \in {"configuring", "retiring"}, NEW D, Renew(g, status, D)
    PROVE  GatewayUnchanged /\ \A h \in Groups : RowMoves(h)
<1>1. cloud[g] \in Rows /\ cloud' = [cloud EXCEPT ![g] = Renewed(cloud[g], status, D)]
  BY DEF IInv, TypeOK, Renew
<1>2. cloud'[g].version > cloud[g].version /\ cloud'[g].status = status
  BY <1>1, RenewedMoves DEF IInv, TypeOK
<1>3. \A h \in Groups \ {g} : cloud'[h] = cloud[h]
  BY <1>1 DEF IInv, TypeOK
<1>4. GatewayUnchanged
  BY DEF Renew, GatewayUnchanged, storeVars, radioVars, resyncVars
<1>5. QED BY <1>2, <1>3, <1>4 DEF RowMoves

\* Every request of a user renews its group.
LEMMA UserRenews ==
    ASSUME NEW g \in Groups, UserStep(g)
    PROVE  \E status \in {"configuring", "retiring"} : \E D : Renew(g, status, D)
  BY DEF UserStep, Create, Update, MoveAway, Remove, UserResync, AttachMember

LEMMA UserStepKeeps ==
    ASSUME IInv, NEW g \in Groups, UserStep(g)
    PROVE  IInv'
  BY UserRenews, RenewStep, UserType, RowMovesKeep DEF IInv

LEMMA ResetRenews ==
    ASSUME NEW g \in Groups, cloud[g] \in Rows, cloud[g].status \notin {"none", "retired"},
           NEW e, ResetGatewayGroups(e)
    PROVE  cloud'[g].version > cloud[g].version /\ cloud'[g].status \in {"configuring", "retiring"}
<1> DEFINE status == IF cloud[g].status = "retiring" THEN "retiring" ELSE "configuring"
           renewed == Renewed(cloud[g], status, cloud[g].desired)
<1>1. cloud'[g] = [renewed EXCEPT !.full = TRUE]
  BY DEF ResetGatewayGroups, ResyncedRow
<1>2. cloud'[g].version = renewed.version /\ cloud'[g].status = renewed.status
  BY <1>1 DEF Renewed, Rows
<1>3. QED BY <1>2, RenewedMoves

LEMMA ResetGatewayGroupsStep ==
    ASSUME IInv, NEW e \in Events, ResetGatewayGroups(e)
    PROVE  IInv'
<1>1. TypeOK' /\ CountInv'
  BY ResetGatewayGroupsType DEF IInv
<1>2. GatewayUnchanged
  BY DEF ResetGatewayGroups, GatewayUnchanged, storeVars, radioVars, resyncVars
<1>3. ASSUME NEW g \in Groups PROVE RowMoves(g)
  <2>1. CASE cloud[g].status \in {"none", "retired"}
    BY <2>1 DEF ResetGatewayGroups, RowMoves
  <2>2. CASE cloud[g].status \notin {"none", "retired"}
    BY <2>2, ResetRenews DEF RowMoves, IInv, TypeOK
  <2>3. QED BY <2>1, <2>2
<1>4. QED BY <1>1, <1>2, <1>3, RowMovesKeep

LEMMA PublishSyncStep ==
    ASSUME IInv, NEW g \in Groups, PublishSync(g)
    PROVE  IInv'
<1> DEFINE m == SyncOf(g, Planned(cloud[g]))
<1>1. TypeOK' /\ CountInv' /\ TypeOK
  BY PublishSyncType DEF IInv
<1>2. /\ cloud[g] \in Rows /\ cloud'[g] = Planned(cloud[g])
      /\ \A h \in Groups \ {g} : cloud'[h] = cloud[h]
      /\ syncs' = syncs \cup {m} /\ Working(g)
      /\ UNCHANGED <<results, store, disk, available, task, subs, doubt, unread, losses>>
  BY <1>1 DEF PublishSync, TypeOK, storeVars, radioVars, resyncVars
<1>3. /\ cloud'[g].version = cloud[g].version /\ cloud'[g].desired = cloud[g].desired
      /\ cloud'[g].status = cloud[g].status
      /\ m.group = g /\ m.version = cloud[g].version /\ m.desired = cloud[g].desired
  BY <1>2 DEF Planned, SyncOf, Rows
<1>4. \A h \in Groups : cloud'[h].version = cloud[h].version /\ cloud'[h].desired = cloud[h].desired
                        /\ cloud'[h].status = cloud[h].status
  BY <1>2, <1>3
<1>5. cloud[g].version \in Nat
  BY <1>2, BoundAssumption DEF Rows, Versions
<1>6. VersionInv'
  <2>1. /\ \A s \in syncs : s.group \in Groups
        /\ \A r \in results : r.group \in Groups
    BY <1>1 DEF TypeOK, Syncs, Results
  <2>2. \A s \in syncs' : /\ s.version <= cloud'[s.group].version
                          /\ s.version = cloud'[s.group].version => s.desired = cloud'[s.group].desired
    BY <1>2, <1>3, <1>4, <1>5, <2>1 DEF IInv, VersionInv
  <2>3. \A s1, s2 \in syncs' :
            s1.group = s2.group /\ s1.version = s2.version => s1.desired = s2.desired
    BY <1>2, <1>3 DEF IInv, VersionInv
  <2>4. \A r \in results' : r.version <= cloud'[r.group].version
    BY <1>2, <1>4, <2>1 DEF IInv, VersionInv
  <2>5. QED BY <2>2, <2>3, <2>4 DEF VersionInv
<1>7. StoreInv'
  BY <1>2 DEF IInv, StoreInv, Writing
<1>8. ASSUME NEW h \in Groups PROVE GroupInv(h)'
  <2>1. HandlerInv(h)'
    BY <1>2 DEF IInv, GroupInv, HandlerInv, At
  <2>2. RadioInv(h)'
    BY <1>2 DEF IInv, GroupInv, RadioInv, Near, Reaches, InFlight
  <2>3. RecordInv(h)'
    BY <1>2, <1>4 DEF IInv, GroupInv, RecordInv, ReadyRecord
  <2>4. Settled(h) => Settled(h)'
    BY <1>2, <1>4 DEF Settled, Reaches
  <2>5. SettledInv(h)'
    BY <1>2, <1>4, <2>4 DEF IInv, GroupInv, SettledInv, At
  <2>6. QED BY <2>1, <2>2, <2>3, <2>5 DEF GroupInv
<1>9. QED BY <1>1, <1>6, <1>7, <1>8 DEF IInv

LEMMA StoreResultStep ==
    ASSUME IInv, NEW r \in results, StoreResult(r)
    PROVE  IInv'
<1> DEFINE g == r.group
<1>1. TypeOK' /\ CountInv' /\ TypeOK /\ g \in Groups
  BY StoreResultType DEF IInv, TypeOK, Results
<1>2. /\ \A h \in Groups \ {g} : cloud'[h] = cloud[h]
      /\ cloud'[g].version = cloud[g].version /\ cloud'[g].desired = cloud[g].desired
      /\ cloud'[g].status = NextStatus(cloud[g], r, g \in Floors)
      /\ r.version = cloud[g].version
      /\ GatewayUnchanged
  <2>1. cloud[g] \in Rows
    BY <1>1 DEF TypeOK
  <2>2. QED BY <1>1, <2>1 DEF StoreResult, Current, TypeOK, Rows, GatewayUnchanged, storeVars, radioVars, resyncVars
<1>3. \A h \in Groups : cloud'[h].version = cloud[h].version /\ cloud'[h].desired = cloud[h].desired
  BY <1>2
<1>4. VersionInv'
  <2>1. /\ \A s \in syncs : s.group \in Groups
        /\ \A q \in results : q.group \in Groups
    BY <1>1 DEF TypeOK, Syncs, Results
  <2>2. QED BY <1>2, <1>3, <2>1 DEF IInv, VersionInv, GatewayUnchanged
<1>5. StoreInv'
  BY <1>2 DEF GatewayUnchanged, IInv, StoreInv, Writing
<1>6. ASSUME NEW h \in Groups PROVE GroupInv(h)'
  <2>1. HandlerInv(h)' /\ RadioInv(h)' /\ RecordInv(h)'
    <3>1. cloud[h].version \in Nat
      BY <1>1, VersionNat
    <3>2. QED BY <1>2, <1>3, <3>1, GatewayKeeps
  <2>2. Settled(h) => Settled(h)'
    BY <1>2, <1>3 DEF GatewayUnchanged, Settled, Reaches
  <2>3. losses = 0 /\ cloud'[h].status \in {"ready", "retired"} => Settled(h)
    <3>1. CASE h # g
      BY <1>2, <3>1 DEF IInv, GroupInv, SettledInv
    <3>2. CASE h = g
      <4>1. cloud'[g].status \in {"ready", "retired"} => r.complete
        BY <1>2 DEF NextStatus
      <4>2. QED BY <1>1, <1>2, <3>2, <4>1 DEF IInv, GroupInv, SettledInv
    <3>3. QED BY <3>1, <3>2
  <2>4. SettledInv(h)'
    BY <1>2, <1>3, <2>2, <2>3 DEF GatewayUnchanged, IInv, GroupInv, SettledInv, At
  <2>5. QED BY <2>1, <2>4 DEF GroupInv
<1>7. QED BY <1>1, <1>4, <1>5, <1>6 DEF IInv

(***************************************************************************)
(* Restart and resync                                                      *)
(***************************************************************************)
\* After a restart no handler is at work, and what was in flight is in doubt.
LEMMA RestartStep ==
    ASSUME IInv, Restart
    PROVE  IInv'
<1>1. TypeOK' /\ CountInv' /\ TypeOK
  BY RestartType DEF IInv
<1>2. /\ UNCHANGED <<cloud, syncs, results, subs, unread, losses>> /\ disk' = store'
      /\ \A g \in Groups : task'[g] = NoTask /\ doubt'[g] = doubt[g] \cup InFlight(g)
  BY <1>1, RestartFinds DEF Restart, HandlersEnd, apiVars
<1>3. VersionInv'
  BY <1>2 DEF IInv, VersionInv
<1>4. StoreInv'
  BY <1>2 DEF StoreInv, Writing, NoTask
<1>5. ASSUME NEW g \in Groups PROVE GroupInv(g)'
  <2>1. HandlerInv(g)'
    BY <1>2 DEF HandlerInv, At, NoTask
  <2>2. /\ Near(g, store'[g].members) /\ ReadyRecord(g, store'[g])
        /\ store[g].version <= store'[g].version /\ store'[g].version <= cloud[g].version
        /\ Settled(g) => store'[g].members \subseteq cloud[g].desired
    <3>1. /\ cloud[g].version \in Nat /\ store[g].version \in Nat /\ disk[g].version \in Nat
          /\ RadioInv(g) /\ RecordInv(g)
      BY VersionNat DEF IInv, GroupInv
    <3>2. CASE store'[g] \in {disk[g], store[g]}
      BY <3>1, <3>2 DEF RadioInv, RecordInv, Settled
    <3>3. CASE Writing(g) /\ store'[g] = Draft(g)
      BY <3>3, DraftInv
    <3>4. QED BY <1>1, <3>2, <3>3, RestartFinds
  <2>3. RadioInv(g)'
    BY <1>2, <2>2 DEF RadioInv, Near, NoTask
  <2>4. RecordInv(g)'
    <3>1. store'[g].version \in Nat
      BY <1>1, BoundAssumption DEF TypeOK, Records, Versions
    <3>2. QED BY <1>2, <2>2, <3>1 DEF RecordInv, ReadyRecord
  <2>5. Settled(g) => Settled(g)'
    <3>1. /\ cloud[g].version \in Nat /\ store[g].version \in Nat
          /\ store'[g].version \in Nat
      BY <1>1, VersionNat, BoundAssumption DEF TypeOK, Records, Versions
    <3>2. QED BY <1>2, <2>2, <3>1 DEF Settled, Reaches, NoTask
  <2>6. SettledInv(g)'
    BY <1>2, <2>5 DEF IInv, GroupInv, SettledInv, At, NoTask
  <2>7. QED BY <2>1, <2>3, <2>4, <2>6 DEF GroupInv
<1>6. QED BY <1>1, <1>3, <1>4, <1>5 DEF IInv

LEMMA RestartWithoutStateStep ==
    ASSUME IInv, RestartWithoutState
    PROVE  IInv'
<1>1. TypeOK' /\ CountInv' /\ TypeOK
  BY RestartWithoutStateType DEF IInv
<1>2. /\ UNCHANGED <<cloud, syncs, results, subs, unread>> /\ disk' = store'
      /\ losses' # 0
      /\ \A g \in Groups : /\ task'[g] = NoTask /\ store'[g] = NoRecord
                           /\ doubt'[g] = doubt[g] \cup InFlight(g) \cup store[g].members
  BY <1>1, BoundAssumption DEF RestartWithoutState, HandlersEnd, TypeOK, apiVars
<1>3. VersionInv'
  BY <1>2 DEF IInv, VersionInv
<1>4. StoreInv'
  BY <1>2 DEF StoreInv, Writing, NoTask
<1>5. ASSUME NEW g \in Groups PROVE GroupInv(g)'
  <2>1. HandlerInv(g)'
    BY <1>2 DEF HandlerInv, At, NoTask
  <2>2. RadioInv(g)'
    <3>1. Near(g, store[g].members)
      BY DEF IInv, GroupInv, RadioInv
    <3>2. Near(g, {})'
      BY <1>2, <3>1 DEF Near
    <3>3. QED BY <1>2, <3>2 DEF RadioInv, Near, NoRecord, NoTask
  <2>3. RecordInv(g)'
    <3>1. cloud[g].version \in Nat
      BY VersionNat DEF IInv
    <3>2. QED BY <1>2, <3>1 DEF RecordInv, ReadyRecord, NoRecord
  <2>4. SettledInv(g)'
    BY <1>2 DEF SettledInv
  <2>5. QED BY <2>1, <2>2, <2>3, <2>4 DEF GroupInv
<1>6. QED BY <1>1, <1>3, <1>4, <1>5 DEF IInv

\* A step that the invariant does not see but in the types.
LEMMA QuietStep ==
    ASSUME IInv, TypeOK', CountInv', GatewayUnchanged, cloud' = cloud
    PROVE  IInv'
  BY RowMovesKeep DEF RowMoves

LEMMA ResyncStepKeeps ==
    ASSUME IInv, ResyncStep
    PROVE  IInv'
<1>1. CASE \E e \in Events : ResetGatewayGroups(e)
  BY <1>1, ResetGatewayGroupsStep
<1>2. CASE PersistRequest \/ RequestResync \/ \E e \in Events : AckResync(e) \/ ReceiveAck(e)
  <2>1. TypeOK' /\ CountInv'
    BY ResyncStepType DEF IInv
  <2>2. GatewayUnchanged /\ cloud' = cloud
    BY <1>2 DEF PersistRequest, RequestResync, AckResync, ReceiveAck, GatewayUnchanged, apiVars,
                storeVars, radioVars
  <2>3. QED BY <2>1, <2>2, QuietStep
<1>3. QED BY <1>1, <1>2 DEF ResyncStep

(***************************************************************************)
(* The invariant, and what follows                                         *)
(***************************************************************************)
LEMMA InitInv == Init => IInv
<1> SUFFICES ASSUME Init PROVE IInv
  OBVIOUS
<1>1. 0 \in Versions /\ 0 \in Events /\ 0 \in 0..MaxFaults /\ 0 \in 0..MaxEvents
  BY BoundAssumption DEF Versions, Events
<1>2. NoRow \in Rows /\ NoRow.version = 0 /\ NoRow.status = "none"
  BY <1>1 DEF NoRow, Rows
<1>3. TypeOK
  BY <1>1, <1>2, RecordType DEF Init, TypeOK, Tasks
<1>4. CountInv
  <2>1. Cardinality(processed) = 0
    BY FS_EmptySet DEF Init
  <2>2. QED BY <1>2, <2>1, BoundAssumption DEF Init, CountInv
<1>5. VersionInv /\ StoreInv
  BY DEF Init, VersionInv, StoreInv, Writing, NoTask
<1>6. ASSUME NEW g \in Groups PROVE GroupInv(g)
  <2>1. cloud[g] = NoRow /\ store[g] = NoRecord /\ disk[g] = NoRecord /\ task[g] = NoTask
        /\ subs[g] = {} /\ syncs = {} /\ results = {}
    BY DEF Init
  <2>2. HandlerInv(g)
    BY <2>1 DEF HandlerInv, At, NoTask
  <2>3. RadioInv(g)
    BY <2>1 DEF RadioInv, Near, NoTask, NoRecord
  <2>4. RecordInv(g) /\ SettledInv(g)
    BY <1>2, <2>1 DEF RecordInv, ReadyRecord, SettledInv, At, NoTask, NoRecord
  <2>5. QED BY <2>2, <2>3, <2>4 DEF GroupInv
<1>7. QED BY <1>3, <1>4, <1>5, <1>6 DEF IInv

LEMMA NextInv == IInv /\ [Next]_vars => IInv'
<1> SUFFICES ASSUME IInv, [Next]_vars PROVE IInv'
  OBVIOUS
<1>1. CASE UNCHANGED vars
  <2>1. TypeOK' /\ CountInv'
    BY TypeStep DEF IInv
  <2>2. GatewayUnchanged /\ cloud' = cloud
    BY <1>1 DEF vars, apiVars, storeVars, radioVars, resyncVars, GatewayUnchanged
  <2>3. QED BY <2>1, <2>2, QuietStep
<1>2. CASE \E g \in Groups : UserStep(g) \/ PublishSync(g)
  BY <1>2, UserStepKeeps, PublishSyncStep
<1>3. CASE \E g \in Groups : HandlerStep(g)
  BY <1>3, HandlerForms, BeginsStep, StopsStep, EndsStep, SyncGroupSubscriptionsStep, PublishResultStep
<1>4. CASE (\E m \in syncs : Receive(m)) \/ (\E r \in results : StoreResult(r))
  BY <1>4, ReceiveStep, StoreResultStep
<1>5. CASE Restart \/ RestartWithoutState
  BY <1>5, RestartStep, RestartWithoutStateStep
<1>6. CASE ResyncStep
  BY <1>6, ResyncStepKeeps
<1>7. QED BY <1>1, <1>2, <1>3, <1>4, <1>5, <1>6 DEF Next

\* The strengthened invariant holds in every reachable state.
THEOREM Invariance == Spec => []IInv
BY InitInv, NextInv, PTL DEF Spec

\* Every variable keeps its type. In particular the versions of a group stay within
\* the requests and the lost stores: a resync request that comes again renews nothing.
THEOREM TypeCorrect == Spec => []TypeOK
<1>1. IInv => TypeOK
  BY DEF IInv
<1>2. QED BY <1>1, Invariance, PTL

\* A group the gateway lets commands through to reaches exactly the members of the
\* version, whatever plans, restarts, store failures and radio failures came before, but
\* for nodes whose last operation is on no record and for nodes that a handler did not
\* take for members while the store could not be read.
THEOREM ReadyGroupsAreExact == Spec => []ReadyIsExact
<1>1. IInv => ReadyIsExact
  <2> SUFFICES ASSUME IInv, NEW m \in syncs, store[m.group].status = "ready",
                      store[m.group].version = m.version
               PROVE  Reaches(m.group, m.desired)
    BY DEF ReadyIsExact
  <2>1. m.group \in Groups
    BY DEF IInv, TypeOK, Syncs
  <2>2. store[m.group].members = m.desired
    BY <2>1 DEF IInv, GroupInv, RecordInv, ReadyRecord, VersionInv
  <2>3. Near(m.group, m.desired)
    BY <2>1, <2>2 DEF IInv, GroupInv, RadioInv
  <2>4. InFlight(m.group) = {}
    BY <2>1 DEF IInv, GroupInv, HandlerInv, InFlight
  <2>5. QED BY <2>3, <2>4 DEF Near, Reaches
<1>2. QED BY <1>1, Invariance, PTL

\* What the cloud shows as ready or retired is so on the radio, with the same
\* exceptions, as long as the gateway has not lost its store.
THEOREM SettledGroupsAreExact == Spec => []SettledIsExact
<1>1. IInv => SettledIsExact
  BY DEF IInv, GroupInv, SettledInv, Settled, SettledIsExact
<1>2. QED BY <1>1, Invariance, PTL

(***************************************************************************)
(* The resync that is owed                                                 *)
(***************************************************************************)
\* The cloud shows the group as ready, or a result it will take for that is there.
Told(g) ==
    \/ cloud[g].status = "ready"
    \/ /\ cloud[g].status # "retired"
       /\ \E r \in results : r.group = g /\ r.version = cloud[g].version

\* A lost store is not acknowledged before the cloud has dealt with it, and until then
\* its request is wanted, or about to be persisted, unless a start was cut off before.
\* Who was told of a group's version knows it or is owed.
OwedInv ==
    /\ acks \subseteq processed
    /\ asking => losses # 0 /\ (losses = 1 => requests = {})
    /\ losses = 1 /\ processed = {} /\ ~cut => asking \/ pending = 1
    /\ losses <= 1 /\ ~cut => \A g \in Groups : Told(g) => Known(g) \/ Owed
    /\ \A g \in Groups : cloud[g].status = "none" => cloud[g].version = 0

ResyncUnchanged == UNCHANGED <<losses, processed, pending, requests, acks, asking, cut>>

\* No row is taken back.
NoneKept == \A g \in Groups : cloud'[g].status = "none" => cloud'[g] = cloud[g]

\* Steps that leave the resync alone: a group is told of its version by a handler
\* that has it in the store, or was told before.
LEMMA OwedKept ==
    ASSUME OwedInv, ResyncUnchanged, NoneKept,
           \A g \in Groups : Told(g)' => Known(g)' \/ (Told(g) /\ ~Known(g))
    PROVE  OwedInv'
<1>1. Owed' <=> Owed
  BY DEF ResyncUnchanged, Owed
<1>2. QED BY <1>1 DEF OwedInv, ResyncUnchanged, NoneKept

\* Of a new version nobody is told.
LEMMA RenewedIsUntold ==
    ASSUME IInv, IInv', NEW g \in Groups, results' = results,
           cloud'[g].version > cloud[g].version, cloud'[g].status \in {"configuring", "retiring"}
    PROVE  ~Told(g)'
<1>1. cloud[g].version \in Nat /\ cloud'[g].version \in Nat
  BY BoundAssumption DEF IInv, TypeOK, Rows, Versions
<1>2. \A r \in results : r.version \in Nat /\ (r.group = g => r.version <= cloud[g].version)
  BY BoundAssumption DEF IInv, VersionInv, TypeOK, Results, Versions
<1>3. \A r \in results : r.group = g => r.version # cloud'[g].version
  BY <1>1, <1>2
<1>4. QED BY <1>3 DEF Told

\* A row that stays or gets a new version tells nobody anything new.
LEMMA MovedIsUntold ==
    ASSUME IInv, IInv', NEW g \in Groups, RowMoves(g), UNCHANGED <<results, store>>
    PROVE  Told(g)' => Told(g) /\ (Known(g)' <=> Known(g))
<1>1. CASE cloud'[g] = cloud[g]
  BY <1>1 DEF Told, Known
<1>2. CASE cloud'[g].version > cloud[g].version /\ cloud'[g].status \in {"configuring", "retiring"}
  BY <1>2, RenewedIsUntold
<1>3. QED BY <1>1, <1>2 DEF RowMoves

LEMMA UserOwed ==
    ASSUME IInv, IInv', OwedInv, NEW g \in Groups, UserStep(g)
    PROVE  OwedInv'
<1>1. \E status \in {"configuring", "retiring"} : \E D : Renew(g, status, D)
  BY UserRenews
<1>2. GatewayUnchanged /\ \A h \in Groups : RowMoves(h)
  BY <1>1, RenewStep
<1>3. ResyncUnchanged
  BY <1>1 DEF Renew, ResyncUnchanged, resyncVars
<1>4. NoneKept
  BY <1>2 DEF NoneKept, RowMoves
<1>5. QED BY <1>2, <1>3, <1>4, MovedIsUntold, OwedKept DEF GatewayUnchanged

LEMMA PublishSyncOwed ==
    ASSUME IInv, OwedInv, NEW g \in Groups, PublishSync(g)
    PROVE  OwedInv'
<1>1. cloud[g] \in Rows /\ cloud' = [cloud EXCEPT ![g] = Planned(cloud[g])] /\ Working(g)
  BY DEF IInv, TypeOK, PublishSync
<1>2. \A h \in Groups : cloud'[h].version = cloud[h].version /\ cloud'[h].status = cloud[h].status
  BY <1>1 DEF Planned, Rows, IInv, TypeOK
<1>3. ResyncUnchanged /\ UNCHANGED <<results, store>>
  BY DEF PublishSync, ResyncUnchanged, resyncVars, storeVars
<1>4. NoneKept
  <2>1. \A h \in Groups \ {g} : cloud'[h] = cloud[h]
    BY <1>1 DEF IInv, TypeOK
  <2>2. cloud'[g].status # "none"
    BY <1>1, <1>2 DEF Working
  <2>3. QED BY <2>1, <2>2 DEF NoneKept
<1>5. QED BY <1>2, <1>3, <1>4, OwedKept DEF Told, Known

\* The store of a group follows its versions, and none is newer than the cloud's.
LEMMA StoreFollows ==
    ASSUME IInv, NEW g \in Groups, HandlerStep(g)
    PROVE  \A h \in Groups : Known(h) => Known(h)'
<1>1. cloud' = cloud
  BY HandlerForms DEF Begins, Stops, Ends, PublishResult, SyncGroupSubscriptions, HandlerUnchanged, apiVars
<1>2. store' = store \/ Ends(g)
  BY HandlerForms DEF Begins, BeginWrite, Stops, PublishResult, SyncGroupSubscriptions, storeVars
<1>3. CASE store' = store
  BY <1>1, <1>3 DEF Known
<1>4. CASE Ends(g)
  <2>1. Writing(g) /\ Written(g) /\ TypeOK
    BY <1>4 DEF Ends, Writing, At, IInv
  <2>2. store'[g] = Draft(g) /\ \A h \in Groups \ {g} : store'[h] = store[h]
    BY <2>1, WrittenType
  <2>3. /\ store[g].version <= Draft(g).version /\ Draft(g).version <= cloud[g].version
        /\ cloud[g].version \in Nat /\ Draft(g).version \in Nat
    BY <2>1, DraftInv, SyncNat, VersionNat DEF Writing, At
  <2>4. Known(g) => Known(g)'
    BY <1>1, <2>2, <2>3 DEF Known
  <2>5. QED BY <1>1, <2>2, <2>4 DEF Known
<1>5. QED BY <1>2, <1>3, <1>4

LEMMA HandlerOwed ==
    ASSUME IInv, OwedInv, NEW g \in Groups, HandlerStep(g)
    PROVE  OwedInv'
<1>1. cloud' = cloud /\ ResyncUnchanged
  BY HandlerForms DEF Begins, Stops, Ends, PublishResult, SyncGroupSubscriptions, HandlerUnchanged,
     apiVars, resyncVars, ResyncUnchanged
<1>2. NoneKept
  BY <1>1 DEF NoneKept
<1>3. \A h \in Groups : Known(h) => Known(h)'
  BY StoreFollows
<1>4. CASE results' = results
  BY <1>1, <1>2, <1>3, <1>4, OwedKept DEF Told
<1>5. CASE PublishResult(g) /\ results' = results \cup {ResultOf(g, task[g])}
  <2>1. store' = store /\ task[g].pc = "report"
    BY <1>5 DEF PublishResult, storeVars, At
  <2>2. ResultOf(g, task[g]).group = g /\ ResultOf(g, task[g]).version = store[g].version
    BY <2>1 DEF IInv, GroupInv, HandlerInv, ResultOf
  <2>3. ASSUME NEW h \in Groups, Told(h)', ~Known(h)' PROVE Told(h)
    BY <1>1, <1>5, <2>1, <2>2, <2>3 DEF Told, Known
  <2>4. QED BY <1>1, <1>2, <1>3, <2>3, OwedKept
<1>6. QED BY <1>4, <1>5, HandlerForms DEF Begins, Stops, Ends, PublishResult, SyncGroupSubscriptions

LEMMA ReceiveOwed ==
    ASSUME OwedInv, NEW m \in syncs, Receive(m)
    PROVE  OwedInv'
<1>1. cloud' = cloud /\ ResyncUnchanged /\ UNCHANGED <<results, store>>
  BY DEF Receive, StoreUnchanged, storeVars, HandlerUnchanged, apiVars, resyncVars, ResyncUnchanged
<1>2. QED BY <1>1, OwedKept DEF NoneKept, Told, Known

LEMMA StoreResultOwed ==
    ASSUME IInv, OwedInv, NEW r \in results, StoreResult(r)
    PROVE  OwedInv'
<1>1. r.group \in Groups /\ cloud \in [Groups -> Rows] /\ cloud[r.group] \in Rows
  BY DEF IInv, TypeOK, Results
<1>2. /\ \A g \in Groups : cloud'[g].version = cloud[g].version
      /\ \A g \in Groups \ {r.group} : cloud'[g] = cloud[g]
      /\ cloud'[r.group].status # "none"
  BY <1>1 DEF StoreResult, Rows, NextStatus
<1>3. Told(r.group)
  BY DEF StoreResult, Current, Told
<1>4. ResyncUnchanged /\ UNCHANGED <<results, store>>
  BY DEF StoreResult, ResyncUnchanged, resyncVars, storeVars
<1>5. ASSUME NEW g \in Groups, Told(g)' PROVE Told(g) /\ (Known(g)' <=> Known(g))
  BY <1>2, <1>3, <1>4, <1>5 DEF Told, Known
<1>6. NoneKept
  BY <1>2 DEF NoneKept
<1>7. QED BY <1>4, <1>5, <1>6, OwedKept

\* A start that finds the records has those of the store, or newer ones.
LEMMA RestartOwed ==
    ASSUME IInv, OwedInv, Restart
    PROVE  OwedInv'
<1>1. /\ UNCHANGED <<cloud, results, processed, requests, acks, pending, losses>>
      /\ asking' = FALSE
      /\ ~cut' => ~cut /\ ~(asking /\ pending = 0)
  <2>1. cut' = (cut \/ (asking /\ pending = 0))
    BY DEF Restart
  <2>2. ~cut' => ~cut /\ ~(asking /\ pending = 0)
    BY <2>1, Zenon
  <2>3. QED BY <2>2 DEF Restart, HandlersEnd, apiVars
<1>2. \A g \in Groups : Known(g) => Known(g)'
  <2> SUFFICES ASSUME NEW g \in Groups PROVE Known(g) => Known(g)'
    OBVIOUS
  <2>1. /\ cloud[g].version \in Nat /\ store[g].version \in Nat /\ disk[g].version \in Nat
        /\ RecordInv(g) /\ TypeOK
    BY VersionNat DEF IInv, GroupInv
  <2>2. CASE store'[g] \in {disk[g], store[g]}
    BY <1>1, <2>1, <2>2 DEF RecordInv, Known
  <2>3. CASE Writing(g) /\ store'[g] = Draft(g)
    <3>1. Draft(g).version \in Nat /\ store[g].version <= Draft(g).version
          /\ Draft(g).version <= cloud[g].version
      BY <2>3, DraftInv, SyncNat DEF Writing, At
    <3>2. QED BY <1>1, <2>1, <2>3, <3>1 DEF Known
  <2>4. QED BY <2>1, <2>2, <2>3, RestartFinds
<1>3. losses \in Nat /\ pending \in Nat /\ pending <= losses /\ processed \subseteq requests
  BY BoundAssumption DEF IInv, CountInv, TypeOK, Events
<1>4. ASSUME losses <= 1, ~cut', Owed PROVE Owed'
  <2>1. CASE asking
    <3>1. processed = {} /\ pending # 0
      BY <1>1, <1>3, <1>4, <2>1 DEF OwedInv
    <3>2. QED BY <1>1, <3>1 DEF Owed
  <2>2. CASE ~asking
    BY <1>1, <1>4, <2>2 DEF Owed
  <2>3. QED BY <2>1, <2>2
<1>5. losses = 1 /\ processed = {} /\ ~cut' => pending = 1
  BY <1>1, <1>3 DEF OwedInv
<1>6. losses <= 1 /\ ~cut' => \A g \in Groups : Told(g)' => Known(g)' \/ Owed'
  BY <1>1, <1>2, <1>4 DEF OwedInv, Told
<1>7. QED BY <1>1, <1>5, <1>6 DEF OwedInv

\* The first store that is lost finds nothing wanted and nothing requested.
LEMMA LossOwed ==
    ASSUME IInv, OwedInv, RestartWithoutState
    PROVE  OwedInv'
<1>1. losses \in Nat /\ losses' = losses + 1 /\ asking' = TRUE /\ cut' = cut
      /\ UNCHANGED <<cloud, processed, requests, acks>>
  BY BoundAssumption DEF IInv, TypeOK, RestartWithoutState, HandlersEnd, apiVars
<1>2. losses' = 1 => requests = {}
  BY <1>1 DEF IInv, CountInv
<1>3. QED BY <1>1, <1>2 DEF OwedInv, Owed

LEMMA ResyncOwed ==
    ASSUME IInv, IInv', OwedInv, ResyncStep
    PROVE  OwedInv'
<1>1. CASE PersistRequest
  <2>1. /\ asking /\ asking' = FALSE /\ pending' = IF pending = 0 THEN losses ELSE pending
        /\ UNCHANGED <<cloud, processed, results, store, requests, acks, losses, cut>>
    BY <1>1 DEF PersistRequest, apiVars, storeVars
  <2>2. losses \in Nat /\ pending \in Nat /\ pending <= losses /\ processed \subseteq requests
    BY BoundAssumption DEF IInv, CountInv, TypeOK, Events
  <2>3. losses <= 1 => pending' = 1 /\ processed = {}
    BY <2>1, <2>2 DEF OwedInv
  <2>4. QED BY <2>1, <2>2, <2>3 DEF OwedInv, Owed
<1>2. CASE RequestResync
  <2>1. ~asking /\ UNCHANGED <<cloud, processed, results, store, pending, acks, losses, asking, cut>>
    BY <1>2 DEF RequestResync, apiVars, storeVars
  <2>2. QED BY <2>1 DEF OwedInv, Told, Known, Owed
<1>3. CASE \E e \in Events : AckResync(e)
  <2>1. acks' \subseteq processed'
    BY <1>3 DEF AckResync, apiVars, OwedInv
  <2>2. UNCHANGED <<cloud, processed, results, store, pending, requests, losses, asking, cut>>
    BY <1>3 DEF AckResync, apiVars, storeVars
  <2>3. QED BY <2>1, <2>2 DEF OwedInv, Told, Known, Owed
<1>4. CASE \E e \in Events : ReceiveAck(e)
  <2>1. pending \in processed /\ processed # {}
    BY <1>4 DEF ReceiveAck, OwedInv
  <2>2. ~asking /\ UNCHANGED <<cloud, processed, results, store, requests, acks, losses, asking, cut>>
    BY <1>4 DEF ReceiveAck, apiVars, storeVars
  <2>3. QED BY <2>1, <2>2 DEF OwedInv, Told, Known, Owed
<1>5. ASSUME NEW e \in Events, ResetGatewayGroups(e) PROVE OwedInv'
  <2>1. /\ processed' # {} /\ acks' \subseteq processed'
        /\ UNCHANGED <<results, store, requests, losses, asking, cut>>
    BY <1>5 DEF ResetGatewayGroups, OwedInv, resyncVars, storeVars
  <2>2. ASSUME NEW g \in Groups
        PROVE  /\ Told(g)' => Known(g)'
               /\ cloud'[g].status = "none" => cloud'[g].version = 0
    <3>1. CASE cloud[g].status = "retired"
      BY <1>5, <3>1 DEF ResetGatewayGroups, Told
    <3>2. CASE cloud[g].status = "none"
      <4>1. cloud'[g] = cloud[g] /\ cloud[g].version = 0
        BY <1>5, <3>2 DEF ResetGatewayGroups, OwedInv
      <4>2. store[g].version = 0
        <5>1. RecordInv(g) /\ store[g].version \in Nat /\ disk[g].version \in Nat
          BY VersionNat DEF IInv, GroupInv
        <5>2. QED BY <4>1, <5>1 DEF RecordInv
      <4>3. QED BY <2>1, <4>1, <4>2 DEF Known
    <3>3. CASE cloud[g].status \notin {"none", "retired"}
      <4>1. cloud[g] \in Rows
        BY DEF IInv, TypeOK
      <4>2. cloud'[g].version > cloud[g].version /\ cloud'[g].status \in {"configuring", "retiring"}
        BY <1>5, <3>3, <4>1, ResetRenews
      <4>3. QED BY <2>1, <4>2, RenewedIsUntold
    <3>4. QED BY <3>1, <3>2, <3>3
  <2>3. QED BY <2>1, <2>2 DEF OwedInv
<1>6. QED BY <1>1, <1>2, <1>3, <1>4, <1>5 DEF ResyncStep

LEMMA OwedNext == IInv /\ IInv' /\ OwedInv /\ [Next]_vars => OwedInv'
<1> SUFFICES ASSUME IInv, IInv', OwedInv, [Next]_vars PROVE OwedInv'
  OBVIOUS
<1>1. CASE UNCHANGED vars
  BY <1>1, OwedKept DEF vars, apiVars, storeVars, resyncVars, ResyncUnchanged, NoneKept, Told, Known
<1>2. QED BY <1>1, UserOwed, PublishSyncOwed, HandlerOwed, ReceiveOwed, StoreResultOwed, RestartOwed,
             LossOwed, ResyncOwed DEF Next

\* A group that the cloud offers as a target is known to the gateway by its current
\* version, or its resync is under way: the first lost store loses no group for good,
\* unless the start that finds it lost is cut off before it persists its request.
THEOREM OfferedGroupsAreOwed == Spec => []OfferedIsOwed
<1>1. Init => OwedInv
  BY DEF Init, OwedInv, Told, NoRow
<1>2. OwedInv => OfferedIsOwed
  BY DEF OwedInv, OfferedIsOwed, Told
<1>3. QED BY <1>1, <1>2, OwedNext, Invariance, PTL DEF Spec

(***************************************************************************)
(* The plan of a version                                                   *)
(***************************************************************************)
\* A plan subscribes wanted nodes and unsubscribes others, and leaves out only what
\* the results have reported. All syncs of the version have this plan.
PlanInv(g) ==
    /\ cloud[g].planned = cloud[g].version =>
          /\ cloud[g].adds \subseteq cloud[g].desired
          /\ cloud[g].deletes \cap cloud[g].desired = {}
          /\ cloud[g].desired \ cloud[g].adds \subseteq cloud[g].applied
          /\ cloud[g].applied \ cloud[g].desired \subseteq cloud[g].deletes
    /\ \A m \in syncs :
          m.group = g /\ m.version = cloud[g].version =>
              /\ cloud[g].planned = cloud[g].version
              /\ m.adds = cloud[g].adds /\ m.deletes = cloud[g].deletes
              /\ m.desired = cloud[g].desired

\* A new version has no plan and no sync yet.
LEMMA RenewedIsUnplanned ==
    ASSUME IInv, NEW g \in Groups, syncs' = syncs, cloud'[g].planned = 0,
           cloud'[g].version = cloud[g].version + 1
    PROVE  PlanInv(g)'
<1>1. cloud[g].version \in Nat
  BY VersionNat DEF IInv
<1>2. \A m \in syncs : m.version \in Nat /\ (m.group = g => m.version <= cloud[g].version)
  BY BoundAssumption DEF IInv, VersionInv, TypeOK, Syncs, Versions
<1>3. QED BY <1>1, <1>2 DEF PlanInv

LEMMA PlannedFits ==
    ASSUME NEW row \in Rows, row.planned # row.version
    PROVE  /\ Planned(row).desired = row.desired /\ Planned(row).applied = row.applied
           /\ Planned(row).planned = row.version /\ Planned(row).version = row.version
           /\ Planned(row).adds = IF row.full THEN row.desired ELSE row.desired \ row.applied
           /\ Planned(row).deletes = row.applied \ row.desired
  BY DEF Planned, Rows

LEMMA PublishSyncPlan ==
    ASSUME TypeOK, NEW h \in Groups, PublishSync(h), NEW g \in Groups, PlanInv(g)
    PROVE  PlanInv(g)'
<1> DEFINE m == SyncOf(h, Planned(cloud[h]))
<1>1. cloud \in [Groups -> Rows] /\ cloud[g] \in Rows /\ cloud[h] \in Rows
  BY DEF TypeOK
<1>2. cloud' = [cloud EXCEPT ![h] = Planned(cloud[h])] /\ syncs' = syncs \cup {m}
  BY DEF PublishSync
<1>3. m.group = h
  BY DEF SyncOf
<1>4. CASE g # h
  BY <1>1, <1>2, <1>3, <1>4 DEF PlanInv
<1>5. CASE g = h
  <2>1. /\ m.version = Planned(cloud[g]).version /\ m.desired = Planned(cloud[g]).desired
        /\ m.adds = Planned(cloud[g]).adds /\ m.deletes = Planned(cloud[g]).deletes
        /\ cloud'[g] = Planned(cloud[g])
    BY <1>1, <1>2, <1>5 DEF SyncOf
  <2>2. CASE cloud[g].planned = cloud[g].version
    <3>1. cloud'[g] = cloud[g]
      BY <2>1, <2>2 DEF Planned
    <3>2. QED BY <1>2, <2>1, <2>2, <3>1 DEF PlanInv
  <2>3. CASE cloud[g].planned # cloud[g].version
    <3> DEFINE row == cloud[g]
               row1 == Planned(row)
    <3>1. /\ row1.desired = row.desired /\ row1.applied = row.applied
          /\ row1.planned = row.version /\ row1.version = row.version
          /\ row1.adds = IF row.full THEN row.desired ELSE row.desired \ row.applied
          /\ row1.deletes = row.applied \ row.desired
      BY <1>1, <2>3, PlannedFits
    <3>2. cloud'[g] = row1
      BY <2>1
    <3> HIDE DEF row1
    <3>3. \A s \in syncs : ~(s.group = g /\ s.version = row.version)
      BY <2>3 DEF PlanInv
    <3>4. /\ row1.adds \subseteq row1.desired /\ row1.deletes \cap row1.desired = {}
          /\ row1.desired \ row1.adds \subseteq row1.applied
          /\ row1.applied \ row1.desired \subseteq row1.deletes
      BY <3>1
    <3>5. \A s \in syncs' :
            s.group = g /\ s.version = row1.version =>
                s.adds = row1.adds /\ s.deletes = row1.deletes /\ s.desired = row1.desired
      BY <1>2, <2>1, <3>1, <3>3 DEF row1
    <3>6. QED BY <3>1, <3>2, <3>4, <3>5 DEF PlanInv
  <2>4. QED BY <2>2, <2>3
<1>6. QED BY <1>4, <1>5

\* A result moves nodes of the plan only.
LEMMA StoreResultPlan ==
    ASSUME TypeOK, NEW r \in results, StoreResult(r), NEW g \in Groups, PlanInv(g)
    PROVE  PlanInv(g)'
<1>1. r.group \in Groups /\ cloud \in [Groups -> Rows] /\ cloud[g] \in Rows /\ syncs' = syncs
  BY DEF TypeOK, Results, StoreResult
<1>2. CASE g = r.group
  <2>1. /\ cloud'[g].applied = AppliedAfter(cloud[g], r)
        /\ cloud'[g].planned = cloud[g].planned /\ cloud'[g].version = cloud[g].version
        /\ cloud'[g].adds = cloud[g].adds /\ cloud'[g].deletes = cloud[g].deletes
        /\ cloud'[g].desired = cloud[g].desired
    BY <1>1, <1>2 DEF StoreResult, Rows
  <2>2. QED BY <1>1, <2>1 DEF PlanInv, AppliedAfter
<1>3. CASE g # r.group
  <2>1. cloud'[g] = cloud[g]
    BY <1>1, <1>3 DEF StoreResult
  <2>2. QED BY <1>1, <2>1 DEF PlanInv
<1>4. QED BY <1>2, <1>3

LEMMA PlanNext ==
    ASSUME IInv, [Next]_vars, NEW g \in Groups, PlanInv(g)
    PROVE  PlanInv(g)'
<1>1. cloud \in [Groups -> Rows] /\ cloud[g] \in Rows /\ TypeOK
  BY DEF IInv, TypeOK
<1>2. ASSUME NEW h \in Groups, UserStep(h) PROVE PlanInv(g)'
  <2>1. PICK status \in {"configuring", "retiring"} : \E D : Renew(h, status, D)
    BY <1>2, UserRenews
  <2>2. PICK D : Renew(h, status, D)
    BY <2>1
  <2>3. syncs' = syncs /\ (cloud'[g] = cloud[g] \/ cloud'[g] = Renewed(cloud[g], status, D))
    BY <1>1, <2>2 DEF Renew
  <2>4. Renewed(cloud[g], status, D).planned = 0
        /\ Renewed(cloud[g], status, D).version = cloud[g].version + 1
    BY <1>1 DEF Renewed, Rows
  <2>5. cloud'[g] = cloud[g] => PlanInv(g)'
    BY <2>3 DEF PlanInv
  <2>6. QED BY <2>3, <2>4, <2>5, RenewedIsUnplanned
<1>3. ASSUME NEW e \in Events, ResetGatewayGroups(e) PROVE PlanInv(g)'
  <2>1. syncs' = syncs
    BY <1>3 DEF ResetGatewayGroups
  <2>2. CASE cloud[g].status \in {"none", "retired"}
    BY <1>3, <2>1, <2>2 DEF ResetGatewayGroups, PlanInv
  <2>3. CASE cloud[g].status \notin {"none", "retired"}
    <3>1. cloud'[g] = ResyncedRow(cloud[g])
      BY <1>3, <2>3 DEF ResetGatewayGroups
    <3>2. cloud'[g].planned = 0 /\ cloud'[g].version = cloud[g].version + 1
      BY <1>1, <3>1 DEF ResyncedRow, Renewed, Rows
    <3>3. QED BY <2>1, <3>2, RenewedIsUnplanned
  <2>4. QED BY <2>2, <2>3
<1>4. CASE UNCHANGED <<cloud, syncs>>
  BY <1>4 DEF PlanInv
<1>5. ASSUME NEW h \in Groups, HandlerStep(h) PROVE UNCHANGED <<cloud, syncs>>
  BY <1>5, HandlerForms DEF Begins, Stops, Ends, PublishResult, SyncGroupSubscriptions,
     HandlerUnchanged, apiVars
<1>6. CASE \/ \E m \in syncs : Receive(m)
           \/ Restart \/ RestartWithoutState \/ UNCHANGED vars
           \/ PersistRequest \/ RequestResync \/ \E e \in Events : AckResync(e) \/ ReceiveAck(e)
  <2>1. UNCHANGED <<cloud, syncs>>
    BY <1>6 DEF Receive, HandlerUnchanged, Restart, RestartWithoutState, HandlersEnd, PersistRequest,
                RequestResync, AckResync, ReceiveAck, apiVars, vars
  <2>2. QED BY <1>4, <2>1
<1>7. QED BY <1>1, <1>2, <1>3, <1>4, <1>5, <1>6, PublishSyncPlan, StoreResultPlan DEF Next, ResyncStep

\* A plan of the current version is refused only where the members that the handler has
\* read and the cloud disagree: on a node that the cloud neither wants nor knows to be
\* subscribed, or on one that it takes to be subscribed and that was not read.
THEOREM RefusedPlansAreOvertaken == Spec => []RefusedIsOvertaken
<1> DEFINE PInv == IInv /\ \A g \in Groups : PlanInv(g)
<1>1. Init => PInv
  <2>1. Init => \A g \in Groups : PlanInv(g)
    <3> SUFFICES ASSUME Init, NEW g \in Groups PROVE PlanInv(g)
      OBVIOUS
    <3>1. cloud[g] = NoRow /\ syncs = {}
      BY DEF Init
    <3>2. QED BY <3>1 DEF NoRow, PlanInv
  <2>2. QED BY <2>1, InitInv
<1>2. PInv /\ [Next]_vars => PInv'
  BY PlanNext, NextInv
<1>3. PInv => RefusedIsOvertaken
  <2> SUFFICES ASSUME PInv, NEW g \in Groups, At(g, "operate"),
                      task[g].sync.version = cloud[g].version,
                      ~PlanFits(task[g].sync, task[g].base)
               PROVE  \/ ~(task[g].base \subseteq cloud[g].applied \cup cloud[g].desired)
                      \/ ~(cloud[g].applied \cap cloud[g].desired \subseteq task[g].base)
    BY DEF RefusedIsOvertaken
  <2>1. task[g].sync \in syncs /\ task[g].sync.group = g
    BY SyncNat DEF At
  <2>2. /\ task[g].sync.adds = cloud[g].adds /\ task[g].sync.deletes = cloud[g].deletes
        /\ task[g].sync.desired = cloud[g].desired
        /\ cloud[g].planned = cloud[g].version
    BY <2>1 DEF PlanInv
  <2>3. \/ ~(cloud[g].desired \ task[g].base \subseteq cloud[g].adds)
        \/ ~(task[g].base \ cloud[g].desired \subseteq cloud[g].deletes)
    BY <2>2 DEF PlanFits, PlanInv
  <2>4. QED BY <2>2, <2>3 DEF PlanInv
<1> HIDE DEF PInv
<1>4. QED BY <1>1, <1>2, <1>3, PTL DEF Spec
=============================================================================
