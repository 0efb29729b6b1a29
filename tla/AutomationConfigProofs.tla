------------------------ MODULE AutomationConfigProofs ------------------------
(***************************************************************************)
(* Theorems about AutomationConfig: what the cloud shows as applied is held *)
(* by the gateway's disk, the status is about the desired revision, and the *)
(* gateway never goes back, for any publishers, revisions and failures.     *)
(***************************************************************************)
EXTENDS AutomationConfig, TLAPS

(***************************************************************************)
(* The inductive invariant                                                 *)
(***************************************************************************)
\* Nothing is about a revision that no user has made yet.
RevisionInv ==
    /\ config.applied <= config.desired
    /\ config.status = "none" <=> config.desired = 0
    /\ \A r \in Revisions : row[r].state # "none" => r <= config.desired
    /\ \A r \in inbox : r <= config.desired
    /\ \A p \in Publishers : publisher[p].on <= config.desired
    /\ work.pc \in {"store", "undo", "activate", "rollback"} => work.revision <= config.desired
    /\ work.pc = "record" => work.result.revision <= config.desired
    /\ \A a \in Results : ack[a] # "none" => a.revision <= config.desired

\* No file that a power loss may leave is older than what runs, and no result says
\* "applied" of more than what runs. The handler works on a newer revision, would
\* undo a write to no older one, and activates what is safely on the disk.
HeldInv ==
    /\ disk.visible \in disk.durable
    /\ \A d \in disk.durable : memory <= d
    /\ config.applied <= memory
    /\ work.pc \in {"store", "undo"} => work.back >= memory
    /\ work.pc \in {"store", "undo", "activate"} => work.revision > memory
    /\ work.pc = "activate" => \A d \in disk.durable : d >= work.revision
    /\ work.pc = "record" /\ work.result.status = "applied" => work.result.revision <= memory
    /\ \A a \in Results : ack[a] # "none" /\ a.status = "applied" => a.revision <= memory

IInv == TypeOK /\ RevisionInv /\ HeldInv /\ StatusIsHonest

-----------------------------------------------------------------------------
(***************************************************************************)
(* Types of the handler's state                                            *)
(***************************************************************************)
\* The fields a handler has at each of its awaits.
LEMMA WorkFields ==
    ASSUME work \in Works
    PROVE  /\ work.pc \in {"idle", "down", "store", "undo", "activate", "rollback", "record"}
           /\ work.pc \in {"store", "undo"} =>
                 /\ work = [pc |-> work.pc, revision |-> work.revision, back |-> work.back]
                 /\ work.revision \in Revisions /\ work.back \in Stored
           /\ work.pc \in {"activate", "rollback"} =>
                 /\ work = [pc |-> work.pc, revision |-> work.revision]
                 /\ work.revision \in Revisions
           /\ work.pc = "record" => work.result \in Results
<1>1. CASE work = Quiet \/ work = Down
  BY <1>1 DEF Quiet, Down
<1>2. CASE work \in [pc: {"store", "undo"}, revision: Revisions, back: Stored]
  BY <1>2
<1>3. CASE work \in [pc: {"activate", "rollback"}, revision: Revisions]
  BY <1>3
<1>4. CASE work \in [pc: {"record"}, result: Results]
  BY <1>4
<1> QED
  BY <1>1, <1>2, <1>3, <1>4 DEF Works

\* The states a handler's step may lead to.
LEMMA NextWorks ==
    /\ Quiet \in Works /\ Down \in Works
    /\ \A r \in Revisions, s \in {"applied", "rejected"} :
          [pc |-> "record", result |-> Result(r, s)] \in Works
    /\ \A r \in Revisions, b \in Stored, pc \in {"store", "undo"} :
          [pc |-> pc, revision |-> r, back |-> b] \in Works
    /\ \A r \in Revisions, pc \in {"activate", "rollback"} :
          [pc |-> pc, revision |-> r] \in Works
  BY DEF Works, Result, Results

LEMMA NextBatches ==
    /\ Idle \in Batches
    /\ \A r \in Revisions, pc \in {"renew", "fence", "send", "finish"} :
          [pc |-> pc, on |-> r] \in Batches
  BY DEF Batches, Idle

\* A publisher past its claim works on a revision.
LEMMA BatchFields ==
    ASSUME NEW b \in Batches
    PROVE  /\ b.on \in Stored
           /\ b # Idle => /\ b.on \in Revisions /\ b = [pc |-> b.pc, on |-> b.on]
                          /\ b.pc \in {"renew", "fence", "send", "finish"}
           /\ b.pc # "idle" => b # Idle
<1>1. Revisions \subseteq Stored /\ 0 \in Stored
  BY BoundAssumption DEF Revisions, Stored
<1>2. CASE b = Idle
  BY <1>1, <1>2 DEF Idle
<1>3. CASE b \in [pc: {"renew", "fence", "send", "finish"}, on: Revisions]
  <2>1. b # Idle
    BY <1>3 DEF Idle
  <2> QED
    BY <1>1, <1>3, <2>1
<1> QED
  BY <1>2, <1>3 DEF Batches
-----------------------------------------------------------------------------
(***************************************************************************)
(* Every action keeps the types                                            *)
(***************************************************************************)
LEMMA Initial == Init => IInv
<1> SUFFICES ASSUME Init PROVE IInv
  OBVIOUS
<1>1. Revisions \subseteq Stored /\ 0 \in Stored /\ 0 \in 0..MaxFaults
  BY BoundAssumption DEF Revisions, Stored
<1>2. TypeOK
  BY <1>1, NextWorks, NextBatches DEF Init, TypeOK, Rows, Unleased
<1>3. work.pc = "idle"
  BY DEF Init, Quiet
<1>4. RevisionInv
  BY <1>3, BoundAssumption DEF Init, RevisionInv, Unleased, Idle
<1>5. HeldInv
  BY <1>3 DEF Init, HeldInv
<1>6. StatusIsHonest
  BY DEF Init, StatusIsHonest
<1> QED
  BY <1>2, <1>4, <1>5, <1>6 DEF IInv

\* The users' changes.
LEMMA SaveType ==
    ASSUME TypeOK, Save \/ SaveUnsupported
    PROVE  TypeOK'
<1>1. config.desired + 1 \in Revisions /\ config.desired + 1 \in Stored
  BY BoundAssumption DEF TypeOK, Save, SaveUnsupported, Revisions, Stored
<1>2. config' \in [desired: Stored, applied: Stored,
                   status: {"none", "PENDING", "APPLIED", "REJECTED"}]
  BY <1>1 DEF TypeOK, Save, SaveUnsupported
<1>3. row' \in [Revisions -> Rows]
  BY <1>1 DEF TypeOK, Save, SaveUnsupported, Unleased, Rows
<1> QED
  BY <1>2, <1>3 DEF TypeOK, Save, SaveUnsupported, gatewayVars

\* The actions about rows: of the publishers, of leases, of requests.
LEMMA FaultType ==
    ASSUME TypeOK, Fault
    PROVE  faults' \in 0..MaxFaults
  BY BoundAssumption DEF TypeOK, Fault

LEMMA GotoType ==
    ASSUME TypeOK, NEW p \in Publishers, publisher[p] # Idle,
           NEW pc \in {"renew", "fence", "send", "finish"}
    PROVE  [publisher EXCEPT ![p].pc = pc] \in [Publishers -> Batches]
<1> DEFINE b == publisher[p]
<1>1. b \in Batches
  BY DEF TypeOK
<1>2. b.on \in Revisions /\ b = [pc |-> b.pc, on |-> b.on]
  BY <1>1, BatchFields
<1>3. [b EXCEPT !.pc = pc] = [pc |-> pc, on |-> b.on]
  BY <1>2
<1>4. [pc |-> pc, on |-> b.on] \in Batches
  BY <1>2, NextBatches
<1> QED
  BY <1>3, <1>4 DEF TypeOK

LEMMA ReturnType ==
    ASSUME TypeOK, NEW p \in Publishers
    PROVE  [publisher EXCEPT ![p] = Idle] \in [Publishers -> Batches]
  BY NextBatches DEF TypeOK

\* What every change of a row keeps: its type, and whether it exists.
RowsKept ==
    /\ row' \in [Revisions -> Rows]
    /\ \A r \in Revisions : row'[r].state = "none" <=> row[r].state = "none"

LEMMA UnleasedRow ==
    ASSUME TypeOK, NEW r \in Revisions, row[r].state # "none",
           NEW state \in {"waiting", "published", "superseded", "dead"},
           row' = [row EXCEPT ![r] = Unleased(state)]
    PROVE  RowsKept
  BY DEF TypeOK, RowsKept, Unleased, Rows

LEMMA ClaimRows ==
    ASSUME TypeOK, NEW p \in Publishers, Claim(p)
    PROVE  RowsKept
<1> SUFFICES ASSUME NEW r \in Revisions
             PROVE  row'[r] \in Rows /\ (row'[r].state = "none" <=> row[r].state = "none")
  BY DEF Claim, RowsKept
<1>1. row[r] \in Rows
  BY DEF TypeOK
<1>2. CASE Outdated(r)
  BY <1>2 DEF Claim, Outdated, Unleased, Rows
<1>3. CASE ~Outdated(r) /\ Claimable(r)
  BY <1>1, <1>3 DEF Claim, Claimable, Unleased, Rows
<1>4. CASE ~Outdated(r) /\ ~Claimable(r)
  BY <1>1, <1>4 DEF Claim
<1> QED
  BY <1>2, <1>3, <1>4
LEMMA PublisherType ==
    ASSUME TypeOK, NEW p \in Publishers,
           PublisherStep(p) \/ PublishFails(p) \/ PublisherCrash(p)
    PROVE  TypeOK' /\ RowsKept
<1> DEFINE r == publisher[p].on
<1>0. publisher[p] \in Batches
  BY DEF TypeOK
<1>1. publisher[p].pc # "idle" => publisher[p] # Idle /\ r \in Revisions
  BY <1>0, BatchFields
<1>2. publisher' \in [Publishers -> Batches]
  <2>1. CASE Claim(p)
    <3>1. CASE UNCHANGED publisher
      BY <3>1 DEF TypeOK
    <3>2. CASE ~UNCHANGED publisher
      <4>1. PICK s \in Revisions : publisher' = [publisher EXCEPT ![p] = [pc |-> "renew", on |-> s]]
        BY <2>1, <3>2 DEF Claim
      <4>2. [pc |-> "renew", on |-> s] \in Batches
        BY NextBatches
      <4> QED
        BY <4>1, <4>2 DEF TypeOK
    <3> QED
      BY <3>1, <3>2
  <2>2. CASE Renew(p) \/ Fence(p) \/ Send(p)
    <3>1. publisher[p] # Idle
      BY <1>1, <2>2 DEF Renew, Fence, Send
    <3>2. \/ Return(p)
          \/ \E pc \in {"fence", "send", "finish"} : Goto(p, pc)
      BY <2>2 DEF Renew, Fence, Send
    <3>3. ASSUME NEW pc \in {"fence", "send", "finish"}, Goto(p, pc)
          PROVE  publisher' \in [Publishers -> Batches]
      BY <3>1, <3>3, GotoType DEF Goto
    <3> QED
      BY <3>2, <3>3, ReturnType DEF Return
  <2>3. CASE Finish(p) \/ PublishFails(p) \/ PublisherCrash(p)
    BY <2>3, ReturnType DEF Finish, PublishFails, PublisherCrash, Return
  <2> QED
    BY <2>1, <2>2, <2>3 DEF PublisherStep
<1>3. RowsKept
  <2>1. CASE Claim(p)
    BY <2>1, ClaimRows
  <2>2. CASE UNCHANGED row
    BY <2>2 DEF TypeOK, RowsKept
  <2>3. ASSUME NEW state \in {"waiting", "published", "superseded", "dead"},
               publisher[p].pc # "idle", Owned(p, r), row' = [row EXCEPT ![r] = Unleased(state)]
        PROVE  RowsKept
    <3>1. row[r].state # "none"
      BY <2>3 DEF Owned
    <3> QED
      BY <1>1, <2>3, <3>1, UnleasedRow
  <2>4. CASE Renew(p) \/ Finish(p) \/ PublishFails(p)
    BY <2>2, <2>3, <2>4 DEF Renew, Finish, PublishFails
  <2> QED
    BY <2>1, <2>2, <2>4 DEF PublisherStep, Fence, Send, PublisherCrash
<1>4. inbox' \in SUBSET Revisions
  BY <1>1 DEF TypeOK, PublisherStep, Claim, Renew, Fence, Send, Finish, PublishFails, PublisherCrash
<1>5. faults' \in 0..MaxFaults
  BY FaultType DEF TypeOK, PublisherStep, Claim, Renew, Fence, Send, Finish, PublishFails, PublisherCrash
<1>6. UNCHANGED <<config, disk, memory, work, ack>>
  BY DEF PublisherStep, Claim, Renew, Fence, Send, Finish, PublishFails, PublisherCrash,
         PublisherUnchanged, gatewayVars
<1> QED
  BY <1>2, <1>3, <1>4, <1>5, <1>6 DEF TypeOK, RowsKept

LEMMA RowType ==
    ASSUME TypeOK, NEW r \in Revisions, LeaseExpires(r) \/ Lose(r)
    PROVE  TypeOK' /\ RowsKept
<1>1. CASE LeaseExpires(r)
  <2>1. RowsKept
    BY <1>1 DEF LeaseExpires, TypeOK, RowsKept, Rows
  <2> QED
    BY <1>1, <2>1, FaultType DEF LeaseExpires, PublisherUnchanged, gatewayVars, TypeOK, RowsKept
<1>2. CASE Lose(r)
  BY <1>2, FaultType DEF Lose, cloudVars, gatewayVars, TypeOK, RowsKept
<1> QED
  BY <1>1, <1>2

LEMMA RequestType ==
    ASSUME TypeOK, Request
    PROVE  TypeOK' /\ RowsKept
<1>1. config.desired \in Revisions
  BY BoundAssumption DEF TypeOK, Request, Revisions, Stored
<1>2. RowsKept
  BY <1>1, UnleasedRow DEF Request
<1> QED
  BY <1>2 DEF Request, gatewayVars, TypeOK, RowsKept

\* A write of the disk, whatever comes of it.
LEMMA DiskType ==
    ASSUME TypeOK, NEW b \in Stored, Written(b) \/ Unwritten \/ WrittenUncertain(b)
    PROVE  /\ disk' \in [visible: Stored, durable: SUBSET Stored]
           /\ faults' \in 0..MaxFaults
  BY FaultType DEF TypeOK, Written, Unwritten, WrittenUncertain

LEMMA RuntimeType ==
    ASSUME TypeOK, RuntimeStep \/ (\E r \in Revisions : Receive(r))
    PROVE  TypeOK'
<1>0. Revisions \subseteq Stored
  BY BoundAssumption DEF Revisions, Stored
<1>1. work \in Works
  BY DEF TypeOK
<1> USE DEF GatewayUnchanged, cloudVars
<1>2. CASE \E r \in Revisions : Receive(r)
  <2>1. PICK r \in Revisions : Receive(r)
    BY <1>2
  <2>2. CASE \E s \in {"applied", "rejected"} : Report(r, s)
    BY <2>1, <2>2, NextWorks DEF Report, Receive, TypeOK
  <2>3. CASE work' = [pc |-> "store", revision |-> r, back |-> disk.visible]
    <3>1. disk.visible \in Stored
      BY DEF TypeOK
    <3>2. work' \in Works
      BY <2>3, <3>1, NextWorks
    <3> QED
      BY <2>1, <3>2 DEF Receive, TypeOK
  <2> QED
    BY <2>1, <2>2, <2>3 DEF Receive
<1>3. CASE Store
  <2>1. work.revision \in Revisions /\ work.back \in Stored
        /\ work = [pc |-> "store", revision |-> work.revision, back |-> work.back]
    BY <1>1, <1>3, WorkFields DEF Store
  <2>2. [work EXCEPT !.pc = "undo"] = [pc |-> "undo", revision |-> work.revision, back |-> work.back]
    BY <2>1
  <2>3. work' \in Works
    BY <1>3, <2>1, <2>2, NextWorks DEF Store, Activating, Report
  <2>4. work.revision \in Stored
    BY <1>0, <2>1
  <2>5. Written(work.revision) \/ Unwritten \/ WrittenUncertain(work.revision)
    BY <1>3 DEF Store
  <2> QED
    BY <1>3, <2>3, <2>4, <2>5, DiskType DEF Store, TypeOK
<1>4. CASE Undo
  <2>1. work.back \in Stored
    BY <1>1, <1>4, WorkFields DEF Undo
  <2> QED
    BY <1>4, <2>1, DiskType, NextWorks DEF Undo, Silent, TypeOK
<1>5. CASE Activate
  <2>1. work.revision \in Revisions /\ work = [pc |-> "activate", revision |-> work.revision]
    BY <1>1, <1>5, WorkFields DEF Activate
  <2>2. [work EXCEPT !.pc = "rollback"] = [pc |-> "rollback", revision |-> work.revision]
    BY <2>1
  <2>3. work' \in Works
    BY <1>5, <2>1, <2>2, NextWorks DEF Activate, Report
  <2> QED
    BY <1>0, <1>5, <2>1, <2>3, FaultType DEF Activate, TypeOK
<1>6. CASE RollbackActivation
  <2>1. work.revision \in Revisions
    BY <1>1, <1>6, WorkFields DEF RollbackActivation
  <2>2. work' \in Works
    BY <1>6, <2>1, NextWorks DEF RollbackActivation, Report, Silent
  <2>3. memory \in Stored /\ (Written(memory) \/ Unwritten \/ WrittenUncertain(memory))
    BY <1>6 DEF RollbackActivation, TypeOK
  <2> QED
    BY <1>6, <2>2, <2>3, DiskType DEF RollbackActivation, TypeOK
<1>7. CASE Record
  BY <1>7, NextWorks, FaultType DEF Record, Silent, TypeOK
<1> QED
  BY <1>2, <1>3, <1>4, <1>5, <1>6, <1>7 DEF RuntimeStep

LEMMA AckType ==
    ASSUME TypeOK, NEW a \in Results, IngestAck(a) \/ ReceiveReceipt(a)
    PROVE  TypeOK'
<1>1. a.revision \in Stored
  BY BoundAssumption DEF Results, Revisions, Stored
<1>2. CASE IngestAck(a)
  <2>1. config' \in [desired: Stored, applied: Stored,
                     status: {"none", "PENDING", "APPLIED", "REJECTED"}]
    <3>1. StatusAfter(a.revision) \in {"PENDING", "APPLIED", "REJECTED"}
      BY DEF StatusAfter
    <3>2. \/ UNCHANGED config
          \/ config' = [config EXCEPT !.status = "REJECTED"]
          \/ config' = [config EXCEPT !.applied = a.revision, !.status = StatusAfter(a.revision)]
      BY <1>2 DEF IngestAck, ApplyResult
    <3> QED
      BY <1>1, <3>1, <3>2 DEF TypeOK
  <2>2. ack' \in [Results -> {"none", "stored", "ingested", "deleted"}]
    BY <1>2 DEF IngestAck, TypeOK
  <2> QED
    BY <1>2, <2>1, <2>2 DEF IngestAck, gatewayVars, TypeOK
<1>3. CASE ReceiveReceipt(a)
  BY <1>3 DEF ReceiveReceipt, cloudVars, gatewayVars, TypeOK
<1> QED
  BY <1>2, <1>3

LEMMA RestartType ==
    ASSUME TypeOK, Crash \/ Start
    PROVE  TypeOK'
<1> USE DEF GatewayUnchanged, cloudVars
<1>1. CASE Crash
  BY <1>1, NextWorks, FaultType DEF Crash, TypeOK
<1>2. CASE Start
  BY <1>2, NextWorks DEF Start, TypeOK
<1> QED
  BY <1>1, <1>2

LEMMA StepType ==
    ASSUME TypeOK, [Next]_vars
    PROVE  TypeOK'
<1>1. CASE Next
  BY <1>1, SaveType, RequestType, PublisherType, RowType, RuntimeType, AckType, RestartType DEF Next
<1>2. CASE UNCHANGED vars
  BY <1>2 DEF vars, cloudVars, gatewayVars, TypeOK
<1> QED
  BY <1>1, <1>2
-----------------------------------------------------------------------------
(***************************************************************************)
(* Every action keeps what the disk holds                                  *)
(***************************************************************************)
\* After a write the disk has what it had, or what was written; after one that is
\* done, only that.
LEMMA WriteLeaves ==
    ASSUME TypeOK, HeldInv, NEW b \in Stored, Written(b) \/ Unwritten \/ WrittenUncertain(b)
    PROVE  /\ disk'.visible \in disk'.durable
           /\ disk'.durable \subseteq disk.durable \cup {b}
           /\ Written(b) => disk'.durable = {b}
  BY DEF TypeOK, HeldInv, Written, Unwritten, WrittenUncertain

LEMMA RuntimeHeld ==
    ASSUME TypeOK, HeldInv, TypeOK', RuntimeStep \/ (\E r \in Revisions : Receive(r))
    PROVE  HeldInv' /\ memory' >= memory
<1>1. work \in Works /\ memory \in Nat /\ Revisions \subseteq Stored /\ Stored \subseteq Nat
  BY BoundAssumption DEF TypeOK, Stored, Revisions
<1>2. UNCHANGED <<config, row, publisher, inbox>>
  BY DEF RuntimeStep, Receive, Store, Undo, Activate, RollbackActivation, Record,
         GatewayUnchanged, cloudVars
<1>3. CASE \E r \in Revisions : Receive(r)
  <2>1. PICK r \in Revisions : Receive(r)
    BY <1>3
  <2>2. UNCHANGED <<config, disk, memory, ack>>
    BY <2>1 DEF Receive, GatewayUnchanged, cloudVars
  <2>3. CASE r = memory /\ Report(r, "applied")
    BY <1>1, <2>2, <2>3 DEF HeldInv, Report, Result
  <2>4. CASE Report(r, "rejected")
    BY <1>1, <2>2, <2>4 DEF HeldInv, Report, Result
  <2>5. CASE r > memory /\ work' = [pc |-> "store", revision |-> r, back |-> disk.visible]
    BY <1>1, <2>2, <2>5 DEF HeldInv
  <2> QED
    BY <2>1, <2>3, <2>4, <2>5 DEF Receive
<1>4. CASE Store
  <2>1. work.revision \in Revisions /\ work.back \in Stored
        /\ work = [pc |-> "store", revision |-> work.revision, back |-> work.back]
        /\ work.revision \in Stored
    BY <1>1, <1>4, WorkFields DEF Store
  <2>2. UNCHANGED <<config, memory, ack>>
    BY <1>4 DEF Store, GatewayUnchanged, cloudVars
  <2>3. /\ disk'.visible \in disk'.durable
        /\ disk'.durable \subseteq disk.durable \cup {work.revision}
        /\ Written(work.revision) => disk'.durable = {work.revision}
    BY <1>4, <2>1, WriteLeaves DEF Store
  <2>4. \A d \in disk'.durable : memory <= d
    BY <1>1, <1>4, <2>1, <2>3 DEF HeldInv, Store
  <2>5. CASE Written(work.revision) /\ Activating
    BY <1>1, <1>4, <2>1, <2>2, <2>3, <2>4, <2>5 DEF HeldInv, Activating, Store
  <2>6. CASE Report(work.revision, "rejected")
    BY <1>1, <2>2, <2>3, <2>4, <2>6 DEF HeldInv, Report, Result
  <2>7. CASE work' = [work EXCEPT !.pc = "undo"]
    <3>1. work' = [pc |-> "undo", revision |-> work.revision, back |-> work.back]
      BY <2>1, <2>7
    <3> QED
      BY <1>1, <1>4, <2>1, <2>2, <2>3, <2>4, <3>1 DEF HeldInv, Store
  <2> QED
    BY <1>1, <1>4, <2>2, <2>5, <2>6, <2>7 DEF Store
<1>5. CASE Undo
  <2>1. work.back \in Stored /\ work.back >= memory
    BY <1>1, <1>5, WorkFields DEF Undo, HeldInv
  <2>2. UNCHANGED <<config, memory, ack>> /\ work' = Quiet
    BY <1>5 DEF Undo, Silent, GatewayUnchanged, cloudVars
  <2>3. /\ disk'.visible \in disk'.durable
        /\ disk'.durable \subseteq disk.durable \cup {work.back}
    BY <1>5, <2>1, WriteLeaves DEF Undo
  <2> QED
    BY <1>1, <2>1, <2>2, <2>3 DEF HeldInv, Quiet
<1>6. CASE Activate
  <2>1. work.revision \in Revisions /\ work.revision > memory /\ work.revision \in Nat
        /\ work = [pc |-> "activate", revision |-> work.revision]
    BY <1>1, <1>6, WorkFields DEF Activate, HeldInv
  <2>2. UNCHANGED <<config, disk, ack>>
    BY <1>6 DEF Activate, GatewayUnchanged, cloudVars
  <2>3. CASE memory' = work.revision /\ Report(work.revision, "applied")
    <3>1. config.applied \in Nat /\ (\A a \in Results : a.revision \in Nat)
      BY <1>1 DEF TypeOK, Results
    <3> QED
      BY <1>1, <1>6, <2>1, <2>2, <2>3, <3>1 DEF HeldInv, Report, Result, Activate
  <2>4. CASE work' = [work EXCEPT !.pc = "rollback"] /\ UNCHANGED memory
    <3>1. work' = [pc |-> "rollback", revision |-> work.revision]
      BY <2>1, <2>4
    <3> QED
      BY <1>1, <2>2, <2>4, <3>1 DEF HeldInv
  <2> QED
    BY <1>6, <2>3, <2>4 DEF Activate
<1>7. CASE RollbackActivation
  <2>1. UNCHANGED <<config, memory, ack>>
    BY <1>7 DEF RollbackActivation, GatewayUnchanged, cloudVars
  <2>2. /\ disk'.visible \in disk'.durable
        /\ disk'.durable \subseteq disk.durable \cup {memory}
    BY <1>1, <1>7, WriteLeaves DEF RollbackActivation, TypeOK
  <2>3. work' = Quiet \/ Report(work.revision, "rejected")
    BY <1>7 DEF RollbackActivation, Silent
  <2> QED
    BY <1>1, <2>1, <2>2, <2>3 DEF HeldInv, Quiet, Report, Result
<1>8. CASE Record
  <2>1. UNCHANGED <<config, disk, memory>> /\ work' = Quiet /\ work.pc = "record"
    BY <1>8 DEF Record, Silent, cloudVars
  <2>2. work.result \in Results
    BY <1>1, <2>1, WorkFields
  <2>3. \A a \in Results : ack'[a] # "none" => ack[a] # "none" \/ a = work.result
    BY <1>8 DEF Record, TypeOK
  <2> QED
    BY <1>1, <2>1, <2>2, <2>3 DEF HeldInv, Quiet
<1> QED
  BY <1>3, <1>4, <1>5, <1>6, <1>7, <1>8 DEF RuntimeStep
LEMMA AckHeld ==
    ASSUME TypeOK, HeldInv, NEW a \in Results, IngestAck(a) \/ ReceiveReceipt(a)
    PROVE  HeldInv' /\ UNCHANGED memory
<1>1. UNCHANGED <<disk, memory, work>>
  BY DEF IngestAck, ReceiveReceipt, gatewayVars
<1>2. ack[a] # "none" /\ \A b \in Results : ack'[b] # "none" => ack[b] # "none"
  BY DEF IngestAck, ReceiveReceipt, TypeOK
<1>3. config'.applied = config.applied \/ (a.status = "applied" /\ config'.applied = a.revision)
  BY DEF IngestAck, ReceiveReceipt, ApplyResult, cloudVars, TypeOK, Results
<1>4. config'.applied <= memory
  BY <1>2, <1>3 DEF HeldInv
<1> QED
  BY <1>1, <1>2, <1>4 DEF HeldInv

LEMMA RestartHeld ==
    ASSUME TypeOK, HeldInv, Crash \/ Start
    PROVE  HeldInv' /\ memory' >= memory
<1>1. UNCHANGED <<config, ack>> /\ work'.pc \in {"down", "idle"}
  BY DEF Crash, Start, GatewayUnchanged, cloudVars, Quiet, Down
<1>2. /\ memory \in Nat /\ config.applied \in Nat /\ disk.visible \in Nat
      /\ \A a \in Results : a.revision \in Nat
  BY DEF TypeOK, Stored, Results, Revisions
<1>3. CASE Crash
  <2>1. disk'.visible \in disk'.durable /\ disk'.durable \subseteq disk.durable
    BY <1>3 DEF Crash, HeldInv
  <2> QED
    BY <1>1, <1>2, <1>3, <2>1 DEF Crash, HeldInv
<1>4. CASE Start
  <2>1. disk'.visible = disk.visible /\ disk'.durable = {disk.visible} /\ memory' = disk.visible
    BY <1>4 DEF Start, TypeOK
  <2>2. memory' >= memory /\ memory <= memory'
    BY <1>2, <2>1 DEF HeldInv
  <2> QED
    BY <1>1, <1>2, <2>1, <2>2 DEF HeldInv
<1> QED
  BY <1>3, <1>4

LEMMA StepHeld ==
    ASSUME TypeOK, HeldInv, TypeOK', [Next]_vars
    PROVE  HeldInv' /\ memory' >= memory
<1>0. memory \in Nat
  BY DEF TypeOK, Stored
<1>1. CASE Save \/ SaveUnsupported
  <2>1. config'.applied = config.applied /\ UNCHANGED <<disk, memory, work, ack>>
    BY <1>1 DEF Save, SaveUnsupported, gatewayVars, TypeOK
  <2> QED
    BY <1>0, <2>1 DEF HeldInv
<1>2. CASE \/ Request \/ UNCHANGED vars
           \/ \E p \in Publishers : PublisherStep(p) \/ PublishFails(p) \/ PublisherCrash(p)
           \/ \E r \in Revisions : LeaseExpires(r) \/ Lose(r)
  <2>1. UNCHANGED <<config, disk, memory, work, ack>>
    BY <1>2 DEF Request, vars, cloudVars, gatewayVars, PublisherStep, Claim, Renew, Fence, Send,
                Finish, PublishFails, PublisherCrash, LeaseExpires, Lose, PublisherUnchanged
  <2> QED
    BY <1>0, <2>1 DEF HeldInv
<1>3. CASE RuntimeStep \/ \E r \in Revisions : Receive(r)
  BY <1>3, RuntimeHeld
<1>4. CASE \E a \in Results : IngestAck(a) \/ ReceiveReceipt(a)
  BY <1>0, <1>4, AckHeld
<1>5. CASE Crash \/ Start
  BY <1>5, RestartHeld
<1> QED
  BY <1>1, <1>2, <1>3, <1>4, <1>5 DEF Next

-----------------------------------------------------------------------------
(***************************************************************************)
(* Every action keeps to the revisions made, and the status true           *)
(***************************************************************************)
\* The cloud's changes are of the next revision, which nothing is about.
LEMMA SaveRevision ==
    ASSUME TypeOK, RevisionInv, StatusIsHonest, TypeOK', Save \/ SaveUnsupported
    PROVE  RevisionInv' /\ StatusIsHonest'
<1> DEFINE n == config.desired + 1
           rejection == Result(n, "rejected")
<1>1. /\ config.desired \in Nat /\ config.applied \in Nat /\ n \in Revisions
      /\ \A r \in Revisions : r \in Nat
      /\ \A p \in Publishers : publisher[p].on \in Nat
  <2>1. config.desired \in Nat /\ config.applied \in Nat /\ \A r \in Stored : r \in Nat
    BY DEF TypeOK, Stored
  <2>2. n \in Revisions /\ \A r \in Revisions : r \in Nat
    BY <2>1, BoundAssumption DEF Save, SaveUnsupported, Revisions
  <2>3. \A p \in Publishers : publisher[p].on \in Stored
    BY BatchFields DEF TypeOK
  <2> QED
    BY <2>1, <2>2, <2>3
<1>2. UNCHANGED <<publisher, inbox, work, ack>>
  BY DEF Save, SaveUnsupported, gatewayVars
<1>3. config'.desired = n /\ config'.applied = config.applied
      /\ config'.status \in {"PENDING", "REJECTED"}
  BY DEF Save, SaveUnsupported, TypeOK
<1>4. \A r \in Revisions : row'[r].state # "none" => row[r].state # "none" \/ r = n
  BY <1>1 DEF Save, SaveUnsupported, TypeOK
<1>5. work \in Works /\ (work.pc = "record" => work.result.revision \in Nat)
      /\ (work.pc \in {"store", "undo", "activate", "rollback"} => work.revision \in Nat)
  BY <1>1, WorkFields DEF TypeOK, Results
<1>6. \A a \in Results : a.revision \in Nat
  BY <1>1 DEF Results
<1>7. RevisionInv'
  BY <1>1, <1>2, <1>3, <1>4, <1>5, <1>6 DEF RevisionInv, TypeOK
<1>8. rejection \in Results /\ ack'[rejection] = "none"
  BY <1>1, <1>2 DEF Results, Result, RevisionInv, TypeOK
<1>9. row'[n].state # "none" <=> config'.status = "PENDING"
  <2>1. row[n].state = "none"
    BY <1>1 DEF RevisionInv, TypeOK
  <2>2. CASE Save
    BY <1>1, <2>1, <2>2 DEF Save, TypeOK, Unleased
  <2>3. CASE SaveUnsupported
    BY <1>1, <2>1, <2>3 DEF SaveUnsupported, TypeOK
  <2> QED
    BY <2>2, <2>3
<1>10. StatusIsHonest'
  BY <1>1, <1>3, <1>8, <1>9 DEF StatusIsHonest, RevisionInv
<1> QED
  BY <1>7, <1>10

\* A step that leaves configuration, handler and results alone, and what rows exist.
LEMMA RowsRevision ==
    ASSUME TypeOK, RevisionInv, StatusIsHonest, RowsKept, UNCHANGED <<config, work, ack>>,
           \A r \in inbox' : r <= config.desired,
           \A p \in Publishers : publisher'[p].on <= config.desired
    PROVE  RevisionInv' /\ StatusIsHonest'
<1>1. RevisionInv'
  BY DEF RevisionInv, RowsKept
<1>2. config.desired # 0 => config.desired \in Revisions
  BY BoundAssumption DEF TypeOK, Revisions, Stored
<1>3. config.desired # 0 => (row'[config.desired].state = "none" <=> row[config.desired].state = "none")
  BY <1>2 DEF RowsKept
<1>4. config.desired = 0 => config.status = "none"
  BY DEF RevisionInv
<1>5. StatusIsHonest'
  BY <1>3, <1>4 DEF StatusIsHonest
<1> QED
  BY <1>1, <1>5

LEMMA PublisherRevision ==
    ASSUME TypeOK, RevisionInv, StatusIsHonest, NEW p \in Publishers,
           PublisherStep(p) \/ PublishFails(p) \/ PublisherCrash(p)
    PROVE  RevisionInv' /\ StatusIsHonest'
<1> DEFINE r == publisher[p].on
<1>1. config.desired \in Nat /\ r <= config.desired /\ publisher[p] \in Batches
  BY DEF TypeOK, Stored, RevisionInv
<1>2. UNCHANGED <<config, work, ack>>
  BY DEF PublisherStep, Claim, Renew, Fence, Send, Finish, PublishFails, PublisherCrash,
         PublisherUnchanged, gatewayVars
<1>3. \A m \in inbox' : m <= config.desired
  BY <1>1 DEF RevisionInv, PublisherStep, Claim, Renew, Fence, Send, Finish, PublishFails,
              PublisherCrash
<1>4. \A q \in Publishers : publisher'[q].on <= config.desired
  <2>1. CASE Claim(p) /\ ~UNCHANGED publisher
    <3>1. PICK s \in Revisions : /\ Claimable(s)
                                 /\ publisher' = [publisher EXCEPT ![p] = [pc |-> "renew", on |-> s]]
      BY <2>1 DEF Claim
    <3>2. row[s].state # "none"
      BY <3>1 DEF Claimable, Unleased
    <3>3. s <= config.desired
      BY <3>2 DEF RevisionInv
    <3> QED
      BY <3>1, <3>3 DEF RevisionInv, TypeOK
  <2>2. CASE UNCHANGED publisher
    BY <2>2 DEF RevisionInv
  <2>3. CASE Return(p)
    BY <1>1, <2>3 DEF Return, Idle, RevisionInv, TypeOK
  <2>4. ASSUME NEW pc \in {"fence", "send", "finish"}, Goto(p, pc), publisher[p].pc # "idle"
        PROVE  \A q \in Publishers : publisher'[q].on <= config.desired
    <3>1. publisher[p] = [pc |-> publisher[p].pc, on |-> r]
      BY <1>1, <2>4, BatchFields
    <3>2. publisher'[p].on = r
      BY <2>4, <3>1 DEF Goto, TypeOK
    <3>3. \A q \in Publishers \ {p} : publisher'[q] = publisher[q]
      BY <2>4 DEF Goto, TypeOK
    <3> QED
      BY <3>2, <3>3 DEF RevisionInv
  <2> QED
    BY <2>1, <2>2, <2>3, <2>4 DEF PublisherStep, Renew, Fence, Send, Finish, PublishFails,
                                  PublisherCrash
<1> QED
  BY <1>2, <1>3, <1>4, PublisherType, RowsRevision

LEMMA RowRevision ==
    ASSUME TypeOK, RevisionInv, StatusIsHonest,
           Request \/ \E r \in Revisions : LeaseExpires(r) \/ Lose(r)
    PROVE  RevisionInv' /\ StatusIsHonest'
<1>1. RowsKept
  BY RequestType, RowType
<1>2. UNCHANGED <<config, work, ack, publisher>> /\ inbox' \subseteq inbox
  BY DEF Request, LeaseExpires, Lose, PublisherUnchanged, gatewayVars, cloudVars
<1> QED
  BY <1>1, <1>2, RowsRevision DEF RevisionInv

\* The gateway's steps are about a revision that was sent.
LEMMA GatewayRevision ==
    ASSUME TypeOK, RevisionInv, StatusIsHonest,
           RuntimeStep \/ (\E r \in Revisions : Receive(r)) \/ Crash \/ Start
    PROVE  RevisionInv' /\ StatusIsHonest'
<1>0. work \in Works
  BY DEF TypeOK
<1>1. UNCHANGED <<config, row, publisher, inbox>>
  BY DEF RuntimeStep, Receive, Store, Undo, Activate, RollbackActivation, Record, Crash, Start,
         GatewayUnchanged, cloudVars
<1>2. /\ work'.pc \in {"store", "undo", "activate", "rollback"} => work'.revision <= config.desired
      /\ work'.pc = "record" => work'.result.revision <= config.desired
  <2>1. CASE \E r \in Revisions : Receive(r)
    <3>1. PICK r \in Revisions : Receive(r)
      BY <2>1
    <3>2. r <= config.desired
      BY <3>1 DEF Receive, RevisionInv
    <3> QED
      BY <3>1, <3>2 DEF Receive, Report, Result
  <2>2. CASE Store
    <3>1. /\ work = [pc |-> "store", revision |-> work.revision, back |-> work.back]
          /\ work.revision <= config.desired
      BY <1>0, <2>2, WorkFields DEF Store, RevisionInv
    <3>2. \/ Activating \/ Report(work.revision, "rejected")
          \/ work' = [pc |-> "undo", revision |-> work.revision, back |-> work.back]
      BY <2>2, <3>1 DEF Store
    <3> QED
      BY <3>1, <3>2 DEF Activating, Report, Result
  <2>3. CASE Activate
    <3>1. /\ work = [pc |-> "activate", revision |-> work.revision]
          /\ work.revision <= config.desired
      BY <1>0, <2>3, WorkFields DEF Activate, RevisionInv
    <3>2. \/ Report(work.revision, "applied")
          \/ work' = [pc |-> "rollback", revision |-> work.revision]
      BY <2>3, <3>1 DEF Activate
    <3> QED
      BY <3>1, <3>2 DEF Report, Result
  <2>4. CASE RollbackActivation
    <3>1. work.revision <= config.desired
      BY <2>4 DEF RollbackActivation, RevisionInv
    <3>2. Silent \/ Report(work.revision, "rejected")
      BY <2>4 DEF RollbackActivation
    <3> QED
      BY <3>1, <3>2 DEF Silent, Quiet, Report, Result
  <2>5. CASE Undo \/ Record \/ Crash \/ Start
    BY <2>5 DEF Undo, Record, Crash, Start, Silent, Quiet, Down
  <2> QED
    BY <2>1, <2>2, <2>3, <2>4, <2>5 DEF RuntimeStep
<1>3. \A a \in Results : ack'[a] # ack[a] =>
          ack'[a] = "stored" /\ ack[a] \in {"none", "deleted"} /\ a.revision <= config.desired
  <2>1. CASE UNCHANGED ack
    BY <2>1
  <2>2. CASE Record
    BY <2>2 DEF Record, TypeOK, RevisionInv
  <2> QED
    BY <2>1, <2>2 DEF RuntimeStep, Receive, Store, Undo, Activate, RollbackActivation, Crash,
                      Start, GatewayUnchanged
<1>4. RevisionInv'
  BY <1>1, <1>2, <1>3 DEF RevisionInv
<1>5. config.desired = 0 => config.status = "none"
  BY DEF RevisionInv
<1>6. config.desired # 0 => Result(config.desired, "rejected") \in Results
  BY BoundAssumption DEF TypeOK, Stored, Revisions, Results, Result
<1>7. StatusIsHonest'
  BY <1>1, <1>3, <1>5, <1>6 DEF StatusIsHonest
<1> QED
  BY <1>4, <1>7

LEMMA AckRevision ==
    ASSUME TypeOK, RevisionInv, StatusIsHonest, NEW a \in Results,
           IngestAck(a) \/ ReceiveReceipt(a)
    PROVE  RevisionInv' /\ StatusIsHonest'
<1> DEFINE r == a.revision
           n == config.desired
           rejection == Result(n, "rejected")
<1>1. /\ n \in Nat /\ config.applied \in Nat /\ r \in Nat /\ r # 0
      /\ a.status \in {"applied", "rejected"} /\ a = Result(r, a.status)
  BY BoundAssumption DEF TypeOK, Stored, Results, Revisions, Result
<1>2. UNCHANGED <<row, publisher, inbox, work>>
  BY DEF IngestAck, ReceiveReceipt, gatewayVars, cloudVars
<1>3. ack[a] # "none" /\ r <= n /\ n # 0
  BY <1>1 DEF IngestAck, ReceiveReceipt, RevisionInv
<1>4. \A b \in Results : /\ ack'[b] = "none" <=> ack[b] = "none"
                         /\ ack'[b] # ack[b] => b = a
  BY <1>3 DEF IngestAck, ReceiveReceipt, TypeOK
<1>5. rejection \in Results
  BY <1>3, BoundAssumption DEF TypeOK, Stored, Revisions, Results, Result
<1>6. config.applied <= n
  BY DEF RevisionInv
<1>7. CASE UNCHANGED config
  <2>1. RevisionInv'
    BY <1>2, <1>4, <1>7 DEF RevisionInv
  <2>2. config.status = "PENDING" => ack'[rejection] \in {"none", "stored"}
    <3>1. CASE a # rejection
      BY <1>4, <1>5, <3>1 DEF StatusIsHonest
    <3>2. CASE a = rejection /\ IngestAck(a)
      <4>1. r = n /\ a.status = "rejected"
        BY <3>2 DEF Result
      <4>2. r <= config.applied \/ config' = [config EXCEPT !.status = "REJECTED"]
        BY <3>2, <4>1 DEF IngestAck, ApplyResult
      <4>3. config' = [config EXCEPT !.status = "REJECTED"] => config.status = "REJECTED"
        BY <1>7 DEF TypeOK
      <4>4. r <= config.applied => config.status = "APPLIED"
        BY <1>1, <1>3, <1>6, <4>1 DEF StatusIsHonest
      <4> QED
        BY <4>2, <4>3, <4>4
    <3>3. CASE a = rejection /\ ReceiveReceipt(a)
      BY <3>3 DEF ReceiveReceipt, StatusIsHonest
    <3> QED
      BY <3>1, <3>2, <3>3
  <2>3. StatusIsHonest'
    BY <1>2, <1>4, <1>5, <1>7, <2>2 DEF StatusIsHonest
  <2> QED
    BY <2>1, <2>3
<1>8. CASE ~UNCHANGED config
  <2>1. IngestAck(a) /\ ~(r <= config.applied)
    BY <1>8 DEF IngestAck, ReceiveReceipt, ApplyResult, cloudVars
  <2>2. CASE a.status = "rejected"
    <3>1. r = n /\ config' = [config EXCEPT !.status = "REJECTED"]
      BY <1>8, <2>1, <2>2 DEF IngestAck, ApplyResult
    <3>2. config'.desired = n /\ config'.applied = config.applied /\ config'.status = "REJECTED"
      BY <3>1 DEF TypeOK
    <3>3. ack'[rejection] # "none"
      BY <1>1, <1>3, <1>4, <1>5, <2>2, <3>1
    <3>4. RevisionInv'
      BY <1>2, <1>3, <1>4, <3>2 DEF RevisionInv
    <3>5. StatusIsHonest'
      BY <1>1, <2>1, <3>1, <3>2, <3>3 DEF StatusIsHonest
    <3> QED
      BY <3>4, <3>5
  <2>3. CASE a.status = "applied"
    <3>1. config' = [config EXCEPT !.applied = r, !.status = StatusAfter(r)]
      BY <1>8, <2>1, <2>3 DEF IngestAck, ApplyResult
    <3>2. config'.desired = n /\ config'.applied = r /\ config'.status = StatusAfter(r)
      BY <3>1 DEF TypeOK
    <3>3. ack'[rejection] = ack[rejection]
      BY <1>4, <1>5, <2>3 DEF Result
    <3>4. config.status # "APPLIED" /\ config.status # "none"
      BY <1>1, <1>3, <2>1 DEF StatusIsHonest, RevisionInv
    <3>5. config.status \in {"PENDING", "REJECTED"}
      BY <3>4 DEF TypeOK
    <3>6. RevisionInv'
      BY <1>2, <1>3, <1>4, <3>2 DEF RevisionInv, StatusAfter
    <3>7. StatusIsHonest'
      BY <1>1, <1>2, <1>3, <3>2, <3>3, <3>5 DEF StatusIsHonest, StatusAfter
    <3> QED
      BY <3>6, <3>7
  <2> QED
    BY <1>1, <2>2, <2>3
<1> QED
  BY <1>7, <1>8

LEMMA StepRevision ==
    ASSUME TypeOK, RevisionInv, StatusIsHonest, TypeOK', [Next]_vars
    PROVE  RevisionInv' /\ StatusIsHonest'
<1>1. CASE UNCHANGED vars
  BY <1>1 DEF vars, cloudVars, gatewayVars, RevisionInv, StatusIsHonest
<1>2. CASE Next
  BY <1>2, SaveRevision, PublisherRevision, RowRevision, GatewayRevision, AckRevision DEF Next
<1> QED
  BY <1>1, <1>2

-----------------------------------------------------------------------------
(***************************************************************************)
(* The theorems                                                            *)
(***************************************************************************)
THEOREM Invariance == Spec => []IInv
<1>1. Init => IInv
  BY Initial
<1>2. IInv /\ [Next]_vars => IInv'
  BY StepType, StepHeld, StepRevision DEF IInv
<1> QED
  BY <1>1, <1>2, PTL DEF Spec

\* The state stays well-typed.
THEOREM TypeCorrect == Spec => []TypeOK
<1>1. IInv => TypeOK
  BY DEF IInv
<1> QED
  BY <1>1, Invariance, PTL

\* A revision the cloud shows as applied, or a later one, is in every file that the
\* gateway's disk may come back with: apply, its undo and rollbackActivation never
\* leave one that is older.
THEOREM AppliedConfigurationsAreHeld == Spec => []AppliedIsHeld
<1>1. IInv => AppliedIsHeld
  <2> SUFFICES ASSUME IInv, NEW d \in disk.durable
               PROVE  config.applied <= d
    BY DEF IInv, HeldInv, AppliedIsHeld
  <2>1. config.applied \in Nat /\ memory \in Nat /\ d \in Nat
    BY DEF IInv, TypeOK, Stored
  <2> QED
    BY <2>1 DEF IInv, HeldInv
<1> QED
  BY <1>1, Invariance, PTL

\* onConfigApplied keeps the sync status about the desired revision, whichever
\* results come, in whatever order and however often.
THEOREM StatusIsTrue == Spec => []StatusIsHonest
<1>1. IInv => StatusIsHonest
  BY DEF IInv
<1> QED
  BY <1>1, Invariance, PTL

\* hotReload and initialize never put an older revision to work.
THEOREM ConfigurationNeverGoesBack == Spec => NeverGoesBack
<1>1. IInv /\ [Next]_vars => [memory' >= memory]_memory
  BY StepType, StepHeld DEF IInv
<1> QED
  BY <1>1, Invariance, PTL DEF Spec, NeverGoesBack

-----------------------------------------------------------------------------
(***************************************************************************)
(* The contract                                                            *)
(***************************************************************************)
\* What is on the disk, or would be restored, was made by a user.
MadeInv ==
    /\ \A d \in disk.durable : d <= config.desired
    /\ work.pc \in {"store", "undo"} => work.back <= config.desired

\* Nothing newer than desired runs, then.
LEMMA RunningIsMade ==
    ASSUME IInv, MadeInv
    PROVE  /\ disk.visible <= config.desired /\ memory <= config.desired
           /\ config.applied <= memory /\ memory <= disk.visible
           /\ {config.desired, memory, config.applied, disk.visible} \subseteq Nat
  BY DEF IInv, TypeOK, Stored, HeldInv, MadeInv

LEMMA RuntimeMade ==
    ASSUME IInv, TypeOK', MadeInv, RuntimeStep \/ (\E r \in Revisions : Receive(r))
    PROVE  MadeInv'
<1>0. /\ work \in Works /\ UNCHANGED config
      /\ {config.desired, memory, disk.visible} \subseteq Stored
  BY DEF IInv, TypeOK, RuntimeStep, Receive, Store, Undo, Activate, RollbackActivation, Record,
         GatewayUnchanged, cloudVars
<1>1. CASE \E r \in Revisions : Receive(r)
  <2>1. UNCHANGED disk
    BY <1>1 DEF Receive
  <2>2. work'.pc = "store" => work'.back = disk.visible
    BY <1>1 DEF Receive, Report
  <2>3. work'.pc # "undo"
    BY <1>1 DEF Receive, Report
  <2> QED
    BY <1>0, <2>1, <2>2, <2>3, RunningIsMade DEF MadeInv
<1>2. CASE Store
  <2>1. /\ work = [pc |-> "store", revision |-> work.revision, back |-> work.back]
        /\ work.revision <= config.desired /\ work.revision \in Stored
        /\ work.back <= config.desired
    BY <1>0, <1>2, WorkFields, BoundAssumption DEF Store, IInv, RevisionInv, MadeInv, Revisions, Stored
  <2>2. disk'.durable \subseteq disk.durable \cup {work.revision}
    BY <1>2, <2>1, WriteLeaves DEF Store, IInv
  <2>3. work'.pc \in {"store", "undo"} => work'.back = work.back
    BY <1>2, <2>1 DEF Store, Activating, Report
  <2> QED
    BY <1>0, <2>1, <2>2, <2>3 DEF MadeInv
<1>3. CASE Undo
  <2>1. work.back <= config.desired /\ work.back \in Stored
    BY <1>0, <1>3, WorkFields DEF Undo, MadeInv
  <2>2. disk'.durable \subseteq disk.durable \cup {work.back} /\ work' = Quiet
    BY <1>3, <2>1, WriteLeaves DEF Undo, Silent, IInv
  <2> QED
    BY <1>0, <2>1, <2>2 DEF MadeInv, Quiet
<1>4. CASE RollbackActivation
  <2>1. disk'.durable \subseteq disk.durable \cup {memory}
    BY <1>0, <1>4, WriteLeaves DEF RollbackActivation, IInv
  <2>2. work'.pc \notin {"store", "undo"}
    BY <1>4 DEF RollbackActivation, Silent, Report, Quiet
  <2> QED
    BY <1>0, <2>1, <2>2, RunningIsMade DEF MadeInv
<1>5. CASE Activate \/ Record
  <2>1. UNCHANGED disk
    BY <1>5 DEF Activate, Record
  <2>2. work'.pc \notin {"store", "undo"}
    <3>1. CASE Activate
      <4>1. work = [pc |-> "activate", revision |-> work.revision]
        BY <1>0, <3>1, WorkFields DEF Activate
      <4> QED
        BY <3>1, <4>1 DEF Activate, Report
    <3>2. CASE Record
      BY <3>2 DEF Record, Silent, Quiet
    <3> QED
      BY <1>5, <3>1, <3>2
  <2> QED
    BY <1>0, <2>1, <2>2 DEF MadeInv
<1> QED
  BY <1>1, <1>2, <1>3, <1>4, <1>5 DEF RuntimeStep

LEMMA StepMade ==
    ASSUME IInv, TypeOK', MadeInv, [Next]_vars
    PROVE  MadeInv'
<1>0. config.desired \in Nat /\ \A d \in disk.durable : d \in Nat
  BY DEF IInv, TypeOK, Stored
<1>1. CASE RuntimeStep \/ \E r \in Revisions : Receive(r)
  BY <1>1, RuntimeMade
<1>2. CASE Save \/ SaveUnsupported
  <2>1. config'.desired = config.desired + 1 /\ UNCHANGED <<disk, work>>
    BY <1>2 DEF Save, SaveUnsupported, gatewayVars, IInv, TypeOK
  <2>2. work.pc \in {"store", "undo"} => work.back \in Nat
    BY WorkFields DEF IInv, TypeOK, Stored
  <2> QED
    BY <1>0, <2>1, <2>2 DEF MadeInv
<1>3. CASE Crash \/ Start
  <2>1. UNCHANGED config /\ work'.pc \notin {"store", "undo"}
    BY <1>3 DEF Crash, Start, GatewayUnchanged, cloudVars, Quiet, Down
  <2>2. disk'.durable \subseteq disk.durable
    BY <1>3 DEF Crash, Start, IInv, HeldInv, TypeOK
  <2> QED
    BY <2>1, <2>2 DEF MadeInv
<1>4. CASE UNCHANGED <<disk, work>> /\ config'.desired = config.desired
  BY <1>4 DEF MadeInv
<1>5. ASSUME NEW a \in Results, IngestAck(a) \/ ReceiveReceipt(a)
      PROVE  UNCHANGED <<disk, work>> /\ config'.desired = config.desired
  BY <1>5 DEF IngestAck, ReceiveReceipt, ApplyResult, gatewayVars, cloudVars, IInv, TypeOK
<1>6. CASE \/ Request \/ UNCHANGED vars
           \/ \E p \in Publishers : PublisherStep(p) \/ PublishFails(p) \/ PublisherCrash(p)
           \/ \E r \in Revisions : LeaseExpires(r) \/ Lose(r)
  BY <1>4, <1>6
     DEF Request, vars, cloudVars, gatewayVars, PublisherStep, Claim, Renew, Fence, Send, Finish,
         PublishFails, PublisherCrash, LeaseExpires, Lose, PublisherUnchanged
<1> QED
  BY <1>1, <1>2, <1>3, <1>4, <1>5, <1>6 DEF Next

\* A change, and a result that the cloud takes in.
LEMMA ChangeKeepsContract ==
    ASSUME IInv, Save \/ SaveUnsupported
    PROVE  Contract!Change
  BY DEF IInv, TypeOK, Save, SaveUnsupported, gatewayVars, Contract!Change

LEMMA ResultKeepsContract ==
    ASSUME IInv, MadeInv, NEW a \in Results, IngestAck(a)
    PROVE  [Contract!Next]_(Contract!vars)
<1>1. /\ a.revision \in Nat /\ a.revision # 0 /\ a.status \in {"applied", "rejected"}
      /\ {config.desired, config.applied, memory} \subseteq Nat
  BY BoundAssumption DEF IInv, TypeOK, Results, Revisions, Stored
<1>2. /\ UNCHANGED memory /\ ack[a] # "none" /\ a.revision <= config.desired
      /\ a.status = "applied" => a.revision <= memory
  BY DEF IngestAck, gatewayVars, IInv, RevisionInv, HeldInv
<1>3. CASE UNCHANGED config
  BY <1>2, <1>3 DEF Contract!vars
<1>4. CASE a.status = "rejected" /\ a.revision > config.applied /\ a.revision = config.desired
           /\ config' = [config EXCEPT !.status = "REJECTED"]
  <2>1. /\ config'.desired = config.desired /\ config'.applied = config.applied
        /\ config'.status = "REJECTED"
    BY <1>4 DEF IInv, TypeOK
  <2>2. Contract!LearnRejected
    BY <1>1, <1>2, <1>4, <2>1 DEF Contract!LearnRejected
  <2> QED
    BY <2>2 DEF Contract!Next
<1>5. CASE /\ a.status = "applied" /\ a.revision > config.applied
           /\ config' = [config EXCEPT !.applied = a.revision, !.status = StatusAfter(a.revision)]
  <2>1. /\ config'.desired = config.desired /\ config'.applied = a.revision
        /\ config'.status = StatusAfter(a.revision)
    BY <1>5 DEF IInv, TypeOK
  <2>2. config.status \in {"PENDING", "REJECTED"}
    BY <1>1, <1>2, <1>5 DEF IInv, TypeOK, StatusIsHonest, RevisionInv
  <2>3. StatusAfter(a.revision) = IF a.revision = config.desired THEN "APPLIED" ELSE config.status
    BY <2>2 DEF StatusAfter
  <2>4. a.revision \in config.applied + 1 .. memory
    BY <1>1, <1>2, <1>5
  <2>5. Contract!LearnApplied
    BY <1>2, <2>1, <2>3, <2>4 DEF Contract!LearnApplied
  <2> QED
    BY <2>5 DEF Contract!Next
<1> QED
  BY <1>1, <1>3, <1>4, <1>5 DEF IngestAck, ApplyResult, IInv, TypeOK

\* Activate and Start put a newer revision to work, or the same.
LEMMA RunKeepsContract ==
    ASSUME IInv, MadeInv, Activate \/ Start
    PROVE  [Contract!Next]_(Contract!vars)
<1>1. UNCHANGED config
  BY DEF Activate, Start, GatewayUnchanged, cloudVars
<1>2. {config.desired, memory, disk.visible} \subseteq Nat
  BY RunningIsMade
<1>3. memory' = memory \/ memory' \in memory + 1 .. config.desired
  <2>1. CASE Activate
    <3>1. work.revision \in Revisions /\ work.revision > memory /\ work.revision <= config.desired
      BY <2>1, WorkFields DEF Activate, IInv, TypeOK, HeldInv, RevisionInv
    <3>2. work.revision \in memory + 1 .. config.desired
      BY <1>2, <3>1 DEF Revisions
    <3> QED
      BY <2>1, <3>2 DEF Activate
  <2>2. CASE Start
    BY <1>2, <2>2, RunningIsMade DEF Start
  <2> QED
    BY <2>1, <2>2
<1> QED
  BY <1>1, <1>3 DEF Contract!Next, Contract!PutToWork, Contract!vars

\* Whatever publishers, messages and disks do: the gateway puts newer revisions
\* to work that users have made, and the cloud learns of those only.
THEOREM ConfigurationsKeepContract == Spec => ImplementsContract
<1>1. Init => IInv /\ MadeInv /\ Contract!Init
  <2>1. Init => MadeInv /\ Contract!Init
    BY DEF Init, MadeInv, Quiet, Contract!Init
  <2> QED
    BY <2>1, Initial
<1>2. IInv /\ MadeInv /\ [Next]_vars => IInv' /\ MadeInv'
  BY StepType, StepHeld, StepRevision, StepMade DEF IInv
<1>3. ASSUME IInv, MadeInv, [Next]_vars PROVE [Contract!Next]_(Contract!vars)
  <2>1. CASE UNCHANGED <<config, memory>>
    BY <2>1 DEF Contract!vars
  <2>2. \/ Save \/ SaveUnsupported \/ Activate \/ Start \/ UNCHANGED <<config, memory>>
        \/ \E a \in Results : IngestAck(a)
    BY <1>3
       DEF Next, vars, cloudVars, gatewayVars, GatewayUnchanged, PublisherUnchanged, Request,
           PublisherStep, Claim, Renew, Fence, Send, Finish, PublishFails, PublisherCrash,
           LeaseExpires, Lose, Receive, RuntimeStep, Store, Undo, RollbackActivation, Record,
           ReceiveReceipt, Crash
  <2> QED
    BY <1>3, <2>1, <2>2, ChangeKeepsContract, ResultKeepsContract, RunKeepsContract
       DEF Contract!Next
<1> QED
  BY <1>1, <1>2, <1>3, PTL DEF Spec, ImplementsContract, Contract!Spec

\* Who keeps the contract is never ahead of the users, and the cloud never ahead of
\* the gateway.
LEMMA ContractIsInOrder == Contract!Spec => []Contract!InOrder
<1> DEFINE CInv == Contract!TypeOK /\ Contract!InOrder
<1>1. Contract!Init => CInv
  BY DEF Contract!Init, Contract!TypeOK, Contract!InOrder
<1>2. ASSUME CInv, [Contract!Next]_(Contract!vars) PROVE CInv'
  <2>1. CASE Contract!Change
    BY <1>2, <2>1 DEF Contract!Change, Contract!TypeOK, Contract!InOrder
  <2>2. CASE Contract!PutToWork
    BY <1>2, <2>2 DEF Contract!PutToWork, Contract!TypeOK, Contract!InOrder
  <2>3. CASE Contract!LearnApplied
    BY <1>2, <2>3 DEF Contract!LearnApplied, Contract!TypeOK, Contract!InOrder
  <2>4. CASE Contract!LearnRejected
    BY <1>2, <2>4 DEF Contract!LearnRejected, Contract!TypeOK, Contract!InOrder
  <2>5. CASE UNCHANGED Contract!vars
    BY <1>2, <2>5 DEF Contract!vars, Contract!TypeOK, Contract!InOrder
  <2> QED
    BY <1>2, <2>1, <2>2, <2>3, <2>4, <2>5 DEF Contract!Next
<1>3. CInv => Contract!InOrder
  OBVIOUS
<1> QED
  BY <1>1, <1>2, <1>3, PTL DEF Contract!Spec

\* What the cloud shows as applied never exceeds what runs, what runs never exceeds
\* what users made, and "APPLIED" is shown just when both are the desired revision.
THEOREM RevisionsAreInOrder == Spec => []Contract!InOrder
  BY ConfigurationsKeepContract, ContractIsInOrder, PTL DEF ImplementsContract
=============================================================================
