------------------------ MODULE GatewayCommandProofs ------------------------
(***************************************************************************)
(* Proofs about GatewayCommand for every set of commands and fixtures, any *)
(* number of deliveries and restarts, with or without a permit.            *)
(***************************************************************************)
EXTENDS GatewayCommand, SequenceTheorems, TLAPS

(***************************************************************************)
(* The inductive invariant: what the journal record, the history of its    *)
(* pruning and the position of the live handler say together about the     *)
(* physical execution of a command.                                        *)
(***************************************************************************)
NotStarted(c) == starts[c] = 0 /\ written[c] = {}

\* Records are pruned behind the delivery window only.
PrunedIsExpired(c) == pruned[c] => expired[c]

\* What each record, live handler or not, says about the adapter.
RecordInv(c) ==
    /\ starts[c] <= 1
    /\ starts[c] = 0 => written[c] = {}
    /\ journal[c].state = "none" /\ ~pruned[c] => NotStarted(c)
    /\ journal[c].state = "accepted" => ~pruned[c]
    /\ journal[c].abort # "none" => journal[c].state = "completed"
    /\ journal[c].state = "accepted"
       /\ (journal[c].phase = "pre_rf" \/ journal[c].acceptance = "rejected")
          => NotStarted(c)
    /\ journal[c].state = "completed" /\ journal[c].acceptance = "rejected"
       /\ ~pruned[c] => written[c] = {}

\* Where a live handler stands, its record has not moved on.
HandlerInv(c) ==
    /\ task[c].pc = "intake" => journal[c].state = "none"
    /\ task[c].pc = "ready" => journal[c].state = "none" /\ ~pruned[c]
    /\ task[c].pc = "reject" =>
          journal[c].state = "accepted" /\ journal[c].acceptance = "rejected"
    /\ task[c].pc = "refuse" =>
          journal[c].state # "none" /\ (pruned[c] \/ NotStarted(c))
    /\ task[c].pc \in {"accepted", "acking", "acked", "prepared", "marked"} =>
          /\ journal[c].state = "accepted" /\ journal[c].acceptance = "accepted"
          /\ NotStarted(c)
    /\ task[c].pc = "applying" =>
          /\ journal[c].state = "accepted" /\ journal[c].acceptance = "accepted"
          /\ journal[c].phase # "pre_rf" /\ starts[c] = 1
          /\ ~task[c].wrote => written[c] = {}
    /\ task[c].pc = "refuseAbort" => journal[c].state = "accepted" /\ written[c] = {}
    /\ task[c].pc = "finish" => journal[c].state = "accepted"
    /\ task[c].pc \in {"abort", "abortMark", "handoff", "handoffMark"} =>
          journal[c].state = "completed"
    /\ task[c].pc = "prepared" /\ ~Permit => journal[c].phase # "pre_rf"
    /\ task[c].pc = "marked" => journal[c].phase # "pre_rf"
    /\ task[c].pc \in {"accepted", "acking", "acked"} /\ ~Permit =>
          journal[c].phase # "pre_rf"

LifeCycle(c) == PrunedIsExpired(c) /\ RecordInv(c) /\ HandlerInv(c)

LifeCycleInv == \A c \in Commands : LifeCycle(c)

(***************************************************************************)
(* Type correctness                                                        *)
(***************************************************************************)
LEMMA NoTaskType == NoTask \in Tasks
BY DEF NoTask, Tasks, Pcs, Reports, NoReports, Statuses

LEMMA NoRecordType == NoRecord \in Records
BY DEF NoRecord, Records, Reports, NoReports, Statuses, Acceptances

LEMMA AllReportType ==
    ASSUME NEW c \in Commands, NEW s \in Statuses
    PROVE  AllReport(c, s) \in Reports
BY DEF AllReport, Reports, Statuses

LEMMA RefusalType ==
    ASSUME TypeOK, NEW c \in Commands
    PROVE  /\ Refusal(c) \in Records
           /\ [Refusal(c) EXCEPT !.abort = "pending"] \in Records
<1>1. journal[c] \in Records /\ AllReport(c, "failed") \in Reports
  BY AllReportType DEF TypeOK, Statuses
<1>2. Refusal(c) \in Records
  BY <1>1 DEF Refusal, Records, Acceptances
<1> QED
  BY <1>2 DEF Records

LEMMA PcType == ASSUME NEW t \in Tasks, NEW pc \in Pcs PROVE [t EXCEPT !.pc = pc] \in Tasks
BY DEF Tasks

LEMMA DequeuedType ==
    ASSUME NEW l \in BOOLEAN, NEW pc \in Pcs
    PROVE  [NoTask EXCEPT !.pc = pc, !.latched = l] \in Tasks
BY NoTaskType DEF Tasks

LEMMA TaskFlagType ==
    ASSUME TypeOK, NEW c \in Commands
    PROVE  /\ task[c] \in Tasks /\ journal[c] \in Records
           /\ [task[c] EXCEPT !.pc = "acked", !.acked = TRUE] \in Tasks
           /\ [task[c] EXCEPT !.vetoed = TRUE] \in Tasks
           /\ [task[c] EXCEPT !.wrote = TRUE] \in Tasks
<1>1. task[c] \in Tasks /\ journal[c] \in Records
  BY DEF TypeOK
<1> QED
  BY <1>1 DEF Tasks, Pcs

LEMMA RecordFieldType ==
    ASSUME NEW r \in Records
    PROVE  /\ [r EXCEPT !.phase = "may_have_written"] \in Records
           /\ [r EXCEPT !.abort = "completed"] \in Records
           /\ [r EXCEPT !.handoff = "completed"] \in Records
BY DEF Records

LEMMA GotoType ==
    ASSUME TypeOK, NEW c \in Commands, NEW pc \in Pcs, Goto(c, pc)
    PROVE  task' \in [Commands -> Tasks]
<1>1. [task[c] EXCEPT !.pc = pc] \in Tasks
  BY PcType DEF TypeOK
<1> QED
  BY <1>1 DEF Goto, TypeOK

\* The handler goes on to complete the record with the given reports.
LEMMA FinishType ==
    ASSUME TypeOK, NEW c \in Commands, NEW r \in Reports,
           task' = [task EXCEPT ![c].pc = "finish", ![c].reports = r]
    PROVE  task' \in [Commands -> Tasks]
<1>1. task[c] \in Tasks
  BY DEF TypeOK
<1>2. [task[c] EXCEPT !.pc = "finish", !.reports = r] \in Tasks
  BY <1>1 DEF Tasks, Pcs
<1> QED
  BY <1>2 DEF TypeOK

LEMMA EndType ==
    ASSUME TypeOK, NEW c \in Commands, task' = [task EXCEPT ![c] = NoTask]
    PROVE  task' \in [Commands -> Tasks]
BY NoTaskType DEF TypeOK

LEMMA ReturnType ==
    ASSUME TypeOK, NEW c \in Commands, NEW a, Return(c, a)
    PROVE  /\ task' \in [Commands -> Tasks]
           /\ replies' \in [Commands -> SUBSET {"acceptance", "status"}]
BY NoTaskType DEF Return, TypeOK

LEMMA FailureType ==
    ASSUME TypeOK, NEW c \in Commands, NEW w \in BOOLEAN, ExecutionFails(c, w)
    PROVE  task' \in [Commands -> Tasks]
<1>1. CASE Goto(c, "refuseAbort")
  BY <1>1, GotoType DEF Pcs
<1>2. CASE task' = [task EXCEPT ![c].pc = "finish",
              ![c].reports = AllReport(c, IF task[c].wrote \/ w
                                          THEN "timed_out" ELSE "failed")]
  <2>1. AllReport(c, IF task[c].wrote \/ w THEN "timed_out" ELSE "failed") \in Reports
    BY AllReportType DEF Statuses
  <2> QED
    BY <1>2, <2>1, FinishType
<1> QED
  BY <1>1, <1>2 DEF ExecutionFails

LEMMA WriteThroughType ==
    ASSUME TypeOK, NEW o \in [Fixtures -> Commands \cup {NoCommand}], WriteThrough(o)
    PROVE  /\ pendingMem' \in [Fixtures -> Commands \cup {NoCommand}]
           /\ pendingDisk' \in [Fixtures -> Commands \cup {NoCommand}]
BY DEF WriteThrough, TypeOK

LEMMA ReleasedType ==
    ASSUME TypeOK, NEW fs
    PROVE  Released(fs) \in [Fixtures -> Commands \cup {NoCommand}]
BY DEF Released, TypeOK

LEMMA TypeInit == Init => TypeOK
BY NoTaskType, NoRecordType, BoundAssumption DEF Init, TypeOK

LEMMA TypeNext == TypeOK /\ [Next]_vars => TypeOK'
<1> SUFFICES ASSUME TypeOK, [Next]_vars PROVE TypeOK'
  OBVIOUS
<1> USE DEF processVars, envVars, brokerVars, physVars, autoVars, ackVars,
            recordVars, handlerVars, vars
<1>1. ASSUME NEW c \in Commands, Dequeue(c) PROVE TypeOK'
  <2>1. waiting[c] \in Seq(BOOLEAN) /\ waiting[c] # <<>>
    BY <1>1 DEF Dequeue, TypeOK
  <2>2. Head(waiting[c]) \in BOOLEAN /\ Tail(waiting[c]) \in Seq(BOOLEAN)
    BY <2>1, HeadTailProperties
  <2>3. [NoTask EXCEPT !.pc = "lookup", !.latched = Head(waiting[c])] \in Tasks
    BY <2>2, DequeuedType DEF Pcs
  <2> QED
    BY <1>1, <2>1, <2>2, <2>3 DEF Dequeue, TypeOK
<1>2. ASSUME NEW c \in Commands, Lookup(c) PROVE TypeOK'
  <2>1. /\ task' \in [Commands -> Tasks]
        /\ replies' \in [Commands -> SUBSET {"acceptance", "status"}]
    <3>1. CASE journal[c].state = "none"
      BY <1>2, <3>1, GotoType DEF Lookup, Pcs, TypeOK
    <3>2. CASE journal[c].state = "completed"
      BY <1>2, <3>2, GotoType, ReturnType DEF Lookup, Pcs, TypeOK
    <3>3. CASE journal[c].state = "accepted"
      <4>1. AllReport(c, "timed_out") \in Reports
        BY AllReportType DEF Statuses
      <4> QED
        BY <1>2, <3>3, <4>1, GotoType, FinishType DEF Lookup, Pcs, TypeOK
    <3> QED
      BY <1>2, <3>1, <3>2, <3>3 DEF Lookup
  <2>2. pubacked' \in [Commands -> BOOLEAN]
    BY <1>2 DEF Lookup, Durable, TypeOK
  <2> QED
    BY <1>2, <2>1, <2>2 DEF Lookup, TypeOK
<1>3. ASSUME NEW c \in Commands, PassIntake(c) PROVE TypeOK'
  BY <1>3, GotoType DEF PassIntake, TypeOK, Pcs
<1>4. ASSUME NEW c \in Commands, AdmissionRefused(c) PROVE TypeOK'
  <2>1. task' \in [Commands -> Tasks]
    BY <1>4, GotoType DEF AdmissionRefused, Pcs
  <2>2. Refusal(c) \in Records
    BY RefusalType
  <2> QED
    BY <1>4, <2>1, <2>2 DEF AdmissionRefused, TypeOK
<1>5. ASSUME NEW c \in Commands, RejectBeforeExecution(c) PROVE TypeOK'
  <2>1. task' \in [Commands -> Tasks]
    BY <1>5, GotoType DEF RejectBeforeExecution, Pcs
  <2>2. [NoRecord EXCEPT !.state = "accepted", !.acceptance = "rejected"] \in Records
    BY NoRecordType DEF Records, Acceptances
  <2> QED
    BY <1>5, <2>1, <2>2 DEF RejectBeforeExecution, TypeOK
<1>6. ASSUME NEW c \in Commands, Accept(c) PROVE TypeOK'
  <2>1. task' \in [Commands -> Tasks]
    BY <1>6, GotoType DEF Accept, Pcs
  <2>2. [NoRecord EXCEPT !.state = "accepted", !.acceptance = "accepted",
                         !.phase = IF Permit THEN "pre_rf" ELSE "none"] \in Records
    BY NoRecordType DEF Records, Acceptances
  <2> QED
    BY <1>6, <2>1, <2>2 DEF Accept, TypeOK
<1>7. ASSUME NEW c \in Commands, ReleasePuback(c) PROVE TypeOK'
  <2>1. (IF Refused(c) THEN "refuse" ELSE "acking") \in Pcs
    BY DEF Pcs
  <2>2. task' \in [Commands -> Tasks]
    BY <1>7, <2>1, GotoType DEF ReleasePuback
  <2> QED
    BY <1>7, <2>2 DEF ReleasePuback, Durable, TypeOK
<1>8. ASSUME NEW c \in Commands, PublishAcceptance(c) PROVE TypeOK'
  <2>1. [task[c] EXCEPT !.pc = "acked", !.acked = TRUE] \in Tasks
    BY TaskFlagType
  <2> QED
    BY <1>8, <2>1 DEF PublishAcceptance, TypeOK, Acceptances
<1>9. ASSUME NEW c \in Commands, Recheck(c) PROVE TypeOK'
  BY <1>9, GotoType DEF Recheck, TypeOK, Pcs
<1>10. ASSUME NEW c \in Commands, Prepare(c) PROVE TypeOK'
  <2>1. task' \in [Commands -> Tasks]
    BY <1>10, GotoType DEF Prepare, Pcs
  <2>2. /\ pendingMem' \in [Fixtures -> Commands \cup {NoCommand}]
        /\ pendingDisk' \in [Fixtures -> Commands \cup {NoCommand}]
    BY <1>10 DEF Prepare, WriteThrough, TypeOK
  <2> QED
    BY <1>10, <2>1, <2>2 DEF Prepare, TypeOK
<1>11. ASSUME NEW c \in Commands, PrepareFails(c) PROVE TypeOK'
  <2>1. AllReport(c, "failed") \in Reports
    BY AllReportType DEF Statuses
  <2>2. task' \in [Commands -> Tasks]
    BY <1>11, <2>1, FinishType DEF PrepareFails
  <2> QED
    BY <1>11, <2>1, <2>2 DEF PrepareFails, TypeOK
<1>12. ASSUME NEW c \in Commands, MarkExecutionMayHaveStarted(c) PROVE TypeOK'
  <2>1. task' \in [Commands -> Tasks]
    BY <1>12, GotoType DEF MarkExecutionMayHaveStarted, Pcs
  <2>2. [journal[c] EXCEPT !.phase = "may_have_written"] \in Records
    BY TaskFlagType, RecordFieldType
  <2> QED
    BY <1>12, <2>1, <2>2 DEF MarkExecutionMayHaveStarted, TypeOK
<1>13. ASSUME NEW c \in Commands, StartExecution(c) PROVE TypeOK'
  <2>1. task' \in [Commands -> Tasks]
    BY <1>13, GotoType DEF StartExecution, Pcs
  <2>2. starts' \in [Commands -> Nat]
    BY <1>13 DEF StartExecution, TypeOK
  <2>3. adapter' \in [Commands -> {"idle", "running"}]
    BY <1>13 DEF StartExecution, TypeOK
  <2> QED
    BY <1>13, <2>1, <2>2, <2>3 DEF StartExecution, TypeOK
<1>14. ASSUME NEW c \in Commands, AdapterReports(c) PROVE TypeOK'
  <2>1. CASE RefusedUnwritten(c)
    BY <1>14, <2>1, GotoType DEF AdapterReports, Pcs, TypeOK
  <2>2. CASE ~RefusedUnwritten(c)
    <3>1. PICK r \in [Targets[c] -> Statuses \ {"none"}] :
              task' = [task EXCEPT ![c].pc = "finish",
                           ![c].reports = [f \in Fixtures |->
                               IF f \in Targets[c] THEN r[f] ELSE "none"]]
      BY <1>14, <2>2 DEF AdapterReports
    <3>2. [f \in Fixtures |-> IF f \in Targets[c] THEN r[f] ELSE "none"] \in Reports
      BY DEF Reports, Statuses
    <3>3. task' \in [Commands -> Tasks]
      BY <3>1, <3>2, FinishType
    <3> QED
      BY <1>14, <3>3 DEF AdapterReports, TypeOK
  <2> QED
    BY <2>1, <2>2
<1>15. ASSUME NEW c \in Commands, AdapterThrows(c) PROVE TypeOK'
  BY <1>15, FailureType DEF AdapterThrows, TypeOK
<1>16. ASSUME NEW c \in Commands, Watchdog(c) PROVE TypeOK'
  BY <1>16, FailureType DEF Watchdog, TypeOK
<1>17. ASSUME NEW c \in Commands, CompleteRefusal(c) PROVE TypeOK'
  BY <1>17, RefusalType, ReturnType DEF CompleteRefusal, Durable, TypeOK
<1>18. ASSUME NEW c \in Commands, CompleteRejection(c) PROVE TypeOK'
  BY <1>18, RefusalType, ReturnType DEF CompleteRejection, TypeOK
<1>19. ASSUME NEW c \in Commands, CompleteWithAbort(c) PROVE TypeOK'
  BY <1>19, RefusalType, GotoType DEF CompleteWithAbort, Pcs, TypeOK
<1>20. ASSUME NEW c \in Commands, AbortManualControl(c) PROVE TypeOK'
  <2>1. task' \in [Commands -> Tasks]
    BY <1>20, GotoType DEF AbortManualControl, Pcs
  <2>2. pendingMem' \in [Fixtures -> Commands \cup {NoCommand}]
    BY <1>20, ReleasedType DEF AbortManualControl
  <2> QED
    BY <1>20, <2>1, <2>2 DEF AbortManualControl, TypeOK
<1>21. ASSUME NEW c \in Commands, MarkAutomationAbortComplete(c) PROVE TypeOK'
  <2>1. /\ task' \in [Commands -> Tasks]
        /\ replies' \in [Commands -> SUBSET {"acceptance", "status"}]
    BY <1>21, ReturnType, EndType DEF MarkAutomationAbortComplete, ReturnOrRecoverNext, TypeOK
  <2>2. [journal[c] EXCEPT !.abort = "completed"] \in Records
    BY TaskFlagType, RecordFieldType
  <2> QED
    BY <1>21, <2>1, <2>2 DEF MarkAutomationAbortComplete, TypeOK
<1>22. ASSUME NEW c \in Commands, CompleteWithHandoff(c) PROVE TypeOK'
  <2>1. task' \in [Commands -> Tasks]
    BY <1>22, GotoType DEF CompleteWithHandoff, Pcs
  <2>2. /\ journal[c] \in Records
        /\ task[c].reports \in Reports
    BY DEF TypeOK, Tasks
  <2>3. [journal[c] EXCEPT !.state = "completed", !.reports = task[c].reports,
                            !.handoff = "pending"] \in Records
    BY <2>2 DEF Records
  <2> QED
    BY <1>22, <2>1, <2>2, <2>3 DEF CompleteWithHandoff, TypeOK
<1>23. ASSUME NEW c \in Commands, HandoffManualTerminal(c) PROVE TypeOK'
  <2>1. task' \in [Commands -> Tasks]
    BY <1>23, GotoType DEF HandoffManualTerminal, Pcs
  <2>2. /\ pendingMem' \in [Fixtures -> Commands \cup {NoCommand}]
        /\ pendingDisk' \in [Fixtures -> Commands \cup {NoCommand}]
    BY <1>23, ReleasedType, WriteThroughType DEF HandoffManualTerminal
  <2> QED
    BY <1>23, <2>1, <2>2 DEF HandoffManualTerminal, TypeOK
<1>24. ASSUME NEW c \in Commands, MarkAutomationHandoffComplete(c) PROVE TypeOK'
  <2>1. /\ task' \in [Commands -> Tasks]
        /\ replies' \in [Commands -> SUBSET {"acceptance", "status"}]
    BY <1>24, ReturnType, EndType DEF MarkAutomationHandoffComplete, ReturnOrRecoverNext, TypeOK
  <2>2. [journal[c] EXCEPT !.handoff = "completed"] \in Records
    BY TaskFlagType, RecordFieldType
  <2> QED
    BY <1>24, <2>1, <2>2 DEF MarkAutomationHandoffComplete, TypeOK
<1>25. ASSUME NEW c \in Commands, HandoffFails(c) PROVE TypeOK'
  BY <1>25, ReturnType DEF HandoffFails, TypeOK
<1>26. ASSUME NEW c \in Commands, HandlerThrows(c) PROVE TypeOK'
  BY <1>26, EndType DEF HandlerThrows, TypeOK
<1>27. ASSUME NEW c \in Commands, PublishFinalAcceptance(c) PROVE TypeOK'
  <2>1. journal[c].acceptance \in Acceptances
    BY DEF TypeOK, Records
  <2> QED
    BY <1>27, <2>1 DEF PublishFinalAcceptance, TypeOK
<1>28. ASSUME NEW c \in Commands, PublishStatus(c) PROVE TypeOK'
  <2>1. journal[c].reports \in Reports
    BY DEF TypeOK, Records
  <2> QED
    BY <1>28, <2>1 DEF PublishStatus, Durable, TypeOK
<1>29. ASSUME NEW c \in Commands, PublishFails(c) PROVE TypeOK'
  BY <1>29 DEF PublishFails, TypeOK
<1>30. ASSUME NEW c \in Commands, Recover(c) PROVE TypeOK'
  <2>1. AllReport(c, "timed_out") \in Reports
    BY AllReportType DEF Statuses
  <2>2. task' \in [Commands -> Tasks]
    BY <1>30, <2>1, GotoType, FinishType DEF Recover, Pcs
  <2> QED
    BY <1>30, <2>1, <2>2 DEF Recover, TypeOK
<1>31. ASSUME NEW c \in Commands, Deliver(c) PROVE TypeOK'
  <2>1. PermitRefuses(c) \in BOOLEAN
    BY FlagAssumption DEF PermitRefuses, TypeOK
  <2>2. waiting' \in [Commands -> Seq(BOOLEAN)]
    BY <1>31, <2>1 DEF Deliver, TypeOK
  <2>3. deliveries' \in [Commands -> 0..MaxDeliveries]
    BY <1>31, BoundAssumption DEF Deliver, TypeOK
  <2> QED
    BY <1>31, <2>1, <2>2, <2>3 DEF Deliver, TypeOK
<1>32. ASSUME NEW c \in Commands, Veto(c) PROVE TypeOK'
  <2>1. [task[c] EXCEPT !.vetoed = TRUE] \in Tasks
    BY TaskFlagType
  <2> QED
    BY <1>32, <2>1 DEF Veto, TypeOK
<1>33. ASSUME NEW c \in Commands, AdapterEndsLate(c) PROVE TypeOK'
  BY <1>33 DEF AdapterEndsLate, TypeOK
<1>34. ASSUME NEW c \in Commands, Expire(c) PROVE TypeOK'
  BY <1>34 DEF Expire, TypeOK
<1>35. ASSUME NEW c \in Commands, Prune(c) PROVE TypeOK'
  BY <1>35, NoRecordType DEF Prune, TypeOK
<1>36. ASSUME NEW c \in Commands, NEW f \in Fixtures, Write(c, f) PROVE TypeOK'
  <2>1. [task[c] EXCEPT !.wrote = TRUE] \in Tasks
    BY TaskFlagType
  <2> QED
    BY <1>36, <2>1 DEF Write, TypeOK
<1>37. ASSUME NEW f \in Fixtures, SettleByObservation(f) PROVE TypeOK'
  BY <1>37, ReleasedType, WriteThroughType DEF SettleByObservation, TypeOK
<1>38. CASE OpenIntake
  BY <1>38 DEF OpenIntake, TypeOK
<1>39. CASE Crash
  BY <1>39, NoTaskType, BoundAssumption DEF Crash, TypeOK
<1>40. CASE GateChange
  BY <1>40 DEF GateChange, TypeOK
<1>41. CASE UNCHANGED vars
  BY <1>41 DEF TypeOK
<1> QED
  BY <1>1, <1>2, <1>3, <1>4, <1>5, <1>6, <1>7, <1>8, <1>9, <1>10, <1>11,
     <1>12, <1>13, <1>14, <1>15, <1>16, <1>17, <1>18, <1>19, <1>20, <1>21,
     <1>22, <1>23, <1>24, <1>25, <1>26, <1>27, <1>28, <1>29, <1>30, <1>31,
     <1>32, <1>33, <1>34, <1>35, <1>36, <1>37, <1>38, <1>39, <1>40, <1>41
     DEF Next, HandlerStep

\* Every reachable state is well typed, for any number of commands and fixtures.
THEOREM TypeCorrect == Spec => []TypeOK
BY TypeInit, TypeNext, PTL DEF Spec

(***************************************************************************)
(* The life cycle of a command                                             *)
(***************************************************************************)
\* The invariant speaks of nothing else of a command.
Untouched(c) ==
    /\ journal'[c] = journal[c] /\ pruned'[c] = pruned[c]
    /\ task'[c].pc = task[c].pc /\ task'[c].wrote = task[c].wrote
    /\ written'[c] = written[c] /\ starts'[c] = starts[c]
    /\ expired[c] => expired'[c]

LEMMA UntouchedKeeps ==
    ASSUME NEW c \in Commands, LifeCycle(c), Untouched(c)
    PROVE  LifeCycle(c)'
BY DEF LifeCycle, Untouched, PrunedIsExpired, RecordInv, HandlerInv, NotStarted

LEMMA QuietStep ==
    ASSUME LifeCycleInv, \A d \in Commands : Untouched(d)
    PROVE  LifeCycleInv'
BY UntouchedKeeps DEF LifeCycleInv

LEMMA LocalStep ==
    ASSUME LifeCycleInv, NEW c \in Commands, LifeCycle(c)',
           \A d \in Commands \ {c} : Untouched(d)
    PROVE  LifeCycleInv'
BY UntouchedKeeps DEF LifeCycleInv

\* The handler of c moves to pc, nothing else of the invariant's state changes.
Moves(c, pc) ==
    /\ task'[c].pc = pc /\ task'[c].wrote = task[c].wrote
    /\ \A d \in Commands \ {c} : task'[d] = task[d]

LEMMA GotoMoves ==
    ASSUME TypeOK, NEW c \in Commands, NEW pc \in Pcs, Goto(c, pc)
    PROVE  Moves(c, pc)
<1>1. task[c] \in Tasks
  BY DEF TypeOK
<1>2. task' = [task EXCEPT ![c] = [task[c] EXCEPT !.pc = pc]]
  BY DEF Goto
<1>3. task'[c] = [task[c] EXCEPT !.pc = pc]
  BY <1>2 DEF TypeOK
<1>4. task'[c].pc = pc /\ task'[c].wrote = task[c].wrote
  BY <1>1, <1>3 DEF Tasks
<1> QED
  BY <1>2, <1>4 DEF Moves, TypeOK

LEMMA FinishMoves ==
    ASSUME TypeOK, NEW c \in Commands, NEW r,
           task' = [task EXCEPT ![c].pc = "finish", ![c].reports = r]
    PROVE  Moves(c, "finish")
<1>1. task[c] \in Tasks
  BY DEF TypeOK
<1>2. task'[c] = [task[c] EXCEPT !.pc = "finish", !.reports = r]
  BY DEF TypeOK
<1>3. task'[c].pc = "finish" /\ task'[c].wrote = task[c].wrote
  BY <1>1, <1>2 DEF Tasks
<1> QED
  BY <1>3 DEF Moves, TypeOK

\* The handler of c is over.
Ends(c) ==
    /\ task'[c].pc = "idle"
    /\ \A d \in Commands \ {c} : task'[d] = task[d]

LEMMA NoTaskEnds ==
    ASSUME TypeOK, NEW c \in Commands, task' = [task EXCEPT ![c] = NoTask]
    PROVE  Ends(c)
BY DEF Ends, NoTask, TypeOK

LEMMA ReturnEnds ==
    ASSUME TypeOK, NEW c \in Commands, NEW a, Return(c, a)
    PROVE  Ends(c)
BY NoTaskEnds DEF Return

LEMMA LifeCycleInit == Init => LifeCycleInv
<1> SUFFICES ASSUME Init, NEW c \in Commands PROVE LifeCycle(c)
  BY DEF LifeCycleInv
<1> QED
  BY DEF Init, LifeCycle, PrunedIsExpired, RecordInv, HandlerInv, NotStarted,
         NoTask, NoRecord

\* One step of the handler of c that changes only where it stands.
LEMMA MoveKeeps ==
    ASSUME TypeOK, LifeCycleInv, NEW c \in Commands,
           UNCHANGED <<journal, pruned, written, starts, expired>>,
           HandlerInv(c)', \A d \in Commands \ {c} : task'[d] = task[d]
    PROVE  LifeCycleInv'
<1>1. LifeCycle(c)'
  BY DEF LifeCycleInv, LifeCycle, PrunedIsExpired, RecordInv, NotStarted
<1>2. \A d \in Commands \ {c} : Untouched(d)
  BY DEF Untouched
<1> QED
  BY <1>1, <1>2, LocalStep

LEMMA EndKeeps ==
    ASSUME TypeOK, LifeCycleInv, NEW c \in Commands, Ends(c),
           UNCHANGED <<journal, pruned, written, starts, expired>>
    PROVE  LifeCycleInv'
BY MoveKeeps DEF Ends, HandlerInv

LEMMA LifeCycleNext == TypeOK /\ LifeCycleInv /\ [Next]_vars => LifeCycleInv'
<1> SUFFICES ASSUME TypeOK, LifeCycleInv, [Next]_vars PROVE LifeCycleInv'
  OBVIOUS
<1> USE DEF processVars, envVars, brokerVars, physVars, autoVars, ackVars,
            recordVars, handlerVars, vars
<1>1. ASSUME NEW c \in Commands, Dequeue(c) PROVE LifeCycleInv'
  <2>1. /\ task'[c].pc = "lookup"
        /\ \A d \in Commands \ {c} : task'[d] = task[d]
    BY <1>1 DEF Dequeue, NoTask, TypeOK
  <2>2. HandlerInv(c)'
    BY <2>1 DEF HandlerInv
  <2> QED
    BY <1>1, <2>1, <2>2, MoveKeeps DEF Dequeue
<1>2. ASSUME NEW c \in Commands, Lookup(c) PROVE LifeCycleInv'
  <2>1. LifeCycle(c) /\ task[c].pc = "lookup"
    BY <1>2 DEF LifeCycleInv, Lookup
  <2>2. UNCHANGED <<journal, pruned, written, starts, expired>>
    BY <1>2 DEF Lookup
  <2>3. CASE Ends(c)
    BY <2>2, <2>3, EndKeeps
  <2>4. CASE \/ journal[c].state = "none" /\ Moves(c, "intake")
             \/ /\ journal[c].state = "completed"
                /\ Moves(c, "abort") \/ Moves(c, "handoff")
             \/ /\ journal[c].state = "accepted" /\ journal[c].phase = "pre_rf"
                /\ Moves(c, "refuseAbort")
             \/ journal[c].state = "accepted" /\ Moves(c, "finish")
    <3>1. HandlerInv(c)'
      BY <2>1, <2>2, <2>4 DEF LifeCycle, RecordInv, HandlerInv, NotStarted, Moves
    <3> QED
      BY <2>2, <2>4, <3>1, MoveKeeps DEF Moves
  <2>5. CASE journal[c].state = "none"
    BY <1>2, <2>5, <2>4, GotoMoves DEF Lookup, Pcs
  <2>6. CASE journal[c].state = "completed"
    BY <1>2, <2>6, <2>3, <2>4, GotoMoves, ReturnEnds DEF Lookup, Pcs
  <2>7. CASE journal[c].state = "accepted"
    BY <1>2, <2>7, <2>4, GotoMoves, FinishMoves DEF Lookup, Pcs
  <2> QED
    BY <1>2, <2>5, <2>6, <2>7 DEF Lookup
<1>3. ASSUME NEW c \in Commands, PassIntake(c) PROVE LifeCycleInv'
  <2>1. Moves(c, "ready")
    BY <1>3, GotoMoves DEF PassIntake, Pcs
  <2>2. LifeCycle(c)
    BY DEF LifeCycleInv
  <2>3. HandlerInv(c)'
    BY <1>3, <2>1, <2>2 DEF PassIntake, LifeCycle, PrunedIsExpired, RecordInv,
                          HandlerInv, NotStarted, Moves, Refused
  <2> QED
    BY <1>3, <2>1, <2>3, MoveKeeps DEF PassIntake, Moves
<1>4. ASSUME NEW c \in Commands, AdmissionRefused(c) PROVE LifeCycleInv'
  <2>1. Moves(c, "refuse")
    BY <1>4, GotoMoves DEF AdmissionRefused, Pcs
  <2>2. LifeCycle(c) /\ journal[c] \in Records
    BY DEF LifeCycleInv, TypeOK
  <2>3. /\ journal'[c].state = "completed" /\ journal'[c].acceptance = "rejected"
    BY <1>4, <2>2 DEF AdmissionRefused, Refusal, NoRecord, Records, TypeOK
  <2>4. LifeCycle(c)'
    BY <1>4, <2>1, <2>2, <2>3 DEF AdmissionRefused, LifeCycle, PrunedIsExpired, RecordInv,
                          HandlerInv, NotStarted, Moves
  <2>5. \A d \in Commands \ {c} : Untouched(d)
    BY <1>4, <2>1 DEF AdmissionRefused, Untouched, Moves, TypeOK
  <2> QED
    BY <2>4, <2>5, LocalStep
<1>5. ASSUME NEW c \in Commands, RejectBeforeExecution(c) PROVE LifeCycleInv'
  <2>1. Moves(c, "reject")
    BY <1>5, GotoMoves DEF RejectBeforeExecution, Pcs
  <2>2. LifeCycle(c) /\ journal[c] \in Records
    BY DEF LifeCycleInv, TypeOK
  <2>3. /\ journal'[c].state = "accepted" /\ journal'[c].acceptance = "rejected"
        /\ journal'[c].abort = "none"
    BY <1>5, <2>2 DEF RejectBeforeExecution, Refusal, NoRecord, Records, TypeOK
  <2>4. LifeCycle(c)'
    BY <1>5, <2>1, <2>2, <2>3 DEF RejectBeforeExecution, LifeCycle, PrunedIsExpired, RecordInv,
                          HandlerInv, NotStarted, Moves
  <2>5. \A d \in Commands \ {c} : Untouched(d)
    BY <1>5, <2>1 DEF RejectBeforeExecution, Untouched, Moves, TypeOK
  <2> QED
    BY <2>4, <2>5, LocalStep
<1>6. ASSUME NEW c \in Commands, Accept(c) PROVE LifeCycleInv'
  <2>1. Moves(c, "accepted")
    BY <1>6, GotoMoves DEF Accept, Pcs
  <2>2. LifeCycle(c) /\ journal[c] \in Records
    BY DEF LifeCycleInv, TypeOK
  <2>3. /\ journal'[c].state = "accepted" /\ journal'[c].acceptance = "accepted"
        /\ journal'[c].abort = "none"
        /\ ~Permit => journal'[c].phase = "none"
    BY <1>6, <2>2 DEF Accept, Refusal, NoRecord, Records, TypeOK
  <2>4. LifeCycle(c)'
    BY <1>6, <2>1, <2>2, <2>3 DEF Accept, LifeCycle, PrunedIsExpired, RecordInv,
                          HandlerInv, NotStarted, Moves
  <2>5. \A d \in Commands \ {c} : Untouched(d)
    BY <1>6, <2>1 DEF Accept, Untouched, Moves, TypeOK
  <2> QED
    BY <2>4, <2>5, LocalStep
<1>7. ASSUME NEW c \in Commands, ReleasePuback(c) PROVE LifeCycleInv'
  <2>1. (IF Refused(c) THEN "refuse" ELSE "acking") \in Pcs
    BY DEF Pcs
  <2>2. Moves(c, "refuse") \/ Moves(c, "acking")
    BY <1>7, <2>1, GotoMoves DEF ReleasePuback
  <2>3. LifeCycle(c)
    BY DEF LifeCycleInv
  <2>4. HandlerInv(c)'
    BY <1>7, <2>2, <2>3 DEF ReleasePuback, LifeCycle, RecordInv, HandlerInv,
                         NotStarted, Moves
  <2> QED
    BY <1>7, <2>2, <2>4, MoveKeeps DEF ReleasePuback, Moves
<1>8. ASSUME NEW c \in Commands, PublishAcceptance(c) PROVE LifeCycleInv'
  <2>1. Moves(c, "acked")
    <3>1. task[c] \in Tasks
      BY DEF TypeOK
    <3>2. task'[c] = [task[c] EXCEPT !.pc = "acked", !.acked = TRUE]
      BY <1>8 DEF PublishAcceptance, TypeOK
    <3>3. task'[c].pc = "acked" /\ task'[c].wrote = task[c].wrote
      BY <3>1, <3>2 DEF Tasks
    <3> QED
      BY <1>8, <3>3 DEF PublishAcceptance, Moves, TypeOK
  <2>2. LifeCycle(c)
    BY DEF LifeCycleInv
  <2>3. HandlerInv(c)'
    BY <1>8, <2>1, <2>2 DEF PublishAcceptance, LifeCycle, RecordInv, HandlerInv,
                         NotStarted, Moves
  <2> QED
    BY <1>8, <2>1, <2>3, MoveKeeps DEF PublishAcceptance, Moves
<1>9. ASSUME NEW c \in Commands, Recheck(c) PROVE LifeCycleInv'
  <2>1. \/ task[c].pc = "acked" /\ Moves(c, "refuse")
        \/ task[c].pc \in {"prepared", "marked"} /\ Moves(c, "refuseAbort")
    BY <1>9, GotoMoves DEF Recheck, Pcs
  <2>2. LifeCycle(c)
    BY DEF LifeCycleInv
  <2>3. HandlerInv(c)'
    BY <1>9, <2>1, <2>2 DEF Recheck, LifeCycle, RecordInv, HandlerInv, NotStarted, Moves
  <2> QED
    BY <1>9, <2>1, <2>3, MoveKeeps DEF Recheck, Moves
<1>10. ASSUME NEW c \in Commands, Prepare(c) PROVE LifeCycleInv'
  <2>1. Moves(c, "prepared")
    BY <1>10, GotoMoves DEF Prepare, Pcs
  <2>2. LifeCycle(c)
    BY DEF LifeCycleInv
  <2>3. HandlerInv(c)'
    BY <1>10, <2>1, <2>2 DEF Prepare, LifeCycle, PrunedIsExpired, RecordInv,
                          HandlerInv, NotStarted, Moves
  <2> QED
    BY <1>10, <2>1, <2>3, MoveKeeps DEF Prepare, Moves
<1>11. ASSUME NEW c \in Commands, PrepareFails(c) PROVE LifeCycleInv'
  <2>1. Moves(c, "finish")
    BY <1>11, FinishMoves DEF PrepareFails, Pcs
  <2>2. LifeCycle(c)
    BY DEF LifeCycleInv
  <2>3. HandlerInv(c)'
    BY <1>11, <2>1, <2>2 DEF PrepareFails, LifeCycle, PrunedIsExpired, RecordInv,
                          HandlerInv, NotStarted, Moves
  <2> QED
    BY <1>11, <2>1, <2>3, MoveKeeps DEF PrepareFails, Moves
<1>12. ASSUME NEW c \in Commands, MarkExecutionMayHaveStarted(c) PROVE LifeCycleInv'
  <2>1. Moves(c, "marked")
    BY <1>12, GotoMoves DEF MarkExecutionMayHaveStarted, Pcs
  <2>2. LifeCycle(c) /\ journal[c] \in Records
    BY DEF LifeCycleInv, TypeOK
  <2>3. /\ journal'[c].state = journal[c].state
        /\ journal'[c].acceptance = journal[c].acceptance
        /\ journal'[c].abort = journal[c].abort
        /\ journal'[c].phase = "may_have_written"
    BY <1>12, <2>2 DEF MarkExecutionMayHaveStarted, Refusal, NoRecord, Records, TypeOK
  <2>4. LifeCycle(c)'
    BY <1>12, <2>1, <2>2, <2>3 DEF MarkExecutionMayHaveStarted, LifeCycle, PrunedIsExpired, RecordInv,
                          HandlerInv, NotStarted, Moves
  <2>5. \A d \in Commands \ {c} : Untouched(d)
    BY <1>12, <2>1 DEF MarkExecutionMayHaveStarted, Untouched, Moves, TypeOK
  <2> QED
    BY <2>4, <2>5, LocalStep
<1>13. ASSUME NEW c \in Commands, StartExecution(c) PROVE LifeCycleInv'
  <2>1. Moves(c, "applying")
    BY <1>13, GotoMoves DEF StartExecution, Pcs
  <2>2. LifeCycle(c) /\ starts'[c] = starts[c] + 1
    BY <1>13 DEF LifeCycleInv, StartExecution, TypeOK
  <2>3. /\ task[c].pc \in {"prepared", "marked"}
        /\ task[c].pc = "prepared" => ~Permit
    BY <1>13 DEF StartExecution
  <2>4. LifeCycle(c)'
    BY <1>13, <2>1, <2>2, <2>3 DEF StartExecution, LifeCycle, PrunedIsExpired,
                               RecordInv, HandlerInv, NotStarted, Moves
  <2>5. \A d \in Commands \ {c} : Untouched(d)
    BY <1>13, <2>1 DEF StartExecution, Untouched, Moves, TypeOK
  <2> QED
    BY <2>4, <2>5, LocalStep
<1>14. ASSUME NEW c \in Commands, AdapterReports(c) PROVE LifeCycleInv'
  <2>1. \/ RefusedUnwritten(c) /\ Moves(c, "refuseAbort")
        \/ Moves(c, "finish")
    BY <1>14, GotoMoves, FinishMoves DEF AdapterReports, Pcs
  <2>2. LifeCycle(c)
    BY DEF LifeCycleInv
  <2>3. HandlerInv(c)'
    BY <1>14, <2>1, <2>2 DEF AdapterReports, RefusedUnwritten, LifeCycle, RecordInv, HandlerInv,
                         NotStarted, Moves
  <2> QED
    BY <1>14, <2>1, <2>3, MoveKeeps DEF AdapterReports, Moves
<1>15. ASSUME NEW c \in Commands, AdapterThrows(c) PROVE LifeCycleInv'
  <2>1. \/ RefusedUnwritten(c) /\ Moves(c, "refuseAbort")
        \/ Moves(c, "finish")
    BY <1>15, GotoMoves, FinishMoves DEF AdapterThrows, ExecutionFails, Pcs
  <2>2. LifeCycle(c)
    BY DEF LifeCycleInv
  <2>3. HandlerInv(c)'
    BY <1>15, <2>1, <2>2 DEF AdapterThrows, RefusedUnwritten, LifeCycle, RecordInv, HandlerInv,
                         NotStarted, Moves
  <2> QED
    BY <1>15, <2>1, <2>3, MoveKeeps DEF AdapterThrows, Moves
<1>16. ASSUME NEW c \in Commands, Watchdog(c) PROVE LifeCycleInv'
  <2>1. \/ RefusedUnwritten(c) /\ Moves(c, "refuseAbort")
        \/ Moves(c, "finish")
    BY <1>16, GotoMoves, FinishMoves DEF Watchdog, ExecutionFails, Pcs
  <2>2. LifeCycle(c)
    BY DEF LifeCycleInv
  <2>3. HandlerInv(c)'
    BY <1>16, <2>1, <2>2 DEF Watchdog, RefusedUnwritten, LifeCycle, RecordInv, HandlerInv,
                         NotStarted, Moves
  <2> QED
    BY <1>16, <2>1, <2>3, MoveKeeps DEF Watchdog, Moves
<1>17. ASSUME NEW c \in Commands, CompleteRefusal(c) PROVE LifeCycleInv'
  <2>1. Ends(c)
    BY <1>17, ReturnEnds DEF CompleteRefusal, Pcs
  <2>2. LifeCycle(c) /\ journal[c] \in Records
    BY DEF LifeCycleInv, TypeOK
  <2>3. /\ journal'[c].state = "completed" /\ journal'[c].acceptance = "rejected"
    BY <1>17, <2>2 DEF CompleteRefusal, Refusal, NoRecord, Records, TypeOK
  <2>4. LifeCycle(c)'
    BY <1>17, <2>1, <2>2, <2>3 DEF CompleteRefusal, LifeCycle, PrunedIsExpired, RecordInv,
                          HandlerInv, NotStarted, Ends
  <2>5. \A d \in Commands \ {c} : Untouched(d)
    BY <1>17, <2>1 DEF CompleteRefusal, Untouched, Ends, TypeOK
  <2> QED
    BY <2>4, <2>5, LocalStep
<1>18. ASSUME NEW c \in Commands, CompleteRejection(c) PROVE LifeCycleInv'
  <2>1. Ends(c)
    BY <1>18, ReturnEnds DEF CompleteRejection, Pcs
  <2>2. LifeCycle(c) /\ journal[c] \in Records
    BY DEF LifeCycleInv, TypeOK
  <2>3. /\ journal'[c].state = "completed" /\ journal'[c].acceptance = "rejected"
    BY <1>18, <2>2 DEF CompleteRejection, Refusal, NoRecord, Records, TypeOK
  <2>4. LifeCycle(c)'
    BY <1>18, <2>1, <2>2, <2>3 DEF CompleteRejection, LifeCycle, PrunedIsExpired, RecordInv,
                          HandlerInv, NotStarted, Ends
  <2>5. \A d \in Commands \ {c} : Untouched(d)
    BY <1>18, <2>1 DEF CompleteRejection, Untouched, Ends, TypeOK
  <2> QED
    BY <2>4, <2>5, LocalStep
<1>19. ASSUME NEW c \in Commands, CompleteWithAbort(c) PROVE LifeCycleInv'
  <2>1. Moves(c, "abort")
    BY <1>19, GotoMoves DEF CompleteWithAbort, Pcs
  <2>2. LifeCycle(c) /\ journal[c] \in Records
    BY DEF LifeCycleInv, TypeOK
  <2>3. /\ journal'[c].state = "completed" /\ journal'[c].acceptance = "rejected"
    BY <1>19, <2>2 DEF CompleteWithAbort, Refusal, NoRecord, Records, TypeOK
  <2>4. LifeCycle(c)'
    BY <1>19, <2>1, <2>2, <2>3 DEF CompleteWithAbort, LifeCycle, PrunedIsExpired, RecordInv,
                          HandlerInv, NotStarted, Moves
  <2>5. \A d \in Commands \ {c} : Untouched(d)
    BY <1>19, <2>1 DEF CompleteWithAbort, Untouched, Moves, TypeOK
  <2> QED
    BY <2>4, <2>5, LocalStep
<1>20. ASSUME NEW c \in Commands, AbortManualControl(c) PROVE LifeCycleInv'
  <2>1. Moves(c, "abortMark")
    BY <1>20, GotoMoves DEF AbortManualControl, Pcs
  <2>2. LifeCycle(c)
    BY DEF LifeCycleInv
  <2>3. HandlerInv(c)'
    BY <1>20, <2>1, <2>2 DEF AbortManualControl, LifeCycle, PrunedIsExpired, RecordInv,
                          HandlerInv, NotStarted, Moves
  <2> QED
    BY <1>20, <2>1, <2>3, MoveKeeps DEF AbortManualControl, Moves
<1>21. ASSUME NEW c \in Commands, MarkAutomationAbortComplete(c) PROVE LifeCycleInv'
  <2>1. Ends(c)
    BY <1>21, ReturnEnds, NoTaskEnds DEF MarkAutomationAbortComplete, Pcs, ReturnOrRecoverNext
  <2>2. LifeCycle(c) /\ journal[c] \in Records
    BY DEF LifeCycleInv, TypeOK
  <2>3. /\ journal'[c].state = journal[c].state
        /\ journal'[c].acceptance = journal[c].acceptance
        /\ journal'[c].phase = journal[c].phase
    BY <1>21, <2>2 DEF MarkAutomationAbortComplete, Refusal, NoRecord, Records, TypeOK
  <2>4. LifeCycle(c)'
    BY <1>21, <2>1, <2>2, <2>3 DEF MarkAutomationAbortComplete, LifeCycle, PrunedIsExpired, RecordInv,
                          HandlerInv, NotStarted, Ends
  <2>5. \A d \in Commands \ {c} : Untouched(d)
    BY <1>21, <2>1 DEF MarkAutomationAbortComplete, Untouched, Ends, TypeOK
  <2> QED
    BY <2>4, <2>5, LocalStep
<1>22. ASSUME NEW c \in Commands, CompleteWithHandoff(c) PROVE LifeCycleInv'
  <2>1. Moves(c, "handoff")
    BY <1>22, GotoMoves DEF CompleteWithHandoff, Pcs
  <2>2. LifeCycle(c) /\ journal[c] \in Records
    BY DEF LifeCycleInv, TypeOK
  <2>3. /\ journal'[c].state = "completed"
        /\ journal'[c].acceptance = journal[c].acceptance
        /\ journal'[c].abort = journal[c].abort
    BY <1>22, <2>2 DEF CompleteWithHandoff, Refusal, NoRecord, Records, TypeOK
  <2>4. LifeCycle(c)'
    BY <1>22, <2>1, <2>2, <2>3 DEF CompleteWithHandoff, LifeCycle, PrunedIsExpired, RecordInv,
                          HandlerInv, NotStarted, Moves
  <2>5. \A d \in Commands \ {c} : Untouched(d)
    BY <1>22, <2>1 DEF CompleteWithHandoff, Untouched, Moves, TypeOK
  <2> QED
    BY <2>4, <2>5, LocalStep
<1>23. ASSUME NEW c \in Commands, HandoffManualTerminal(c) PROVE LifeCycleInv'
  <2>1. Moves(c, "handoffMark")
    BY <1>23, GotoMoves DEF HandoffManualTerminal, Pcs
  <2>2. LifeCycle(c)
    BY DEF LifeCycleInv
  <2>3. HandlerInv(c)'
    BY <1>23, <2>1, <2>2 DEF HandoffManualTerminal, LifeCycle, PrunedIsExpired, RecordInv,
                          HandlerInv, NotStarted, Moves
  <2> QED
    BY <1>23, <2>1, <2>3, MoveKeeps DEF HandoffManualTerminal, Moves
<1>24. ASSUME NEW c \in Commands, MarkAutomationHandoffComplete(c) PROVE LifeCycleInv'
  <2>1. Ends(c)
    BY <1>24, ReturnEnds, NoTaskEnds DEF MarkAutomationHandoffComplete, Pcs, ReturnOrRecoverNext
  <2>2. LifeCycle(c) /\ journal[c] \in Records
    BY DEF LifeCycleInv, TypeOK
  <2>3. /\ journal'[c].state = journal[c].state
        /\ journal'[c].acceptance = journal[c].acceptance
        /\ journal'[c].phase = journal[c].phase
        /\ journal'[c].abort = journal[c].abort
    BY <1>24, <2>2 DEF MarkAutomationHandoffComplete, Refusal, NoRecord, Records, TypeOK
  <2>4. LifeCycle(c)'
    BY <1>24, <2>1, <2>2, <2>3 DEF MarkAutomationHandoffComplete, LifeCycle, PrunedIsExpired, RecordInv,
                          HandlerInv, NotStarted, Ends
  <2>5. \A d \in Commands \ {c} : Untouched(d)
    BY <1>24, <2>1 DEF MarkAutomationHandoffComplete, Untouched, Ends, TypeOK
  <2> QED
    BY <2>4, <2>5, LocalStep
<1>25. ASSUME NEW c \in Commands, HandoffFails(c) PROVE LifeCycleInv'
  BY <1>25, ReturnEnds, EndKeeps DEF HandoffFails
<1>26. ASSUME NEW c \in Commands, HandlerThrows(c) PROVE LifeCycleInv'
  BY <1>26, NoTaskEnds, EndKeeps DEF HandlerThrows
<1>27. ASSUME NEW c \in Commands, PublishFinalAcceptance(c) PROVE LifeCycleInv'
  BY <1>27, QuietStep DEF PublishFinalAcceptance, Untouched
<1>28. ASSUME NEW c \in Commands, PublishStatus(c) PROVE LifeCycleInv'
  BY <1>28, QuietStep DEF PublishStatus, Untouched
<1>29. ASSUME NEW c \in Commands, PublishFails(c) PROVE LifeCycleInv'
  BY <1>29, QuietStep DEF PublishFails, Untouched
<1>30. ASSUME NEW c \in Commands, Recover(c) PROVE LifeCycleInv'
  <2>1. \/ journal[c].abort = "pending" /\ Moves(c, "abort")
        \/ journal[c].state = "accepted" /\ journal[c].phase = "pre_rf"
           /\ Moves(c, "refuseAbort")
        \/ journal[c].state = "accepted" /\ Moves(c, "finish")
        \/ journal[c].state = "completed" /\ Moves(c, "handoff")
    BY <1>30, GotoMoves, FinishMoves DEF Recover, Pcs
  <2>2. LifeCycle(c)
    BY DEF LifeCycleInv
  <2>3. HandlerInv(c)'
    BY <1>30, <2>1, <2>2 DEF Recover, LifeCycle, RecordInv, HandlerInv, NotStarted, Moves
  <2> QED
    BY <1>30, <2>1, <2>3, MoveKeeps DEF Recover, Moves
<1>31. ASSUME NEW c \in Commands, Deliver(c) PROVE LifeCycleInv'
  BY <1>31, QuietStep DEF Deliver, Untouched
<1>32. ASSUME NEW c \in Commands, Veto(c) PROVE LifeCycleInv'
  <2>1. \A d \in Commands :
            task'[d].pc = task[d].pc /\ task'[d].wrote = task[d].wrote
    <3>1. ASSUME NEW d \in Commands
          PROVE  task'[d].pc = task[d].pc /\ task'[d].wrote = task[d].wrote
      <4>1. task[d] \in Tasks
        BY DEF TypeOK
      <4>2. task'[d] = IF d = c THEN [task[c] EXCEPT !.vetoed = TRUE] ELSE task[d]
        BY <1>32 DEF Veto, TypeOK
      <4> QED
        BY <4>1, <4>2 DEF Tasks
    <3> QED
      BY <3>1
  <2> QED
    BY <1>32, <2>1, QuietStep DEF Veto, Untouched
<1>33. ASSUME NEW c \in Commands, AdapterEndsLate(c) PROVE LifeCycleInv'
  BY <1>33, QuietStep DEF AdapterEndsLate, Untouched
<1>34. ASSUME NEW c \in Commands, Expire(c) PROVE LifeCycleInv'
  BY <1>34, QuietStep DEF Expire, Untouched, TypeOK
<1>35. ASSUME NEW c \in Commands, Prune(c) PROVE LifeCycleInv'
  <2>1. LifeCycle(c)
    BY DEF LifeCycleInv
  <2>2. /\ journal'[c] = NoRecord /\ pruned'[c] = TRUE /\ expired'[c] = TRUE
        /\ task[c].pc = "idle"
    BY <1>35 DEF Prune, Idle, TypeOK
  <2>3. LifeCycle(c)'
    BY <1>35, <2>1, <2>2 DEF Prune, LifeCycle, PrunedIsExpired, RecordInv, HandlerInv,
                         NotStarted, NoRecord
  <2>4. \A d \in Commands \ {c} : Untouched(d)
    BY <1>35 DEF Prune, Untouched, TypeOK
  <2> QED
    BY <2>3, <2>4, LocalStep
<1>36. ASSUME NEW c \in Commands, NEW f \in Fixtures, Write(c, f) PROVE LifeCycleInv'
  <2>1. LifeCycle(c) /\ task[c] \in Tasks /\ task[c].pc = "applying"
    BY <1>36 DEF LifeCycleInv, TypeOK, Write, MayStartWrite
  <2>2. task'[c] = [task[c] EXCEPT !.wrote = TRUE]
    BY <1>36 DEF Write, TypeOK
  <2>3. task'[c].pc = "applying" /\ task'[c].wrote = TRUE
    BY <2>1, <2>2 DEF Tasks
  <2>4. LifeCycle(c)'
    BY <1>36, <2>1, <2>3 DEF Write, LifeCycle, PrunedIsExpired, RecordInv, HandlerInv,
                         NotStarted
  <2>5. \A d \in Commands \ {c} : Untouched(d)
    BY <1>36 DEF Write, Untouched, TypeOK
  <2> QED
    BY <2>4, <2>5, LocalStep
<1>37. ASSUME NEW f \in Fixtures, SettleByObservation(f) PROVE LifeCycleInv'
  BY <1>37, QuietStep DEF SettleByObservation, Untouched
<1>38. CASE OpenIntake
  BY <1>38, QuietStep DEF OpenIntake, Untouched
<1>39. CASE Crash
  <2>1. ASSUME NEW c \in Commands PROVE LifeCycle(c)'
    <3>1. LifeCycle(c) /\ task'[c].pc = "idle"
      BY <1>39 DEF LifeCycleInv, Crash, NoTask
    <3> QED
      BY <1>39, <3>1 DEF Crash, LifeCycle, PrunedIsExpired, RecordInv, HandlerInv,
                     NotStarted
  <2> QED
    BY <2>1 DEF LifeCycleInv
<1>40. CASE GateChange
  BY <1>40, QuietStep DEF GateChange, Untouched
<1>41. CASE UNCHANGED vars
  BY <1>41, QuietStep DEF Untouched
<1> QED
  BY <1>1, <1>2, <1>3, <1>4, <1>5, <1>6, <1>7, <1>8, <1>9, <1>10, <1>11,
     <1>12, <1>13, <1>14, <1>15, <1>16, <1>17, <1>18, <1>19, <1>20, <1>21,
     <1>22, <1>23, <1>24, <1>25, <1>26, <1>27, <1>28, <1>29, <1>30, <1>31,
     <1>32, <1>33, <1>34, <1>35, <1>36, <1>37, <1>38, <1>39, <1>40, <1>41
     DEF Next, HandlerStep

LEMMA LifeCycleCorrect == Spec => []LifeCycleInv
BY TypeCorrect, LifeCycleInit, LifeCycleNext, PTL DEF Spec

\* A command the gateway's journal calls rejected never touched a lamp, with any
\* number of restarts, duplicates and commands.
THEOREM RefusedIsUnwritten == Spec => []RefusedMeansUnwritten
<1>1. LifeCycleInv => RefusedMeansUnwritten
  BY DEF LifeCycleInv, LifeCycle, RecordInv, RefusedMeansUnwritten
<1> QED
  BY <1>1, LifeCycleCorrect, PTL

\* A command reaches the mesh adapter at most once, its record pruned or not.
THEOREM ExecutedOnce == Spec => []SingleExecution
<1>1. LifeCycleInv => SingleExecution
  BY DEF LifeCycleInv, LifeCycle, RecordInv, SingleExecution
<1> QED
  BY <1>1, LifeCycleCorrect, PTL
=============================================================================
