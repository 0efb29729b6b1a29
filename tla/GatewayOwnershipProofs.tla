----------------------- MODULE GatewayOwnershipProofs -----------------------
(***************************************************************************)
(* Who owns a fixture in the gateway's automation state, in memory and on  *)
(* disk, over prepares, aborts, handoffs, observations, full disks and     *)
(* restarts; and that the handlers of one mesh group run one by one.       *)
(***************************************************************************)
EXTENDS GatewayCommandProofs

(***************************************************************************)
(* The inductive invariant                                                 *)
(***************************************************************************)
\* The command owns the fixture and no observation is awaited to release it.
Held(c, f) == pendingMem[f] = c /\ (DiskCanFill => f \notin awaiting)

\* A handler that has no ownership yet, or gave it back.
Early == {"reject", "refuse", "accepted", "acking", "acked"}
Marks == {"abortMark", "handoffMark"}

StateInv ==
    /\ \A f \in awaiting : pendingMem[f] # NoCommand
    /\ ~DiskCanFill => pendingDisk = pendingMem
    /\ ~DiskCanFill /\ phase = "running" => awaiting = {}
    /\ \A c \in Commands, f \in Fixtures :
          pendingMem[f] = c \/ pendingDisk[f] = c => f \in Targets[c]

OwnerInv(c) ==
    \A f \in Fixtures :
        /\ Held(c, f) => PendingRecovery(c)
        /\ task[c].pc \in Early => ~Held(c, f)
        /\ task[c].pc \in Marks => pendingMem[f] # c
        /\ task[c].pc = "abortMark" \/ journal[c].abort = "completed" =>
              pendingMem[f] # c /\ pendingDisk[f] # c

OwnershipInv == StateInv /\ \A c \in Commands : OwnerInv(c)

LEMMA OwnershipInit == Init => OwnershipInv
BY NoneAssumption
   DEF Init, OwnershipInv, StateInv, OwnerInv, Held, Early, Marks, NoTask, NoRecord

(***************************************************************************)
(* Steps that leave the ownership alone                                    *)
(***************************************************************************)
\* Nobody starts to refuse, and no handoff or abort is carried out.
Calm(c) ==
    /\ task'[c].pc \in Early => task[c].pc \in Early
    /\ task'[c].pc \in Marks => task'[c].pc = task[c].pc

LEMMA CalmStep ==
    ASSUME OwnershipInv, UNCHANGED <<journal, autoVars>>,
           UNCHANGED phase \/ phase' = "recovering",
           \A d \in Commands : Calm(d)
    PROVE  OwnershipInv'
<1> USE DEF autoVars
<1>1. StateInv'
  BY DEF OwnershipInv, StateInv
<1>2. ASSUME NEW d \in Commands PROVE OwnerInv(d)'
  BY <1>2 DEF OwnershipInv, OwnerInv, Held, Calm, PendingRecovery, Early, Marks
<1> QED
  BY <1>1, <1>2 DEF OwnershipInv

\* The record of c is rewritten; a recovery it owed is only dropped when c holds
\* no fixture.
LEMMA RecordChange ==
    ASSUME TypeOK, OwnershipInv, NEW c \in Commands, UNCHANGED <<phase, autoVars>>,
           \A d \in Commands \ {c} : journal'[d] = journal[d] /\ task'[d] = task[d],
           PendingRecovery(c)' \/ ~PendingRecovery(c) \/ task[c].pc \in Early \cup Marks,
           task'[c].pc \notin Marks,
           task'[c].pc \in Early => task[c].pc \in Early \/ ~PendingRecovery(c),
           journal'[c].abort = "completed" =>
               journal[c].abort = "completed" \/ task[c].pc = "abortMark"
    PROVE  OwnershipInv'
<1> USE DEF autoVars
<1>1. StateInv'
  BY DEF OwnershipInv, StateInv
<1>2. ASSUME NEW d \in Commands \ {c} PROVE OwnerInv(d)'
  BY <1>2 DEF OwnershipInv, OwnerInv, Held, PendingRecovery
<1>3. OwnerInv(c)'
  <2> SUFFICES ASSUME NEW f \in Fixtures
               PROVE  /\ Held(c, f) => PendingRecovery(c)'
                      /\ task'[c].pc \in Early => ~Held(c, f)
                      /\ journal'[c].abort = "completed" =>
                            pendingMem[f] # c /\ pendingDisk[f] # c
    BY DEF OwnerInv, Held, Marks
  <2>1. OwnerInv(c)
    BY DEF OwnershipInv
  <2> QED
    BY <2>1 DEF OwnerInv, Held
<1> QED
  BY <1>1, <1>2, <1>3 DEF OwnershipInv

(***************************************************************************)
(* Steps that change the ownership                                         *)
(***************************************************************************)
\* Commands other than the acting one can only lose fixtures.
LEMMA OthersShrink ==
    ASSUME OwnershipInv, NEW d \in Commands,
           journal'[d] = journal[d], task'[d] = task[d],
           \A f \in Fixtures :
               /\ pendingMem'[f] = d =>
                     pendingMem[f] = d /\ (f \in awaiting => f \in awaiting')
               /\ pendingDisk'[f] = d => pendingMem[f] = d \/ pendingDisk[f] = d
    PROVE  OwnerInv(d)'
BY DEF OwnershipInv, OwnerInv, Held, PendingRecovery, Early, Marks

\* A handler gives back what its command owns: memory first, disk with it or,
\* when it is full, not at all.
LEMMA Release ==
    ASSUME TypeOK, OwnershipInv, NEW c \in Commands, NEW pc \in {"abortMark", "handoffMark"},
           Moves(c, pc), UNCHANGED <<phase, journal>>,
           pendingMem' = Released(OwnedBy(c)),
           awaiting' = awaiting \ OwnedBy(c),
           \/ pendingDisk' = pendingMem'
           \/ pc = "handoffMark" /\ DiskCanFill /\ UNCHANGED pendingDisk
    PROVE  OwnershipInv'
<1>1. \A f \in Fixtures : pendingMem'[f] = IF f \in Targets[c] /\ pendingMem[f] = c
                                          THEN NoCommand ELSE pendingMem[f]
  BY DEF Released, OwnedBy, TypeOK
<1>2. \A f \in Fixtures : pendingMem'[f] # c
  BY <1>1, NoneAssumption DEF OwnershipInv, StateInv
<1>3. StateInv'
  <2>1. \A f \in awaiting' : pendingMem'[f] # NoCommand
    BY <1>1 DEF OwnershipInv, StateInv, OwnedBy, TypeOK
  <2>2. \A d \in Commands, f \in Fixtures :
            pendingMem'[f] = d \/ pendingDisk'[f] = d => f \in Targets[d]
    BY <1>1, NoneAssumption DEF OwnershipInv, StateInv
  <2> QED
    BY <2>1, <2>2 DEF OwnershipInv, StateInv
<1>4. ASSUME NEW d \in Commands \ {c} PROVE OwnerInv(d)'
  <2>1. \A f \in Fixtures : pendingMem'[f] = d =>
            pendingMem[f] = d /\ (f \in awaiting => f \in awaiting')
    BY <1>1, NoneAssumption DEF OwnedBy
  <2> QED
    BY <2>1, OthersShrink DEF Moves
<1>5. OwnerInv(c)'
  BY <1>2 DEF OwnershipInv, OwnerInv, Held, Moves, Early
<1> QED
  BY <1>3, <1>4, <1>5 DEF OwnershipInv

LEMMA OwnershipNext ==
    TypeOK /\ LifeCycleInv /\ OwnershipInv /\ [Next]_vars => OwnershipInv'
<1> SUFFICES ASSUME TypeOK, LifeCycleInv, OwnershipInv, [Next]_vars
             PROVE  OwnershipInv'
  OBVIOUS
<1> USE DEF processVars, envVars, brokerVars, physVars, autoVars, ackVars,
            recordVars, handlerVars, vars
<1>1. ASSUME NEW c \in Commands, Ends(c), UNCHANGED <<phase, journal, autoVars>>
      PROVE  OwnershipInv'
  <2>1. \A d \in Commands : Calm(d)
    BY <1>1 DEF Ends, Calm, Early, Marks
  <2> QED
    BY <1>1, <2>1, CalmStep
<1>2. ASSUME NEW c \in Commands, NEW pc \in Pcs, Goto(c, pc),
             pc \in Early => task[c].pc \in Early, pc \notin Marks,
             UNCHANGED <<phase, journal, autoVars>>
      PROVE  OwnershipInv'
  <2>1. \A d \in Commands : Calm(d)
    BY <1>2, GotoMoves DEF Moves, Calm
  <2> QED
    BY <1>2, <2>1, CalmStep
<1>3. ASSUME NEW c \in Commands, NEW r, UNCHANGED <<phase, journal, autoVars>>,
             task' = [task EXCEPT ![c].pc = "finish", ![c].reports = r]
      PROVE  OwnershipInv'
  <2>1. \A d \in Commands : Calm(d)
    BY <1>3, FinishMoves DEF Moves, Calm, Early, Marks
  <2> QED
    BY <1>3, <2>1, CalmStep
<1>4. ASSUME NEW c \in Commands
      PROVE  journal[c] \in Records /\ task[c] \in Tasks /\ LifeCycle(c)
  BY DEF TypeOK, LifeCycleInv
<1>5. ASSUME NEW c \in Commands, Dequeue(c) PROVE OwnershipInv'
  <2>1. \A d \in Commands : Calm(d)
    BY <1>5 DEF Dequeue, NoTask, Calm, Early, Marks, TypeOK
  <2> QED
    BY <1>5, <2>1, CalmStep DEF Dequeue
<1>6. ASSUME NEW c \in Commands, Lookup(c) PROVE OwnershipInv'
  <2>1. UNCHANGED <<phase, journal, autoVars>>
    BY <1>6 DEF Lookup
  <2>2. CASE \E a : Return(c, a)
    BY <1>1, <2>1, <2>2, ReturnEnds
  <2>3. CASE \E pc \in {"intake", "abort", "handoff", "refuseAbort"} : Goto(c, pc)
    BY <1>2, <2>1, <2>3 DEF Early, Marks, Pcs
  <2> QED
    BY <1>3, <1>6, <2>1, <2>2, <2>3 DEF Lookup
<1>7. ASSUME NEW c \in Commands, PassIntake(c) PROVE OwnershipInv'
  BY <1>2, <1>7 DEF PassIntake, Early, Marks, Pcs
<1>8. ASSUME NEW c \in Commands, ReleasePuback(c) PROVE OwnershipInv'
  <2>1. Goto(c, "refuse") \/ Goto(c, "acking")
    BY <1>8 DEF ReleasePuback
  <2> QED
    BY <1>2, <1>8, <2>1 DEF ReleasePuback, Early, Marks, Pcs
<1>9. ASSUME NEW c \in Commands, PublishAcceptance(c) PROVE OwnershipInv'
  <2>1. task'[c] = [task[c] EXCEPT !.pc = "acked", !.acked = TRUE]
    BY <1>9 DEF PublishAcceptance, TypeOK
  <2>2. task'[c].pc = "acked" /\ task[c].pc = "acking"
    BY <1>4, <1>9, <2>1 DEF PublishAcceptance, Tasks
  <2>3. \A d \in Commands : Calm(d)
    BY <1>9, <2>2 DEF PublishAcceptance, Calm, Early, Marks, TypeOK
  <2> QED
    BY <1>9, <2>3, CalmStep DEF PublishAcceptance
<1>10. ASSUME NEW c \in Commands, Recheck(c) PROVE OwnershipInv'
  BY <1>2, <1>10 DEF Recheck, Early, Marks, Pcs
<1>11. ASSUME NEW c \in Commands, PrepareFails(c) PROVE OwnershipInv'
  BY <1>3, <1>11 DEF PrepareFails
<1>12. ASSUME NEW c \in Commands, StartExecution(c) PROVE OwnershipInv'
  BY <1>2, <1>12 DEF StartExecution, Early, Marks, Pcs
<1>13. ASSUME NEW c \in Commands, AdapterReports(c) PROVE OwnershipInv'
  BY <1>2, <1>3, <1>13 DEF AdapterReports, Early, Marks, Pcs
<1>14. ASSUME NEW c \in Commands, AdapterThrows(c) \/ Watchdog(c) PROVE OwnershipInv'
  BY <1>2, <1>3, <1>14 DEF AdapterThrows, Watchdog, ExecutionFails, Early, Marks, Pcs
<1>15. ASSUME NEW c \in Commands, HandoffFails(c) \/ HandlerThrows(c)
       PROVE  OwnershipInv'
  BY <1>1, <1>15, ReturnEnds, NoTaskEnds DEF HandoffFails, HandlerThrows
<1>16. ASSUME NEW c \in Commands, Recover(c) PROVE OwnershipInv'
  BY <1>2, <1>3, <1>16 DEF Recover, Early, Marks, Pcs
<1>17. ASSUME NEW c \in Commands, Veto(c) \/ \E f \in Fixtures : Write(c, f)
       PROVE  OwnershipInv'
  <2>1. \/ task'[c] = [task[c] EXCEPT !.vetoed = TRUE]
        \/ task'[c] = [task[c] EXCEPT !.wrote = TRUE]
    BY <1>17 DEF Veto, Write, TypeOK
  <2>2. task'[c].pc = task[c].pc
    BY <1>4, <2>1 DEF Tasks
  <2>3. \A d \in Commands : Calm(d)
    BY <1>17, <2>2 DEF Veto, Write, Calm, TypeOK
  <2> QED
    BY <1>17, <2>3, CalmStep DEF Veto, Write
<1>18. ASSUME UNCHANGED task, UNCHANGED <<phase, journal, autoVars>> PROVE OwnershipInv'
  BY <1>18, CalmStep DEF Calm
<1>19. ASSUME NEW c \in Commands,
              \/ PublishFinalAcceptance(c) \/ PublishStatus(c) \/ PublishFails(c)
              \/ Deliver(c) \/ AdapterEndsLate(c) \/ Expire(c)
       PROVE  OwnershipInv'
  BY <1>18, <1>19
     DEF PublishFinalAcceptance, PublishStatus, PublishFails, Deliver,
         AdapterEndsLate, Expire
<1>20. CASE GateChange \/ UNCHANGED vars
  BY <1>18, <1>20 DEF GateChange
\* Steps that rewrite the record.
<1>21. ASSUME NEW c \in Commands, UNCHANGED <<phase, autoVars>>, NEW r,
              journal' = [journal EXCEPT ![c] = r],
              \/ r.state = "accepted"
              \/ r.state = "completed" /\ r.handoff = "pending"
              \/ r.abort = "pending" \/ ~PendingRecovery(c)
              \/ task[c].pc \in Early \cup Marks,
              r.abort = "completed" =>
                  journal[c].abort = "completed" \/ task[c].pc = "abortMark",
              \/ Ends(c)
              \/ \E pc \in Pcs \ (Early \cup Marks) : Goto(c, pc)
              \/ ~PendingRecovery(c) /\ \E pc \in Pcs \ Marks : Goto(c, pc)
       PROVE  OwnershipInv'
  <2>1. journal'[c] = r /\ \A d \in Commands \ {c} : journal'[d] = journal[d]
    BY <1>21 DEF TypeOK
  <2>2. PendingRecovery(c)' \/ ~PendingRecovery(c) \/ task[c].pc \in Early \cup Marks
    BY <1>21, <2>1 DEF PendingRecovery
  <2>3. /\ task'[c].pc \notin Marks
        /\ task'[c].pc \in Early => ~PendingRecovery(c)
        /\ \A d \in Commands \ {c} : task'[d] = task[d]
    BY <1>21, GotoMoves DEF Ends, Moves, Early, Marks
  <2> QED
    BY <1>21, <2>1, <2>2, <2>3, RecordChange
<1>22. ASSUME NEW c \in Commands, journal[c].state = "none" PROVE ~PendingRecovery(c)
  BY <1>4, <1>22 DEF PendingRecovery, LifeCycle, RecordInv
<1>23. ASSUME NEW c \in Commands
       PROVE  Refusal(c).abort = journal[c].abort
  BY <1>4 DEF Refusal, Records
<1>24. ASSUME NEW c \in Commands, AdmissionRefused(c) PROVE OwnershipInv'
  <2>1. ~PendingRecovery(c)
    BY <1>4, <1>22, <1>24 DEF AdmissionRefused, LifeCycle, HandlerInv
  <2> QED
    BY <1>21, <1>23, <1>24, <2>1 DEF AdmissionRefused, Pcs, Marks
<1>25. ASSUME NEW c \in Commands, RejectBeforeExecution(c) PROVE OwnershipInv'
  <2>1. ~PendingRecovery(c)
    BY <1>4, <1>22, <1>25 DEF RejectBeforeExecution, LifeCycle, HandlerInv
  <2>2. [NoRecord EXCEPT !.state = "accepted", !.acceptance = "rejected"].abort = "none"
    BY DEF NoRecord
  <2> QED
    BY <1>21, <1>25, <2>1, <2>2 DEF RejectBeforeExecution, Pcs, Marks
<1>26. ASSUME NEW c \in Commands, Accept(c) PROVE OwnershipInv'
  <2>1. ~PendingRecovery(c)
    BY <1>4, <1>22, <1>26 DEF Accept, LifeCycle, HandlerInv
  <2>2. [NoRecord EXCEPT !.state = "accepted", !.acceptance = "accepted",
             !.phase = IF Permit THEN "pre_rf" ELSE "none"].abort = "none"
    BY DEF NoRecord
  <2> QED
    BY <1>21, <1>26, <2>1, <2>2 DEF Accept, Pcs, Marks
<1>27. ASSUME NEW c \in Commands, MarkExecutionMayHaveStarted(c) PROVE OwnershipInv'
  <2> DEFINE r == [journal[c] EXCEPT !.phase = "may_have_written"]
  <2>1. journal' = [journal EXCEPT ![c] = r]
    BY <1>27 DEF MarkExecutionMayHaveStarted
  <2>2. journal[c].state = "accepted"
    BY <1>4, <1>27 DEF MarkExecutionMayHaveStarted, LifeCycle, HandlerInv
  <2>3. r.state = "accepted" /\ r.abort = journal[c].abort
    BY <1>4, <2>2 DEF Records
  <2> HIDE DEF r
  <2> QED
    BY <1>21, <1>27, <2>1, <2>3
       DEF MarkExecutionMayHaveStarted, Pcs, Early, Marks
<1>28. ASSUME NEW c \in Commands, CompleteRefusal(c) \/ CompleteRejection(c)
       PROVE  OwnershipInv'
  <2>1. Ends(c) /\ task[c].pc \in Early
    BY <1>28, ReturnEnds DEF CompleteRefusal, CompleteRejection, Early
  <2> QED
    BY <1>21, <1>23, <1>28, <2>1 DEF CompleteRefusal, CompleteRejection
<1>29. ASSUME NEW c \in Commands, CompleteWithAbort(c) PROVE OwnershipInv'
  <2> DEFINE r == [Refusal(c) EXCEPT !.abort = "pending"]
  <2>1. journal' = [journal EXCEPT ![c] = r]
    BY <1>29 DEF CompleteWithAbort
  <2>2. r.abort = "pending"
    BY <1>4 DEF Refusal, Records
  <2> HIDE DEF r
  <2> QED
    BY <1>21, <1>29, <2>1, <2>2 DEF CompleteWithAbort, Pcs, Early, Marks
<1>30. ASSUME NEW c \in Commands, MarkAutomationAbortComplete(c) PROVE OwnershipInv'
  <2> DEFINE r == [journal[c] EXCEPT !.abort = "completed"]
  <2>1. journal' = [journal EXCEPT ![c] = r] /\ task[c].pc = "abortMark"
    BY <1>30 DEF MarkAutomationAbortComplete
  <2>2. Ends(c)
    BY <1>30, ReturnEnds, NoTaskEnds DEF MarkAutomationAbortComplete, ReturnOrRecoverNext
  <2> HIDE DEF r
  <2> QED
    BY <1>21, <1>30, <2>1, <2>2 DEF MarkAutomationAbortComplete, Marks
<1>31. ASSUME NEW c \in Commands, CompleteWithHandoff(c) PROVE OwnershipInv'
  <2> DEFINE r == [journal[c] EXCEPT !.state = "completed",
                       !.reports = task[c].reports, !.handoff = "pending"]
  <2>1. journal' = [journal EXCEPT ![c] = r]
    BY <1>31 DEF CompleteWithHandoff, TypeOK
  <2>2. r.state = "completed" /\ r.handoff = "pending" /\ r.abort = journal[c].abort
    BY <1>4 DEF Records
  <2> HIDE DEF r
  <2> QED
    BY <1>21, <1>31, <2>1, <2>2 DEF CompleteWithHandoff, Pcs, Early, Marks
<1>32. ASSUME NEW c \in Commands, MarkAutomationHandoffComplete(c) PROVE OwnershipInv'
  <2> DEFINE r == [journal[c] EXCEPT !.handoff = "completed"]
  <2>1. journal' = [journal EXCEPT ![c] = r] /\ task[c].pc = "handoffMark"
    BY <1>32 DEF MarkAutomationHandoffComplete
  <2>2. Ends(c)
    BY <1>32, ReturnEnds, NoTaskEnds DEF MarkAutomationHandoffComplete, ReturnOrRecoverNext
  <2>3. r.abort = journal[c].abort
    BY <1>4 DEF Records
  <2> HIDE DEF r
  <2> QED
    BY <1>21, <1>32, <2>1, <2>2, <2>3 DEF MarkAutomationHandoffComplete, Marks
<1>33. ASSUME NEW c \in Commands, Prune(c) PROVE OwnershipInv'
  <2>1. Ends(c) /\ NoRecord.abort = "none"
    BY <1>33 DEF Prune, Idle, Ends, NoRecord
  <2> QED
    BY <1>21, <1>33, <2>1 DEF Prune
\* Steps that change the ownership.
<1>34. ASSUME NEW c \in Commands, Prepare(c) PROVE OwnershipInv'
  <2>1. Moves(c, "prepared") /\ journal[c].state = "accepted" /\ journal[c].abort = "none"
    BY <1>4, <1>34, GotoMoves
       DEF Prepare, Pcs, LifeCycle, HandlerInv, RecordInv, Records
  <2>2. \A f \in Fixtures :
            pendingMem'[f] = IF f \in Targets[c] THEN c ELSE pendingMem[f]
    BY <1>34 DEF Prepare, WriteThrough, TypeOK
  <2>3. pendingDisk' = pendingMem' \/ (DiskCanFill /\ UNCHANGED pendingDisk)
    BY <1>34 DEF Prepare, WriteThrough
  <2>4. StateInv'
    <3>1. \A f \in awaiting' : pendingMem'[f] # NoCommand
      BY <1>34, <2>2, NoneAssumption DEF Prepare, OwnershipInv, StateInv, TypeOK
    <3>2. \A d \in Commands, f \in Fixtures :
              pendingMem'[f] = d \/ pendingDisk'[f] = d => f \in Targets[d]
      BY <2>2, <2>3 DEF OwnershipInv, StateInv
    <3> QED
      BY <1>34, <2>3, <3>1, <3>2 DEF Prepare, OwnershipInv, StateInv
  <2>5. ASSUME NEW d \in Commands \ {c} PROVE OwnerInv(d)'
    BY <1>34, <2>1, <2>2, <2>3, OthersShrink DEF Prepare, Moves
  <2>6. OwnerInv(c)'
    BY <1>34, <2>1 DEF Prepare, OwnerInv, PendingRecovery, Moves, Early, Marks
  <2> QED
    BY <2>4, <2>5, <2>6 DEF OwnershipInv
<1>35. ASSUME NEW c \in Commands, AbortManualControl(c) PROVE OwnershipInv'
  <2>1. Moves(c, "abortMark")
    BY <1>35, GotoMoves DEF AbortManualControl, Pcs
  <2> QED
    BY <1>35, <2>1, Release DEF AbortManualControl
<1>36. ASSUME NEW c \in Commands, HandoffManualTerminal(c) PROVE OwnershipInv'
  <2>1. Moves(c, "handoffMark")
    BY <1>36, GotoMoves DEF HandoffManualTerminal, Pcs
  <2> QED
    BY <1>36, <2>1, Release DEF HandoffManualTerminal, WriteThrough
<1>37. ASSUME NEW f \in Fixtures, SettleByObservation(f) PROVE OwnershipInv'
  <2>1. \A g \in Fixtures :
            pendingMem'[g] = IF g = f THEN NoCommand ELSE pendingMem[g]
    BY <1>37 DEF SettleByObservation, WriteThrough, Released
  <2>2. pendingDisk' = pendingMem' \/ (DiskCanFill /\ UNCHANGED pendingDisk)
    BY <1>37 DEF SettleByObservation, WriteThrough
  <2>3. StateInv'
    <3>1. \A g \in awaiting' : pendingMem'[g] # NoCommand
      BY <1>37, <2>1 DEF SettleByObservation, OwnershipInv, StateInv, TypeOK
    <3>2. \A d \in Commands, g \in Fixtures :
              pendingMem'[g] = d \/ pendingDisk'[g] = d => g \in Targets[d]
      BY <2>1, <2>2, NoneAssumption DEF OwnershipInv, StateInv
    <3> QED
      BY <1>37, <2>2, <3>1, <3>2 DEF SettleByObservation, OwnershipInv, StateInv
  <2>4. ASSUME NEW d \in Commands PROVE OwnerInv(d)'
    BY <1>37, <2>1, <2>2, NoneAssumption, OthersShrink DEF SettleByObservation
  <2> QED
    BY <2>3, <2>4 DEF OwnershipInv
<1>38. CASE OpenIntake
  <2>1. ~DiskCanFill => awaiting = {}
    <3>1. SUFFICES ASSUME ~DiskCanFill, NEW f \in awaiting PROVE FALSE
      OBVIOUS
    <3>2. f \in Fixtures /\ pendingMem[f] \in Commands
      BY <3>1 DEF OwnershipInv, StateInv, TypeOK
    <3>3. PendingRecovery(pendingMem[f])
      BY <3>1, <3>2 DEF OwnershipInv, OwnerInv, Held
    <3> QED
      BY <1>38, <3>2, <3>3 DEF OpenIntake
  <2>2. StateInv'
    BY <1>38, <2>1 DEF OpenIntake, OwnershipInv, StateInv
  <2>3. ASSUME NEW d \in Commands PROVE OwnerInv(d)'
    BY <1>38, <2>3 DEF OpenIntake, OwnershipInv, OwnerInv, Held, PendingRecovery
  <2> QED
    BY <2>2, <2>3 DEF OwnershipInv
<1>39. CASE Crash
  <2>1. StateInv'
    BY <1>39 DEF Crash, OwnershipInv, StateInv
  <2>2. ASSUME NEW d \in Commands, NEW f \in Fixtures
        PROVE  /\ Held(d, f)' => PendingRecovery(d)'
               /\ task'[d].pc = "idle"
               /\ journal'[d].abort = "completed" =>
                     pendingMem'[f] # d /\ pendingDisk'[f] # d
    BY <1>39, <2>2, NoneAssumption
       DEF Crash, OwnershipInv, StateInv, OwnerInv, Held, PendingRecovery, NoTask
  <2>3. ASSUME NEW d \in Commands PROVE OwnerInv(d)'
    BY <2>2, <2>3 DEF OwnerInv, Early, Marks
  <2> QED
    BY <2>1, <2>3 DEF OwnershipInv
<1> QED
  BY <1>5, <1>6, <1>7, <1>8, <1>9, <1>10, <1>11, <1>12, <1>13, <1>14, <1>15,
     <1>16, <1>17, <1>19, <1>20, <1>24, <1>25, <1>26, <1>27, <1>28, <1>29,
     <1>30, <1>31, <1>32, <1>33, <1>34, <1>35, <1>36, <1>37, <1>38, <1>39
     DEF Next, HandlerStep

LEMMA OwnershipCorrect == Spec => [](TypeOK /\ LifeCycleInv /\ OwnershipInv)
BY TypeCorrect, LifeCycleCorrect, OwnershipInit, OwnershipNext, PTL DEF Spec

(***************************************************************************)
(* One handler of a mesh group at a time                                   *)
(***************************************************************************)
GroupInv ==
    \A c, d \in Commands :
        c # d /\ Group[c] # NoGroup /\ Group[d] = Group[c] => Idle(c) \/ Idle(d)

LEMMA GroupNext == TypeOK /\ GroupInv /\ [Next]_vars => GroupInv'
<1> SUFFICES ASSUME TypeOK, GroupInv, [Next]_vars PROVE GroupInv'
  OBVIOUS
<1> USE DEF processVars, envVars, brokerVars, physVars, autoVars, ackVars,
            recordVars, handlerVars, vars
\* A handler that was running, and nobody else, moves or ends.
<1>1. ASSUME NEW c \in Commands, ~Idle(c),
             \A d \in Commands \ {c} : task'[d] = task[d]
      PROVE  GroupInv'
  BY <1>1 DEF GroupInv, Idle
<1>2. ASSUME UNCHANGED task PROVE GroupInv'
  BY <1>2 DEF GroupInv, Idle
<1>3. ASSUME NEW c \in Commands, Dequeue(c) PROVE GroupInv'
  BY <1>3 DEF Dequeue, GroupFree, GroupInv, Idle, TypeOK
<1>4. ASSUME NEW c \in Commands, Recover(c) PROVE GroupInv'
  <2>1. \A d \in Commands \ {c} : task'[d] = task[d]
    BY <1>4 DEF Recover, Goto, TypeOK
  <2> QED
    BY <1>4, <2>1 DEF Recover, GroupInv, Idle
<1>5. ASSUME NEW c \in Commands, NEW pc \in Pcs, Goto(c, pc)
      PROVE  \A d \in Commands \ {c} : task'[d] = task[d]
  BY <1>5 DEF Goto, TypeOK
<1>6. ASSUME NEW c \in Commands,
             \/ Lookup(c) \/ PassIntake(c) \/ AdmissionRefused(c)
             \/ RejectBeforeExecution(c) \/ Accept(c) \/ ReleasePuback(c)
             \/ PublishAcceptance(c) \/ Recheck(c) \/ Prepare(c) \/ PrepareFails(c)
      PROVE  GroupInv'
  <2>1. ~Idle(c)
    BY <1>6 DEF Lookup, PassIntake, AdmissionRefused, RejectBeforeExecution, Accept,
                ReleasePuback, PublishAcceptance, Recheck, Prepare, PrepareFails, Idle
  <2>2. \A d \in Commands \ {c} : task'[d] = task[d]
    BY <1>6 DEF Lookup, PassIntake, AdmissionRefused, RejectBeforeExecution, Accept,
                ReleasePuback, PublishAcceptance, Recheck, Prepare, PrepareFails,
                Goto, Return, TypeOK
  <2> QED
    BY <1>1, <2>1, <2>2
<1>7. ASSUME NEW c \in Commands,
             \/ MarkExecutionMayHaveStarted(c) \/ StartExecution(c)
             \/ AdapterReports(c) \/ AdapterThrows(c) \/ Watchdog(c) \/ Veto(c)
             \/ \E f \in Fixtures : Write(c, f)
      PROVE  GroupInv'
  <2>1. ~Idle(c)
    BY <1>7 DEF MarkExecutionMayHaveStarted, StartExecution, AdapterReports,
                AdapterThrows, Watchdog, Veto, Write, MayStartWrite, Idle
  <2>2. \A d \in Commands \ {c} : task'[d] = task[d]
    BY <1>7 DEF MarkExecutionMayHaveStarted, StartExecution, AdapterReports,
                AdapterThrows, Watchdog, ExecutionFails, Veto, Write, Goto, TypeOK
  <2> QED
    BY <1>1, <2>1, <2>2
<1>8. ASSUME NEW c \in Commands,
             \/ CompleteRefusal(c) \/ CompleteRejection(c) \/ CompleteWithAbort(c)
             \/ AbortManualControl(c) \/ MarkAutomationAbortComplete(c)
             \/ CompleteWithHandoff(c) \/ HandoffManualTerminal(c)
             \/ MarkAutomationHandoffComplete(c) \/ HandoffFails(c) \/ HandlerThrows(c)
      PROVE  GroupInv'
  <2>1. ~Idle(c)
    BY <1>8 DEF CompleteRefusal, CompleteRejection, CompleteWithAbort,
                AbortManualControl, MarkAutomationAbortComplete, CompleteWithHandoff,
                HandoffManualTerminal, MarkAutomationHandoffComplete, HandoffFails,
                HandlerThrows, Process, Idle
  <2>2. \A d \in Commands \ {c} : task'[d] = task[d]
    BY <1>8 DEF CompleteRefusal, CompleteRejection, CompleteWithAbort,
                AbortManualControl, MarkAutomationAbortComplete, CompleteWithHandoff,
                HandoffManualTerminal, MarkAutomationHandoffComplete, HandoffFails,
                HandlerThrows, ReturnOrRecoverNext, Goto, Return, TypeOK
  <2> QED
    BY <1>1, <2>1, <2>2
<1>9. ASSUME NEW c \in Commands,
             \/ PublishFinalAcceptance(c) \/ PublishStatus(c) \/ PublishFails(c)
             \/ Deliver(c) \/ AdapterEndsLate(c) \/ Expire(c) \/ Prune(c)
      PROVE  GroupInv'
  BY <1>2, <1>9 DEF PublishFinalAcceptance, PublishStatus, PublishFails, Deliver,
                    AdapterEndsLate, Expire, Prune
<1>10. ASSUME (\E f \in Fixtures : SettleByObservation(f)) \/ OpenIntake \/ GateChange
              \/ UNCHANGED vars
       PROVE  GroupInv'
  BY <1>2, <1>10 DEF SettleByObservation, OpenIntake, GateChange
<1>11. CASE Crash
  BY <1>11 DEF Crash, NoTask, GroupInv, Idle
<1> QED
  BY <1>3, <1>4, <1>6, <1>7, <1>8, <1>9, <1>10, <1>11 DEF Next, HandlerStep

(***************************************************************************)
(* Theorems                                                                *)
(***************************************************************************)
\* An aborted command owns no fixture, in memory or on disk, whatever prepare,
\* duplicate or restart comes later.
THEOREM AbortIsFinal == Spec => []AbortReleasesOwnership
<1>1. OwnershipInv => AbortReleasesOwnership
  BY DEF OwnershipInv, OwnerInv, AbortReleasesOwnership
<1> QED
  BY <1>1, OwnershipCorrect, PTL

\* Somebody is always going to release a fixture a manual control holds.
THEOREM OwnershipIsAlwaysReleasable == Spec => []OwnershipIsReleasable
<1>1. TypeOK /\ OwnershipInv => OwnershipIsReleasable
  BY DEF TypeOK, OwnershipInv, OwnerInv, Held, OwnershipIsReleasable
<1> QED
  BY <1>1, OwnershipCorrect, PTL

\* With room on the disk, the ownership found there is owed by a record that the
\* recovery of the next start will find.
THEOREM DiskOwnershipIsAlwaysRecoverable == Spec => []DiskOwnershipIsRecoverable
<1>1. TypeOK /\ OwnershipInv => DiskOwnershipIsRecoverable
  BY DEF TypeOK, OwnershipInv, StateInv, OwnerInv, Held, DiskOwnershipIsRecoverable
<1> QED
  BY <1>1, OwnershipCorrect, PTL

\* With room on the disk nobody sets a fixture free while the command that owns
\* it is still under way.
THEOREM LiveOwnershipSurvives == Spec => LiveOwnershipIsKept
<1>1. ASSUME TypeOK, LifeCycleInv, OwnershipInv, [Next]_vars,
             NEW c \in Commands, NEW f \in Fixtures,
             ~DiskCanFill, phase' = "running",
             journal[c].state = "accepted", pendingMem[f] = c
      PROVE  pendingMem'[f] # NoCommand
  <2> USE DEF processVars, envVars, brokerVars, physVars, autoVars, ackVars,
              recordVars, handlerVars, vars
  <2>0. c # NoCommand
    BY NoneAssumption
  <2>1. CASE UNCHANGED autoVars
    BY <1>1, <2>0, <2>1
  <2>2. ASSUME NEW d \in Commands, Prepare(d) PROVE pendingMem'[f] # NoCommand
    BY <1>1, <2>0, <2>2, NoneAssumption DEF Prepare, WriteThrough
  <2>3. ASSUME NEW d \in Commands, AbortManualControl(d) \/ HandoffManualTerminal(d)
        PROVE  pendingMem'[f] # NoCommand
    <3>1. d # c
      BY <1>1, <2>3 DEF AbortManualControl, HandoffManualTerminal, LifeCycleInv,
                        LifeCycle, HandlerInv
    <3> QED
      BY <1>1, <2>0, <2>3, <3>1
         DEF AbortManualControl, HandoffManualTerminal, WriteThrough, Released, OwnedBy
  <2>4. ASSUME NEW g \in Fixtures, SettleByObservation(g) PROVE FALSE
    BY <1>1, <2>4 DEF SettleByObservation, OwnershipInv, StateInv
  <2>5. ~Crash
    BY <1>1 DEF Crash
  <2>6. ASSUME NEW d \in Commands,
               \/ Dequeue(d) \/ Lookup(d) \/ PassIntake(d) \/ AdmissionRefused(d)
               \/ RejectBeforeExecution(d) \/ Accept(d) \/ ReleasePuback(d)
               \/ PublishAcceptance(d) \/ Recheck(d) \/ PrepareFails(d)
               \/ MarkExecutionMayHaveStarted(d) \/ StartExecution(d)
               \/ AdapterReports(d) \/ AdapterThrows(d) \/ Watchdog(d)
        PROVE  UNCHANGED autoVars
    BY <2>6 DEF Dequeue, Lookup, PassIntake, AdmissionRefused, RejectBeforeExecution,
                Accept, ReleasePuback, PublishAcceptance, Recheck, PrepareFails,
                MarkExecutionMayHaveStarted, StartExecution, AdapterReports,
                AdapterThrows, Watchdog
  <2>7. ASSUME NEW d \in Commands,
               \/ CompleteRefusal(d) \/ CompleteRejection(d) \/ CompleteWithAbort(d)
               \/ MarkAutomationAbortComplete(d) \/ CompleteWithHandoff(d)
               \/ MarkAutomationHandoffComplete(d) \/ HandoffFails(d)
               \/ HandlerThrows(d) \/ PublishFinalAcceptance(d) \/ PublishStatus(d)
               \/ PublishFails(d) \/ Recover(d) \/ Deliver(d) \/ Veto(d)
               \/ AdapterEndsLate(d) \/ Expire(d) \/ Prune(d)
               \/ \E g \in Fixtures : Write(d, g)
        PROVE  UNCHANGED autoVars
    BY <2>7 DEF CompleteRefusal, CompleteRejection, CompleteWithAbort,
                MarkAutomationAbortComplete, CompleteWithHandoff,
                MarkAutomationHandoffComplete, HandoffFails, HandlerThrows,
                PublishFinalAcceptance, PublishStatus, PublishFails, Recover, Deliver,
                Veto, AdapterEndsLate, Expire, Prune, Write
  <2>8. OpenIntake \/ GateChange \/ UNCHANGED vars => UNCHANGED autoVars
    BY DEF OpenIntake, GateChange
  <2> QED
    BY <1>1, <2>1, <2>2, <2>3, <2>4, <2>5, <2>6, <2>7, <2>8 DEF Next, HandlerStep
<1>2. TypeOK /\ LifeCycleInv /\ OwnershipInv /\ [Next]_vars =>
          [\A c \in Commands, f \in Fixtures :
              /\ ~DiskCanFill /\ phase' = "running"
              /\ journal[c].state = "accepted" /\ pendingMem[f] = c
              => pendingMem'[f] # NoCommand]_vars
  BY <1>1
<1> QED
  BY <1>2, OwnershipCorrect, PTL DEF Spec, LiveOwnershipIsKept

\* Two commands to one mesh group never write in turns, late continuations of an
\* adapter call included.
THEOREM GroupWritesNeverInterleave == Spec => GroupWritesAreSerial
<1>1. Init => GroupInv
  BY DEF Init, GroupInv, Idle, NoTask
<1>2. ASSUME TypeOK, LifeCycleInv, GroupInv, [Next]_vars,
             NEW c \in Commands, NEW d \in Commands,
             c # d, Group[c] # NoGroup, Group[d] = Group[c], written'[c] # written[c]
      PROVE  Idle(d)
  <2>1. CASE \E e \in Commands, f \in Fixtures : Write(e, f)
    <3>1. PICK e \in Commands, f \in Fixtures : Write(e, f)
      BY <2>1
    <3>2. e = c
      BY <1>2, <3>1 DEF Write, TypeOK
    <3>3. ~Idle(c)
      BY <3>1, <3>2 DEF Write, MayStartWrite, Idle
    <3> QED
      BY <1>2, <3>3 DEF GroupInv
  <2>2. CASE UNCHANGED written
    BY <1>2, <2>2
  <2>3. ASSUME NEW e \in Commands,
               \/ Dequeue(e) \/ Lookup(e) \/ PassIntake(e) \/ AdmissionRefused(e)
               \/ RejectBeforeExecution(e) \/ Accept(e) \/ ReleasePuback(e)
               \/ PublishAcceptance(e) \/ Recheck(e) \/ Prepare(e) \/ PrepareFails(e)
               \/ MarkExecutionMayHaveStarted(e) \/ StartExecution(e)
               \/ AdapterReports(e) \/ AdapterThrows(e) \/ Watchdog(e)
        PROVE  UNCHANGED written
    BY <2>3 DEF Dequeue, Lookup, PassIntake, AdmissionRefused, RejectBeforeExecution,
                Accept, ReleasePuback, PublishAcceptance, Recheck, Prepare,
                PrepareFails, MarkExecutionMayHaveStarted, StartExecution,
                AdapterReports, AdapterThrows, Watchdog, physVars
  <2>4. ASSUME NEW e \in Commands,
               \/ CompleteRefusal(e) \/ CompleteRejection(e) \/ CompleteWithAbort(e)
               \/ AbortManualControl(e) \/ MarkAutomationAbortComplete(e)
               \/ CompleteWithHandoff(e) \/ HandoffManualTerminal(e)
               \/ MarkAutomationHandoffComplete(e) \/ HandoffFails(e)
               \/ HandlerThrows(e) \/ PublishFinalAcceptance(e) \/ PublishStatus(e)
               \/ PublishFails(e) \/ Recover(e) \/ Deliver(e) \/ Veto(e)
               \/ AdapterEndsLate(e) \/ Expire(e) \/ Prune(e)
        PROVE  UNCHANGED written
    BY <2>4 DEF CompleteRefusal, CompleteRejection, CompleteWithAbort,
                AbortManualControl, MarkAutomationAbortComplete, CompleteWithHandoff,
                HandoffManualTerminal, MarkAutomationHandoffComplete, HandoffFails,
                HandlerThrows, PublishFinalAcceptance, PublishStatus, PublishFails,
                Recover, Deliver, Veto, AdapterEndsLate, Expire, Prune, physVars
  <2>5. ASSUME (\E f \in Fixtures : SettleByObservation(f)) \/ OpenIntake \/ Crash
               \/ GateChange \/ UNCHANGED vars
        PROVE  UNCHANGED written
    BY <2>5 DEF SettleByObservation, OpenIntake, Crash, GateChange, physVars, vars
  <2> QED
    BY <1>2, <2>1, <2>2, <2>3, <2>4, <2>5 DEF Next, HandlerStep
<1>3. TypeOK /\ LifeCycleInv /\ GroupInv /\ [Next]_vars =>
          [\A c, d \in Commands :
              c # d /\ Group[c] # NoGroup /\ Group[d] = Group[c]
              /\ written'[c] # written[c] => Idle(d)]_vars
  BY <1>2
<1> QED
  BY <1>1, <1>3, GroupNext, TypeCorrect, LifeCycleCorrect, PTL
     DEF Spec, GroupWritesAreSerial
=============================================================================
