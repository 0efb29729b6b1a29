------------------------ MODULE GatewayJournalProofs ------------------------
(***************************************************************************)
(* What the journal record of a command promises: writes are on record, a  *)
(* result is final, a PUBACK is durable, the published status is the       *)
(* record's, and the handler with its journal keeps SetContract.           *)
(***************************************************************************)
EXTENDS GatewayCommandProofs

(***************************************************************************)
(* The inductive invariant, beyond LifeCycleInv                            *)
(***************************************************************************)
\* Every target has a status, nobody else has, and success was written.
Sound(c, r, lamps) ==
    /\ Contract!Covers(c, r)
    /\ \A f \in Fixtures : r[f] = "succeeded" => f \in lamps

Refusing(c) == journal[c].acceptance = "rejected"
               /\ journal[c].reports = AllReport(c, "failed")

\* The marker of an admitted command, and what a handler is about to record.
WorkInv(c) ==
    /\ Permit /\ journal[c].state = "accepted" /\ journal[c].acceptance = "accepted"
          => journal[c].phase \in {"pre_rf", "may_have_written"}
    /\ task[c].pc = "refuse" /\ journal[c].state = "completed" => Refusing(c)
    /\ task[c].pc = "finish" => Sound(c, task[c].reports, written[c])

\* What others were told of a command, or are about to be told.
ToldInv(c) ==
    /\ replies[c] # {} => journal[c].state = "completed"
    /\ pubacked[c] => pruned[c] \/ journal[c].state # "none"

ReportedInv(c) ==
    ~pruned[c] =>
        /\ \A r \in statusAcks[c] :
              journal[c].state = "completed" /\ journal[c].reports = r
        /\ "rejected" \in acceptAcks[c] =>
              journal[c].state = "completed" /\ journal[c].acceptance = "rejected"

JournalInv == \A c \in Commands : WorkInv(c) /\ ToldInv(c) /\ ReportedInv(c)

LEMMA JournalInit == Init => JournalInv
BY DEF Init, JournalInv, WorkInv, ToldInv, ReportedInv, NoTask, NoRecord

LEMMA AllReportSound ==
    ASSUME NEW c \in Commands, NEW s \in {"failed", "timed_out"}, NEW lamps
    PROVE  Sound(c, AllReport(c, s), lamps)
BY DEF Sound, AllReport, Contract!Covers

(***************************************************************************)
(* What one step may do to the record of a command                         *)
(***************************************************************************)
\* Only marks change: the execution marker, the owed handoff, the owed abort.
Kept(c) ==
    /\ pruned'[c] = pruned[c]
    /\ journal'[c].state = journal[c].state
    /\ journal'[c].acceptance = journal[c].acceptance
    /\ journal'[c].reports = journal[c].reports
    /\ journal'[c].phase \in {journal[c].phase, "may_have_written"}

\* The command is admitted, or refused in two steps.
Opened(c) ==
    /\ pruned'[c] = pruned[c] /\ written'[c] = written[c]
    /\ journal[c].state = "none" /\ ~pruned[c]
    /\ journal'[c].state = "accepted"
    /\ Permit /\ journal'[c].acceptance = "accepted" => journal'[c].phase = "pre_rf"

RefusedNow(c) ==
    /\ pruned'[c] = pruned[c] /\ written'[c] = written[c]
    /\ journal[c].state # "completed"
    /\ pruned[c] \/ written[c] = {}
    /\ journal'[c] = [Refusal(c) EXCEPT !.abort = journal'[c].abort]

FinishedNow(c) ==
    /\ pruned'[c] = pruned[c] /\ written'[c] = written[c]
    /\ task[c].pc = "finish"
    /\ journal[c].state = "accepted" /\ journal'[c].state = "completed"
    /\ journal'[c].acceptance = journal[c].acceptance
    /\ journal'[c].reports = task[c].reports

Forgotten(c) ==
    /\ written'[c] = written[c]
    /\ journal[c].state = "completed"
    /\ replies'[c] = {}
    /\ pruned'[c] /\ journal'[c] = NoRecord

\* A native write happens inside the adapter call of an admitted command.
WroteNow(c) ==
    /\ journal'[c] = journal[c] /\ pruned'[c] = pruned[c]
    /\ journal[c].state = "accepted" /\ journal[c].acceptance = "accepted"
    /\ journal[c].phase # "pre_rf"
    /\ \E f \in Targets[c] : written'[c] = written[c] \cup {f}

RecordStep(c) ==
    \/ Kept(c) /\ written'[c] = written[c]
    \/ Opened(c) \/ RefusedNow(c) \/ FinishedNow(c) \/ Forgotten(c) \/ WroteNow(c)

LEMMA RefusalFields ==
    ASSUME TypeOK, NEW c \in Commands
    PROVE  /\ Refusal(c).state = "completed" /\ Refusal(c).acceptance = "rejected"
           /\ Refusal(c).reports = AllReport(c, "failed")
           /\ Refusal(c).abort = journal[c].abort
           /\ Refusal(c).phase = journal[c].phase
           /\ Refusal(c) = [Refusal(c) EXCEPT !.abort = journal[c].abort]
           /\ \A a : LET r == [Refusal(c) EXCEPT !.abort = a]
                     IN  /\ r.state = "completed" /\ r.acceptance = "rejected"
                         /\ r.reports = AllReport(c, "failed") /\ r.abort = a
                         /\ r = [Refusal(c) EXCEPT !.abort = r.abort]
<1>1. journal[c] \in Records
  BY DEF TypeOK
<1> QED
  BY <1>1 DEF Refusal, Records

LEMMA RefusedFields ==
    ASSUME TypeOK, NEW c \in Commands, RefusedNow(c)
    PROVE  /\ journal'[c].state = "completed" /\ journal'[c].acceptance = "rejected"
           /\ journal'[c].reports = AllReport(c, "failed")
<1>1. PICK a : journal'[c] = [Refusal(c) EXCEPT !.abort = a]
  BY DEF RefusedNow
<1> QED
  BY <1>1, RefusalFields

\* One step concerns the record of one command at most.
OneRecordStep ==
    \/ UNCHANGED <<journal, pruned, written>>
    \/ \E c \in Commands :
          /\ RecordStep(c)
          /\ pruned' = [pruned EXCEPT ![c] = pruned'[c]]
          /\ journal' = [journal EXCEPT ![c] = journal'[c]]
          /\ written' = [written EXCEPT ![c] = written'[c]]

LEMMA AllRecordSteps ==
    ASSUME TypeOK, OneRecordStep
    PROVE  \A d \in Commands : RecordStep(d)
<1>1. CASE UNCHANGED <<journal, pruned, written>>
  BY <1>1 DEF RecordStep, Kept
<1>2. ASSUME NEW c \in Commands, RecordStep(c),
             pruned' = [pruned EXCEPT ![c] = pruned'[c]],
             journal' = [journal EXCEPT ![c] = journal'[c]],
             written' = [written EXCEPT ![c] = written'[c]]
      PROVE  \A d \in Commands : RecordStep(d)
  BY <1>2 DEF TypeOK, RecordStep, Kept
<1> QED
  BY <1>1, <1>2 DEF OneRecordStep

\* Every refusal of a command whose record is not completed yet.
LEMMA RefusalRecorded ==
    ASSUME TypeOK, NEW c \in Commands, UNCHANGED <<pruned, written>>,
           \/ journal' = [journal EXCEPT ![c] = Refusal(c)]
           \/ journal' = [journal EXCEPT ![c] = [Refusal(c) EXCEPT !.abort = "pending"]],
           journal[c].state # "completed", pruned[c] \/ written[c] = {}
    PROVE  OneRecordStep
<1>0. /\ pruned' = [pruned EXCEPT ![c] = pruned'[c]]
      /\ written' = [written EXCEPT ![c] = written'[c]]
  BY DEF TypeOK
<1>1. CASE journal' = [journal EXCEPT ![c] = Refusal(c)]
  <2>1. journal'[c] = Refusal(c)
    BY <1>1 DEF TypeOK
  <2>2. journal'[c] = [Refusal(c) EXCEPT !.abort = journal'[c].abort]
    BY <2>1, RefusalFields
  <2>3. RecordStep(c)
    BY <2>2 DEF RecordStep, RefusedNow
  <2> QED
    BY <1>1, <2>3, <2>1, <1>0 DEF OneRecordStep, TypeOK
<1>2. CASE journal' = [journal EXCEPT ![c] = [Refusal(c) EXCEPT !.abort = "pending"]]
  <2>1. journal'[c] = [Refusal(c) EXCEPT !.abort = "pending"]
    BY <1>2 DEF TypeOK
  <2>2. journal'[c] = [Refusal(c) EXCEPT !.abort = journal'[c].abort]
    BY <2>1, RefusalFields
  <2>3. RecordStep(c)
    BY <2>2 DEF RecordStep, RefusedNow
  <2> QED
    BY <1>2, <2>3, <2>1, <1>0 DEF OneRecordStep, TypeOK
<1> QED
  BY <1>1, <1>2

LEMMA RecordNext ==
    TypeOK /\ LifeCycleInv /\ JournalInv /\ [Next]_vars
        => OneRecordStep
<1> SUFFICES ASSUME TypeOK, LifeCycleInv, JournalInv, [Next]_vars PROVE OneRecordStep
  OBVIOUS
<1> USE DEF processVars, envVars, brokerVars, physVars, autoVars, ackVars,
            recordVars, handlerVars, vars
<1>0. ASSUME NEW c \in Commands
      PROVE  /\ journal[c] \in Records /\ LifeCycle(c) /\ WorkInv(c)
             /\ journal' = [journal EXCEPT ![c] = journal'[c]]
                /\ UNCHANGED <<pruned, written>> /\ RecordStep(c) => OneRecordStep
  BY DEF OneRecordStep, LifeCycleInv, JournalInv, TypeOK
<1>1. ASSUME NEW c \in Commands, AdmissionRefused(c) PROVE OneRecordStep
  <2>1. journal[c].state = "none" /\ (pruned[c] \/ written[c] = {})
    BY <1>0, <1>1 DEF AdmissionRefused, LifeCycle, HandlerInv, RecordInv, NotStarted
  <2> QED
    BY <1>1, <2>1, RefusalRecorded DEF AdmissionRefused
<1>2. ASSUME NEW c \in Commands, RejectBeforeExecution(c) PROVE OneRecordStep
  <2>1. journal[c].state = "none" /\ ~pruned[c]
    BY <1>0, <1>2 DEF RejectBeforeExecution, LifeCycle, HandlerInv
  <2>2. journal'[c].state = "accepted" /\ journal'[c].acceptance = "rejected"
    BY <1>2 DEF RejectBeforeExecution, NoRecord, TypeOK
  <2>3. RecordStep(c)
    BY <1>2, <2>1, <2>2 DEF RejectBeforeExecution, RecordStep, Opened
  <2> QED
    BY <1>0, <1>2, <2>3 DEF RejectBeforeExecution, TypeOK
<1>3. ASSUME NEW c \in Commands, Accept(c) PROVE OneRecordStep
  <2>1. journal[c].state = "none" /\ ~pruned[c]
    BY <1>0, <1>3 DEF Accept, LifeCycle, HandlerInv
  <2>2. journal'[c].state = "accepted" /\ (Permit => journal'[c].phase = "pre_rf")
    BY <1>3 DEF Accept, NoRecord, TypeOK
  <2>3. RecordStep(c)
    BY <1>3, <2>1, <2>2 DEF Accept, RecordStep, Opened
  <2> QED
    BY <1>0, <1>3, <2>3 DEF Accept, TypeOK
<1>4. ASSUME NEW c \in Commands, MarkExecutionMayHaveStarted(c) PROVE OneRecordStep
  <2>1. journal'[c] = [journal[c] EXCEPT !.phase = "may_have_written"]
    BY <1>4 DEF MarkExecutionMayHaveStarted, TypeOK
  <2>2. RecordStep(c)
    BY <1>0, <1>4, <2>1 DEF MarkExecutionMayHaveStarted, RecordStep, Kept, Records
  <2> QED
    BY <1>0, <1>4, <2>1, <2>2 DEF MarkExecutionMayHaveStarted, TypeOK
<1>5. ASSUME NEW c \in Commands, NEW f \in Fixtures, Write(c, f) PROVE OneRecordStep
  <2>1. /\ journal[c].state = "accepted" /\ journal[c].acceptance = "accepted"
        /\ journal[c].phase # "pre_rf"
    BY <1>0, <1>5 DEF Write, MayStartWrite, LifeCycle, HandlerInv
  <2>2. written' = [written EXCEPT ![c] = written'[c]]
        /\ written'[c] = written[c] \cup {f}
    BY <1>5 DEF Write, TypeOK
  <2>3. RecordStep(c)
    BY <1>5, <2>1, <2>2 DEF Write, RecordStep, WroteNow
  <2> QED
    BY <1>5, <2>2, <2>3 DEF OneRecordStep, Write, TypeOK
<1>6. ASSUME NEW c \in Commands, CompleteRefusal(c) PROVE OneRecordStep
  <2>1. CASE journal[c].state = "completed"
    <3>1. Refusing(c) /\ journal'[c] = Refusal(c)
      BY <1>0, <1>6, <2>1 DEF CompleteRefusal, WorkInv, TypeOK
    <3>2. RecordStep(c)
      BY <1>6, <2>1, <3>1, RefusalFields
         DEF CompleteRefusal, RecordStep, Kept, Refusing
    <3> QED
      BY <1>0, <1>6, <3>1, <3>2 DEF CompleteRefusal
  <2>2. CASE journal[c].state # "completed"
    <3>1. pruned[c] \/ written[c] = {}
      BY <1>0, <1>6 DEF CompleteRefusal, LifeCycle, HandlerInv, NotStarted
    <3> QED
      BY <1>6, <2>2, <3>1, RefusalRecorded DEF CompleteRefusal
  <2> QED
    BY <2>1, <2>2
<1>7. ASSUME NEW c \in Commands, CompleteRejection(c) PROVE OneRecordStep
  <2>1. journal[c].state = "accepted" /\ written[c] = {}
    BY <1>0, <1>7 DEF CompleteRejection, LifeCycle, HandlerInv, RecordInv, NotStarted
  <2> QED
    BY <1>7, <2>1, RefusalRecorded DEF CompleteRejection
<1>8. ASSUME NEW c \in Commands, CompleteWithAbort(c) PROVE OneRecordStep
  <2>1. journal[c].state = "accepted" /\ written[c] = {}
    BY <1>0, <1>8 DEF CompleteWithAbort, LifeCycle, HandlerInv
  <2> QED
    BY <1>8, <2>1, RefusalRecorded DEF CompleteWithAbort
<1>9. ASSUME NEW c \in Commands, MarkAutomationAbortComplete(c) PROVE OneRecordStep
  <2>1. journal'[c] = [journal[c] EXCEPT !.abort = "completed"]
    BY <1>9 DEF MarkAutomationAbortComplete, TypeOK
  <2>2. RecordStep(c)
    BY <1>0, <1>9, <2>1 DEF MarkAutomationAbortComplete, RecordStep, Kept, Records
  <2> QED
    BY <1>0, <1>9, <2>1, <2>2 DEF MarkAutomationAbortComplete, TypeOK
<1>10. ASSUME NEW c \in Commands, CompleteWithHandoff(c) PROVE OneRecordStep
  <2>1. journal'[c] = [journal[c] EXCEPT !.state = "completed",
                           !.reports = task[c].reports, !.handoff = "pending"]
    BY <1>10 DEF CompleteWithHandoff, TypeOK
  <2>2. journal[c].state = "accepted"
    BY <1>0, <1>10 DEF CompleteWithHandoff, LifeCycle, HandlerInv
  <2>3. /\ journal'[c].state = "completed"
        /\ journal'[c].acceptance = journal[c].acceptance
        /\ journal'[c].reports = task[c].reports
    BY <1>0, <2>1 DEF Records
  <2>4. RecordStep(c)
    BY <1>10, <2>2, <2>3 DEF CompleteWithHandoff, RecordStep, FinishedNow
  <2>5. journal' = [journal EXCEPT ![c] = journal'[c]]
    BY <1>10 DEF CompleteWithHandoff, TypeOK
  <2> QED
    BY <1>0, <1>10, <2>4, <2>5 DEF CompleteWithHandoff
<1>11. ASSUME NEW c \in Commands, MarkAutomationHandoffComplete(c) PROVE OneRecordStep
  <2>1. journal'[c] = [journal[c] EXCEPT !.handoff = "completed"]
    BY <1>11 DEF MarkAutomationHandoffComplete, TypeOK
  <2>2. RecordStep(c)
    BY <1>0, <1>11, <2>1 DEF MarkAutomationHandoffComplete, RecordStep, Kept, Records
  <2> QED
    BY <1>0, <1>11, <2>1, <2>2 DEF MarkAutomationHandoffComplete, TypeOK
<1>12. ASSUME NEW c \in Commands, Prune(c) PROVE OneRecordStep
  <2>1. /\ journal'[c] = NoRecord /\ pruned'[c] /\ journal[c].state = "completed"
        /\ pruned' = [pruned EXCEPT ![c] = pruned'[c]]
    BY <1>12 DEF Prune, TypeOK
  <2>2. RecordStep(c)
    BY <1>12, <2>1 DEF Prune, RecordStep, Forgotten
  <2>3. /\ journal' = [journal EXCEPT ![c] = journal'[c]]
        /\ written' = [written EXCEPT ![c] = written'[c]]
    BY <1>12 DEF Prune, TypeOK
  <2> QED
    BY <2>1, <2>2, <2>3 DEF OneRecordStep
<1>13. ASSUME UNCHANGED <<journal, pruned, written>> PROVE OneRecordStep
  BY <1>13 DEF OneRecordStep
<1>14. ASSUME NEW c \in Commands,
              \/ Dequeue(c) \/ Lookup(c) \/ PassIntake(c) \/ ReleasePuback(c)
              \/ PublishAcceptance(c) \/ Recheck(c) \/ Prepare(c) \/ PrepareFails(c)
              \/ StartExecution(c) \/ AdapterReports(c) \/ AdapterThrows(c) \/ Watchdog(c)
       PROVE  OneRecordStep
  BY <1>13, <1>14
     DEF Dequeue, Lookup, PassIntake, ReleasePuback, PublishAcceptance, Recheck, Prepare,
         PrepareFails, StartExecution, AdapterReports, AdapterThrows, Watchdog
<1>15. ASSUME NEW c \in Commands,
              \/ AbortManualControl(c) \/ HandoffManualTerminal(c) \/ HandoffFails(c)
              \/ HandlerThrows(c) \/ PublishFinalAcceptance(c) \/ PublishStatus(c)
              \/ PublishFails(c) \/ Recover(c) \/ Deliver(c) \/ Veto(c)
              \/ AdapterEndsLate(c) \/ Expire(c)
       PROVE  OneRecordStep
  BY <1>13, <1>15
     DEF AbortManualControl, HandoffManualTerminal, HandoffFails, HandlerThrows,
         PublishFinalAcceptance, PublishStatus, PublishFails, Recover, Deliver, Veto,
         AdapterEndsLate, Expire
<1>16. ASSUME (\E f \in Fixtures : SettleByObservation(f)) \/ OpenIntake \/ Crash
              \/ GateChange \/ UNCHANGED vars
       PROVE  OneRecordStep
  BY <1>13, <1>16 DEF SettleByObservation, OpenIntake, Crash, GateChange
<1> QED
  BY <1>1, <1>2, <1>3, <1>4, <1>5, <1>6, <1>7, <1>8, <1>9, <1>10, <1>11,
     <1>12, <1>14, <1>15, <1>16
     DEF Next, HandlerStep

(***************************************************************************)
(* What one step may do to the handler, its replies and its publications   *)
(***************************************************************************)
HandlerStands(c) ==
    /\ task'[c].pc = "refuse" =>
          \/ task[c].pc = "refuse"
          \/ journal'[c].state # "completed"
          \/ Refusing(c)'
    /\ task'[c].pc = "finish" =>
          \/ task[c].pc = "finish" /\ task'[c].reports = task[c].reports
          \/ Sound(c, task'[c].reports, written[c])

TellsRecord(c) ==
    /\ replies'[c] # {} => replies[c] # {} \/ journal'[c].state = "completed"
    /\ pubacked'[c] =>
          pubacked[c] \/ journal[c].state # "none" \/ journal'[c].state = "completed"
    /\ \A r \in statusAcks'[c] \ statusAcks[c] :
          /\ journal[c].state = "completed" /\ journal'[c] = journal[c]
          /\ r = journal[c].reports
    /\ "rejected" \in acceptAcks'[c] \ acceptAcks[c] =>
          /\ journal[c].state = "completed" /\ journal'[c] = journal[c]
          /\ journal[c].acceptance = "rejected"

LEMMA JournalStep ==
    ASSUME TypeOK, JournalInv, NEW c \in Commands,
           RecordStep(c), HandlerStands(c), TellsRecord(c)
    PROVE  WorkInv(c)' /\ ToldInv(c)' /\ ReportedInv(c)'
<1>0. WorkInv(c) /\ ToldInv(c) /\ ReportedInv(c)
  BY DEF JournalInv
<1>1. WorkInv(c)'
  <2>1. CASE Kept(c) /\ written'[c] = written[c]
    BY <1>0, <2>1 DEF Kept, HandlerStands, WorkInv, Sound, Refusing, AllReport
  <2>2. CASE Opened(c)
    BY <1>0, <2>2 DEF Opened, HandlerStands, WorkInv, Sound, Refusing
  <2>3. CASE RefusedNow(c)
    <3>1. Refusing(c)' /\ journal'[c].state = "completed"
      BY <2>3, RefusedFields DEF Refusing, AllReport
    <3> QED
      BY <1>0, <2>3, <3>1 DEF RefusedNow, HandlerStands, WorkInv, Sound
  <2>4. CASE FinishedNow(c)
    BY <1>0, <2>4 DEF FinishedNow, HandlerStands, WorkInv, Sound
  <2>5. CASE Forgotten(c)
    BY <1>0, <2>5 DEF Forgotten, NoRecord, HandlerStands, WorkInv, Sound
  <2>6. CASE WroteNow(c)
    BY <1>0, <2>6 DEF WroteNow, HandlerStands, WorkInv, Sound
  <2> QED
    BY <2>1, <2>2, <2>3, <2>4, <2>5, <2>6 DEF RecordStep
<1>2. ToldInv(c)'
  <2>1. CASE RefusedNow(c)
    <3>1. journal'[c].state = "completed"
      BY <2>1, RefusedFields
    <3> QED
      BY <3>1 DEF ToldInv
  <2>2. CASE ~RefusedNow(c)
    BY <1>0, <2>2 DEF ToldInv, TellsRecord, RecordStep, Kept, Opened, FinishedNow,
                      Forgotten, WroteNow
  <2> QED
    BY <2>1, <2>2
<1>3. ReportedInv(c)'
  BY <1>0 DEF ReportedInv, TellsRecord, RecordStep, Kept, Opened, RefusedNow,
              FinishedNow, Forgotten, WroteNow
<1> QED
  BY <1>1, <1>2, <1>3

LEMMA OneStands ==
    ASSUME NEW c \in Commands, HandlerStands(c),
           \A d \in Commands \ {c} : task'[d] = task[d]
    PROVE  \A d \in Commands : HandlerStands(d)
BY DEF HandlerStands

LEMMA NoneStands ==
    ASSUME UNCHANGED task
    PROVE  \A d \in Commands : HandlerStands(d)
BY DEF HandlerStands

\* The handler is on its way to complete the record with the given reports.
LEMMA FinishStands ==
    ASSUME TypeOK, NEW c \in Commands, NEW r, Sound(c, r, written[c]),
           task' = [task EXCEPT ![c].pc = "finish", ![c].reports = r]
    PROVE  \A d \in Commands : HandlerStands(d)
<1>1. task[c] \in Tasks
  BY DEF TypeOK
<1>2. task'[c] = [task[c] EXCEPT !.pc = "finish", !.reports = r]
  BY DEF TypeOK
<1>3. task'[c].pc = "finish" /\ task'[c].reports = r
  BY <1>1, <1>2 DEF Tasks
<1>4. HandlerStands(c)
  BY <1>3 DEF HandlerStands
<1> QED
  BY <1>4, OneStands DEF TypeOK

LEMMA FailureStands ==
    ASSUME TypeOK, NEW c \in Commands, NEW w \in BOOLEAN, ExecutionFails(c, w)
    PROVE  \A d \in Commands : HandlerStands(d)
<1>1. CASE Goto(c, "refuseAbort")
  <2>1. Moves(c, "refuseAbort")
    BY <1>1, GotoMoves DEF Pcs
  <2>2. HandlerStands(c)
    BY <2>1 DEF Moves, HandlerStands
  <2> QED
    BY <2>1, <2>2, OneStands DEF Moves
<1>2. CASE task' = [task EXCEPT ![c].pc = "finish",
              ![c].reports = AllReport(c, IF task[c].wrote \/ w
                                          THEN "timed_out" ELSE "failed")]
  <2>1. Sound(c, AllReport(c, IF task[c].wrote \/ w THEN "timed_out" ELSE "failed"),
              written[c])
    BY AllReportSound
  <2> QED
    BY <1>2, <2>1, FinishStands
<1> QED
  BY <1>1, <1>2 DEF ExecutionFails

LEMMA HandlerNext ==
    TypeOK /\ LifeCycleInv /\ [Next]_vars => \A c \in Commands : HandlerStands(c)
<1> DEFINE Stand == \A d \in Commands : HandlerStands(d)
<1> SUFFICES ASSUME TypeOK, LifeCycleInv, [Next]_vars PROVE Stand
  OBVIOUS
<1> USE DEF processVars, envVars, brokerVars, physVars, autoVars, ackVars,
            recordVars, handlerVars, vars
<1>0. ASSUME NEW c \in Commands, task'[c].pc \notin {"refuse", "finish"},
             \A d \in Commands \ {c} : task'[d] = task[d]
      PROVE  Stand
  BY <1>0, OneStands DEF HandlerStands
<1>1. ASSUME NEW c \in Commands, Ends(c) PROVE Stand
  BY <1>0, <1>1 DEF Ends
<1>2. ASSUME NEW c \in Commands, NEW pc \in Pcs \ {"refuse", "finish"}, Goto(c, pc)
      PROVE  Stand
  BY <1>0, <1>2, GotoMoves DEF Moves
<1>3. ASSUME NEW c \in Commands, Dequeue(c) PROVE Stand
  BY <1>0, <1>3 DEF Dequeue, NoTask, TypeOK
<1>4. ASSUME NEW c \in Commands, Lookup(c) PROVE Stand
  <2>1. Sound(c, AllReport(c, "timed_out"), written[c])
    BY AllReportSound
  <2>2. CASE \E a : Return(c, a)
    BY <1>1, <2>2, ReturnEnds
  <2> QED
    BY <1>2, <1>4, <2>1, <2>2, FinishStands DEF Lookup, Pcs
<1>5. ASSUME NEW c \in Commands,
             \/ PassIntake(c) \/ RejectBeforeExecution(c) \/ Accept(c) \/ Prepare(c)
             \/ MarkExecutionMayHaveStarted(c) \/ StartExecution(c)
             \/ CompleteWithAbort(c) \/ AbortManualControl(c)
             \/ CompleteWithHandoff(c) \/ HandoffManualTerminal(c)
      PROVE  Stand
  BY <1>2, <1>5
     DEF PassIntake, RejectBeforeExecution, Accept, Prepare,
         MarkExecutionMayHaveStarted, StartExecution, CompleteWithAbort,
         AbortManualControl, CompleteWithHandoff, HandoffManualTerminal, Pcs
<1>6. ASSUME NEW c \in Commands, AdmissionRefused(c) PROVE Stand
  <2>1. Moves(c, "refuse") /\ journal'[c] = Refusal(c)
    BY <1>6, GotoMoves DEF AdmissionRefused, Pcs, TypeOK
  <2>2. Refusing(c)'
    BY <2>1, RefusalFields DEF Refusing, AllReport
  <2>3. HandlerStands(c)
    BY <2>1, <2>2 DEF Moves, HandlerStands
  <2> QED
    BY <2>1, <2>3, OneStands DEF Moves
<1>7. ASSUME NEW c \in Commands, ReleasePuback(c) PROVE Stand
  <2>1. (IF Refused(c) THEN "refuse" ELSE "acking") \in Pcs
    BY DEF Pcs
  <2>2. Moves(c, "refuse") \/ Moves(c, "acking")
    BY <1>7, <2>1, GotoMoves DEF ReleasePuback
  <2>3. journal'[c].state = "accepted"
    BY <1>7 DEF ReleasePuback, LifeCycleInv, LifeCycle, HandlerInv
  <2>4. HandlerStands(c)
    BY <2>2, <2>3 DEF Moves, HandlerStands
  <2> QED
    BY <2>2, <2>4, OneStands DEF Moves
<1>8. ASSUME NEW c \in Commands, PublishAcceptance(c) PROVE Stand
  <2>1. task[c] \in Tasks /\ task'[c] = [task[c] EXCEPT !.pc = "acked", !.acked = TRUE]
    BY <1>8 DEF PublishAcceptance, TypeOK
  <2>2. task'[c].pc = "acked"
    BY <2>1 DEF Tasks
  <2> QED
    BY <1>0, <1>8, <2>2 DEF PublishAcceptance, TypeOK
<1>9. ASSUME NEW c \in Commands, Recheck(c) PROVE Stand
  <2>1. CASE task[c].pc = "acked" /\ Goto(c, "refuse")
    <3>1. Moves(c, "refuse") /\ journal'[c].state = "accepted"
      BY <1>9, <2>1, GotoMoves DEF Recheck, Pcs, LifeCycleInv, LifeCycle, HandlerInv
    <3>2. HandlerStands(c)
      BY <3>1 DEF Moves, HandlerStands
    <3> QED
      BY <3>1, <3>2, OneStands DEF Moves
  <2>2. CASE Goto(c, "refuseAbort")
    BY <1>2, <2>2 DEF Pcs
  <2> QED
    BY <1>9, <2>1, <2>2 DEF Recheck
<1>10. ASSUME NEW c \in Commands, PrepareFails(c) PROVE Stand
  <2>1. Sound(c, AllReport(c, "failed"), written[c])
    BY AllReportSound
  <2> QED
    BY <1>10, <2>1, FinishStands DEF PrepareFails
<1>11. ASSUME NEW c \in Commands, AdapterReports(c) PROVE Stand
  <2>1. CASE Goto(c, "refuseAbort")
    BY <1>2, <2>1 DEF Pcs
  <2>2. CASE ~Goto(c, "refuseAbort")
    <3>1. PICK r \in [Targets[c] -> Statuses \ {"none"}] :
              /\ \A f \in Targets[c] : r[f] = "succeeded" => f \in written[c]
              /\ task' = [task EXCEPT ![c].pc = "finish",
                           ![c].reports = [f \in Fixtures |->
                               IF f \in Targets[c] THEN r[f] ELSE "none"]]
      BY <1>11, <2>2 DEF AdapterReports
    <3>2. Sound(c, [f \in Fixtures |-> IF f \in Targets[c] THEN r[f] ELSE "none"],
                written[c])
      BY <3>1 DEF Sound, Contract!Covers
    <3> QED
      BY <3>1, <3>2, FinishStands
  <2> QED
    BY <2>1, <2>2
<1>12. ASSUME NEW c \in Commands, AdapterThrows(c) \/ Watchdog(c) PROVE Stand
  BY <1>12, FailureStands DEF AdapterThrows, Watchdog
<1>13. ASSUME NEW c \in Commands,
              \/ CompleteRefusal(c) \/ CompleteRejection(c)
              \/ MarkAutomationAbortComplete(c) \/ MarkAutomationHandoffComplete(c)
              \/ HandoffFails(c) \/ HandlerThrows(c)
       PROVE  Stand
  BY <1>1, <1>13, ReturnEnds, NoTaskEnds
     DEF CompleteRefusal, CompleteRejection, MarkAutomationAbortComplete,
         MarkAutomationHandoffComplete, HandoffFails, HandlerThrows,
         ReturnOrRecoverNext
<1>14. ASSUME NEW c \in Commands, Recover(c) PROVE Stand
  <2>1. Sound(c, AllReport(c, "timed_out"), written[c])
    BY AllReportSound
  <2> QED
    BY <1>2, <1>14, <2>1, FinishStands DEF Recover, Pcs
<1>15. ASSUME NEW c \in Commands, Veto(c) \/ \E f \in Fixtures : Write(c, f) PROVE Stand
  <2>1. task[c] \in Tasks /\ task[c].pc = "applying"
    BY <1>15 DEF Veto, Write, MayStartWrite, TypeOK
  <2>2. \/ task'[c] = [task[c] EXCEPT !.vetoed = TRUE]
        \/ task'[c] = [task[c] EXCEPT !.wrote = TRUE]
    BY <1>15 DEF Veto, Write, TypeOK
  <2>3. task'[c].pc = "applying"
    BY <2>1, <2>2 DEF Tasks
  <2>4. \A d \in Commands \ {c} : task'[d] = task[d]
    BY <1>15 DEF Veto, Write, TypeOK
  <2> QED
    BY <1>0, <2>3, <2>4
<1>16. ASSUME NEW c \in Commands,
              \/ PublishFinalAcceptance(c) \/ PublishStatus(c) \/ PublishFails(c)
              \/ Deliver(c) \/ AdapterEndsLate(c) \/ Expire(c) \/ Prune(c)
       PROVE  Stand
  BY <1>16, NoneStands
     DEF PublishFinalAcceptance, PublishStatus, PublishFails, Deliver,
         AdapterEndsLate, Expire, Prune
<1>17. ASSUME (\E f \in Fixtures : SettleByObservation(f)) \/ OpenIntake
              \/ GateChange \/ UNCHANGED vars
       PROVE  Stand
  BY <1>17, NoneStands DEF SettleByObservation, OpenIntake, GateChange
<1>18. CASE Crash
  BY <1>18 DEF Crash, NoTask, HandlerStands
<1> QED
  BY <1>3, <1>4, <1>5, <1>6, <1>7, <1>8, <1>9, <1>10, <1>11, <1>12, <1>13,
     <1>14, <1>15, <1>16, <1>17, <1>18
     DEF Next, HandlerStep

LEMMA TellNext ==
    TypeOK /\ LifeCycleInv /\ JournalInv /\ [Next]_vars
        => \A c \in Commands : TellsRecord(c)
<1> DEFINE Tell == \A d \in Commands : TellsRecord(d)
<1> SUFFICES ASSUME TypeOK, LifeCycleInv, JournalInv, [Next]_vars PROVE Tell
  OBVIOUS
<1> USE DEF processVars, envVars, brokerVars, physVars, autoVars, ackVars,
            recordVars, handlerVars, vars
<1>1. ASSUME UNCHANGED ackVars, UNCHANGED pubacked,
             \A d \in Commands : replies'[d] # {} =>
                replies[d] # {} \/ journal'[d].state = "completed"
      PROVE  Tell
  BY <1>1 DEF TellsRecord
<1>2. ASSUME NEW c \in Commands, UNCHANGED ackVars,
             pubacked' = [pubacked EXCEPT ![c] = TRUE] \/ UNCHANGED pubacked,
             journal'[c].state = "completed" \/ UNCHANGED <<replies, pubacked>>
               \/ (UNCHANGED replies /\ journal[c].state # "none"),
             \A d \in Commands \ {c} : replies'[d] = replies[d]
      PROVE  Tell
  BY <1>2 DEF TellsRecord, TypeOK
<1>3. ASSUME NEW c \in Commands, NEW a, Return(c, a)
      PROVE  \A d \in Commands \ {c} : replies'[d] = replies[d]
  BY <1>3 DEF Return, TypeOK
<1>4. ASSUME NEW c \in Commands PROVE journal[c] \in Records /\ LifeCycle(c) /\ ToldInv(c)
  BY DEF TypeOK, LifeCycleInv, JournalInv
<1>5. ASSUME NEW c \in Commands, Lookup(c) PROVE Tell
  <2>1. CASE journal[c].state = "none"
    BY <1>1, <1>5, <2>1 DEF Lookup
  <2>2. CASE journal[c].state = "completed"
    BY <1>2, <1>3, <1>5, <2>2 DEF Lookup, Durable
  <2>3. CASE journal[c].state = "accepted"
    BY <1>2, <1>5, <2>3 DEF Lookup, Durable
  <2> QED
    BY <1>5, <2>1, <2>2, <2>3 DEF Lookup
<1>6. ASSUME NEW c \in Commands, ReleasePuback(c) PROVE Tell
  BY <1>2, <1>4, <1>6 DEF ReleasePuback, Durable, LifeCycle, HandlerInv
<1>7. ASSUME NEW c \in Commands, CompleteRefusal(c) \/ CompleteRejection(c) PROVE Tell
  <2>1. journal'[c].state = "completed"
    BY <1>7, RefusalFields DEF CompleteRefusal, CompleteRejection, TypeOK
  <2> QED
    BY <1>2, <1>3, <1>7, <2>1 DEF CompleteRefusal, CompleteRejection, Durable
<1>8. ASSUME NEW c \in Commands,
             MarkAutomationAbortComplete(c) \/ MarkAutomationHandoffComplete(c)
      PROVE  Tell
  <2>1. \/ journal'[c] = [journal[c] EXCEPT !.abort = "completed"]
        \/ journal'[c] = [journal[c] EXCEPT !.handoff = "completed"]
    BY <1>8 DEF MarkAutomationAbortComplete, MarkAutomationHandoffComplete, TypeOK
  <2>2. journal[c].state = "completed"
    BY <1>4, <1>8 DEF MarkAutomationAbortComplete, MarkAutomationHandoffComplete,
                      LifeCycle, HandlerInv
  <2>3. journal'[c].state = "completed"
    BY <1>4, <2>1, <2>2 DEF Records
  <2> QED
    BY <1>2, <1>3, <1>8, <2>3
       DEF MarkAutomationAbortComplete, MarkAutomationHandoffComplete,
           ReturnOrRecoverNext
<1>9. ASSUME NEW c \in Commands, HandoffFails(c) PROVE Tell
  BY <1>2, <1>3, <1>4, <1>9 DEF HandoffFails, LifeCycle, HandlerInv
<1>10. ASSUME NEW c \in Commands, PublishAcceptance(c) PROVE Tell
  BY <1>10 DEF PublishAcceptance, TellsRecord, TypeOK
<1>11. ASSUME NEW c \in Commands, PublishFinalAcceptance(c) PROVE Tell
  <2>1. journal[c].state = "completed"
    BY <1>4, <1>11 DEF PublishFinalAcceptance, ToldInv
  <2> QED
    BY <1>11, <2>1 DEF PublishFinalAcceptance, TellsRecord, TypeOK
<1>12. ASSUME NEW c \in Commands, PublishStatus(c) PROVE Tell
  <2>1. journal[c].state = "completed"
    BY <1>4, <1>12 DEF PublishStatus, ToldInv
  <2> QED
    BY <1>12, <2>1 DEF PublishStatus, Durable, TellsRecord, TypeOK
<1>13. ASSUME NEW c \in Commands, PublishFails(c) PROVE Tell
  BY <1>1, <1>13 DEF PublishFails, TypeOK
<1>14. CASE Crash
  BY <1>1, <1>14 DEF Crash
<1>15. ASSUME NEW c \in Commands,
              \/ Dequeue(c) \/ PassIntake(c) \/ AdmissionRefused(c)
              \/ RejectBeforeExecution(c) \/ Accept(c) \/ Recheck(c) \/ Prepare(c)
              \/ PrepareFails(c) \/ MarkExecutionMayHaveStarted(c) \/ StartExecution(c)
              \/ AdapterReports(c) \/ AdapterThrows(c) \/ Watchdog(c)
       PROVE  Tell
  BY <1>1, <1>15
     DEF Dequeue, PassIntake, AdmissionRefused, RejectBeforeExecution, Accept,
         Recheck, Prepare, PrepareFails, MarkExecutionMayHaveStarted,
         StartExecution, AdapterReports, AdapterThrows, Watchdog
<1>16. ASSUME NEW c \in Commands,
              \/ CompleteWithAbort(c) \/ AbortManualControl(c) \/ CompleteWithHandoff(c)
              \/ HandoffManualTerminal(c) \/ HandlerThrows(c) \/ Recover(c)
              \/ Deliver(c) \/ Veto(c) \/ AdapterEndsLate(c) \/ Expire(c) \/ Prune(c)
              \/ \E f \in Fixtures : Write(c, f)
       PROVE  Tell
  BY <1>1, <1>16
     DEF CompleteWithAbort, AbortManualControl, CompleteWithHandoff,
         HandoffManualTerminal, HandlerThrows, Recover, Deliver, Veto,
         AdapterEndsLate, Expire, Prune, Write
<1>17. ASSUME (\E f \in Fixtures : SettleByObservation(f)) \/ OpenIntake
              \/ GateChange \/ UNCHANGED vars
       PROVE  Tell
  BY <1>1, <1>17 DEF SettleByObservation, OpenIntake, GateChange
<1> QED
  BY <1>5, <1>6, <1>7, <1>8, <1>9, <1>10, <1>11, <1>12, <1>13, <1>14, <1>15,
     <1>16, <1>17
     DEF Next, HandlerStep

LEMMA JournalNext == TypeOK /\ LifeCycleInv /\ JournalInv /\ [Next]_vars => JournalInv'
BY RecordNext, AllRecordSteps, HandlerNext, TellNext, JournalStep DEF JournalInv

LEMMA JournalCorrect == Spec => [](TypeOK /\ LifeCycleInv /\ JournalInv)
BY TypeCorrect, LifeCycleCorrect, JournalInit, JournalNext, PTL DEF Spec

(***************************************************************************)
(* Theorems                                                                *)
(***************************************************************************)
\* A PUBACK is only released once the journal knows the command, whatever
\* handler, replay or publication releases it.
THEOREM PubackIsAlwaysDurable == Spec => []PubackIsDurable
<1>1. JournalInv => PubackIsDurable
  BY DEF JournalInv, ToldInv, PubackIsDurable
<1> QED
  BY <1>1, JournalCorrect, PTL

\* Every status and every refusal published for a command is what its record
\* says, over every replay, recovery and duplicate.
THEOREM AcksAreTheRecord == Spec => []AckMatchesJournal
<1>1. JournalInv => AckMatchesJournal
  BY DEF JournalInv, ReportedInv, AckMatchesJournal
<1> QED
  BY <1>1, JournalCorrect, PTL

\* A completed result is never changed by a replay, a recovery or a duplicate.
THEOREM ResultsAreFinal == Spec => ResultIsFinal
<1>1. ASSUME TypeOK, LifeCycleInv, JournalInv, [Next]_vars,
             NEW c \in Commands, journal[c].state = "completed"
      PROVE  \/ pruned'[c] /\ journal'[c] = NoRecord
             \/ /\ journal'[c].state = "completed"
                /\ journal'[c].acceptance = journal[c].acceptance
                /\ journal'[c].reports = journal[c].reports
  BY <1>1, RecordNext, AllRecordSteps DEF RecordStep, Kept, Opened, RefusedNow, FinishedNow,
                          Forgotten, WroteNow
<1>2. TypeOK /\ LifeCycleInv /\ JournalInv /\ [Next]_vars =>
          [\A c \in Commands : journal[c].state = "completed" =>
              \/ pruned'[c] /\ journal'[c] = NoRecord
              \/ /\ journal'[c].state = "completed"
                 /\ journal'[c].acceptance = journal[c].acceptance
                 /\ journal'[c].reports = journal[c].reports]_vars
  BY <1>1
<1> QED
  BY <1>2, JournalCorrect, PTL DEF Spec, ResultIsFinal

\* A native write is only started for an admitted command whose record already
\* says, where a permit is configured, that writes may have happened.
THEOREM WritesAreOnRecord == Spec => WritesAreRecorded
<1>1. ASSUME TypeOK, LifeCycleInv, JournalInv, [Next]_vars,
             NEW c \in Commands, written'[c] # written[c]
      PROVE  /\ journal[c].state = "accepted" /\ journal[c].acceptance = "accepted"
             /\ Permit => journal[c].phase = "may_have_written"
  <2>1. WroteNow(c)
    BY <1>1, RecordNext, AllRecordSteps DEF RecordStep, Kept, Opened, RefusedNow, FinishedNow,
                            Forgotten
  <2> QED
    BY <1>1, <2>1 DEF WroteNow, JournalInv, WorkInv
<1>2. TypeOK /\ LifeCycleInv /\ JournalInv /\ [Next]_vars =>
          [\A c \in Commands : written'[c] # written[c] =>
              /\ journal[c].state = "accepted" /\ journal[c].acceptance = "accepted"
              /\ Permit => journal[c].phase = "may_have_written"]_vars
  BY <1>1
<1> QED
  BY <1>2, JournalCorrect, PTL DEF Spec, WritesAreRecorded

(***************************************************************************)
(* The handler with its journal keeps SetContract                          *)
(***************************************************************************)
LEMMA ContractInit == Init => Contract!Init
BY DEF Init, Contract!Init, Contract!Undecided, contractState, contractOutcome,
       NoRecord, NoReports

LEMMA ContractUntouched ==
    ASSUME TypeOK, UNCHANGED <<journal, pruned, written>>
    PROVE  UNCHANGED Contract!vars
BY DEF Contract!vars, contractState, contractOutcome

\* A step on the record of c moves the contract of c, or of nobody.
LEMMA ContractStep ==
    ASSUME TypeOK, LifeCycleInv, JournalInv, NEW c \in Commands, RecordStep(c),
           pruned' = [pruned EXCEPT ![c] = pruned'[c]],
           journal' = [journal EXCEPT ![c] = journal'[c]],
           written' = [written EXCEPT ![c] = written'[c]]
    PROVE  Contract!Next \/ UNCHANGED Contract!vars
<1> DEFINE StateOf(s) == [contractState EXCEPT ![c] = s]
           OutcomeOf(r) == [contractOutcome EXCEPT ![c] = r]
<1>1. /\ contractState' = StateOf(contractState'[c])
      /\ contractOutcome' = OutcomeOf(contractOutcome'[c])
  <2>1. \A d \in Commands \ {c} : journal'[d] = journal[d] /\ pruned'[d] = pruned[d]
    BY DEF TypeOK
  <2>2. \A d \in Commands \ {c} : contractState'[d] = contractState[d]
    BY <2>1 DEF contractState
  <2>3. \A d \in Commands \ {c} : contractOutcome'[d] = contractOutcome[d]
    BY <2>1 DEF contractOutcome
  <2>4. /\ contractState' = [d \in Commands |-> contractState'[d]]
        /\ StateOf(contractState'[c]) =
              [d \in Commands |-> IF d = c THEN contractState'[c] ELSE contractState[d]]
    BY DEF contractState
  <2>5. /\ contractOutcome' = [d \in Commands |-> contractOutcome'[d]]
        /\ OutcomeOf(contractOutcome'[c]) =
              [d \in Commands |-> IF d = c THEN contractOutcome'[c] ELSE contractOutcome[d]]
    BY DEF contractOutcome
  <2> HIDE DEF StateOf, OutcomeOf
  <2>6. contractState' = StateOf(contractState'[c])
    BY <2>2, <2>4
  <2>7. contractOutcome' = OutcomeOf(contractOutcome'[c])
    BY <2>3, <2>5
  <2> QED
    BY <2>6, <2>7
<1>1a. /\ StateOf(contractState[c]) = contractState
       /\ OutcomeOf(contractOutcome[c]) = contractOutcome
  BY DEF contractState, contractOutcome
<1>2. LifeCycle(c) /\ WorkInv(c) /\ task[c].reports \in Reports
  BY DEF LifeCycleInv, JournalInv, TypeOK, Tasks
<1>3. ASSUME written' = written, contractState'[c] = contractState[c],
             contractOutcome'[c] = contractOutcome[c]
      PROVE  UNCHANGED Contract!vars
  BY <1>1, <1>1a, <1>3 DEF Contract!vars
<1>4. written'[c] = written[c] => written' = written
  BY DEF TypeOK
<1>5. CASE Kept(c) /\ written'[c] = written[c]
  BY <1>3, <1>4, <1>5 DEF Kept, contractState, contractOutcome
<1>6. CASE Opened(c)
  BY <1>3, <1>4, <1>6 DEF Opened, contractState, contractOutcome
<1>7. CASE RefusedNow(c)
  <2>1. /\ journal'[c].state = "completed" /\ journal'[c].acceptance = "rejected"
        /\ journal'[c].reports = AllReport(c, "failed")
    BY <1>7, RefusedFields
  <2>2. CASE pruned[c]
    BY <1>3, <1>4, <1>7, <2>2 DEF RefusedNow, contractState, contractOutcome
  <2>3. CASE ~pruned[c]
    <3>1. /\ contractState[c] = "open" /\ written[c] = {}
          /\ contractState'[c] = "refused"
          /\ contractOutcome'[c] = AllReport(c, "failed")
      BY <1>7, <2>1, <2>3 DEF RefusedNow, contractState, contractOutcome
    <3>2. /\ Contract!Covers(c, AllReport(c, "failed"))
          /\ \A f \in Fixtures : AllReport(c, "failed")[f] # "succeeded"
          /\ AllReport(c, "failed") \in [Fixtures -> {"none", "succeeded", "failed", "timed_out"}]
      BY DEF AllReport, Contract!Covers
    <3>3. Contract!Refuse(c, AllReport(c, "failed"))
      BY <1>1, <1>4, <1>7, <3>1, <3>2 DEF RefusedNow, Contract!Refuse
    <3> QED
      BY <3>2, <3>3 DEF Contract!Next
  <2> QED
    BY <2>2, <2>3
<1>8. CASE FinishedNow(c)
  <2> DEFINE r == task[c].reports
  <2>1. ~pruned[c] /\ contractState[c] = "open" /\ contractOutcome'[c] = r
    BY <1>2, <1>8 DEF FinishedNow, LifeCycle, RecordInv, contractState, contractOutcome
  <2>2. /\ r \in [Fixtures -> {"none", "succeeded", "failed", "timed_out"}]
        /\ Contract!Covers(c, r)
        /\ \A f \in Fixtures : r[f] = "succeeded" => f \in written[c]
    BY <1>2, <1>8 DEF FinishedNow, WorkInv, Sound, Reports, Statuses
  <2>3. CASE journal[c].acceptance = "rejected"
    <3>1. contractState'[c] = "refused" /\ written[c] = {}
      BY <1>2, <1>8, <2>1, <2>3 DEF FinishedNow, LifeCycle, RecordInv, NotStarted,
                                    contractState
    <3>2. Contract!Refuse(c, r)
      BY <1>1, <1>4, <1>8, <2>1, <2>2, <3>1 DEF FinishedNow, Contract!Refuse
    <3> QED
      BY <2>2, <3>2 DEF Contract!Next
  <2>4. CASE journal[c].acceptance # "rejected"
    <3>1. contractState'[c] = "done"
      BY <1>8, <2>1, <2>4 DEF FinishedNow, contractState
    <3>2. Contract!Finish(c, r)
      BY <1>1, <1>4, <1>8, <2>1, <2>2, <3>1 DEF FinishedNow, Contract!Finish
    <3> QED
      BY <2>2, <3>2 DEF Contract!Next
  <2> QED
    BY <2>3, <2>4
<1>9. CASE Forgotten(c)
  <2>1. contractState'[c] = "forgotten" /\ contractOutcome'[c] = NoReports
    BY <1>9 DEF Forgotten, contractState, contractOutcome
  <2>2. CASE pruned[c]
    BY <1>3, <1>4, <1>9, <2>1, <2>2 DEF Forgotten, contractState, contractOutcome
  <2>3. CASE ~pruned[c]
    <3>1. contractState[c] \in {"done", "refused"}
      BY <1>9, <2>3 DEF Forgotten, contractState
    <3>2. Contract!Forget(c)
      BY <1>1, <1>4, <1>9, <2>1, <3>1
         DEF Forgotten, Contract!Forget, Contract!Undecided, NoReports
    <3> QED
      BY <3>2 DEF Contract!Next
  <2> QED
    BY <2>2, <2>3
<1>10. CASE WroteNow(c)
  <2>1. PICK f \in Targets[c] : written'[c] = written[c] \cup {f}
    BY <1>10 DEF WroteNow
  <2>2. contractState[c] = "open"
    BY <1>2, <1>10 DEF WroteNow, LifeCycle, RecordInv, contractState
  <2>3. contractState'[c] = contractState[c] /\ contractOutcome'[c] = contractOutcome[c]
    BY <1>10 DEF WroteNow, contractState, contractOutcome
  <2>4. contractState' = contractState /\ contractOutcome' = contractOutcome
    BY <1>1, <1>1a, <2>3
  <2>5. Contract!WriteLamp(c, f)
    BY <2>1, <2>2, <2>4 DEF Contract!WriteLamp, TypeOK
  <2> QED
    BY <2>5 DEF Contract!Next
<1> QED
  BY <1>5, <1>6, <1>7, <1>8, <1>9, <1>10 DEF RecordStep

\* Whatever duplicates, crashes, refusals and prunings happen, a command is
\* settled once, "refused" is only said of a command that wrote nothing, and
\* "succeeded" only of a lamp that was written.
THEOREM GatewayKeepsContract == Spec => ImplementsContract
<1>1. TypeOK /\ LifeCycleInv /\ JournalInv /\ [Next]_vars
          => [Contract!Next]_(Contract!vars)
  BY RecordNext, ContractStep, ContractUntouched DEF OneRecordStep
<1> QED
  BY <1>1, ContractInit, JournalCorrect, PTL DEF Spec, ImplementsContract, Contract!Spec

(***************************************************************************)
(* What the contract is worth                                              *)
(***************************************************************************)
\* Who keeps SetContract reports the truth and writes nothing that is settled.
LEMMA ContractIsHonest == Contract!Spec => []Contract!Honest /\ Contract!OverIsOver
<1> DEFINE CInv == Contract!TypeOK /\ Contract!Honest
<1>1. Contract!Init => CInv
  BY DEF Contract!Init, Contract!Undecided, Contract!TypeOK, Contract!Honest
<1>2. ASSUME CInv, [Contract!Next]_(Contract!vars) PROVE CInv'
  <2>1. ASSUME NEW c \in Commands, NEW f \in Targets[c], Contract!WriteLamp(c, f) PROVE CInv'
    <3>1. f \in Fixtures
      BY TargetsAssumption
    <3>2. CInv
      BY <1>2
    <3> QED
      BY <2>1, <3>1, <3>2
         DEF Contract!WriteLamp, Contract!TypeOK, Contract!Honest, Contract!Covers
  <2>2. ASSUME NEW c \in Commands,
               NEW r \in [Fixtures -> {"none", "succeeded", "failed", "timed_out"}],
               Contract!Finish(c, r) \/ Contract!Refuse(c, r)
        PROVE  CInv'
    <3>1. PICK s \in {"done", "refused"} :
              /\ contractState' = [contractState EXCEPT ![c] = s]
              /\ s = "refused" => written[c] = {}
      BY <2>2 DEF Contract!Finish, Contract!Refuse
    <3>2. /\ contractOutcome' = [contractOutcome EXCEPT ![c] = r] /\ UNCHANGED written
          /\ Contract!Covers(c, r) /\ \A f \in Fixtures : r[f] = "succeeded" => f \in written[c]
      BY <2>2 DEF Contract!Finish, Contract!Refuse
    <3>3. Contract!TypeOK'
      BY <1>2, <3>1, <3>2 DEF Contract!TypeOK
    <3>4. ASSUME NEW d \in Commands
          PROVE  /\ contractState'[d] = "refused" => written'[d] = {}
                 /\ contractState'[d] \in {"done", "refused"} => Contract!Covers(d, contractOutcome'[d])
                 /\ \A f \in Fixtures : contractOutcome'[d][f] = "succeeded" => f \in written'[d]
      <4>1. CASE d = c
        BY <1>2, <3>1, <3>2, <4>1 DEF Contract!TypeOK
      <4>2. CASE d # c
        <5>1. contractState'[d] = contractState[d] /\ contractOutcome'[d] = contractOutcome[d]
          BY <1>2, <3>1, <3>2, <4>2 DEF Contract!TypeOK
        <5> QED
          BY <1>2, <3>2, <5>1 DEF Contract!Honest
      <4> QED
        BY <4>1, <4>2
    <3> QED
      BY <3>3, <3>4 DEF Contract!Honest, Contract!Covers
  <2>3. ASSUME NEW c \in Commands, Contract!Forget(c) PROVE CInv'
    BY <1>2, <2>3
       DEF Contract!Forget, Contract!Undecided, Contract!TypeOK, Contract!Honest, Contract!Covers
  <2>4. CASE UNCHANGED Contract!vars
    BY <1>2, <2>4 DEF Contract!vars, Contract!TypeOK, Contract!Honest, Contract!Covers
  <2> QED
    BY <1>2, <2>1, <2>2, <2>3, <2>4 DEF Contract!Next
<1>3. CInv /\ [Contract!Next]_(Contract!vars)
          => [\A c \in Commands : contractState[c] # "open" =>
                 contractState'[c] # "open" /\ written'[c] = written[c]]_(Contract!vars)
  BY DEF Contract!TypeOK, Contract!Next, Contract!WriteLamp, Contract!Finish, Contract!Refuse,
         Contract!Forget
<1>4. CInv => Contract!Honest
  OBVIOUS
<1> QED
  BY <1>1, <1>2, <1>3, <1>4, PTL DEF Contract!Spec, Contract!OverIsOver

\* A record that reports a lamp as succeeded is of a command that wrote it, and a
\* record that is rejected of one that wrote nothing.
THEOREM ReportsAreHonest == Spec => []Contract!Honest
  BY GatewayKeepsContract, ContractIsHonest, PTL DEF ImplementsContract

\* Once the journal has the result of a command no lamp is written for it, not by a
\* duplicate, not by a recovery, not after the record was pruned.
THEOREM SettledIsNotWritten == Spec => Contract!OverIsOver
  BY GatewayKeepsContract, ContractIsHonest, PTL DEF ImplementsContract
=============================================================================
