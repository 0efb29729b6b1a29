------------------------ MODULE GatewayIntakeProofs ------------------------
(***************************************************************************)
(* Theorems about GatewayIntake: whom a held PUBLISH waits for, that a     *)
(* status check is carried out and answered once, and that the journal     *)
(* knows what the broker was told. One inductive invariant carries them.   *)
(***************************************************************************)
EXTENDS GatewayIntake, TLAPS

(***************************************************************************)
(* Types                                                                   *)
(***************************************************************************)
\* A delivery is of a command.
LEMMA DeliveryType == \A d \in Deliveries : d.of \in Commands
  BY DEF Deliveries

\* The values of a record, and of a handler after a step to pc.
LEMMA RecordType ==
    /\ NoRecord \in Records
    /\ \A a \in Acceptances : Accepted(a) \in Records
    /\ \A a \in Acceptances, r \in Results : Completed(a, r) \in Records
  BY DEF Records

LEMMA GotoType ==
    ASSUME TypeOK, NEW d \in Deliveries,
           NEW pc \in Inside \cup Waiting \cup Reporting \cup Over, Goto(d, pc)
    PROVE  handler' \in [Deliveries -> Handlers]
  BY DEF TypeOK, Goto, Handlers

LEMMA ReturnType ==
    ASSUME TypeOK, NEW d \in Deliveries, NEW answer \in Records, Return(d, answer)
    PROVE  handler' \in [Deliveries -> Handlers]
<1>1. \A e \in Deliveries : [handler[e] EXCEPT !.pc = "report", !.answer = answer] \in Handlers
  BY DEF TypeOK, Handlers, Reporting
<1>2. QED BY <1>1 DEF TypeOK, Return

LEMMA AcknowledgeType ==
    ASSUME TypeOK, NEW D \in SUBSET Deliveries, Acknowledge(D)
    PROVE  /\ wire' \in [Deliveries -> {"unsent", "sent", "acked"}]
           /\ intake' \in Deliveries \cup {NoDelivery}
  BY DEF TypeOK, Acknowledge

LEMMA FailType ==
    ASSUME TypeOK, NEW D \in SUBSET Deliveries, Fail(D)
    PROVE  handler' \in [Deliveries -> Handlers] /\ intake' \in Deliveries \cup {NoDelivery}
<1>1. \A e \in Deliveries : [handler[e] EXCEPT !.pc = "failed"] \in Handlers
  BY DEF TypeOK, Handlers, Over
<1>2. QED BY <1>1 DEF TypeOK, Fail

LEMMA WithType == \A d \in Deliveries : With(d) \in SUBSET Deliveries
  BY DEF With, Sharers

\* The record of a command that was accepted.
LEMMA AcceptedRecord ==
    ASSUME NEW r \in Records, r.state = "accepted"
    PROVE  r.acceptance \in Acceptances
  BY DEF Records, NoRecord, Accepted, Completed

LEMMA CompletedRecord ==
    ASSUME NEW r \in Records, r.state = "completed"
    PROVE  r.acceptance \in Acceptances /\ r.result \in Results
  BY DEF Records, NoRecord, Accepted, Completed

(***************************************************************************)
(* The inductive invariant                                                 *)
(***************************************************************************)
Publishing == {"acking", "reporting", "statusing"}
Past == Inside \ {"lookup", "admit"}

\* A command has one live owner at most, and a duplicate that shares has one.
OwnerInv ==
    /\ \A d, e \in Deliveries :
          handler[d].pc \in Inside /\ handler[e].pc \in Inside /\ d.of = e.of => d = e
    /\ \A d \in Deliveries : At(d, "sharing") =>
          IsGet(d) /\ \E e \in Deliveries : handler[e].pc \in Inside /\ e.of = d.of

\* Where a handler is tells what the journal says.
RecordInv ==
    /\ \A d \in Deliveries :
          /\ At(d, "admit") => record[d.of].state = "none"
          /\ handler[d].pc \in Past => record[d.of].state = "accepted"
          /\ handler[d].pc \in Reporting =>
                record[d.of].state = "completed" /\ handler[d].answer = record[d.of]
          /\ wire[d] = "acked" => record[d.of].state # "none"

\* The intake is held by a status check whose owner is at the journal.
IntakeInv ==
    \A d \in Deliveries : intake = d /\ IsGet(d) =>
        \E e \in Deliveries :
            /\ handler[e].pc \in {"lookup", "admit"} /\ e.of = d.of
            /\ d # e => At(d, "sharing")

\* What was read and reported agrees with both.
HistoryInv ==
    /\ \A c \in Gets :
          /\ reads[c] <= 1
          /\ record[c].state = "none" => reads[c] = 0
          /\ record[c].state # "completed" => reported[c] = {}
          /\ reported[c] \subseteq {record[c].result}
    /\ \A d \in Deliveries : IsGet(d) =>
          /\ handler[d].pc \in {"announce", "acking", "check"} => reads[d.of] = 0
          /\ handler[d].pc = "executing" => reads[d.of] = 1

\* Every packet comes once. A handler whose ACK is on its way waits for the
\* PUBACK, and a PUBLISH that is on its way has no handler yet.
PacketInv ==
    /\ \A d \in outgoing : handler[d].pc \in Publishing
    /\ \A i \in 1..Len(inbox), d \in Deliveries :
          /\ inbox[i] = Puback(d) => handler[d].pc \in Publishing /\ d \notin outgoing
          /\ inbox[i] = Publish(d) => At(d, "none") /\ wire[d] # "unsent"
    /\ \A i, j \in 1..Len(inbox) : inbox[i] = inbox[j] => i = j

IInv == TypeOK /\ OwnerInv /\ RecordInv /\ IntakeInv /\ HistoryInv /\ PacketInv

(***************************************************************************)
(* What a step does to the handlers                                        *)
(***************************************************************************)
\* The handlers of D go to pc; the others, and what these know, stay.
Moves(D, pc) == \A e \in Deliveries :
    /\ handler'[e].told = handler[e].told
    /\ IF e \in D THEN handler'[e].pc = pc ELSE handler'[e] = handler[e]

LEMMA GotoMoves ==
    ASSUME TypeOK, NEW d \in Deliveries, NEW pc, Goto(d, pc)
    PROVE  Moves({d}, pc) /\ \A e \in Deliveries : handler'[e].answer = handler[e].answer
<1>1. \A e \in Deliveries : handler[e] \in Handlers
  BY DEF TypeOK
<1>2. QED BY <1>1 DEF TypeOK, Goto, Moves, Handlers

LEMMA ReturnMoves ==
    ASSUME TypeOK, NEW d \in Deliveries, NEW answer, Return(d, answer)
    PROVE  Moves(With(d), "report") /\ \A e \in With(d) : handler'[e].answer = answer
<1>1. \A e \in Deliveries : handler[e] \in Handlers
  BY DEF TypeOK
<1>2. QED BY <1>1, WithType DEF TypeOK, Return, Moves, Handlers

LEMMA FailMoves ==
    ASSUME TypeOK, NEW D \in SUBSET Deliveries, Fail(D)
    PROVE  Moves(D, "failed") /\ \A e \in Deliveries : handler'[e].answer = handler[e].answer
<1>1. \A e \in Deliveries : handler[e] \in Handlers
  BY DEF TypeOK
<1>2. QED BY <1>1 DEF TypeOK, Fail, Moves, Handlers

(***************************************************************************)
(* OwnerInv, by what a step does to the handlers                           *)
(***************************************************************************)
\* An owner goes on.
LEMMA OwnerGoesOn ==
    ASSUME OwnerInv, NEW d \in Deliveries, NEW pc \in Inside,
           handler[d].pc \in Inside, Moves({d}, pc)
    PROVE  OwnerInv'
  BY DEF OwnerInv, Moves, At, IsGet, Inside

\* An owner returns or fails, its sharers with it.
LEMMA OwnerReturns ==
    ASSUME OwnerInv, NEW d \in Deliveries, NEW pc, pc \in {"report", "failed"},
           handler[d].pc \in Inside, Moves(With(d), pc)
    PROVE  OwnerInv'
  BY DEF OwnerInv, Moves, At, Inside, With, Sharers

\* A handler that is no owner goes on outside.
LEMMA OutsiderGoesOn ==
    ASSUME OwnerInv, NEW d \in Deliveries, NEW pc, pc \notin Inside \cup {"sharing"},
           handler[d].pc \notin Inside, Moves({d}, pc)
    PROVE  OwnerInv'
  BY DEF OwnerInv, Moves, At, IsGet, Inside

\* A handler enters when there is no owner.
LEMMA OwnerEnters ==
    ASSUME OwnerInv, NEW d \in Deliveries, Owners(d) = {}, handler[d].pc \notin Inside,
           Moves({d}, "lookup")
    PROVE  OwnerInv'
<1>1. \A e \in Deliveries : e.of = d.of => handler[e].pc \notin Inside
  BY DEF Owners, Conflict
<1>2. QED BY <1>1 DEF OwnerInv, Moves, At, IsGet, Inside

(***************************************************************************)
(* PacketInv, by what a step does to the connection                        *)
(***************************************************************************)
\* The broker does not lose what it has sent while the connection is up.
WireStays == \A d \in Deliveries : wire[d] # "unsent" => wire'[d] # "unsent"

LEMMA PacketsStay ==
    ASSUME TypeOK, PacketInv, WireStays, UNCHANGED <<outgoing, inbox>>,
           NEW D \in SUBSET Deliveries, NEW pc, Moves(D, pc),
           \A d \in D : handler[d].pc \notin Publishing \cup {"none"}
    PROVE  PacketInv'
<1>1. \A e \in Deliveries : At(e, "none") \/ handler[e].pc \in Publishing => handler'[e] = handler[e]
  BY DEF Moves, At, Publishing
<1>2. \A e \in outgoing' : handler'[e].pc \in Publishing
  BY <1>1 DEF TypeOK, PacketInv
<1>3. ASSUME NEW i \in 1..Len(inbox), NEW e \in Deliveries
      PROVE  /\ inbox[i] = Puback(e) => handler'[e].pc \in Publishing /\ e \notin outgoing
             /\ inbox[i] = Publish(e) => handler'[e].pc = "none" /\ wire'[e] # "unsent"
  BY <1>1 DEF PacketInv, WireStays, At
<1>4. QED BY <1>2, <1>3 DEF PacketInv, Puback, Publish, At

LEMMA AckIsPublished ==
    ASSUME TypeOK, PacketInv, NEW d \in Deliveries, NEW pc \in Publishing, Moves({d}, pc),
           handler[d].pc \notin Publishing \cup {"none"},
           outgoing' = outgoing \cup {d}, UNCHANGED <<wire, inbox>>
    PROVE  PacketInv'
  BY DEF TypeOK, PacketInv, Moves, At

\* The next packet is taken from the inbox.
LEMMA TailOfInbox ==
    ASSUME TypeOK, PacketInv, inbox # <<>>, inbox' = Tail(inbox)
    PROVE  /\ inbox' \in Seq(Packets) /\ 1 \in 1..Len(inbox)
           /\ \A i \in 1..Len(inbox') :
                 /\ i + 1 \in 1..Len(inbox) /\ inbox'[i] = inbox[i + 1]
                 /\ inbox'[i] # Head(inbox)
           /\ \A i, j \in 1..Len(inbox') : inbox'[i] = inbox'[j] => i = j
<1>1. /\ Len(inbox) \in Nat /\ Len(inbox') = Len(inbox) - 1 /\ inbox[1] = Head(inbox)
      /\ inbox' \in Seq(Packets) /\ 1 \in 1..Len(inbox)
      /\ \A i \in 1..Len(inbox') : i + 1 \in 1..Len(inbox) /\ inbox'[i] = inbox[i + 1]
  BY DEF TypeOK
<1>2. \A i \in 1..Len(inbox') : inbox[i + 1] # inbox[1]
  BY <1>1 DEF PacketInv
<1>3. \A i, j \in 1..Len(inbox') : inbox[i + 1] = inbox[j + 1] => i = j
  BY <1>1 DEF PacketInv
<1>4. QED BY <1>1, <1>2, <1>3

LEMMA NextPacket ==
    ASSUME TypeOK, PacketInv, NEW d \in Deliveries, inbox' = Tail(inbox)
    PROVE  /\ IsNext(Publish(d)) => inbox' \in Seq(Packets) /\ At(d, "none")
           /\ IsNext(Puback(d)) =>
                 inbox' \in Seq(Packets) /\ handler[d].pc \in Publishing /\ d \notin outgoing
<1>. SUFFICES ASSUME inbox # <<>>, NEW packet, Head(inbox) = packet
              PROVE  /\ packet = Publish(d) => inbox' \in Seq(Packets) /\ At(d, "none")
                     /\ packet = Puback(d) => inbox' \in Seq(Packets)
                           /\ handler[d].pc \in Publishing /\ d \notin outgoing
  BY DEF IsNext
<1>1. 1 \in 1..Len(inbox) /\ inbox[1] = packet /\ inbox' \in Seq(Packets)
  BY TailOfInbox DEF TypeOK
<1>2. QED BY <1>1 DEF PacketInv

LEMMA PublishTaken ==
    ASSUME TypeOK, PacketInv, NEW d \in Deliveries, IsNext(Publish(d)), inbox' = Tail(inbox),
           UNCHANGED outgoing, WireStays, NEW pc, Moves({d}, pc)
    PROVE  PacketInv'
<1>1. inbox # <<>> /\ Head(inbox) = Publish(d) /\ inbox[1] = Publish(d) /\ 1 \in 1..Len(inbox)
  BY TailOfInbox DEF TypeOK, IsNext
<1>2. At(d, "none")
  BY <1>1 DEF PacketInv
<1>3. \A e \in outgoing : handler'[e].pc \in Publishing
  BY <1>2 DEF PacketInv, Moves, TypeOK, At, Publishing
<1>4. ASSUME NEW i \in 1..Len(inbox'), NEW e \in Deliveries
      PROVE  /\ inbox'[i] = Puback(e) => handler'[e].pc \in Publishing /\ e \notin outgoing
             /\ inbox'[i] = Publish(e) => handler'[e].pc = "none" /\ wire'[e] # "unsent"
  <2>1. i + 1 \in 1..Len(inbox) /\ inbox'[i] = inbox[i + 1] /\ inbox'[i] # Publish(d)
    BY <1>1, TailOfInbox
  <2>2. CASE inbox'[i] = Puback(e)
    BY <1>2, <2>2 DEF PacketInv, Moves, At, Publishing
  <2>3. CASE inbox'[i] = Publish(e)
    BY <2>1, <2>3 DEF PacketInv, Moves, At, WireStays
  <2>4. QED BY <2>2, <2>3
<1>5. \A i, j \in 1..Len(inbox') : inbox'[i] = inbox'[j] => i = j
  BY <1>1, TailOfInbox
<1>6. QED BY <1>3, <1>4, <1>5 DEF PacketInv, At

(***************************************************************************)
(* Steps of the handlers                                                   *)
(***************************************************************************)
\* A Set whose predecessors are over.
LEMMA DequeueStep == ASSUME IInv, NEW d \in Deliveries, Dequeue(d) PROVE IInv'
<1>1. Moves({d}, "lookup") /\ \A e \in Deliveries : handler'[e].answer = handler[e].answer
  BY GotoMoves DEF IInv, Dequeue
<1>2. TypeOK'
  BY GotoType DEF IInv, TypeOK, Dequeue, mqttVars, historyVars, envVars, Inside
<1>3. OwnerInv'
  BY <1>1, OwnerEnters DEF IInv, Dequeue, At, Inside
<1>4. RecordInv'
  BY <1>1 DEF IInv, RecordInv, Moves, At, Past, Reporting, Dequeue, mqttVars
<1>5. IntakeInv'
  BY <1>1 DEF IInv, IntakeInv, Moves, At, Dequeue, mqttVars
<1>6. HistoryInv'
  BY <1>1 DEF IInv, HistoryInv, Moves, Dequeue, historyVars
<1>7. PacketInv'
  BY <1>1, PacketsStay DEF IInv, Dequeue, At, Publishing, mqttVars, WireStays
<1>8. QED BY <1>2, <1>3, <1>4, <1>5, <1>6, <1>7 DEF IInv

\* The acceptance of a live command is published.
LEMMA PublishAcceptanceStep ==
    ASSUME IInv, NEW d \in Deliveries, PublishAcceptance(d)
    PROVE  IInv'
<1>1. Moves({d}, "acking") /\ \A e \in Deliveries : handler'[e].answer = handler[e].answer
  BY GotoMoves DEF IInv, PublishAcceptance
<1>2. TypeOK'
  BY GotoType DEF IInv, TypeOK, PublishAcceptance, historyVars, envVars, Inside
<1>3. OwnerInv'
  BY <1>1, OwnerGoesOn DEF IInv, PublishAcceptance, At, Inside
<1>4. RecordInv'
  BY <1>1 DEF IInv, RecordInv, Moves, At, Past, Inside, Reporting, PublishAcceptance
<1>5. IntakeInv'
  BY <1>1 DEF IInv, IntakeInv, Moves, At, PublishAcceptance
<1>6. HistoryInv'
  BY <1>1 DEF IInv, HistoryInv, Moves, At, PublishAcceptance, historyVars
<1>7. PacketInv'
  BY <1>1, AckIsPublished DEF IInv, PublishAcceptance, At, Publishing
<1>8. QED BY <1>2, <1>3, <1>4, <1>5, <1>6, <1>7 DEF IInv

\* The Get, or the adapter call of a Set.
LEMMA ExecuteStep == ASSUME IInv, NEW d \in Deliveries, Execute(d) PROVE IInv'
<1>1. /\ handler[d].pc = "check" /\ record[d.of].state = "accepted"
      /\ IsGet(d) => reads[d.of] = 0
  BY DEF IInv, Execute, At, RecordInv, HistoryInv, Past, Inside
<1>2. \A c \in Gets : reads'[c] = IF c = d.of THEN 1 ELSE reads[c]
  BY <1>1 DEF Execute, IsGet
<1>3. Moves({d}, "executing") /\ \A e \in Deliveries : handler'[e].answer = handler[e].answer
  BY GotoMoves DEF IInv, Execute
<1>4. TypeOK'
  BY GotoType DEF IInv, TypeOK, Execute, mqttVars, envVars, Inside
<1>5. OwnerInv'
  BY <1>3, OwnerGoesOn DEF IInv, Execute, At, Inside
<1>6. RecordInv'
  BY <1>3 DEF IInv, RecordInv, Moves, At, Past, Inside, Reporting, Execute, mqttVars
<1>7. IntakeInv'
  BY <1>3 DEF IInv, IntakeInv, Moves, At, Execute, mqttVars
<1>8. \A c \in Gets : /\ reads'[c] <= 1
                      /\ record'[c].state = "none" => reads'[c] = 0
                      /\ record'[c].state # "completed" => reported'[c] = {}
                      /\ reported'[c] \subseteq {record'[c].result}
  BY <1>1, <1>2 DEF IInv, HistoryInv, Execute, mqttVars
<1>9. \A e \in Deliveries : IsGet(e) =>
          /\ handler'[e].pc \in {"announce", "acking", "check"} => reads'[e.of] = 0
          /\ handler'[e].pc = "executing" => reads'[e.of] = 1
  BY <1>1, <1>2, <1>3 DEF IInv, HistoryInv, OwnerInv, Moves, IsGet, Inside
<1>10. HistoryInv'
  BY <1>8, <1>9 DEF HistoryInv, IsGet
<1>11. PacketInv'
  BY <1>3, PacketsStay DEF IInv, Execute, At, Publishing, mqttVars, WireStays
<1>12. QED BY <1>4, <1>5, <1>6, <1>7, <1>10, <1>11 DEF IInv

\* The final acceptance is published.
LEMMA PublishFinalAcceptanceStep ==
    ASSUME IInv, NEW d \in Deliveries, PublishFinalAcceptance(d)
    PROVE  IInv'
<1>1. Moves({d}, "reporting") /\ \A e \in Deliveries : handler'[e].answer = handler[e].answer
  BY GotoMoves DEF IInv, PublishFinalAcceptance
<1>2. TypeOK'
  BY GotoType DEF IInv, TypeOK, PublishFinalAcceptance, historyVars, envVars, Reporting
<1>3. OwnerInv'
  BY <1>1, OutsiderGoesOn DEF IInv, PublishFinalAcceptance, At, Inside
<1>4. RecordInv'
  BY <1>1 DEF IInv, RecordInv, Moves, At, Past, Inside, Reporting, PublishFinalAcceptance
<1>5. IntakeInv'
  BY <1>1 DEF IInv, IntakeInv, Moves, At, PublishFinalAcceptance
<1>6. HistoryInv'
  BY <1>1 DEF IInv, HistoryInv, Moves, PublishFinalAcceptance, historyVars
<1>7. PacketInv'
  BY <1>1, AckIsPublished DEF IInv, PublishFinalAcceptance, At, Publishing
<1>8. QED BY <1>2, <1>3, <1>4, <1>5, <1>6, <1>7 DEF IInv

\* The status is published.
LEMMA PublishStatusStep == ASSUME IInv, NEW d \in Deliveries, PublishStatus(d) PROVE IInv'
<1>1. record[d.of].state = "completed" /\ handler[d].answer = record[d.of]
      /\ record[d.of].result \in Results
  BY DeliveryType, CompletedRecord DEF IInv, TypeOK, RecordInv, PublishStatus, At, Reporting
<1>2. Moves({d}, "statusing") /\ \A e \in Deliveries : handler'[e].answer = handler[e].answer
  BY GotoMoves DEF IInv, PublishStatus
<1>3. TypeOK'
  BY <1>1, GotoType DEF IInv, TypeOK, PublishStatus, envVars, Reporting
<1>4. OwnerInv'
  BY <1>2, OutsiderGoesOn DEF IInv, PublishStatus, At, Inside
<1>5. RecordInv'
  BY <1>2 DEF IInv, RecordInv, Moves, At, Past, Inside, Reporting, PublishStatus
<1>6. IntakeInv'
  BY <1>2 DEF IInv, IntakeInv, Moves, At, PublishStatus
<1>7. HistoryInv'
  BY <1>2 DEF IInv, HistoryInv, RecordInv, Moves, At, Reporting, PublishStatus
<1>8. PacketInv'
  BY <1>2, AckIsPublished DEF IInv, PublishStatus, At, Publishing
<1>9. QED BY <1>3, <1>4, <1>5, <1>6, <1>7, <1>8 DEF IInv

\* A status check comes in.
LEMMA ReceiveGetStep == ASSUME IInv, NEW d \in Deliveries, ReceiveGet(d) PROVE IInv'
<1>1. At(d, "none") /\ inbox' \in Seq(Packets)
  BY NextPacket DEF IInv, ReceiveGet
<1>2. Moves({d}, "lookup") /\ \A e \in Deliveries : handler'[e].answer = handler[e].answer
  BY GotoMoves DEF IInv, ReceiveGet
<1>3. TypeOK'
  BY <1>1, GotoType DEF IInv, TypeOK, ReceiveGet, historyVars, envVars, Inside
<1>4. OwnerInv'
  BY <1>1, <1>2, OwnerEnters DEF IInv, ReceiveGet, At, Inside
<1>5. RecordInv'
  BY <1>2 DEF IInv, RecordInv, Moves, At, Past, Reporting, ReceiveGet
<1>6. IntakeInv'
  BY <1>2 DEF IntakeInv, Moves, ReceiveGet
<1>7. HistoryInv'
  BY <1>2 DEF IInv, HistoryInv, Moves, ReceiveGet, historyVars
<1>8. PacketInv'
  BY <1>2, PublishTaken DEF IInv, ReceiveGet, WireStays
<1>9. QED BY <1>3, <1>4, <1>5, <1>6, <1>7, <1>8 DEF IInv

\* A status check comes in after shutdown.
LEMMA RefuseGetStep == ASSUME IInv, NEW d \in Deliveries, RefuseGet(d) PROVE IInv'
<1>1. At(d, "none") /\ inbox' \in Seq(Packets)
  BY NextPacket DEF IInv, RefuseGet
<1>2. Moves({d}, "failed") /\ \A e \in Deliveries : handler'[e].answer = handler[e].answer
  BY GotoMoves DEF IInv, RefuseGet
<1>3. TypeOK'
  BY <1>1, GotoType DEF IInv, TypeOK, RefuseGet, historyVars, envVars, Over
<1>4. OwnerInv'
  BY <1>1, <1>2, OutsiderGoesOn DEF IInv, At, Inside
<1>5. RecordInv'
  BY <1>2 DEF IInv, RecordInv, Moves, At, Past, Inside, Reporting, RefuseGet
<1>6. IntakeInv'
  BY DeliveryAssumption DEF IntakeInv, RefuseGet, IsNext
<1>7. HistoryInv'
  BY <1>2 DEF IInv, HistoryInv, Moves, RefuseGet, historyVars
<1>8. PacketInv'
  BY <1>2, PublishTaken DEF IInv, RefuseGet, WireStays
<1>9. QED BY <1>3, <1>4, <1>5, <1>6, <1>7, <1>8 DEF IInv

\* A Set comes in.
LEMMA ReceiveSetStep == ASSUME IInv, NEW d \in Deliveries, ReceiveSet(d) PROVE IInv'
<1>1. At(d, "none") /\ inbox' \in Seq(Packets)
  BY NextPacket DEF IInv, ReceiveSet
<1>2. Moves({d}, "queued") /\ \A e \in Deliveries : handler'[e].answer = handler[e].answer
  BY GotoMoves DEF IInv, ReceiveSet
<1>3. TypeOK'
  BY <1>1, GotoType DEF IInv, TypeOK, ReceiveSet, historyVars, envVars, Waiting
<1>4. OwnerInv'
  BY <1>1, <1>2, OutsiderGoesOn DEF IInv, At, Inside
<1>5. RecordInv'
  BY <1>2 DEF IInv, RecordInv, Moves, At, Past, Inside, Reporting, ReceiveSet
<1>6. IntakeInv'
  BY DEF IntakeInv, ReceiveSet
<1>7. HistoryInv'
  BY <1>2 DEF IInv, HistoryInv, Moves, ReceiveSet, historyVars
<1>8. PacketInv'
  BY <1>2, PublishTaken DEF IInv, ReceiveSet, WireStays
<1>9. QED BY <1>3, <1>4, <1>5, <1>6, <1>7, <1>8 DEF IInv

\* A lost run is completed.
LEMMA SettleStep == ASSUME IInv, NEW d \in Deliveries, Settle(d) PROVE IInv'
<1>1. record[d.of].state = "accepted" /\ record[d.of].acceptance \in Acceptances
  BY DeliveryType, AcceptedRecord DEF IInv, TypeOK, RecordInv, Settle, At, Past, Inside
<1>2. \A preRf \in BOOLEAN : LostRun(d.of, preRf) \in Records /\ LostRun(d.of, preRf).state = "completed"
  BY <1>1, RecordType DEF LostRun, Completed, Acceptances, Results
<1>3. PICK answer \in Records :
          /\ record' = [record EXCEPT ![d.of] = answer]
          /\ Return(d, answer) /\ answer.state = "completed"
  BY <1>2 DEF Settle, Complete
<1>4. handler[d].pc \in Inside \ {"lookup", "acking"}
  BY DEF Settle, At, Inside
<1>5. Moves(With(d), "report") /\ \A e \in With(d) : handler'[e].answer = answer
  BY <1>3, ReturnMoves DEF IInv
<1>6. record[d.of].state # "completed"
      /\ \A e \in Deliveries : e.of = d.of => handler[e].pc \notin Reporting
  BY <1>4 DEF IInv, RecordInv, At, Past, Inside
<1>7. TypeOK'
  BY <1>3, ReturnType DEF IInv, TypeOK, Settle, mqttVars, historyVars, envVars
<1>8. OwnerInv'
  BY <1>4, <1>5, OwnerReturns DEF IInv
<1>9. RecordInv'
  BY <1>3, <1>5, DeliveryType
     DEF IInv, TypeOK, RecordInv, OwnerInv, Moves, With, Sharers, At, Past, Inside, Settle,
         mqttVars
<1>10. IntakeInv'
  BY <1>5, DeliveryAssumption
     DEF IInv, IntakeInv, OwnerInv, Moves, With, Sharers, At, Inside, Settle, mqttVars
<1>11. HistoryInv'
  BY <1>3, <1>5, <1>6 DEF IInv, HistoryInv, Moves, Settle, historyVars
<1>12. PacketInv'
  BY <1>5, PacketsStay DEF IInv, Settle, With, Sharers, At, Publishing, mqttVars, WireStays
<1>13. QED BY <1>7, <1>8, <1>9, <1>10, <1>11, <1>12 DEF IInv

\* A Set is refused in the journal.
LEMMA RefuseSetStep == ASSUME IInv, NEW d \in Deliveries, RefuseSet(d) PROVE IInv'
<1>1. PICK answer \in Records :
          /\ record' = [record EXCEPT ![d.of] = answer]
          /\ Return(d, answer) /\ answer.state = "completed"
  BY RecordType DEF RefuseSet, Complete, Completed, Acceptances, Results
<1>2. handler[d].pc \in Inside \ {"lookup", "acking"}
  BY DEF RefuseSet, At, Inside
<1>3. Moves(With(d), "report") /\ \A e \in With(d) : handler'[e].answer = answer
  BY <1>1, ReturnMoves DEF IInv
<1>4. record[d.of].state # "completed"
      /\ \A e \in Deliveries : e.of = d.of => handler[e].pc \notin Reporting
  BY <1>2 DEF IInv, RecordInv, At, Past, Inside
<1>5. TypeOK'
  BY <1>1, ReturnType, AcknowledgeType DEF IInv, TypeOK, RefuseSet, historyVars, envVars
<1>6. OwnerInv'
  BY <1>2, <1>3, OwnerReturns DEF IInv
<1>7. RecordInv'
  BY <1>1, <1>3
     DEF IInv, TypeOK, RecordInv, OwnerInv, Moves, With, Sharers, At, Past, Inside, RefuseSet,
         Acknowledge
<1>8. IntakeInv'
  BY <1>3, DeliveryAssumption, KindAssumption
     DEF IInv, IntakeInv, Moves, With, Sharers, At, IsGet, RefuseSet, Acknowledge
<1>9. HistoryInv'
  BY <1>1, <1>3 DEF IInv, HistoryInv, Moves, IsGet, RefuseSet, historyVars
<1>10. PacketInv'
  BY <1>3, PacketsStay
     DEF IInv, RefuseSet, With, Sharers, At, Publishing, WireStays, Acknowledge
<1>11. QED BY <1>5, <1>6, <1>7, <1>8, <1>9, <1>10 DEF IInv

\* A Set is rejected, its PUBACK owed.
LEMMA RejectBeforeExecutionStep ==
    ASSUME IInv, NEW d \in Deliveries, RejectBeforeExecution(d)
    PROVE  IInv'
<1>1. PICK answer \in Records :
          /\ record' = [record EXCEPT ![d.of] = answer]
          /\ Return(d, answer) /\ answer.state = "completed"
  BY RecordType DEF RejectBeforeExecution, Complete, Completed, Acceptances, Results
<1>2. handler[d].pc \in Inside \ {"lookup", "acking"}
  BY DEF RejectBeforeExecution, At, Inside
<1>3. Moves(With(d), "report") /\ \A e \in With(d) : handler'[e].answer = answer
  BY <1>1, ReturnMoves DEF IInv
<1>4. record[d.of].state # "completed"
      /\ \A e \in Deliveries : e.of = d.of => handler[e].pc \notin Reporting
  BY <1>2 DEF IInv, RecordInv, At, Past, Inside
<1>5. TypeOK'
  BY <1>1, ReturnType DEF IInv, TypeOK, RejectBeforeExecution, mqttVars, historyVars, envVars
<1>6. OwnerInv'
  BY <1>2, <1>3, OwnerReturns DEF IInv
<1>7. RecordInv'
  BY <1>1, <1>2, <1>3, DeliveryType
     DEF IInv, TypeOK, RecordInv, OwnerInv, Moves, With, Sharers, At, Past, Inside,
         RejectBeforeExecution, mqttVars
<1>8. IntakeInv'
  BY <1>2, <1>3
     DEF IInv, IntakeInv, Moves, With, Sharers, At, IsGet, RejectBeforeExecution, mqttVars
<1>9. HistoryInv'
  BY <1>1, <1>3 DEF IInv, HistoryInv, Moves, IsGet, RejectBeforeExecution, historyVars
<1>10. PacketInv'
  BY <1>3, PacketsStay
     DEF IInv, RejectBeforeExecution, With, Sharers, At, Publishing, mqttVars, WireStays
<1>11. QED BY <1>5, <1>6, <1>7, <1>8, <1>9, <1>10 DEF IInv

\* A status check ends without an observation.
LEMMA SkipGetStep == ASSUME IInv, NEW d \in Deliveries, SkipGet(d) PROVE IInv'
<1>1. PICK answer \in Records :
          /\ record' = [record EXCEPT ![d.of] = answer]
          /\ Return(d, answer) /\ answer.state = "completed"
  BY DeliveryType, RecordType, AcceptedRecord
     DEF IInv, TypeOK, RecordInv, SkipGet, Complete, Completed, Acceptances, Results, At, Past,
         Inside
<1>2. handler[d].pc \in Inside \ {"lookup", "acking"}
  BY DEF SkipGet, At, Inside
<1>3. Moves(With(d), "report") /\ \A e \in With(d) : handler'[e].answer = answer
  BY <1>1, ReturnMoves DEF IInv
<1>4. record[d.of].state # "completed"
      /\ \A e \in Deliveries : e.of = d.of => handler[e].pc \notin Reporting
  BY <1>2 DEF IInv, RecordInv, At, Past, Inside
<1>5. TypeOK'
  BY <1>1, ReturnType DEF IInv, TypeOK, SkipGet, mqttVars, historyVars, envVars
<1>6. OwnerInv'
  BY <1>2, <1>3, OwnerReturns DEF IInv
<1>7. RecordInv'
  BY <1>1, <1>3, DeliveryType
     DEF IInv, TypeOK, RecordInv, OwnerInv, Moves, With, Sharers, At, Past, Inside, SkipGet,
         mqttVars
<1>8. IntakeInv'
  BY <1>3 DEF IInv, IntakeInv, OwnerInv, Moves, With, Sharers, At, Inside, SkipGet, mqttVars
<1>9. HistoryInv'
  BY <1>1, <1>3, <1>4 DEF IInv, HistoryInv, Moves, SkipGet, historyVars
<1>10. PacketInv'
  BY <1>3, PacketsStay DEF IInv, SkipGet, With, Sharers, At, Publishing, mqttVars, WireStays
<1>11. QED BY <1>5, <1>6, <1>7, <1>8, <1>9, <1>10 DEF IInv

\* The execution ends.
LEMMA EndExecutionStep == ASSUME IInv, NEW d \in Deliveries, EndExecution(d) PROVE IInv'
<1>1. record[d.of].state = "accepted" /\ record[d.of].acceptance \in Acceptances
  BY DeliveryType, AcceptedRecord DEF IInv, TypeOK, RecordInv, EndExecution, At, Past, Inside
<1>2. \A r \in Outcomes(d) : /\ Completed(record[d.of].acceptance, r) \in Records
                           /\ Completed(record[d.of].acceptance, r).state = "completed"
  BY <1>1, RecordType DEF Outcomes, Completed, Results
<1>3. PICK r \in Outcomes(d) : Complete(d, Completed(record[d.of].acceptance, r))
  BY DEF EndExecution
<1>4. PICK answer \in Records :
          /\ record' = [record EXCEPT ![d.of] = answer]
          /\ Return(d, answer) /\ answer.state = "completed"
  BY <1>1, <1>2, <1>3, WithType DEF Complete
<1>5. handler[d].pc \in Inside \ {"lookup", "acking"}
  BY DEF EndExecution, At, Inside
<1>6. Moves(With(d), "report") /\ \A e \in With(d) : handler'[e].answer = answer
  BY <1>4, ReturnMoves DEF IInv
<1>7. record[d.of].state # "completed"
      /\ \A e \in Deliveries : e.of = d.of => handler[e].pc \notin Reporting
  BY <1>5 DEF IInv, RecordInv, At, Past, Inside
<1>8. TypeOK'
  BY <1>4, ReturnType DEF IInv, TypeOK, EndExecution, mqttVars, historyVars, envVars
<1>9. OwnerInv'
  BY <1>5, <1>6, OwnerReturns DEF IInv
<1>10. RecordInv'
  BY <1>4, <1>6, DeliveryType
     DEF IInv, TypeOK, RecordInv, OwnerInv, Moves, With, Sharers, At, Past, Inside,
         EndExecution, mqttVars
<1>11. IntakeInv'
  BY <1>6
     DEF IInv, IntakeInv, OwnerInv, Moves, With, Sharers, At, Inside, EndExecution, mqttVars
<1>12. HistoryInv'
  BY <1>4, <1>6, <1>7 DEF IInv, HistoryInv, Moves, EndExecution, historyVars
<1>13. PacketInv'
  BY <1>6, PacketsStay
     DEF IInv, EndExecution, With, Sharers, At, Publishing, mqttVars, WireStays
<1>14. QED BY <1>8, <1>9, <1>10, <1>11, <1>12, <1>13 DEF IInv

\* A record is looked up: none, lost, or to be replayed.
LEMMA LookupStep == ASSUME IInv, NEW d \in Deliveries, Lookup(d) PROVE IInv'
<1>1. handler[d].pc = "lookup" /\ record[d.of] \in Records
      /\ UNCHANGED <<inbox, outgoing, record>>
  BY DeliveryType DEF IInv, TypeOK, Lookup, At
<1>2. CASE record[d.of].state = "none" /\ Goto(d, "admit") /\ UNCHANGED <<wire, intake>>
  <2>1. Moves({d}, "admit") /\ \A e \in Deliveries : handler'[e].answer = handler[e].answer
    BY <1>2, GotoMoves DEF IInv
  <2>2. TypeOK'
    BY <1>2, GotoType DEF IInv, TypeOK, Lookup, historyVars, envVars, Inside
  <2>3. OwnerInv'
    BY <1>1, <2>1, OwnerGoesOn DEF IInv, Inside
  <2>4. RecordInv'
    BY <1>1, <1>2, <2>1 DEF IInv, RecordInv, Moves, At, Past, Reporting
  <2>5. IntakeInv'
    BY <1>2, <2>1 DEF IInv, IntakeInv, Moves, At
  <2>6. HistoryInv'
    BY <2>1 DEF IInv, HistoryInv, Moves, Lookup, historyVars
  <2>7. PacketInv'
    BY <1>1, <1>2, <2>1, PacketsStay DEF IInv, Publishing, WireStays
  <2>8. QED BY <2>2, <2>3, <2>4, <2>5, <2>6, <2>7 DEF IInv
<1>3. CASE record[d.of].state = "accepted" /\ Goto(d, "settling") /\ Acknowledge(With(d))
  <2>1. Moves({d}, "settling") /\ \A e \in Deliveries : handler'[e].answer = handler[e].answer
    BY <1>3, GotoMoves DEF IInv
  <2>2. TypeOK'
    BY <1>3, GotoType, AcknowledgeType, WithType
       DEF IInv, TypeOK, Lookup, historyVars, envVars, Inside
  <2>3. OwnerInv'
    BY <1>1, <2>1, OwnerGoesOn DEF IInv, Inside
  <2>4. RecordInv'
    BY <1>1, <1>3, <2>1 DEF IInv, RecordInv, Moves, At, Reporting, Acknowledge, With, Sharers
  <2>5. IntakeInv'
    BY <1>3, <2>1, DeliveryAssumption DEF IInv, IntakeInv, Moves, At, Acknowledge, With, Sharers
  <2>6. HistoryInv'
    BY <2>1 DEF IInv, HistoryInv, Moves, Lookup, historyVars
  <2>7. PacketInv'
    <3>1. WireStays
      BY <1>3, WithType DEF IInv, TypeOK, WireStays, Acknowledge
    <3>2. QED BY <1>1, <2>1, <3>1, PacketsStay DEF IInv, Publishing
  <2>8. QED BY <2>2, <2>3, <2>4, <2>5, <2>6, <2>7 DEF IInv
<1>4. CASE record[d.of].state = "completed" /\ Return(d, record[d.of]) /\ Acknowledge(With(d))
  <2>1. Moves(With(d), "report") /\ \A e \in With(d) : handler'[e].answer = record[d.of]
    BY <1>4, ReturnMoves DEF IInv
  <2>2. TypeOK'
    BY <1>1, <1>4, ReturnType, AcknowledgeType, WithType
       DEF IInv, TypeOK, Lookup, historyVars, envVars
  <2>3. OwnerInv'
    BY <1>1, <2>1, OwnerReturns DEF IInv, Inside
  <2>4. RecordInv'
    BY <1>1, <1>4, <2>1 DEF IInv, RecordInv, Moves, At, Past, Inside, Acknowledge, With, Sharers
  <2>5. IntakeInv'
    BY <1>4, <2>1, DeliveryAssumption DEF IInv, IntakeInv, Moves, At, Acknowledge, With, Sharers
  <2>6. HistoryInv'
    BY <2>1 DEF IInv, HistoryInv, Moves, Lookup, historyVars
  <2>7. PacketInv'
    BY <1>1, <1>4, <2>1, PacketsStay, WithType
       DEF IInv, Publishing, WireStays, Acknowledge, With, Sharers, At
  <2>8. QED BY <2>2, <2>3, <2>4, <2>5, <2>6, <2>7 DEF IInv
<1>5. QED BY <1>2, <1>3, <1>4 DEF Lookup

\* A command is accepted into the journal.
LEMMA AcceptStep == ASSUME IInv, NEW d \in Deliveries, Accept(d) PROVE IInv'
<1>1. PICK a \in Acceptances, pc \in {"announce", "check"} :
          record' = [record EXCEPT ![d.of] = Accepted(a)] /\ Goto(d, pc)
  BY DEF Accept, Acceptances
<1>2. /\ handler[d].pc = "admit" /\ record[d.of].state = "none"
      /\ Acknowledge(With(d)) /\ UNCHANGED <<inbox, outgoing, reads, reported>>
  BY DEF IInv, RecordInv, Accept, At, historyVars
<1>3. Moves({d}, pc) /\ \A e \in Deliveries : handler'[e].answer = handler[e].answer
  BY <1>1, GotoMoves DEF IInv
<1>4. record'[d.of].state = "accepted" /\ \A c \in Commands : c # d.of => record'[c] = record[c]
  BY <1>1, DeliveryType DEF IInv, TypeOK, Accepted
<1>5. \A e \in Deliveries : e # d /\ e.of = d.of =>
          handler'[e].pc \notin Inside /\ handler'[e].pc \notin Reporting
  BY <1>2, <1>3 DEF IInv, OwnerInv, RecordInv, Moves, Inside
<1>6. TypeOK'
  <2>1. pc \in Inside \cup Waiting \cup Reporting \cup Over
    BY DEF Inside
  <2>2. Accepted(a) \in Records
    BY RecordType
  <2>3. QED BY <1>1, <1>2, <2>1, <2>2, GotoType, AcknowledgeType, WithType
               DEF IInv, TypeOK, Accept, envVars
<1>7. OwnerInv'
  BY <1>2, <1>3, OwnerGoesOn DEF IInv, Inside
<1>8. RecordInv'
  BY <1>2, <1>3, <1>4, <1>5, DeliveryType
     DEF IInv, RecordInv, Moves, At, Inside, Reporting, Acknowledge, With, Sharers
<1>9. IntakeInv'
  BY <1>2, <1>3, DeliveryAssumption DEF IInv, IntakeInv, Moves, At, Acknowledge, With, Sharers
<1>10. HistoryInv'
  BY <1>2, <1>3, <1>4 DEF IInv, HistoryInv, Moves, IsGet, Commands
<1>11. PacketInv'
  BY <1>2, <1>3, PacketsStay DEF IInv, Publishing, WireStays, Acknowledge
<1>12. QED BY <1>6, <1>7, <1>8, <1>9, <1>10, <1>11 DEF IInv

\* A duplicate of a live status check comes in.
LEMMA ShareGetStep == ASSUME IInv, NEW d \in Deliveries, ShareGet(d) PROVE IInv'
<1>1. At(d, "none") /\ inbox' \in Seq(Packets) /\ intake = NoDelivery
  BY NextPacket DEF IInv, ShareGet, IsNext
<1>2. /\ Moves({d}, "sharing") /\ \A e \in Deliveries : handler'[e].answer = handler[e].answer
      /\ IsGet(d) /\ UNCHANGED <<outgoing, record, reads, reported>>
  BY GotoMoves DEF IInv, ShareGet, historyVars
<1>3. /\ \A e \in Owners(d) : e \in Deliveries /\ e # d /\ e.of = d.of
                              /\ handler[e].pc \in Inside
      /\ Owners(d) # {}
  BY KindAssumption DEF ShareGet, Owners, Conflict, IsGet
<1>4. /\ WireStays /\ wire' \in [Deliveries -> {"unsent", "sent", "acked"}]
      /\ \A e \in Deliveries : wire'[e] = "acked" =>
            wire[e] = "acked" \/ (e = d /\ \E o \in Owners(d) : ReceiptIsDurable(o))
  BY <1>3 DEF IInv, TypeOK, ShareGet, WireStays
<1>5. intake' = NoDelivery \/ (intake' = d /\ \E e \in Owners(d) : ~ReceiptIsDurable(e))
  BY <1>1 DEF ShareGet
<1>6. TypeOK'
  BY <1>1, <1>2, GotoType DEF IInv, TypeOK, ShareGet, envVars, Waiting
<1>7. OwnerInv'
  BY <1>2, <1>3 DEF IInv, OwnerInv, Moves, At, Inside
<1>8. RecordInv'
  BY <1>2, <1>3, <1>4 DEF IInv, RecordInv, Moves, At, Past, Inside, Reporting, ReceiptIsDurable
<1>9. IntakeInv'
  BY <1>2, <1>3, <1>5, DeliveryAssumption DEF IntakeInv, Moves, At, ReceiptIsDurable
<1>10. HistoryInv'
  BY <1>2 DEF IInv, HistoryInv, Moves, IsGet
<1>11. PacketInv'
  BY <1>2, <1>4, PublishTaken DEF IInv, ShareGet
<1>12. QED BY <1>6, <1>7, <1>8, <1>9, <1>10, <1>11 DEF IInv

\* The broker sends a PUBLISH.
LEMMA SendStep == ASSUME IInv, NEW d \in Deliveries, Send(d) PROVE IInv'
<1>1. /\ UNCHANGED <<intake, outgoing, handler, record, reads, reported>>
      /\ wire[d] = "unsent" /\ At(d, "none") /\ inbox' = Append(inbox, Publish(d))
      /\ wire' = [wire EXCEPT ![d] = "sent"]
  BY DEF Send, historyVars, At, NoHandler
<1>2. Publish(d) \in Packets
  BY DEF Publish, Packets
<1>3. TypeOK'
  BY <1>1, <1>2 DEF IInv, TypeOK, Send, envVars
<1>4. OwnerInv' /\ RecordInv' /\ IntakeInv' /\ HistoryInv'
  BY <1>1 DEF IInv, OwnerInv, RecordInv, IntakeInv, HistoryInv, At
<1>5. PacketInv'
  <2>1. /\ Len(inbox) \in Nat /\ Len(inbox') = Len(inbox) + 1
        /\ inbox'[Len(inbox) + 1] = Publish(d)
        /\ \A i \in 1..Len(inbox) : inbox'[i] = inbox[i] /\ inbox[i] # Publish(d)
    BY <1>1, <1>2 DEF IInv, TypeOK, PacketInv
  <2>2. \A i \in 1..Len(inbox') : i \in 1..Len(inbox) \/ i = Len(inbox) + 1
    BY <2>1
  <2>3. \A i, j \in 1..Len(inbox') : inbox'[i] = inbox'[j] => i = j
    BY <2>1, <2>2 DEF IInv, PacketInv
  <2>4. ASSUME NEW i \in 1..Len(inbox'), NEW e \in Deliveries
        PROVE  /\ inbox'[i] = Puback(e) => handler[e].pc \in Publishing /\ e \notin outgoing
               /\ inbox'[i] = Publish(e) => At(e, "none") /\ wire'[e] # "unsent"
    <3>1. CASE i \in 1..Len(inbox)
      BY <1>1, <2>1, <3>1 DEF IInv, TypeOK, PacketInv
    <3>2. CASE inbox'[i] = Publish(d)
      BY <1>1, <3>2 DEF IInv, TypeOK, Publish, Puback
    <3>3. QED BY <2>1, <2>2, <3>1, <3>2
  <2>5. QED BY <1>1, <2>3, <2>4 DEF IInv, PacketInv, At
<1>6. QED BY <1>3, <1>4, <1>5 DEF IInv

\* The broker confirms an ACK.
LEMMA ConfirmStep == ASSUME IInv, NEW d \in Deliveries, Confirm(d) PROVE IInv'
<1>1. /\ UNCHANGED <<wire, intake, handler, record, reads, reported>>
      /\ d \in outgoing /\ inbox' = Append(inbox, Puback(d)) /\ outgoing' = outgoing \ {d}
  BY DEF Confirm, historyVars
<1>2. Puback(d) \in Packets
  BY DEF Puback, Packets
<1>3. TypeOK'
  BY <1>1, <1>2 DEF IInv, TypeOK, Confirm, envVars
<1>4. OwnerInv' /\ RecordInv' /\ IntakeInv' /\ HistoryInv'
  BY <1>1 DEF IInv, OwnerInv, RecordInv, IntakeInv, HistoryInv, At
<1>5. PacketInv'
  <2>1. /\ Len(inbox) \in Nat /\ Len(inbox') = Len(inbox) + 1
        /\ inbox'[Len(inbox) + 1] = Puback(d)
        /\ \A i \in 1..Len(inbox) : inbox'[i] = inbox[i] /\ inbox[i] # Puback(d)
    BY <1>1, <1>2 DEF IInv, TypeOK, PacketInv
  <2>2. \A i \in 1..Len(inbox') : i \in 1..Len(inbox) \/ i = Len(inbox) + 1
    BY <2>1
  <2>3. \A i, j \in 1..Len(inbox') : inbox'[i] = inbox'[j] => i = j
    BY <2>1, <2>2 DEF IInv, PacketInv
  <2>4. ASSUME NEW i \in 1..Len(inbox'), NEW e \in Deliveries
        PROVE  /\ inbox'[i] = Puback(e) => handler[e].pc \in Publishing /\ e \notin outgoing'
               /\ inbox'[i] = Publish(e) => At(e, "none") /\ wire[e] # "unsent"
    <3>1. CASE i \in 1..Len(inbox)
      BY <1>1, <2>1, <3>1 DEF IInv, PacketInv
    <3>2. CASE inbox'[i] = Puback(d)
      BY <1>1, <3>2 DEF IInv, PacketInv, Publish, Puback
    <3>3. QED BY <2>1, <2>2, <3>1, <3>2
  <2>5. QED BY <1>1, <2>3 DEF IInv, PacketInv, Puback, Publish, At
<1>6. QED BY <1>3, <1>4, <1>5 DEF IInv

\* The PUBACK of a published ACK comes in: the handler goes on.
LEMMA ReceivePubackStep == ASSUME IInv, NEW d \in Deliveries, ReceivePuback(d) PROVE IInv'
<1>1. /\ inbox # <<>> /\ Head(inbox) = Puback(d) /\ inbox' = Tail(inbox)
      /\ inbox' \in Seq(Packets) /\ d \notin outgoing
      /\ UNCHANGED <<intake, outgoing, record, reads, reported>>
  BY NextPacket DEF IInv, ReceivePuback, IsNext, historyVars
<1>2. PICK from \in Publishing, to \in {"check", "status", "done"} :
          /\ handler[d].pc = from /\ (to = "check" <=> from = "acking")
          /\ to = "status" => from = "reporting"
          /\ handler'[d].pc = to /\ handler'[d].answer = handler[d].answer
          /\ handler'[d] \in Handlers
          /\ handler' = [handler EXCEPT ![d] = handler'[d]]
          /\ wire' = IF to = "done" THEN [wire EXCEPT ![d] = "acked"] ELSE wire
          /\ to = "done" => from = "statusing"
  <2>1. CASE At(d, "acking")
             /\ handler' = [handler EXCEPT ![d].pc = "check", ![d].told = TRUE] /\ UNCHANGED wire
    BY <2>1 DEF IInv, TypeOK, Handlers, At, Publishing, Inside
  <2>2. CASE At(d, "reporting") /\ Goto(d, "status") /\ UNCHANGED wire
    BY <2>2 DEF IInv, TypeOK, Handlers, At, Publishing, Reporting, Goto
  <2>3. CASE At(d, "statusing") /\ Goto(d, "done") /\ wire' = [wire EXCEPT ![d] = "acked"]
    BY <2>3 DEF IInv, TypeOK, Handlers, At, Publishing, Over, Goto
  <2>4. QED BY <2>1, <2>2, <2>3 DEF ReceivePuback
<1>3. \A e \in Deliveries : e # d => handler'[e] = handler[e]
  BY <1>2 DEF IInv, TypeOK
<1>4. /\ WireStays
      /\ \A e \in Deliveries : wire'[e] = "acked" =>
            wire[e] = "acked" \/ (e = d /\ handler[d].pc = "statusing")
  BY <1>2 DEF IInv, TypeOK, WireStays
<1>5. TypeOK'
  BY <1>1, <1>2 DEF IInv, TypeOK, ReceivePuback, envVars
<1>6. OwnerInv'
  BY <1>2, <1>3 DEF IInv, OwnerInv, At, Inside
<1>7. RecordInv'
  BY <1>1, <1>2, <1>3 DEF IInv, RecordInv, At, Past, Inside, Reporting
<1>8. IntakeInv'
  BY <1>1, <1>2, <1>3 DEF IInv, IntakeInv, At
<1>9. HistoryInv'
  BY <1>1, <1>2, <1>3 DEF IInv, HistoryInv
<1>10. PacketInv'
  <2>1. \A e \in outgoing : handler'[e].pc \in Publishing
    BY <1>1, <1>3 DEF IInv, TypeOK, PacketInv
  <2>2. ASSUME NEW i \in 1..Len(inbox'), NEW e \in Deliveries
        PROVE  /\ inbox'[i] = Puback(e) => handler'[e].pc \in Publishing /\ e \notin outgoing
               /\ inbox'[i] = Publish(e) => At(e, "none")' /\ wire'[e] # "unsent"
    <3>1. i + 1 \in 1..Len(inbox) /\ inbox'[i] = inbox[i + 1] /\ inbox'[i] # Puback(d)
      BY <1>1, TailOfInbox DEF IInv
    <3>2. ASSUME inbox'[i] = Puback(e) PROVE handler'[e].pc \in Publishing /\ e \notin outgoing
      <4>1. e # d /\ inbox[i + 1] = Puback(e)
        BY <3>1, <3>2
      <4>2. QED BY <1>3, <3>1, <4>1 DEF IInv, PacketInv
    <3>3. ASSUME inbox'[i] = Publish(e) PROVE At(e, "none")' /\ wire'[e] # "unsent"
      <4>1. handler[e].pc = "none" /\ wire[e] # "unsent"
        BY <3>1, <3>3 DEF IInv, PacketInv, At
      <4>2. e # d
        BY <1>2, <4>1 DEF Publishing
      <4>3. QED BY <1>3, <1>4, <4>1, <4>2 DEF At, WireStays
    <3>4. QED BY <3>2, <3>3
  <2>3. \A i, j \in 1..Len(inbox') : inbox'[i] = inbox'[j] => i = j
    BY <1>1, TailOfInbox DEF IInv
  <2>4. QED BY <1>1, <2>1, <2>2, <2>3 DEF PacketInv
<1>11. QED BY <1>5, <1>6, <1>7, <1>8, <1>9, <1>10 DEF IInv

\* The journal fails under a handler.
LEMMA JournalFailsStep == ASSUME IInv, NEW d \in Deliveries, JournalFails(d) PROVE IInv'
<1>1. /\ handler[d].pc \in Inside \ Publishing /\ Fail(With(d))
      /\ UNCHANGED <<wire, inbox, outgoing, record, reads, reported>>
  BY DEF JournalFails, Inside, Publishing, historyVars
<1>2. Moves(With(d), "failed") /\ \A e \in Deliveries : handler'[e].answer = handler[e].answer
  BY <1>1, WithType, FailMoves DEF IInv
<1>3. TypeOK'
  BY <1>1, WithType, FailType DEF IInv, TypeOK, JournalFails, envVars
<1>4. OwnerInv'
  BY <1>1, <1>2, OwnerReturns DEF IInv
<1>5. RecordInv'
  BY <1>1, <1>2 DEF IInv, RecordInv, Moves, At, Past, Inside, Reporting
<1>6. IntakeInv'
  BY <1>1, DeliveryAssumption DEF IInv, IntakeInv, At, Fail, With, Sharers
<1>7. HistoryInv'
  BY <1>1, <1>2 DEF IInv, HistoryInv, Moves, IsGet
<1>8. PacketInv'
  BY <1>1, <1>2, PacketsStay DEF IInv, WireStays, With, Sharers, At, Inside, Publishing
<1>9. QED BY <1>3, <1>4, <1>5, <1>6, <1>7, <1>8 DEF IInv

\* A publish fails: an acceptance with the sharers of its command.
LEMMA PublishFailsStep == ASSUME IInv, NEW d \in Deliveries, PublishFails(d) PROVE IInv'
<1>1. PICK D \in SUBSET Deliveries :
          /\ Fail(D) /\ D = IF At(d, "acking") THEN With(d) ELSE {d}
          /\ \A e \in D : e = d \/ At(e, "sharing")
  BY WithType DEF PublishFails, With, Sharers
<1>2. /\ handler[d].pc \in Publishing /\ d \in outgoing /\ outgoing' = outgoing \ {d}
      /\ UNCHANGED <<wire, inbox, record, reads, reported>>
  BY DEF IInv, PacketInv, PublishFails, historyVars
<1>3. Moves(D, "failed") /\ \A e \in Deliveries : handler'[e].answer = handler[e].answer
  BY <1>1, FailMoves DEF IInv
<1>4. TypeOK'
  BY <1>1, <1>2, FailType DEF IInv, TypeOK, PublishFails, envVars
<1>5. OwnerInv'
  <2>1. CASE At(d, "acking")
    BY <1>1, <1>3, <2>1, OwnerReturns DEF IInv, At, Inside
  <2>2. CASE ~At(d, "acking")
    BY <1>1, <1>2, <1>3, <2>2, OutsiderGoesOn DEF IInv, At, Inside, Publishing
  <2>3. QED BY <2>1, <2>2
<1>6. RecordInv'
  BY <1>2, <1>3 DEF IInv, RecordInv, Moves, At, Past, Inside, Reporting
<1>7. IntakeInv'
  <2>1. \A e \in D : handler[e].pc \notin {"lookup", "admit"}
    BY <1>1, <1>2 DEF At, Publishing
  <2>2. intake' = NoDelivery \/ (intake' = intake /\ intake \notin D)
    BY <1>1 DEF Fail
  <2>3. QED BY <1>3, <2>1, <2>2, DeliveryAssumption DEF IInv, IntakeInv, Moves, At
<1>8. HistoryInv'
  BY <1>2, <1>3 DEF IInv, HistoryInv, Moves, IsGet
<1>9. PacketInv'
  <2>1. \A e \in Deliveries : e # d /\ handler[e].pc # "sharing" => handler'[e] = handler[e]
    BY <1>1, <1>3 DEF Moves, At
  <2>2. \A e \in outgoing' : handler'[e].pc \in Publishing
    BY <1>2, <2>1 DEF IInv, TypeOK, PacketInv, Publishing
  <2>3. ASSUME NEW i \in 1..Len(inbox), NEW e \in Deliveries
        PROVE  /\ inbox[i] = Puback(e) => handler'[e].pc \in Publishing /\ e \notin outgoing'
               /\ inbox[i] = Publish(e) => At(e, "none")' /\ wire[e] # "unsent"
    <3>1. CASE inbox[i] = Puback(e)
      BY <1>2, <2>1, <3>1 DEF IInv, PacketInv, Puback, Publish, Publishing
    <3>2. CASE inbox[i] = Publish(e)
      BY <1>2, <2>1 DEF IInv, PacketInv, Publishing, At
    <3>3. QED BY <3>1, <3>2
  <2>4. QED BY <1>2, <2>2, <2>3 DEF IInv, PacketInv
<1>10. QED BY <1>4, <1>5, <1>6, <1>7, <1>8, <1>9 DEF IInv

\* The connection drops.
LEMMA DropStep == ASSUME IInv, Drop PROVE IInv'
<1>. DEFINE again == {d \in Deliveries : wire[d] = "sent" /\ handler[d].pc \in Over}
<1>1. /\ inbox' = <<>> /\ intake' = NoDelivery /\ UNCHANGED <<record, reads, reported>>
      /\ outgoing' = outgoing \cup {d \in Deliveries : \E i \in DOMAIN inbox : inbox[i] = Puback(d)}
      /\ wire' = [d \in Deliveries |-> IF d \in again THEN "unsent" ELSE wire[d]]
      /\ handler' = [d \in Deliveries |-> IF d \in again THEN NoHandler ELSE handler[d]]
  BY DEF Drop, historyVars
<1>2. NoHandler.pc = "none" /\ NoHandler \in Handlers
  BY RecordType DEF NoHandler, Handlers, Over
<1>3. \A d \in Deliveries : handler[d].pc \notin Over => handler'[d] = handler[d]
  BY <1>1
<1>4. \A d \in Deliveries : handler[d].pc \in Over => handler'[d].pc \in Over
  BY <1>1, <1>2 DEF Over
<1>5. \A d \in Deliveries : wire'[d] = "acked" => wire[d] = "acked"
  BY <1>1
<1>6. TypeOK'
  <2>1. drops' \in 0..MaxDrops
    BY BoundAssumption DEF IInv, TypeOK, Drop
  <2>2. inbox' \in Seq(Packets)
    BY <1>1
  <2>3. handler' \in [Deliveries -> Handlers]
        /\ wire' \in [Deliveries -> {"unsent", "sent", "acked"}]
    BY <1>1, <1>2 DEF IInv, TypeOK
  <2>4. QED BY <1>1, <2>1, <2>3 DEF IInv, TypeOK, Drop
<1>7. OwnerInv'
  BY <1>3, <1>4 DEF IInv, OwnerInv, At, Inside, Over
<1>8. RecordInv'
  BY <1>1, <1>4 DEF IInv, RecordInv, At, Past, Inside, Reporting, Over
<1>9. IntakeInv'
  BY <1>1, DeliveryAssumption DEF IntakeInv
<1>10. HistoryInv'
  BY <1>1, <1>4 DEF IInv, HistoryInv, Over
<1>11. PacketInv'
  <2>1. \A d \in outgoing' : d \in Deliveries /\ handler[d].pc \in Publishing
    BY <1>1 DEF IInv, TypeOK, PacketInv
  <2>2. Len(inbox') = 0
    BY <1>1
  <2>3. QED BY <1>3, <2>1, <2>2 DEF PacketInv, Publishing, Over
<1>12. QED BY <1>6, <1>7, <1>8, <1>9, <1>10, <1>11 DEF IInv

\* The process ends and comes back.
LEMMA RestartStep == ASSUME IInv, Restart PROVE IInv'
<1>1. /\ inbox' = <<>> /\ intake' = NoDelivery /\ outgoing' = {}
      /\ UNCHANGED <<reads, reported>>
      /\ handler' = [d \in Deliveries |-> NoHandler]
      /\ wire' = [d \in Deliveries |-> IF wire[d] = "sent" THEN "unsent" ELSE wire[d]]
  BY DEF Restart, historyVars
<1>2. PICK preRf \in [Sets -> BOOLEAN] :
          record' = [c \in Commands |->
              IF c \in Sets /\ record[c].state = "accepted" THEN LostRun(c, preRf[c]) ELSE record[c]]
  BY DEF Restart
<1>3. \A c \in Commands : /\ record'[c] \in Records
                          /\ record[c].state # "none" => record'[c].state # "none"
                          /\ c \in Gets => record'[c] = record[c]
  <2>1. ASSUME NEW c \in Sets, record[c].state = "accepted"
        PROVE  LostRun(c, preRf[c]) \in Records /\ LostRun(c, preRf[c]).state = "completed"
    <3>1. record[c].acceptance \in Acceptances
      BY <2>1, AcceptedRecord DEF IInv, TypeOK, Commands
    <3>2. QED BY <3>1, RecordType DEF LostRun, Completed, Acceptances, Results
  <2>2. QED BY <1>2, <2>1, KindAssumption DEF IInv, TypeOK
<1>4. NoHandler.pc = "none" /\ NoHandler \in Handlers
  BY RecordType DEF NoHandler, Handlers, Over
<1>5. \A d \in Deliveries : handler'[d].pc = "none"
  BY <1>1, <1>4
<1>6. TypeOK'
  <2>1. crashes' \in 0..MaxCrashes
    BY BoundAssumption DEF IInv, TypeOK, Restart
  <2>2. inbox' \in Seq(Packets)
    BY <1>1
  <2>3. record' \in [Commands -> Records]
    BY <1>2, <1>3
  <2>4. handler' \in [Deliveries -> Handlers]
        /\ wire' \in [Deliveries -> {"unsent", "sent", "acked"}]
    BY <1>1, <1>4 DEF IInv, TypeOK
  <2>5. QED BY <1>1, <2>1, <2>2, <2>3, <2>4 DEF IInv, TypeOK, Restart
<1>7. OwnerInv'
  BY <1>5 DEF OwnerInv, At, Inside
<1>8. RecordInv'
  <2>1. \A d \in Deliveries : wire'[d] = "acked" => wire[d] = "acked"
    BY <1>1
  <2>2. QED BY <1>3, <1>5, <2>1, DeliveryType DEF IInv, RecordInv, At, Past, Inside, Reporting
<1>9. IntakeInv'
  BY <1>1, DeliveryAssumption DEF IntakeInv
<1>10. HistoryInv'
  BY <1>1, <1>3, <1>5 DEF IInv, HistoryInv, Commands
<1>11. PacketInv'
  <2>1. Len(inbox') = 0
    BY <1>1
  <2>2. QED BY <1>1, <2>1 DEF PacketInv
<1>12. QED BY <1>6, <1>7, <1>8, <1>9, <1>10, <1>11 DEF IInv

\* Shutdown begins, a delivery window ends.
LEMMA StopStep == ASSUME IInv, Stop PROVE IInv'
  BY DEF IInv, TypeOK, OwnerInv, RecordInv, IntakeInv, HistoryInv, PacketInv, Stop, At,
         mqttVars, historyVars

LEMMA ExpireStep == ASSUME IInv, NEW c \in Commands, Expire(c) PROVE IInv'
  BY DEF IInv, TypeOK, OwnerInv, RecordInv, IntakeInv, HistoryInv, PacketInv, Expire, At,
         mqttVars, historyVars

(***************************************************************************)
(* The invariant                                                           *)
(***************************************************************************)
LEMMA InitInv == Init => IInv
<1>. SUFFICES ASSUME Init PROVE IInv
  OBVIOUS
<1>1. NoHandler.pc = "none" /\ NoHandler \in Handlers /\ NoRecord \in Records
      /\ NoRecord.state = "none"
  BY RecordType DEF NoHandler, Handlers, Over, NoRecord
<1>2. TypeOK
  <2>1. inbox \in Seq(Packets) /\ drops \in 0..MaxDrops /\ crashes \in 0..MaxCrashes
    BY BoundAssumption DEF Init
  <2>2. handler \in [Deliveries -> Handlers] /\ record \in [Commands -> Records]
    BY <1>1 DEF Init
  <2>3. reads \in [Gets -> Nat] /\ reported \in [Gets -> SUBSET Results]
    BY DEF Init
  <2>4. QED BY <2>1, <2>2, <2>3 DEF Init, TypeOK
<1>3. OwnerInv /\ RecordInv
  BY <1>1 DEF Init, OwnerInv, RecordInv, At, Inside, Past, Reporting
<1>4. IntakeInv /\ HistoryInv
  BY <1>1, DeliveryAssumption DEF Init, IntakeInv, HistoryInv, IsGet, Commands, NoRecord, NoHandler
<1>5. PacketInv
  BY DEF Init, PacketInv
<1>6. QED BY <1>2, <1>3, <1>4, <1>5 DEF IInv

LEMMA NextInv == IInv /\ [Next]_vars => IInv'
<1>. SUFFICES ASSUME IInv, [Next]_vars PROVE IInv'
  OBVIOUS
<1>1. ASSUME NEW d \in Deliveries, HandlerStep(d) PROVE IInv'
  BY <1>1, DequeueStep, LookupStep, SettleStep, AcceptStep, RefuseSetStep,
     RejectBeforeExecutionStep, PublishAcceptanceStep, ExecuteStep, SkipGetStep,
     EndExecutionStep, PublishFinalAcceptanceStep, PublishStatusStep
     DEF HandlerStep
<1>2. ASSUME NEW d \in Deliveries, Receive(d) PROVE IInv'
  BY <1>2, ReceiveGetStep, ShareGetStep, RefuseGetStep, ReceiveSetStep, ReceivePubackStep
     DEF Receive
<1>3. CASE UNCHANGED vars
  BY <1>3
     DEF IInv, TypeOK, OwnerInv, RecordInv, IntakeInv, HistoryInv, PacketInv, At, vars,
         mqttVars, historyVars, envVars
<1>4. QED BY <1>1, <1>2, <1>3, SendStep, ConfirmStep, JournalFailsStep, PublishFailsStep,
             ExpireStep, DropStep, StopStep, RestartStep
             DEF Next

LEMMA Invariant == Spec => []IInv
  BY InitInv, NextInv, PTL DEF Spec

\* The intake, the handlers, the journal and the history have their types.
THEOREM TypeCorrect == Spec => []TypeOK
<1>1. IInv => TypeOK
  BY DEF IInv
<1>2. QED BY <1>1, Invariant, PTL

\* A status check holds the intake only while the owner of its key is at the
\* journal (gateway-status-check-handler.ts:42-44).
THEOREM IntakeReleased == Spec => []ChecksReleaseIntake
<1>1. ASSUME IInv, intake \in Deliveries, IsGet(intake)
      PROVE  \E e \in Behind(intake) : handler[e].pc \in {"lookup", "admit"}
  <2>1. PICK e \in Deliveries : /\ handler[e].pc \in {"lookup", "admit"} /\ e.of = intake.of
                                /\ intake # e => At(intake, "sharing")
    BY <1>1 DEF IInv, IntakeInv
  <2>2. CASE intake = e
    BY <2>1, <2>2 DEF Behind, Waiting
  <2>3. CASE intake # e
    BY <2>1 DEF Behind, Waiting, At, Owners, Conflict, Inside
  <2>4. QED BY <2>2, <2>3
<1>2. IInv => ChecksReleaseIntake
  BY <1>1 DEF ChecksReleaseIntake
<1>3. QED BY <1>2, Invariant, PTL

\* A duplicate never waits for an owner that is gone.
THEOREM SharersAreServed == Spec => []SharersHaveOwner
<1>1. ASSUME IInv, NEW d \in Deliveries, At(d, "sharing") PROVE Owners(d) # {}
  <2>1. PICK e \in Deliveries : handler[e].pc \in Inside /\ e.of = d.of
    BY <1>1 DEF IInv, OwnerInv
  <2>2. e # d
    BY <1>1, <2>1 DEF At, Inside
  <2>3. QED BY <2>1, <2>2 DEF Owners, Conflict
<1>2. IInv => SharersHaveOwner
  BY <1>1 DEF SharersHaveOwner
<1>3. QED BY <1>2, Invariant, PTL

\* A status check is carried out once at most.
THEOREM CarriedOutOnce == Spec => []ReadOnce
<1>1. IInv => ReadOnce
  BY DEF IInv, HistoryInv, ReadOnce
<1>2. QED BY <1>1, Invariant, PTL

\* All published statuses of a status check are the one in its journal.
THEOREM AnswersAgree == Spec => []OneAnswer
<1>1. IInv => OneAnswer
  BY DEF IInv, HistoryInv, OneAnswer
<1>2. QED BY <1>1, Invariant, PTL

\* What the gateway has acknowledged to the broker is in its journal.
THEOREM AcknowledgedIsDurable == Spec => []PubackIsDurable
<1>1. IInv => PubackIsDurable
  BY DEF IInv, RecordInv, PubackIsDurable
<1>2. QED BY <1>1, Invariant, PTL

(***************************************************************************)
(* Results are final                                                       *)
(***************************************************************************)
\* Inside a handler that may write, the journal has no result yet.
LEMMA WritersAreEarly ==
    ASSUME IInv, NEW d \in Deliveries, handler[d].pc \in Inside \ {"lookup"}
    PROVE  record[d.of].state # "completed"
  BY DEF IInv, RecordInv, At, Past, Inside

\* The result of a command never changes, whoever answers for it.
THEOREM ResultsAreFinal == Spec => ResultIsFinal
<1>1. ASSUME IInv, [Next]_vars, NEW c \in Commands, record[c].state = "completed"
      PROVE  record'[c] = record[c]
  <2>1. ASSUME NEW d \in Deliveries,
               \/ Settle(d) \/ Accept(d) \/ RefuseSet(d) \/ RejectBeforeExecution(d)
               \/ SkipGet(d) \/ EndExecution(d)
        PROVE  record'[c] = record[c]
    <3>1. record[d.of].state # "completed"
      BY <1>1, <2>1, WritersAreEarly
         DEF Settle, Accept, RefuseSet, RejectBeforeExecution, SkipGet, EndExecution, At, Inside
    <3>2. \E r : record' = [record EXCEPT ![d.of] = r]
      BY <2>1
         DEF Settle, Accept, RefuseSet, RejectBeforeExecution, SkipGet, EndExecution, Complete
    <3>3. QED BY <1>1, <3>1, <3>2 DEF IInv, TypeOK
  <2>2. CASE Restart
    BY <1>1, <2>2 DEF Restart
  <2>3. CASE record' = record
    BY <2>3
  <2>4. \/ Restart \/ record' = record
        \/ \E d \in Deliveries :
              \/ Settle(d) \/ Accept(d) \/ RefuseSet(d) \/ RejectBeforeExecution(d)
              \/ SkipGet(d) \/ EndExecution(d)
    BY <1>1
       DEF Next, HandlerStep, Receive, vars, Send, Confirm, ReceiveGet, ShareGet, RefuseGet,
           ReceiveSet, ReceivePuback, Drop, Dequeue, Lookup, PublishAcceptance, Execute,
           PublishFinalAcceptance, PublishStatus, JournalFails, PublishFails, Stop, Expire
  <2>5. QED BY <2>1, <2>2, <2>3, <2>4
<1>2. IInv /\ [Next]_vars =>
          [\A c \in Commands : record[c].state = "completed" => record'[c] = record[c]]_vars
  BY <1>1
<1>3. QED BY <1>2, Invariant, PTL DEF Spec, ResultIsFinal

(***************************************************************************)
(* The contract of a status check                                          *)
(***************************************************************************)
ContractVars == Contract!vars

\* Journal, reads and reports of the status checks stay, so does the contract.
LEMMA ContractStutters ==
    ASSUME UNCHANGED <<reads, reported>>, \A c \in Gets : record'[c].result = record[c].result
    PROVE  UNCHANGED ContractVars
<1>1. [c \in Gets |-> record'[c].result] = [c \in Gets |-> record[c].result]
  OBVIOUS
<1>2. QED BY <1>1 DEF ContractVars, Contract!vars

\* A record that is not completed has no result.
LEMMA OpenRecord ==
    ASSUME NEW r \in Records, r.state # "completed"
    PROVE  r.result = Nothing
  BY DEF Records, NoRecord, Accepted, Completed

LEMMA ContractInit == Init => Contract!Init
<1>. SUFFICES ASSUME Init PROVE Contract!Init
  OBVIOUS
<1>1. [c \in Gets |-> record[c].result] = [c \in Gets |-> Nothing]
  BY DEF Init, Commands, NoRecord
<1>2. QED BY <1>1 DEF Init, Contract!Init, Contract!Open, Nothing

\* The Get of a status check carries it out, the adapter call of a Set is none.
LEMMA ExecuteKeepsContract ==
    ASSUME IInv, NEW d \in Deliveries, Execute(d)
    PROVE  [Contract!Next]_ContractVars
<1>1. UNCHANGED <<record, reported>> /\ reads \in [Gets -> Nat] /\ record \in [Commands -> Records]
  BY DEF IInv, TypeOK, Execute, mqttVars
<1>2. CASE IsGet(d)
  <2>1. /\ d.of \in Gets /\ reads[d.of] = 0 /\ record[d.of].state # "completed"
        /\ record[d.of] \in Records
    BY <1>1, <1>2, DeliveryType DEF IInv, HistoryInv, RecordInv, Execute, At, Past, Inside, IsGet
  <2>2. record[d.of].result = Nothing
    BY <2>1, OpenRecord
  <2>3. reads' = [reads EXCEPT ![d.of] = 1]
    <3>1. \A c \in Gets : (IF c = d.of THEN reads[c] + 1 ELSE reads[c])
                           = IF c = d.of THEN 1 ELSE reads[c]
      BY <2>1
    <3>2. reads' = [c \in Gets |-> IF c = d.of THEN 1 ELSE reads[c]]
      BY <3>1 DEF Execute
    <3>3. QED BY <1>1, <3>2
  <2>4. Contract!CarryOut(d.of)
    BY <1>1, <2>1, <2>2, <2>3 DEF Contract!CarryOut, Contract!Open, Nothing
  <2>5. QED BY <2>1, <2>4 DEF Contract!Next
<1>3. CASE ~IsGet(d)
  <2>1. reads' = reads
    BY <1>1, <1>3 DEF Execute, IsGet
  <2>2. QED BY <1>1, <2>1, ContractStutters
<1>4. QED BY <1>2, <1>3

\* A status is published: the result of the record.
LEMMA PublishStatusKeepsContract ==
    ASSUME IInv, NEW d \in Deliveries, PublishStatus(d)
    PROVE  [Contract!Next]_ContractVars
<1>1. /\ record[d.of].state = "completed" /\ handler[d].answer = record[d.of]
      /\ UNCHANGED <<record, reads>> /\ reported \in [Gets -> SUBSET Results]
      /\ record[d.of] \in Records
  BY DeliveryType DEF IInv, TypeOK, RecordInv, PublishStatus, At, Reporting
<1>2. CASE IsGet(d)
  <2>1. record[d.of].result \in Results
    BY <1>1, CompletedRecord
  <2>2. reported' = [reported EXCEPT ![d.of] = @ \cup {record[d.of].result}]
    BY <1>1, <1>2 DEF PublishStatus, IsGet
  <2>3. Contract!Tell(d.of)
    BY <1>1, <1>2, <2>1, <2>2 DEF Contract!Tell, Contract!Open, Results, IsGet
  <2>4. QED BY <1>2, <2>3 DEF Contract!Next, IsGet
<1>3. CASE ~IsGet(d)
  <2>1. reported' = reported
    BY <1>1, <1>3 DEF PublishStatus, IsGet
  <2>2. QED BY <1>1, <2>1, ContractStutters
<1>4. QED BY <1>2, <1>3

\* The owner of a status check completes it with v.
LEMMA CompletionKeepsContract ==
    ASSUME IInv, NEW d \in Deliveries, IsGet(d), handler[d].pc \in Inside \ {"lookup"},
           NEW a \in Acceptances, NEW v \in Contract!Verdicts,
           record' = [record EXCEPT ![d.of] = Completed(a, v)],
           UNCHANGED <<reads, reported>>,
           v \in {"observed", "STATUS_TIMEOUT"} => reads[d.of] = 1,
           v = "COMMAND_EXPIRED" => reads[d.of] = 0
    PROVE  [Contract!Next]_ContractVars
<1>1. d.of \in Gets /\ d.of \in Commands /\ record \in [Commands -> Records]
  BY DEF IsGet, Commands, IInv, TypeOK
<1>2. record[d.of].result = Nothing
  BY <1>1, WritersAreEarly, OpenRecord
<1>3. [c \in Gets |-> record'[c].result] =
          [[c \in Gets |-> record[c].result] EXCEPT ![d.of] = v]
  BY <1>1 DEF Completed, Commands
<1>4. Contract!Settle(d.of, v)
  BY <1>1, <1>2, <1>3 DEF Contract!Settle, Contract!Open, Nothing
<1>5. QED BY <1>1, <1>4 DEF Contract!Next

\* The three ends of a status check.
LEMMA EndKeepsContract ==
    ASSUME IInv, NEW d \in Deliveries, IsGet(d), Settle(d) \/ SkipGet(d) \/ EndExecution(d)
    PROVE  [Contract!Next]_ContractVars
<1>1. /\ d.of \in Gets /\ d.of \in Commands /\ record \in [Commands -> Records]
      /\ UNCHANGED <<reads, reported>>
  BY DEF IsGet, Commands, IInv, TypeOK, Settle, SkipGet, EndExecution, historyVars
<1>2. /\ record[d.of].acceptance \in Acceptances
      /\ handler[d].pc \in Inside \ {"lookup"}
  BY <1>1, AcceptedRecord DEF IInv, RecordInv, At, Past, Inside, Settle, SkipGet, EndExecution
<1>3. CASE Settle(d)
  <2>1. record' = [record EXCEPT ![d.of] =
            Completed(record[d.of].acceptance, "GATEWAY_RESTART_INDETERMINATE")]
    BY <1>3 DEF Settle, Complete, LostRun
  <2>2. QED BY <1>1, <1>2, <2>1, CompletionKeepsContract DEF Contract!Verdicts
<1>4. CASE SkipGet(d)
  <2>1. reads[d.of] = 0
    BY <1>4 DEF IInv, HistoryInv, SkipGet, At
  <2>2. PICK v \in {"COMMAND_EXPIRED", "GATEWAY_SHUTDOWN"} :
            record' = [record EXCEPT ![d.of] = Completed(record[d.of].acceptance, v)]
    BY <1>4 DEF SkipGet, Complete
  <2>3. QED BY <1>1, <1>2, <2>1, <2>2, CompletionKeepsContract DEF Contract!Verdicts
<1>5. CASE EndExecution(d)
  <2>1. reads[d.of] = 1
    BY <1>5 DEF IInv, HistoryInv, EndExecution, At
  <2>2. PICK v \in {"observed", "STATUS_TIMEOUT", "GATEWAY_SHUTDOWN"} :
            record' = [record EXCEPT ![d.of] = Completed(record[d.of].acceptance, v)]
    BY <1>5 DEF EndExecution, Outcomes, Complete
  <2>3. QED BY <1>1, <1>2, <2>1, <2>2, CompletionKeepsContract DEF Contract!Verdicts
<1>6. QED BY <1>3, <1>4, <1>5

\* A record is accepted, or it is the record of a Set: no status check has a
\* result more or less.
LEMMA OtherRecordsKeepContract ==
    ASSUME IInv, NEW d \in Deliveries,
           \/ Accept(d) \/ RefuseSet(d) \/ RejectBeforeExecution(d)
           \/ ~IsGet(d) /\ (Settle(d) \/ SkipGet(d) \/ EndExecution(d))
    PROVE  UNCHANGED ContractVars
<1>1. /\ record \in [Commands -> Records] /\ d.of \in Commands
      /\ UNCHANGED <<reads, reported>>
  BY DeliveryType
     DEF IInv, TypeOK, Accept, RefuseSet, RejectBeforeExecution, Settle, SkipGet, EndExecution,
         historyVars
<1>2. CASE Accept(d)
  <2>1. record[d.of].result = Nothing
    BY <1>1, <1>2, OpenRecord DEF IInv, RecordInv, Accept, At
  <2>2. PICK a : record' = [record EXCEPT ![d.of] = Accepted(a)]
    BY <1>2 DEF Accept
  <2>3. \A c \in Gets : record'[c].result = record[c].result
    BY <1>1, <2>1, <2>2 DEF Accepted, Commands
  <2>4. QED BY <1>1, <2>3, ContractStutters
<1>3. CASE ~IsGet(d)
  <2>1. \A c \in Gets : record'[c] = record[c]
    BY <1>1, <1>3
       DEF IsGet, Accept, RefuseSet, RejectBeforeExecution, Settle, SkipGet, EndExecution,
           Complete, Commands
  <2>2. QED BY <1>1, <2>1, ContractStutters
<1>4. QED BY <1>2, <1>3 DEF RefuseSet, RejectBeforeExecution

\* Whatever happens to handlers, connection, journal and process: every status
\* check is carried out once at most, gets one verdict that is true of it, and
\* that one is what is published.
THEOREM StatusChecksKeepContract == Spec => ImplementsContract
<1>1. ASSUME IInv, [Next]_vars PROVE [Contract!Next]_ContractVars
  <2>1. CASE Restart
    <3>1. \A c \in Gets : record'[c] = record[c]
      BY <2>1, KindAssumption DEF Restart, Commands
    <3>2. QED BY <2>1, <3>1, ContractStutters DEF Restart, historyVars
  <2>2. CASE UNCHANGED <<record, reads, reported>>
    BY <2>2, ContractStutters
  <2>3. ASSUME NEW d \in Deliveries, Settle(d) \/ SkipGet(d) \/ EndExecution(d)
        PROVE  [Contract!Next]_ContractVars
    BY <1>1, <2>3, EndKeepsContract, OtherRecordsKeepContract
  <2>4. ASSUME NEW d \in Deliveries, Accept(d) \/ RefuseSet(d) \/ RejectBeforeExecution(d)
        PROVE  [Contract!Next]_ContractVars
    BY <1>1, <2>4, OtherRecordsKeepContract
  <2>5. \/ Restart \/ UNCHANGED <<record, reads, reported>>
        \/ \E d \in Deliveries :
              \/ Settle(d) \/ SkipGet(d) \/ EndExecution(d)
              \/ Accept(d) \/ RefuseSet(d) \/ RejectBeforeExecution(d)
              \/ Execute(d) \/ PublishStatus(d)
    BY <1>1
       DEF Next, HandlerStep, Receive, vars, historyVars, Send, Confirm, ReceiveGet, ShareGet,
           RefuseGet, ReceiveSet, ReceivePuback, Drop, Dequeue, Lookup, PublishAcceptance,
           PublishFinalAcceptance, JournalFails, PublishFails, Stop, Expire
  <2>6. QED BY <1>1, <2>1, <2>2, <2>3, <2>4, <2>5, ExecuteKeepsContract,
               PublishStatusKeepsContract
<1>2. IInv /\ [Next]_vars => [Contract!Next]_(Contract!vars)
  BY <1>1 DEF ContractVars
<1>3. QED BY <1>2, ContractInit, Invariant, PTL DEF Spec, ImplementsContract, Contract!Spec
\* Whoever keeps the contract tells the truth: the verdict says of the check
\* whether it was carried out, and nothing else is ever published.
LEMMA ContractIsTruthful == Contract!Spec => []Contract!Truthful
<1>. DEFINE TInv == Contract!TypeOK /\ Contract!Truthful
<1>1. Contract!Init => TInv
  BY DEF Contract!Init, Contract!TypeOK, Contract!Truthful, Contract!Open, Contract!Verdicts
<1>2. ASSUME TInv, [Contract!Next]_(Contract!vars) PROVE TInv'
  <2>1. ASSUME NEW c \in Gets, Contract!CarryOut(c) PROVE TInv'
    BY <1>2, <2>1
       DEF Contract!CarryOut, Contract!TypeOK, Contract!Truthful, Contract!Open, Contract!Verdicts
  <2>2. ASSUME NEW c \in Gets, NEW v \in Contract!Verdicts, Contract!Settle(c, v) PROVE TInv'
    BY <1>2, <2>2
       DEF Contract!Settle, Contract!TypeOK, Contract!Truthful, Contract!Open, Contract!Verdicts
  <2>3. ASSUME NEW c \in Gets, Contract!Tell(c) PROVE TInv'
    BY <1>2, <2>3
       DEF Contract!Tell, Contract!TypeOK, Contract!Truthful, Contract!Open, Contract!Verdicts
  <2>4. CASE UNCHANGED Contract!vars
    BY <1>2, <2>4 DEF Contract!vars, Contract!TypeOK, Contract!Truthful
  <2>5. QED BY <1>2, <2>1, <2>2, <2>3, <2>4 DEF Contract!Next
<1>3. TInv => Contract!Truthful
  OBVIOUS
<1>4. QED BY <1>1, <1>2, <1>3, PTL DEF Contract!Spec

\* The gateway says "observed" or "STATUS_TIMEOUT" only of a status check it has
\* carried out, "COMMAND_EXPIRED" only of one it has not, and publishes nothing else.
THEOREM VerdictsAreTrue == Spec => []Contract!Truthful
  BY StatusChecksKeepContract, ContractIsTruthful, PTL DEF ImplementsContract

(***************************************************************************)
(* When Sets release the intake                                            *)
(***************************************************************************)
\* A Set that holds the intake has not published anything yet.
BeforeJournal == {"queued", "lookup", "admit"}
SetInv == \A d \in Deliveries : intake = d /\ ~IsGet(d) => handler[d].pc \in BeforeJournal

\* Only ReceiveSet gives the intake to a Set.
LEMMA SetTakesIntake ==
    ASSUME [Next]_vars, NEW d \in Deliveries, ~IsGet(d), intake' = d, ~ReceiveSet(d)
    PROVE  intake = d
<1>1. \A D : Acknowledge(D) \/ Fail(D) => intake' \in {intake, NoDelivery}
  BY DEF Acknowledge, Fail
<1>2. ASSUME NEW e \in Deliveries, HandlerStep(e) \/ JournalFails(e) \/ PublishFails(e)
      PROVE  intake' \in {intake, NoDelivery}
  BY <1>1, <1>2
     DEF HandlerStep, Dequeue, Lookup, Settle, Accept, RefuseSet, RejectBeforeExecution,
         PublishAcceptance, Execute, SkipGet, EndExecution, PublishFinalAcceptance,
         PublishStatus, JournalFails, PublishFails, mqttVars
<1>3. ASSUME NEW e \in Deliveries, Receive(e) PROVE intake' = intake
  BY <1>3 DEF Receive, ReceiveGet, ShareGet, RefuseGet, ReceiveSet, ReceivePuback
<1>4. QED BY <1>2, <1>3, DeliveryAssumption
     DEF Next, Send, Confirm, Expire, Stop, Drop, Restart, vars, mqttVars

\* A handler's step leaves another Set before its journal record alone.
LEMMA OthersLeaveSet ==
    ASSUME IInv, NEW d \in Deliveries, handler[d].pc \in BeforeJournal,
           NEW e \in Deliveries \ {d},
           HandlerStep(e) \/ Receive(e) \/ JournalFails(e) \/ PublishFails(e)
    PROVE  handler'[d] = handler[d]
<1>1. handler \in [Deliveries -> Handlers] /\ d \notin With(e)
  BY DEF IInv, TypeOK, With, Sharers, At, BeforeJournal
<1>2. \A pc : Goto(e, pc) => handler'[d] = handler[d]
  BY <1>1 DEF Goto
<1>3. \A a : Return(e, a) => handler'[d] = handler[d]
  BY <1>1 DEF Return
<1>4. Fail(With(e)) \/ Fail({e}) => handler'[d] = handler[d]
  BY <1>1 DEF Fail
<1>5. CASE JournalFails(e) \/ PublishFails(e)
  BY <1>4, <1>5 DEF JournalFails, PublishFails
<1>6. CASE Receive(e)
  BY <1>1, <1>2, <1>6
     DEF Receive, ReceiveGet, ShareGet, RefuseGet, ReceiveSet, ReceivePuback
<1>7. CASE HandlerStep(e)
  BY <1>2, <1>3, <1>7
     DEF HandlerStep, Dequeue, Lookup, Settle, Accept, RefuseSet, RejectBeforeExecution,
         PublishAcceptance, Execute, SkipGet, EndExecution, PublishFinalAcceptance,
         PublishStatus, Complete
<1>8. QED BY <1>5, <1>6, <1>7

\* A Set releases the intake with its record, unless it is rejected before its
\* execution.
LEMMA SetReleases ==
    ASSUME IInv, ~OutboxCanFill, NEW d \in Deliveries, ~IsGet(d), intake = d, intake' = d,
           handler[d].pc \in BeforeJournal,
           HandlerStep(d) \/ Receive(d) \/ JournalFails(d) \/ PublishFails(d)
    PROVE  handler'[d].pc \in BeforeJournal
<1>1. handler \in [Deliveries -> Handlers] /\ d # NoDelivery /\ d \in With(d)
  BY DeliveryAssumption DEF IInv, TypeOK, With
<1>2. ~Acknowledge(With(d)) /\ ~Acknowledge({d}) /\ ~Fail(With(d)) /\ ~Fail({d})
  BY <1>1 DEF Acknowledge, Fail
<1>3. \A pc \in BeforeJournal : Goto(d, pc) => handler'[d].pc \in BeforeJournal
  BY <1>1 DEF Goto, Handlers
<1>4. CASE JournalFails(d) \/ PublishFails(d)
  BY <1>2, <1>4 DEF JournalFails, PublishFails
<1>5. CASE Receive(d)
  BY <1>1, <1>5
     DEF Receive, IsNext, ReceiveGet, ShareGet, RefuseGet, ReceiveSet, ReceivePuback
<1>6. CASE HandlerStep(d)
  BY <1>2, <1>3, <1>6
     DEF HandlerStep, Dequeue, Lookup, Settle, Accept, RefuseSet, RejectBeforeExecution,
         PublishAcceptance, Execute, SkipGet, EndExecution, PublishFinalAcceptance,
         PublishStatus, At, BeforeJournal
<1>7. QED BY <1>4, <1>5, <1>6

LEMMA NextSetInv == ~OutboxCanFill => (IInv /\ SetInv /\ [Next]_vars => SetInv')
<1>. SUFFICES ASSUME ~OutboxCanFill, IInv, SetInv, [Next]_vars,
                     NEW d \in Deliveries, intake' = d, ~IsGet(d)
              PROVE  handler'[d].pc \in BeforeJournal
  BY DEF SetInv, IsGet
<1>1. CASE ReceiveSet(d)
  BY <1>1, GotoMoves DEF ReceiveSet, IInv, Moves, BeforeJournal
<1>2. CASE ~ReceiveSet(d)
  <2>1. intake = d /\ handler[d].pc \in BeforeJournal
    BY <1>2, SetTakesIntake DEF SetInv
  <2>2. ASSUME NEW e \in Deliveries,
               HandlerStep(e) \/ Receive(e) \/ JournalFails(e) \/ PublishFails(e)
        PROVE  handler'[d].pc \in BeforeJournal
    BY <2>1, <2>2, OthersLeaveSet, SetReleases
  <2>3. CASE UNCHANGED handler
    BY <2>1, <2>3
  <2>4. ~Drop /\ ~Restart
    BY DeliveryAssumption DEF Drop, Restart
  <2>5. QED BY <2>1, <2>2, <2>3, <2>4 DEF Next, Send, Confirm, Expire, Stop, vars
<1>3. QED BY <1>1, <1>2

\* The two ways in which a Set can hold up the PUBACK it depends on are the only
\* ones: a rejection before the execution, and a queue behind another Set. Where no
\* Set is rejected and none conflicts with another delivery, the intake is released.
THEOREM LoneSetsReleaseIntake ==
    /\ ~OutboxCanFill
    /\ \A d, e \in Deliveries : d.of \in Sets /\ d # e => ~Conflict(d, e)
    => (Spec => []SetsReleaseIntake)
<1>. SUFFICES ASSUME ~OutboxCanFill,
                     \A d, e \in Deliveries : d.of \in Sets /\ d # e => ~Conflict(d, e)
              PROVE  Spec => []SetsReleaseIntake
  OBVIOUS
<1>1. Init => SetInv
  BY DeliveryAssumption DEF Init, SetInv
<1>2. IInv /\ SetInv /\ [Next]_vars => SetInv'
  BY NextSetInv
<1>3. SetInv => SetsReleaseIntake
  <2>1. ASSUME SetInv, NEW d \in Deliveries, intake = d, ~IsGet(d), NEW e \in Behind(d)
        PROVE  e = d /\ handler[e].pc \in BeforeJournal
    <3>1. d.of \in Sets
      BY <2>1, DeliveryType DEF IsGet, Commands
    <3>2. Owners(d) = {}
      BY <3>1 DEF Owners
    <3>3. QED BY <2>1, <3>2 DEF SetInv, Behind
  <2>2. QED BY <2>1 DEF SetsReleaseIntake, BeforeJournal
<1>4. QED BY <1>1, <1>2, <1>3, Invariant, PTL DEF Spec
=============================================================================
