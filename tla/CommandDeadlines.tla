-------------------------- MODULE CommandDeadlines --------------------------
(***************************************************************************)
(* The clocks behind one Set: the delivery window the publisher fixes, the *)
(* message TTL the broker counts down, the checks the gateway makes with   *)
(* its own wall clock, with the receipt TTL or with the database clock     *)
(* proof, and the deadlines of the API's timeout worker.                   *)
(*                                                                         *)
(* packages/shared/src/command-delivery.ts, apps/api/src/mqtt/             *)
(* outbox-publisher.service.ts, commands/command-timeout.service.ts,       *)
(* apps/gateway/src/commands/gateway-command-handler.ts, db-clock-proof.ts.*)
(* One tick is two seconds; `now` is the API's (and database's) clock.     *)
(***************************************************************************)
EXTENDS Integers

CONSTANTS
    Window,          \* GATEWAY_COMMAND_ACCEPTANCE_DEADLINE_MS
    Guard,           \* GATEWAY_COMMAND_EXPIRY_CLOCK_SKEW_GUARD_MS
    StatusDeadline,  \* DEVICE_STATUS_TIMEOUT_MS
    CommandTimeout,  \* the gateway's timeout of one adapter call
    Offsets,         \* gateway wall clock minus API clock
    TimeChecks,      \* ways a gateway looks at expiresAt, see timeCheck
    Horizon,         \* bound: last instant
    Never

ASSUME DurationAssumption ==
    /\ {Window, StatusDeadline, CommandTimeout, Horizon} \subseteq Nat \ {0}
    /\ Guard \in Nat /\ Guard < Window
    /\ Offsets \subseteq Int
ASSUME ClockAssumption ==
    TimeChecks \subseteq {"proof", "wall", "ttl"} /\ Never \notin Int

VARIABLES
    now,          \* the API's clock
    offset,       \* how far the gateway's wall clock is ahead of it
    timeCheck,    \* the database clock proof (setPermit), a trusted wall clock,
                  \* or, while that is not trusted, the broker's TTL alone
    row,          \* CommandDispatch: status, code and its timestamps
    generated,    \* deliveryGeneratedAt of the stored payload
    packet,       \* the Set on its way: place and remaining or final TTL
    gateway,      \* the gateway's handler of the Set
    reply,        \* ACKs on their way back
    acceptedTrue, \* history: when the gateway accepted, on the API's clock
    adapterStart, \* history: when the adapter was called
    lastWrite     \* history: when the last native write started

vars == <<now, offset, timeCheck, row, generated, packet, gateway, reply, acceptedTrue,
          adapterStart, lastWrite>>
clockVars == <<now, offset, timeCheck>>
histVars  == <<acceptedTrue, adapterStart, lastWrite>>

Instants == 0..Horizon \cup {Never}
Stamps   == Int \cup {Never}

TypeOK ==
    /\ now \in 0..Horizon /\ offset \in Offsets /\ timeCheck \in TimeChecks
    /\ row \in [status: {"pending", "published", "accepted", "completed", "timed_out"},
                code: {"none", "ACCEPTANCE_TIMEOUT", "STATUS_TIMEOUT"},
                publishedAt: Instants, acceptedAt: Stamps]
    /\ generated \in Instants
    /\ packet \in [place: {"none", "client", "broker", "downlink", "delivered"}, ttl: Nat]
    /\ gateway \in [pc: {"idle", "received", "accepted", "acknowledged", "applying", "done"},
                    receiptEnd: Int, deadline: Int, acceptedAt: Stamps]
    /\ reply \in [acceptance: Stamps, status: BOOLEAN]
    /\ {acceptedTrue, adapterStart, lastWrite} \subseteq Instants

Init ==
    /\ now = 0 /\ offset \in Offsets /\ timeCheck \in TimeChecks
    /\ row = [status |-> "pending", code |-> "none",
              publishedAt |-> Never, acceptedAt |-> Never]
    /\ generated = Never
    /\ packet = [place |-> "none", ttl |-> 0]
    /\ gateway = [pc |-> "idle", receiptEnd |-> 0, deadline |-> 0, acceptedAt |-> Never]
    /\ reply = [acceptance |-> Never, status |-> FALSE]
    /\ acceptedTrue = Never /\ adapterStart = Never /\ lastWrite = Never

expiresAt == generated + Window

GatewayClock == now + offset

Active == row.status \in {"pending", "published", "accepted"}

(***************************************************************************)
(* API                                                                     *)
(***************************************************************************)
\* The window is fixed with the first prepared payload; a retry keeps it.
Generate ==
    /\ generated = Never /\ Active
    /\ generated' = now
    /\ UNCHANGED <<clockVars, row, packet, gateway, reply, histVars>>

\* publishTopic with the rest of the window as messageExpiryInterval. (One packet:
\* one that a retry sends has less time left, and the journal drops the second.)
Enqueue ==
    /\ generated # Never /\ packet.place = "none" /\ Active
    /\ now < expiresAt
    /\ packet' = [place |-> "client", ttl |-> expiresAt - now]
    /\ UNCHANGED <<clockVars, row, generated, gateway, reply, histVars>>

\* The PUBACK comes back and the row is finished.
FinishPublish ==
    /\ packet.place \notin {"none", "client"}
    /\ row.status = "pending"
    /\ row' = [row EXCEPT !.status = "published", !.publishedAt = now]
    /\ UNCHANGED <<clockVars, generated, packet, gateway, reply, histVars>>

\* storeAcceptanceAck keeps the timestamp that came with the ACK.
StoreAcceptance ==
    /\ reply.acceptance # Never
    /\ reply' = [reply EXCEPT !.acceptance = Never]
    /\ row' = IF row.status \in {"pending", "published"}
              THEN [row EXCEPT !.status = "accepted", !.acceptedAt = reply.acceptance]
              ELSE row
    /\ UNCHANGED <<clockVars, generated, packet, gateway, histVars>>

StoreStatus ==
    /\ reply.status
    /\ reply' = [reply EXCEPT !.status = FALSE]
    /\ row' = IF Active THEN [row EXCEPT !.status = "completed"] ELSE row
    /\ UNCHANGED <<clockVars, generated, packet, gateway, histVars>>

\* closeExpired: which dispatches are overdue.
Overdue(status) ==
    \/ status = "published" /\ row.publishedAt < now - Window
    \/ status = "accepted" /\ row.acceptedAt < now - StatusDeadline

CloseExpired ==
    /\ row.status \in {"published", "accepted"} /\ Overdue(row.status)
    /\ row' = [row EXCEPT !.status = "timed_out",
                          !.code = IF row.status = "published" THEN "ACCEPTANCE_TIMEOUT"
                                   ELSE "STATUS_TIMEOUT"]
    /\ UNCHANGED <<clockVars, generated, packet, gateway, reply, histVars>>

(***************************************************************************)
(* Network                                                                 *)
(***************************************************************************)
\* The client may hold a packet back, across a reconnect too; the broker's count
\* starts when it arrives there.
BrokerReceives ==
    /\ packet.place = "client"
    /\ packet' = [place |-> "broker", ttl |-> now + packet.ttl]
    /\ UNCHANGED <<clockVars, row, generated, gateway, reply, histVars>>

\* The broker forwards the remaining TTL, if there is any.
BrokerForwards ==
    /\ packet.place = "broker" /\ now < packet.ttl
    /\ packet' = [place |-> "downlink", ttl |-> packet.ttl - now]
    /\ UNCHANGED <<clockVars, row, generated, gateway, reply, histVars>>

\* createGatewayCommandReceipt: the TTL starts anew on the monotonic clock.
GatewayReceives ==
    /\ packet.place = "downlink" /\ gateway.pc = "idle"
    /\ packet' = [place |-> "delivered", ttl |-> 0]
    /\ gateway' = [gateway EXCEPT !.pc = "received", !.receiptEnd = now + packet.ttl]
    /\ UNCHANGED <<clockVars, row, generated, reply, histVars>>

(***************************************************************************)
(* Gateway                                                                 *)
(***************************************************************************)
\* Mutant: the skew guard is left out.
ExpiredUnguarded == timeCheck = "wall" /\ GatewayClock >= expiresAt

\* isGatewayCommandExpired, decisive only while the wall clock is trusted.
Expired == timeCheck = "wall" /\ GatewayClock >= expiresAt - Guard

\* The database clock proof: its upper bound runs ahead of the database's clock
\* by less than the guard.
ProofRefuses(uncertainty) == now + uncertainty >= expiresAt - Guard

ReceiptOver == gateway.receiptEnd <= now

\* commandRefusal
Refused == \/ ReceiptOver
           \/ IF timeCheck = "proof" THEN \E u \in 0..Guard : ProofRefuses(u) ELSE Expired

\* What a refusal check may let pass.
Admitted == /\ ~ReceiptOver
            /\ IF timeCheck = "proof" THEN \E u \in 0..Guard : ~ProofRefuses(u) ELSE ~Expired

At(places) == gateway.pc \in places

\* The acceptance is stamped with the wall clock and journalled.
Accept ==
    /\ At({"received"}) /\ Admitted
    /\ gateway' = [gateway EXCEPT !.pc = "accepted", !.acceptedAt = GatewayClock]
    /\ acceptedTrue' = now
    /\ UNCHANGED <<clockVars, row, generated, packet, reply, adapterStart, lastWrite>>

\* onAccepted, after the check that follows the journal's fsync.
PublishAcceptance ==
    /\ At({"accepted"}) /\ Admitted
    /\ gateway' = [gateway EXCEPT !.pc = "acknowledged"]
    /\ reply' = [reply EXCEPT !.acceptance = gateway.acceptedAt]
    /\ UNCHANGED <<clockVars, row, generated, packet, histVars>>

\* Any check before the adapter call may refuse; the result is terminal.
Refuse ==
    /\ At({"received", "accepted", "acknowledged"}) /\ Refused
    /\ gateway' = [gateway EXCEPT !.pc = "done"]
    /\ reply' = [reply EXCEPT !.status = TRUE]
    /\ UNCHANGED <<clockVars, row, generated, packet, histVars>>

\* Mutant: the call gets whatever the receipt TTL has left.
StartExecutionUncapped ==
    /\ At({"acknowledged"}) /\ Admitted
    /\ gateway' = [gateway EXCEPT !.pc = "applying", !.deadline = gateway.receiptEnd]
    /\ adapterStart' = now
    /\ UNCHANGED <<clockVars, row, generated, packet, reply, acceptedTrue, lastWrite>>

\* The last check is passed; the call gets the configured timeout or the rest of
\* the receipt TTL, whichever is shorter.
StartExecution ==
    /\ At({"acknowledged"}) /\ Admitted
    /\ gateway' = [gateway EXCEPT !.pc = "applying",
          !.deadline = IF gateway.receiptEnd - now < CommandTimeout
                       THEN gateway.receiptEnd ELSE now + CommandTimeout]
    /\ adapterStart' = now
    /\ UNCHANGED <<clockVars, row, generated, packet, reply, acceptedTrue, lastWrite>>

\* Mutant: the write gate does not ask for the proof again.
MayStartWriteUnproved == ~ReceiptOver

\* mayStartWrite: the receipt TTL and, with a permit, the proof.
MayStartWrite == ~ReceiptOver /\ (timeCheck = "proof" => \E u \in 0..Guard : ~ProofRefuses(u))

\* The adapter starts a native write; it may take its time between two fixtures.
Write ==
    /\ At({"applying"}) /\ now < gateway.deadline
    /\ MayStartWrite
    /\ lastWrite' = now
    /\ UNCHANGED <<clockVars, row, generated, packet, gateway, reply, acceptedTrue,
                   adapterStart>>

\* The adapter returns, or the watchdog fires.
Complete ==
    /\ At({"applying"})
    /\ gateway' = [gateway EXCEPT !.pc = "done"]
    /\ reply' = [reply EXCEPT !.status = TRUE]
    /\ UNCHANGED <<clockVars, row, generated, packet, histVars>>

Tick ==
    /\ now < Horizon
    /\ At({"applying"}) => now < gateway.deadline
    /\ now' = now + 1
    /\ UNCHANGED <<offset, timeCheck, row, generated, packet, gateway, reply, histVars>>

Next ==
    \/ Generate \/ Enqueue \/ FinishPublish \/ StoreAcceptance \/ StoreStatus
    \/ CloseExpired \/ BrokerReceives \/ BrokerForwards \/ GatewayReceives
    \/ Accept \/ PublishAcceptance \/ Refuse \/ StartExecution \/ Write \/ Complete \/ Tick

Spec == Init /\ [][Next]_vars

(***************************************************************************)
(* Safety                                                                  *)
(***************************************************************************)
\* With a trusted clock at most Guard behind, the adapter is called inside the
\* window of the API only, however long broker and journal have taken.
AdapterStartsInWindow ==
    timeCheck = "wall" /\ offset >= -Guard /\ adapterStart # Never
        => adapterStart < expiresAt

\* With the database clock proof no native write starts outside the window, also
\* not the late ones of a command to many fixtures, and whatever the wall clock
\* of the gateway says.
WritesInWindow ==
    timeCheck = "proof" /\ lastWrite # Never => lastWrite < expiresAt

\* A native write never starts later than one adapter call after the last check:
\* the call is cut off by the configured timeout, however far a packet that was
\* held back has stretched the receipt TTL.
WritesEndWithCall ==
    lastWrite # Never =>
        /\ adapterStart # Never /\ adapterStart <= lastWrite
        /\ lastWrite < adapterStart + CommandTimeout

\* So a gateway with a trusted clock at most Guard behind is late by less than
\* one adapter call.
SlowGatewayStopsAfterCall ==
    timeCheck = "wall" /\ offset >= -Guard /\ lastWrite # Never
        => lastWrite < expiresAt + CommandTimeout

\* What the menu documentation says of the wall clock check: a gateway that is up
\* to two seconds slow does not execute BLE after the deadline.
SlowGatewayStopsAtDeadline ==
    timeCheck = "wall" /\ offset >= -Guard /\ lastWrite # Never => lastWrite < expiresAt

\* What the menu documentation says of the timeout worker: the device status has
\* its 30 s after the acceptance before the dispatch is timed out.
StatusDeadlineIsKept ==
    row.code = "STATUS_TIMEOUT" => now > acceptedTrue + StatusDeadline

(***************************************************************************)
(* Action properties                                                       *)
(***************************************************************************)
\* With the database clock proof a Set that was given up for want of an
\* acceptance never starts another write: a status check that the user requests
\* on seeing the timeout is not overtaken by the Set it is to verify.
AcceptanceTimeoutIsQuiet ==
    [][timeCheck = "proof" /\ row.code = "ACCEPTANCE_TIMEOUT"
          => lastWrite' = lastWrite]_vars
=============================================================================
