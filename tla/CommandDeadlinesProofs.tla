----------------------- MODULE CommandDeadlinesProofs -----------------------
(***************************************************************************)
(* What TLAPS proves of CommandDeadlines, for every length of the windows, *)
(* every skew of the gateway's clock and every horizon.                    *)
(***************************************************************************)
EXTENDS CommandDeadlines, TLAPS

LEMMA TypeInit == Init => TypeOK
  BY DurationAssumption, ClockAssumption DEF Init, TypeOK, Instants, Stamps

LEMMA TypeStep == TypeOK /\ [Next]_vars => TypeOK'
<1> SUFFICES ASSUME TypeOK, [Next]_vars PROVE TypeOK'
  OBVIOUS
<1> USE DurationAssumption, ClockAssumption DEF TypeOK, Instants, Stamps, clockVars, histVars
<1>1. CASE Generate
  BY <1>1 DEF Generate
<1>2. CASE Enqueue
  BY <1>2 DEF Enqueue, expiresAt
<1>3. CASE FinishPublish
  BY <1>3 DEF FinishPublish
<1>4. CASE StoreAcceptance
  BY <1>4 DEF StoreAcceptance
<1>5. CASE StoreStatus
  BY <1>5 DEF StoreStatus
<1>6. CASE CloseExpired
  <2>1. /\ row'.status = "timed_out" /\ row'.publishedAt = row.publishedAt
        /\ row'.code \in {"ACCEPTANCE_TIMEOUT", "STATUS_TIMEOUT"}
        /\ row' = [status |-> row'.status, code |-> row'.code,
                   publishedAt |-> row.publishedAt, acceptedAt |-> row.acceptedAt]
    BY <1>6 DEF CloseExpired
  <2> QED
    BY <1>6, <2>1 DEF CloseExpired
<1>7. CASE BrokerReceives
  BY <1>7 DEF BrokerReceives
<1>8. CASE BrokerForwards
  BY <1>8 DEF BrokerForwards
<1>9. CASE GatewayReceives
  <2>1. now + packet.ttl \in Int
    OBVIOUS
  <2> QED
    BY <1>9, <2>1 DEF GatewayReceives
<1>10. CASE Accept
  <2>1. GatewayClock \in Stamps
    BY DEF GatewayClock
  <2>2. gateway' = [pc |-> "accepted", receiptEnd |-> gateway.receiptEnd,
                    deadline |-> gateway.deadline, acceptedAt |-> GatewayClock]
    BY <1>10 DEF Accept
  <2>3. gateway' \in [pc: {"idle", "received", "accepted", "acknowledged", "applying", "done"},
                     receiptEnd: Int, deadline: Int, acceptedAt: Stamps]
    BY <2>1, <2>2
  <2>4. acceptedTrue' \in Instants
    BY <1>10 DEF Accept
  <2>5. UNCHANGED <<clockVars, row, generated, packet, reply, adapterStart, lastWrite>>
    BY <1>10 DEF Accept
  <2> QED
    BY <2>3, <2>4, <2>5
<1>11. CASE PublishAcceptance
  BY <1>11 DEF PublishAcceptance
<1>12. CASE Refuse
  BY <1>12 DEF Refuse
<1>13. CASE StartExecution
  <2>1. now + CommandTimeout \in Int /\ gateway.receiptEnd \in Int
    OBVIOUS
  <2>2. /\ gateway'.deadline \in {gateway.receiptEnd, now + CommandTimeout}
        /\ gateway' = [pc |-> "applying", receiptEnd |-> gateway.receiptEnd,
                       deadline |-> gateway'.deadline, acceptedAt |-> gateway.acceptedAt]
    BY <1>13 DEF StartExecution
  <2>3. gateway'.deadline \in Int
    BY <2>1, <2>2
  <2>4. gateway' \in [pc: {"idle", "received", "accepted", "acknowledged", "applying", "done"},
                     receiptEnd: Int, deadline: Int, acceptedAt: Stamps]
    BY <2>2, <2>3
  <2> QED
    BY <1>13, <2>4 DEF StartExecution
<1>14. CASE Write
  BY <1>14 DEF Write
<1>15. CASE Complete
  BY <1>15 DEF Complete
<1>16. CASE Tick
  BY <1>16 DEF Tick
<1>17. CASE UNCHANGED vars
  BY <1>17 DEF vars
<1> QED
  BY <1>1, <1>2, <1>3, <1>4, <1>5, <1>6, <1>7, <1>8, <1>9, <1>10, <1>11, <1>12,
     <1>13, <1>14, <1>15, <1>16, <1>17 DEF Next

\* Every variable keeps its type: no TTL that is handed to the client or to the
\* gateway is negative, and no timestamp of the row leaves the horizon.
THEOREM TypeCorrect == Spec => []TypeOK
<1>1. Init => TypeOK
  BY TypeInit
<1>2. TypeOK /\ [Next]_vars => TypeOK'
  BY TypeStep
<1> QED
  BY <1>1, <1>2, PTL DEF Spec

(***************************************************************************)
(* The window is fixed before the packet leaves, the packet is out before  *)
(* the row is published or the gateway works, and the timeout worker waits *)
(* a whole window after that.                                              *)
(***************************************************************************)
WindowIsFixed ==
    /\ generated # Never => generated <= now
    /\ packet.place # "none" => generated # Never
    /\ gateway.pc # "idle" => packet.place = "delivered"
    /\ gateway.pc = "idle" => adapterStart = Never /\ lastWrite = Never

TimeoutWaits ==
    /\ row.publishedAt # Never => generated # Never /\ row.publishedAt >= generated
    /\ row.status = "published" => row.publishedAt # Never
    /\ row.code = "ACCEPTANCE_TIMEOUT" =>
          row.status = "timed_out" /\ row.publishedAt # Never /\ row.publishedAt < now - Window

WindowInv == TypeOK /\ WindowIsFixed /\ TimeoutWaits /\ WritesInWindow /\ AdapterStartsInWindow

LEMMA WindowInit == Init => WindowInv
  BY TypeInit DEF Init, WindowInv, WindowIsFixed, TimeoutWaits, WritesInWindow,
                  AdapterStartsInWindow

\* The guard of the last check leaves the window open, clock skew included.
LEMMA AdmittedInWindow ==
    ASSUME TypeOK, generated # Never, Admitted, timeCheck = "wall", offset >= -Guard
    PROVE  now < expiresAt
<1>1. /\ now \in Int /\ offset \in Int /\ generated \in Int /\ Window \in Int /\ Guard \in Int
  BY DurationAssumption DEF TypeOK, Instants
<1>2. now + offset < generated + Window - Guard
  BY <1>1 DEF Admitted, Expired, GatewayClock, expiresAt
<1> QED
  BY <1>1, <1>2 DEF expiresAt

LEMMA ProvedInWindow ==
    ASSUME TypeOK, generated # Never, NEW u \in 0..Guard, ~ProofRefuses(u)
    PROVE  now < expiresAt
<1>1. now + u < generated + Window - Guard
  <2>1. /\ now \in Int /\ generated \in Int /\ Window \in Int /\ Guard \in Int
    BY DurationAssumption DEF TypeOK, Instants
  <2> QED
    BY <2>1 DEF ProofRefuses, expiresAt
<1>2. /\ now \in Int /\ generated \in Int /\ Window \in Int /\ Guard \in Nat
  BY DurationAssumption DEF TypeOK, Instants
<1> QED
  BY <1>1, <1>2 DEF expiresAt

LEMMA WindowStep == WindowInv /\ [Next]_vars => WindowInv'
<1> SUFFICES ASSUME WindowInv, [Next]_vars PROVE WindowInv'
  OBVIOUS
<1>t. TypeOK'
  BY TypeStep DEF WindowInv
<1>u. /\ now \in Int /\ Window \in Nat /\ Guard \in Nat /\ now' \in Int
      /\ generated # Never => generated \in Int
      /\ row.publishedAt # Never => row.publishedAt \in Int
  BY <1>t, DurationAssumption DEF WindowInv, TypeOK, Instants
<1> USE <1>u, ClockAssumption DEF WindowInv, WindowIsFixed, TimeoutWaits, clockVars, histVars,
        WritesInWindow, AdapterStartsInWindow, expiresAt, At
<1>1. CASE Generate
  BY <1>t, <1>1 DEF Generate, TypeOK
<1>2. CASE Enqueue
  BY <1>t, <1>2 DEF Enqueue, TypeOK
<1>3. CASE FinishPublish
  <2>1. generated # Never /\ generated <= now /\ now # Never
    BY <1>3 DEF FinishPublish
  <2>2. row'.status = "published" /\ row'.publishedAt = now /\ row'.code = row.code
    BY <1>3 DEF FinishPublish, TypeOK
  <2>3. TimeoutWaits'
    BY <1>3, <2>1, <2>2 DEF FinishPublish
  <2> QED
    BY <1>t, <1>3, <2>3 DEF FinishPublish
<1>4. CASE StoreAcceptance
  BY <1>t, <1>4 DEF StoreAcceptance, TypeOK
<1>5. CASE StoreStatus
  BY <1>t, <1>5 DEF StoreStatus, TypeOK, Active
<1>6. CASE CloseExpired
  <2>1. row.status = "published" => row.publishedAt < now - Window
    BY <1>6 DEF CloseExpired, Overdue
  <2> QED
    BY <1>t, <1>6, <2>1 DEF CloseExpired, TypeOK
<1>7. CASE BrokerReceives
  BY <1>t, <1>7 DEF BrokerReceives, TypeOK
<1>8. CASE BrokerForwards
  BY <1>t, <1>8 DEF BrokerForwards, TypeOK
<1>9. CASE GatewayReceives
  BY <1>t, <1>9 DEF GatewayReceives, TypeOK
<1>10. CASE Accept
  BY <1>t, <1>10 DEF Accept, TypeOK
<1>11. CASE PublishAcceptance
  BY <1>t, <1>11 DEF PublishAcceptance, TypeOK
<1>12. CASE Refuse
  BY <1>t, <1>12 DEF Refuse, TypeOK
<1>13. CASE StartExecution
  <2>1. generated # Never /\ Admitted
    BY <1>13 DEF StartExecution, TypeOK
  <2>2. timeCheck = "wall" /\ offset >= -Guard => now < expiresAt
    BY <2>1, AdmittedInWindow, ProvedInWindow DEF Admitted, TypeOK
  <2> QED
    BY <1>t, <1>13, <2>2 DEF StartExecution, TypeOK
<1>14. CASE Write
  <2>1. generated # Never
    BY <1>14 DEF Write, TypeOK
  <2>2. timeCheck = "proof" => now < expiresAt
    BY <1>14, <2>1, ProvedInWindow DEF Write, MayStartWrite
  <2> QED
    BY <1>t, <1>14, <2>2 DEF Write, TypeOK
<1>15. CASE Complete
  BY <1>t, <1>15 DEF Complete, TypeOK
<1>16. CASE Tick
  BY <1>t, <1>16 DEF Tick, TypeOK
<1>17. CASE UNCHANGED vars
  BY <1>t, <1>17 DEF vars
<1> QED
  BY <1>1, <1>2, <1>3, <1>4, <1>5, <1>6, <1>7, <1>8, <1>9, <1>10, <1>11, <1>12,
     <1>13, <1>14, <1>15, <1>16, <1>17 DEF Next

LEMMA WindowAlways == Spec => []WindowInv
<1>1. Init => WindowInv
  BY WindowInit
<1>2. WindowInv /\ [Next]_vars => WindowInv'
  BY WindowStep
<1> QED
  BY <1>1, <1>2, PTL DEF Spec

\* With the database clock proof no native write starts after the delivery window,
\* however far the gateway's own clock is off.
THEOREM WrittenInWindow == Spec => []WritesInWindow
<1>1. WindowInv => WritesInWindow
  BY DEF WindowInv
<1> QED
  BY <1>1, WindowAlways, PTL

\* With a trusted wall clock at most Guard behind, the adapter is called inside the
\* delivery window.
THEOREM StartedInWindow == Spec => []AdapterStartsInWindow
<1>1. WindowInv => AdapterStartsInWindow
  BY DEF WindowInv
<1> QED
  BY <1>1, WindowAlways, PTL

\* With the database clock proof an acceptance timeout is never followed by a write.
THEOREM TimeoutIsQuiet == Spec => AcceptanceTimeoutIsQuiet
<1> DEFINE Quiet == timeCheck = "proof" /\ row.code = "ACCEPTANCE_TIMEOUT" => lastWrite' = lastWrite
<1>1. WindowInv /\ [Next]_vars => [Quiet]_vars
  <2> SUFFICES ASSUME WindowInv, [Next]_vars, timeCheck = "proof", row.code = "ACCEPTANCE_TIMEOUT",
                      lastWrite' # lastWrite
               PROVE  FALSE
    BY DEF vars
  <2>1. Write
    BY DEF Next, vars, clockVars, histVars, Generate, Enqueue, FinishPublish, StoreAcceptance,
           StoreStatus, CloseExpired, BrokerReceives, BrokerForwards, GatewayReceives, Accept,
           PublishAcceptance, Refuse, StartExecution, Complete, Tick
  <2>2. generated # Never /\ row.publishedAt >= generated /\ row.publishedAt < now - Window
    BY DEF WindowInv, TimeoutWaits
  <2>3. now < expiresAt
    BY <2>1, <2>2, ProvedInWindow DEF Write, MayStartWrite, WindowInv
  <2>4. /\ now \in Int /\ generated \in Int /\ row.publishedAt \in Int /\ Window \in Int
    BY <2>2, DurationAssumption DEF WindowInv, TimeoutWaits, TypeOK, Instants
  <2> QED
    BY <2>2, <2>3, <2>4 DEF expiresAt
<1> QED
  BY <1>1, WindowAlways, PTL DEF Spec, AcceptanceTimeoutIsQuiet

(***************************************************************************)
(* The call: it is made once, after the window was fixed, with a deadline  *)
(* that the configured timeout bounds.                                     *)
(***************************************************************************)
CallIsBounded ==
    /\ gateway.pc \in {"idle", "received", "accepted", "acknowledged"} =>
          adapterStart = Never /\ lastWrite = Never
    /\ gateway.pc = "applying" =>
          /\ adapterStart # Never /\ adapterStart <= now
          /\ gateway.deadline <= adapterStart + CommandTimeout

CallInv == TypeOK /\ CallIsBounded /\ WritesEndWithCall

LEMMA CallStep == CallInv /\ [Next]_vars => CallInv'
<1> SUFFICES ASSUME CallInv, [Next]_vars PROVE CallInv'
  OBVIOUS
<1>t. TypeOK'
  BY TypeStep DEF CallInv
<1>u. /\ now \in Int /\ now' \in Int /\ CommandTimeout \in Nat \ {0}
      /\ now # Never /\ gateway.deadline \in Int /\ gateway.receiptEnd \in Int
      /\ adapterStart # Never => adapterStart \in Int
      /\ lastWrite # Never => lastWrite \in Int
  BY <1>t, DurationAssumption, ClockAssumption DEF CallInv, TypeOK, Instants
<1> USE <1>u DEF CallInv, CallIsBounded, WritesEndWithCall, At
<1>1. CASE UNCHANGED <<now, gateway, adapterStart, lastWrite>>
  BY <1>1, <1>t
<1>2. CASE GatewayReceives
  BY <1>2, <1>t DEF GatewayReceives, clockVars, histVars, TypeOK
<1>3. CASE Accept
  BY <1>3, <1>t DEF Accept, clockVars, TypeOK
<1>4. CASE PublishAcceptance
  BY <1>4, <1>t DEF PublishAcceptance, clockVars, histVars, TypeOK
<1>5. CASE Refuse
  BY <1>5, <1>t DEF Refuse, clockVars, histVars, TypeOK
<1>6. CASE StartExecution
  <2>1. /\ gateway'.pc = "applying" /\ adapterStart' = now /\ lastWrite = Never
        /\ lastWrite' = lastWrite /\ now' = now
        /\ gateway'.deadline = IF gateway.receiptEnd - now < CommandTimeout
                               THEN gateway.receiptEnd ELSE now + CommandTimeout
    BY <1>6 DEF StartExecution, clockVars, TypeOK
  <2>2. gateway'.deadline <= now + CommandTimeout
    BY <2>1
  <2> QED
    BY <1>t, <2>1, <2>2
<1>7. CASE Write
  <2>1. /\ lastWrite' = now /\ now < gateway.deadline /\ gateway.pc = "applying"
        /\ UNCHANGED <<now, gateway, adapterStart>>
    BY <1>7 DEF Write, clockVars
  <2> QED
    BY <1>t, <2>1
<1>8. CASE Complete
  BY <1>8, <1>t DEF Complete, clockVars, histVars, TypeOK
<1>9. CASE Tick
  BY <1>9, <1>t DEF Tick, histVars
<1> QED
  BY <1>1, <1>2, <1>3, <1>4, <1>5, <1>6, <1>7, <1>8, <1>9
     DEF Next, vars, clockVars, histVars, Generate, Enqueue, FinishPublish, StoreAcceptance,
         StoreStatus, CloseExpired, BrokerReceives, BrokerForwards

\* No native write starts later than one adapter call after the last check, however
\* long the window, the TTL that is left and the journal take.
THEOREM WritesEnd == Spec => []WritesEndWithCall
<1>1. Init => CallInv
  BY TypeInit DEF Init, CallInv, CallIsBounded, WritesEndWithCall
<1>2. CallInv /\ [Next]_vars => CallInv'
  BY CallStep
<1>3. CallInv => WritesEndWithCall
  BY DEF CallInv
<1> QED
  BY <1>1, <1>2, <1>3, PTL DEF Spec

\* What remains of the documented promise of the wall clock check: a gateway with
\* a trusted clock at most Guard behind ends its writes less than one adapter call
\* after expiresAt, since it makes the call inside the window.
THEOREM SlowGatewayStops == Spec => []SlowGatewayStopsAfterCall
<1>1. WindowInv /\ WritesEndWithCall => SlowGatewayStopsAfterCall
  <2> SUFFICES ASSUME WindowInv, WritesEndWithCall, timeCheck = "wall", offset >= -Guard,
                      lastWrite # Never
               PROVE  lastWrite < expiresAt + CommandTimeout
    BY DEF SlowGatewayStopsAfterCall
  <2>1. adapterStart # Never /\ generated # Never
    BY DurationAssumption, ClockAssumption
       DEF WindowInv, WindowIsFixed, WritesEndWithCall, TypeOK, Instants
  <2>2. adapterStart < expiresAt /\ lastWrite < adapterStart + CommandTimeout
    BY <2>1 DEF WindowInv, AdapterStartsInWindow, WritesEndWithCall
  <2>3. /\ adapterStart \in Int /\ generated \in Int /\ lastWrite \in Int
        /\ Window \in Int /\ CommandTimeout \in Int
    BY <2>1, DurationAssumption DEF WindowInv, TypeOK, Instants
  <2> QED
    BY <2>2, <2>3 DEF expiresAt
<1> QED
  BY <1>1, WindowAlways, WritesEnd, PTL
=============================================================================
