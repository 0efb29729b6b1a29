----------------------- MODULE CommandDeliveryProofs -----------------------
(***************************************************************************)
(* Theorems about CommandDelivery: what a row that was given up says of    *)
(* the MQTT client, what the fence keeps, how attempts follow one another, *)
(* and that rows, publishers and ACK writers implement OutcomeContract.    *)
(* They hold for any commands, chunks, publishers, attempts and faults.    *)
(***************************************************************************)
EXTENDS CommandDelivery, TLAPS

(***************************************************************************)
(* Data                                                                    *)
(***************************************************************************)
Outcomes == Definite \cup {"none", "pending", "unknown"}

\* A dispatch is the Set of its command or a check, and never both.
LEMMA DispatchKinds ==
    /\ \A c \in Commands : SetOf(c) \in Dispatches /\ IsSet(SetOf(c)) /\ SetOf(c).command = c
    /\ \A d \in Dispatches : d.command \in Commands
    /\ \A d \in Checks : d \in Dispatches /\ ~IsSet(d)
    /\ \A d \in Dispatches : IsSet(d) => d = SetOf(d.command)
    /\ \A d \in Dispatches : ~IsSet(d) => d \in Checks
<1>1. \A c \in Commands : SetOf(c) \in Dispatches /\ SetOf(c).chunk = Whole /\ SetOf(c).command = c
  BY DEF SetOf, Dispatches
<1>2. \A d \in Checks : d \in Dispatches /\ d.chunk # Whole /\ d.command \in Commands
  BY ChunkAssumption DEF Checks, Dispatches
<1>3. \A d \in Dispatches : d \in Checks \/ \E c \in Commands : d = SetOf(c)
  BY DEF Dispatches
<1>4. QED BY <1>1, <1>2, <1>3 DEF IsSet

LEMMA TargetsType == \A c \in Commands : Targets[c] \subseteq Fixtures /\ Targets[c] # {}
<1> SUFFICES ASSUME NEW c \in Commands PROVE Targets[c] \subseteq Fixtures /\ Targets[c] # {}
  OBVIOUS
<1>1. Targets[c] \in (SUBSET Fixtures) \ {{}}
  BY TargetsAssumption
<1>2. Targets[c] # {}
  BY <1>1, Zenon
<1>3. QED BY <1>1

LEMMA CoversType == \A d \in Dispatches : Covers(d) \subseteq Fixtures
  BY DispatchKinds, TargetsType DEF Covers

LEMMA TallyType ==
    ASSUME NEW good, NEW all
    PROVE  Tally(good, all) \in Definite
  BY DEF Tally, Definite

LEMMA OutcomeTypes ==
    /\ \A row, fs : DimmingOutcome(row, fs) \in Definite \cup {"unknown"}
    /\ \A rows, checks, fs : VerificationOutcome(rows, checks, fs) \in Definite \cup {"unknown"}
  BY TallyType DEF DimmingOutcome, VerificationOutcome

LEMMA FinishParentType ==
    ASSUME NEW d \in Dispatches, NEW rows, outcome[d.command] \in Outcomes
    PROVE  FinishParent(d, rows) \in Outcomes
<1>1. Definite \cup {"unknown"} \subseteq Outcomes
  BY DEF Outcomes
<1>2. QED BY <1>1, OutcomeTypes DEF FinishParent

LEMMA NewRowTypes ==
    /\ NoDispatch \in DispatchRows /\ NoOutbox \in OutboxRows /\ NewOutbox \in OutboxRows
    /\ \A d \in Dispatches : NewDispatch(d) \in DispatchRows
    /\ NoWork \in Work
<1>1. NoResults \in Results
  BY DEF NoResults, Results
<1>2. \A d \in Dispatches : [f \in Fixtures |-> IF f \in Covers(d) THEN "pending" ELSE "none"] \in Results
  BY DEF Results
<1>3. NoDispatch \in DispatchRows /\ \A d \in Dispatches : NewDispatch(d) \in DispatchRows
  BY <1>1, <1>2 DEF NoDispatch, NewDispatch, DispatchRows, ActiveStatuses, Codes
<1>4. NoOutbox \in OutboxRows /\ NewOutbox \in OutboxRows
  BY DEF NoOutbox, NewOutbox, OutboxRows
<1>5. QED BY <1>3, <1>4 DEF NoWork, Work

LEMMA ClosedType ==
    ASSUME NEW row \in DispatchRows, NEW status \in {"failed", "timed_out"}, NEW code \in Codes
    PROVE  Closed(row, status, code) \in DispatchRows
<1>1. [f \in Fixtures |-> IF row.results[f] = "pending" THEN status ELSE row.results[f]] \in Results
  BY DEF DispatchRows, Results, Answers
<1>2. QED BY <1>1 DEF Closed, DispatchRows

LEMMA OutboxTypes ==
    ASSUME NEW row \in OutboxRows
    PROVE  /\ Unleased(row) \in OutboxRows /\ Dead(row) \in OutboxRows
           /\ \A n \in Nat : Tried(Unleased(row), n) \in OutboxRows
           /\ Tried(Dead(row), 1) \in OutboxRows
           /\ [Unleased(row) EXCEPT !.state = "published"] \in OutboxRows
           /\ [row EXCEPT !.attempted = TRUE] \in OutboxRows
           /\ [row EXCEPT !.lease = "expired"] \in OutboxRows
           /\ \A p \in Publishers : [row EXCEPT !.owner = p, !.lease = "live"] \in OutboxRows
<1>1. Unleased(row) \in OutboxRows
  <2>1. [row EXCEPT !.owner = NoPublisher] \in OutboxRows
    BY DEF OutboxRows
  <2>2. \A r \in OutboxRows : [r EXCEPT !.lease = "none"] \in OutboxRows
    BY DEF OutboxRows
  <2>3. QED BY <2>1, <2>2 DEF Unleased
<1>2. Dead(row) \in OutboxRows
  BY <1>1 DEF Dead, OutboxRows
<1>3. \A r \in OutboxRows, n \in Nat : Tried(r, n) \in OutboxRows
  BY DEF OutboxRows, Tried
<1>4. [Unleased(row) EXCEPT !.state = "published"] \in OutboxRows
  BY <1>1 DEF OutboxRows
<1>5. [row EXCEPT !.attempted = TRUE] \in OutboxRows /\ [row EXCEPT !.lease = "expired"] \in OutboxRows
  BY DEF OutboxRows
<1>6. \A p \in Publishers : [row EXCEPT !.owner = p, !.lease = "live"] \in OutboxRows
  <2>1. \A p \in Publishers : [row EXCEPT !.owner = p] \in OutboxRows
    BY DEF OutboxRows
  <2>2. \A r \in OutboxRows : [r EXCEPT !.lease = "live"] \in OutboxRows
    BY DEF OutboxRows
  <2>3. QED BY <2>1, <2>2
<1>7. QED BY <1>1, <1>2, <1>3, <1>4, <1>5, <1>6

LEMMA StatusEventTypes ==
    ASSUME NEW d \in Dispatches, NEW m \in StatusEvents(d)
    PROVE  /\ m \in StatusAcks /\ m.on = d
           /\ \A f \in Fixtures \ Covers(d) : m.report[f] = "none"
<1> DEFINE answers == {"succeeded", "failed", "timed_out", "lost"} \cup IF IsSet(d) THEN {} ELSE {"differs"}
           event(r, ok) == [on |-> d, valid |-> ok,
               report |-> [f \in Fixtures |-> IF f \in Covers(d) THEN r[f] ELSE "none"]]
<1>1. answers \subseteq Answers \cup {"lost"}
  BY DEF Answers
<1>2. \A ok \in BOOLEAN : \A r \in [Covers(d) -> answers] :
          /\ event(r, ok).report \in Reports /\ event(r, ok) \in StatusAcks /\ event(r, ok).on = d
          /\ \A f \in Fixtures \ Covers(d) : event(r, ok).report[f] = "none"
  <2> SUFFICES ASSUME NEW ok \in BOOLEAN, NEW r \in [Covers(d) -> answers]
               PROVE  /\ event(r, ok).report \in Reports /\ event(r, ok) \in StatusAcks /\ event(r, ok).on = d
                      /\ \A f \in Fixtures \ Covers(d) : event(r, ok).report[f] = "none"
    OBVIOUS
  <2>1. event(r, ok).report \in Reports
    BY <1>1 DEF Reports
  <2>2. QED BY <2>1 DEF StatusAcks
<1>3. [f \in Covers(d) |-> "failed"] \in [Covers(d) -> answers]
  OBVIOUS
<1>4. \E ok \in BOOLEAN : \E r \in [Covers(d) -> answers] : m = event(r, ok)
  BY <1>3 DEF StatusEvents
<1>5. QED BY <1>2, <1>4

(***************************************************************************)
(* The inductive invariant                                                 *)
(***************************************************************************)
Exists(d) == dispatch[d].status # "none"

\* The code of a row that says its dispatch was not delivered.
GivenUp(row) == \/ row.code = "DELIVERY_TIMEOUT"
                \/ row.status = "failed" /\ row.code \in PublishCodes

\* Rows: whatever the MQTT client had was marked as attempted before, and a row
\* that was given up was not. An open dispatch has heard nothing yet.
RowInv(d) ==
    /\ Exists(d) <=> outbox[d].state # "none"
    /\ d \in handed => outbox[d].attempted
    /\ outbox[d].attempted => Exists(d)
    /\ GivenUp(dispatch[d]) => ~outbox[d].attempted
    /\ ~Exists(d) => dispatch[d] = NoDispatch
    /\ Active(d) => dispatch[d].code = "none" /\ \A f \in Covers(d) : dispatch[d].results[f] = "pending"
    /\ \A f \in Fixtures \ Covers(d) : dispatch[d].results[f] = "none"

\* Publishers: each works on rows of its kind that exist, past the second
\* transaction on one marked as attempted, and inside the fence on an open Set.
WorkInv(p) ==
    /\ \A d \in publisher[p].batch : Serves(p, d) /\ Exists(d)
    /\ ~Idle(p) => /\ publisher[p].on \in Dispatches
                   /\ Serves(p, publisher[p].on) /\ Exists(publisher[p].on)
    /\ publisher[p].pc \in {"fence", "publishing", "sent", "finish"} => outbox[publisher[p].on].attempted
    /\ p \in SetPublishers /\ publisher[p].pc \in {"publishing", "sent"} => Active(publisher[p].on)

ChecksOf(c, n) == {d \in Checks : d.command = c /\ d.attempt = n}

\* A complete attempt that has read what the outcome says, with none after it.
Verified(c, n) ==
    /\ \A d \in Checks : d.command = c => ~Active(d)
    /\ VerificationOutcome(dispatch, ChecksOf(c, n), Targets[c]) = outcome[c]

\* Commands: the outcome follows the Set's row, and after that one attempt; the
\* attempts come whole and one after the other.
CommandInv(c) ==
    /\ outcome[c] = "none" <=> ~Exists(SetOf(c))
    /\ outcome[c] = "pending" <=> Active(SetOf(c))
    /\ \A d \in Checks : d.command = c /\ Exists(d) =>
          outcome[c] \notin {"none", "pending"} /\ Covers(d) # {}
    /\ \A d, e \in Checks :
          d.command = c /\ e.command = c /\ Exists(e) /\ Covers(d) # {} =>
             /\ d.attempt = e.attempt => Exists(d)
             /\ d.attempt < e.attempt => Exists(d) /\ ~Active(d)
    /\ outcome[c] = "unknown" => DimmingOutcome(dispatch[SetOf(c)], Targets[c]) = "unknown"
    /\ outcome[c] \in Definite =>
          \/ DimmingOutcome(dispatch[SetOf(c)], Targets[c]) = outcome[c]
          \/ /\ DimmingOutcome(dispatch[SetOf(c)], Targets[c]) = "unknown"
             /\ \E n \in 1..MaxChecks : Verified(c, n)

IInv ==
    /\ TypeOK
    /\ \A d \in Dispatches : RowInv(d)
    /\ \A p \in Publishers : WorkInv(p)
    /\ \A c \in Commands : CommandInv(c)

(***************************************************************************)
(* Types                                                                   *)
(***************************************************************************)
Places == {"idle", "attempt", "fence", "publishing", "sent", "finish", "failing"}
Errors == {"none", "retry", "admission"} \cup PublishCodes

LEMMA PublisherTypes ==
    ASSUME TypeOK, NEW p \in Publishers
    PROVE  /\ \A pc \in Places : Goto(p, pc) => publisher' \in [Publishers -> Work]
           /\ \A e \in Errors : Fail(p, e) => publisher' \in [Publishers -> Work]
           /\ Drop(p) => publisher' \in [Publishers -> Work]
           /\ \A d \in Dispatches, pc \in Places, e \in Errors :
                 Take(p, d, pc, e) => publisher' \in [Publishers -> Work]
           /\ \A S \in SUBSET Dispatches :
                 publisher' = [publisher EXCEPT ![p].batch = S] => publisher' \in [Publishers -> Work]
           /\ publisher' = [publisher EXCEPT ![p] = NoWork] => publisher' \in [Publishers -> Work]
<1>1. publisher \in [Publishers -> Work]
  BY DEF TypeOK
<1>2. \A pc \in Places : Goto(p, pc) => publisher' \in [Publishers -> Work]
  BY <1>1 DEF Goto, Work, Places
<1>3. \A P \in [Publishers -> Work] :
         /\ \A pc \in Places : [P EXCEPT ![p].pc = pc] \in [Publishers -> Work]
         /\ \A e \in Errors : [P EXCEPT ![p].error = e] \in [Publishers -> Work]
         /\ [P EXCEPT ![p].on = NoPublisher] \in [Publishers -> Work]
  BY DEF Work, Places, Errors
<1>4. "idle" \in Places /\ "failing" \in Places /\ "none" \in Errors
  BY DEF Places, Errors
<1>5. \A e \in Errors : Fail(p, e) => publisher' \in [Publishers -> Work]
  <2> SUFFICES ASSUME NEW e \in Errors, Fail(p, e) PROVE publisher' \in [Publishers -> Work]
    OBVIOUS
  <2>1. [publisher EXCEPT ![p].pc = "failing"] \in [Publishers -> Work]
    BY <1>1, <1>3, <1>4
  <2>2. publisher' = [[publisher EXCEPT ![p].pc = "failing"] EXCEPT ![p].error = e]
    BY DEF Fail
  <2>3. QED BY <1>3, <2>1, <2>2
<1>6. Drop(p) => publisher' \in [Publishers -> Work]
  <2> SUFFICES ASSUME Drop(p) PROVE publisher' \in [Publishers -> Work]
    OBVIOUS
  <2>1. [publisher EXCEPT ![p].pc = "idle"] \in [Publishers -> Work]
    BY <1>1, <1>3, <1>4
  <2>2. [[publisher EXCEPT ![p].pc = "idle"] EXCEPT ![p].on = NoPublisher] \in [Publishers -> Work]
    BY <1>3, <2>1
  <2>3. publisher' = [[[publisher EXCEPT ![p].pc = "idle"] EXCEPT ![p].on = NoPublisher] EXCEPT ![p].error = "none"]
    BY DEF Drop
  <2>4. QED BY <1>3, <1>4, <2>2, <2>3
<1>7. \A d \in Dispatches, pc \in Places, e \in Errors :
         [pc |-> pc, on |-> d, error |-> e, batch |-> publisher[p].batch \ {d}] \in Work
  BY <1>1 DEF Work, Places, Errors
<1>8. \A w \in Work : \A S \in SUBSET Dispatches : [w EXCEPT !.batch = S] \in Work
  BY DEF Work
<1>9. NoWork \in Work
  BY NewRowTypes
<1>10. QED BY <1>1, <1>2, <1>5, <1>6, <1>7, <1>8, <1>9 DEF Take

\* What a publisher works on, when it does.
LEMMA OnType ==
    ASSUME TypeOK, NEW p \in Publishers
    PROVE  /\ publisher[p].batch \subseteq Dispatches
           /\ publisher[p].on \in Dispatches \cup {NoPublisher}
           /\ publisher[p].error \in Errors /\ publisher[p].pc \in Places
  BY DEF TypeOK, Work, Errors, Places

LEMMA FaultType ==
    ASSUME TypeOK
    PROVE  faults < MaxFaults => faults + 1 \in 0..MaxFaults
  BY BoundAssumption DEF TypeOK

(***************************************************************************)
(* What a step leaves of the invariant                                     *)
(***************************************************************************)
\* No row vanishes, no attempt is forgotten, and a locked row stays open.
RowsGoOn ==
    \A d \in Dispatches :
        /\ Exists(d) => dispatch'[d].status # "none"
        /\ Exists(d) /\ outbox[d].attempted => outbox'[d].attempted
        /\ Active(d) /\ RowLocked(d) => dispatch'[d].status \in ActiveStatuses

\* Leases, counters and closed outbox rows do not matter.
OutboxKeeps(d) ==
    /\ outbox'[d].state = "none" <=> outbox[d].state = "none"
    /\ outbox'[d].attempted = outbox[d].attempted

RowUntouched(d) ==
    dispatch'[d] = dispatch[d] /\ OutboxKeeps(d) /\ (d \in handed' <=> d \in handed)

LEMMA RowKeeps ==
    ASSUME NEW d \in Dispatches, RowInv(d), RowUntouched(d)
    PROVE  RowInv(d)'
  BY DEF RowInv, RowUntouched, OutboxKeeps, Exists, Active, GivenUp

LEMMA RowsUntouchedGoOn ==
    ASSUME \A d \in Dispatches : RowUntouched(d)
    PROVE  RowsGoOn
  BY DEF RowUntouched, OutboxKeeps, RowsGoOn, Exists, Active

\* A publisher that works on, or returns to its batch.
LEMMA WorkMoves ==
    ASSUME TypeOK, NEW p \in Publishers, WorkInv(p), RowsGoOn,
           publisher'[p].batch \subseteq publisher[p].batch,
           \/ publisher'[p].pc = "idle"
           \/ ~Idle(p) /\ publisher'[p].on = publisher[p].on
           \/ publisher'[p].on \in publisher[p].batch,
           publisher'[p].pc \in {"fence", "publishing", "sent", "finish"} => outbox'[publisher'[p].on].attempted,
           p \in SetPublishers /\ publisher'[p].pc \in {"publishing", "sent"}
               => dispatch'[publisher'[p].on].status \in ActiveStatuses
    PROVE  WorkInv(p)'
<1>1. \A d \in publisher[p].batch : d \in Dispatches /\ Serves(p, d) /\ Exists(d)
  BY OnType DEF WorkInv
<1>2. \A d \in publisher'[p].batch : Serves(p, d) /\ dispatch'[d].status # "none"
  BY <1>1 DEF RowsGoOn
<1>3. publisher'[p].pc # "idle" => /\ publisher'[p].on \in Dispatches
                                   /\ Serves(p, publisher'[p].on)
                                   /\ dispatch'[publisher'[p].on].status # "none"
  BY <1>1 DEF WorkInv, RowsGoOn
<1>4. QED BY <1>2, <1>3 DEF WorkInv, Idle, Serves, IsSet, Exists, Active

LEMMA WorkKeeps ==
    ASSUME TypeOK, NEW p \in Publishers, WorkInv(p), RowsGoOn, publisher'[p] = publisher[p]
    PROVE  WorkInv(p)'
<1>1. CASE Idle(p)
  BY <1>1, WorkMoves DEF Idle
<1>2. CASE ~Idle(p)
  <2>1. publisher[p].on \in Dispatches /\ Exists(publisher[p].on)
    BY <1>2 DEF WorkInv
  <2>2. publisher[p].pc \in {"fence", "publishing", "sent", "finish"} => outbox'[publisher[p].on].attempted
    BY <2>1 DEF WorkInv, RowsGoOn
  <2>3. p \in SetPublishers /\ publisher[p].pc \in {"publishing", "sent"}
            => dispatch'[publisher[p].on].status \in ActiveStatuses
    BY <2>1 DEF WorkInv, RowsGoOn, RowLocked
  <2>4. QED BY <1>2, <2>2, <2>3, WorkMoves
<1>3. QED BY <1>1, <1>2

\* What a verification establishes depends on the results of its checks only.
LEMMA VerificationKeeps ==
    ASSUME NEW rows1, NEW rows2, NEW S, NEW fs,
           \A d \in S : \A f \in fs : rows1[d].results[f] = rows2[d].results[f]
    PROVE  VerificationOutcome(rows1, S, fs) = VerificationOutcome(rows2, S, fs)
<1>1. {f \in fs : \E d \in S : rows1[d].results[f] = "succeeded"}
          = {f \in fs : \E d \in S : rows2[d].results[f] = "succeeded"}
  OBVIOUS
<1>2. \A f \in fs : (\E d \in S : rows1[d].results[f] \in {"succeeded", "differs"})
                       <=> (\E d \in S : rows2[d].results[f] \in {"succeeded", "differs"})
  OBVIOUS
<1>3. QED BY <1>1, <1>2 DEF VerificationOutcome

LEMMA CommandKeeps ==
    ASSUME NEW c \in Commands, CommandInv(c), outcome'[c] = outcome[c],
           \A d \in Dispatches : d.command = c => dispatch'[d] = dispatch[d]
    PROVE  CommandInv(c)'
<1>1. dispatch'[SetOf(c)] = dispatch[SetOf(c)]
  BY DispatchKinds
<1>2. \A d \in Checks : d.command = c => dispatch'[d] = dispatch[d]
  BY DispatchKinds
<1>3. \A n \in 1..MaxChecks : Verified(c, n) => Verified(c, n)'
  <2> SUFFICES ASSUME NEW n \in 1..MaxChecks, Verified(c, n) PROVE Verified(c, n)'
    OBVIOUS
  <2>1. \A d \in ChecksOf(c, n) : dispatch'[d] = dispatch[d]
    BY <1>2 DEF ChecksOf
  <2>2. VerificationOutcome(dispatch', ChecksOf(c, n), Targets[c])
            = VerificationOutcome(dispatch, ChecksOf(c, n), Targets[c])
    BY <2>1, VerificationKeeps
  <2>3. ChecksOf(c, n)' = ChecksOf(c, n)
    BY DEF ChecksOf
  <2>4. QED BY <1>2, <2>2, <2>3 DEF Verified, Active
<1>4. QED BY <1>1, <1>2, <1>3 DEF CommandInv, Exists, Active

(***************************************************************************)
(* Steps of a publisher that change no row                                 *)
(***************************************************************************)
OthersStay(p) == \A q \in Publishers \ {p} : publisher'[q] = publisher[q]

LEMMA PublisherSteps ==
    ASSUME TypeOK, NEW p \in Publishers
    PROVE  /\ \A pc : Goto(p, pc) =>
                 /\ publisher'[p].pc = pc /\ publisher'[p].on = publisher[p].on
                 /\ publisher'[p].batch = publisher[p].batch /\ OthersStay(p)
           /\ \A e : Fail(p, e) =>
                 /\ publisher'[p].pc = "failing" /\ publisher'[p].on = publisher[p].on
                 /\ publisher'[p].batch = publisher[p].batch /\ OthersStay(p)
           /\ Drop(p) => /\ publisher'[p].pc = "idle" /\ publisher'[p].batch = publisher[p].batch
                         /\ OthersStay(p)
           /\ \A d, pc, e : Take(p, d, pc, e) =>
                 /\ publisher'[p].pc = pc /\ publisher'[p].on = d
                 /\ publisher'[p].batch = publisher[p].batch \ {d} /\ OthersStay(p)
<1>1. publisher \in [Publishers -> Work]
  BY DEF TypeOK
<1>2. QED BY <1>1 DEF Goto, Fail, Drop, Take, OthersStay, Work

\* The rows stay as they are, and p moves.
LEMMA PublisherMove ==
    ASSUME IInv, TypeOK', NEW p \in Publishers, UNCHANGED <<rowVars, outbox, handed>>, OthersStay(p),
           publisher'[p].batch \subseteq publisher[p].batch,
           \/ publisher'[p].pc = "idle"
           \/ ~Idle(p) /\ publisher'[p].on = publisher[p].on
           \/ publisher'[p].on \in publisher[p].batch,
           publisher'[p].pc \in {"fence", "publishing", "sent", "finish"} => outbox[publisher'[p].on].attempted,
           p \in SetPublishers /\ publisher'[p].pc \in {"publishing", "sent"} => Active(publisher'[p].on)
    PROVE  IInv'
<1>1. \A d \in Dispatches : RowUntouched(d)
  BY DEF RowUntouched, OutboxKeeps, rowVars
<1>2. \A d \in Dispatches : RowInv(d)'
  BY <1>1, RowKeeps DEF IInv
<1>3. RowsGoOn
  BY <1>1, RowsUntouchedGoOn
<1>4. WorkInv(p)'
  <2>1. TypeOK /\ WorkInv(p)
    BY DEF IInv
  <2>2. dispatch' = dispatch /\ outbox' = outbox
    BY DEF rowVars
  <2>3. QED BY <1>3, <2>1, <2>2, WorkMoves DEF Active
<1>5. \A q \in Publishers \ {p} : WorkInv(q)'
  BY <1>3, WorkKeeps DEF IInv, OthersStay
<1>6. \A c \in Commands : CommandInv(c)'
  BY CommandKeeps DEF IInv, rowVars
<1>7. QED BY <1>2, <1>4, <1>5, <1>6 DEF IInv

LEMMA QuietTypes ==
    ASSUME TypeOK, UNCHANGED <<rowVars, outbox, handed>>, publisher' \in [Publishers -> Work], OthersUnchanged
    PROVE  TypeOK'
  BY DEF TypeOK, rowVars, OthersUnchanged

LEMMA PrepareStep ==
    ASSUME IInv, NEW p \in Publishers, NEW d \in Dispatches, Prepare(p, d)
    PROVE  IInv'
<1> TypeOK /\ WorkInv(p)
  BY DEF IInv
<1>1. UNCHANGED <<rowVars, outbox, handed>> /\ OthersUnchanged /\ d \in publisher[p].batch
  BY DEF Prepare
<1>2. CASE \E pc \in {"failing", "attempt"}, e \in Errors : Take(p, d, pc, e)
  <2> PICK pc \in {"failing", "attempt"}, e \in Errors : Take(p, d, pc, e)
    BY <1>2
  <2>1. TypeOK'
    BY <1>1, QuietTypes, PublisherTypes DEF Places
  <2>2. QED BY <1>1, <2>1, PublisherSteps, PublisherMove
<1>3. CASE publisher' = [publisher EXCEPT ![p].batch = @ \ {d}]
  <2>1. publisher' = [publisher EXCEPT ![p].batch = publisher[p].batch \ {d}]
    BY <1>3
  <2>2. publisher[p].batch \ {d} \in SUBSET Dispatches
    BY OnType
  <2>3. TypeOK'
    BY <1>1, <2>1, <2>2, QuietTypes, PublisherTypes
  <2>4. publisher \in [Publishers -> Work] /\ Idle(p)
    BY DEF TypeOK, Prepare
  <2>5. /\ publisher'[p].pc = "idle" /\ publisher'[p].batch \subseteq publisher[p].batch
        /\ OthersStay(p)
    BY <2>1, <2>4 DEF OthersStay, Work, Idle
  <2>6. QED BY <1>1, <2>3, <2>5, PublisherMove
<1>4. {"MESH_GROUP_STALE", "retry", "none"} \subseteq Errors
  BY DEF Errors, PublishCodes
<1>5. QED BY <1>2, <1>3, <1>4 DEF Prepare

LEMMA FenceStep ==
    ASSUME IInv, NEW p \in Publishers, Fence(p)
    PROVE  IInv'
<1> TypeOK /\ WorkInv(p)
  BY DEF IInv
<1>1. UNCHANGED <<rowVars, outbox, handed>> /\ OthersUnchanged /\ At(p, "fence")
  BY DEF Fence
<1>2. CASE Publishable(p, publisher[p].on) /\ Goto(p, "publishing")
  <2>1. TypeOK'
    BY <1>1, <1>2, QuietTypes, PublisherTypes DEF Places
  <2>2. Active(publisher[p].on) /\ outbox[publisher[p].on].attempted /\ ~Idle(p)
    BY <1>1, <1>2 DEF Publishable, WorkInv, At, Idle
  <2>3. QED BY <1>1, <1>2, <2>1, <2>2, PublisherSteps, PublisherMove
<1>3. CASE Drop(p)
  <2>1. TypeOK'
    BY <1>1, <1>3, QuietTypes, PublisherTypes
  <2>2. QED BY <1>1, <1>3, <2>1, PublisherSteps, PublisherMove
<1>4. QED BY <1>2, <1>3 DEF Fence

\* A publisher that fails or goes on to the last transaction.
LEMMA FailStep ==
    ASSUME IInv, NEW p \in Publishers, UNCHANGED <<rowVars, outbox, handed>>, OthersUnchanged,
           \/ \E e \in Errors : ~Idle(p) /\ Fail(p, e)
           \/ \E d \in publisher[p].batch, e \in Errors : Take(p, d, "failing", e)
    PROVE  IInv'
<1> TypeOK
  BY DEF IInv
<1>1. CASE \E e \in Errors : ~Idle(p) /\ Fail(p, e)
  <2>1. TypeOK'
    BY <1>1, QuietTypes, PublisherTypes
  <2>2. QED BY <1>1, <2>1, PublisherSteps, PublisherMove
<1>2. CASE \E d \in publisher[p].batch, e \in Errors : Take(p, d, "failing", e)
  <2>1. TypeOK'
    BY <1>2, QuietTypes, PublisherTypes, OnType DEF Places
  <2>2. QED BY <1>2, <2>1, PublisherSteps, PublisherMove
<1>3. QED BY <1>1, <1>2

LEMMA FailureSteps ==
    ASSUME IInv, NEW p \in Publishers, WindowClosed(p) \/ PublishFails(p) \/ AdmissionRefused(p)
    PROVE  IInv'
<1>1. {"COMMAND_DELIVERY_EXPIRED", "retry", "admission"} \subseteq Errors
  BY DEF Errors, PublishCodes
<1>2. CASE WindowClosed(p)
  BY <1>1, <1>2, FailStep DEF WindowClosed, Idle, At
<1>3. CASE PublishFails(p)
  BY <1>1, <1>3, FailStep DEF PublishFails, Idle
<1>4. CASE AdmissionRefused(p)
  BY <1>1, <1>4, FailStep DEF AdmissionRefused, Idle
<1>5. QED BY <1>2, <1>3, <1>4

LEMMA PubackStep ==
    ASSUME IInv, NEW p \in Publishers, Puback(p)
    PROVE  IInv'
<1> TypeOK /\ WorkInv(p)
  BY DEF IInv
<1>1. TypeOK'
  BY QuietTypes, PublisherTypes DEF Puback, Places
<1>2. ~Idle(p) /\ outbox[publisher[p].on].attempted
  BY DEF Puback, WorkInv, At, Idle
<1>3. QED BY <1>1, <1>2, PublisherSteps, PublisherMove DEF Puback

LEMMA CrashStep ==
    ASSUME IInv, NEW p \in Publishers, Crash(p)
    PROVE  IInv'
<1> TypeOK
  BY DEF IInv
<1>1. publisher' \in [Publishers -> Work] /\ faults' \in 0..MaxFaults
  BY PublisherTypes, FaultType DEF Crash
<1>2. TypeOK'
  BY <1>1 DEF TypeOK, Crash, rowVars
<1>3. publisher'[p] = NoWork /\ OthersStay(p)
  BY DEF TypeOK, Crash, OthersStay
<1>4. publisher'[p].pc = "idle" /\ publisher'[p].batch = {}
  BY <1>3 DEF NoWork
<1>5. QED BY <1>2, <1>3, <1>4, PublisherMove DEF Crash

\* The worker looks, or a mesh group changes.
LEMMA BystanderStep ==
    ASSUME IInv, TypeOK', UNCHANGED <<rowVars, outbox, handed, publisher>>
    PROVE  IInv'
<1>1. \A d \in Dispatches : RowUntouched(d)
  BY DEF RowUntouched, OutboxKeeps, rowVars
<1>2. \A d \in Dispatches : RowInv(d)'
  BY <1>1, RowKeeps DEF IInv
<1>3. RowsGoOn
  BY <1>1, RowsUntouchedGoOn
<1>4. \A q \in Publishers : WorkInv(q)'
  BY <1>3, WorkKeeps DEF IInv
<1>5. \A c \in Commands : CommandInv(c)'
  BY CommandKeeps DEF IInv, rowVars
<1>6. QED BY <1>2, <1>4, <1>5 DEF IInv

LEMMA ScanExpiredStep ==
    ASSUME IInv, NEW S \in SUBSET Dispatches, ScanExpired(S)
    PROVE  IInv'
<1>1. TypeOK'
  BY DEF IInv, TypeOK, ScanExpired, rowVars, Active
<1>2. QED BY <1>1, BystanderStep DEF ScanExpired

LEMMA GroupChangeStep ==
    ASSUME IInv, NEW c \in Commands, GroupChange(c)
    PROVE  IInv'
<1>1. TypeOK'
  BY DEF IInv, TypeOK, GroupChange, rowVars
<1>2. QED BY <1>1, BystanderStep DEF GroupChange

(***************************************************************************)
(* Steps on the outbox                                                     *)
(***************************************************************************)
LEMMA OutboxMove ==
    ASSUME IInv, UNCHANGED <<rowVars, handed>>, \A d \in Dispatches : OutboxKeeps(d)
    PROVE  /\ \A d \in Dispatches : RowInv(d)'
           /\ RowsGoOn
           /\ \A c \in Commands : CommandInv(c)'
<1>1. \A d \in Dispatches : RowUntouched(d)
  BY DEF RowUntouched, rowVars
<1>2. \A d \in Dispatches : RowInv(d)'
  BY <1>1, RowKeeps DEF IInv
<1>3. \A c \in Commands : CommandInv(c)'
  BY CommandKeeps DEF IInv, rowVars
<1>4. QED BY <1>1, <1>2, <1>3, RowsUntouchedGoOn

LEMMA OutboxTypeMove ==
    ASSUME TypeOK, UNCHANGED <<rowVars, handed, group, scan, claimed>>,
           outbox' \in [Dispatches -> OutboxRows], publisher' \in [Publishers -> Work],
           faults' \in 0..MaxFaults
    PROVE  TypeOK'
  BY DEF TypeOK, rowVars

LEMMA ClaimBatchStep ==
    ASSUME IInv, NEW p \in Publishers, ClaimBatch(p)
    PROVE  IInv'
<1> TypeOK /\ WorkInv(p)
  BY DEF IInv
<1> USE DEF OthersUnchanged
<1>1. PICK S \in (SUBSET Claimable(p)) \ {{}} :
          /\ publisher' = [publisher EXCEPT ![p].batch = S]
          /\ outbox' = [d \in Dispatches |-> IF d \in S
                          THEN [outbox[d] EXCEPT !.owner = p, !.lease = "live"]
                          ELSE outbox[d]]
  BY DEF ClaimBatch
<1>2. \A d \in S : d \in Dispatches /\ Serves(p, d) /\ Active(d)
  BY DEF Claimable
<1>3. outbox' \in [Dispatches -> OutboxRows]
  BY <1>1, OutboxTypes DEF TypeOK
<1>4. publisher' \in [Publishers -> Work]
  BY <1>1, <1>2, PublisherTypes
<1>5. TypeOK'
  BY <1>3, <1>4, OutboxTypeMove DEF ClaimBatch, TypeOK
<1>6. \A d \in Dispatches : OutboxKeeps(d)
  <2> SUFFICES ASSUME NEW d \in Dispatches PROVE OutboxKeeps(d)
    OBVIOUS
  <2>1. outbox[d] \in OutboxRows
    BY DEF TypeOK
  <2>2. \A r \in OutboxRows : LET s == [r EXCEPT !.owner = p, !.lease = "live"]
                              IN s.state = r.state /\ s.attempted = r.attempted
    BY DEF OutboxRows
  <2>3. QED BY <1>1, <2>1, <2>2 DEF OutboxKeeps
<1>7. WorkInv(p)'
  <2>1. /\ publisher'[p].batch = S /\ publisher'[p].pc = "idle"
    <3>1. publisher \in [Publishers -> Work] /\ publisher[p].pc = "idle"
      BY DEF TypeOK, ClaimBatch, Idle
    <3>2. QED BY <1>1, <3>1 DEF Work
  <2>2. \A d \in S : Serves(p, d) /\ dispatch'[d].status # "none"
    BY <1>2 DEF Active, ActiveStatuses, ClaimBatch, rowVars
  <2>3. QED BY <2>1, <2>2 DEF WorkInv, Idle, Serves, IsSet, Exists
<1>8. \A q \in Publishers \ {p} : publisher'[q] = publisher[q]
  BY <1>1 DEF TypeOK
<1>9. QED BY <1>5, <1>6, <1>7, <1>8, OutboxMove, WorkKeeps DEF IInv, ClaimBatch

LEMMA ExpireSteps ==
    ASSUME IInv, NEW d \in Dispatches, LeaseExpires(d) \/ Stall(d)
    PROVE  IInv'
<1> TypeOK
  BY DEF IInv
<1>1. Expire(d) /\ faults' \in 0..MaxFaults
  BY FaultType DEF LeaseExpires, Stall, TypeOK
<1>2. [outbox[d] EXCEPT !.lease = "expired"] \in OutboxRows /\ outbox \in [Dispatches -> OutboxRows]
  BY OutboxTypes DEF TypeOK
<1>3. outbox' = [outbox EXCEPT ![d].lease = "expired"]
  BY <1>1 DEF Expire
<1>4. outbox' \in [Dispatches -> OutboxRows]
  BY <1>2, <1>3
<1>5. TypeOK'
  BY <1>1, <1>4, OutboxTypeMove DEF Expire, TypeOK
<1>6. \A e \in Dispatches : OutboxKeeps(e)
  BY <1>2, <1>3 DEF OutboxKeeps, OutboxRows
<1>7. QED BY <1>1, <1>5, <1>6, OutboxMove, WorkKeeps DEF IInv, Expire

LEMMA AttemptStep ==
    ASSUME IInv, NEW p \in Publishers, Attempt(p)
    PROVE  IInv'
<1> TypeOK /\ WorkInv(p)
  BY DEF IInv
<1> DEFINE d == publisher[p].on
<1>1. d \in Dispatches /\ Exists(d) /\ ~Idle(p)
  BY DEF Attempt, At, WorkInv, Idle
<1>2. CASE ~Publishable(p, d)
  <2>1. Drop(p) /\ UNCHANGED <<rowVars, outbox, handed>> /\ OthersUnchanged
    BY <1>2 DEF Attempt
  <2>2. TypeOK'
    BY <2>1, QuietTypes, PublisherTypes
  <2>3. QED BY <2>1, <2>2, PublisherSteps, PublisherMove
<1>3. CASE Publishable(p, d)
  <2>1. outbox \in [Dispatches -> OutboxRows] /\ [outbox[d] EXCEPT !.attempted = TRUE] \in OutboxRows
    BY <1>1, OutboxTypes DEF TypeOK
  <2>2. outbox' = [outbox EXCEPT ![d].attempted = TRUE]
    BY <1>3 DEF Attempt
  <2>3. outbox' \in [Dispatches -> OutboxRows]
    BY <2>1, <2>2
  <2>4. PICK pc \in {"fence", "publishing"} : Goto(p, pc) /\ (pc = "publishing" => ~IsSet(d))
    BY <1>3 DEF Attempt
  <2>5. TypeOK'
    BY <2>3, <2>4, PublisherTypes, OutboxTypeMove DEF Attempt, OthersUnchanged, TypeOK, Places
  <2>6. outbox'[d].attempted /\ outbox'[d].state = outbox[d].state
    BY <1>1, <2>1, <2>2 DEF OutboxRows
  <2>7. \A e \in Dispatches \ {d} : outbox'[e] = outbox[e]
    BY <2>1, <2>2
  <2>8. UNCHANGED <<rowVars, handed>>
    BY DEF Attempt
  <2>9. \A e \in Dispatches : RowInv(e)'
    <3>1. \A e \in Dispatches \ {d} : RowInv(e)'
      BY <2>7, <2>8, RowKeeps DEF IInv, RowUntouched, OutboxKeeps, rowVars
    <3>2. Active(d) /\ RowInv(d)
      BY <1>1, <1>3 DEF Publishable, IInv
    <3>3. ~GivenUp(dispatch[d])
      BY <3>2 DEF GivenUp, RowInv, Active, ActiveStatuses
    <3>4. \A e \in Dispatches : e = d => RowInv(e)'
      BY <1>1, <2>6, <2>8, <3>2, <3>3 DEF RowInv, Exists, Active, rowVars, GivenUp
    <3>5. QED BY <3>1, <3>4
  <2>10. RowsGoOn
    BY <2>6, <2>7, <2>8 DEF RowsGoOn, rowVars, Exists, Active
  <2>11. WorkInv(p)'
    <3>1. publisher'[p].pc = pc /\ publisher'[p].on = d /\ publisher'[p].batch = publisher[p].batch
      BY <2>4, PublisherSteps
    <3>2. p \in SetPublishers /\ pc = "publishing" => FALSE
      BY <1>1, <2>4 DEF WorkInv, Serves
    <3>3. QED BY <1>1, <2>6, <2>10, <3>1, <3>2, WorkMoves
  <2>12. \A q \in Publishers \ {p} : WorkInv(q)'
    BY <2>4, <2>10, PublisherSteps, WorkKeeps DEF IInv, OthersStay
  <2>13. \A c \in Commands : CommandInv(c)'
    BY <2>8, CommandKeeps DEF IInv, rowVars
  <2>14. QED BY <2>5, <2>9, <2>11, <2>12, <2>13 DEF IInv
<1>4. QED BY <1>2, <1>3

LEMMA EnqueueStep ==
    ASSUME IInv, NEW p \in Publishers, Enqueue(p)
    PROVE  IInv'
<1> TypeOK /\ WorkInv(p)
  BY DEF IInv
<1> DEFINE d == publisher[p].on
<1>1. d \in Dispatches /\ Exists(d) /\ ~Idle(p) /\ outbox[d].attempted
  BY DEF Enqueue, At, WorkInv, Idle
<1>2. UNCHANGED <<rowVars, outbox>> /\ OthersUnchanged /\ Goto(p, "sent") /\ handed' = handed \cup {d}
  BY DEF Enqueue
<1>3. TypeOK'
  <2>1. publisher' \in [Publishers -> Work]
    BY <1>2, PublisherTypes DEF Places
  <2>2. QED BY <1>1, <1>2, <2>1 DEF TypeOK, OthersUnchanged, rowVars
<1>4. \A e \in Dispatches : RowInv(e)'
  BY <1>1, <1>2 DEF IInv, RowInv, Exists, Active, rowVars, GivenUp
<1>5. RowsGoOn
  BY <1>2 DEF RowsGoOn, Exists, Active, rowVars
<1>6. WorkInv(p)'
  <2>1. publisher'[p].pc = "sent" /\ publisher'[p].on = d /\ publisher'[p].batch = publisher[p].batch
    BY <1>2, PublisherSteps
  <2>2. p \in SetPublishers => Active(d)
    BY DEF WorkInv, Enqueue, At
  <2>3. dispatch' = dispatch /\ outbox' = outbox
    BY <1>2 DEF rowVars
  <2>4. QED BY <1>1, <1>5, <2>1, <2>2, <2>3, WorkMoves DEF Active
<1>7. \A q \in Publishers \ {p} : WorkInv(q)'
  BY <1>2, <1>5, PublisherSteps, WorkKeeps DEF IInv, OthersStay
<1>8. \A c \in Commands : CommandInv(c)'
  BY <1>2, CommandKeeps DEF IInv, rowVars
<1>9. QED BY <1>3, <1>4, <1>6, <1>7, <1>8 DEF IInv

(***************************************************************************)
(* A row that changes                                                      *)
(***************************************************************************)
RowBecomes(d, row) == dispatch' = [dispatch EXCEPT ![d] = row]

\* What a row may become.
Sound(d, row) ==
    /\ row \in DispatchRows /\ row.status # "none"
    /\ GivenUp(row) => ~outbox[d].attempted
    /\ row.status \in ActiveStatuses =>
          row.code = "none" /\ \A f \in Covers(d) : row.results[f] = "pending"
    /\ \A f \in Fixtures \ Covers(d) : row.results[f] = "none"

LEMMA RowBecomesThat ==
    ASSUME TypeOK, NEW d \in Dispatches, NEW row \in DispatchRows, RowBecomes(d, row)
    PROVE  /\ dispatch'[d] = row
           /\ \A e \in Dispatches \ {d} : dispatch'[e] = dispatch[e]
           /\ dispatch' \in [Dispatches -> DispatchRows]
  BY DEF TypeOK, RowBecomes

LEMMA RowMove ==
    ASSUME IInv, NEW d \in Dispatches, NEW row, RowBecomes(d, row), Sound(d, row), Exists(d),
           row.status \in ActiveStatuses \/ ~RowLocked(d),
           handed' = handed, \A e \in Dispatches : OutboxKeeps(e)
    PROVE  /\ \A e \in Dispatches : RowInv(e)'
           /\ RowsGoOn
<1> TypeOK /\ row \in DispatchRows
  BY DEF IInv, Sound
<1>1. dispatch'[d] = row /\ \A e \in Dispatches \ {d} : dispatch'[e] = dispatch[e]
  BY RowBecomesThat
<1>2. \A e \in Dispatches \ {d} : RowInv(e)'
  BY <1>1, RowKeeps DEF IInv, RowUntouched
<1>3. RowInv(d)'
  BY <1>1 DEF IInv, RowInv, Sound, OutboxKeeps, Exists, Active, GivenUp, Covers, IsSet
<1>4. RowsGoOn
  BY <1>1 DEF RowsGoOn, Sound, OutboxKeeps, Exists, Active
<1>5. QED BY <1>2, <1>3, <1>4

\* Commands whose rows are other rows.
LEMMA OtherCommands ==
    ASSUME IInv, NEW d \in Dispatches, NEW row \in DispatchRows, RowBecomes(d, row),
           \A c \in Commands \ {d.command} : outcome'[c] = outcome[c]
    PROVE  \A c \in Commands \ {d.command} : CommandInv(c)'
<1> SUFFICES ASSUME NEW c \in Commands \ {d.command} PROVE CommandInv(c)'
  OBVIOUS
<1>1. \A e \in Dispatches : e.command = c => dispatch'[e] = dispatch[e]
  BY RowBecomesThat DEF IInv
<1>2. QED BY <1>1, CommandKeeps DEF IInv

\* The Set of a command stays open.
LEMMA SetOpen ==
    ASSUME IInv, NEW c \in Commands, NEW row \in DispatchRows, RowBecomes(SetOf(c), row),
           Active(SetOf(c)), row.status \in ActiveStatuses, outcome'[c] = outcome[c]
    PROVE  CommandInv(c)'
<1> TypeOK /\ CommandInv(c) /\ SetOf(c) \in Dispatches
  BY DispatchKinds DEF IInv
<1>1. dispatch'[SetOf(c)] = row /\ \A e \in Checks : dispatch'[e] = dispatch[e]
  BY RowBecomesThat, DispatchKinds
<1>2. outcome[c] = "pending"
  BY DEF CommandInv
<1>3. QED BY <1>1, <1>2 DEF CommandInv, Exists, Active, ActiveStatuses, Definite

\* The Set of a command is closed, and its row decides the outcome.
LEMMA SetSettled ==
    ASSUME IInv, NEW c \in Commands, NEW row \in DispatchRows, RowBecomes(SetOf(c), row),
           row.status \notin ActiveStatuses \cup {"none"}, Exists(SetOf(c)),
           outcome'[c] = DimmingOutcome(row, Targets[c])
    PROVE  CommandInv(c)'
<1> TypeOK /\ CommandInv(c) /\ SetOf(c) \in Dispatches
  BY DispatchKinds DEF IInv
<1>1. dispatch'[SetOf(c)] = row /\ \A e \in Checks : dispatch'[e] = dispatch[e]
  BY RowBecomesThat, DispatchKinds
<1>2. outcome'[c] \in Definite \cup {"unknown"}
  BY OutcomeTypes
<1>3. outcome'[c] \notin {"none", "pending"}
  BY <1>2 DEF Definite
<1>4. QED BY <1>1, <1>3 DEF CommandInv, Exists, Active

\* A check moves or is closed, and may decide an unknown outcome.
LEMMA CheckMoves ==
    ASSUME IInv, NEW d \in Checks, NEW row \in DispatchRows, RowBecomes(d, row),
           Active(d), row.status # "none",
           \/ outcome'[d.command] = outcome[d.command]
           \/ /\ outcome[d.command] = "unknown"
              /\ \A e \in ChecksOf(d.command, d.attempt) : dispatch'[e].status \notin ActiveStatuses
              /\ outcome'[d.command] =
                    VerificationOutcome(dispatch', ChecksOf(d.command, d.attempt), Targets[d.command])
    PROVE  CommandInv(d.command)'
<1> DEFINE c == d.command
<1> c \in Commands /\ d \in Dispatches /\ SetOf(c) \in Dispatches /\ d # SetOf(c)
  BY DispatchKinds
<1> TypeOK /\ CommandInv(c)
  BY DEF IInv
<1>1. dispatch'[d] = row /\ \A e \in Dispatches \ {d} : dispatch'[e] = dispatch[e]
  BY RowBecomesThat
<1>2. dispatch'[SetOf(c)] = dispatch[SetOf(c)] /\ Exists(d)
  BY <1>1 DEF Exists, Active, ActiveStatuses
<1>3. outcome[c] \notin {"none", "pending"} /\ outcome'[c] \notin {"none", "pending"}
  <2>1. outcome[c] \notin {"none", "pending"}
    BY <1>2 DEF CommandInv
  <2>2. VerificationOutcome(dispatch', ChecksOf(c, d.attempt), Targets[c]) \notin {"none", "pending"}
    BY OutcomeTypes DEF Definite
  <2>3. QED BY <2>1, <2>2
<1>4. \A e \in Checks : /\ dispatch'[e].status # "none" <=> Exists(e)
                        /\ ~Active(e) => dispatch'[e] = dispatch[e]
  BY <1>1, <1>2, DispatchKinds DEF Exists
<1>5. \A n \in 1..MaxChecks : ~Verified(c, n)
  BY DEF Verified
<1>6. d.attempt \in 1..MaxChecks
  BY DEF Checks
<1> DEFINE own == DimmingOutcome(dispatch[SetOf(c)], Targets[c])
           verified(n) == /\ \A e \in Checks : e.command = c => dispatch'[e].status \notin ActiveStatuses
                          /\ VerificationOutcome(dispatch', ChecksOf(c, n), Targets[c]) = outcome'[c]
<1>7. outcome'[c] = "unknown" => own = "unknown"
  BY DEF CommandInv
<1>8. outcome'[c] \in Definite => own = outcome'[c] \/ (own = "unknown" /\ \E n \in 1..MaxChecks : verified(n))
  <2>1. CASE outcome'[c] = outcome[c]
    BY <1>5, <2>1 DEF CommandInv
  <2>2. CASE /\ outcome[c] = "unknown"
             /\ \A e \in ChecksOf(c, d.attempt) : dispatch'[e].status \notin ActiveStatuses
             /\ outcome'[c] = VerificationOutcome(dispatch', ChecksOf(c, d.attempt), Targets[c])
    <3>1. \A e \in Checks : e.command = c /\ e.attempt # d.attempt => ~Active(e)
      <4> SUFFICES ASSUME NEW e \in Checks, e.command = c, e.attempt # d.attempt, Active(e)
                   PROVE  FALSE
        OBVIOUS
      <4>1. Exists(e) /\ Covers(e) # {} /\ Covers(d) # {}
        BY <1>2 DEF CommandInv, Exists, Active, ActiveStatuses
      <4>2. d.attempt < e.attempt \/ e.attempt < d.attempt
        BY DEF Checks
      <4>3. QED BY <1>2, <4>1, <4>2 DEF CommandInv
    <3>2. \A e \in Checks : e.command = c => dispatch'[e].status \notin ActiveStatuses
      BY <1>4, <2>2, <3>1 DEF ChecksOf, Active
    <3>3. QED BY <1>6, <2>2, <3>2 DEF CommandInv
  <2>3. QED BY <2>1, <2>2
<1> HIDE DEF c, own
<1>9. \A e \in Checks : e.command = c /\ dispatch'[e].status # "none" => Covers(e) # {}
  BY <1>4 DEF CommandInv
<1>10. \A x, e \in Checks :
          x.command = c /\ e.command = c /\ dispatch'[e].status # "none" /\ Covers(x) # {} =>
             /\ x.attempt = e.attempt => dispatch'[x].status # "none"
             /\ x.attempt < e.attempt => dispatch'[x].status # "none" /\ dispatch'[x].status \notin ActiveStatuses
  BY <1>4 DEF CommandInv, Active
<1>11. \A k \in Commands : k = c => CommandInv(k)'
  <2> SUFFICES ASSUME NEW k \in Commands, k = c PROVE CommandInv(k)'
    OBVIOUS
  <2>1. \A n \in 1..MaxChecks : verified(n) => Verified(k, n)'
    BY DEF Verified, ChecksOf, Active
  <2>2. DimmingOutcome(dispatch'[SetOf(k)], Targets[k]) = own
    BY <1>2 DEF own
  <2>3. outcome'[k] \in Definite =>
          \/ own = outcome'[k]
          \/ own = "unknown" /\ \E n \in 1..MaxChecks : Verified(k, n)'
    BY <1>8, <2>1
  <2>4. /\ outcome'[k] = "none" <=> dispatch'[SetOf(k)].status = "none"
        /\ outcome'[k] = "pending" <=> dispatch'[SetOf(k)].status \in ActiveStatuses
    BY <1>2, <1>3 DEF CommandInv, Exists, Active
  <2>5. QED BY <1>3, <1>7, <1>9, <1>10, <2>2, <2>3, <2>4 DEF CommandInv, Exists, Active, Covers, IsSet
<1>12. QED BY <1>11 DEF c

(***************************************************************************)
(* A row that is closed without a report                                   *)
(***************************************************************************)
\* What an open dispatch knows of its command.
LEMMA OpenRow ==
    ASSUME IInv, NEW d \in Dispatches, Active(d)
    PROVE  /\ d.command \in Commands /\ Exists(d) /\ dispatch[d] \in DispatchRows
           /\ \A f \in Covers(d) : dispatch[d].results[f] = "pending"
           /\ \A f \in Fixtures \ Covers(d) : dispatch[d].results[f] = "none"
           /\ IsSet(d) => d = SetOf(d.command) /\ outcome[d.command] = "pending"
           /\ ~IsSet(d) => d \in Checks
           /\ Covers(d) # {}
<1>1. Exists(d) /\ RowInv(d) /\ d.command \in Commands /\ dispatch[d] \in DispatchRows
  BY DispatchKinds DEF IInv, TypeOK, Exists, Active, ActiveStatuses
<1>2. IsSet(d) => d = SetOf(d.command) /\ outcome[d.command] = "pending" /\ Covers(d) # {}
  <2>1. Targets[d.command] # {}
    BY <1>1, TargetsType
  <2>2. IsSet(d) => d = SetOf(d.command)
    BY DispatchKinds
  <2>3. CommandInv(d.command)
    BY <1>1 DEF IInv
  <2>4. IsSet(d) => outcome[d.command] = "pending"
    BY <2>2, <2>3 DEF CommandInv
  <2>5. QED BY <2>1, <2>2, <2>4 DEF Covers
<1>3. ~IsSet(d) => d \in Checks /\ Covers(d) # {}
  BY <1>1, DispatchKinds DEF IInv, CommandInv
<1>4. QED BY <1>1, <1>2, <1>3 DEF RowInv

LEMMA ClosedRow ==
    ASSUME IInv, NEW d \in Dispatches, Active(d), NEW status \in {"failed", "timed_out"}, NEW code \in Codes
    PROVE  LET row == Closed(dispatch[d], status, code)
           IN /\ row \in DispatchRows /\ row.status = status /\ row.code = code
              /\ \A f \in Covers(d) : row.results[f] = status
              /\ \A f \in Fixtures \ Covers(d) : row.results[f] = "none"
              /\ DimmingOutcome(row, Covers(d)) = IF Inconclusive(row) THEN "unknown" ELSE "not_applied"
<1> DEFINE row == Closed(dispatch[d], status, code)
<1>1. row \in DispatchRows
  BY OpenRow, ClosedType
<1>2. row.status = status /\ row.code = code
  BY DEF Closed
<1>3. /\ \A f \in Covers(d) : row.results[f] = status
      /\ \A f \in Fixtures \ Covers(d) : row.results[f] = "none"
  BY OpenRow, CoversType DEF Closed
<1> HIDE DEF row
<1>4. Answered(row, Covers(d), {"succeeded"}) = {}
  BY <1>3 DEF Answered
<1>5. Covers(d) # {}
  BY OpenRow
<1>6. DimmingOutcome(row, Covers(d)) = IF Inconclusive(row) THEN "unknown" ELSE "not_applied"
  BY <1>4, <1>5 DEF DimmingOutcome, Tally
<1>7. QED BY <1>1, <1>2, <1>3, <1>6 DEF row

\* The publisher or the worker closes an open dispatch, its Set settles the command.
LEMMA CloseMove ==
    ASSUME IInv, NEW d \in Dispatches, Active(d), ~RowLocked(d),
           NEW status \in {"failed", "timed_out"}, NEW code \in Codes, NEW o,
           RowBecomes(d, Closed(dispatch[d], status, code)), SettlePending(d, o),
           o = IF Inconclusive(Closed(dispatch[d], status, code)) THEN "unknown" ELSE "not_applied",
           code = "DELIVERY_TIMEOUT" \/ (status = "failed" /\ code \in PublishCodes) => ~outbox[d].attempted,
           handed' = handed, \A e \in Dispatches : OutboxKeeps(e)
    PROVE  /\ \A e \in Dispatches : RowInv(e)'
           /\ RowsGoOn
           /\ \A c \in Commands : CommandInv(c)'
           /\ dispatch' \in [Dispatches -> DispatchRows] /\ outcome' \in [Commands -> Outcomes]
<1> DEFINE row == Closed(dispatch[d], status, code)
           c == d.command
<1> TypeOK /\ c \in Commands /\ outcome \in [Commands -> Outcomes]
  BY DispatchKinds DEF IInv, TypeOK, Outcomes
<1>1. /\ row \in DispatchRows /\ row.status = status /\ row.code = code
      /\ \A f \in Fixtures \ Covers(d) : row.results[f] = "none"
      /\ DimmingOutcome(row, Covers(d)) = o
  BY ClosedRow
<1> HIDE DEF row
<1>2. Sound(d, row)
  BY <1>1 DEF Sound, GivenUp, ActiveStatuses
<1>3. RowBecomes(d, row) /\ Exists(d)
  BY OpenRow DEF row
<1>4. (\A e \in Dispatches : RowInv(e)') /\ RowsGoOn
  BY <1>2, <1>3, RowMove
<1>5. o \in Outcomes
  BY DEF Outcomes, Definite
<1>6. outcome' \in [Commands -> Outcomes] /\ \A k \in Commands \ {c} : outcome'[k] = outcome[k]
  BY <1>5 DEF SettlePending
<1>7. \A k \in Commands \ {c} : CommandInv(k)'
  BY <1>1, <1>3, <1>6, OtherCommands
<1>8. CommandInv(c)'
  <2>1. CASE IsSet(d)
    <3>1. d = SetOf(c) /\ outcome'[c] = o /\ Covers(d) = Targets[c]
      BY <2>1, OpenRow DEF SettlePending, Covers
    <3>2. \A k \in Commands : k = c => CommandInv(k)'
      <4> SUFFICES ASSUME NEW k \in Commands, k = c PROVE CommandInv(k)'
        OBVIOUS
      <4>1. RowBecomes(SetOf(k), row) /\ Exists(SetOf(k)) /\ outcome'[k] = DimmingOutcome(row, Targets[k])
        BY <1>1, <1>3, <3>1
      <4>2. row.status \notin ActiveStatuses \cup {"none"}
        BY <1>1 DEF ActiveStatuses
      <4>3. QED BY <1>1, <4>1, <4>2, SetSettled
    <3>3. QED BY <3>2
  <2>2. CASE ~IsSet(d)
    <3>1. d \in Checks /\ outcome'[c] = outcome[c] /\ row.status # "none"
      BY <1>1, <2>2, OpenRow DEF SettlePending
    <3>2. QED BY <1>1, <1>3, <3>1, CheckMoves
  <2>3. QED BY <2>1, <2>2
<1>9. QED BY <1>1, <1>3, <1>4, <1>6, <1>7, <1>8, RowBecomesThat

\* What leaves the hands of a publisher keeps its attempt.
LEMMA OutboxLeaves ==
    ASSUME TypeOK, NEW d \in Dispatches, NEW row \in OutboxRows, outbox' = [outbox EXCEPT ![d] = row],
           row.attempted = outbox[d].attempted, row.state = "none" <=> outbox[d].state = "none"
    PROVE  (\A e \in Dispatches : OutboxKeeps(e)) /\ outbox' \in [Dispatches -> OutboxRows]
  BY DEF TypeOK, OutboxKeeps

LEMMA Leaving ==
    ASSUME NEW row \in OutboxRows
    PROVE  /\ Unleased(row).attempted = row.attempted /\ Unleased(row).state = row.state
           /\ Dead(row).attempted = row.attempted /\ Dead(row).state = "dead"
           /\ \A n \in Nat : LET r == Tried(Unleased(row), n)
                             IN r.attempted = row.attempted /\ r.state = row.state
           /\ LET r == Tried(Dead(row), 1)
              IN r.attempted = row.attempted /\ r.state = "dead"
           /\ LET r == [Unleased(row) EXCEPT !.state = "published"]
              IN r.attempted = row.attempted /\ r.state = "published"
<1>1. Unleased(row) \in OutboxRows /\ Dead(row) \in OutboxRows
  BY OutboxTypes
<1>2. Unleased(row).attempted = row.attempted /\ Unleased(row).state = row.state
  <2> DEFINE r == [row EXCEPT !.owner = NoPublisher]
  <2>1. r \in OutboxRows /\ r.attempted = row.attempted /\ r.state = row.state
    BY DEF OutboxRows
  <2> HIDE DEF r
  <2>2. [r EXCEPT !.lease = "none"].attempted = r.attempted /\ [r EXCEPT !.lease = "none"].state = r.state
    BY <2>1 DEF OutboxRows
  <2>3. QED BY <2>1, <2>2 DEF Unleased, r
<1>3. Dead(row).attempted = row.attempted /\ Dead(row).state = "dead"
  BY <1>1, <1>2 DEF Dead, OutboxRows
<1>4. QED BY <1>1, <1>2, <1>3 DEF OutboxRows, Tried

(***************************************************************************)
(* Requests                                                                *)
(***************************************************************************)
\* Rows are created for dispatches that do not exist yet.
LEMMA RowsCreated ==
    ASSUME IInv, NEW N \in SUBSET Dispatches, \A d \in N : ~Exists(d),
           dispatch' = [d \in Dispatches |-> IF d \in N THEN NewDispatch(d) ELSE dispatch[d]],
           outbox' = [d \in Dispatches |-> IF d \in N THEN NewOutbox ELSE outbox[d]],
           UNCHANGED <<publisher, group, scan, handed, claimed, faults>>,
           outcome' \in [Commands -> Outcomes]
    PROVE  /\ TypeOK' /\ (\A d \in Dispatches : RowInv(d)') /\ (\A p \in Publishers : WorkInv(p)')
<1> TypeOK
  BY DEF IInv
<1>1. TypeOK'
  BY NewRowTypes DEF TypeOK, Outcomes
<1>2. \A d \in Dispatches \ N : RowUntouched(d)
  BY DEF RowUntouched, OutboxKeeps
<1>3. \A d \in Dispatches \ N : RowInv(d)'
  BY <1>2, RowKeeps DEF IInv
<1>4. \A d \in N : RowInv(d)'
  <2> SUFFICES ASSUME NEW d \in N PROVE RowInv(d)'
    OBVIOUS
  <2>1. ~outbox[d].attempted /\ d \notin handed
    BY DEF IInv, RowInv
  <2>2. dispatch'[d] = NewDispatch(d) /\ outbox'[d] = NewOutbox
    OBVIOUS
  <2>3. NewOutbox.state = "open" /\ NewOutbox.attempted = FALSE
    BY DEF NewOutbox, NoOutbox
  <2>4. /\ NewDispatch(d).status = "pending" /\ NewDispatch(d).code = "none"
        /\ \A f \in Covers(d) : NewDispatch(d).results[f] = "pending"
        /\ \A f \in Fixtures \ Covers(d) : NewDispatch(d).results[f] = "none"
    BY CoversType DEF NewDispatch
  <2>5. ~GivenUp(NewDispatch(d))
    BY <2>4 DEF GivenUp
  <2>6. \A e \in Dispatches : e = d => RowInv(e)'
    BY <2>1, <2>2, <2>3, <2>4, <2>5 DEF RowInv, Exists, Active, Covers, IsSet, GivenUp
  <2>7. QED BY <2>6
<1>5. RowsGoOn
  BY <1>2 DEF RowsGoOn, RowUntouched, OutboxKeeps, Exists, Active, ActiveStatuses
<1>6. \A p \in Publishers : WorkInv(p)'
  BY <1>5, WorkKeeps DEF IInv
<1>7. QED BY <1>1, <1>3, <1>4, <1>6

LEMMA CreateStep ==
    ASSUME IInv, NEW c \in Commands, CreateDimmingCommand(c)
    PROVE  IInv'
<1> DEFINE s == SetOf(c)
<1> TypeOK /\ CommandInv(c) /\ s \in Dispatches
  BY DispatchKinds DEF IInv
<1>1. /\ outcome[c] = "none" /\ outcome' = [outcome EXCEPT ![c] = "pending"]
      /\ dispatch' = [dispatch EXCEPT ![s] = NewDispatch(s)]
      /\ outbox' = [outbox EXCEPT ![s] = NewOutbox]
      /\ UNCHANGED <<publisher, group, scan, handed, claimed, faults>>
  BY DEF CreateDimmingCommand
<1>2. ~Exists(s) /\ \A d \in Checks : d.command = c => ~Exists(d)
  BY <1>1 DEF CommandInv
<1>3. /\ dispatch' = [d \in Dispatches |-> IF d \in {s} THEN NewDispatch(d) ELSE dispatch[d]]
      /\ outbox' = [d \in Dispatches |-> IF d \in {s} THEN NewOutbox ELSE outbox[d]]
  BY <1>1 DEF TypeOK
<1>4. outcome' \in [Commands -> Outcomes]
  BY <1>1 DEF TypeOK, Outcomes
<1>5. TypeOK' /\ (\A d \in Dispatches : RowInv(d)') /\ (\A p \in Publishers : WorkInv(p)')
  <2>1. {s} \in SUBSET Dispatches /\ \A d \in {s} : ~Exists(d)
    BY <1>2
  <2>2. QED BY <1>1, <1>3, <1>4, <2>1, RowsCreated
<1>6. dispatch'[s].status = "pending" /\ \A d \in Checks : dispatch'[d] = dispatch[d]
  BY <1>3, DispatchKinds DEF NewDispatch
<1>7. \A k \in Commands \ {c} : CommandInv(k)'
  <2> SUFFICES ASSUME NEW k \in Commands \ {c} PROVE CommandInv(k)'
    OBVIOUS
  <2>1. outcome'[k] = outcome[k]
    BY <1>1 DEF TypeOK
  <2>2. \A d \in Dispatches : d.command = k => dispatch'[d] = dispatch[d]
    BY <1>3, DispatchKinds
  <2>3. CommandInv(k)
    BY DEF IInv
  <2>4. QED BY <2>1, <2>2, <2>3, CommandKeeps
<1>8. outcome'[c] = "pending"
  BY <1>1 DEF TypeOK
<1>9. CommandInv(c)'
  BY <1>2, <1>6, <1>8 DEF CommandInv, Exists, Active, ActiveStatuses, Definite
<1>10. QED BY <1>5, <1>7, <1>9 DEF IInv

LEMMA RequestStep ==
    ASSUME IInv, NEW c \in Commands, NEW n \in 1..MaxChecks, RequestStatusCheck(c, n)
    PROVE  IInv'
<1> DEFINE checks == {d \in Checks : d.command = c /\ dispatch[d].status # "none"}
           new == {d \in Checks : d.command = c /\ d.attempt = n /\ Covers(d) # {}}
<1> TypeOK /\ CommandInv(c) /\ n \in Nat
  BY DEF IInv
<1>1. /\ outcome[c] = "unknown" /\ UNCHANGED outcome
      /\ \A d \in checks : ~Active(d)
      /\ {d.attempt : d \in checks} = 1..(n - 1)
      /\ dispatch' = [d \in Dispatches |-> IF d \in new THEN NewDispatch(d) ELSE dispatch[d]]
      /\ outbox' = [d \in Dispatches |-> IF d \in new THEN NewOutbox ELSE outbox[d]]
      /\ UNCHANGED <<publisher, group, scan, handed, claimed, faults>>
  BY DEF RequestStatusCheck
<1>2. \A d \in Checks : d.command = c /\ Exists(d) => d.attempt < n /\ ~Active(d)
  <2> SUFFICES ASSUME NEW d \in Checks, d.command = c, Exists(d) PROVE d.attempt < n /\ ~Active(d)
    OBVIOUS
  <2>1. d \in checks
    BY DEF Exists
  <2>2. d.attempt \in 1..(n - 1)
    BY <1>1, <2>1
  <2>3. QED BY <1>1, <2>1, <2>2
<1>3. \A d \in Checks : d.command = c /\ d.attempt < n /\ Covers(d) # {} => Exists(d)
  <2> SUFFICES ASSUME NEW d \in Checks, d.command = c, d.attempt < n, Covers(d) # {} PROVE Exists(d)
    OBVIOUS
  <2>1. d.attempt \in 1..(n - 1)
    BY DEF Checks
  <2>2. PICK x \in checks : x.attempt = d.attempt
    BY <1>1, <2>1
  <2>3. QED BY <2>2 DEF CommandInv, Exists
<1>4. new \in SUBSET Dispatches /\ (\A d \in new : ~Exists(d)) /\ new \subseteq Checks
  BY <1>2, DispatchKinds
<1>5. outcome' \in [Commands -> Outcomes]
  BY <1>1 DEF TypeOK, Outcomes
<1> HIDE DEF checks
<1>6. TypeOK' /\ (\A d \in Dispatches : RowInv(d)') /\ (\A p \in Publishers : WorkInv(p)')
  BY <1>1, <1>4, <1>5, RowsCreated
<1>7. \A d \in Dispatches \ new : dispatch'[d] = dispatch[d]
  BY <1>1
<1>8. \A d \in new : dispatch'[d].status = "pending"
  BY <1>1, <1>4 DEF NewDispatch
<1>9. \A k \in Commands \ {c} : CommandInv(k)'
  <2> SUFFICES ASSUME NEW k \in Commands \ {c} PROVE CommandInv(k)'
    OBVIOUS
  <2>1. \A d \in Dispatches : d.command = k => dispatch'[d] = dispatch[d]
    BY <1>7
  <2>2. CommandInv(k) /\ outcome'[k] = outcome[k]
    BY <1>1 DEF IInv
  <2>3. QED BY <2>1, <2>2, CommandKeeps
<1>10. dispatch'[SetOf(c)] = dispatch[SetOf(c)] /\ outcome'[c] = "unknown"
  BY <1>1, <1>4, <1>7, DispatchKinds
<1>11. \A d \in Checks : d.command = c /\ dispatch'[d].status # "none" => Covers(d) # {} /\ d.attempt \in Nat
          /\ (Exists(d) \/ d.attempt = n)
  <2> SUFFICES ASSUME NEW d \in Checks, d.command = c, dispatch'[d].status # "none"
               PROVE  Covers(d) # {} /\ d.attempt \in Nat /\ (Exists(d) \/ d.attempt = n)
    OBVIOUS
  <2>1. d.attempt \in Nat
    BY DEF Checks
  <2>2. CASE d \in new
    BY <2>1, <2>2
  <2>3. CASE d \notin new
    BY <2>1, <2>3, <1>7, DispatchKinds DEF CommandInv, Exists
  <2>4. QED BY <2>2, <2>3
<1>12. \A d, e \in Checks :
          d.command = c /\ e.command = c /\ dispatch'[e].status # "none" /\ Covers(d) # {} =>
             /\ d.attempt = e.attempt => dispatch'[d].status # "none"
             /\ d.attempt < e.attempt => dispatch'[d].status # "none" /\ dispatch'[d].status \notin ActiveStatuses
  <2> SUFFICES ASSUME NEW d \in Checks, NEW e \in Checks, d.command = c, e.command = c,
                      dispatch'[e].status # "none", Covers(d) # {}
               PROVE  /\ d.attempt = e.attempt => dispatch'[d].status # "none"
                      /\ d.attempt < e.attempt =>
                            dispatch'[d].status # "none" /\ dispatch'[d].status \notin ActiveStatuses
    OBVIOUS
  <2>1. d.attempt \in Nat /\ e.attempt \in Nat /\ e.attempt <= n
    BY <1>2, <1>11 DEF Checks
  <2>2. CASE d.attempt = n
    BY <1>8, <2>1, <2>2
  <2>3. CASE d.attempt < n
    <3>1. Exists(d) /\ ~Active(d) /\ dispatch'[d] = dispatch[d]
      BY <1>2, <1>3, <1>7, <2>1, <2>3, DispatchKinds
    <3>2. QED BY <3>1 DEF Exists, Active
  <2>4. CASE d.attempt > n
    BY <2>1, <2>4
  <2>5. QED BY <2>1, <2>2, <2>3, <2>4
<1> HIDE DEF new
<1>13. CommandInv(c)'
  BY <1>1, <1>10, <1>11, <1>12 DEF CommandInv, Exists, Active, Definite, Covers, IsSet
<1>14. QED BY <1>6, <1>9, <1>13 DEF IInv

(***************************************************************************)
(* The last transactions of a publisher, and the timeout worker            *)
(***************************************************************************)
\* An open dispatch stays open.
LEMMA RowOpen ==
    ASSUME IInv, NEW d \in Dispatches, Active(d), NEW row \in DispatchRows, RowBecomes(d, row),
           row.status \in ActiveStatuses, outcome' = outcome
    PROVE  \A c \in Commands : CommandInv(c)'
<1> DEFINE c == d.command
<1>1. \A k \in Commands \ {c} : CommandInv(k)'
  BY OtherCommands
<1>2. CASE IsSet(d)
  <2>1. \A k \in Commands : k = c => CommandInv(k)'
    BY <1>2, DispatchKinds, SetOpen
  <2>2. QED BY <1>1, <2>1
<1>3. CASE ~IsSet(d)
  <2>1. d \in Checks /\ row.status # "none"
    BY <1>3, DispatchKinds DEF ActiveStatuses
  <2>2. CommandInv(d.command)'
    BY <2>1, CheckMoves
  <2>3. \A k \in Commands : k = c => CommandInv(k)'
    BY <2>2
  <2>4. QED BY <1>1, <2>3
<1>4. QED BY <1>2, <1>3

LEMMA DropWork ==
    ASSUME IInv, NEW p \in Publishers, Drop(p), RowsGoOn
    PROVE  (\A q \in Publishers : WorkInv(q)') /\ publisher' \in [Publishers -> Work]
<1> TypeOK /\ WorkInv(p)
  BY DEF IInv
<1>1. publisher'[p].pc = "idle" /\ publisher'[p].batch = publisher[p].batch /\ OthersStay(p)
  BY PublisherSteps
<1>2. WorkInv(p)'
  BY <1>1, WorkMoves
<1>3. \A q \in Publishers \ {p} : WorkInv(q)'
  BY <1>1, WorkKeeps DEF IInv, OthersStay
<1>4. QED BY <1>2, <1>3, PublisherTypes

LEMMA DropOnly ==
    ASSUME IInv, NEW p \in Publishers, Drop(p), UNCHANGED <<rowVars, outbox, handed>>, OthersUnchanged
    PROVE  IInv'
<1>1. TypeOK'
  BY QuietTypes, PublisherTypes DEF IInv
<1>2. QED BY <1>1, PublisherSteps, PublisherMove DEF IInv

LEMMA FinishStep ==
    ASSUME IInv, NEW p \in Publishers, Finish(p)
    PROVE  IInv'
<1> DEFINE d == publisher[p].on
           row == [dispatch[d] EXCEPT !.status = "published"]
           left == [Unleased(outbox[d]) EXCEPT !.state = "published"]
<1> TypeOK /\ WorkInv(p)
  BY DEF IInv
<1>1. d \in Dispatches /\ Exists(d)
  BY DEF Finish, At, WorkInv, Idle
<1>2. CASE ~Owned(p, d)
  <2>1. Drop(p) /\ UNCHANGED <<rowVars, outbox, handed>> /\ OthersUnchanged
    BY <1>2 DEF Finish, rowVars
  <2>2. QED BY <2>1, DropOnly
<1>3. CASE Owned(p, d)
  <2>1. /\ Drop(p) /\ outbox' = [outbox EXCEPT ![d] = left]
        /\ UNCHANGED <<outcome, handed>> /\ OthersUnchanged
    BY <1>3 DEF Finish
  <2>2. outbox[d] \in OutboxRows /\ outbox[d].state = "open"
    BY <1>1, <1>3 DEF TypeOK, Owned
  <2>3. left \in OutboxRows /\ left.attempted = outbox[d].attempted /\ left.state = "published"
    BY <2>2, OutboxTypes, Leaving
  <2> HIDE DEF left, d
  <2>4. (\A e \in Dispatches : OutboxKeeps(e)) /\ outbox' \in [Dispatches -> OutboxRows]
    BY <1>1, <2>1, <2>2, <2>3, OutboxLeaves
  <2>5. CASE dispatch[d].status = "pending"
    <3>1. RowBecomes(d, row) /\ dispatch[d] \in DispatchRows
      BY <1>1, <1>3, <2>5 DEF Finish, RowBecomes, TypeOK, d
    <3>2. row \in DispatchRows /\ row.status = "published" /\ row.code = dispatch[d].code
          /\ row.results = dispatch[d].results
      BY <3>1 DEF DispatchRows, ActiveStatuses
    <3>3. Active(d) /\ row.status \in ActiveStatuses
      BY <2>5, <3>2 DEF Active, ActiveStatuses
    <3> HIDE DEF row
    <3>4. row.code = "none" /\ (\A f \in Covers(d) : row.results[f] = "pending")
          /\ \A f \in Fixtures \ Covers(d) : row.results[f] = "none"
      BY <1>1, <3>2, <3>3 DEF IInv, RowInv
    <3>5. Sound(d, row)
      BY <3>2, <3>3, <3>4 DEF Sound, GivenUp
    <3>6. (\A e \in Dispatches : RowInv(e)') /\ RowsGoOn
      BY <1>1, <2>1, <2>4, <3>1, <3>3, <3>5, RowMove
    <3>7. \A c \in Commands : CommandInv(c)'
      BY <1>1, <2>1, <3>1, <3>2, <3>3, RowOpen
    <3>8. dispatch' \in [Dispatches -> DispatchRows]
      BY <1>1, <3>1, <3>2, RowBecomesThat
    <3>9. (\A q \in Publishers : WorkInv(q)') /\ publisher' \in [Publishers -> Work]
      BY <2>1, <3>6, DropWork
    <3>10. TypeOK'
      BY <2>1, <2>4, <3>8, <3>9 DEF TypeOK, OthersUnchanged
    <3>11. QED BY <3>6, <3>7, <3>9, <3>10 DEF IInv
  <2>6. CASE dispatch[d].status # "pending"
    <3>1. UNCHANGED <<rowVars, handed>>
      BY <1>3, <2>1, <2>6 DEF Finish, rowVars, d
    <3>2. (\A e \in Dispatches : RowInv(e)') /\ RowsGoOn /\ \A c \in Commands : CommandInv(c)'
      BY <2>4, <3>1, OutboxMove
    <3>3. (\A q \in Publishers : WorkInv(q)') /\ publisher' \in [Publishers -> Work]
      BY <2>1, <3>2, DropWork
    <3>4. TypeOK'
      BY <2>1, <2>4, <3>1, <3>3, OutboxTypeMove DEF TypeOK, OthersUnchanged
    <3>5. QED BY <3>2, <3>3, <3>4 DEF IInv
  <2>7. QED BY <2>5, <2>6
<1>4. QED BY <1>2, <1>3

\* The row goes out of the hands of p and nothing else happens.
LEMMA LeaveStep ==
    ASSUME IInv, NEW p \in Publishers, Drop(p), NEW d \in Dispatches, NEW row \in OutboxRows,
           outbox' = [outbox EXCEPT ![d] = row],
           row.attempted = outbox[d].attempted, row.state = "none" <=> outbox[d].state = "none",
           UNCHANGED <<rowVars, handed>>, OthersUnchanged
    PROVE  IInv'
<1> TypeOK
  BY DEF IInv
<1>1. (\A e \in Dispatches : OutboxKeeps(e)) /\ outbox' \in [Dispatches -> OutboxRows]
  BY OutboxLeaves
<1>2. (\A e \in Dispatches : RowInv(e)') /\ RowsGoOn /\ \A c \in Commands : CommandInv(c)'
  BY <1>1, OutboxMove
<1>3. (\A q \in Publishers : WorkInv(q)') /\ publisher' \in [Publishers -> Work]
  BY <1>2, DropWork
<1>4. TypeOK'
  BY <1>1, <1>3, OutboxTypeMove DEF TypeOK, OthersUnchanged
<1>5. QED BY <1>2, <1>3, <1>4 DEF IInv

LEMMA TerminalCodes ==
    ASSUME IInv, NEW d \in Dispatches, Active(d), NEW code \in PublishCodes
    PROVE  LET status == IF outbox[d].attempted THEN "timed_out" ELSE "failed"
           IN Lost(d) = IF Inconclusive(Closed(dispatch[d], status, code)) THEN "unknown" ELSE "not_applied"
<1> DEFINE status == IF outbox[d].attempted THEN "timed_out" ELSE "failed"
           row == Closed(dispatch[d], status, code)
<1>1. row.status = status /\ row.code = code
  BY DEF Closed
<1> HIDE DEF row
<1>2. code \notin TimeoutCodes \cup {AckMismatch}
  BY DEF PublishCodes, TimeoutCodes, AckMismatch
<1>3. Inconclusive(row) <=> outbox[d].attempted
  BY <1>1, <1>2 DEF Inconclusive
<1>4. QED BY <1>3 DEF Lost, row

LEMMA TerminalStep ==
    ASSUME IInv, NEW p \in Publishers, Drop(p), NEW d \in Dispatches, NEW code \in PublishCodes,
           TerminalFailure(p, d, code), UNCHANGED handed, OthersUnchanged
    PROVE  IInv'
<1> DEFINE left == Tried(Dead(outbox[d]), 1)
           status == IF outbox[d].attempted THEN "timed_out" ELSE "failed"
<1> TypeOK
  BY DEF IInv
<1>1. CASE ~Owned(p, d)
  BY <1>1, DropOnly DEF TerminalFailure
<1>2. CASE Owned(p, d)
  <2>1. outbox[d] \in OutboxRows /\ outbox[d].state = "open" /\ outbox' = [outbox EXCEPT ![d] = left] /\ ~RowLocked(d)
    BY <1>2 DEF TypeOK, Owned, TerminalFailure
  <2>2. left \in OutboxRows /\ left.attempted = outbox[d].attempted /\ left.state = "dead"
    BY <2>1, OutboxTypes, Leaving
  <2> HIDE DEF left
  <2>3. (\A e \in Dispatches : OutboxKeeps(e)) /\ outbox' \in [Dispatches -> OutboxRows]
    BY <2>1, <2>2, OutboxLeaves
  <2>4. CASE ~Active(d)
    <3>1. UNCHANGED <<rowVars, handed>>
      BY <1>2, <2>4 DEF TerminalFailure
    <3>2. QED BY <2>1, <2>2, <3>1, LeaveStep
  <2>5. CASE Active(d)
    <3>1. RowBecomes(d, Closed(dispatch[d], status, code)) /\ SettlePending(d, Lost(d))
      BY <1>2, <2>5 DEF TerminalFailure, RowBecomes
    <3>2. status \in {"failed", "timed_out"} /\ code \in Codes /\ code # "DELIVERY_TIMEOUT"
      BY DEF Codes, PublishCodes
    <3>3. status = "failed" => ~outbox[d].attempted
      OBVIOUS
    <3>4. Lost(d) = IF Inconclusive(Closed(dispatch[d], status, code)) THEN "unknown" ELSE "not_applied"
      BY <2>5, TerminalCodes
    <3> HIDE DEF status
    <3>5. /\ (\A e \in Dispatches : RowInv(e)') /\ RowsGoOn /\ \A c \in Commands : CommandInv(c)'
          /\ dispatch' \in [Dispatches -> DispatchRows] /\ outcome' \in [Commands -> Outcomes]
      BY <2>1, <2>3, <2>5, <3>1, <3>2, <3>3, <3>4, CloseMove
    <3>6. (\A q \in Publishers : WorkInv(q)') /\ publisher' \in [Publishers -> Work]
      BY <3>5, DropWork
    <3>7. TypeOK'
      BY <2>3, <3>5, <3>6 DEF TypeOK, OthersUnchanged, Outcomes
    <3>8. QED BY <3>5, <3>6, <3>7 DEF IInv
  <2>6. QED BY <2>4, <2>5
<1>3. QED BY <1>1, <1>2

LEMMA HandleErrorStep ==
    ASSUME IInv, NEW p \in Publishers, HandleError(p)
    PROVE  IInv'
<1> DEFINE d == publisher[p].on
<1> TypeOK /\ WorkInv(p)
  BY DEF IInv
<1>1. d \in Dispatches /\ Drop(p) /\ UNCHANGED handed /\ OthersUnchanged
  BY DEF HandleError, At, WorkInv, Idle
<1>2. CASE \E n \in {0, 1} : Release(p, d, n)
  <2> PICK n \in {0, 1} : Release(p, d, n)
    BY <1>2
  <2>1. UNCHANGED <<rowVars, handed>>
    BY <1>1 DEF Release
  <2>2. CASE ~Owned(p, d)
    BY <1>1, <2>1, <2>2, DropOnly DEF Release
  <2>3. CASE Owned(p, d)
    <3> DEFINE left == Tried(Unleased(outbox[d]), n)
    <3>1. outbox[d] \in OutboxRows /\ outbox' = [outbox EXCEPT ![d] = left] /\ n \in Nat
      BY <1>1, <2>3 DEF TypeOK, Release
    <3>2. left \in OutboxRows /\ left.attempted = outbox[d].attempted /\ left.state = outbox[d].state
      BY <3>1, OutboxTypes, Leaving
    <3> HIDE DEF left
    <3>3. QED BY <1>1, <2>1, <3>1, <3>2, LeaveStep
  <2>4. QED BY <2>2, <2>3
<1>3. CASE \E code \in PublishCodes : TerminalFailure(p, d, code)
  BY <1>1, <1>3, TerminalStep
<1>4. QED BY <1>2, <1>3 DEF HandleError, PublishCodes

LEMMA CloseExpiredStep ==
    ASSUME IInv, NEW d \in Dispatches, CloseExpired(d)
    PROVE  IInv'
<1> DEFINE code == TimeoutCode(d)
           o == IF scan[d] = "pending" THEN Lost(d) ELSE "unknown"
<1> TypeOK
  BY DEF IInv
<1>1. /\ scan[d] # "none" /\ ~RowLocked(d) /\ UNCHANGED <<publisher, group, handed, claimed, faults>>
      /\ scan' = [scan EXCEPT ![d] = "none"]
  BY DEF CloseExpired
<1>2. scan' \in [Dispatches -> ActiveStatuses \cup {"none"}]
  BY <1>1 DEF TypeOK
<1>3. CASE UNCHANGED <<rowVars, outbox>>
  <2>1. TypeOK'
    BY <1>1, <1>2, <1>3 DEF TypeOK, rowVars
  <2>2. QED BY <1>1, <1>3, <2>1, BystanderStep DEF rowVars
<1>4. CASE /\ dispatch[d].status = scan[d]
           /\ RowBecomes(d, Closed(dispatch[d], "timed_out", code))
           /\ SettlePending(d, o)
           /\ outbox' = IF scan[d] = "pending" THEN [outbox EXCEPT ![d] = Dead(@)] ELSE outbox
           /\ scan[d] = "pending" => outbox[d].state = "open"
  <2>1. Active(d)
    BY <1>1, <1>4 DEF TypeOK, Active
  <2>2. (\A e \in Dispatches : OutboxKeeps(e)) /\ outbox' \in [Dispatches -> OutboxRows]
    <3>1. CASE scan[d] = "pending"
      <4>1. outbox[d] \in OutboxRows /\ outbox' = [outbox EXCEPT ![d] = Dead(outbox[d])]
        BY <1>4, <3>1 DEF TypeOK
      <4>2. Dead(outbox[d]) \in OutboxRows /\ Dead(outbox[d]).attempted = outbox[d].attempted
            /\ Dead(outbox[d]).state = "dead"
        BY <4>1, OutboxTypes, Leaving
      <4>3. QED BY <1>4, <3>1, <4>1, <4>2, OutboxLeaves
    <3>2. CASE scan[d] # "pending"
      BY <1>4, <3>2 DEF OutboxKeeps, TypeOK
    <3>3. QED BY <3>1, <3>2
  <2>3. code \in {"DELIVERY_TIMEOUT", "ACCEPTANCE_TIMEOUT", "STATUS_TIMEOUT"}
    BY DEF TimeoutCode
  <2>4. code \in Codes
    BY <2>3 DEF Codes, TimeoutCodes
  <2>5. code = "DELIVERY_TIMEOUT" => ~outbox[d].attempted
    BY DEF TimeoutCode
  <2>6. o = IF Inconclusive(Closed(dispatch[d], "timed_out", code)) THEN "unknown" ELSE "not_applied"
    <3>1. Closed(dispatch[d], "timed_out", code).code = code
      BY DEF Closed
    <3>2. "DELIVERY_TIMEOUT" \notin TimeoutCodes \cup {AckMismatch} /\ code \notin PublishCodes
      BY <2>3 DEF TimeoutCodes, AckMismatch, PublishCodes
    <3>3. Inconclusive(Closed(dispatch[d], "timed_out", code)) <=> code \in TimeoutCodes
      BY <2>3, <3>1, <3>2 DEF Inconclusive, TimeoutCodes, AckMismatch
    <3>4. code \in TimeoutCodes <=> ~(scan[d] = "pending" /\ ~outbox[d].attempted)
      BY DEF TimeoutCode, TimeoutCodes
    <3>5. QED BY <3>3, <3>4 DEF Lost
  <2>7. RowBecomes(d, Closed(dispatch[d], "timed_out", code)) /\ SettlePending(d, o)
    BY <1>4
  <2> HIDE DEF code, o
  <2>8. /\ (\A e \in Dispatches : RowInv(e)') /\ RowsGoOn /\ \A c \in Commands : CommandInv(c)'
        /\ dispatch' \in [Dispatches -> DispatchRows] /\ outcome' \in [Commands -> Outcomes]
    BY <1>1, <2>1, <2>2, <2>4, <2>5, <2>6, <2>7, CloseMove
  <2>9. TypeOK'
    BY <1>1, <1>2, <2>2, <2>8 DEF TypeOK, Outcomes
  <2>10. \A q \in Publishers : WorkInv(q)'
    BY <1>1, <2>8, WorkKeeps DEF IInv
  <2>11. QED BY <2>8, <2>9, <2>10 DEF IInv
<1>5. QED BY <1>3, <1>4 DEF CloseExpired, RowBecomes

(***************************************************************************)
(* Gateway ACKs                                                            *)
(***************************************************************************)
LEMMA AcceptanceStep ==
    ASSUME IInv, NEW d \in Dispatches, StoreAcceptance(d)
    PROVE  IInv'
<1> DEFINE row == [dispatch[d] EXCEPT !.status = "accepted", !.code = "none"]
<1> TypeOK
  BY DEF IInv
<1>1. /\ Active(d) /\ UNCHANGED <<outcome, outbox, claimed>> /\ AcksUnchanged
      /\ dispatch' = [dispatch EXCEPT ![d].status = "accepted", ![d].code = "none"]
  BY DEF StoreAcceptance, Active, ActiveStatuses
<1>2. dispatch[d] \in DispatchRows /\ dispatch \in [Dispatches -> DispatchRows]
  BY DEF TypeOK
<1>3. RowBecomes(d, row)
  BY <1>1, <1>2 DEF RowBecomes, DispatchRows
<1>4. row \in DispatchRows /\ row.status = "accepted" /\ row.code = "none" /\ row.results = dispatch[d].results
  <2>1. [dispatch[d] EXCEPT !.status = "accepted"] \in DispatchRows
    BY <1>2 DEF DispatchRows, ActiveStatuses
  <2>2. \A r \in DispatchRows : [r EXCEPT !.code = "none"] \in DispatchRows
    BY DEF DispatchRows, Codes
  <2>3. row = [[dispatch[d] EXCEPT !.status = "accepted"] EXCEPT !.code = "none"]
    OBVIOUS
  <2>4. row \in DispatchRows
    BY <2>1, <2>2, <2>3
  <2>5. row.status = "accepted" /\ row.code = "none" /\ row.results = dispatch[d].results
    BY <1>2 DEF DispatchRows
  <2>6. QED BY <2>4, <2>5
<1> HIDE DEF row
<1>5. Sound(d, row) /\ row.status \in ActiveStatuses
  <2>1. RowInv(d)
    BY DEF IInv
  <2>2. (\A f \in Covers(d) : row.results[f] = "pending") /\ \A f \in Fixtures \ Covers(d) : row.results[f] = "none"
    BY <1>1, <1>4, <2>1 DEF RowInv
  <2>3. QED BY <1>4, <2>2 DEF Sound, GivenUp, ActiveStatuses
<1>6. \A e \in Dispatches : OutboxKeeps(e)
  BY <1>1 DEF OutboxKeeps
<1>7. Exists(d)
  BY <1>1 DEF Exists, Active, ActiveStatuses
<1>8. (\A e \in Dispatches : RowInv(e)') /\ RowsGoOn
  BY <1>1, <1>3, <1>5, <1>6, <1>7, RowMove DEF AcksUnchanged
<1>9. \A c \in Commands : CommandInv(c)'
  BY <1>1, <1>3, <1>4, <1>5, RowOpen
<1>10. \A p \in Publishers : WorkInv(p)'
  BY <1>1, <1>8, WorkKeeps DEF IInv, AcksUnchanged
<1>11. TypeOK'
  <2>1. dispatch' \in [Dispatches -> DispatchRows]
    BY <1>3, <1>4, RowBecomesThat
  <2>2. QED BY <1>1, <2>1 DEF TypeOK, AcksUnchanged
<1>12. QED BY <1>8, <1>9, <1>10, <1>11 DEF IInv

\* Rows that do not exist read nothing.
LEMMA AttemptIsWhole ==
    ASSUME NEW d \in Checks, NEW rows, NEW fs,
           \A e \in ChecksOf(d.command, d.attempt) : rows[e].status = "none" =>
               \A f \in fs : rows[e].results[f] = "none"
    PROVE  /\ AttemptOf(rows, d) \subseteq ChecksOf(d.command, d.attempt)
           /\ \A e \in ChecksOf(d.command, d.attempt) \ AttemptOf(rows, d) : rows[e].status = "none"
           /\ VerificationOutcome(rows, AttemptOf(rows, d), fs)
                 = VerificationOutcome(rows, ChecksOf(d.command, d.attempt), fs)
<1> DEFINE all == ChecksOf(d.command, d.attempt)
           some == AttemptOf(rows, d)
<1>1. some \subseteq all /\ \A e \in all \ some : rows[e].status = "none"
  BY DEF AttemptOf, ChecksOf
<1>2. \A e \in all \ some : \A f \in fs : rows[e].results[f] = "none"
  BY <1>1
<1> HIDE DEF all, some
<1>3. \A f \in fs : /\ (\E e \in all : rows[e].results[f] = "succeeded")
                          <=> \E e \in some : rows[e].results[f] = "succeeded"
                    /\ (\E e \in all : rows[e].results[f] \in {"succeeded", "differs"})
                          <=> \E e \in some : rows[e].results[f] \in {"succeeded", "differs"}
  <2> SUFFICES ASSUME NEW f \in fs
               PROVE  /\ (\E e \in all : rows[e].results[f] = "succeeded")
                            <=> \E e \in some : rows[e].results[f] = "succeeded"
                      /\ (\E e \in all : rows[e].results[f] \in {"succeeded", "differs"})
                            <=> \E e \in some : rows[e].results[f] \in {"succeeded", "differs"}
    OBVIOUS
  <2>1. \A e \in all \ some : rows[e].results[f] \notin {"succeeded", "differs"}
    BY <1>2
  <2>2. QED BY <1>1, <2>1
<1>4. {f \in fs : \E e \in all : rows[e].results[f] = "succeeded"}
          = {f \in fs : \E e \in some : rows[e].results[f] = "succeeded"}
  BY <1>3
<1>5. VerificationOutcome(rows, some, fs) = VerificationOutcome(rows, all, fs)
  BY <1>3, <1>4 DEF VerificationOutcome
<1>6. QED BY <1>1, <1>5 DEF all, some

\* A check that is closed by an ACK.
LEMMA FinishCheck ==
    ASSUME IInv, NEW d \in Checks, NEW row \in DispatchRows, RowBecomes(d, row),
           Active(d), row.status # "none", outcome'[d.command] = FinishParent(d, dispatch')
    PROVE  CommandInv(d.command)'
<1> DEFINE c == d.command
           all == ChecksOf(c, d.attempt)
           some == AttemptOf(dispatch', d)
<1> TypeOK /\ d \in Dispatches /\ ~IsSet(d) /\ c \in Commands /\ Targets[c] \subseteq Fixtures
  BY DispatchKinds, TargetsType DEF IInv
<1>1. dispatch'[d] = row /\ \A e \in Dispatches \ {d} : dispatch'[e] = dispatch[e]
  BY RowBecomesThat
<1>2. \A e \in Checks : dispatch'[e].status = "none" => dispatch'[e] = NoDispatch
  BY <1>1, DispatchKinds DEF IInv, RowInv, Exists
<1>3. \A f \in Fixtures : NoDispatch.results[f] = "none"
  BY DEF NoDispatch, NoResults
<1>4. all \subseteq Checks
  BY DEF ChecksOf
<1>5. \A e \in all : dispatch'[e].status = "none" => \A f \in Targets[c] : dispatch'[e].results[f] = "none"
  BY <1>2, <1>3, <1>4
<1>6. /\ some \subseteq all /\ \A e \in all \ some : dispatch'[e].status = "none"
      /\ VerificationOutcome(dispatch', some, Targets[c]) = VerificationOutcome(dispatch', all, Targets[c])
  <2>1. \A rows, fs :
           (\A e \in ChecksOf(d.command, d.attempt) : rows[e].status = "none" =>
               \A f \in fs : rows[e].results[f] = "none")
           => /\ AttemptOf(rows, d) \subseteq ChecksOf(d.command, d.attempt)
              /\ \A e \in ChecksOf(d.command, d.attempt) \ AttemptOf(rows, d) : rows[e].status = "none"
              /\ VerificationOutcome(rows, AttemptOf(rows, d), fs)
                    = VerificationOutcome(rows, ChecksOf(d.command, d.attempt), fs)
    BY AttemptIsWhole
  <2>2. QED BY <1>5, <2>1
<1>7. \/ outcome'[c] = outcome[c]
      \/ /\ outcome[c] = "unknown" /\ \A e \in some : dispatch'[e].status \notin ActiveStatuses
         /\ outcome'[c] = VerificationOutcome(dispatch', some, Targets[c])
  BY DEF FinishParent
<1>8. "none" \notin ActiveStatuses
  BY DEF ActiveStatuses
<1> HIDE DEF all, some
<1>9. \/ outcome'[c] = outcome[c]
      \/ /\ outcome[c] = "unknown" /\ \A e \in all : dispatch'[e].status \notin ActiveStatuses
         /\ outcome'[c] = VerificationOutcome(dispatch', all, Targets[c])
  BY <1>6, <1>7, <1>8
<1>10. QED BY <1>9, CheckMoves DEF all

LEMMA AckMove ==
    ASSUME IInv, NEW d \in Dispatches, IsSet(d) \/ Active(d), Exists(d), ~RowLocked(d),
           NEW row, RowBecomes(d, row), Sound(d, row), row.status \notin ActiveStatuses,
           outcome' = [outcome EXCEPT ![d.command] = FinishParent(d, dispatch')],
           \A e \in Dispatches : OutboxKeeps(e), UNCHANGED <<handed, publisher>>
    PROVE  /\ (\A e \in Dispatches : RowInv(e)') /\ (\A p \in Publishers : WorkInv(p)')
           /\ \A c \in Commands : CommandInv(c)'
           /\ dispatch' \in [Dispatches -> DispatchRows] /\ outcome' \in [Commands -> Outcomes]
<1> DEFINE c == d.command
<1> TypeOK /\ c \in Commands /\ row \in DispatchRows /\ row.status # "none"
  BY DispatchKinds DEF IInv, Sound
<1>1. (\A e \in Dispatches : RowInv(e)') /\ RowsGoOn
  BY RowMove
<1>2. \A p \in Publishers : WorkInv(p)'
  BY <1>1, WorkKeeps DEF IInv
<1>3. outcome \in [Commands -> Outcomes]
  BY DEF TypeOK, Outcomes
<1>4. FinishParent(d, dispatch') \in Outcomes
  BY <1>3, FinishParentType
<1>5. outcome' \in [Commands -> Outcomes] /\ outcome'[c] = FinishParent(d, dispatch')
      /\ \A k \in Commands \ {c} : outcome'[k] = outcome[k]
  BY <1>3, <1>4
<1>6. \A k \in Commands \ {c} : CommandInv(k)'
  BY <1>5, OtherCommands
<1>7. CASE IsSet(d)
  <2>1. dispatch'[d] = row
    BY RowBecomesThat
  <2>2. outcome'[c] = DimmingOutcome(row, Targets[c])
    BY <1>5, <1>7, <2>1 DEF FinishParent, Covers
  <2>3. \A k \in Commands : k = c => CommandInv(k)'
    <3> SUFFICES ASSUME NEW k \in Commands, k = c PROVE CommandInv(k)'
      OBVIOUS
    <3>1. d = SetOf(k)
      BY <1>7, DispatchKinds
    <3>2. RowBecomes(SetOf(k), row) /\ Exists(SetOf(k)) /\ outcome'[k] = DimmingOutcome(row, Targets[k])
      BY <2>2, <3>1
    <3>3. QED BY <3>2, SetSettled
  <2>4. QED BY <1>1, <1>2, <1>5, <1>6, <2>3, RowBecomesThat
<1>8. CASE ~IsSet(d)
  <2>1. d \in Checks /\ Active(d)
    BY <1>8, DispatchKinds
  <2>2. CommandInv(d.command)'
    BY <1>5, <2>1, FinishCheck
  <2>3. \A k \in Commands : k = c => CommandInv(k)'
    BY <2>2
  <2>4. QED BY <1>1, <1>2, <1>5, <1>6, <2>3, RowBecomesThat
<1>9. QED BY <1>7, <1>8

LEMMA RejectionStep ==
    ASSUME IInv, NEW d \in Dispatches, NEW code \in RefusalCodes, StoreRejection(d, code)
    PROVE  IInv'
<1> DEFINE row == Closed(dispatch[d], "failed", code)
<1> TypeOK
  BY DEF IInv
<1>1. /\ Active(d) /\ ~RowLocked(d) /\ RowBecomes(d, row) /\ UNCHANGED claimed /\ AcksUnchanged
      /\ outcome' = [outcome EXCEPT ![d.command] = FinishParent(d, dispatch')]
      /\ \/ outbox' = outbox
         \/ outbox[d].state = "open" /\ outbox' = [outbox EXCEPT ![d] = Dead(outbox[d])]
  BY DEF StoreRejection, Answerable, RowBecomes
<1>2. code \in Codes /\ code # "DELIVERY_TIMEOUT" /\ code \notin PublishCodes
  BY DEF RefusalCodes, Codes, ClockRefusal, PublishCodes
<1>3. /\ row \in DispatchRows /\ row.status = "failed" /\ row.code = code
      /\ \A f \in Fixtures \ Covers(d) : row.results[f] = "none"
  BY <1>1, <1>2, ClosedRow
<1> HIDE DEF row
<1>4. Sound(d, row) /\ row.status \notin ActiveStatuses
  BY <1>2, <1>3 DEF Sound, GivenUp, ActiveStatuses
<1>5. Exists(d)
  BY <1>1 DEF Exists, Active, ActiveStatuses
<1>6. (\A e \in Dispatches : OutboxKeeps(e)) /\ outbox' \in [Dispatches -> OutboxRows]
  <2>1. CASE outbox' = outbox
    BY <2>1 DEF OutboxKeeps, TypeOK
  <2>2. CASE outbox[d].state = "open" /\ outbox' = [outbox EXCEPT ![d] = Dead(outbox[d])]
    <3>1. outbox[d] \in OutboxRows
      BY DEF TypeOK
    <3>2. Dead(outbox[d]) \in OutboxRows /\ Dead(outbox[d]).attempted = outbox[d].attempted
          /\ Dead(outbox[d]).state = "dead"
      BY <3>1, OutboxTypes, Leaving
    <3>3. QED BY <2>2, <3>2, OutboxLeaves
  <2>3. QED BY <1>1, <2>1, <2>2
<1>7. /\ (\A e \in Dispatches : RowInv(e)') /\ (\A p \in Publishers : WorkInv(p)')
      /\ \A c \in Commands : CommandInv(c)'
      /\ dispatch' \in [Dispatches -> DispatchRows] /\ outcome' \in [Commands -> Outcomes]
  BY <1>1, <1>4, <1>5, <1>6, AckMove DEF AcksUnchanged
<1>8. TypeOK'
  BY <1>1, <1>6, <1>7 DEF TypeOK, AcksUnchanged, Outcomes
<1>9. QED BY <1>7, <1>8 DEF IInv

LEMMA ReportedRowType ==
    ASSUME NEW d \in Dispatches, NEW m \in StatusEvents(d)
    PROVE  LET row == ReportedRow(m)
           IN /\ row \in DispatchRows /\ row.status \in {"completed", "failed", "timed_out"}
              /\ row.code \in {AckMismatch, "STATUS_TIMEOUT", "none"}
              /\ \A f \in Fixtures \ Covers(d) : row.results[f] = "none"
<1> DEFINE row == ReportedRow(m)
           r == Normalized(m.report)
<1>1. m.on = d /\ m.report \in Reports /\ \A f \in Fixtures \ Covers(d) : m.report[f] = "none"
  BY StatusEventTypes DEF StatusAcks
<1>2. r \in Results /\ \A f \in Fixtures \ Covers(d) : r[f] = "none"
  BY <1>1 DEF Normalized, Reports, Results, Answers
<1>3. [f \in Fixtures |-> IF f \in Covers(d) THEN "failed" ELSE "none"] \in Results
  BY DEF Results, Answers
<1>4. {AckMismatch, "STATUS_TIMEOUT", "none"} \subseteq Codes
  BY DEF Codes, TimeoutCodes, AckMismatch
<1> HIDE DEF r
<1>5. CASE m.valid
  <2>1. /\ row.status = ReportStatus(r, Covers(d)) /\ row.results = r
        /\ row.code \in {"STATUS_TIMEOUT", "none"}
        /\ row = [status |-> row.status, code |-> row.code, results |-> row.results]
    BY <1>1, <1>5 DEF ReportedRow, r
  <2>2. row.status \in {"completed", "failed", "timed_out"}
    BY <2>1 DEF ReportStatus
  <2> HIDE DEF row
  <2>3. row \in DispatchRows
    BY <1>2, <1>4, <2>1, <2>2 DEF DispatchRows
  <2>4. QED BY <1>2, <2>1, <2>2, <2>3 DEF row
<1>6. CASE ~m.valid
  <2>1. /\ row = [status |-> "failed", code |-> AckMismatch,
                  results |-> [f \in Fixtures |-> IF f \in Covers(d) THEN "failed" ELSE "none"]]
    BY <1>1, <1>6 DEF ReportedRow
  <2> HIDE DEF row
  <2>2. row \in DispatchRows
    BY <1>3, <1>4, <2>1 DEF DispatchRows
  <2>3. \A f \in Fixtures \ Covers(d) : row.results[f] = "none"
    BY <2>1
  <2>4. QED BY <2>1, <2>2, <2>3 DEF row
<1>7. QED BY <1>5, <1>6

LEMMA StatusStep ==
    ASSUME IInv, NEW d \in Dispatches, NEW m \in StatusEvents(d), StoreStatus(m)
    PROVE  IInv'
<1> DEFINE row == ReportedRow(m)
<1> TypeOK
  BY DEF IInv
<1>1. m \in StatusAcks /\ m.on = d
  BY StatusEventTypes
<1>2. /\ UNCHANGED outbox /\ AcksUnchanged
      /\ \/ UNCHANGED rowVars
         \/ /\ RowBecomes(d, row)
            /\ outcome' = [outcome EXCEPT ![d.command] = FinishParent(d, dispatch')]
  BY <1>1 DEF StoreStatus, Answerable, RowBecomes
<1>3. claimed' = claimed \cup {m} /\ ~RowLocked(d) /\ (Active(d) \/ Reconcilable(d))
  BY <1>1 DEF StoreStatus, Answerable
<1>4. claimed' \in SUBSET StatusAcks
  BY <1>1, <1>3 DEF TypeOK
<1>5. CASE UNCHANGED rowVars
  <2>1. TypeOK'
    BY <1>2, <1>4, <1>5 DEF TypeOK, AcksUnchanged, rowVars
  <2>2. QED BY <1>2, <1>5, <2>1, BystanderStep DEF AcksUnchanged
<1>6. CASE /\ RowBecomes(d, row)
           /\ outcome' = [outcome EXCEPT ![d.command] = FinishParent(d, dispatch')]
  <2>1. /\ row \in DispatchRows /\ row.status \in {"completed", "failed", "timed_out"}
        /\ row.code \in {AckMismatch, "STATUS_TIMEOUT", "none"}
        /\ \A f \in Fixtures \ Covers(d) : row.results[f] = "none"
    BY ReportedRowType
  <2> HIDE DEF row
  <2>2. Sound(d, row) /\ row.status \notin ActiveStatuses
    BY <2>1 DEF Sound, GivenUp, ActiveStatuses, PublishCodes, AckMismatch
  <2>3. Exists(d) /\ (IsSet(d) \/ Active(d))
    BY <1>3 DEF Exists, Active, Reconcilable, ActiveStatuses
  <2>4. \A e \in Dispatches : OutboxKeeps(e)
    BY <1>2 DEF OutboxKeeps
  <2>5. /\ (\A e \in Dispatches : RowInv(e)') /\ (\A p \in Publishers : WorkInv(p)')
        /\ \A c \in Commands : CommandInv(c)'
        /\ dispatch' \in [Dispatches -> DispatchRows] /\ outcome' \in [Commands -> Outcomes]
    BY <1>2, <1>3, <1>6, <2>2, <2>3, <2>4, AckMove DEF AcksUnchanged
  <2>6. TypeOK'
    BY <1>2, <1>4, <2>5 DEF TypeOK, AcksUnchanged, Outcomes
  <2>7. QED BY <2>5, <2>6 DEF IInv
<1>7. QED BY <1>2, <1>5, <1>6

(***************************************************************************)
(* The invariant                                                           *)
(***************************************************************************)
LEMMA IInvInit == Init => IInv
<1> SUFFICES ASSUME Init PROVE IInv
  OBVIOUS
<1>1. TypeOK
  BY NewRowTypes, BoundAssumption DEF Init, TypeOK
<1>2. \A d \in Dispatches : RowInv(d)
  BY DEF Init, RowInv, Exists, Active, ActiveStatuses, GivenUp, NoDispatch, NoOutbox, NoResults, PublishCodes
<1>3. \A p \in Publishers : WorkInv(p)
  BY DEF Init, WorkInv, Idle, NoWork
<1>4. \A c \in Commands : CommandInv(c)
  <2>1. \A d \in Dispatches : ~Exists(d) /\ ~Active(d)
    BY DEF Init, NoDispatch, Exists, Active, ActiveStatuses
  <2>2. \A c \in Commands : outcome[c] = "none"
    BY DEF Init
  <2>3. QED BY <2>1, <2>2, DispatchKinds DEF CommandInv, Definite
<1>5. QED BY <1>1, <1>2, <1>3, <1>4 DEF IInv

LEMMA IncomingStatus == \A d \in Dispatches : Incoming(d) \subseteq StatusEvents(d)
  BY DEF Incoming

LEMMA IInvNext == IInv /\ [Next]_vars => IInv'
<1> SUFFICES ASSUME IInv, [Next]_vars PROVE IInv'
  OBVIOUS
<1>1. CASE UNCHANGED vars
  <2>1. TypeOK'
    BY <1>1 DEF IInv, TypeOK, vars, rowVars
  <2>2. QED BY <1>1, <2>1, BystanderStep DEF vars, rowVars
<1>2. CASE \E c \in Commands : CreateDimmingCommand(c) \/ GroupChange(c)
  BY <1>2, CreateStep, GroupChangeStep
<1>3. CASE \E c \in Commands, n \in 1..MaxChecks : RequestStatusCheck(c, n)
  BY <1>3, RequestStep
<1>4. CASE \E p \in Publishers : PublisherStep(p) \/ Crash(p)
  <2> PICK p \in Publishers : PublisherStep(p) \/ Crash(p)
    BY <1>4
  <2>1. CASE ClaimBatch(p) \/ Attempt(p) \/ Fence(p) \/ Enqueue(p) \/ Puback(p) \/ Crash(p)
    BY <2>1, ClaimBatchStep, AttemptStep, FenceStep, EnqueueStep, PubackStep, CrashStep
  <2>2. CASE WindowClosed(p) \/ PublishFails(p) \/ AdmissionRefused(p)
    BY <2>2, FailureSteps
  <2>3. CASE Finish(p) \/ HandleError(p)
    BY <2>3, FinishStep, HandleErrorStep
  <2>4. CASE \E d \in Dispatches : Prepare(p, d)
    BY <2>4, PrepareStep
  <2>5. QED BY <2>1, <2>2, <2>3, <2>4 DEF PublisherStep
<1>5. CASE \E S \in SUBSET Dispatches : ScanExpired(S)
  BY <1>5, ScanExpiredStep
<1>6. CASE \E d \in Dispatches :
          \/ CloseExpired(d) \/ LeaseExpires(d) \/ Stall(d)
          \/ StoreAcceptance(d)
          \/ \E code \in RefusalCodes : StoreRejection(d, code)
          \/ \E m \in Incoming(d) : StoreStatus(m)
  <2> PICK d \in Dispatches :
          \/ CloseExpired(d) \/ LeaseExpires(d) \/ Stall(d)
          \/ StoreAcceptance(d)
          \/ \E code \in RefusalCodes : StoreRejection(d, code)
          \/ \E m \in Incoming(d) : StoreStatus(m)
    BY <1>6
  <2>1. CASE CloseExpired(d) \/ LeaseExpires(d) \/ Stall(d)
    BY <2>1, CloseExpiredStep, ExpireSteps
  <2>2. CASE StoreAcceptance(d) \/ \E code \in RefusalCodes : StoreRejection(d, code)
    BY <2>2, AcceptanceStep, RejectionStep
  <2>3. CASE \E m \in Incoming(d) : StoreStatus(m)
    BY <2>3, IncomingStatus, StatusStep
  <2>4. QED BY <2>1, <2>2, <2>3
<1>7. QED BY <1>1, <1>2, <1>3, <1>4, <1>5, <1>6 DEF Next

THEOREM Invariance == Spec => []IInv
<1>1. IInv /\ [Next]_vars => IInv'
  BY IInvNext
<1> QED BY <1>1, IInvInit, PTL DEF Spec

(***************************************************************************)
(* Safety                                                                  *)
(***************************************************************************)
\* Whatever transactions, crashes and ACKs come, rows, leases and batches keep
\* their types, and a publisher works on dispatches that exist.
THEOREM TypeCorrect == Spec => []TypeOK
<1>1. IInv => TypeOK
  BY DEF IInv
<1> QED BY <1>1, Invariance, PTL

\* A Set that a publisher or the worker gave up as undelivered never was in the
\* MQTT client: moveToTerminalFailure and closeExpired read the persisted attempt.
THEOREM UndeliveredSetsAreUnsent == Spec => []UndeliveredIsUnsent
<1>1. IInv => UndeliveredIsUnsent
  BY DispatchKinds DEF IInv, RowInv, GivenUp, UndeliveredIsUnsent
<1> QED BY <1>1, Invariance, PTL

\* The attempts that requestStatusCheck creates come one after the other, each whole:
\* every chunk with a target has its dispatch. While one is under way the outcome is
\* what the Set's row says.
THEOREM ChecksComeInTurn == Spec => []AttemptsAreSequential
<1>1. IInv => AttemptsAreSequential
  <2> SUFFICES ASSUME IInv PROVE AttemptsAreSequential
    OBVIOUS
  <2>1. ASSUME NEW d \in Checks, NEW e \in Checks,
               d.command = e.command, d.attempt < e.attempt, dispatch[e].status # "none"
        PROVE  Covers(d) = {} \/ (dispatch[d].status # "none" /\ ~Active(d))
    <3>1. e.command \in Commands
      BY DispatchKinds
    <3>2. CommandInv(e.command)
      BY <3>1 DEF IInv
    <3>3. QED BY <2>1, <3>2 DEF CommandInv, Exists
  <2>2. ASSUME NEW d \in Checks, Active(d)
        PROVE  outcome[d.command] = DimmingOutcome(dispatch[SetOf(d.command)], Targets[d.command])
    <3> DEFINE c == d.command
    <3>1. c \in Commands
      BY DispatchKinds
    <3>2. CommandInv(c) /\ outcome[c] \in Definite \cup {"none", "pending", "unknown"}
      BY <3>1 DEF IInv, TypeOK
    <3>3. outcome[c] \notin {"none", "pending"}
      BY <2>2, <3>2 DEF CommandInv, Exists, Active, ActiveStatuses
    <3>4. \A n \in 1..MaxChecks : ~Verified(c, n)
      BY <2>2 DEF Verified
    <3>5. QED BY <3>2, <3>3, <3>4 DEF CommandInv
  <2>3. QED BY <2>1, <2>2 DEF AttemptsAreSequential
<1>2. QED BY <1>1, Invariance, PTL

\* The outcome of a command is what finishParentCommand finds in its rows: in
\* the Set's report or else in one complete verification attempt.
THEOREM OutcomeFollowsRows == Spec => []OutcomeExplained
<1>1. IInv => OutcomeExplained
  <2> SUFFICES ASSUME IInv, NEW c \in Commands
               PROVE  LET s == SetOf(c)
                          own == DimmingOutcome(dispatch[s], Targets[c])
                          attempt(n) == {d \in Checks : d.command = c /\ d.attempt = n}
                      IN /\ outcome[c] = "pending" <=> Active(s)
                         /\ outcome[c] = "unknown" => own = "unknown"
                         /\ outcome[c] \in Definite =>
                               \/ own = outcome[c]
                               \/ /\ own = "unknown"
                                  /\ \E n \in 1..MaxChecks :
                                        VerificationOutcome(dispatch, attempt(n), Targets[c]) = outcome[c]
    BY DEF OutcomeExplained
  <2>1. CommandInv(c)
    BY DEF IInv
  <2>2. QED BY <2>1 DEF CommandInv, Verified, ChecksOf
<1> QED BY <1>1, Invariance, PTL

(***************************************************************************)
(* Actions                                                                 *)
(***************************************************************************)
\* The row lock of publishLegacySetWithTerminalFence: whoever hands a Set to the
\* MQTT client finds its dispatch open and its command pending.
THEOREM FenceHolds == Spec => SetsAreFenced
<1>1. IInv => \A p \in SetPublishers : At(p, "publishing") =>
                  Active(publisher[p].on) /\ outcome[publisher[p].on.command] = "pending"
  <2> SUFFICES ASSUME IInv, NEW p \in SetPublishers, At(p, "publishing")
               PROVE  Active(publisher[p].on) /\ outcome[publisher[p].on.command] = "pending"
    OBVIOUS
  <2> DEFINE d == publisher[p].on
  <2>1. p \in Publishers /\ WorkInv(p)
    BY DEF IInv, Publishers
  <2>2. d \in Dispatches /\ IsSet(d) /\ Active(d)
    BY <2>1 DEF WorkInv, At, Idle, Serves
  <2>3. QED BY <2>2, OpenRow
<1>2. IInv /\ [Next]_vars => [\A p \in SetPublishers :
          At(p, "publishing") /\ publisher'[p].pc = "sent" =>
              /\ Active(publisher[p].on)
              /\ outcome[publisher[p].on.command] = "pending"]_vars
  BY <1>1
<1> QED BY <1>2, Invariance, PTL DEF Spec, SetsAreFenced

\* A definite outcome is not open: every step leaves it.
LEMMA DefiniteStays ==
    ASSUME IInv, [Next]_vars
    PROVE  \A c \in Commands : outcome[c] \in Definite => outcome'[c] = outcome[c]
<1> SUFFICES ASSUME NEW c \in Commands, outcome[c] \in Definite PROVE outcome'[c] = outcome[c]
  OBVIOUS
<1> outcome \in [Commands -> Outcomes] /\ outcome[c] \notin {"none", "pending", "unknown"}
  BY DEF IInv, TypeOK, Outcomes, Definite
<1>1. \A o : \A d \in Dispatches : SettlePending(d, o) => outcome'[c] = outcome[c]
  BY DEF SettlePending
<1>2. \A d \in Dispatches : Active(d) \/ Reconcilable(d) =>
          \A rows : d.command = c => FinishParent(d, rows) = outcome[c]
  <2> SUFFICES ASSUME NEW d \in Dispatches, Active(d) \/ Reconcilable(d), NEW rows, d.command = c
               PROVE  FinishParent(d, rows) = outcome[c]
    OBVIOUS
  <2>1. ~IsSet(d)
    BY OpenRow DEF Reconcilable
  <2>2. QED BY <2>1 DEF FinishParent
<1>3. \A d \in Dispatches : (Active(d) \/ Reconcilable(d)) /\
          outcome' = [outcome EXCEPT ![d.command] = FinishParent(d, dispatch')] => outcome'[c] = outcome[c]
  BY <1>2
<1>4. CASE UNCHANGED outcome
  BY <1>4
<1>5. CASE \E k \in Commands : CreateDimmingCommand(k)
  BY <1>5 DEF CreateDimmingCommand
<1>6. CASE \E p \in Publishers : HandleError(p)
  <2> PICK p \in Publishers : HandleError(p)
    BY <1>6
  <2>1. publisher[p].on \in Dispatches
    BY DEF HandleError, At, IInv, WorkInv, Idle
  <2>2. QED BY <1>1, <2>1 DEF HandleError, Release, TerminalFailure, rowVars
<1>7. CASE \E d \in Dispatches : CloseExpired(d)
  BY <1>1, <1>7 DEF CloseExpired, rowVars
<1>8. CASE \E d \in Dispatches, code \in RefusalCodes : StoreRejection(d, code)
  BY <1>3, <1>8 DEF StoreRejection
<1>9. CASE \E d \in Dispatches : \E m \in Incoming(d) : StoreStatus(m)
  <2> PICK d \in Dispatches : \E m \in Incoming(d) : StoreStatus(m)
    BY <1>9
  <2> PICK m \in Incoming(d) : StoreStatus(m)
    OBVIOUS
  <2>1. m.on = d
    BY IncomingStatus, StatusEventTypes
  <2>2. QED BY <1>3, <2>1 DEF StoreStatus, rowVars
<1>10. \/ UNCHANGED outcome
       \/ \E k \in Commands : CreateDimmingCommand(k)
       \/ \E p \in Publishers : HandleError(p)
       \/ \E d \in Dispatches : CloseExpired(d)
       \/ \E d \in Dispatches, code \in RefusalCodes : StoreRejection(d, code)
       \/ \E d \in Dispatches : \E m \in Incoming(d) : StoreStatus(m)
  BY DEF Next, vars, rowVars, PublisherStep, ClaimBatch, Attempt, Fence, Enqueue, WindowClosed, Puback,
         PublishFails, AdmissionRefused, Finish, Prepare, Crash, RequestStatusCheck, GroupChange,
         ScanExpired, LeaseExpires, Stall, Expire, StoreAcceptance
<1>11. QED BY <1>4, <1>5, <1>6, <1>7, <1>8, <1>9, <1>10

\* What is established stays: SettlePending asks for a pending command and
\* finishParentCommand for a pending or an unknown one.
THEOREM DefiniteOutcomesStay == Spec => DefiniteIsFinal
<1>1. IInv /\ [Next]_vars => [\A c \in Commands : outcome[c] \in Definite => outcome'[c] = outcome[c]]_vars
  BY DefiniteStays
<1> QED BY <1>1, Invariance, PTL DEF Spec, DefiniteIsFinal

(***************************************************************************)
(* Refinement                                                              *)
(***************************************************************************)
Sent == {c \in Commands : SetOf(c) \in handed}
Refused == {c \in Commands : dispatch[SetOf(c)].code \in RefusalCodes}

LEMMA ContractStutter ==
    ASSUME outcome' = outcome, Sent' = Sent, HeardOf' = HeardOf
    PROVE  UNCHANGED Contract!vars
  BY DEF Contract!vars, Sent

LEMMA ContractMoves ==
    ASSUME NEW c \in Commands
    PROVE  /\ outcome[c] = "none" /\ outcome' = [outcome EXCEPT ![c] = "pending"]
                /\ Sent' = Sent /\ HeardOf' = HeardOf => Contract!Next
           /\ outcome[c] = "pending" /\ outcome' = outcome
                /\ Sent' = Sent \cup {c} /\ HeardOf' = HeardOf => Contract!Next
           /\ outcome[c] = "pending" /\ c \notin Sent /\ outcome' = [outcome EXCEPT ![c] = "not_applied"]
                /\ Sent' = Sent /\ HeardOf' = HeardOf => Contract!Next
           /\ outcome[c] = "pending" /\ outcome' = [outcome EXCEPT ![c] = "unknown"]
                /\ Sent' = Sent /\ HeardOf' \in {HeardOf, HeardOf \cup {c}} => Contract!Next
           /\ \A o \in Definite :
                outcome[c] = "pending" /\ c \in Sent /\ outcome' = [outcome EXCEPT ![c] = o]
                /\ Sent' = Sent /\ HeardOf' = HeardOf \cup {c} => Contract!Next
           /\ \A o \in Definite :
                outcome[c] = "unknown" /\ outcome' = [outcome EXCEPT ![c] = o]
                /\ Sent' = Sent /\ HeardOf' = HeardOf \cup {c} => Contract!Next
           /\ outcome[c] # "none" /\ outcome' = outcome
                /\ Sent' = Sent /\ HeardOf' = HeardOf \cup {c} => Contract!Next
<1>1. outcome[c] = "none" /\ outcome' = [outcome EXCEPT ![c] = "pending"]
         /\ Sent' = Sent /\ HeardOf' = HeardOf => Contract!Next
  BY DEF Contract!Next, Contract!Create, Contract!Settle, Sent
<1>2. outcome[c] = "pending" /\ outcome' = outcome
         /\ Sent' = Sent \cup {c} /\ HeardOf' = HeardOf => Contract!Next
  BY DEF Contract!Next, Contract!Send, Sent
<1>3. outcome[c] = "pending" /\ c \notin Sent /\ outcome' = [outcome EXCEPT ![c] = "not_applied"]
         /\ Sent' = Sent /\ HeardOf' = HeardOf => Contract!Next
  BY DEF Contract!Next, Contract!Withdraw, Contract!Settle, Sent
<1>4. outcome[c] = "pending" /\ outcome' = [outcome EXCEPT ![c] = "unknown"]
         /\ Sent' = Sent /\ HeardOf' \in {HeardOf, HeardOf \cup {c}} => Contract!Next
  BY DEF Contract!Next, Contract!LoseTrack, Contract!Settle, Contract!Hear, Sent
<1>5. \A o \in Definite :
         outcome[c] = "pending" /\ c \in Sent /\ outcome' = [outcome EXCEPT ![c] = o]
         /\ Sent' = Sent /\ HeardOf' = HeardOf \cup {c} => Contract!Next
  BY DEF Contract!Next, Contract!Report, Contract!Settle, Contract!Hear, Sent, Definite, Contract!Definite
<1>6. \A o \in Definite :
         outcome[c] = "unknown" /\ outcome' = [outcome EXCEPT ![c] = o]
         /\ Sent' = Sent /\ HeardOf' = HeardOf \cup {c} => Contract!Next
  BY DEF Contract!Next, Contract!Resolve, Contract!Settle, Contract!Hear, Sent, Definite, Contract!Definite
<1>7. outcome[c] # "none" /\ outcome' = outcome
         /\ Sent' = Sent /\ HeardOf' = HeardOf \cup {c} => Contract!Next
  BY DEF Contract!Next, Contract!Note, Contract!Hear, Sent
<1>8. QED BY <1>1, <1>2, <1>3, <1>4, <1>5, <1>6, <1>7

\* Who has been heard of changes with the refusals and the consumed reports only.
LEMMA HeardKeeps ==
    ASSUME claimed' = claimed, Refused' = Refused
    PROVE  HeardOf' = HeardOf
<1>1. HeardOf = Refused \cup {c \in Commands : \E m \in claimed : m.on.command = c}
  BY DEF HeardOf, Refused
<1>2. HeardOf' = Refused' \cup {c \in Commands : \E m \in claimed' : m.on.command = c}
  BY DEF HeardOf, Refused
<1>3. QED BY <1>1, <1>2

LEMMA HeardGrows ==
    ASSUME NEW m \in StatusAcks, m.on.command \in Commands, claimed' = claimed \cup {m}, Refused' = Refused
    PROVE  HeardOf' = HeardOf \cup {m.on.command}
<1>1. HeardOf = Refused \cup {c \in Commands : \E x \in claimed : x.on.command = c}
  BY DEF HeardOf, Refused
<1>2. HeardOf' = Refused' \cup {c \in Commands : \E x \in claimed' : x.on.command = c}
  BY DEF HeardOf, Refused
<1>3. {c \in Commands : \E x \in claimed' : x.on.command = c}
         = {c \in Commands : \E x \in claimed : x.on.command = c} \cup {m.on.command}
  OBVIOUS
<1>4. QED BY <1>1, <1>2, <1>3

\* A row that changes without a refusal.
LEMMA RefusedKeeps ==
    ASSUME TypeOK, NEW d \in Dispatches, NEW row \in DispatchRows, RowBecomes(d, row),
           ~IsSet(d) \/ (row.code \notin RefusalCodes /\ dispatch[d].code \notin RefusalCodes)
    PROVE  Refused' = Refused
<1>1. dispatch'[d] = row /\ \A e \in Dispatches \ {d} : dispatch'[e] = dispatch[e]
  BY RowBecomesThat
<1>2. \A c \in Commands : dispatch'[SetOf(c)].code \in RefusalCodes <=> dispatch[SetOf(c)].code \in RefusalCodes
  <2> SUFFICES ASSUME NEW c \in Commands
               PROVE  dispatch'[SetOf(c)].code \in RefusalCodes <=> dispatch[SetOf(c)].code \in RefusalCodes
    OBVIOUS
  <2>1. CASE SetOf(c) = d
    BY <1>1, <2>1, DispatchKinds
  <2>2. CASE SetOf(c) # d
    BY <1>1, <2>2, DispatchKinds
  <2>3. QED BY <2>1, <2>2
<1>3. QED BY <1>2 DEF Refused

\* The codes that are no refusal.
LEMMA NoRefusals ==
    /\ "none" \notin RefusalCodes /\ "DELIVERY_TIMEOUT" \notin RefusalCodes /\ AckMismatch \notin RefusalCodes
    /\ TimeoutCodes \cap RefusalCodes = {} /\ PublishCodes \cap RefusalCodes = {}
  BY DEF RefusalCodes, ClockRefusal, TimeoutCodes, PublishCodes, AckMismatch

\* An open dispatch is given up, as lost or as undelivered.
LEMMA GiveUpRefines ==
    ASSUME IInv, NEW d \in Dispatches, Active(d), NEW row \in DispatchRows, RowBecomes(d, row),
           row.code \notin RefusalCodes, NEW o \in {"unknown", "not_applied"}, SettlePending(d, o),
           o = "not_applied" => ~outbox[d].attempted, UNCHANGED <<handed, claimed>>
    PROVE  Contract!Next \/ UNCHANGED Contract!vars
<1> DEFINE c == d.command
<1> TypeOK /\ c \in Commands /\ RowInv(d)
  BY DispatchKinds DEF IInv
<1>1. dispatch[d].code \notin RefusalCodes
  BY NoRefusals DEF RowInv
<1>2. HeardOf' = HeardOf /\ Sent' = Sent
  BY <1>1, RefusedKeeps, HeardKeeps DEF Sent
<1>3. CASE ~IsSet(d)
  BY <1>2, <1>3, ContractStutter DEF SettlePending
<1>4. CASE IsSet(d)
  <2>1. d = SetOf(c) /\ outcome[c] = "pending" /\ outcome' = [outcome EXCEPT ![c] = o]
    BY <1>4, OpenRow DEF SettlePending
  <2>2. o = "not_applied" => c \notin Sent
    BY <2>1 DEF RowInv, Sent
  <2>3. QED BY <1>2, <2>1, <2>2, ContractMoves
<1>5. QED BY <1>3, <1>4

LEMMA EnqueueRefines ==
    ASSUME IInv, NEW p \in Publishers, Enqueue(p)
    PROVE  Contract!Next \/ UNCHANGED Contract!vars
<1> DEFINE d == publisher[p].on
<1> TypeOK /\ WorkInv(p)
  BY DEF IInv
<1>1. d \in Dispatches /\ Serves(p, d) /\ UNCHANGED <<rowVars, claimed>> /\ handed' = handed \cup {d}
  BY DEF Enqueue, At, WorkInv, Idle, OthersUnchanged
<1>2. Refused' = Refused
  BY <1>1 DEF Refused, rowVars
<1>3. HeardOf' = HeardOf /\ outcome' = outcome
  BY <1>1, <1>2, HeardKeeps DEF rowVars
<1>4. CASE ~IsSet(d)
  <2>1. Sent' = Sent
    BY <1>1, <1>4, DispatchKinds DEF Sent
  <2>2. QED BY <1>3, <2>1, ContractStutter
<1>5. CASE IsSet(d)
  <2>1. p \in SetPublishers
    BY <1>1, <1>5 DEF Serves
  <2>2. Active(d)
    BY <2>1 DEF WorkInv, Enqueue, At
  <2>3. d = SetOf(d.command) /\ d.command \in Commands /\ outcome[d.command] = "pending"
    BY <1>1, <1>5, <2>2, OpenRow
  <2>4. \A c \in Commands : SetOf(c) = d => c = d.command
    BY DispatchKinds
  <2>5. Sent' = Sent \cup {d.command}
    BY <1>1, <2>3, <2>4 DEF Sent
  <2>6. QED BY <1>3, <2>3, <2>5, ContractMoves
<1>6. QED BY <1>4, <1>5

\* A status check that is refused has read nothing of its chunk.
LEMMA RefusedCheckReadsNothing ==
    ASSUME IInv, NEW d \in Checks, NEW code \in RefusalCodes, Active(d),
           RowBecomes(d, Closed(dispatch[d], "failed", code))
    PROVE  FinishParent(d, dispatch') = outcome[d.command]
<1> DEFINE row == Closed(dispatch[d], "failed", code)
           c == d.command
           some == AttemptOf(dispatch', d)
<1> d \in Dispatches /\ ~IsSet(d) /\ TypeOK
  BY DispatchKinds DEF IInv
<1>1. code \in Codes
  BY DEF Codes
<1>2. row \in DispatchRows /\ \A f \in Covers(d) : row.results[f] = "failed"
  BY <1>1, ClosedRow
<1> HIDE DEF row
<1>3. dispatch'[d] = row /\ \A e \in Dispatches \ {d} : dispatch'[e] = dispatch[e]
  BY <1>2, RowBecomesThat DEF row
<1>4. PICK f \in Covers(d) : TRUE
  BY OpenRow
<1>5. f \in Targets[c] /\ f \in Fixtures /\ ChunkOf[f] = d.chunk
  BY CoversType DEF Covers
<1>6. \A e \in some : dispatch'[e].results[f] \notin {"succeeded", "differs"}
  <2> SUFFICES ASSUME NEW e \in some PROVE dispatch'[e].results[f] \notin {"succeeded", "differs"}
    OBVIOUS
  <2>1. e \in Checks /\ e.command = d.command /\ e.attempt = d.attempt
    BY DEF AttemptOf
  <2>2. CASE e = d
    BY <1>2, <1>3, <2>2
  <2>3. CASE e # d
    <3>1. e.chunk # d.chunk
      BY <2>1, <2>3 DEF Checks
    <3>2. f \notin Covers(e)
      BY <1>5, <2>1, <3>1, DispatchKinds DEF Covers
    <3>3. RowInv(e) /\ dispatch'[e] = dispatch[e]
      BY <1>3, <2>1, <2>3, DispatchKinds DEF IInv
    <3>4. QED BY <1>5, <3>2, <3>3 DEF RowInv
  <2>4. QED BY <2>2, <2>3
<1> HIDE DEF some
<1>7. VerificationOutcome(dispatch', some, Targets[c]) = "unknown"
  BY <1>5, <1>6 DEF VerificationOutcome
<1>8. QED BY <1>7 DEF FinishParent, some

LEMMA RejectionRefines ==
    ASSUME IInv, NEW d \in Dispatches, NEW code \in RefusalCodes, StoreRejection(d, code)
    PROVE  Contract!Next \/ UNCHANGED Contract!vars
<1> DEFINE row == Closed(dispatch[d], "failed", code)
           c == d.command
<1> TypeOK /\ c \in Commands /\ outcome \in [Commands -> Outcomes]
  BY DispatchKinds DEF IInv, TypeOK, Outcomes
<1>1. /\ Active(d) /\ d \in handed /\ RowBecomes(d, row) /\ UNCHANGED <<claimed, handed>>
      /\ outcome' = [outcome EXCEPT ![c] = FinishParent(d, dispatch')]
  BY DEF StoreRejection, Answerable, RowBecomes, AcksUnchanged
<1>2. code \in Codes /\ code \notin TimeoutCodes \cup {AckMismatch} \cup PublishCodes
  BY NoRefusals DEF Codes
<1>3. /\ row \in DispatchRows /\ row.code = code /\ row.status = "failed"
      /\ DimmingOutcome(row, Covers(d)) = IF Inconclusive(row) THEN "unknown" ELSE "not_applied"
  BY <1>1, <1>2, ClosedRow
<1>4. Sent' = Sent
  BY <1>1 DEF Sent
<1>5. CASE ~IsSet(d)
  <2>1. outcome' = outcome
    BY <1>1, <1>5, DispatchKinds, RefusedCheckReadsNothing
  <2>2. HeardOf' = HeardOf
    BY <1>1, <1>3, <1>5, RefusedKeeps, HeardKeeps
  <2>3. QED BY <1>4, <2>1, <2>2, ContractStutter
<1>6. CASE IsSet(d)
  <2> HIDE DEF row
  <2>1. d = SetOf(c) /\ outcome[c] = "pending" /\ c \in Sent
    BY <1>1, <1>6, OpenRow DEF Sent
  <2>2. dispatch'[d] = row /\ \A e \in Dispatches \ {d} : dispatch'[e] = dispatch[e]
    BY <1>1, <1>3, RowBecomesThat
  <2>3. FinishParent(d, dispatch') = "not_applied"
    BY <1>2, <1>3, <1>6, <2>2 DEF FinishParent, Inconclusive, ActiveStatuses
  <2>4. Refused' = Refused \cup {c}
    <3>1. \A k \in Commands \ {c} : dispatch'[SetOf(k)] = dispatch[SetOf(k)]
      BY <2>1, <2>2, DispatchKinds
    <3>2. dispatch'[SetOf(c)].code \in RefusalCodes
      BY <1>3, <2>1, <2>2
    <3>3. QED BY <3>1, <3>2 DEF Refused
  <2>5. HeardOf' = HeardOf \cup {c}
    <3>1. HeardOf = Refused \cup {k \in Commands : \E m \in claimed : m.on.command = k}
      BY DEF HeardOf, Refused
    <3>2. HeardOf' = Refused' \cup {k \in Commands : \E m \in claimed' : m.on.command = k}
      BY DEF HeardOf, Refused
    <3>3. QED BY <1>1, <2>4, <3>1, <3>2
  <2>6. "not_applied" \in Definite
    BY DEF Definite
  <2>7. QED BY <1>1, <1>4, <2>1, <2>3, <2>5, <2>6, ContractMoves
<1>7. QED BY <1>5, <1>6

LEMMA StatusRefines ==
    ASSUME IInv, NEW d \in Dispatches, NEW m \in StatusEvents(d), StoreStatus(m)
    PROVE  Contract!Next \/ UNCHANGED Contract!vars
<1> DEFINE row == ReportedRow(m)
           c == d.command
<1> TypeOK /\ c \in Commands /\ RowInv(d) /\ CommandInv(c) /\ outcome \in [Commands -> Outcomes]
  BY DispatchKinds DEF IInv, TypeOK, Outcomes
<1>1. m \in StatusAcks /\ m.on = d
  BY StatusEventTypes
<1>2. /\ d \in handed /\ (Active(d) \/ Reconcilable(d)) /\ claimed' = claimed \cup {m} /\ handed' = handed
      /\ \/ UNCHANGED rowVars
         \/ RowBecomes(d, row) /\ outcome' = [outcome EXCEPT ![c] = FinishParent(d, dispatch')]
  BY <1>1 DEF StoreStatus, Answerable, RowBecomes, AcksUnchanged
<1>3. row \in DispatchRows /\ row.code \notin RefusalCodes /\ row.status \notin ActiveStatuses
  BY ReportedRowType, NoRefusals DEF TimeoutCodes, ActiveStatuses
<1> HIDE DEF row
<1>4. dispatch[d].code \notin RefusalCodes
  BY <1>2, NoRefusals DEF RowInv, Reconcilable
<1>5. Refused' = Refused
  <2>1. CASE UNCHANGED rowVars
    BY <2>1 DEF Refused, rowVars
  <2>2. QED BY <1>2, <1>3, <1>4, <2>1, RefusedKeeps
<1>6. HeardOf' = HeardOf \cup {c} /\ Sent' = Sent
  BY <1>1, <1>2, <1>5, HeardGrows DEF Sent
<1>7. IsSet(d) => d = SetOf(c) /\ c \in Sent
  BY <1>2, DispatchKinds DEF Sent
<1>8. \/ IsSet(d) /\ outcome[c] \in {"pending", "unknown"}
      \/ ~IsSet(d) /\ outcome[c] \notin {"none", "pending"}
  <2>1. CASE IsSet(d)
    BY <1>2, <2>1, OpenRow DEF Reconcilable
  <2>2. CASE ~IsSet(d)
    <3>1. d \in Checks /\ Exists(d)
      BY <1>2, <2>2, DispatchKinds DEF Reconcilable, Active, Exists, ActiveStatuses
    <3>2. QED BY <2>2, <3>1 DEF CommandInv
  <2>3. QED BY <2>1, <2>2
<1>9. CASE UNCHANGED rowVars
  BY <1>6, <1>8, <1>9, ContractMoves DEF rowVars
<1>10. CASE RowBecomes(d, row) /\ outcome' = [outcome EXCEPT ![c] = FinishParent(d, dispatch')]
  <2> DEFINE o == FinishParent(d, dispatch')
  <2>1. dispatch'[d] = row
    BY <1>3, <1>10, RowBecomesThat
  <2>2. CASE IsSet(d)
    <3>1. o \in Definite \cup {"unknown"}
      BY <1>3, <2>1, <2>2, OutcomeTypes DEF FinishParent
    <3> HIDE DEF o
    <3>2. outcome' = [outcome EXCEPT ![c] = o]
      BY <1>10 DEF o
    <3>3. CASE outcome[c] = "pending"
      BY <1>6, <1>7, <2>2, <3>1, <3>2, <3>3, ContractMoves
    <3>4. CASE outcome[c] = "unknown"
      <4>1. CASE o = "unknown"
        <5>1. outcome' = outcome
          BY <3>2, <3>4, <4>1
        <5>2. QED BY <1>6, <3>4, <5>1, ContractMoves
      <4>2. CASE o \in Definite
        BY <1>6, <3>2, <3>4, <4>2, ContractMoves
      <4>3. QED BY <3>1, <4>1, <4>2
    <3>5. QED BY <1>8, <2>2, <3>3, <3>4
  <2>3. CASE ~IsSet(d)
    <3>1. o = outcome[c] \/ (outcome[c] = "unknown" /\ o \in Definite \cup {"unknown"})
      BY <2>3, OutcomeTypes DEF FinishParent
    <3> HIDE DEF o
    <3>2. outcome' = [outcome EXCEPT ![c] = o]
      BY <1>10 DEF o
    <3>3. CASE o = outcome[c]
      <4>1. outcome' = outcome /\ outcome[c] # "none"
        BY <1>8, <2>3, <3>2, <3>3
      <4>2. QED BY <1>6, <4>1, ContractMoves
    <3>4. CASE outcome[c] = "unknown" /\ o \in Definite
      BY <1>6, <3>2, <3>4, ContractMoves
    <3>5. QED BY <3>1, <3>3, <3>4
  <2>4. QED BY <2>2, <2>3
<1>11. QED BY <1>2, <1>9, <1>10

LEMMA HandleErrorRefines ==
    ASSUME IInv, NEW p \in Publishers, HandleError(p)
    PROVE  Contract!Next \/ UNCHANGED Contract!vars
<1> DEFINE d == publisher[p].on
           status == IF outbox[d].attempted THEN "timed_out" ELSE "failed"
<1> TypeOK
  BY DEF IInv
<1>1. d \in Dispatches /\ UNCHANGED <<handed, claimed>>
  BY DEF HandleError, At, IInv, WorkInv, Idle, OthersUnchanged
<1>2. CASE UNCHANGED rowVars
  <2>1. Refused' = Refused /\ Sent' = Sent /\ outcome' = outcome
    BY <1>1, <1>2 DEF Refused, Sent, rowVars
  <2>2. QED BY <1>1, <2>1, HeardKeeps, ContractStutter
<1>3. CASE \E code \in PublishCodes : /\ Active(d) /\ RowBecomes(d, Closed(dispatch[d], status, code))
                                      /\ SettlePending(d, Lost(d))
  <2> PICK code \in PublishCodes : /\ Active(d) /\ RowBecomes(d, Closed(dispatch[d], status, code))
                                   /\ SettlePending(d, Lost(d))
    BY <1>3
  <2>1. code \in Codes /\ code \notin RefusalCodes /\ status \in {"failed", "timed_out"}
    BY NoRefusals DEF Codes
  <2>2. Lost(d) \in {"unknown", "not_applied"} /\ (Lost(d) = "not_applied" => ~outbox[d].attempted)
    BY DEF Lost
  <2> HIDE DEF d, status
  <2>3. Closed(dispatch[d], status, code) \in DispatchRows /\ Closed(dispatch[d], status, code).code = code
    BY <1>1, <2>1, ClosedRow
  <2>4. QED BY <1>1, <2>1, <2>2, <2>3, GiveUpRefines
<1>4. \/ UNCHANGED rowVars
      \/ \E code \in PublishCodes : /\ Active(d) /\ RowBecomes(d, Closed(dispatch[d], status, code))
                                    /\ SettlePending(d, Lost(d))
  BY DEF HandleError, Release, TerminalFailure, RowBecomes, PublishCodes
<1>5. QED BY <1>2, <1>3, <1>4

LEMMA CloseExpiredRefines ==
    ASSUME IInv, NEW d \in Dispatches, CloseExpired(d)
    PROVE  Contract!Next \/ UNCHANGED Contract!vars
<1> DEFINE code == TimeoutCode(d)
           o == IF scan[d] = "pending" THEN Lost(d) ELSE "unknown"
<1> TypeOK
  BY DEF IInv
<1>1. UNCHANGED <<handed, claimed>> /\ scan[d] # "none"
  BY DEF CloseExpired
<1>2. CASE UNCHANGED rowVars
  <2>1. Refused' = Refused /\ Sent' = Sent /\ outcome' = outcome
    BY <1>1, <1>2 DEF Refused, Sent, rowVars
  <2>2. QED BY <1>1, <2>1, HeardKeeps, ContractStutter
<1>3. CASE /\ dispatch[d].status = scan[d]
           /\ RowBecomes(d, Closed(dispatch[d], "timed_out", code))
           /\ SettlePending(d, o)
  <2>1. Active(d)
    BY <1>1, <1>3 DEF TypeOK, Active
  <2>2. code \in TimeoutCodes \cup {"DELIVERY_TIMEOUT"}
    BY DEF TimeoutCode, TimeoutCodes
  <2>3. code \in Codes /\ code \notin RefusalCodes
    BY <2>2, NoRefusals DEF Codes
  <2>4. o \in {"unknown", "not_applied"} /\ (o = "not_applied" => ~outbox[d].attempted)
    BY DEF Lost
  <2> HIDE DEF code, o
  <2>5. /\ Closed(dispatch[d], "timed_out", code) \in DispatchRows
        /\ Closed(dispatch[d], "timed_out", code).code = code
    BY <2>1, <2>3, ClosedRow
  <2>6. QED BY <1>1, <1>3, <2>1, <2>3, <2>4, <2>5, GiveUpRefines
<1>4. QED BY <1>2, <1>3 DEF CloseExpired, RowBecomes, rowVars

LEMMA CreateRefines ==
    ASSUME IInv, NEW c \in Commands, CreateDimmingCommand(c)
    PROVE  Contract!Next
<1> DEFINE s == SetOf(c)
<1> TypeOK /\ s \in Dispatches /\ CommandInv(c) /\ RowInv(s)
  BY DispatchKinds DEF IInv
<1>1. /\ outcome[c] = "none" /\ outcome' = [outcome EXCEPT ![c] = "pending"]
      /\ RowBecomes(s, NewDispatch(s)) /\ UNCHANGED <<handed, claimed>>
  BY DEF CreateDimmingCommand, RowBecomes
<1>2. dispatch[s] = NoDispatch
  BY <1>1 DEF CommandInv, RowInv
<1>3. NewDispatch(s) \in DispatchRows /\ NewDispatch(s).code = "none" /\ NoDispatch.code = "none"
  BY NewRowTypes DEF NewDispatch, NoDispatch
<1>4. Refused' = Refused
  BY <1>1, <1>2, <1>3, NoRefusals, RefusedKeeps
<1>5. HeardOf' = HeardOf /\ Sent' = Sent
  BY <1>1, <1>4, HeardKeeps DEF Sent
<1>6. QED BY <1>1, <1>5, ContractMoves

\* Steps of which the contract sees nothing.
LEMMA QuietRefines ==
    ASSUME outcome' = outcome, UNCHANGED <<handed, claimed>>,
           \A c \in Commands : dispatch'[SetOf(c)].code = dispatch[SetOf(c)].code
    PROVE  UNCHANGED Contract!vars
<1>1. Refused' = Refused /\ Sent' = Sent
  BY DEF Refused, Sent
<1>2. QED BY <1>1, HeardKeeps, ContractStutter

LEMMA RequestRefines ==
    ASSUME NEW c \in Commands, NEW n \in 1..MaxChecks, RequestStatusCheck(c, n)
    PROVE  UNCHANGED Contract!vars
<1>1. \A k \in Commands : dispatch'[SetOf(k)] = dispatch[SetOf(k)]
  BY DispatchKinds DEF RequestStatusCheck
<1>2. QED BY <1>1, QuietRefines DEF RequestStatusCheck

LEMMA FinishRefines ==
    ASSUME IInv, NEW p \in Publishers, Finish(p)
    PROVE  UNCHANGED Contract!vars
<1> DEFINE d == publisher[p].on
<1>1. d \in Dispatches /\ dispatch \in [Dispatches -> DispatchRows]
  BY DEF Finish, At, IInv, TypeOK, WorkInv, Idle
<1>2. /\ outcome' = outcome /\ UNCHANGED <<handed, claimed>>
      /\ dispatch' = dispatch \/ dispatch' = [dispatch EXCEPT ![d].status = "published"]
  BY DEF Finish, OthersUnchanged
<1>3. \A e \in Dispatches : dispatch'[e].code = dispatch[e].code
  BY <1>1, <1>2 DEF DispatchRows
<1>4. QED BY <1>2, <1>3, DispatchKinds, QuietRefines

LEMMA AcceptanceRefines ==
    ASSUME IInv, NEW d \in Dispatches, StoreAcceptance(d)
    PROVE  UNCHANGED Contract!vars
<1>1. Active(d) /\ RowInv(d) /\ dispatch \in [Dispatches -> DispatchRows]
  BY DEF StoreAcceptance, Active, ActiveStatuses, IInv, TypeOK
<1>2. dispatch[d].code = "none"
  BY <1>1 DEF RowInv
<1>3. dispatch' = [dispatch EXCEPT ![d] = [dispatch[d] EXCEPT !.status = "accepted", !.code = "none"]]
  BY <1>1 DEF StoreAcceptance, DispatchRows
<1>4. [dispatch[d] EXCEPT !.status = "accepted", !.code = "none"].code = "none"
  BY <1>1 DEF DispatchRows
<1>5. \A e \in Dispatches : dispatch'[e].code = dispatch[e].code
  BY <1>1, <1>2, <1>3, <1>4
<1>6. QED BY <1>5, DispatchKinds, QuietRefines DEF StoreAcceptance, AcksUnchanged

LEMMA RefinesInit == Init => Contract!Init
<1> SUFFICES ASSUME Init PROVE Contract!Init
  OBVIOUS
<1>1. Sent = {} /\ claimed = {}
  BY DEF Init, Sent
<1>2. \A c \in Commands : dispatch[SetOf(c)].code = "none"
  BY DispatchKinds DEF Init, NoDispatch
<1>3. HeardOf = {}
  BY <1>1, <1>2, NoRefusals DEF HeardOf
<1>4. QED BY <1>1, <1>3 DEF Contract!Init, Init, Sent

LEMMA RefinesNext == IInv /\ [Next]_vars => [Contract!Next]_(Contract!vars)
<1> SUFFICES ASSUME IInv, [Next]_vars PROVE Contract!Next \/ UNCHANGED Contract!vars
  OBVIOUS
<1>1. CASE UNCHANGED <<rowVars, handed, claimed>>
  BY <1>1, QuietRefines DEF rowVars
<1>2. CASE \E c \in Commands : CreateDimmingCommand(c)
  BY <1>2, CreateRefines
<1>3. CASE \E c \in Commands, n \in 1..MaxChecks : RequestStatusCheck(c, n)
  BY <1>3, RequestRefines
<1>4. CASE \E p \in Publishers : Enqueue(p) \/ Finish(p) \/ HandleError(p)
  BY <1>4, EnqueueRefines, FinishRefines, HandleErrorRefines
<1>5. CASE \E d \in Dispatches : CloseExpired(d) \/ StoreAcceptance(d)
  BY <1>5, CloseExpiredRefines, AcceptanceRefines
<1>6. CASE \E d \in Dispatches, code \in RefusalCodes : StoreRejection(d, code)
  BY <1>6, RejectionRefines
<1>7. CASE \E d \in Dispatches : \E m \in Incoming(d) : StoreStatus(m)
  BY <1>7, IncomingStatus, StatusRefines
<1>8. \/ UNCHANGED <<rowVars, handed, claimed>>
      \/ \E c \in Commands : CreateDimmingCommand(c)
      \/ \E c \in Commands, n \in 1..MaxChecks : RequestStatusCheck(c, n)
      \/ \E p \in Publishers : Enqueue(p) \/ Finish(p) \/ HandleError(p)
      \/ \E d \in Dispatches : CloseExpired(d) \/ StoreAcceptance(d)
      \/ \E d \in Dispatches, code \in RefusalCodes : StoreRejection(d, code)
      \/ \E d \in Dispatches : \E m \in Incoming(d) : StoreStatus(m)
  BY DEF Next, vars, PublisherStep, ClaimBatch, Attempt, Fence, WindowClosed, Puback,
         PublishFails, AdmissionRefused, Prepare, Crash, GroupChange, OthersUnchanged,
         ScanExpired, LeaseExpires, Stall, Expire
<1>9. QED BY <1>1, <1>2, <1>3, <1>4, <1>5, <1>6, <1>7, <1>8

\* Rows, leases, publishers, the timeout worker and the ACK writers together
\* keep the contract of a command's outcome: withdrawn only unsent, settled on an
\* answer of the gateway only, and settled once.
THEOREM DeliveryKeepsContract == Spec => ImplementsContract
<1>1. IInv /\ [Next]_vars => [Contract!Next]_(Contract!vars)
  BY RefinesNext
<1> QED BY <1>1, RefinesInit, Invariance, PTL DEF Spec, ImplementsContract, Contract!Spec

(***************************************************************************)
(* What the contract is worth                                              *)
(***************************************************************************)
\* Who keeps OutcomeContract settles what was sent on an answer only.
LEMMA ContractIsEvident == Contract!Spec => []Contract!Evident /\ Contract!Final
<1> DEFINE CInv == Contract!TypeOK /\ Contract!Evident
<1>1. Contract!Init => CInv
  BY DEF Contract!Init, Contract!TypeOK, Contract!Evident, Contract!Definite
<1>2. ASSUME CInv, [Contract!Next]_(Contract!vars) PROVE CInv'
  <2>1. ASSUME NEW c \in Commands,
               \/ Contract!Create(c) \/ Contract!Send(c) \/ Contract!Withdraw(c)
               \/ Contract!LoseTrack(c) \/ Contract!Note(c)
        PROVE  CInv'
    BY <1>2, <2>1
       DEF Contract!Create, Contract!Send, Contract!Withdraw, Contract!LoseTrack, Contract!Note,
           Contract!Settle, Contract!Hear, Contract!TypeOK, Contract!Evident, Contract!Definite
  <2>2. ASSUME NEW c \in Commands, NEW o \in Contract!Definite,
               Contract!Report(c, o) \/ Contract!Resolve(c, o)
        PROVE  CInv'
    BY <1>2, <2>2
       DEF Contract!Report, Contract!Resolve, Contract!Settle, Contract!Hear, Contract!TypeOK,
           Contract!Evident, Contract!Definite
  <2>3. CASE UNCHANGED Contract!vars
    BY <1>2, <2>3 DEF Contract!vars, Contract!TypeOK, Contract!Evident
  <2> QED BY <1>2, <2>1, <2>2, <2>3 DEF Contract!Next
<1>3. CInv /\ [Contract!Next]_(Contract!vars)
          => [\A c \in Commands :
                 /\ outcome[c] \notin {"none", "pending"} => (c \in Sent' <=> c \in Sent)
                 /\ outcome[c] \in Contract!Definite => outcome'[c] = outcome[c]]_(Contract!vars)
  BY DEF Contract!Next, Contract!Create, Contract!Send, Contract!Withdraw, Contract!LoseTrack,
         Contract!Note, Contract!Report, Contract!Resolve, Contract!Settle, Contract!Hear,
         Contract!TypeOK, Contract!Definite, Sent
<1>4. CInv => Contract!Evident
  OBVIOUS
<1> QED BY <1>1, <1>2, <1>3, <1>4, PTL DEF Contract!Spec, Contract!Final, Sent

\* A command whose Set may be on its way gets a definite outcome on an answer of the
\* gateway only; without an answer all that is ever said is "not applied", of a Set
\* that was never handed to the MQTT client.
THEOREM OutcomesAreEvident == Spec => []Contract!Evident
  BY DeliveryKeepsContract, ContractIsEvident, PTL DEF ImplementsContract

\* A command that is no longer pending is not handed to the MQTT client any more, by
\* no publisher with or without its lease, and a definite outcome stays.
THEOREM ClosedIsNotSent == Spec => Contract!Final
  BY DeliveryKeepsContract, ContractIsEvident, PTL DEF ImplementsContract
=============================================================================
