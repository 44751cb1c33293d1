------------------------- MODULE OutboxWorkerProofs -------------------------
(* Theorems about the outbox worker, for any number of events, overlapping  *)
(* passes, consumer parts, errors, stops and retries.                       *)
EXTENDS OutboxWorker, TLAPS

\* What a pass holds is being processed; only an event whose commit was not
\* answered may already read PUBLISHED while its pass records an error.
Held ==
  \A p \in Passes : \A e \in pass[p].batch :
    \/ outbox[e].status = "PROCESSING"
    \/ outbox[e].status = "PUBLISHED" /\ pass[p].event = e /\ pass[p].at = "FAILED"

\* Where a pass stands tells which parts have handled its event.
Progress ==
  \A p \in Passes :
    /\ pass[p].at = "BETWEEN" => pass[p].next = 1
    /\ pass[p].at = "HANDLE" =>
         \A c \in Consumers : c < pass[p].next => <<pass[p].event, c>> \in done
    /\ pass[p].at = "PUBLISH" => \A c \in Consumers : <<pass[p].event, c>> \in done

\* A consumption is recorded only after the last part.
Complete ==
  /\ \A e \in consumed : \A c \in Consumers : <<e, c>> \in done
  /\ \A e \in Events : outbox[e].status = "PUBLISHED" => e \in consumed

\* An event starts without attempts, and a pending one has one left to use.
Attempts ==
  \A e \in Events :
    /\ outbox[e].status = "NONE" => outbox[e].attempts = 0
    /\ outbox[e].status = "PENDING" => outbox[e].attempts < AttemptLimit + retries

\* The inductive invariant.
IInv ==
  /\ TypeOK
  /\ Held /\ OneHandlerPerEvent /\ HandlesOnlyUnconsumed
  /\ Progress /\ Complete
  /\ RetryBudget /\ Attempts

-----------------------------------------------------------------------------

\* The worker starts with an empty outbox and idle passes.
LEMMA InitIInv == Init => IInv
<1>1. SUFFICES ASSUME Init PROVE IInv
  OBVIOUS
<1>2. TypeOK
  BY <1>1, OutboxAssumption DEF Init, TypeOK, NoRow, Status, Consumers, Between
<1>3. QED
  BY <1>1, <1>2, OutboxAssumption DEF Init, IInv, Held, OneHandlerPerEvent,
       HandlesOnlyUnconsumed, Progress, Complete, RetryBudget, Attempts, NoRow, Between

\* Types survive every step of the worker, the operators and the faults.
LEMMA TypeStep == TypeOK /\ [Next]_vars => TypeOK'
<1> SUFFICES ASSUME TypeOK, [Next]_vars PROVE TypeOK'
  OBVIOUS
<1> USE OutboxAssumption DEF TypeOK, Status, Consumers, Between
<1>1. ASSUME NEW e \in Events, AppendEvent(e) PROVE TypeOK'
  BY <1>1 DEF AppendEvent
<1>2. ASSUME NEW e \in Events, BecomeDue(e) PROVE TypeOK'
  BY <1>2 DEF BecomeDue
<1>3. ASSUME NEW e \in Events, RetryOutboxEvent(e) PROVE TypeOK'
  BY <1>3 DEF RetryOutboxEvent
<1>4. ASSUME NEW p \in Passes, Claim(p) PROVE TypeOK'
  <2>1. PICK S \in SUBSET Events :
          /\ outbox' = [e \in Events |->
                          IF e \in S THEN [status |-> "PROCESSING",
                                           attempts |-> outbox[e].attempts + 1]
                          ELSE outbox[e]]
          /\ pass' = [pass EXCEPT ![p] = Between(S)]
    BY <1>4 DEF Claim, NextEvent, DueEvents
  <2>2. outbox' \in [Events -> [status : Status, attempts : Nat]]
    BY <2>1
  <2>3. QED
    BY <2>1, <2>2, <1>4 DEF Claim
<1>5. ASSUME NEW p \in Passes, Begin(p) PROVE TypeOK'
  <2>1. PICK e \in pass[p].batch :
          pass' = [pass EXCEPT ![p].event = e, ![p].at = FirstPhase(e)]
    BY <1>5 DEF Begin
  <2>2. FirstPhase(e) \in {"HANDLE", "PUBLISH"} /\ e \in Events
    BY DEF FirstPhase
  <2>3. QED
    BY <2>1, <2>2, <1>5 DEF Begin
<1>6. ASSUME NEW p \in Passes, Handle(p) PROVE TypeOK'
  <2>1. pass[p].at = "HANDLE" /\ pass[p].event \in pass[p].batch
    BY <1>6 DEF Handle
  <2>2. done' \subseteq Events \X Consumers
    BY <1>6, <2>1 DEF Handle
  <2>3. UNCHANGED <<outbox, delayed, consumed, faults, stops, retries>>
    BY <1>6 DEF Handle
  <2>4. CASE pass[p].next = NConsumers
    <3>1. pass' = [pass EXCEPT ![p].at = "PUBLISH"]
      BY <1>6, <2>4 DEF Handle
    <3>2. QED
      BY <2>1, <2>2, <2>3, <3>1
  <2>5. CASE pass[p].next # NConsumers
    <3>1. pass' = [pass EXCEPT ![p].next = pass[p].next + 1]
      BY <1>6, <2>5 DEF Handle
    <3>2. pass[p].next + 1 \in Consumers
      BY <2>5
    <3>3. QED
      BY <2>1, <2>2, <2>3, <3>1, <3>2
  <2>6. QED
    BY <2>4, <2>5
<1>7. ASSUME NEW p \in Passes, Publish(p) PROVE TypeOK'
  <2>1. pass[p].event \in pass[p].batch
    BY <1>7 DEF Publish
  <2>2. pass' = [pass EXCEPT ![p] = Between(pass[p].batch \ {pass[p].event})]
    BY <1>7 DEF Publish, NextEvent
  <2>3. Published(p) /\ UNCHANGED <<done, faults, stops, retries>>
    BY <1>7 DEF Publish
  <2>4. QED
    BY <2>1, <2>2, <2>3 DEF Published
<1>8. ASSUME NEW p \in Passes, RecordFailure(p) PROVE TypeOK'
  BY <1>8 DEF RecordFailure, NextEvent, StatusAfterFailure
<1>9. ASSUME NEW p \in Passes, Fail(p) PROVE TypeOK'
  <2>1. pass' = [pass EXCEPT ![p].at = "FAILED"] /\ faults' = faults + 1
    BY <1>9 DEF Fail, AfterError
  <2>2. pass[p].event \in pass[p].batch
    BY <1>9 DEF Fail
  <2>3. UNCHANGED <<outbox, delayed, consumed, done, stops, retries>>
    BY <1>9 DEF Fail
  <2>4. QED
    BY <2>1, <2>2, <2>3
<1>10. ASSUME NEW p \in Passes, LoseCommit(p) PROVE TypeOK'
  <2>1. pass' = [pass EXCEPT ![p].at = "FAILED"] /\ faults' = faults + 1
    BY <1>10 DEF LoseCommit
  <2>2. pass[p].event \in pass[p].batch
    BY <1>10 DEF LoseCommit
  <2>3. UNCHANGED <<done, stops, retries>> /\ Published(p)
    BY <1>10 DEF LoseCommit
  <2>4. QED
    BY <2>1, <2>2, <2>3 DEF Published
<1>11. ASSUME NEW p \in Passes, Abandon(p) PROVE TypeOK'
  <2>1. pass' = [pass EXCEPT ![p] = Between({})]
    BY <1>11 DEF Abandon, NextEvent
  <2>2. UNCHANGED <<outbox, delayed, consumed, done, faults, retries>> /\ stops' = stops + 1
    BY <1>11 DEF Abandon
  <2>3. QED
    BY <2>1, <2>2
<1>12. CASE Crash
  BY <1>12 DEF Crash
<1>13. CASE UNCHANGED vars
  BY <1>13 DEF vars
<1>14. QED
  BY <1>1, <1>2, <1>3, <1>4, <1>5, <1>6, <1>7, <1>8, <1>9, <1>10, <1>11, <1>12, <1>13 DEF
       Next, Work

\* The invariant survives every step.
LEMMA IInvStep == IInv /\ [Next]_vars => IInv'
<1> SUFFICES ASSUME IInv, [Next]_vars PROVE IInv'
  OBVIOUS
<1> DEFINE Rest == /\ Held /\ OneHandlerPerEvent /\ HandlesOnlyUnconsumed
                   /\ Progress /\ Complete /\ RetryBudget /\ Attempts
<1>0. TypeOK /\ TypeOK'
  BY TypeStep DEF IInv
<1> USE <1>0, OutboxAssumption
<1>1. ASSUME NEW e \in Events, AppendEvent(e) PROVE Rest'
  <2>1. Held'
    BY <1>1 DEF AppendEvent, IInv, Held
  <2>2. OneHandlerPerEvent'
    BY <1>1 DEF AppendEvent, IInv, OneHandlerPerEvent
  <2>3. HandlesOnlyUnconsumed'
    BY <1>1 DEF AppendEvent, IInv, HandlesOnlyUnconsumed
  <2>4. Progress'
    BY <1>1 DEF AppendEvent, IInv, Progress
  <2>5. Complete'
    BY <1>1 DEF AppendEvent, IInv, Complete
  <2>6. RetryBudget'
    BY <1>1 DEF AppendEvent, IInv, RetryBudget
  <2>7. Attempts'
    <3>1. /\ outbox \in [Events -> [status : Status, attempts : Nat]]
          /\ retries \in Nat /\ outbox[e].status = "NONE"
      BY <1>1 DEF AppendEvent, TypeOK
    <3>2. outbox[e].attempts = 0 /\ 0 < AttemptLimit + retries
      BY <3>1 DEF IInv, Attempts
    <3>3. outbox' = [outbox EXCEPT ![e].status = "PENDING"] /\ retries' = retries
      BY <1>1 DEF AppendEvent
    <3>4. outbox'[e].attempts = 0 /\ \A f \in Events : f # e => outbox'[f] = outbox[f]
      BY <3>2, <3>3
    <3>5. outbox'[e].status = "PENDING"
      BY <3>1, <3>3
    <3>6. QED
      BY <3>2, <3>3 DEF IInv, Attempts
  <2>8. QED
    BY <2>1, <2>2, <2>3, <2>4, <2>5, <2>6, <2>7
<1>2. ASSUME NEW e \in Events, BecomeDue(e) PROVE Rest'
  <2>1. Held'
    BY <1>2 DEF BecomeDue, IInv, Held
  <2>2. OneHandlerPerEvent'
    BY <1>2 DEF BecomeDue, IInv, OneHandlerPerEvent
  <2>3. HandlesOnlyUnconsumed'
    BY <1>2 DEF BecomeDue, IInv, HandlesOnlyUnconsumed
  <2>4. Progress'
    BY <1>2 DEF BecomeDue, IInv, Progress
  <2>5. Complete'
    BY <1>2 DEF BecomeDue, IInv, Complete
  <2>6. RetryBudget'
    BY <1>2 DEF BecomeDue, IInv, RetryBudget
  <2>7. Attempts'
    BY <1>2 DEF BecomeDue, IInv, Attempts
  <2>8. QED
    BY <2>1, <2>2, <2>3, <2>4, <2>5, <2>6, <2>7
<1>3. ASSUME NEW e \in Events, RetryOutboxEvent(e) PROVE Rest'
  <2>1. Held'
    BY <1>3 DEF RetryOutboxEvent, IInv, Held, Retryable
  <2>2. OneHandlerPerEvent'
    BY <1>3 DEF RetryOutboxEvent, IInv, OneHandlerPerEvent
  <2>3. HandlesOnlyUnconsumed'
    BY <1>3 DEF RetryOutboxEvent, IInv, HandlesOnlyUnconsumed
  <2>4. Progress'
    BY <1>3 DEF RetryOutboxEvent, IInv, Progress
  <2>5. Complete'
    BY <1>3 DEF RetryOutboxEvent, IInv, Complete
  <2>6. RetryBudget'
    BY <1>3 DEF RetryOutboxEvent, IInv, TypeOK, RetryBudget
  <2>7. Attempts'
    BY <1>3 DEF RetryOutboxEvent, IInv, TypeOK, Attempts, RetryBudget
  <2>8. QED
    BY <2>1, <2>2, <2>3, <2>4, <2>5, <2>6, <2>7
<1>4. ASSUME NEW p \in Passes, Claim(p) PROVE Rest'
  <2>0. PICK S \in SUBSET Events :
          /\ \A e \in S : outbox[e].status \in {"PENDING", "FAILED_RETRYABLE"}
          /\ outbox' = [e \in Events |->
                          IF e \in S THEN [status |-> "PROCESSING",
                                           attempts |-> outbox[e].attempts + 1]
                          ELSE outbox[e]]
          /\ pass' = [pass EXCEPT ![p] = Between(S)]
    BY <1>4 DEF Claim, NextEvent, DueEvents, Claimable
  <2>1. Held'
    BY <2>0 DEF IInv, TypeOK, Held, Between
  <2>2. OneHandlerPerEvent'
    <3>1. \A q \in Passes : q # p => S \cap pass[q].batch = {}
      BY <2>0 DEF IInv, Held
    <3>2. pass'[p].batch = S /\ \A q \in Passes : q # p => pass'[q] = pass[q]
      BY <2>0 DEF Between, TypeOK
    <3>3. QED
      BY <3>1, <3>2 DEF IInv, OneHandlerPerEvent
  <2>3. HandlesOnlyUnconsumed'
    BY <2>0, <1>4 DEF Claim, IInv, HandlesOnlyUnconsumed, Between
  <2>4. Progress'
    BY <2>0, <1>4 DEF Claim, IInv, Progress, Between
  <2>5. Complete'
    BY <1>4 DEF Claim, IInv, Complete
  <2>6. RetryBudget'
    BY <2>0, <1>4 DEF Claim, IInv, TypeOK, RetryBudget, Attempts
  <2>7. Attempts'
    BY <1>4 DEF Claim, IInv, Attempts
  <2>8. QED
    BY <2>1, <2>2, <2>3, <2>4, <2>5, <2>6, <2>7
<1>5. ASSUME NEW p \in Passes, Begin(p) PROVE Rest'
  <2>1. Held'
    BY <1>5 DEF Begin, TypeOK
  <2>2. OneHandlerPerEvent'
    BY <1>5 DEF Begin, TypeOK
  <2>3. HandlesOnlyUnconsumed'
    BY <1>5 DEF Begin, TypeOK
  <2>4. Progress'
    BY <1>5 DEF Begin, TypeOK
  <2>5. Complete'
    BY <1>5 DEF Begin, TypeOK
  <2>6. RetryBudget'
    BY <1>5 DEF Begin, TypeOK
  <2>7. Attempts'
    BY <1>5 DEF Begin, TypeOK
  <2>8. QED
    BY <2>1, <2>2, <2>3, <2>4, <2>5, <2>6, <2>7
<1>6. ASSUME NEW p \in Passes, Handle(p) PROVE Rest'
  <2>1. Held'
    BY <1>6 DEF Handle, IInv, Held
  <2>2. OneHandlerPerEvent'
    BY <1>6 DEF Handle, IInv, OneHandlerPerEvent
  <2>3. HandlesOnlyUnconsumed'
    BY <1>6 DEF Handle, IInv, HandlesOnlyUnconsumed
  <2>4. Progress'
    <3>1. \A q \in Passes : q # p => pass'[q] = pass[q]
      BY <1>6 DEF Handle
    <3>2. done' = done \cup {<<pass[p].event, pass[p].next>>} /\ pass[p].at = "HANDLE"
      BY <1>6 DEF Handle
    <3>3. pass[p].next \in Consumers /\ NConsumers \in Nat
      BY DEF TypeOK
    <3>4. CASE pass[p].next = NConsumers
      <4>1. pass'[p].event = pass[p].event /\ pass'[p].at = "PUBLISH"
        BY <1>6, <3>4 DEF Handle, TypeOK
      <4>2. \A c \in Consumers : c < pass[p].next \/ c = pass[p].next
        BY <3>4 DEF Consumers
      <4>3. \A c \in Consumers : <<pass[p].event, c>> \in done'
        BY <3>2, <4>2 DEF IInv, Progress
      <4>4. QED
        BY <3>1, <3>2, <4>1, <4>3 DEF IInv, Progress
    <3>5. CASE pass[p].next # NConsumers
      <4>1. /\ pass'[p].event = pass[p].event /\ pass'[p].at = "HANDLE"
            /\ pass'[p].next = pass[p].next + 1
        BY <1>6, <3>5 DEF Handle, TypeOK
      <4>2. \A c \in Consumers : c < pass[p].next + 1 => c < pass[p].next \/ c = pass[p].next
        BY <3>3 DEF Consumers
      <4>3. \A c \in Consumers : c < pass'[p].next => <<pass[p].event, c>> \in done'
        BY <3>2, <4>1, <4>2 DEF IInv, Progress
      <4>4. QED
        BY <3>1, <3>2, <4>1, <4>3 DEF IInv, Progress
    <3>6. QED
      BY <3>4, <3>5
  <2>5. Complete'
    BY <1>6 DEF Handle, IInv, Complete
  <2>6. RetryBudget'
    BY <1>6 DEF Handle, IInv, RetryBudget
  <2>7. Attempts'
    BY <1>6 DEF Handle, IInv, Attempts
  <2>8. QED
    BY <2>1, <2>2, <2>3, <2>4, <2>5, <2>6, <2>7
<1>7. ASSUME NEW p \in Passes, Publish(p) PROVE Rest'
  <2>1. Held'
    BY <1>7 DEF Publish, IInv, TypeOK, Held, Published, NextEvent, Between,
         OneHandlerPerEvent
  <2>2. OneHandlerPerEvent'
    BY <1>7 DEF Publish, IInv, OneHandlerPerEvent, NextEvent, Between
  <2>3. HandlesOnlyUnconsumed'
    BY <1>7 DEF Publish, IInv, TypeOK, HandlesOnlyUnconsumed, Published, NextEvent,
         Between, OneHandlerPerEvent
  <2>4. Progress'
    BY <1>7 DEF Publish, IInv, Progress, NextEvent, Between
  <2>5. Complete'
    BY <1>7 DEF Publish, IInv, Complete, Published, Progress
  <2>6. RetryBudget'
    BY <1>7 DEF Publish, IInv, RetryBudget, Published
  <2>7. Attempts'
    BY <1>7 DEF Publish, IInv, Attempts, Published
  <2>8. QED
    BY <2>1, <2>2, <2>3, <2>4, <2>5, <2>6, <2>7
<1>8. ASSUME NEW p \in Passes, RecordFailure(p) PROVE Rest'
  <2>1. Held'
    BY <1>8 DEF RecordFailure, IInv, TypeOK, Held, NextEvent, Between, OneHandlerPerEvent
  <2>2. OneHandlerPerEvent'
    BY <1>8 DEF RecordFailure, IInv, OneHandlerPerEvent, NextEvent, Between
  <2>3. HandlesOnlyUnconsumed'
    BY <1>8 DEF RecordFailure, IInv, HandlesOnlyUnconsumed, NextEvent, Between
  <2>4. Progress'
    BY <1>8 DEF RecordFailure, IInv, Progress, NextEvent, Between
  <2>5. Complete'
    BY <1>8 DEF RecordFailure, IInv, Complete, StatusAfterFailure
  <2>6. RetryBudget'
    BY <1>8 DEF RecordFailure, IInv, TypeOK, RetryBudget, StatusAfterFailure
  <2>7. Attempts'
    BY <1>8 DEF RecordFailure, IInv, Attempts, StatusAfterFailure
  <2>8. QED
    BY <2>1, <2>2, <2>3, <2>4, <2>5, <2>6, <2>7
<1>9. ASSUME NEW p \in Passes, Fail(p) PROVE Rest'
  <2>1. Held'
    BY <1>9 DEF Fail, IInv, Held
  <2>2. OneHandlerPerEvent'
    BY <1>9 DEF Fail, IInv, OneHandlerPerEvent
  <2>3. HandlesOnlyUnconsumed'
    BY <1>9 DEF Fail, IInv, HandlesOnlyUnconsumed, AfterError
  <2>4. Progress'
    BY <1>9 DEF Fail, IInv, Progress, AfterError
  <2>5. Complete'
    BY <1>9 DEF Fail, IInv, Complete
  <2>6. RetryBudget'
    BY <1>9 DEF Fail, IInv, RetryBudget
  <2>7. Attempts'
    BY <1>9 DEF Fail, IInv, Attempts
  <2>8. QED
    BY <2>1, <2>2, <2>3, <2>4, <2>5, <2>6, <2>7
<1>10. ASSUME NEW p \in Passes, LoseCommit(p) PROVE Rest'
  <2>1. Held'
    BY <1>10 DEF LoseCommit, IInv, TypeOK, Held, Published, OneHandlerPerEvent
  <2>2. OneHandlerPerEvent'
    BY <1>10 DEF LoseCommit, IInv, OneHandlerPerEvent
  <2>3. HandlesOnlyUnconsumed'
    BY <1>10 DEF LoseCommit, IInv, TypeOK, HandlesOnlyUnconsumed, Published,
         OneHandlerPerEvent
  <2>4. Progress'
    BY <1>10 DEF LoseCommit, IInv, Progress
  <2>5. Complete'
    BY <1>10 DEF LoseCommit, IInv, Complete, Published, Progress
  <2>6. RetryBudget'
    BY <1>10 DEF LoseCommit, IInv, RetryBudget, Published
  <2>7. Attempts'
    BY <1>10 DEF LoseCommit, IInv, Attempts, Published
  <2>8. QED
    BY <2>1, <2>2, <2>3, <2>4, <2>5, <2>6, <2>7
<1>11. ASSUME NEW p \in Passes, Abandon(p) PROVE Rest'
  <2>1. Held'
    BY <1>11 DEF Abandon, IInv, Held, NextEvent, Between
  <2>2. OneHandlerPerEvent'
    BY <1>11 DEF Abandon, IInv, OneHandlerPerEvent, NextEvent, Between
  <2>3. HandlesOnlyUnconsumed'
    BY <1>11 DEF Abandon, IInv, HandlesOnlyUnconsumed, NextEvent, Between
  <2>4. Progress'
    BY <1>11 DEF Abandon, IInv, Progress, NextEvent, Between
  <2>5. Complete'
    BY <1>11 DEF Abandon, IInv, Complete
  <2>6. RetryBudget'
    BY <1>11 DEF Abandon, IInv, RetryBudget
  <2>7. Attempts'
    BY <1>11 DEF Abandon, IInv, Attempts
  <2>8. QED
    BY <2>1, <2>2, <2>3, <2>4, <2>5, <2>6, <2>7
<1>12. ASSUME Crash PROVE Rest'
  BY <1>12 DEF Crash, Between, IInv, Held, OneHandlerPerEvent, HandlesOnlyUnconsumed,
       Progress, Complete, RetryBudget, Attempts
<1>13. ASSUME UNCHANGED vars PROVE Rest'
  BY <1>13 DEF vars, IInv, Held, OneHandlerPerEvent, HandlesOnlyUnconsumed, Progress,
       Complete, RetryBudget, Attempts
<1>14. Rest'
  BY <1>1, <1>2, <1>3, <1>4, <1>5, <1>6, <1>7, <1>8, <1>9, <1>10, <1>11, <1>12, <1>13 DEF
       Next, Work
<1>15. QED
  BY <1>14 DEF IInv

-----------------------------------------------------------------------------

\* Every reachable state of the worker satisfies the invariant.
THEOREM Invariant == Spec => []IInv
<1>1. QED
  BY InitIInv, IInvStep, PTL DEF Spec

\* The outbox, the consumption records and the passes are always well typed.
THEOREM TypeCorrect == Spec => []TypeOK
<1>1. IInv => TypeOK
  BY DEF IInv
<1>2. QED
  BY <1>1, Invariant, PTL

\* No two passes ever hold the same event.
THEOREM ExclusiveHandling == Spec => []OneHandlerPerEvent
<1>1. IInv => OneHandlerPerEvent
  BY DEF IInv
<1>2. QED
  BY <1>1, Invariant, PTL

\* A consumed event is never handed to a consumer again.
THEOREM NoHandlingAfterConsumption == Spec => []HandlesOnlyUnconsumed
<1>1. IInv => HandlesOnlyUnconsumed
  BY DEF IInv
<1>2. QED
  BY <1>1, Invariant, PTL

\* PUBLISHED means that every part of the consumer has handled the event.
THEOREM PublishedMeansHandled == Spec => []PublishedIsComplete
<1>1. IInv => PublishedIsComplete
  BY DEF IInv, Complete, PublishedIsComplete
<1>2. QED
  BY <1>1, Invariant, PTL

\* Attempts are bounded, and none is given up early.
THEOREM BoundedAttempts == Spec => []RetryBudget
<1>1. IInv => RetryBudget
  BY DEF IInv
<1>2. QED
  BY <1>1, Invariant, PTL

-----------------------------------------------------------------------------

\* The empty outbox is an initial state of the delivery.
LEMMA DeliveryInit == Init => Delivery!DInit
  BY DEF Init, Delivery!DInit, NoRow

\* Every step of the outbox is a step of the delivery or leaves it alone.
LEMMA DeliveryStep ==
  ASSUME IInv, IInv', [Next]_vars
  PROVE  [Delivery!DNext]_Delivery!dvars
<1> DEFINE Known == {e \in Events : outbox[e].status # "NONE"}
<1> USE OutboxAssumption DEF Consumers
<1>0. TypeOK
  BY DEF IInv
<1>1. ASSUME NEW e \in Events, AppendEvent(e) PROVE Delivery!Commit(e)
  BY <1>0, <1>1 DEF AppendEvent, TypeOK, Delivery!Commit
<1>2. ASSUME NEW e \in Events, BecomeDue(e) PROVE UNCHANGED Delivery!dvars
  BY <1>2 DEF BecomeDue, Delivery!dvars
<1>3. ASSUME NEW e \in Events, RetryOutboxEvent(e) PROVE UNCHANGED Delivery!dvars
  BY <1>3 DEF RetryOutboxEvent, Retryable, Delivery!dvars
<1>4. ASSUME NEW p \in Passes, Claim(p) PROVE UNCHANGED Delivery!dvars
  <2>1. PICK S \in SUBSET Events :
          /\ \A e \in S : outbox[e].status \in {"PENDING", "FAILED_RETRYABLE"}
          /\ outbox' = [e \in Events |->
                          IF e \in S THEN [status |-> "PROCESSING",
                                           attempts |-> outbox[e].attempts + 1]
                          ELSE outbox[e]]
    BY <1>4 DEF Claim, DueEvents, Claimable
  <2>2. Known' = Known
    BY <2>1
  <2>3. QED
    BY <1>4, <2>2 DEF Claim, Delivery!dvars
<1>5. ASSUME NEW p \in Passes, Begin(p) PROVE UNCHANGED Delivery!dvars
  BY <1>5 DEF Begin, Delivery!dvars
<1>6. ASSUME NEW p \in Passes, Handle(p)
      PROVE  Delivery!Deliver(pass[p].event, pass[p].next)
  <2>1. pass[p].event \in Known \ consumed
    BY <1>6 DEF Handle, IInv, TypeOK, Held, HandlesOnlyUnconsumed
  <2>2. \A c \in 1..NConsumers : c < pass[p].next => <<pass[p].event, c>> \in done
    BY <1>6 DEF Handle, IInv, Progress
  <2>3. QED
    BY <1>6, <2>1, <2>2 DEF Handle, Delivery!Deliver
<1>7. ASSUME NEW p \in Passes, pass[p].at = "PUBLISH", Published(p), UNCHANGED done
      PROVE  Delivery!Acknowledge(pass[p].event)
  <2>1. pass[p].event \in Known
    BY <1>7 DEF IInv, TypeOK, Held
  <2>2. Known' = Known
    BY <1>7, <2>1 DEF Published
  <2>3. \A c \in 1..NConsumers : <<pass[p].event, c>> \in done
    BY <1>7 DEF IInv, Progress
  <2>4. QED
    BY <1>7, <2>1, <2>3 DEF Published, Delivery!Acknowledge
<1>8. ASSUME NEW p \in Passes, RecordFailure(p) PROVE UNCHANGED Delivery!dvars
  <2>1. pass[p].event \in Known
    BY <1>8 DEF RecordFailure, IInv, TypeOK, Held
  <2>2. Known' = Known
    BY <1>8, <2>1 DEF RecordFailure, StatusAfterFailure
  <2>3. QED
    BY <1>8, <2>2 DEF RecordFailure, Delivery!dvars
<1>9. ASSUME NEW p \in Passes, Fail(p) PROVE UNCHANGED Delivery!dvars
  BY <1>9 DEF Fail, Delivery!dvars
<1>10. ASSUME NEW p \in Passes, Abandon(p) PROVE UNCHANGED Delivery!dvars
  BY <1>10 DEF Abandon, Delivery!dvars
<1>11. ASSUME Crash PROVE UNCHANGED Delivery!dvars
  BY <1>11 DEF Crash, Delivery!dvars
<1>12. ASSUME UNCHANGED vars PROVE UNCHANGED Delivery!dvars
  BY <1>12 DEF vars, Delivery!dvars
<1>13. ASSUME NEW p \in Passes, Publish(p) \/ LoseCommit(p)
       PROVE  Delivery!Acknowledge(pass[p].event)
  BY <1>7, <1>13 DEF Publish, LoseCommit
<1>14. \A p \in Passes : pass[p].at # "BETWEEN" => pass[p].event \in Events
  BY <1>0 DEF TypeOK
<1>15. ASSUME NEW p \in Passes, Handle(p) PROVE Delivery!DNext
  <2>1. pass[p].event \in Events /\ pass[p].next \in 1..NConsumers
    BY <1>0, <1>15 DEF Handle, TypeOK
  <2>2. QED
    BY <1>6, <1>15, <2>1 DEF Delivery!DNext
<1>16. ASSUME NEW p \in Passes, Publish(p) \/ LoseCommit(p) PROVE Delivery!DNext
  <2>1. pass[p].event \in Events
    BY <1>14, <1>16 DEF Publish, LoseCommit
  <2>2. QED
    BY <1>13, <1>16, <2>1 DEF Delivery!DNext
<1>17. ASSUME NEW e \in Events, AppendEvent(e) PROVE Delivery!DNext
  BY <1>1, <1>17 DEF Delivery!DNext
<1>18. QED
  BY <1>2, <1>3, <1>4, <1>5, <1>8, <1>9, <1>10, <1>11, <1>12, <1>15, <1>16, <1>17 DEF
       Next, Work

\* The worker implements the delivery its consumers rely on.
THEOREM OutboxImplementsDelivery == Spec => DeliversEvents
<1>1. Spec => Delivery!DInit /\ [][Delivery!DNext]_Delivery!dvars
  BY Invariant, DeliveryInit, DeliveryStep, PTL DEF Spec
<1>2. QED
  BY <1>1 DEF DeliversEvents, Delivery!DSpec

=============================================================================
