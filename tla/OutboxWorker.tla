---------------------------- MODULE OutboxWorker ----------------------------
(***************************************************************************)
(* The worker that carries committed events from event_outbox to their     *)
(* consumers.  A pass claims a batch in one transaction; then, for each    *)
(* event, a second transaction looks for a consumption record, calls the   *)
(* consumer, writes the record and marks the event PUBLISHED; an error is  *)
(* recorded by a third.  The consumer is a composite: its parts run one    *)
(* after the other and each commits its own effects, whatever becomes of   *)
(* the transaction that called it.                                         *)
(*                                                                         *)
(* A timer starts a pass every two seconds without asking whether the last *)
(* one is over, so passes overlap.  Between any two transactions the       *)
(* process may stop, by a crash or by a deployment that does not wait.     *)
(***************************************************************************)
EXTENDS Naturals, FiniteSets

CONSTANTS
  Events,        \* events a command may append, numbered by occurred_at
  Passes,        \* passes of the worker that may overlap
  NConsumers,    \* parts of the composite consumer
  BatchSize,     \* events a pass claims at most
  AttemptLimit,  \* the attempt that dead-letters an event when it fails
  MaxFaults,     \* bound: errors of consumers and of the database
  MaxStops,      \* bound: passes or processes that end early
  MaxRetries,    \* bound: retries an operator asks for
  NoEvent        \* no event

Consumers == 1..NConsumers

ASSUME OutboxAssumption ==
  /\ Events \subseteq Nat /\ IsFiniteSet(Events) /\ NoEvent \notin Events
  /\ NConsumers \in Nat \ {0} /\ BatchSize \in Nat \ {0} /\ AttemptLimit \in Nat \ {0}
  /\ MaxFaults \in Nat /\ MaxStops \in Nat /\ MaxRetries \in Nat

VARIABLES
  outbox,    \* event_outbox: status and attempts
  delayed,   \* events whose next_attempt_at lies ahead
  consumed,  \* events with a row in event_consumptions
  done,      \* effects of consumers that are committed
  pass,      \* what each pass holds and where it stands
  faults, stops, retries

vars == <<outbox, delayed, consumed, done, pass, faults, stops, retries>>

-----------------------------------------------------------------------------

Status == {"NONE", "PENDING", "PROCESSING", "PUBLISHED", "FAILED_RETRYABLE", "DEAD_LETTER"}

NoRow == [status |-> "NONE", attempts |-> 0]

\* Mutant: an error of the consumer is final.
ClaimableOnce == {"PENDING"}

Claimable == {"PENDING", "FAILED_RETRYABLE"}

\* Mutant: an operator may also free what looks stuck.
RetryableOrStuck == {"FAILED_RETRYABLE", "DEAD_LETTER", "PROCESSING"}

Retryable == {"FAILED_RETRYABLE", "DEAD_LETTER"}

\* Mutant: one attempt too many.
StatusAfterOneMore(attempt) ==
  IF attempt > AttemptLimit THEN "DEAD_LETTER" ELSE "FAILED_RETRYABLE"

StatusAfterFailure(attempt) ==
  IF attempt >= AttemptLimit THEN "DEAD_LETTER" ELSE "FAILED_RETRYABLE"

\* Mutant: the next event starts at the part the last one had reached.
AtSamePart(p, rest) ==
  [pass EXCEPT ![p] = [batch |-> rest, event |-> NoEvent, at |-> "BETWEEN", next |-> pass[p].next]]

Between(rest) == [batch |-> rest, event |-> NoEvent, at |-> "BETWEEN", next |-> 1]

\* Pass p is over with its event; rest is what it still holds.
NextEvent(p, rest) == [pass EXCEPT ![p] = Between(rest)]

Idle(p) == pass[p].batch = {}

DueEvents == {e \in Events : outbox[e].status \in Claimable} \ delayed

\* The earliest due events, as many as the batch takes.
IsBatch(S) ==
  /\ S # {} /\ Cardinality(S) <= BatchSize
  /\ \A e \in S, f \in DueEvents \ S : e < f
  /\ Cardinality(S) < BatchSize => S = DueEvents

-----------------------------------------------------------------------------

Init ==
  /\ outbox = [e \in Events |-> NoRow]
  /\ delayed = {}
  /\ consumed = {}
  /\ done = {}
  /\ pass = [p \in Passes |-> Between({})]
  /\ faults = 0 /\ stops = 0 /\ retries = 0

\* A command commits: its event becomes visible with it.  Events need not
\* become visible in the order they occurred.
AppendEvent(e) ==
  /\ outbox[e].status = "NONE"
  /\ outbox' = [outbox EXCEPT ![e].status = "PENDING"]
  /\ UNCHANGED <<delayed, consumed, done, pass, faults, stops, retries>>

\* The delay until the next attempt is over.
BecomeDue(e) ==
  /\ e \in delayed
  /\ delayed' = delayed \ {e}
  /\ UNCHANGED <<outbox, consumed, done, pass, faults, stops, retries>>

\* One statement locks the rows it selects, skipping locked ones, and updates
\* them; the order in which it returns them is not determined.
Claim(p) ==
  /\ Idle(p)
  /\ \E S \in SUBSET DueEvents :
       /\ IsBatch(S)
       /\ outbox' = [e \in Events |->
                       IF e \in S THEN [status |-> "PROCESSING",
                                        attempts |-> outbox[e].attempts + 1]
                       ELSE outbox[e]]
       /\ pass' = NextEvent(p, S)
  /\ UNCHANGED <<delayed, consumed, done, faults, stops, retries>>

FirstPhase(e) == IF e \in consumed THEN "PUBLISH" ELSE "HANDLE"

Begin(p) ==
  /\ pass[p].at = "BETWEEN"
  /\ \E e \in pass[p].batch :
       pass' = [pass EXCEPT ![p].event = e, ![p].at = FirstPhase(e)]
  /\ UNCHANGED <<outbox, delayed, consumed, done, faults, stops, retries>>

\* One part of the composite consumer runs and commits.
Handle(p) ==
  LET c == pass[p].next
  IN  /\ pass[p].at = "HANDLE"
      /\ done' = done \cup {<<pass[p].event, c>>}
      /\ pass' = IF c = NConsumers THEN [pass EXCEPT ![p].at = "PUBLISH"]
                 ELSE [pass EXCEPT ![p].next = c + 1]
      /\ UNCHANGED <<outbox, delayed, consumed, faults, stops, retries>>

\* The transaction commits: consumption record and PUBLISHED in one.
Published(p) ==
  /\ consumed' = consumed \cup {pass[p].event}
  /\ outbox' = [outbox EXCEPT ![pass[p].event].status = "PUBLISHED"]
  /\ delayed' = delayed \ {pass[p].event}

Publish(p) ==
  /\ pass[p].at = "PUBLISH"
  /\ Published(p)
  /\ pass' = NextEvent(p, pass[p].batch \ {pass[p].event})
  /\ UNCHANGED <<done, faults, stops, retries>>

-----------------------------------------------------------------------------
(* What goes wrong. *)

AfterError == "FAILED"

\* A part of the consumer or a statement of the transaction fails.
Fail(p) ==
  /\ pass[p].at \in {"HANDLE", "PUBLISH"}
  /\ faults < MaxFaults
  /\ faults' = faults + 1
  /\ pass' = [pass EXCEPT ![p].at = AfterError]
  /\ UNCHANGED <<outbox, delayed, consumed, done, stops, retries>>

\* The commit succeeds but its answer is lost: the caller sees an error.
LoseCommit(p) ==
  /\ pass[p].at = "PUBLISH"
  /\ faults < MaxFaults
  /\ faults' = faults + 1
  /\ Published(p)
  /\ pass' = [pass EXCEPT ![p].at = "FAILED"]
  /\ UNCHANGED <<done, stops, retries>>

\* The third transaction overwrites the status whatever it is.
RecordFailure(p) ==
  LET e == pass[p].event
      status == StatusAfterFailure(outbox[e].attempts)
  IN  /\ pass[p].at = "FAILED"
      /\ outbox' = [outbox EXCEPT ![e].status = status]
      /\ delayed' = IF status = "FAILED_RETRYABLE" THEN delayed \cup {e} ELSE delayed \ {e}
      /\ pass' = NextEvent(p, pass[p].batch \ {e})
      /\ UNCHANGED <<consumed, done, faults, stops, retries>>

\* Recording the error fails too: the pass ends and drops the rest of its batch.
Abandon(p) ==
  /\ pass[p].at = "FAILED"
  /\ stops < MaxStops
  /\ stops' = stops + 1
  /\ pass' = NextEvent(p, {})
  /\ UNCHANGED <<outbox, delayed, consumed, done, faults, retries>>

\* The process ends: a crash, or a shutdown that does not wait for passes.
Crash ==
  /\ stops < MaxStops
  /\ \E p \in Passes : ~ Idle(p)
  /\ stops' = stops + 1
  /\ pass' = [p \in Passes |-> Between({})]
  /\ UNCHANGED <<outbox, delayed, consumed, done, faults, retries>>

\* An operator queues an event again.
RetryOutboxEvent(e) ==
  /\ retries < MaxRetries
  /\ outbox[e].status \in Retryable
  /\ outbox' = [outbox EXCEPT ![e].status = "PENDING"]
  /\ delayed' = delayed \ {e}
  /\ retries' = retries + 1
  /\ UNCHANGED <<consumed, done, pass, faults, stops>>

-----------------------------------------------------------------------------

\* What a pass does when nothing disturbs it.
Work(p) == Claim(p) \/ Begin(p) \/ Handle(p) \/ Publish(p) \/ RecordFailure(p)

Next ==
  \/ \E e \in Events : AppendEvent(e) \/ BecomeDue(e) \/ RetryOutboxEvent(e)
  \/ \E p \in Passes : Work(p) \/ Fail(p) \/ LoseCommit(p) \/ Abandon(p)
  \/ Crash

Spec == Init /\ [][Next]_vars

\* The timer keeps starting passes, a pass that runs goes on, and delays end.
FairSpec ==
  /\ Spec
  /\ \A p \in Passes : WF_vars(Work(p))
  /\ \A e \in Events : WF_vars(BecomeDue(e))

-----------------------------------------------------------------------------
(* What the worker promises. *)

TypeOK ==
  /\ outbox \in [Events -> [status : Status, attempts : Nat]]
  /\ delayed \subseteq Events
  /\ consumed \subseteq Events
  /\ done \subseteq Events \X Consumers
  /\ pass \in [Passes -> [batch : SUBSET Events, event : Events \cup {NoEvent},
                          at : {"BETWEEN", "HANDLE", "PUBLISH", "FAILED"},
                          next : Consumers]]
  /\ \A p \in Passes : IF pass[p].at = "BETWEEN" THEN pass[p].event = NoEvent
                       ELSE pass[p].event \in pass[p].batch
  /\ faults \in Nat /\ stops \in Nat /\ retries \in Nat

\* Overlapping passes, and an operator who queues an event again while a pass
\* is running, never put one event into the hands of two passes.
OneHandlerPerEvent ==
  \A p, q \in Passes : p # q => pass[p].batch \cap pass[q].batch = {}

\* Once a consumption is recorded the event is not handed to a consumer again,
\* although an error after the commit makes the worker pick it up once more.
HandlesOnlyUnconsumed ==
  \A p \in Passes : pass[p].at = "HANDLE" => pass[p].event \notin consumed

\* An event reads PUBLISHED only if every part of the consumer has handled it,
\* through whatever errors, stops and retries it got there.
PublishedIsComplete ==
  \A e \in Events : outbox[e].status = "PUBLISHED" =>
    e \in consumed /\ \A c \in Consumers : <<e, c>> \in done

\* An event is given up when its attempts are used up and never before, and an
\* operator's retry buys it one more attempt, no further ones.
RetryBudget ==
  \A e \in Events :
    /\ outbox[e].attempts <= AttemptLimit + retries
    /\ outbox[e].status = "DEAD_LETTER" => outbox[e].attempts >= AttemptLimit
    /\ outbox[e].status = "FAILED_RETRYABLE" => outbox[e].attempts < AttemptLimit

\* A pass that ended early left the event behind, marked as being processed.
Stranded(e) ==
  outbox[e].status = "PROCESSING" /\ \A p \in Passes : e \notin pass[p].batch

\* A committed event is published or given up in the end, unless the pass that
\* held it ended early: errors, delays and overlapping passes alone lose none.
SettledUnlessStranded ==
  \A e \in Events :
    outbox[e].status # "NONE" ~>
      outbox[e].status \in {"PUBLISHED", "DEAD_LETTER"} \/ Stranded(e)

\* The registry of events promises consumers at-least-once delivery: whatever
\* happens, a committed event reaches every part of the consumer or is given up
\* where operators see it.
AtLeastOnce ==
  \A e \in Events :
    outbox[e].status # "NONE" ~>
      (\A c \in Consumers : <<e, c>> \in done) \/ outbox[e].status = "DEAD_LETTER"

\* Seen from the consumers the outbox is only a way to deliver committed events.
Delivery == INSTANCE EventDelivery WITH
  committed <- {e \in Events : outbox[e].status # "NONE"},
  delivered <- done,
  acknowledged <- consumed

\* Every step of worker, operator and fault is a step of EventDelivery or
\* none: no part sees an event that is uncommitted, acknowledged or still
\* unhandled by an earlier part, and none is acknowledged half handled.
DeliversEvents == Delivery!DSpec

=============================================================================
