# VàoTrận — a verification project

TLA+ modules that model the VàoTrận backend (`src/src`), TLC configurations that
model-check them on small instances, and theorems checked by TLAPS. The modules are
translated from the code; where a comment or a document disagrees with the code, the
code is modelled.

VàoTrận is a modular monolith: one Node process, one PostgreSQL database. A HOST opens
a room for a match, players and parties apply, the host accepts them into seats, the
match starts by hand or by a timer, attendance and ratings are taken, the room is
completed. Around this core stand reliability scores and refill of lost seats, an
outbox that carries events to notifications and analytics, and a search over the slots
that are still free.

## 1. Inventory

Every mutation over HTTP runs through the same frame: `PostgresIdempotencyGate.execute`
opens a transaction, the service locks the rows it decides on (`SELECT ... FOR UPDATE`),
checks, writes, appends events to `event_outbox`, and the gate stores the response; then
the transaction commits. Timers call the same services without a client.

| Component | State it keeps | Operations | Talks to |
|---|---|---|---|
| Room, lifecycle (`modules/room`) | `rooms`, `room_availability_projections`, `room_change_logs` | create, publish, update, cancel, repeat, manual start, auto start, complete | counts seats of participation; asks ranking before completion; tells reliability on completion; emits `ROOM_*` events |
| Participation (`modules/participation`) | `room_applications`, member snapshots, `room_participants`, attendance log | create, withdraw, accept, reject, remove, mark attendance | locks room, application, user schedule; rewrites the projection; calls reliability on acceptance, removal and attendance |
| Party (`modules/party`) | `parties`, `party_members`, guest identities | create, invite, confirm, add guest, claim guest, remove member | supplies the members of an application; a claim rewrites snapshots and seats |
| Idempotency gate (`platform/idempotency.ts`) | `idempotency_keys` | execute | wraps every command of the services |
| Outbox worker (`platform/outbox`) | `event_outbox`, `event_consumptions` | append, runOnce, operator retry | calls notification and analytics, one after the other |
| Reliability, refill (`modules/reliability`) | scores and streaks, `reliability_adjustments`, `slot_recovery_records`, `host_stats`, `room_refill_states` | player cancellation, attendance adjustments, slot loss and recovery, refill on/off/expiry | called by participation and lifecycle inside their transactions |
| Notification (`modules/notification`) | notifications, preferences, devices, `push_deliveries`, reminder claims | handle event, push worker, reminders, mark read | consumer of the outbox |
| Ranking (`modules/ranking`) | skill ratings, calibrated profiles | submit, batch, recompute, completion gate | asked by completion |
| Identity and sessions (`modules/auth`, `modules/identity`, `platform/auth`) | users, profiles, sessions | register, log in, log out, onboard | every request resolves its actor here |
| Operations, reconciliation (`modules/operations`) | audits, reconciliation runs and findings | suspend, retry event or delivery, recount | writes users, outbox and deliveries |
| Search (`modules/search`) | none | query and rank rooms | reads the availability projection |
| Analytics (`modules/analytics`) | `analytics_*` tables | project one event, validate | second consumer of the outbox |
| HTTP layer, database, observability, images, map links, mobile client | — | parsing, connections, metrics, files, screens | — |

What is hard in each, and what makes it correct:

* **Room, participation, party.** Seats, applications, room status and the projection
  are four representations of one fact, changed by twenty commands of three kinds of
  actor and a timer; some commands recount, others adjust by arithmetic. Correct means:
  no overbooking, projection and status equal a recount, applications are answered,
  parties are seated whole, history is final, nobody is accepted into two matches at
  the same time.
* **Idempotency gate.** A command arrives twice at once or again after a lost answer;
  locking a row that does not exist locks nothing. Correct means: one effect per key,
  every repeat gets that effect's answer.
* **Outbox worker.** Passes overlap, consumers fail half way, commits go unanswered and
  the process stops between two transactions. Correct means: one handler per event,
  nothing published unhandled, attempts bounded, nothing lost.
* **Interleaved transactions.** READ COMMITTED, row locks in different orders, rows read
  before they are locked. Correct means: the atomic picture of the core is what
  interleaved commands amount to, up to the exceptions section 7 lists.
* **Reliability and refill.** Each penalty, reversal, loss and recovery once, whatever
  order attendance is corrected in; a refill window that ends.
* **Notification.** A crash between storing a notification and its deliveries, keys that
  suppress what they should not, push attempts that are repeated.
* **Ranking.** The gate of completion asks for ratings while players are marked and guests
  are claimed; calibration and rolling scores round, cap and weigh. Correct means: counters
  and ranks rest on the ratings, and every match played is counted once.
* **Search, reconciliation.** Two more readers of the seats, each with statements of its own.
  Correct means: search shows what participation would accept, own applications apart, and a finding
  of the reconciler stands for a drift (section 3 shows where it does not).
* **Analytics.** A second consumer whose tables an operator may empty and replay while the
  worker goes on. Correct means: what was handed over is in the tables, in any order.
* **Sessions, operations.** Actors suspended while their commands run.

`PROJECT.json` lists the hazards with the lines where they bite and the properties that
cover them; a hazard no property covers says why.

## 2. Modules

| Modules | What they are about | Proofs |
|---|---|---|
| `RoomParticipation` | the core: rooms, applications, seats, commands taken whole | `RoomParticipationProofs` |
| `Search`, `Reconciliation` | what two readers of the core make of its state; both extend it | `RoomParticipationProofs` |
| `RoomTransactions`, `RoomCommands` | party, applications and seats, commands taken statement by statement under row locks, and what these amount to | `RoomTransactionsProofs` |
| `OutboxWorker`, `EventDelivery` | the outbox and what its consumers may rely on | `OutboxWorkerProofs` |
| `IdempotencyGate`, `OnceOnly` | the frame of every HTTP command and what a client may rely on | `IdempotencyGateProofs` |
| `Reliability` | scores, ledger, slot losses, refill | `ReliabilityProofs` |
| `NotificationDelivery` | from an event to a push on a device | `NotificationDeliveryProofs` |
| `SkillRanking` | ratings, calibration, tiers, the rating gate of completion | `SkillRankingProofs` |
| `Analytics` | the second consumer of the outbox and its rebuild | `AnalyticsProofs` |

Each `MC` module gives the constants of one of these their values for TLC; the `.cfg` files
name the run. `RoomTransactions` looks at the same tables as the core at a finer grain.
`NotificationDelivery` and `Analytics` start from what `EventDelivery` promises; the
rest of the system is in them as far as they read it.

Each safety property and each refinement a run checks is also proved (section 11); what stays
with TLC is liveness.

## 3. The core: `RoomParticipation`

Each command of the code is one transaction that locks the rows it decides on before it
decides, so each is one action: conjuncts without primes are the checks that abort the
transaction, primed ones what it commits. The one read that no lock protects, of an application's
members, is taken up in section 7. `map` in `PROJECT.json` ties each definition
to its lines; in outline:

| Model | Code |
|---|---|
| `room[r]`: status, capacity, host plays, reserved, start, end | row of `rooms` |
| `app[a]`: status, room, owner (user or party), member snapshot | `room_applications`, `room_application_members` |
| `seat[<<a, p>>]`, `attendance` | `room_participants.status`, `.attendance_status`; a seat is identified by application and member |
| `proj[r]` | `room_availability_projections`; `UpsertAvailability` carries the table's CHECK, which aborts |
| `claimedBy[g]` | `user_id` of the party member, its snapshots and seats once `claimGuest` has run |
| `now` | the injected `Clock`; `Tick` advances it |
| `CreateRoom RepeatRoom Publish UpdateRoom CancelRoom` | `RoomService` |
| `ManualStart AutoStart Complete` | `RoomLifecycleService` |
| `CreateApplication Withdraw Reject Accept RemoveSeat MarkAttendance` | `ParticipationService` with its repository |
| `CancelSeat` | `ReliabilityService.cancelParticipant`, the parts that move seats |
| `ClaimGuest` | `PartyService.claimGuest` |

Left out: expected row versions (a caller may omit them, so they never narrow what a command can
do), idempotency keys, events, scores and refill (modules of their own), fees, filters, images and
the change log (data no property tells apart). Where a room in progress could accept, the code also
demands an active refill; the model omits that conjunct, so it allows at least what the code allows
— and the theorem `StartAnswersEverybody` shows no application is ever left to be accepted then. A
party's roster is one of `Rosters`; how a party reaches it is in `RoomTransactions`.

**Runs.** `room_participation` has two rooms of one host, two users, a guest, a party and
two applications. That is enough for: a party and a single applicant in one room, an owner
who applies twice, one account with seats in two rooms, a host who plays in another room
and a guest claimed by somebody already seated. Two windows do not overlap and one edit
moves a room across them; shapes include a full one, one with a playing host and a
reserve, and one that validation must refuse. The clock takes two values, which separates
before and after start and grace; rooms and applications are symmetric (no liveness is
checked in this run). `room_participation_liveness` has one room, three clock values and
no symmetry. Deadlock is not checked: a marketplace where every room has ended and the
bounded clock has stopped may rest.

**Fairness.** `FairSpec` assumes weak fairness of `Tick` and of `AutoStart(r)` for each
room. `AutoStartScheduler` runs on an interval for the life of the process and picks
every room whose start has passed. Nothing is assumed of hosts and players. No start
fails in the model: in the code one may, because its room was cancelled or moved after the due
rooms were read, which ends the batch and leaves the rooms behind it to the next tick.

**What the checks show.** `CapacityRespected`, `ProjectionFresh`,
`StatusTracksAvailability`: commands that adjust counts agree with those that recount.
`NoPendingAfterStart`, `RequestsAreResolved`: requests are answered. `AllOrNothingSeating`:
a party is seated whole or not at all. `OneActiveApplicationPerOwner`, `EndedRoomsAreSettled`
and `HistoryIsFinal`, that rows different services write stay consistent and final, are
proved and in no run. `DoubleBookingIsNotAccepted` has its
exceptions in the statement: moving a room and claiming a guest look at no schedule, and
TLC needs both exceptions; every other command keeps a player out of overlapping rooms.

**Search.** `Search` adds no variable: the query reads one state. `SearchAgreesWithParticipation`
compares, in every state of the run `room_participation`, what the query's conditions select
with what an application and an acceptance would demand, for a single player and for the
party, for searches with and without coordinates: a room is shown in vain only to somebody who has
an active application there already, and of the rooms that would do, one is missing only because it
is further away than enough others. The exception is the code's: `createApplication` refuses a second
active application (accepted ones count), and no condition of the query looks for one. One radius of 5
and one of 10 with rooms at 1 and 7 kilometres make the widening happen. Search hides rooms
whose end has passed, which participation would still accept into; the property says so. The
score and order of cards, badges, text filters and the emergency feed are left out.

**Reconciliation.** `CollectRoomFindings` is the reconciler's recount, again a reading of one
state (its transaction is REPEATABLE READ). The recount counts a player reported absent as
seated and the projection does not, so a room with an absence raises a CRITICAL finding although
nothing drifted. `AlarmsAreAbsences`, in the run `room_participation_liveness`, says exactly
this: in every reachable state the reported rooms are the rooms with an absent player, so any
true drift would show as a violation. What the reconciler compares for skill profiles is
`CollectSkillFindings` of `SkillRanking`; its comparisons of reliability and notifications and
its bookkeeping are left out.

## 4. The outbox: `OutboxWorker`, `EventDelivery`

`runOnce` is three transactions and one action or more for each: `Claim`; `Begin`,
`Handle` (once per part of the composite consumer, which commits its own effects) and
`Publish`; `RecordFailure`. `pass[p]` is the local state of one call of `runOnce`: the
events it still holds, the one at hand and where it stands. The timer does not wait for
the previous call, so several passes run at once. What goes wrong is explicit and
bounded: an error in a part or a statement (`Fail`), a commit whose answer is lost
(`LoseCommit`), an error while recording the error (`Abandon`, after which `runOnce`
rejects and drops its batch), the end of the process (`Crash`; a deployment ends it the
same way, since `shutdown` in `server.ts` waits for HTTP but not for passes). An operator's
retry is `RetryOutboxEvent`. Events are numbered by `occurred_at`, may become visible out
of order, and a batch is handled in any order because `RETURNING` fixes none. The retry
delay is a set of `delayed` events; its length is abstracted.

`EventDelivery` is what the consumers may rely on: an event is handed out only when
committed, part after part, and acknowledged only after the last part.
`OutboxImplementsDelivery` proves that every step of the worker, the operator and the
faults is a step of it or none.

**Runs.** `outbox_worker` has three events, two passes of two events each, two parts, two
attempts (the code has five; a retry beyond the limit happens with two), two errors, one
stop and one retry. `SettledUnlessStranded` is its liveness property, under weak fairness
of each pass's work and of the delays: the timer starts passes for the life of the process.
`outbox_worker_loss` is expected to be violated. `docs/events/LIFECYCLE-EVENT-REGISTRY.md`
promises at-least-once delivery; but a pass that ends after `Claim` leaves its events
`PROCESSING`, which `Claim` never selects again and which the operator's retry refuses
(it takes `FAILED_RETRYABLE` and `DEAD_LETTER` only). The counterexample is two events
claimed, one handled, the process stopped. Deadlock is not checked: an outbox with nothing
left to do rests.

## 5. The gate: `IdempotencyGate`, `OnceOnly`

One action per statement of `execute`, for any number of concurrent callers. The model
takes from PostgreSQL what the gate depends on: a `FOR UPDATE` that finds no row locks
nothing, an `INSERT` waits while another transaction's uncommitted row has its key, then
fails if that row was committed and goes on if it was rolled back. A caller beaten to the
key therefore gets an error, not the stored answer; sending the command once more gets the
answer. The answer of a commit or a replay may be lost. Each run of an operation answers
with a response of its own, so a replay can be told from a second execution; `Responses`
must hold one for each fault and key, which the configuration does. `expires_at` is
written but read nowhere, so keys are never freed and time is left out.

`OnceOnly` is the client's view: one effect per key, and answers only of that effect and
only for the request it was executed with. `GateImplementsOnceOnly` proves it.
`AnswerIsStoredWithEffect` makes the code's branch for a row without response dead code.

**Run.** `idempotency_gate`: three callers, one key (keys share nothing), two commands, two
faults. Deadlock is checked. `CallsEnd` assumes weak fairness of each caller's next
statement, that is, of the database.

## 6. Scores, losses and refill: `Reliability`

`ReliabilityService` has few commands of its own: most of it is called inside the
transactions that move seats. So each action is such a transaction seen from this side,
with everything the service writes in it:

| Model | Code |
|---|---|
| `stats[u]`, `ledger` | `player_reliability_stats`; `reliability_adjustments`, whose key is user, source and reason |
| `loss[<<s, n>>]` | row of `slot_recovery_records`; 0 is the cancellation or removal of seat `s`, `n` its `n`-th NO_SHOW mark |
| `hosting[u]` | lost and recovered slots in `host_stats`, kept by adding and subtracting |
| `refill[r]` | `room_refill_states`: active, and the end of the window (`Nil` for none) |
| `marks[s]`, `moved` | NO_SHOW rows of the attendance log; seats accepted before a material change |
| `CancelSeat`, `Adjust`, `Give` | `cancelParticipant`, `applyPlayerAdjustment`, `recordLossAndMaybeActivateRefill` |
| `MarkNoShow`, `MarkPresent` | `markAttendance` with `onAttendanceTransition` and `voidSlotLossForEvent` |
| `Accept` | acceptance with `assertInProgressRefillAdmission` and `onParticipantsAccepted` |
| `Complete` | completion with `onRoomCompleted` |
| `ActivateRefill`, `DisableRefill`, `ExpireRefill` | the host's commands and `RefillExpiryScheduler` |

The rest of a seat's life is taken over from the core in outline: rooms start out published, OPEN
and FULL are one status told apart by the free slots, applications exist from the beginning, and
schedules, overlapping withdrawals, the rating gate and the timing of the automatic start are left
to the modules that are about them. A host edits the number of places (the capacity, less the host's
own place if the host plays), the places set aside and the emergency replacement; as in the code an
edit must leave room for the players seated, not for losses that are pending. `Start` is a constant:
an edit of the schedule shows here as a material change, which waives penalties; that it moves the
cutoff and the refill window is left out. Counters of a profile that nothing decides on (matches
played, late cancellations, on-time rates) are left out. Time has the grain of the configured
delays.

**Runs.** `reliability` has one room that offers one or two places, to be edited at any time, a
party of a player and a guest and a second application of the same player, who may come back after
leaving. Two NO_SHOW marks per seat let a host change a verdict twice; with the score at 20, a late
cancellation at 5 and an absence at 15 the score reaches its floor, and is cut off there, within
these bounds. Three clock values put cancellations before and after the cutoff and the end of a
refill window before, at and after now. The host sets no place aside in this run (`MaxReserved` is
0): a reserve takes a place away as a smaller capacity does, the two other runs have one, and the
proofs any number. Deadlock is not checked: rooms end and the bounded clock stops.
`RefillWindowCloses` holds under weak fairness of `Tick` and `ExpireRefill(r)`: the scheduler runs
on an interval for the life of the process. It speaks of refills that have an end, for one activated
before the start has none and nothing stops it later.

`reliability_completion` is expected to be violated. Completing a room rewards a player who
has reached the streak below the top score; the adjustment's source is the completion's id
joined to the participant's by a colon, and the column is a UUID, so the database refuses
it and the completing transaction rolls back. The counterexample needs two rooms: a late
cancellation in one, presence in the other, whose host then asks for completion for ever
(`CompletingSpec`) and is refused for ever. The handoff document promises completion once all
gates hold; the integration test of the point earned after five matches calls the repository
with UUIDs and completes no room. `StreakLimit` is 1 in the runs, 5 in the code.

`reliability_claim` is expected to be violated. The lifecycle audit says that a correction to
PRESENT reverses the penalty; but a guest marked absent before being claimed cost nobody
anything, and the correction after the claim pays the claimant. `ReversalsAnswerPenalties` states what
does hold: for players who were registered all along, each reversal answers a penalty.

**What the checks show.** `NeverOvercharged` and `NoShowsAreCharged` survive the cut at both
ends of the score, repeated corrections and claims. `HostProfileMatchesLosses`: arithmetic on
the profile equals a recount of the records. `LossesHaveEmptyPlaces`: in a room still to be played,
no step makes pending losses and players together more than they were and more than the places, so
an acceptance makes good for losses as it must and a correction reports no place that is taken. The
places themselves may shrink under them: after a late cancellation the code lets a host close the
place that was lost, and its loss stays pending. `CorrectionsVoidLosses`: a player who turns out to be
present leaves no loss pending.

## 7. Interleaved commands: `RoomTransactions`, `RoomCommands`

The core takes a command as one step. Here a command of `PartyService`, of `ParticipationService` or
of `ReliabilityService` that moves a seat is a transaction of several statements, run by one of
`Sessions`:

| Model | Code |
|---|---|
| `tx[s]`, `held[s]`: command, its argument, the step it has reached, what it has read; the locks it waits for and holds | one transaction of `db.ts` |
| `Acquire(s)` | a row lock granted; a statement that locks several rows takes them in any order |
| `BreakDeadlock(s)` | PostgreSQL aborts one transaction of a circle |
| `RequestFriendship`, `RespondFriendship`, `AddMember`, `RespondMember`, `RemoveMember`, `ClaimGuest` | `PartyService` |
| `ApplyAlone`, `ApplyWithParty`, `WithdrawApplication`, `RejectApplication`, `AcceptApplication`, `RemoveParticipant` | `ParticipationService` |
| `CancelParticipant` | `ReliabilityService.cancelParticipant`: the player's seat, the room, then the rows of the guests who leave with an owner |
| `CancelRoom` | `RoomService.cancel`, with the rows it settles |

What a statement reads without a lock is kept in `tx` and used later, however old it is by
then; writes show at the commit, since the rows they touch are locked or new. A check that
fails on the first row a command locks changes nothing and is left out, as a stutter. The
party is followed from its creation. A party may apply again and again, as the code lets
it (a comment of migration 008 speaks of a one-time aggregate); the status `CLOSED`
is never set. Two friendship requests in opposite directions are kept apart by a unique
index, so requests are single steps. The advisory lock on a user's schedule and the
withdrawal of overlapping applications both keep acceptances of one user apart; either is enough.

Left out: marking attendance, which locks a seat and its room as a removal does (no room is under
way here, so it would be refused); start, which locks a room and then its applications as a
cancellation does; completion, which locks the room alone; and the rows of reliability and
statistics, which commands lock last, with whatever waits for them.

`RoomCommands` says what all this comes to for whoever only sees the tables: each command is
one step, which decides on what they hold when it commits, and sessions and locks are gone.
It is weaker than a database without company in three places only, each of which the run needs:
`MembersRead` (an acceptance may seat a guest as he was before a claim), `reached` (a claim may miss
seats of its guest) and `TakenBack` (an acceptance withdraws the applications it found, whatever they
have become, and not those filed since).

**Run.** `room_transactions`: two sessions, two rooms at the same hours with two slots each, a party
owner, a second user who may also apply alone, one guest, two applications, and at most one room
cancelled. Every pair of commands meets at every pair of statements. Two sessions are enough for
every wait between two commands, not for circles of three. Deadlock, of the model, is not checked:
everything may be settled.

**What the checks show.** `FrozenComposition`: while its application is live the party is the one
the host reviews. `CommandsTakeEffectAtOnce`: what a command has read and acts on still holds when
it commits, so nobody is seated in a full or cancelled room, answered twice or removed from a seat
he has lost. `AcceptedSchedulesAreDisjoint`: racing acceptances do not double-book a registered
player. `DeadlocksAreInversions`: circles only arise with the cancellation of a room (room before
its applications and seats), an owner who leaves (his guests' seats, application and party after the
room, while the removal of one of these guests has the seat and waits for the room), a claim (member
before party, seats last) or the overlapping withdrawals of an acceptance; the order of the other
commands excludes them. `SeatsFollowAnswers` has the one exception the code needs: an acceptance
reads the members before it locks anything that a claim would change, so a claim committed in
between leaves a seat without its account for good. Such a seat stays `ACTIVE` even when its
application is then withdrawn by an acceptance elsewhere, whose `UPDATE` rechecks the identifier
only; this is where `AllOrNothingSeating` of the core depends on commands being atomic. The same
recheck lets a rejection committed meanwhile be overwritten by `WITHDRAWN`.

## 8. From event to device: `NotificationDelivery`

| Model | Code |
|---|---|
| `event[e]` | what the outbox hands over; `done` is PUBLISHED |
| `handler[e]` | an open call of the consumer: recipients still to come, and whether it stands between the notification and its deliveries |
| `note`, `disabled`, `device` | notifications by recipient and key, preferences, devices |
| `delivery[<<u, e, d>>]` | row of `push_deliveries` |
| `pass[p]` | one call of the push worker, claimed deliveries and the one at hand |
| `pushes` | history: what the gateway was asked to send |

Storing a notification and creating its deliveries are statements of their own; claiming,
sending and recording are three steps, and passes of the push worker overlap. Errors,
unanswered calls and early ends are counted together in `faults`. The deduplication key is
modelled as the code makes it: per event, except that a cancellation or a material change has
one per room and a first rank one per player; so the second material change of a room finds
the first one's notification and tells nobody.
Recipients of a room's events include players who cancelled their own seat. The expiry check of an
intent never skips anything and `markDeliverySkipped` has no caller; neither is in the model.

**Run.** `notification`: one room, host and player, one device that may change hands, one
event, two passes of two deliveries, two attempts (five in the code; a retry beyond the limit
happens with two), two faults, one change of settings and one retry by an operator. Deadlock
is not checked: a system with nothing left to send rests.

**Fairness.** Weak fairness of a handler's next statement, of a pass's work and of the end of a
delay: `server.ts` starts both workers on timers for the life of the process.

**What the checks show.** `CancelledPlayersAreTold`: no failure between claim and acknowledgement
loses a cancellation's notification, whatever preferences say. `RepeatsNeedFaults`: overlapping
passes, operators and devices that change hands never push twice; only a fault can.
`CancellationReachesDevices` is liveness of runs without faults, and excuses every fault for a
reason: a handler interrupted between a notification and its deliveries leaves none, and the key
keeps them from ever being made.

## 9. Ratings and ranks: `SkillRanking`

A submission locks the room, the seat and both profiles, so it is one action, for one player or
a batch. `CalibratedScore` and the rolling mean are operators in hundredths, with the code's
trimming, weights, cap on a rating's distance and rounding; the boundaries of the tiers with
their buffers and the cool-down follow. `CompleteRoom` is the gate: every `PRESENT` seat must
have a profile, and be rated if the host may rate it. A guest nobody claimed has no profile, so
such a guest's presence keeps a room from completing until somebody claims him. The code takes ratings only
while the room is in progress; `M14-B-COMPLETION-SEMANTICS.md` can be read as allowing them later.

**Run.** `skill_ranking`: a ranked host with three rooms, a newcomer two ratings into a
calibration of three, a master in whose room the host plays beside a guest, and a claimer who may
still lack a profile. Ratings of 1.00 and 5.50 move a first rank and then a tier across a
boundary; a window of two makes ratings fall out of it (the code's figures are larger; three
rooms give each player at most three new ratings). Deadlock is not checked: rooms end.

**What the checks show.** `ProfilesRestOnRatings`: the reconciler's comparison of a profile with
its ratings never finds anything. `ScoreWithinRatings`: rounding, weights and caps never take a
score outside what was given. `MatchesAreCompletedRooms`: completed matches count right, also for a
claimed guest. `TiersCoolDown`: a tier that changed has stood for its number of ratings.
`EventsTellTheRank`: replaying a player's events gives the rank of the profile, the first rank is
published once (the notification's key counts on it), and promotions and demotions move as they
say. The top tier is out of reach of the ratings in this run.

## 10. The projection and its rebuild: `Analytics`

One projection is one transaction that marks the event processed and writes facts. Events come as
`EventDelivery` promises: until acknowledged, any number of times, out of order, each in the hands
of one pass at a time (`InHand`). `server.ts` starts a pass every two seconds without waiting for
the one before, so several `Passes` project side by side, each another event. The rebuild
(`scripts/m11-analytics-rebuild.ts`) runs in its own process: `Truncate` empties the tables and
waits for whoever uses them, `SelectEvents` reads the whole outbox in order of occurrence, `Replay`
and `ReplayCommits` project one event after the other, `RebuildFails` ends it on the way. A
transaction reads when it begins, of the tables what its event makes it look up (`Read`), and writes
when it commits; row locks make the second writer of a row wait, and that includes the rows of the
users' profiles. Positions in the outbox stand for times; events of the same millisecond, which a
random identifier orders, are left out.

**Run.** `analytics`: one room, one place taken by the applicant or by a guest somebody may claim, two
marks (a mark and its correction), one rebuild, and two passes (symmetric) that take an event at
most one ahead of an older one. `MaxAtWork` bounds who works at once: two passes, or one pass beside
the rebuild; all three together are left to the proofs, which hold for any number. Deadlock is not
checked.

**What the checks show.** `HandledEventsAreProjected`: outside a rebuild, and unless one stopped on
its way, what is published is in the tables; a rebuild that stops leaves events nobody hands over again.
`PresenceIsCounted`: mark and completion in either order yield the completed participation. Each
transaction could miss the other's half, and without `~crossed` TLC finds that it happens, with two
passes and no rebuild at all as well as with a rebuild beside a pass. So the property excludes a
completion and a mark of presence that are open at the same time (`crossed`), and nothing else:
projections may overlap in every other way. `RebuildRestoresTheTruth`: a rebuild undisturbed by the
passes (`alone`) gives the truth, but for a guest claimed after the last mark, since no event of a claim is
projected. It is promised of nothing else, for facts do get lost when events overtake each other: an
acceptance before its application, a mark before its participant; and a completed participation
stays when a later correction arrives first. `ValidationFindsNothing`: the validation's checks
of provenance hold throughout.

## 11. Proofs

All theorems hold for every value of the constants under the assumptions of the modules:
finite sets of persons, applications, participants and events, positive batch size, attempt
limit and number of parts, natural numbers for points, delays and bounds, and `Nil` values that
are no member of the sets they extend (in `Analytics` neither a user nor a place, for an event
of the room has a NULL participant). A few say more of the data: a roster has a member, somebody
may switch off a notification only of a type there is, some tier exists, and the first
profiles of `SkillRanking` are such as their first ratings make (`InitialAssumption`).

Each component has one proof module, with an invariant that every step keeps and from which the
theorems follow:

* `RoomParticipationProofs` — `IInv == Records /\ Counted`. `Records` says how rows refer to each
  other (unused applications own nothing; a seat exists exactly for the members of an accepted
  application; an application that is not new has a room; ended rooms are settled; one live
  application per owner and room). `Counted` says that projection and status equal a recount.
  Neither the projection nor the capacity is inductive alone: an acceptance writes the new count by
  arithmetic, and that this equals the recount needs that no seat of the application existed before,
  which `Records` gives. Cardinality lemmas from `FiniteSetTheorems` carry the arithmetic.
  `AcceptFields` shows that acceptance only ever happens in a room that is OPEN or FULL.
  `HistoryKept` and `NoDoubleBookingByAcceptance` are action properties proved from the same
  invariant. What search shows and the reconciler reports is read off it: `SearchIsTruthful`
  compares conditions, the one on earlier applications included; `AlarmsStandForAbsences` shows that
  the stored projection and the reconciler's recount differ by the absences and by nothing else.
* `RoomTransactionsProofs` — an argument of exclusion. `Under(s)` is what the command of session
  `s` has read and still relies on, next to the lock that keeps it so; `Data` is how rows agree with
  each other; no lock has two holders (`LocksAreExclusive`). A statement that does not commit
  can disturb `Under` of its own session only. A commit ends its session's command, so
  what remains is `Data`, and `Under` of sessions that cannot have had the locks of the one that
  commits. `DeadlocksNeedInversions` stands on an invariant of its own: `Ordered(s)` lists the
  kinds of locks a command has and asks for. Whoever wants a member's or a friendship's row, and
  whoever holds one and waits, has the party's lock, and they cannot both; whoever holds a schedule
  waits for one of a later player, and among finitely many somebody comes last. So a circle of
  waits has a command in it that asks against the order. `TransactionsImplementCommands` is a
  refinement, the tables mapped to themselves: `Standing(s)` adds to `Under(s)` what the guards of
  the command's one step ask for (the invited member is still invited, the seat to be taken away
  still held, the room to be cancelled still open with every seat of it locked), and
  `Aside(t)` that a commit leaves alone what others have locked. So a commit is the step, and every
  other statement a stutter.
* `OutboxWorkerProofs` — the invariant adds to the checked properties that what a pass
  holds is `PROCESSING` (or `PUBLISHED` while the pass records an unanswered commit), which
  parts have handled an event given where its pass stands, that consumption is recorded only
  after the last part, and that a pending event still has an attempt left.
* `IdempotencyGateProofs` — the invariant adds that a transaction past its insertion holds
  its key alone while no committed row exists for it, and that rows, effects and answers
  agree.
* `ReliabilityProofs` — three invariants. `LedgerInv` adds to the checked properties that each
  entry of the ledger belongs to the account and to a mark of its seat: so a new mark's
  entry is new, and mark and correction change score, counter and the set of standing
  absences alike. `HostInv` adds `Unrecorded`: a seat still held, or a mark still to be
  made, has no loss on record, without which a second recording would be counted twice.
  `PlacesInv` is about empty places. `CorrectionsVoidLosses` is inductive once marks are known
  to need a started room (`VerdictsNeedStart`), where nobody waits for an answer (`ClosedAtStart`).
  `LossesHaveEmptyPlaces` follows action by action: a departure or an absence gives
  up the place its loss stands for, and an acceptance makes good for as many losses as it takes
  places, or for all. A correction after the loss has expired is the one step that takes a place
  without voiding a loss; then only losses of absent players can be pending (`ExpiryEndsAll`,
  `AbsencesMarked`), and they and the others have seats that fit into the places (`SeatsFit`).
  `RoomsAreNotOversold` rests on every edit counting the players again.
* `NotificationDeliveryProofs` — two invariants that share only types. `Telling`: in a cancelled
  room seats stand still, so who had a seat when the event's recipients were worked out is still
  to be seen to or has the notification. `Ringing`: what a pass holds is `PROCESSING` and in no
  other pass, and a delivery that can be pushed again has been pushed no more often than
  calls have failed.
* `AnalyticsProofs` — an event is marked processed in the transaction that writes its facts, and
  `Truncate` takes both away (`ProcessedIsShown`). `NothingSkipped` follows a published event
  through a rebuild: processed, at hand, or in the replay's queue. `AllSourced` is about the tables
  and about whatever an open projection has read of them, or the commit could bring a fact back
  without its event. `InTurn`: as long as no completion and mark of presence have been open at once,
  an open completion has read whoever the tables call present, and an open mark whether they call
  the room completed (`Current`), whatever other projections commit beside them; `PresenceIsCounted`
  is inductive together with it. `ReplayAlone`: without passes a replay has read what the tables
  hold. `RebuildRestores` needs two more. `ProductTold`: the events of the outbox, read in their
  order, give whatever the product holds of places, marks and the completion, and name everybody
  they are about after the event that created his place. `ReplayedInOrder`: in a rebuild the passes
  have left alone the tables hold (`Mirrors`) what the first `k` events tell, the next event is
  being projected or first in the queue, and the queue holds the rest in order. Each kind of event
  takes tables that mirror `k` events to tables that mirror `k + 1`; a replay that is through
  mirrors them all, so it counts whom the outbox calls present.
* `SkillRankingProofs` — `MadeOf`, that a profile is one its ratings make, is inductive: a mean, a
  weighted mean and a median stay within the values they are taken of. Their sums are folds; a bound
  on them is proved of all prefixes, from the shortest it would fail of. Completed matches need
  `PresentAreKnown`: whoever was present in a completed room has a profile, so a guest claimed later
  was in none. `FollowersKnowTheRank` treats events as moves (`Tells`): a sequence that leads from
  one tier to a second and another from there to a third, put together, lead from the first to the
  third, so the few events of each submission are examined alone (`Link`) and appended to what was
  told before (`Chain`). `TiersCool` is an action property.

Proved and in no run are type correctness, of every component (`TypeCorrect`, `TransactionsTyped`),
and `OneActiveApplicationPerOwner`, `EndedRoomsAreSettled`, `HistoryIsFinal`,
`HandlesOnlyUnconsumed`, `PublishedIsComplete`, `OnePerKey`, `NotOversold`, `SlotsAreNotOversold`,
`Exclusion` and `OnePassEach`: a proof covers every instance, and the runs are kept for what only
they can show or what a proof should be checked against.

The prover's reach ends at liveness and `ENABLED`: `RequestsAreResolved`,
`SettledUnlessStranded`, `CallsEnd`, `RefillWindowCloses` and `CancellationReachesDevices` are
checked by TLC only, and so are the expected violations.

## 12. Not modelled

* Pure I/O and presentation: HTTP parsing and routing, database pool, migrations, metrics, images,
  map links, the mobile client. Every command of the models is one route.
* Sessions and identity: each session is a row that one request reads or revokes; hashing, tokens
  and their expiry are data without control. Suspending a user is one update that only the filing of
  an application looks at.
* Search: score and order of cards, badges, filters on text, telemetry, the emergency feed.
* Analytics: reports and funnels, experiments, counters of health and failures, events of
  unsupported versions, drift of aggregates, hashing of keys, and the times of publication,
  sharing, filling, cancelling and repeating a room.
* Notification: the feed and its read marks, read by nobody but their user; texts and
  payloads.
* Reconciliation: the comparisons of reliability and of notifications, the rows of runs and
  findings, the audit trail.
* Ranking: the outlier flag and the confidence figure, which no command reads.
* Reliability: counters that are only ever incremented, and the read-only ranking of the waitlist.
* Room: fees, equipment, filters, images and the change log.
