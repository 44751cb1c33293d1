------------------------ MODULE NotificationDelivery ------------------------
(***************************************************************************)
(* From a room's events to a push on a player's device.  The notification  *)
(* consumer of the outbox works out whom an event concerns and stores one  *)
(* notification for each; a deduplication key makes handling an event      *)
(* again harmless.  For each enabled device of the user a delivery is      *)
(* stored, in a statement of its own.  The push worker claims due          *)
(* deliveries in one transaction, calls the gateway, and records the       *)
(* outcome in another; its passes overlap and may end anywhere.            *)
(*                                                                         *)
(* Rooms, seats and clock are those of the core in outline: what the       *)
(* consumer and the reminder scheduler read.  The outbox is reduced to its *)
(* promise (EventDelivery): an event may be handled again until it is      *)
(* acknowledged, by one handler at a time.                                 *)
(***************************************************************************)
EXTENDS Naturals, FiniteSets

CONSTANTS
  Users, Rooms, Devices,
  DeviceOf,      \* who registered each device to begin with
  Host,          \* the user who hosts the rooms
  Events,        \* events that concern this component, numbered as they are appended
  Passes,        \* passes of the push worker that may overlap
  Announced,     \* types of the events that come without a change seen here
  StartTimes,    \* when rooms start and where edits move them to
  Lead,          \* how long before the start a reminder is due
  Lag,           \* how long after the start the host is reminded to complete
  MaxTime,       \* bound of the clock
  AttemptLimit,  \* the attempt that dead-letters a delivery when it fails
  BatchSize,     \* deliveries a pass claims at most
  MaxFaults,     \* bound: errors, unanswered calls and passes that end early
  Switched,      \* types whose category users may switch off or on
  MaxSettings,   \* bound: changes of preferences and devices
  MaxRetries,    \* bound: retries an operator asks for
  Nil            \* no user, no event, no delivery

ToHost == {"JOIN_REQUEST_CREATED", "PLAYER_LATE_CANCELLED", "PUBLIC_SLOT_OPENED",
           "REPLACEMENT_CANDIDATE_AVAILABLE", "ROOM_COMPLETION_REMINDER", "ROOM_COMPLETED"}

ToPlayers == {"ROOM_CANCELLED", "ROOM_MATERIAL_CHANGED", "ROOM_START_REMINDER"}

ToSubject == {"JOIN_REQUEST_ACCEPTED", "JOIN_REQUEST_REJECTED", "PARTY_MEMBER_INVITED",
              "PLAYER_INITIAL_RANK_PUBLISHED"}

Types == ToHost \cup ToPlayers \cup ToSubject

ASSUME NotificationAssumption ==
  /\ Host \in Users /\ DeviceOf \in [Devices -> Users] /\ Nil \notin Users \cup Events
  /\ Nil \notin Types /\ Switched \subseteq Types
  /\ IsFiniteSet(Users) /\ IsFiniteSet(Devices) /\ IsFiniteSet(Events)
  /\ Announced \subseteq (ToHost \cup ToSubject) \ {"JOIN_REQUEST_ACCEPTED"}
  /\ Events \subseteq Nat /\ StartTimes \subseteq Nat /\ Lead \in Nat /\ Lag \in Nat /\ MaxTime \in Nat
  /\ AttemptLimit \in Nat \ {0} /\ BatchSize \in Nat \ {0}
  /\ MaxFaults \in Nat /\ MaxSettings \in Nat /\ MaxRetries \in Nat

VARIABLES
  now,
  room,      \* status and start of each room
  seat,      \* room_participants, one seat per room and user
  event,     \* the outbox: what each event says, and whether it is acknowledged
  handler,   \* each event's handler: users still to see to, the user just stored
  disabled,  \* notification_preferences: the categories a user switched off
  note,      \* notifications, named by user and the event that stored them
  device,    \* push_devices: owner and whether it is enabled
  delivery,  \* push_deliveries, one per notification and device
  pass,      \* what each pass of the push worker holds and where it stands
  pushes,    \* how often the gateway has put a delivery on its device
  faults, settings, retries

source == <<now, room, seat>>
stored == <<disabled, note, device>>
bounds == <<faults, settings, retries>>
vars == <<source, event, handler, stored, delivery, pass, pushes, bounds>>

-----------------------------------------------------------------------------
(* Events, recipients and keys. *)

\* Mutant: a cancelled room asks for the recipient's preference like the rest.
OnlyChanges == {"ROOM_MATERIAL_CHANGED"}

Critical == {"ROOM_CANCELLED", "ROOM_MATERIAL_CHANGED"}

Category(t) ==
  CASE t = "JOIN_REQUEST_CREATED" -> "JOIN_REQUESTS"
    [] t = "PARTY_MEMBER_INVITED" -> "PARTY_INVITES"
    [] t = "REPLACEMENT_CANDIDATE_AVAILABLE" -> "EMERGENCY_OPPORTUNITIES"
    [] t = "ROOM_START_REMINDER" -> "MATCH_REMINDERS"
    [] t = "PLAYER_INITIAL_RANK_PUBLISHED" -> "RANK_UPDATES"
    [] OTHER -> "ROOM_UPDATES"

Categories == {Category(t) : t \in Types}

NoEvent == [type |-> Nil, room |-> Nil, subject |-> Nil, done |-> FALSE]

\* Mutant: only those who still have the seat.
StillSeated(r) == {u \in Users : seat[<<r, u>>] = "ACTIVE"}

\* Everybody with a seat the host did not take away, players who left included.
ListRoomParticipantUserIds(r) ==
  {u \in Users : seat[<<r, u>>] \in {"ACTIVE", "CANCELLED"}}

Recipients(e) ==
  CASE event[e].type \in ToHost -> {Host}
    [] event[e].type \in ToPlayers -> ListRoomParticipantUserIds(event[e].room)
    [] event[e].type \in ToSubject -> {event[e].subject}

\* A room is cancelled or changed once as far as keys go, a rank first published
\* once; everything else is told apart by its event.
DedupeKey(e) ==
  CASE event[e].type \in Critical -> <<event[e].type, event[e].room>>
    [] event[e].type = "PLAYER_INITIAL_RANK_PUBLISHED" -> <<event[e].type, event[e].subject>>
    [] OTHER -> <<event[e].type, e>>

Known(u, e) == \E f \in Events : <<u, f>> \in note /\ DedupeKey(f) = DedupeKey(e)

Wants(u, e) == event[e].type \in Critical \/ Category(event[e].type) \notin disabled[u]

-----------------------------------------------------------------------------
(* Deliveries and passes. *)

Deliveries == Users \X Events \X Devices

NoDelivery == [status |-> "NONE", attempts |-> 0, due |-> FALSE]

NewDelivery == [status |-> "PENDING", attempts |-> 0, due |-> TRUE]

\* Mutant: what looks stuck is claimed too.
ClaimableOrStuck == {"PENDING", "FAILED_RETRYABLE", "PROCESSING"}

Claimable == {"PENDING", "FAILED_RETRYABLE"}

DueDeliveries == {d \in Deliveries : delivery[d].status \in Claimable /\ delivery[d].due}

Between(batch) == [batch |-> batch, at |-> "BETWEEN", item |-> Nil]

NextItem(p) == [pass EXCEPT ![p] = Between(@.batch \ {@.item})]

-----------------------------------------------------------------------------

Init ==
  /\ now = 0
  /\ room \in [Rooms -> [status : {"OPEN"}, start : StartTimes]]
  /\ seat \in [Rooms \X Users -> {"NONE", "ACTIVE"}] /\ \A r \in Rooms : seat[<<r, Host>>] = "NONE"
  /\ event = [e \in Events |-> NoEvent]
  /\ handler = [e \in Events |-> [open |-> FALSE, todo |-> {}, at |-> Nil]]
  /\ disabled = [u \in Users |-> {}]
  /\ note = {}
  /\ device = [d \in Devices |-> [owner |-> DeviceOf[d], enabled |-> TRUE]]
  /\ delivery = [d \in Deliveries |-> NoDelivery]
  /\ pass = [p \in Passes |-> Between({})]
  /\ pushes = [d \in Deliveries |-> 0]
  /\ faults = 0 /\ settings = 0 /\ retries = 0

\* An event of the transaction that appends it.
Append(e, t, r, u) ==
  /\ event[e] = NoEvent /\ \A f \in Events : f < e => event[f] # NoEvent
  /\ event' = [event EXCEPT ![e] = [type |-> t, room |-> r, subject |-> u, done |-> FALSE]]

(* What the other components do, as far as an event of theirs is read here. *)

Tick ==
  /\ now < MaxTime
  /\ now' = now + 1
  /\ UNCHANGED <<room, seat, event, handler, stored, delivery, pass, pushes, bounds>>

AcceptApplication(e, r, u) ==
  /\ room[r].status = "OPEN" /\ seat[<<r, u>>] # "ACTIVE" /\ u # Host
  /\ seat' = [seat EXCEPT ![<<r, u>>] = "ACTIVE"]
  /\ Append(e, "JOIN_REQUEST_ACCEPTED", r, u)
  /\ UNCHANGED <<now, room, handler, stored, delivery, pass, pushes, bounds>>

\* Cancelled by the player or taken away by the host; what the host is told
\* of it is among the announcements.
LoseSeat(r, u) ==
  /\ room[r].status = "OPEN" /\ seat[<<r, u>>] = "ACTIVE"
  /\ \E s \in {"CANCELLED", "REMOVED_BY_HOST"} : seat' = [seat EXCEPT ![<<r, u>>] = s]
  /\ UNCHANGED <<now, room, event, handler, stored, delivery, pass, pushes, bounds>>

UpdateRoom(e, r, s) ==
  /\ room[r].status = "OPEN" /\ room[r].start # s
  /\ room' = [room EXCEPT ![r].start = s]
  /\ Append(e, "ROOM_MATERIAL_CHANGED", r, Nil)
  /\ UNCHANGED <<now, seat, handler, stored, delivery, pass, pushes, bounds>>

CancelRoom(e, r) ==
  /\ room[r].status = "OPEN"
  /\ room' = [room EXCEPT ![r].status = "CANCELLED"]
  /\ seat' = [x \in Rooms \X Users |->
                IF x[1] = r /\ seat[x] = "ACTIVE" THEN "CANCELLED" ELSE seat[x]]
  /\ Append(e, "ROOM_CANCELLED", r, Nil)
  /\ UNCHANGED <<now, handler, stored, delivery, pass, pushes, bounds>>

StartRoom(r) ==
  /\ room[r].status = "OPEN" /\ room[r].start <= now
  /\ room' = [room EXCEPT ![r].status = "IN_PROGRESS"]
  /\ UNCHANGED <<now, seat, event, handler, stored, delivery, pass, pushes, bounds>>

CompleteRoom(e, r) ==
  /\ room[r].status = "IN_PROGRESS"
  /\ room' = [room EXCEPT ![r].status = "COMPLETED"]
  /\ Append(e, "ROOM_COMPLETED", r, Nil)
  /\ UNCHANGED <<now, seat, handler, stored, delivery, pass, pushes, bounds>>

\* The remaining events change nothing this component reads.
Announce(e, r, u) ==
  /\ \E t \in Announced : Append(e, t, r, IF t \in ToSubject THEN u ELSE Nil)
  /\ UNCHANGED <<source, handler, stored, delivery, pass, pushes, bounds>>

-----------------------------------------------------------------------------
(* The reminder scheduler: one transaction per round, one event per room. *)

Reminded(r, t) == \E e \in Events : event[e].type = t /\ event[e].room = r

StartsSoon(r) ==
  room[r].status = "OPEN" /\ now < room[r].start /\ room[r].start <= now + Lead

Overdue(r) == room[r].status = "IN_PROGRESS" /\ room[r].start + Lag <= now

\* Rooms share nothing, so a round of the scheduler is taken room by room.
ClaimReminderRoomIds(t) ==
  {r \in Rooms : /\ IF t = "ROOM_START_REMINDER" THEN StartsSoon(r) ELSE Overdue(r)
                 /\ ~ Reminded(r, t)}

Remind(e) ==
  /\ \E t \in {"ROOM_START_REMINDER", "ROOM_COMPLETION_REMINDER"} :
       \E r \in ClaimReminderRoomIds(t) : Append(e, t, r, Nil)
  /\ UNCHANGED <<source, handler, stored, delivery, pass, pushes, bounds>>

-----------------------------------------------------------------------------
(* The consumer. *)

\* intentsFor: the recipients are read before the first of them is told.
IntentsFor(e) ==
  /\ event[e].type # Nil /\ ~ event[e].done /\ ~ handler[e].open
  /\ handler' = [handler EXCEPT ![e] = [open |-> TRUE, todo |-> Recipients(e), at |-> Nil]]
  /\ UNCHANGED <<source, event, stored, delivery, pass, pushes, bounds>>

\* The preference is read and the notification inserted; a user who does not
\* want it, or has one with this key, is passed over.
InsertNotification(e) ==
  /\ handler[e].at = Nil
  /\ \E u \in handler[e].todo :
       LET new == Wants(u, e) /\ ~ Known(u, e)
       IN  /\ note' = IF new THEN note \cup {<<u, e>>} ELSE note
           /\ handler' = [handler EXCEPT ![e].todo = @ \ {u}, ![e].at = IF new THEN u ELSE Nil]
  /\ UNCHANGED <<source, event, disabled, device, delivery, pass, pushes, bounds>>

EnabledDevices(u) == {d \in Devices : device[d] = [owner |-> u, enabled |-> TRUE]}

\* A second statement, which no transaction joins to the first.
CreateDeliveries(e) ==
  LET u == handler[e].at
  IN  /\ u # Nil
      /\ delivery' = [d \in Deliveries |->
                        IF d[1] = u /\ d[2] = e /\ d[3] \in EnabledDevices(u)
                          /\ delivery[d] = NoDelivery
                        THEN NewDelivery ELSE delivery[d]]
      /\ handler' = [handler EXCEPT ![e].at = Nil]
      /\ UNCHANGED <<source, event, stored, pass, pushes, bounds>>

\* The outbox worker records the consumption.
Acknowledge(e) ==
  /\ handler[e].open /\ handler[e].todo = {} /\ handler[e].at = Nil
  /\ event' = [event EXCEPT ![e].done = TRUE]
  /\ handler' = [handler EXCEPT ![e].open = FALSE]
  /\ UNCHANGED <<source, stored, delivery, pass, pushes, bounds>>

\* A statement fails anywhere in between: the outbox hands the event out again.
InterruptHandler(e) ==
  /\ handler[e].open /\ faults < MaxFaults
  /\ faults' = faults + 1
  /\ handler' = [handler EXCEPT ![e] = [open |-> FALSE, todo |-> {}, at |-> Nil]]
  /\ UNCHANGED <<source, event, stored, delivery, pass, pushes, settings, retries>>

-----------------------------------------------------------------------------
(* The user. *)

UpdatePreferences(u) ==
  /\ settings < MaxSettings
  /\ settings' = settings + 1
  /\ \E c \in {Category(t) : t \in Switched} :
       disabled' = [disabled EXCEPT ![u] = IF c \in @ THEN @ \ {c} ELSE @ \cup {c}]
  /\ UNCHANGED <<source, event, handler, note, device, delivery, pass, pushes, faults, retries>>

\* The push token names the device: registering it again changes its row.
RegisterPushDevice(u, d) ==
  /\ settings < MaxSettings
  /\ settings' = settings + 1
  /\ \E b \in BOOLEAN : device' = [device EXCEPT ![d] = [owner |-> u, enabled |-> b]]
  /\ UNCHANGED <<source, event, handler, disabled, note, delivery, pass, pushes, faults, retries>>

-----------------------------------------------------------------------------
(* The push worker. *)

Claim(p) ==
  /\ pass[p].batch = {}
  /\ \E S \in (SUBSET DueDeliveries) \ {{}} :
       /\ Cardinality(S) <= BatchSize
       /\ delivery' = [d \in Deliveries |->
                         IF d \in S THEN [delivery[d] EXCEPT !.status = "PROCESSING", !.attempts = @ + 1]
                         ELSE delivery[d]]
       /\ pass' = [pass EXCEPT ![p] = Between(S)]
  /\ UNCHANGED <<source, event, handler, stored, pushes, bounds>>

\* The gateway answers, or fails with or without having reached the device.
Send(p) ==
  /\ pass[p].at = "BETWEEN"
  /\ \E d \in pass[p].batch, outcome \in {"SENT", "FAILED"}, reached \in BOOLEAN :
       /\ outcome = "SENT" => reached
       /\ outcome = "FAILED" => faults < MaxFaults
       /\ faults' = IF outcome = "FAILED" THEN faults + 1 ELSE faults
       /\ pushes' = IF reached THEN [pushes EXCEPT ![d] = @ + 1] ELSE pushes
       /\ pass' = [pass EXCEPT ![p].at = outcome, ![p].item = d]
  /\ UNCHANGED <<source, event, handler, stored, delivery, settings, retries>>

MarkDeliverySent(p) ==
  /\ pass[p].at = "SENT"
  /\ delivery' = [delivery EXCEPT ![pass[p].item].status = "SENT"]
  /\ pass' = NextItem(p)
  /\ UNCHANGED <<source, event, handler, stored, pushes, bounds>>

\* Recording the success fails, before or after it was committed.
LoseRecord(p) ==
  /\ pass[p].at = "SENT" /\ faults < MaxFaults
  /\ faults' = faults + 1
  /\ \E s \in {"SENT", "PROCESSING"} : delivery' = [delivery EXCEPT ![pass[p].item].status = s]
  /\ pass' = [pass EXCEPT ![p].at = "FAILED"]
  /\ UNCHANGED <<source, event, handler, stored, pushes, settings, retries>>

StatusAfterFailure(attempts) ==
  IF attempts >= AttemptLimit THEN "DEAD_LETTER" ELSE "FAILED_RETRYABLE"

\* The status is overwritten whatever it is.
MarkDeliveryFailed(p) ==
  LET d == pass[p].item
  IN  /\ pass[p].at = "FAILED"
      /\ delivery' = [delivery EXCEPT ![d].due = FALSE,
                        ![d].status = StatusAfterFailure(delivery[d].attempts)]
      /\ pass' = NextItem(p)
      /\ UNCHANGED <<source, event, handler, stored, pushes, bounds>>

\* The pass ends early: the process stops, or recording a failure fails.
Abandon(p) ==
  /\ pass[p].batch # {} /\ faults < MaxFaults
  /\ faults' = faults + 1
  /\ pass' = [pass EXCEPT ![p] = Between({})]
  /\ UNCHANGED <<source, event, handler, stored, delivery, pushes, settings, retries>>

\* retryDelayMs is over.
BecomeDue(d) ==
  /\ delivery[d].status = "FAILED_RETRYABLE" /\ ~ delivery[d].due
  /\ delivery' = [delivery EXCEPT ![d].due = TRUE]
  /\ UNCHANGED <<source, event, handler, stored, pass, pushes, bounds>>

RetryDelivery(d) ==
  /\ retries < MaxRetries
  /\ delivery[d].status \in {"FAILED_RETRYABLE", "DEAD_LETTER"}
  /\ delivery' = [delivery EXCEPT ![d].status = "PENDING", ![d].due = TRUE]
  /\ retries' = retries + 1
  /\ UNCHANGED <<source, event, handler, stored, pass, pushes, faults, settings>>

-----------------------------------------------------------------------------

Source(e, r, u) ==
  \/ AcceptApplication(e, r, u)
  \/ CancelRoom(e, r) \/ CompleteRoom(e, r) \/ Announce(e, r, u)
  \/ \E s \in StartTimes : UpdateRoom(e, r, s)

HandleStep(e) ==
  IntentsFor(e) \/ InsertNotification(e) \/ CreateDeliveries(e) \/ Acknowledge(e)

Work(p) == Claim(p) \/ Send(p) \/ MarkDeliverySent(p) \/ MarkDeliveryFailed(p)

Next ==
  \/ Tick
  \/ \E e \in Events, r \in Rooms, u \in Users : Source(e, r, u)
  \/ \E r \in Rooms, u \in Users : LoseSeat(r, u) \/ StartRoom(r)
  \/ \E e \in Events : Remind(e) \/ HandleStep(e) \/ InterruptHandler(e)
  \/ \E u \in Users, d \in Devices : UpdatePreferences(u) \/ RegisterPushDevice(u, d)
  \/ \E p \in Passes : Work(p) \/ LoseRecord(p) \/ Abandon(p)
  \/ \E d \in Deliveries : BecomeDue(d) \/ RetryDelivery(d)

Spec == Init /\ [][Next]_vars

\* The timer keeps starting passes of both workers; delays end.
FairSpec ==
  /\ Spec
  /\ \A e \in Events : WF_vars(HandleStep(e))
  /\ \A p \in Passes : WF_vars(Work(p))
  /\ \A d \in Deliveries : WF_vars(BecomeDue(d))

-----------------------------------------------------------------------------

HadSeat(r, u) == seat[<<r, u>>] \in {"ACTIVE", "CANCELLED"}

\* When the cancellation of a room counts as handled, everybody it concerns has
\* a notification of it, whatever they prefer and whatever failed on the way.
CancelledPlayersAreTold ==
  \A e \in Events :
    event[e].done /\ event[e].type = "ROOM_CANCELLED" =>
      \A u \in Users : HadSeat(event[e].room, u) => Known(u, e)

\* A device gets one push of a notification, and one more for each error,
\* unanswered call or early end at most: overlapping passes, operators who queue
\* a delivery again and devices registered again add none.
RepeatsNeedFaults == \A d \in Deliveries : pushes[d] <= 1 + faults

\* While nothing fails, a cancelled room reaches the device of everybody who had
\* a seat, unless the device is taken away or switched off.
CancellationReachesDevices ==
  \A e \in Events, r \in Rooms, u \in Users, d \in Devices :
    /\ event[e].type = "ROOM_CANCELLED" /\ event[e].room = r
    /\ ~ event[e].done /\ ~ handler[e].open
    /\ HadSeat(r, u)
    /\ device[d] = [owner |-> u, enabled |-> TRUE]
    ~> \/ delivery[<<u, e, d>>].status = "SENT"
       \/ device[d] # [owner |-> u, enabled |-> TRUE]
       \/ faults > 0

=============================================================================
