------------------------- MODULE RoomParticipation -------------------------
(***************************************************************************)
(* The transactional core of the marketplace: a HOST's room from DRAFT to  *)
(* COMPLETED or CANCELLED, the applications players and parties file for   *)
(* it, the seats an acceptance creates, attendance, and the projection of  *)
(* free public slots that search reads.                                    *)
(*                                                                         *)
(* Every command of the code is one database transaction that first locks  *)
(* the rows it decides on, so here every command is one atomic action: its *)
(* conjuncts without primes are the checks that would abort the            *)
(* transaction, the primed ones everything it commits.  Idempotency keys,  *)
(* outbox events, reliability scores and refill state are kept by modules  *)
(* of their own.  Row versions are left out: a caller may omit the         *)
(* expected version, so the check never narrows what a command can do.     *)
(***************************************************************************)
EXTENDS Integers, FiniteSets

CONSTANTS
  Rooms,        \* identifiers a room can be created with
  Users,        \* registered players
  Guests,       \* members a party owner brings along without an account
  Parties,      \* parties that can apply as one owner
  Apps,         \* identifiers an application can be created with
  Nil,          \* the value of a column that is NULL
  Host,         \* Host[r] is the user who hosts room r
  PartyOwner,   \* PartyOwner[p] is the user who owns party p
  Rosters,      \* member sets a READY party can submit
  Shapes,       \* occupancy settings a host can type in
  Windows,      \* time windows a room can be created with
  MovedWindows, \* time windows an edit can move a room to
  EarlyStart,   \* how long before the scheduled start a host may start
  Grace,        \* how long after it a player may be marked absent
  MaxTime       \* bound: the clock stops here

Persons == Users \cup Guests
Owners  == Users \cup Parties
Seats   == Apps \X Persons

Window == [start : Nat, end : Nat]
Shape  == [capacity : Int, hostPlays : BOOLEAN, reserved : Int]

ASSUME ConstantsAssumption ==
  /\ IsFiniteSet(Persons) /\ IsFiniteSet(Apps)
  /\ Users \cap Guests = {} /\ Users \cap Parties = {}
  /\ Nil \notin Rooms /\ Nil \notin Owners /\ Nil \notin Users
  /\ Host \in [Rooms -> Users]
  /\ PartyOwner \in [Parties -> Users]
  /\ Rosters \subseteq SUBSET Persons /\ {} \notin Rosters
  /\ Shapes \subseteq Shape
  /\ Windows \subseteq Window /\ MovedWindows \subseteq Window
  /\ EarlyStart \in Nat /\ Grace \in Nat /\ MaxTime \in Nat

VARIABLES
  room,        \* rooms: status, occupancy settings, scheduled window
  app,         \* room_applications and their member snapshots
  seat,        \* room_participants.status, one row per accepted member
  attendance,  \* room_participants.attendance_status
  proj,        \* room_availability_projections
  claimedBy,   \* the user who claimed a guest's identity
  now          \* the clock the services share

vars == <<room, app, seat, attendance, proj, claimedBy, now>>

-----------------------------------------------------------------------------
(* Vocabulary. *)

PreStart       == {"OPEN", "FULL"}
RoomStatus     == {"NONE", "DRAFT", "OPEN", "FULL", "IN_PROGRESS", "COMPLETED", "CANCELLED"}
Pending        == {"REQUESTED", "WAITLISTED"}
ActiveApp      == Pending \cup {"ACCEPTED"}
AppStatus      == {"NONE", "REQUESTED", "WAITLISTED", "ACCEPTED",
                   "REJECTED", "WITHDRAWN", "EXPIRED"}
SeatStatus     == {"NONE", "ACTIVE", "CANCELLED", "REMOVED_BY_HOST"}
Attendance     == {"NOT_SET", "PRESENT", "NO_SHOW"}

NoRoom == [status |-> "NONE", capacity |-> 1, hostPlays |-> FALSE, reserved |-> 0,
           start |-> 0, end |-> 0]
NoApp  == [status |-> "NONE", room |-> Nil, owner |-> Nil, members |-> {}]
NoProj == [active |-> 0, noShows |-> 0, available |-> 0]

\* Slots left to the public by settings rm (a room, or what a host typed in)
\* when n app participants hold one.
\* Mutant: the host's own place is forgotten.
AvailableWithoutHost(rm, n) == rm.capacity - rm.reserved - n

AvailableWith(rm, n) ==
  rm.capacity - (IF rm.hostPlays THEN 1 ELSE 0) - rm.reserved - n

ValidCapacity(rm, n) ==
  rm.capacity >= 1 /\ rm.reserved >= 0 /\ AvailableWith(rm, n) >= 0

ValidWindow(w) == w.start < w.end

OpenOrFull(available) == IF available > 0 THEN "OPEN" ELSE "FULL"

\* Mutant: a full room never reopens.
StickyFull(status, available) ==
  IF status = "OPEN" THEN OpenOrFull(available) ELSE status

DerivedStatus(status, available) ==
  IF status \in PreStart THEN OpenOrFull(available) ELSE status

WithStatus(r, status) == [room EXCEPT ![r] = [@ EXCEPT !.status = status]]

\* The row of application a with another status.
As(a, status) == [app[a] EXCEPT !.status = status]

Resolved(a, status) == [app EXCEPT ![a] = As(a, status)]

\* Seats of room r that hold a slot: active and not reported absent.
Holding(st, att, r) ==
  {s \in Seats : app[s[1]].room = r /\ st[s] = "ACTIVE" /\ att[s] # "NO_SHOW"}

Absent(st, att, r) ==
  {s \in Seats : app[s[1]].room = r /\ st[s] = "ACTIVE" /\ att[s] = "NO_SHOW"}

ActiveCount(r)  == Cardinality(Holding(seat, attendance, r))
NoShowCount(r)  == Cardinality(Absent(seat, attendance, r))
Available(r)    == AvailableWith(room[r], ActiveCount(r))

\* The projection row is rewritten whole; a CHECK of the table aborts the
\* transaction when the free slots would be negative.
UpsertAvailability(r, rm, active, noShows) ==
  /\ AvailableWith(rm, active) >= 0
  /\ proj' = [proj EXCEPT ![r] = [active |-> active, noShows |-> noShows,
                                  available |-> AvailableWith(rm, active)]]

Overlap(r1, r2) == room[r1].start < room[r2].end /\ room[r2].start < room[r1].end

\* The account behind a member, Nil for a guest nobody claimed.
UserOf(p) == IF p \in Users THEN p ELSE claimedBy[p]

UsersOf(members) == {UserOf(p) : p \in members} \ {Nil}

\* Mutant: matches already under way are overlooked.
ConflictBeforeStart(u, r) ==
  \E s \in Seats : /\ UserOf(s[2]) = u /\ seat[s] = "ACTIVE"
                   /\ app[s[1]].room # r
                   /\ room[app[s[1]].room].status \in PreStart
                   /\ Overlap(app[s[1]].room, r)

\* The user already sits in another live room whose window overlaps r's.
ScheduleConflict(u, r) ==
  \E s \in Seats : /\ UserOf(s[2]) = u /\ seat[s] = "ACTIVE"
                   /\ app[s[1]].room # r
                   /\ room[app[s[1]].room].status \in PreStart \cup {"IN_PROGRESS"}
                   /\ Overlap(app[s[1]].room, r)

Requester(owner) == IF owner \in Parties THEN PartyOwner[owner] ELSE owner

\* A party never has two members with one account.
Distinct(members) ==
  \A p, q \in members : p # q => UserOf(p) = Nil \/ UserOf(p) # UserOf(q)

\* What an application snapshots: a player alone, or the members of a party.
Snapshot(owner, members) ==
  \/ owner \in Users /\ members = {owner}
  \/ owner \in Parties /\ members \in Rosters /\ PartyOwner[owner] \in members
       /\ Distinct(members)

\* Mutant: waitlisted applications survive.
ExpireRequested(r) ==
  [a \in Apps |-> IF app[a].room = r /\ app[a].status = "REQUESTED"
                  THEN As(a, "EXPIRED") ELSE app[a]]

ExpirePending(r) ==
  [a \in Apps |-> IF app[a].room = r /\ app[a].status \in Pending
                  THEN As(a, "EXPIRED") ELSE app[a]]

-----------------------------------------------------------------------------
(* Room commands. *)

Init ==
  /\ room = [r \in Rooms |-> NoRoom]
  /\ app = [a \in Apps |-> NoApp]
  /\ seat = [s \in Seats |-> "NONE"]
  /\ attendance = [s \in Seats |-> "NOT_SET"]
  /\ proj = [r \in Rooms |-> NoProj]
  /\ claimedBy = [g \in Guests |-> Nil]
  /\ now = 0

RoomWith(status, sh, w) ==
  [status |-> status, capacity |-> sh.capacity, hostPlays |-> sh.hostPlays,
   reserved |-> sh.reserved, start |-> w.start, end |-> w.end]

InsertDraft(r, sh, w) ==
  /\ room[r].status = "NONE"
  /\ ValidWindow(w)
  /\ ValidCapacity(sh, 0)
  /\ room' = [room EXCEPT ![r] = RoomWith("DRAFT", sh, w)]
  /\ UpsertAvailability(r, sh, 0, 0)
  /\ UNCHANGED <<app, seat, attendance, claimedBy, now>>

CreateRoom(r, sh, w) == InsertDraft(r, sh, w)

\* A completed room is copied into a new draft of the same host.
RepeatRoom(source, r, w) ==
  /\ room[source].status = "COMPLETED"
  /\ Host[r] = Host[source]
  /\ InsertDraft(r, room[source], w)

Publish(r) ==
  /\ room[r].status = "DRAFT"
  /\ ValidCapacity(room[r], ActiveCount(r))
  /\ room' = WithStatus(r, OpenOrFull(Available(r)))
  /\ UpsertAvailability(r, room[r], ActiveCount(r), 0)
  /\ UNCHANGED <<app, seat, attendance, claimedBy, now>>

CurrentWindow(r) == [start |-> room[r].start, end |-> room[r].end]

\* Editing never looks at the schedules of the players already seated.
UpdateRoom(r, sh, w) ==
  /\ room[r].status \in PreStart \cup {"DRAFT"}
  /\ ValidWindow(w)
  /\ ValidCapacity(sh, ActiveCount(r))
  /\ room' = [room EXCEPT ![r] = RoomWith(
                 DerivedStatus(room[r].status, AvailableWith(sh, ActiveCount(r))), sh, w)]
  /\ UpsertAvailability(r, sh, ActiveCount(r), 0)
  /\ UNCHANGED <<app, seat, attendance, claimedBy, now>>

Seated(r) == {s \in Seats : app[s[1]].room = r /\ seat[s] = "ACTIVE"}

CancelRoom(r) ==
  /\ room[r].status \in PreStart \cup {"DRAFT"}
  /\ room' = WithStatus(r, "CANCELLED")
  /\ seat' = [s \in Seats |-> IF s \in Seated(r) THEN "CANCELLED" ELSE seat[s]]
  /\ app' = ExpirePending(r)
  /\ ValidCapacity(room[r], Cardinality(Holding(seat', attendance, r)))
  /\ UpsertAvailability(r, room[r], Cardinality(Holding(seat', attendance, r)), 0)
  /\ UNCHANGED <<attendance, claimedBy, now>>

-----------------------------------------------------------------------------
(* Start and completion. *)

StartLocked(r) ==
  /\ room[r].status \in PreStart
  /\ room' = WithStatus(r, "IN_PROGRESS")
  /\ app' = ExpirePending(r)
  /\ UpsertAvailability(r, room[r], ActiveCount(r), 0)
  /\ UNCHANGED <<seat, attendance, claimedBy, now>>

ManualStart(r) == now + EarlyStart >= room[r].start /\ StartLocked(r)

\* Mutant: the scheduler misses a room it does not see at the very minute.
AutoStartOnTheDot(r) == now = room[r].start /\ StartLocked(r)

AutoStart(r) == now >= room[r].start /\ StartLocked(r)

Unset(r) == {s \in Seated(r) : attendance[s] = "NOT_SET"}

\* The rating gate that may also block completion is kept by the ranking part.
Complete(r) ==
  /\ room[r].status = "IN_PROGRESS"
  /\ Unset(r) = {}
  /\ room' = WithStatus(r, "COMPLETED")
  /\ UpsertAvailability(r, room[r], ActiveCount(r), 0)
  /\ UNCHANGED <<app, seat, attendance, claimedBy, now>>

-----------------------------------------------------------------------------
(* Applications. *)

HasActiveApplication(r, owner) ==
  \E a \in Apps : app[a].room = r /\ app[a].owner = owner /\ app[a].status \in ActiveApp

\* Without free slots the caller must allow waitlisting, or nothing is filed.
CreateApplication(a, r, owner, members, allowWaitlist) ==
  LET fits == Available(r) >= Cardinality(members)
  IN  /\ app[a].status = "NONE"
      /\ room[r].status \in PreStart
      /\ Snapshot(owner, members)
      /\ ~ HasActiveApplication(r, owner)
      /\ fits \/ allowWaitlist
      /\ app' = [app EXCEPT ![a] =
                   [status |-> IF fits THEN "REQUESTED" ELSE "WAITLISTED",
                    room |-> r, owner |-> owner, members |-> members]]
      /\ UNCHANGED <<room, seat, attendance, proj, claimedBy, now>>

\* Withdrawing locks the application alone and never looks at the room.
Withdraw(a, actor) ==
  /\ app[a].status \in Pending
  /\ actor = Requester(app[a].owner)
  /\ app' = Resolved(a, "WITHDRAWN")
  /\ UNCHANGED <<room, seat, attendance, proj, claimedBy, now>>

Reject(a, actor) ==
  /\ app[a].status \in Pending
  /\ actor = Host[app[a].room]
  /\ app' = Resolved(a, "REJECTED")
  /\ UNCHANGED <<room, seat, attendance, proj, claimedBy, now>>

\* Mutant: an application already accepted elsewhere is withdrawn as well.
OvertakenActive(a) ==
  {b \in Apps : /\ b # a
                /\ app[b].status \in ActiveApp
                /\ app[b].room # app[a].room
                /\ room[app[b].room].status \in PreStart
                /\ UsersOf(app[b].members) \cap UsersOf(app[a].members) # {}}

\* Applications elsewhere that the acceptance of a makes impossible to honour.
Overtaken(a) ==
  {b \in Apps : /\ b # a
                /\ app[b].status \in Pending
                /\ app[b].room # app[a].room
                /\ room[app[b].room].status \in PreStart
                /\ Overlap(app[b].room, app[a].room)
                /\ UsersOf(app[b].members) \cap UsersOf(app[a].members) # {}}

\* After the start the code further demands an active refill, which the
\* refill part adds as a conjunct.
Accept(a, actor) ==
  LET r == app[a].room
      n == ActiveCount(r) + Cardinality(app[a].members)
  IN  /\ app[a].status \in Pending
      /\ room[r].status \in PreStart \cup {"IN_PROGRESS"}
      /\ actor = Host[r]
      /\ app[a].members # {}
      /\ \A u \in UsersOf(app[a].members) : ~ ScheduleConflict(u, r)
      /\ Available(r) >= Cardinality(app[a].members)
      /\ seat' = [s \in Seats |-> IF s[1] = a /\ s[2] \in app[a].members
                                  THEN "ACTIVE" ELSE seat[s]]
      /\ app' = [b \in Apps |-> IF b = a THEN As(a, "ACCEPTED")
                                ELSE IF b \in Overtaken(a) THEN As(b, "WITHDRAWN")
                                ELSE app[b]]
      /\ room' = WithStatus(r, DerivedStatus(room[r].status, AvailableWith(room[r], n)))
      /\ UpsertAvailability(r, room[r], n, 0)
      /\ UNCHANGED <<attendance, claimedBy, now>>

-----------------------------------------------------------------------------
(* Seats. *)

\* Mutant: the count drops by one however many seats are freed.
OneSlot(freed) == 1

FreedSlots(freed) == Cardinality(freed)

\* Give up a set of seats of one room; the count is adjusted by arithmetic,
\* not recounted, exactly as the services do.
Release(r, freed, status, noShows) ==
  LET n == ActiveCount(r) - FreedSlots(freed)
  IN  /\ seat' = [s \in Seats |-> IF s \in freed THEN status ELSE seat[s]]
      /\ room' = WithStatus(r, DerivedStatus(room[r].status, AvailableWith(room[r], n)))
      /\ UpsertAvailability(r, room[r], n, noShows)
      /\ UNCHANGED <<app, attendance, claimedBy, now>>

RemoveSeat(s, actor) ==
  LET r == app[s[1]].room
  IN  /\ seat[s] = "ACTIVE"
      /\ room[r].status \in PreStart
      /\ actor = Host[r]
      /\ Release(r, {s}, "REMOVED_BY_HOST", 0)

\* Unclaimed guest seats that leave with the owner of the party that brought them.
OwnedGuests(s) ==
  {g \in Seats : /\ g[1] = s[1] /\ UserOf(g[2]) = Nil
                 /\ app[s[1]].owner \in Parties
                 /\ PartyOwner[app[s[1]].owner] = UserOf(s[2])
                 /\ seat[g] = "ACTIVE"}

CancelSeat(s, actor) ==
  LET r == app[s[1]].room
  IN  /\ UserOf(s[2]) = actor
      /\ seat[s] = "ACTIVE"
      /\ room[r].status \in PreStart
      /\ attendance[s] # "NO_SHOW"
      /\ Release(r, {s} \cup OwnedGuests(s), "CANCELLED", NoShowCount(r))

AttendanceOpen == {"IN_PROGRESS"}

MarkAttendance(s, next, actor) ==
  LET r == app[s[1]].room
      marked == [attendance EXCEPT ![s] = next]
  IN  /\ seat[s] = "ACTIVE"
      /\ actor = Host[r]
      /\ room[r].status \in AttendanceOpen
      /\ next = "NO_SHOW" => now >= room[r].start + Grace
      /\ attendance[s] # next
      /\ attendance' = marked
      /\ UpsertAvailability(r, room[r], Cardinality(Holding(seat, marked, r)),
                            Cardinality(Absent(seat, marked, r)))
      /\ UNCHANGED <<room, app, seat, claimedBy, now>>

-----------------------------------------------------------------------------

\* A registered user takes over a guest's identity, in the party and in every
\* snapshot and seat the guest has.  No schedule is looked at.  While one of its
\* applications is live the composition of a party is frozen, so the members a
\* claim must differ from are those of that application.
ClaimGuest(g, u) ==
  /\ claimedBy[g] = Nil
  /\ \A a \in Apps : g \in app[a].members /\ app[a].status \in ActiveApp =>
       u \notin UsersOf(app[a].members)
  /\ claimedBy' = [claimedBy EXCEPT ![g] = u]
  /\ UNCHANGED <<room, app, seat, attendance, proj, now>>

Tick == now < MaxTime /\ now' = now + 1
        /\ UNCHANGED <<room, app, seat, attendance, proj, claimedBy>>

RoomStep(r) ==
  \/ \E sh \in Shapes, w \in Windows : CreateRoom(r, sh, w)
  \/ \E source \in Rooms, w \in Windows : RepeatRoom(source, r, w)
  \/ Publish(r)
  \/ \E sh \in Shapes, w \in MovedWindows \cup {CurrentWindow(r)} : UpdateRoom(r, sh, w)
  \/ CancelRoom(r)
  \/ ManualStart(r)
  \/ AutoStart(r)
  \/ Complete(r)

AppStep(a) ==
  \/ \E r \in Rooms, owner \in Owners, members \in SUBSET Persons, wait \in BOOLEAN :
       CreateApplication(a, r, owner, members, wait)
  \/ \E actor \in Users : Withdraw(a, actor) \/ Reject(a, actor) \/ Accept(a, actor)

SeatStep(s) ==
  \E actor \in Users :
    \/ RemoveSeat(s, actor)
    \/ CancelSeat(s, actor)
    \/ \E next \in {"PRESENT", "NO_SHOW"} : MarkAttendance(s, next, actor)

Next ==
  \/ \E r \in Rooms : RoomStep(r)
  \/ \E a \in Apps : AppStep(a)
  \/ \E s \in Seats : SeatStep(s)
  \/ \E g \in Guests, u \in Users : ClaimGuest(g, u)
  \/ Tick

Spec == Init /\ [][Next]_vars

\* The worker that starts due rooms keeps running, each time through all of them.
AutoStartDueRooms == \A r \in Rooms : WF_vars(AutoStart(r))

FairSpec == Spec /\ WF_vars(Tick) /\ AutoStartDueRooms

-----------------------------------------------------------------------------
(* What the core promises. *)

TypeOK ==
  /\ room \in [Rooms -> [status : RoomStatus, capacity : Nat \ {0}, hostPlays : BOOLEAN,
                         reserved : Nat, start : Nat, end : Nat]]
  /\ app \in [Apps -> [status : AppStatus, room : Rooms \cup {Nil},
                       owner : Owners \cup {Nil}, members : SUBSET Persons]]
  /\ seat \in [Seats -> SeatStatus]
  /\ attendance \in [Seats -> Attendance]
  /\ proj \in [Rooms -> [active : Int, noShows : Nat, available : Nat]]
  /\ claimedBy \in [Guests -> Users \cup {Nil}]
  /\ now \in Nat

HoldersOf(r) ==
  {s \in Seats : app[s[1]].room = r /\ seat[s] = "ACTIVE" /\ attendance[s] # "NO_SHOW"}

\* The host, the places kept for outsiders and the seated players never exceed
\* the capacity, whatever edits, acceptances and corrections came before.
CapacityRespected ==
  \A r \in Rooms :
    (IF room[r].hostPlays THEN 1 ELSE 0) + room[r].reserved + Cardinality(HoldersOf(r))
      <= room[r].capacity

\* The projection search reads is never stale: every command that moves a seat
\* or the occupancy settings leaves in it what a recount would give, although
\* acceptances and cancellations write it by arithmetic.
ProjectionFresh ==
  \A r \in Rooms : room[r].status # "NONE" =>
    /\ proj[r].active = Cardinality(HoldersOf(r))
    /\ proj[r].available = room[r].capacity - (IF room[r].hostPlays THEN 1 ELSE 0)
                             - room[r].reserved - Cardinality(HoldersOf(r))

\* Before the start a room is OPEN while a recount finds a free slot, else FULL.
StatusTracksAvailability ==
  \A r \in Rooms :
    /\ room[r].status = "OPEN" => Available(r) > 0
    /\ room[r].status = "FULL" => Available(r) = 0

\* No join request outlives the start or the cancellation of its room.
NoPendingAfterStart ==
  \A a \in Apps : app[a].status \in {"REQUESTED", "WAITLISTED"} =>
    room[app[a].room].status \in {"OPEN", "FULL"}

\* An acceptance seats every member of the application, and nobody is seated
\* by an application that is requested, waitlisted or turned down.
AllOrNothingSeating ==
  \A a \in Apps, p \in Persons :
    seat[<<a, p>>] # "NONE" <=> app[a].status = "ACCEPTED" /\ p \in app[a].members

\* A player or a party has at most one live application for a room.
OneActiveApplicationPerOwner ==
  \A a, b \in Apps :
    /\ a # b /\ app[a].room = app[b].room /\ app[a].owner = app[b].owner
    /\ app[a].status \in {"REQUESTED", "WAITLISTED", "ACCEPTED"}
    => app[b].status \notin {"REQUESTED", "WAITLISTED", "ACCEPTED"}

\* Cancelling a room frees everybody; completing it needs a verdict on everybody.
EndedRoomsAreSettled ==
  \A s \in Seats : seat[s] = "ACTIVE" =>
    /\ room[app[s[1]].room].status # "CANCELLED"
    /\ room[app[s[1]].room].status = "COMPLETED" => attendance[s] # "NOT_SET"

Live(r) == room[r].status \in {"OPEN", "FULL", "IN_PROGRESS"}

\* Seats that commit an account to a live room.
Committed ==
  {s \in Seats : seat[s] = "ACTIVE" /\ UserOf(s[2]) # Nil /\ Live(app[s[1]].room)}

DoubleBooked ==
  {x \in Committed \X Committed :
     /\ UserOf(x[1][2]) = UserOf(x[2][2])
     /\ app[x[1][1]].room # app[x[2][1]].room
     /\ room[app[x[1][1]].room].start < room[app[x[2][1]].room].end
     /\ room[app[x[2][1]].room].start < room[app[x[1][1]].room].end}

Moved == \E r \in Rooms : room'[r].start # room[r].start \/ room'[r].end # room[r].end

Claimed == claimedBy' # claimedBy

DoubleBooksByMoveOrClaim == DoubleBooked' \subseteq DoubleBooked \/ Moved \/ Claimed

\* A player comes to hold seats in two overlapping live rooms only because a
\* host moved a room or the player claimed a guest's seat, the two commands that
\* look at no schedule: no acceptance, start or correction can bring it about.
DoubleBookingIsNotAccepted == [][DoubleBooksByMoveOrClaim]_vars

KeepsHistory ==
  /\ \A r \in Rooms : room[r].status \in {"COMPLETED", "CANCELLED"} =>
       /\ room'[r] = room[r] /\ proj'[r] = proj[r]
       /\ \A s \in Seats : app[s[1]].room = r =>
            seat'[s] = seat[s] /\ attendance'[s] = attendance[s]
  /\ \A a \in Apps :
       app[a].status \in {"ACCEPTED", "REJECTED", "WITHDRAWN", "EXPIRED"} => app'[a] = app[a]
  /\ \A s \in Seats : seat[s] \in {"CANCELLED", "REMOVED_BY_HOST"} => seat'[s] = seat[s]

\* History is never rewritten: an ended room keeps its seats and attendance, a
\* resolved application its outcome, and a seat given up is not taken again.
HistoryIsFinal == [][KeepsHistory]_vars

\* Every join request is eventually answered, by somebody or by the start.
RequestsAreResolved ==
  \A a \in Apps : app[a].status \in Pending ~> app[a].status \notin Pending

=============================================================================
