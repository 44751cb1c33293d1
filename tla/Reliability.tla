----------------------------- MODULE Reliability -----------------------------
(***************************************************************************)
(* What giving up a seat costs and who makes up for it: reliability scores *)
(* with their ledger, slot losses with their recovery, and the emergency   *)
(* refill of a room.  ReliabilityService is called inside the transactions *)
(* that move seats, so each action here is such a transaction seen from    *)
(* this side; which seats it may move is taken over from the core in       *)
(* outline.  Rooms start out published: OPEN and FULL are told apart by    *)
(* the free slots alone.                                                   *)
(***************************************************************************)
EXTENDS Integers, FiniteSets

CONSTANTS
  Rooms,         \* rooms that have been published
  Users,         \* registered players
  Guests,        \* members brought along without an account
  Apps,          \* applications that have been filed, by different owners
  Nil,           \* the value of a column that is NULL
  Host,          \* Host[r] is the user who hosts room r
  Venue,         \* Venue[a] is the room application a is for
  Requester,     \* Requester[a] is the player, or the owner of the party
  Members,       \* Members[a] are the persons application a brings
  Places,        \* bound: numbers of places, the host's own left out, a room may offer
  MaxReserved,   \* bound: places a host may set aside
  Start,         \* Start[r] is the scheduled start of room r
  Cutoff,        \* how long before the start a cancellation becomes late
  EarlyStart,    \* how long before the scheduled start a host may start
  Grace,         \* how long after it a player may be marked absent
  RefillWindow,  \* how long after it replacements may be sought
  MaxScore, LatePenalty, NoShowPenalty,  \* reliability points
  StreakLimit,   \* completed matches that earn a point back
  MaxMarks,      \* bound: times one seat is marked absent
  MaxTime        \* bound: the clock stops here

Persons == Users \cup Guests
Seats   == {s \in Apps \X Persons : s[2] \in Members[s[1]]}

ASSUME ConstantsAssumption ==
  /\ IsFiniteSet(Rooms) /\ IsFiniteSet(Apps) /\ IsFiniteSet(Persons)
  /\ Users \cap Guests = {} /\ Nil \notin Users /\ Nil \notin Nat
  /\ Host \in [Rooms -> Users]
  /\ Venue \in [Apps -> Rooms]
  /\ Requester \in [Apps -> Users]
  /\ Members \in [Apps -> SUBSET Persons]
  /\ Places \subseteq Nat /\ Start \in [Rooms -> Nat]
  /\ {MaxReserved, Cutoff, EarlyStart, Grace, RefillWindow, StreakLimit,
      MaxScore, LatePenalty, NoShowPenalty, MaxMarks, MaxTime} \subseteq Nat

VARIABLES
  room,        \* rooms: status, places, places set aside, emergency replacement allowed
  app,         \* room_applications.status
  seat,        \* room_participants.status
  attendance,  \* room_participants.attendance_status
  marks,       \* how many NO_SHOW rows participant_attendance_logs has per seat
  moved,       \* seats accepted before a material change of their room
  claimedBy,   \* the user who claimed a guest's identity
  stats,       \* player_reliability_stats: score, streak and no-shows
  ledger,      \* reliability_adjustments
  loss,        \* slot_recovery_records, by the event that caused the loss
  hosting,     \* host_stats: lost and recovered slots
  refill,      \* room_refill_states
  now          \* the clock the services share

seating == <<app, seat, attendance, marks, moved, claimedBy>>
vars == <<room, seating, stats, ledger, loss, hosting, refill, now>>

-----------------------------------------------------------------------------
(* Seats. *)

RoomStatus == {"PUBLISHED", "IN_PROGRESS", "COMPLETED", "CANCELLED"}
RoomRow    == [status : RoomStatus, places : Places, reserved : 0 .. MaxReserved,
               emergency : BOOLEAN]
AppStatus  == {"PENDING", "ACCEPTED", "CLOSED"}
SeatStatus == {"NONE", "ACTIVE", "CANCELLED", "REMOVED_BY_HOST"}
Attendance == {"NOT_SET", "PRESENT", "NO_SHOW"}

RoomOf(s) == Venue[s[1]]
UserOf(p) == IF p \in Guests THEN claimedBy[p] ELSE p
UsersOf(ps) == {UserOf(p) : p \in ps} \ {Nil}

SeatsOf(r) == {s \in Seats : RoomOf(s) = r}
Seated(r)  == {s \in SeatsOf(r) : seat[s] = "ACTIVE"}

\* Seats of r that hold a slot when participants and attendance are st and att.
Holding(st, att, r) == {s \in SeatsOf(r) : st[s] = "ACTIVE" /\ att[s] # "NO_SHOW"}

FreeWith(st, att, r) ==
  room[r].places - room[r].reserved - Cardinality(Holding(st, att, r))

Free(r) == FreeWith(seat, attendance, r)

-----------------------------------------------------------------------------
(* Scores.  An entry of the ledger names its source: the seat and, for       *)
(* attendance, which of its NO_SHOW marks it charges or takes back.          *)

Reasons == {"LATE_CANCEL", "NO_SHOW", "NO_SHOW_REVERSED"}
Entry   == [user : Users, reason : Reasons, seat : Seats, mark : 0 .. MaxMarks]

Clamped(points) ==
  IF points < 0 THEN 0 ELSE IF points > MaxScore THEN MaxScore ELSE points

\* Mutant: a correction returns only what a late cancellation costs.
CheapReversal == LatePenalty

ReversalPoints == NoShowPenalty

Points(reason) ==
  CASE reason = "LATE_CANCEL"      -> 0 - LatePenalty
    [] reason = "NO_SHOW"          -> 0 - NoShowPenalty
    [] reason = "NO_SHOW_REVERSED" -> ReversalPoints

\* Mutant: corrections leave the number of no-shows alone.
StillCounted(n) == n

OneFewer(n) == IF n > 0 THEN n - 1 ELSE 0

\* The row of a player after an adjustment.  Only penalties end a streak.
AdjustedStats(row, reason) ==
  [score   |-> Clamped(row.score + Points(reason)),
   streak  |-> IF reason = "NO_SHOW_REVERSED" THEN row.streak ELSE 0,
   noShows |-> CASE reason = "NO_SHOW"          -> row.noShows + 1
                 [] reason = "NO_SHOW_REVERSED" -> OneFewer(row.noShows)
                 [] OTHER                       -> row.noShows]

\* applyPlayerAdjustment for the user of seat s, if it has one.
Adjust(s, reason, mark) ==
  LET u == UserOf(s[2])
      e == [user |-> u, reason |-> reason, seat |-> s, mark |-> mark]
  IN  IF u = Nil \/ e \in ledger
      THEN UNCHANGED <<stats, ledger>>
      ELSE /\ stats' = [stats EXCEPT ![u] = AdjustedStats(@, reason)]
           /\ ledger' = ledger \cup {e}

-----------------------------------------------------------------------------
(* Losses and refill.  A cancellation or removal is event 0 of its seat,     *)
(* a NO_SHOW mark the event of its number.                                   *)

LossEvents == Seats \X (0 .. MaxMarks)
LossState  == {"NONE", "PENDING", "RECOVERED", "EXPIRED", "VOIDED"}
NoLoss     == [state |-> "NONE", at |-> 0]

PendingLosses(r) == {e \in LossEvents : RoomOf(e[1]) = r /\ loss[e].state = "PENDING"}

LossWith(events, state) ==
  [e \in LossEvents |-> IF e \in events THEN [loss[e] EXCEPT !.state = state] ELSE loss[e]]

\* Mutant: several seats lost at once are counted as one.
OneLoss(events) == 1

LostSlots(events) == Cardinality(events)

\* recordLossAndMaybeActivateRefill up to its early return and the record.
Lossy(r, available) == available > 0 /\ room[r].status \in {"PUBLISHED", "IN_PROGRESS"}

RecordLosses(r, events, available) ==
  IF Lossy(r, available)
  THEN /\ loss' = [e \in LossEvents |-> IF e \in events THEN [state |-> "PENDING", at |-> now]
                                        ELSE loss[e]]
       /\ hosting' = [hosting EXCEPT ![Host[r]].lost = @ + LostSlots(events)]
  ELSE UNCHANGED <<loss, hosting>>

WindowEnd(r) == Start[r] + RefillWindow

WindowOpen(r) ==
  \/ room[r].status = "PUBLISHED"
  \/ room[r].status = "IN_PROGRESS" /\ room[r].emergency /\ now <= WindowEnd(r)

\* The row that setRefillState writes, whatever was there.
RefillState(active, until) == [active |-> active, until |-> until]

Activated(r) ==
  RefillState(TRUE, IF room[r].status = "IN_PROGRESS" THEN WindowEnd(r) ELSE Nil)

Stopped(r) == RefillState(FALSE, refill[r].until)

\* A late loss turns refill on while replacements may still be sought.
RefillAfterLoss(r, urgent, available) ==
  refill' = IF urgent /\ Lossy(r, available) /\ WindowOpen(r)
            THEN [refill EXCEPT ![r] = Activated(r)] ELSE refill

\* Refill ends when nobody is missed any more.
RefillWhenSeated(r, available) ==
  refill' = IF available <= 0 THEN [refill EXCEPT ![r] = Stopped(r)] ELSE refill

-----------------------------------------------------------------------------
(* The life of a room. *)

Init ==
  /\ room \in [Rooms -> [status : {"PUBLISHED"}, places : Places, reserved : {0},
                         emergency : BOOLEAN]]
  /\ app = [a \in Apps |-> "PENDING"]
  /\ seat = [s \in Seats |-> "NONE"]
  /\ attendance = [s \in Seats |-> "NOT_SET"]
  /\ marks = [s \in Seats |-> 0]
  /\ moved = {}
  /\ claimedBy = [g \in Guests |-> Nil]
  /\ stats = [u \in Users |-> [score |-> MaxScore, streak |-> 0, noShows |-> 0]]
  /\ ledger = {}
  /\ loss = [e \in LossEvents |-> NoLoss]
  /\ hosting = [u \in Users |-> [lost |-> 0, recovered |-> 0]]
  /\ refill = [r \in Rooms |-> [active |-> FALSE, until |-> Nil]]
  /\ now = 0

\* The change logs of an edit: one of schedule, venue, price or equipment is
\* material and waives the penalty of whoever has been accepted.
MakeChangeLogs(r, material) == IF material THEN moved \cup Seated(r) ELSE moved

\* Only the players seated must find room in what an edit leaves, not the losses
\* that are pending.  A host who joins or stays away takes or gives up a place.
UpdateRoom(r, places, reserved, emergency, material) ==
  /\ room[r].status = "PUBLISHED"
  /\ places - reserved - Cardinality(Holding(seat, attendance, r)) >= 0
  /\ room' = [room EXCEPT ![r].places = places, ![r].reserved = reserved,
                          ![r].emergency = emergency]
  /\ moved' = MakeChangeLogs(r, material)
  /\ UNCHANGED <<app, seat, attendance, marks, claimedBy, stats, ledger, loss, hosting, refill, now>>

CloseApps(r) ==
  [a \in Apps |-> IF Venue[a] = r /\ app[a] = "PENDING" THEN "CLOSED" ELSE app[a]]

CancelRoom(r) ==
  /\ room[r].status = "PUBLISHED"
  /\ room' = [room EXCEPT ![r].status = "CANCELLED"]
  /\ app' = CloseApps(r)
  /\ seat' = [s \in Seats |-> IF s \in Seated(r) THEN "CANCELLED" ELSE seat[s]]
  /\ refill' = [refill EXCEPT ![r] = Stopped(r)]
  /\ UNCHANGED <<attendance, marks, moved, claimedBy, stats, ledger, loss, hosting, now>>

\* By hand or by the timer; a refill that is on stays on, without an end.
StartRoom(r) ==
  /\ room[r].status = "PUBLISHED"
  /\ now + EarlyStart >= Start[r]
  /\ room' = [room EXCEPT ![r].status = "IN_PROGRESS"]
  /\ app' = CloseApps(r)
  /\ UNCHANGED <<seat, attendance, marks, moved, claimedBy, stats, ledger, loss, hosting, refill, now>>

Present(r, u) ==
  {s \in Seated(r) : attendance[s] = "PRESENT" /\ UserOf(s[2]) = u}

GatesHold(r) ==
  room[r].status = "IN_PROGRESS" /\ \A s \in Seated(r) : attendance[s] # "NOT_SET"

\* Whoever reaches the streak below the top score earns a point.  The entry's
\* source is the completion's id joined to the participant's, which is no UUID:
\* PostgreSQL refuses it and the transaction that completes the room aborts.
EarnsPoint(r, u) ==
  /\ Present(r, u) # {}
  /\ stats[u].streak + Cardinality(Present(r, u)) >= StreakLimit
  /\ stats[u].score < MaxScore

Complete(r) ==
  /\ GatesHold(r)
  /\ \A u \in Users : ~ EarnsPoint(r, u)
  /\ room' = [room EXCEPT ![r].status = "COMPLETED"]
  /\ stats' = [u \in Users |->
       [stats[u] EXCEPT !.streak = @ + Cardinality(Present(r, u))]]
  /\ UNCHANGED <<seating, ledger, loss, hosting, refill, now>>

-----------------------------------------------------------------------------
(* Seats won and lost. *)

\* assertInProgressRefillAdmission: what an acceptance after the start demands.
Admissible(r) ==
  room[r].status = "IN_PROGRESS" =>
    room[r].emergency /\ WindowOpen(r) /\ refill[r].active

\* Mutant: a replacement makes good for nothing.
NothingRecovered(r, events, k) == events = {}

\* The k oldest losses, ties in either order; all of them when there are fewer.
Oldest(r, events, k) ==
  /\ events \subseteq PendingLosses(r)
  /\ \/ Cardinality(events) = k
     \/ Cardinality(events) < k /\ events = PendingLosses(r)
  /\ \A e \in events, f \in PendingLosses(r) \ events : loss[e].at <= loss[f].at

Accept(a, recovered) ==
  LET r == Venue[a]
      k == Cardinality(Members[a])
  IN  /\ app[a] = "PENDING"
      /\ room[r].status \in {"PUBLISHED", "IN_PROGRESS"}
      /\ Admissible(r)
      /\ k > 0 /\ Free(r) >= k
      /\ Oldest(r, recovered, k)
      /\ app' = [app EXCEPT ![a] = "ACCEPTED"]
      /\ seat' = [s \in Seats |-> IF s[1] = a THEN "ACTIVE" ELSE seat[s]]
      /\ loss' = LossWith(recovered, "RECOVERED")
      /\ hosting' = [hosting EXCEPT ![Host[r]].recovered = @ + Cardinality(recovered)]
      /\ RefillWhenSeated(r, Free(r) - k)
      /\ UNCHANGED <<room, attendance, marks, moved, claimedBy, stats, ledger, now>>

\* Withdrawn by the player or rejected by the host.
CloseApp(a) ==
  /\ app[a] = "PENDING"
  /\ app' = [app EXCEPT ![a] = "CLOSED"]
  /\ UNCHANGED <<room, seat, attendance, marks, moved, claimedBy, stats, ledger, loss,
                 hosting, refill, now>>

Waived(s)  == s \in moved /\ now < Start[RoomOf(s)]
IsLate(s)  == ~ Waived(s) /\ now + Cutoff > Start[RoomOf(s)]

\* Unclaimed guests leave with the owner of the party that brought them.
LeavingWith(s) ==
  {s} \cup {g \in Seats : /\ g[1] = s[1] /\ UserOf(g[2]) = Nil
                          /\ Requester[s[1]] = UserOf(s[2])
                          /\ seat[g] = "ACTIVE"}

Give(r, freed, status, urgent) ==
  LET st == [s \in Seats |-> IF s \in freed THEN status ELSE seat[s]]
      available == FreeWith(st, attendance, r)
  IN  /\ seat' = st
      /\ RecordLosses(r, freed \X {0}, available)
      /\ RefillAfterLoss(r, urgent, available)

CancelSeat(s) ==
  /\ seat[s] = "ACTIVE"
  /\ UserOf(s[2]) # Nil
  /\ room[RoomOf(s)].status = "PUBLISHED"
  /\ attendance[s] # "NO_SHOW"
  /\ Give(RoomOf(s), LeavingWith(s), "CANCELLED", IsLate(s))
  /\ IF IsLate(s) THEN Adjust(s, "LATE_CANCEL", 0) ELSE UNCHANGED <<stats, ledger>>
  /\ UNCHANGED <<room, app, attendance, marks, moved, claimedBy, now>>

RemoveSeat(s) ==
  /\ seat[s] = "ACTIVE"
  /\ room[RoomOf(s)].status = "PUBLISHED"
  /\ Give(RoomOf(s), {s}, "REMOVED_BY_HOST", FALSE)
  /\ UNCHANGED <<room, app, attendance, marks, moved, claimedBy, stats, ledger, now>>

-----------------------------------------------------------------------------
(* Attendance and what it costs. *)

Marked(s, next) == [attendance EXCEPT ![s] = next]

CanMark(s, next) ==
  /\ seat[s] = "ACTIVE"
  /\ room[RoomOf(s)].status = "IN_PROGRESS"
  /\ attendance[s] # next
  /\ FreeWith(seat, Marked(s, next), RoomOf(s)) >= 0

\* Every mark is a row of its own.
AppendAttendanceLog(s) == [marks EXCEPT ![s] = @ + 1]

MarkNoShow(s) ==
  LET r == RoomOf(s)
      n == marks[s] + 1
      available == FreeWith(seat, Marked(s, "NO_SHOW"), r)
  IN  /\ CanMark(s, "NO_SHOW")
      /\ now >= Start[r] + Grace
      /\ marks[s] < MaxMarks
      /\ attendance' = Marked(s, "NO_SHOW")
      /\ marks' = AppendAttendanceLog(s)
      /\ Adjust(s, "NO_SHOW", n)
      /\ RecordLosses(r, {<<s, n>>}, available)
      /\ RefillAfterLoss(r, TRUE, available)
      /\ UNCHANGED <<room, app, seat, moved, claimedBy, now>>

\* Mutant: every first attendance is taken for a correction.
NotPresent(s) == attendance[s] # "PRESENT"

Reverses(s) == attendance[s] = "NO_SHOW"

\* Mutant: the first NO_SHOW mark of the seat is voided, not the latest.
FirstMark(s) == 1

LatestMark(s) == marks[s]

\* voidSlotLossForEvent: a loss made good or run out stays counted.
VoidLoss(r, e) ==
  IF loss[e].state = "PENDING"
  THEN /\ loss' = LossWith({e}, "VOIDED")
       /\ hosting' = [hosting EXCEPT ![Host[r]].lost = OneFewer(@)]
  ELSE UNCHANGED <<loss, hosting>>

MarkPresent(s) ==
  LET r == RoomOf(s)
  IN  /\ CanMark(s, "PRESENT")
      /\ attendance' = Marked(s, "PRESENT")
      /\ IF Reverses(s)
         THEN /\ Adjust(s, "NO_SHOW_REVERSED", marks[s])
              /\ VoidLoss(r, <<s, LatestMark(s)>>)
              /\ RefillWhenSeated(r, FreeWith(seat, Marked(s, "PRESENT"), r))
         ELSE UNCHANGED <<stats, ledger, loss, hosting, refill>>
      /\ UNCHANGED <<room, app, seat, marks, moved, claimedBy, now>>

\* The core states when a guest may be claimed; the seats follow the claim.
ClaimGuest(g, u) ==
  /\ claimedBy[g] = Nil
  /\ \A a \in Apps : g \in Members[a] /\ app[a] # "CLOSED" => u \notin UsersOf(Members[a])
  /\ claimedBy' = [claimedBy EXCEPT ![g] = u]
  /\ UNCHANGED <<room, app, seat, attendance, marks, moved, stats, ledger, loss, hosting, refill, now>>

-----------------------------------------------------------------------------
(* Refill by hand and by the clock. *)

ActivateRefill(r) ==
  /\ Free(r) > 0
  /\ room[r].status \in {"PUBLISHED", "IN_PROGRESS"}
  /\ WindowOpen(r)
  /\ refill' = [refill EXCEPT ![r] = Activated(r)]
  /\ UNCHANGED <<room, seating, stats, ledger, loss, hosting, now>>

DisableRefill(r) ==
  /\ refill[r].active
  /\ refill' = [refill EXCEPT ![r] = Stopped(r)]
  /\ UNCHANGED <<room, seating, stats, ledger, loss, hosting, now>>

\* Mutant: only rooms still in progress are looked at.
OverdueInProgress(r) ==
  /\ room[r].status = "IN_PROGRESS"
  /\ refill[r].active /\ refill[r].until # Nil /\ refill[r].until < now

Overdue(r) == refill[r].active /\ refill[r].until # Nil /\ refill[r].until < now

ExpireRefill(r) ==
  /\ Overdue(r)
  /\ refill' = [refill EXCEPT ![r] = Stopped(r)]
  /\ loss' = LossWith(PendingLosses(r), "EXPIRED")
  /\ UNCHANGED <<room, seating, stats, ledger, hosting, now>>

Tick ==
  /\ now < MaxTime
  /\ now' = now + 1
  /\ UNCHANGED <<room, seating, stats, ledger, loss, hosting, refill>>

RoomStep(r) ==
  \/ \E places \in Places, reserved \in 0 .. MaxReserved, emergency, material \in BOOLEAN :
       UpdateRoom(r, places, reserved, emergency, material)
  \/ CancelRoom(r) \/ StartRoom(r) \/ Complete(r)
  \/ ActivateRefill(r) \/ DisableRefill(r) \/ ExpireRefill(r)

AppStep(a) ==
  \/ \E recovered \in SUBSET PendingLosses(Venue[a]) : Accept(a, recovered)
  \/ CloseApp(a)

SeatStep(s) == CancelSeat(s) \/ RemoveSeat(s) \/ MarkNoShow(s) \/ MarkPresent(s)

Next ==
  \/ \E r \in Rooms : RoomStep(r)
  \/ \E a \in Apps : AppStep(a)
  \/ \E s \in Seats : SeatStep(s)
  \/ \E g \in Guests, u \in Users : ClaimGuest(g, u)
  \/ Tick

Spec == Init /\ [][Next]_vars

\* The refill scheduler runs on an interval for the life of the process.
RefillFairness == WF_vars(Tick) /\ \A r \in Rooms : WF_vars(ExpireRefill(r))

FairSpec == Spec /\ RefillFairness

\* A host who keeps asking for completion once attendance is in.
CompletingSpec == Spec /\ \A r \in Rooms : WF_vars(Complete(r))

-----------------------------------------------------------------------------
(* Properties. *)

TypeOK ==
  /\ room \in [Rooms -> RoomRow]
  /\ app \in [Apps -> AppStatus]
  /\ seat \in [Seats -> SeatStatus]
  /\ attendance \in [Seats -> Attendance]
  /\ marks \in [Seats -> 0 .. MaxMarks]
  /\ moved \subseteq Seats
  /\ claimedBy \in [Guests -> Users \cup {Nil}]
  /\ stats \in [Users -> [score : 0 .. MaxScore, streak : Nat, noShows : Nat]]
  /\ ledger \subseteq Entry
  /\ loss \in [LossEvents -> [state : LossState, at : 0 .. MaxTime]]
  /\ hosting \in [Users -> [lost : Nat, recovered : Nat]]
  /\ refill \in [Rooms -> [active : BOOLEAN, until : Nat \cup {Nil}]]
  /\ now \in 0 .. MaxTime

\* Entries that cost player u points and have not been taken back.
Late(u) == {e \in ledger : e.user = u /\ e.reason = "LATE_CANCEL"}

Charged(u) ==
  {s \in Seats : /\ attendance[s] = "NO_SHOW"
                 /\ [user |-> u, reason |-> "NO_SHOW", seat |-> s, mark |-> marks[s]] \in ledger}

\* A player never pays for more than the late cancellations and the absences
\* that still stand: whatever the order of marks and corrections, and although
\* the score is cut off at both ends, a correction gives back all it should.
NeverOvercharged ==
  \A u \in Users : stats[u].score + LatePenalty * Cardinality(Late(u))
                     + NoShowPenalty * Cardinality(Charged(u)) >= MaxScore

Claimants == {claimedBy[g] : g \in Guests}

\* The counter of no-shows in a profile is the number of seats on which the
\* player stands charged with one, unless the player claimed a guest whose
\* absence was charged to nobody; then it may be lower, never higher.
NoShowsAreCharged ==
  \A u \in Users :
    /\ stats[u].noShows <= Cardinality(Charged(u))
    /\ u \notin Claimants => stats[u].noShows = Cardinality(Charged(u))

\* What a correction pays back was charged to the same player for the same mark,
\* or the seat was a guest's and its claim came between mark and correction.
ReversalsAnswerPenalties ==
  \A e \in ledger : e.reason = "NO_SHOW_REVERSED" =>
    e.seat[2] \in Guests \/ [e EXCEPT !.reason = "NO_SHOW"] \in ledger

\* A correction compensates a penalty that was applied, whoever holds the seat.
CorrectionsCompensate ==
  \A e \in ledger : e.reason = "NO_SHOW_REVERSED" => [e EXCEPT !.reason = "NO_SHOW"] \in ledger

\* The host's profile shows the losses on record that no correction voided, and
\* the recovered ones among them, though it is kept by adding and subtracting.
HostProfileMatchesLosses ==
  \A h \in Users :
    LET ofHost(states) == {e \in LossEvents : Host[RoomOf(e[1])] = h /\ loss[e].state \in states}
    IN  /\ hosting[h].lost = Cardinality(ofHost({"PENDING", "RECOVERED", "EXPIRED"}))
        /\ hosting[h].recovered = Cardinality(ofHost({"RECOVERED"}))

\* Pending losses and players of r that hold a slot.
Claims(r) == Cardinality(PendingLosses(r)) + Cardinality(Holding(seat, attendance, r))

\* Every pending loss of a room that is still to be played has an empty place of
\* its own, unless the host took the place away: no step makes the pending losses
\* and the players together more than they were and more than the places.
LossesHaveEmptyPlaces ==
  [][\A r \in Rooms : room'[r].status \in {"PUBLISHED", "IN_PROGRESS"} =>
       Claims(r)' <= Claims(r) \/ Claims(r)' <= room'[r].places]_vars

\* A seat found absent keeps the loss of its latest mark; one that turned out
\* to be present keeps none pending, however often the host changed the verdict.
CorrectionsVoidLosses ==
  \A s \in Seats : \A n \in 1 .. marks[s] :
    loss[<<s, n>>].state \in
      (IF attendance[s] = "NO_SHOW" /\ n = marks[s] THEN {"PENDING", "EXPIRED"}
       ELSE {"VOIDED", "EXPIRED"})

\* A refill with an end does end, whatever becomes of the room meanwhile.
RefillWindowCloses ==
  \A r \in Rooms : (refill[r].active /\ refill[r].until # Nil) ~> ~ refill[r].active

\* A room whose gates hold and keep holding is completed.
GatesOpenCompletion == \A r \in Rooms : ~ <>[] GatesHold(r)

=============================================================================
