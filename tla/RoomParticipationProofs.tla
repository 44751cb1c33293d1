---------------------- MODULE RoomParticipationProofs ----------------------
(***************************************************************************)
(* Theorems about the transactional core and its two readers, for any      *)
(* rooms, users, guests, parties and applications, any windows and any     *)
(* clock bounds.                                                           *)
(*                                                                         *)
(* The argument has two layers over type correctness.  Records is the part *)
(* about single rows: where an application can point, which seats it has,  *)
(* which seats have a verdict.  Counted adds the arithmetic: given         *)
(* Records, each command changes the set of holders of one room by exactly *)
(* the number of slots it adds to or takes from that room's projection.    *)
(* What search shows and what the reconciler reports are then read off.    *)
(***************************************************************************)
EXTENDS Reconciliation, Search, FiniteSetTheorems, TLAPS

-----------------------------------------------------------------------------
(* Counting seats. *)

\* There are finitely many seats, so every count of them is a number.
LEMMA SeatsFinite == IsFiniteSet(Seats)
<1>1. IsFiniteSet(Apps \X Persons)
  BY FS_Product, ConstantsAssumption
<1>2. QED BY <1>1 DEF Seats

\* Every count of seats is a natural number.
LEMMA CountIsNat ==
  ASSUME NEW S \in SUBSET Seats
  PROVE  IsFiniteSet(S) /\ Cardinality(S) \in Nat
<1>1. IsFiniteSet(S) BY SeatsFinite, FS_Subset
<1>2. QED BY <1>1, FS_CardinalityType

\* So is the number of seats of a room that hold a slot.
LEMMA HoldingCount ==
  ASSUME NEW st, NEW att, NEW r
  PROVE  /\ Cardinality(Holding(st, att, r)) \in Nat
         /\ Cardinality(Absent(st, att, r)) \in Nat
<1>1. Holding(st, att, r) \in SUBSET Seats BY DEF Holding
<1>2. Absent(st, att, r) \in SUBSET Seats BY DEF Absent
<1>3. QED BY <1>1, <1>2, CountIsNat

\* The counts the services take are naturals.
LEMMA CountsAreNat ==
  ASSUME NEW r
  PROVE  ActiveCount(r) \in Nat /\ NoShowCount(r) \in Nat
BY HoldingCount DEF ActiveCount, NoShowCount

-----------------------------------------------------------------------------
(* Type correctness. *)

RoomRow == [status : RoomStatus, capacity : Nat \ {0}, hostPlays : BOOLEAN,
            reserved : Nat, start : Nat, end : Nat]
AppRow  == [status : AppStatus, room : Rooms \cup {Nil}, owner : Owners \cup {Nil},
            members : SUBSET Persons]
ProjRow == [active : Int, noShows : Nat, available : Nat]

\* Changing only the status of a room keeps every row typed.
LEMMA WithStatusType ==
  ASSUME room \in [Rooms -> RoomRow], NEW r, NEW status \in RoomStatus
  PROVE  /\ WithStatus(r, status) \in [Rooms -> RoomRow]
         /\ \A q \in Rooms : q # r => WithStatus(r, status)[q] = room[q]
         /\ r \in Rooms =>
              /\ WithStatus(r, status)[r].status = status
              /\ WithStatus(r, status)[r].capacity = room[r].capacity
              /\ WithStatus(r, status)[r].reserved = room[r].reserved
              /\ WithStatus(r, status)[r].hostPlays = room[r].hostPlays
              /\ WithStatus(r, status)[r].start = room[r].start
              /\ WithStatus(r, status)[r].end = room[r].end
BY DEF WithStatus, RoomRow

\* An application with another status is still an application.
LEMMA AsType ==
  ASSUME app \in [Apps -> AppRow], NEW a \in Apps, NEW status \in AppStatus
  PROVE  /\ As(a, status) \in AppRow
         /\ As(a, status).status = status
         /\ As(a, status).room = app[a].room
         /\ As(a, status).owner = app[a].owner
         /\ As(a, status).members = app[a].members
BY DEF As, AppRow

\* A status derived from another is again a status.
LEMMA DerivedStatusType ==
  ASSUME NEW status \in RoomStatus, NEW k
  PROVE  DerivedStatus(status, k) \in RoomStatus
BY DEF DerivedStatus, OpenOrFull, RoomStatus, PreStart

\* What an upsert writes is typed: the CHECK keeps the free slots a natural.
LEMMA UpsertType ==
  ASSUME TypeOK, NEW r \in Rooms \cup {Nil}, NEW rm, NEW n \in Int, NEW k \in Nat,
         rm.capacity \in Nat, rm.reserved \in Nat, rm.hostPlays \in BOOLEAN,
         UpsertAvailability(r, rm, n, k)
  PROVE  proj' \in [Rooms -> ProjRow]
<1>1. AvailableWith(rm, n) \in Nat BY DEF UpsertAvailability, AvailableWith
<1>2. QED BY <1>1 DEF UpsertAvailability, TypeOK, ProjRow

\* A draft is typed when its settings passed the checks.
LEMMA InsertDraftType ==
  ASSUME TypeOK, NEW r \in Rooms, NEW sh, NEW w \in Window, sh.hostPlays \in BOOLEAN,
         sh.capacity \in Int, sh.reserved \in Int, InsertDraft(r, sh, w)
  PROVE  TypeOK'
<1>1. sh.capacity \in Nat \ {0} /\ sh.reserved \in Nat
  BY DEF InsertDraft, ValidCapacity
<1>2. RoomWith("DRAFT", sh, w) \in RoomRow
  BY <1>1 DEF RoomWith, RoomRow, RoomStatus, Window
<1>3. proj' \in [Rooms -> ProjRow]
  BY <1>1, UpsertType DEF InsertDraft
<1>4. QED BY <1>2, <1>3 DEF TypeOK, InsertDraft, RoomRow, ProjRow

\* Expiring pending applications keeps every application typed.
LEMMA ExpireType ==
  ASSUME app \in [Apps -> AppRow], NEW r
  PROVE  ExpirePending(r) \in [Apps -> AppRow]
<1>1. \A a \in Apps : As(a, "EXPIRED") \in AppRow BY AsType DEF AppStatus
<1>2. QED BY <1>1 DEF ExpirePending

\* The columns of a room, one by one.
LEMMA RoomFields ==
  ASSUME TypeOK, NEW r \in Rooms
  PROVE  /\ room[r].capacity \in Nat /\ room[r].capacity # 0
         /\ room[r].reserved \in Nat
         /\ room[r].hostPlays \in BOOLEAN
         /\ room[r].status \in RoomStatus
         /\ room[r].start \in Nat /\ room[r].end \in Nat
BY DEF TypeOK

\* Every room command keeps every row typed.
LEMMA RoomStepType ==
  ASSUME TypeOK, NEW r \in Rooms, RoomStep(r)
  PROVE  TypeOK'
<1> USE DEF TypeOK, RoomRow, AppRow, ProjRow
<1>1. ASSUME NEW sh \in Shapes, NEW w \in Windows, CreateRoom(r, sh, w)
      PROVE  TypeOK'
  <2>1. sh \in Shape /\ w \in Window BY ConstantsAssumption
  <2>2. QED BY <1>1, <2>1, InsertDraftType DEF CreateRoom, Shape
<1>2. ASSUME NEW source \in Rooms, NEW w \in Windows, RepeatRoom(source, r, w)
      PROVE  TypeOK'
  BY <1>2, InsertDraftType, RoomFields, ConstantsAssumption DEF RepeatRoom
<1>3. CASE Publish(r)
  <2>1. proj' \in [Rooms -> ProjRow]
    BY <1>3, UpsertType, RoomFields, CountsAreNat DEF Publish
  <2>2. OpenOrFull(Available(r)) \in RoomStatus BY DEF OpenOrFull, RoomStatus
  <2>3. QED BY <1>3, <2>1, <2>2, WithStatusType DEF Publish
<1>4. ASSUME NEW sh \in Shapes, NEW w \in MovedWindows \cup {CurrentWindow(r)},
             UpdateRoom(r, sh, w)
      PROVE  TypeOK'
  <2> DEFINE status == DerivedStatus(room[r].status, AvailableWith(sh, ActiveCount(r)))
  <2>1. w \in Window /\ sh \in Shape
    BY ConstantsAssumption, RoomFields DEF CurrentWindow, Window
  <2>2. sh.capacity \in Nat \ {0} /\ sh.reserved \in Nat /\ sh.hostPlays \in BOOLEAN
    BY <1>4, <2>1 DEF UpdateRoom, ValidCapacity, Shape
  <2>3. status \in RoomStatus BY RoomFields, DerivedStatusType
  <2>4. RoomWith(status, sh, w) \in RoomRow
    BY <2>1, <2>2, <2>3 DEF RoomWith, Window
  <2>5. proj' \in [Rooms -> ProjRow]
    BY <1>4, <2>2, UpsertType, CountsAreNat DEF UpdateRoom
  <2>6. QED BY <1>4, <2>4, <2>5 DEF UpdateRoom
<1>5. CASE CancelRoom(r)
  <2>1. Cardinality(Holding(seat', attendance, r)) \in Nat BY HoldingCount
  <2>2. proj' \in [Rooms -> ProjRow]
    BY <1>5, <2>1, UpsertType, RoomFields DEF CancelRoom
  <2>3. seat' \in [Seats -> SeatStatus] BY <1>5 DEF CancelRoom, SeatStatus
  <2>4. room' \in [Rooms -> RoomRow] BY <1>5, WithStatusType DEF CancelRoom, RoomStatus
  <2>5. QED BY <1>5, <2>2, <2>3, <2>4, ExpireType DEF CancelRoom
<1>6. ASSUME StartLocked(r) PROVE TypeOK'
  <2>1. proj' \in [Rooms -> ProjRow]
    BY <1>6, UpsertType, RoomFields, CountsAreNat DEF StartLocked
  <2>2. room' \in [Rooms -> RoomRow] BY <1>6, WithStatusType DEF StartLocked, RoomStatus
  <2>3. QED BY <1>6, <2>1, <2>2, ExpireType DEF StartLocked
<1>7. CASE Complete(r)
  <2>1. proj' \in [Rooms -> ProjRow]
    BY <1>7, UpsertType, RoomFields, CountsAreNat DEF Complete
  <2>2. room' \in [Rooms -> RoomRow] BY <1>7, WithStatusType DEF Complete, RoomStatus
  <2>3. QED BY <1>7, <2>1, <2>2 DEF Complete
<1>8. QED
  BY <1>1, <1>2, <1>3, <1>4, <1>5, <1>6, <1>7 DEF RoomStep, ManualStart, AutoStart

\* A command that names no room of the model rewrites no projection row.
LEMMA UpsertOfRoomType ==
  ASSUME TypeOK, NEW r, NEW n \in Int, NEW k \in Nat, UpsertAvailability(r, room[r], n, k)
  PROVE  proj' \in [Rooms -> ProjRow]
<1>1. CASE r \in Rooms
  BY <1>1, UpsertType, RoomFields
<1>2. CASE r \notin Rooms
  BY <1>2 DEF UpsertAvailability, TypeOK, ProjRow
<1>3. QED BY <1>1, <1>2

\* The status of a room that a change of its occupancy derives.
LEMMA DerivedRoomType ==
  ASSUME TypeOK, NEW r, NEW k
  PROVE  WithStatus(r, DerivedStatus(room[r].status, k)) \in [Rooms -> RoomRow]
<1>1. CASE r \in Rooms
  <2>1. DerivedStatus(room[r].status, k) \in RoomStatus
    BY <1>1, RoomFields, DerivedStatusType
  <2>2. QED BY <2>1, WithStatusType DEF TypeOK, RoomRow
<1>2. CASE r \notin Rooms
  BY <1>2 DEF WithStatus, TypeOK, RoomRow
<1>3. QED BY <1>1, <1>2

\* Every application command keeps every row typed.
LEMMA AppStepType ==
  ASSUME TypeOK, NEW a \in Apps, AppStep(a)
  PROVE  TypeOK'
<1>1. ASSUME NEW r \in Rooms, NEW owner \in Owners, NEW members \in SUBSET Persons,
             NEW wait \in BOOLEAN, CreateApplication(a, r, owner, members, wait)
      PROVE  TypeOK'
  <2>1. app' \in [Apps -> [status : AppStatus, room : Rooms \cup {Nil},
                          owner : Owners \cup {Nil}, members : SUBSET Persons]]
    BY <1>1 DEF CreateApplication, TypeOK, AppStatus
  <2>2. QED BY <1>1, <2>1 DEF CreateApplication, TypeOK
<1>2. ASSUME NEW actor \in Users, Withdraw(a, actor) PROVE TypeOK'
  BY <1>2, AsType DEF Withdraw, Resolved, AppStatus, TypeOK, AppRow
<1>3. ASSUME NEW actor \in Users, Reject(a, actor) PROVE TypeOK'
  BY <1>3, AsType DEF Reject, Resolved, AppStatus, TypeOK, AppRow
<1>4. ASSUME NEW actor \in Users, Accept(a, actor) PROVE TypeOK'
  <2> DEFINE r == app[a].room
             n == ActiveCount(r) + Cardinality(app[a].members)
  <2>1. n \in Int
    <3>1. app[a].members \in SUBSET Persons BY DEF TypeOK
    <3>2. Cardinality(app[a].members) \in Nat
      BY <3>1, ConstantsAssumption, FS_Subset, FS_CardinalityType
    <3>3. QED BY <3>2, CountsAreNat
  <2>2. proj' \in [Rooms -> ProjRow]
    BY <1>4, <2>1, UpsertOfRoomType DEF Accept
  <2>3. room' \in [Rooms -> RoomRow]
    BY <1>4, DerivedRoomType DEF Accept
  <2>4. app' \in [Apps -> AppRow]
    <3>1. \A b \in Apps : As(b, "ACCEPTED") \in AppRow /\ As(b, "WITHDRAWN") \in AppRow
      BY AsType DEF TypeOK, AppRow, AppStatus
    <3>2. \A b \in Apps : app[b] \in AppRow BY DEF TypeOK, AppRow
    <3>3. QED BY <1>4, <3>1, <3>2 DEF Accept
  <2>5. seat' \in [Seats -> SeatStatus]
    BY <1>4 DEF Accept, TypeOK, SeatStatus
  <2>6. QED BY <1>4, <2>2, <2>3, <2>4, <2>5 DEF Accept, TypeOK, RoomRow, AppRow, ProjRow
<1>5. QED BY <1>1, <1>2, <1>3, <1>4 DEF AppStep

\* Giving up seats keeps every row typed.
LEMMA ReleaseType ==
  ASSUME TypeOK, NEW r, NEW freed \in SUBSET Seats, NEW status \in SeatStatus,
         NEW k \in Nat, Release(r, freed, status, k)
  PROVE  TypeOK'
<1>1. ActiveCount(r) - FreedSlots(freed) \in Int
  BY CountsAreNat, CountIsNat DEF FreedSlots
<1>2. proj' \in [Rooms -> ProjRow] BY <1>1, UpsertOfRoomType DEF Release
<1>3. room' \in [Rooms -> RoomRow] BY DerivedRoomType DEF Release
<1>4. seat' \in [Seats -> SeatStatus] BY DEF Release, TypeOK
<1>5. QED BY <1>2, <1>3, <1>4 DEF Release, TypeOK, RoomRow, ProjRow

\* Every command on a seat keeps every row typed.
LEMMA SeatStepType ==
  ASSUME TypeOK, NEW s \in Seats, SeatStep(s)
  PROVE  TypeOK'
<1>1. ASSUME NEW actor \in Users, RemoveSeat(s, actor) PROVE TypeOK'
  <2>1. {s} \in SUBSET Seats OBVIOUS
  <2>2. QED BY <1>1, <2>1, ReleaseType DEF RemoveSeat, SeatStatus
<1>2. ASSUME NEW actor \in Users, CancelSeat(s, actor) PROVE TypeOK'
  <2>1. {s} \cup OwnedGuests(s) \in SUBSET Seats BY DEF OwnedGuests
  <2>2. QED BY <1>2, <2>1, ReleaseType, CountsAreNat DEF CancelSeat, SeatStatus
<1>3. ASSUME NEW actor \in Users, NEW next \in {"PRESENT", "NO_SHOW"},
             MarkAttendance(s, next, actor)
      PROVE  TypeOK'
  <2> DEFINE r == app[s[1]].room
             marked == [attendance EXCEPT ![s] = next]
             active == Cardinality(Holding(seat, marked, r))
             noShows == Cardinality(Absent(seat, marked, r))
  <2>1. proj' \in [Rooms -> ProjRow]
    <3>1. active \in Nat /\ noShows \in Nat BY HoldingCount
    <3>2. UpsertAvailability(r, room[r], active, noShows) BY <1>3 DEF MarkAttendance
    <3> HIDE DEF active, noShows, r
    <3>3. QED BY <3>1, <3>2, UpsertOfRoomType
  <2>2. attendance' \in [Seats -> Attendance]
    BY <1>3 DEF MarkAttendance, TypeOK, Attendance
  <2>3. QED BY <1>3, <2>1, <2>2 DEF MarkAttendance, TypeOK, ProjRow
<1>4. QED BY <1>1, <1>2, <1>3 DEF SeatStep

\* The empty database is typed.
LEMMA InitType == Init => TypeOK
<1> SUFFICES ASSUME Init PROVE TypeOK
  OBVIOUS
<1>1. NoRoom \in RoomRow BY DEF NoRoom, RoomRow, RoomStatus
<1>2. NoApp \in AppRow BY DEF NoApp, AppRow, AppStatus
<1>3. NoProj \in ProjRow BY DEF NoProj, ProjRow
<1>4. room \in [Rooms -> RoomRow] BY <1>1 DEF Init
<1>5. app \in [Apps -> AppRow] BY <1>2 DEF Init
<1>6. proj \in [Rooms -> ProjRow] BY <1>3 DEF Init
<1>7. /\ seat \in [Seats -> SeatStatus] /\ attendance \in [Seats -> Attendance]
      /\ claimedBy \in [Guests -> Users \cup {Nil}] /\ now \in Nat
  BY DEF Init, SeatStatus, Attendance
<1>8. QED BY <1>4, <1>5, <1>6, <1>7 DEF TypeOK, RoomRow, AppRow, ProjRow

\* Every step keeps every row typed.
LEMMA NextType == TypeOK /\ [Next]_vars => TypeOK'
<1> SUFFICES ASSUME TypeOK, [Next]_vars PROVE TypeOK'
  OBVIOUS
<1>1. ASSUME NEW r \in Rooms, RoomStep(r) PROVE TypeOK' BY <1>1, RoomStepType
<1>2. ASSUME NEW a \in Apps, AppStep(a) PROVE TypeOK' BY <1>2, AppStepType
<1>3. ASSUME NEW s \in Seats, SeatStep(s) PROVE TypeOK' BY <1>3, SeatStepType
<1>4. CASE Tick BY <1>4 DEF Tick, TypeOK
<1>5. ASSUME NEW g \in Guests, NEW u \in Users, ClaimGuest(g, u) PROVE TypeOK'
  BY <1>5 DEF ClaimGuest, TypeOK
<1>6. CASE UNCHANGED vars BY <1>6 DEF vars, TypeOK
<1>7. QED BY <1>1, <1>2, <1>3, <1>4, <1>5, <1>6 DEF Next

\* Every reachable row is well formed: no command can store a negative reserve
\* or publish a negative number of free slots.
THEOREM TypeCorrect == Spec => []TypeOK
BY InitType, NextType, PTL DEF Spec

-----------------------------------------------------------------------------
(* The inductive invariant. *)

Published == {"OPEN", "FULL", "IN_PROGRESS", "COMPLETED", "CANCELLED"}

\* A filed application names a room that has been published.
Placed ==
  \A a \in Apps : app[a].status # "NONE" =>
    app[a].room \in Rooms /\ room[app[a].room].status \in Published

\* Only a held seat of a room under way, or over, carries a verdict.
Verdicts ==
  \A s \in Seats : attendance[s] # "NOT_SET" =>
    seat[s] = "ACTIVE" /\ room[app[s[1]].room].status \in {"IN_PROGRESS", "COMPLETED"}

\* Identifiers not yet used still hold the initial row.
Unused == \A r \in Rooms : room[r].status = "NONE" => room[r] = NoRoom

Records ==
  /\ TypeOK
  /\ Placed
  /\ Verdicts
  /\ Unused
  /\ NoPendingAfterStart
  /\ AllOrNothingSeating
  /\ OneActiveApplicationPerOwner
  /\ EndedRoomsAreSettled

\* The projection of a room and its status are those of a recount.
Counted ==
  \A r \in Rooms : room[r].status # "NONE" =>
    /\ proj[r].active = ActiveCount(r)
    /\ proj[r].available = Available(r)
    /\ room[r].status \in PreStart => room[r].status = OpenOrFull(Available(r))

IInv == Records /\ Counted

-----------------------------------------------------------------------------
(* Rows, one by one. *)

\* A seat that exists belongs to a member of an accepted application.
LEMMA SeatFacts ==
  ASSUME Records, NEW s \in Seats
  PROVE  /\ s[1] \in Apps /\ s[2] \in Persons /\ s = <<s[1], s[2]>>
         /\ seat[s] # "NONE" =>
              /\ app[s[1]].status = "ACCEPTED" /\ s[2] \in app[s[1]].members
              /\ app[s[1]].room \in Rooms
              /\ room[app[s[1]].room].status \in Published
<1>1. s[1] \in Apps /\ s[2] \in Persons /\ s = <<s[1], s[2]>> BY DEF Seats
<1>2. seat[s] # "NONE" => app[s[1]].status = "ACCEPTED" /\ s[2] \in app[s[1]].members
  BY <1>1 DEF Records, AllOrNothingSeating
<1>3. QED BY <1>1, <1>2 DEF Records, Placed

\* Expiry touches only the status of the pending applications of one room.
LEMMA ExpireFields ==
  ASSUME TypeOK, NEW r
  PROVE  \A a \in Apps :
           /\ ExpirePending(r)[a].room = app[a].room
           /\ ExpirePending(r)[a].owner = app[a].owner
           /\ ExpirePending(r)[a].members = app[a].members
           /\ ExpirePending(r)[a].status =
                IF app[a].room = r /\ app[a].status \in Pending
                THEN "EXPIRED" ELSE app[a].status
<1>1. \A a \in Apps : /\ As(a, "EXPIRED").status = "EXPIRED"
                      /\ As(a, "EXPIRED").room = app[a].room
                      /\ As(a, "EXPIRED").owner = app[a].owner
                      /\ As(a, "EXPIRED").members = app[a].members
  BY AsType DEF TypeOK, AppRow, AppStatus
<1>2. QED BY <1>1 DEF ExpirePending

\* Resolving an application touches only its status.
LEMMA ResolvedFields ==
  ASSUME TypeOK, NEW a \in Apps, NEW status \in AppStatus
  PROVE  \A b \in Apps :
           /\ Resolved(a, status)[b].room = app[b].room
           /\ Resolved(a, status)[b].owner = app[b].owner
           /\ Resolved(a, status)[b].members = app[b].members
           /\ Resolved(a, status)[b].status = IF b = a THEN status ELSE app[b].status
BY AsType DEF TypeOK, AppRow, Resolved

\* Nothing but the row of one room changes, from a state in which nobody has
\* applied yet, or from one state before the start to another.
Quiet(r) ==
  /\ \A q \in Rooms : q # r => room'[q] = room[q]
  /\ room'[r].status # "NONE"
  /\ \/ room[r].status \in {"NONE", "DRAFT"}
     \/ room[r].status \in PreStart /\ room'[r].status \in PreStart
  /\ UNCHANGED <<app, seat, attendance>>

\* Creating, publishing and editing a room touch no application and no seat.
LEMMA QuietRecords ==
  ASSUME Records, TypeOK', NEW r \in Rooms, Quiet(r)
  PROVE  Records'
<1>1. Placed'
  BY DEF Placed, Records, Quiet, Published, PreStart
<1>2. Verdicts'
  <2> SUFFICES ASSUME NEW s \in Seats, attendance[s] # "NOT_SET"
               PROVE  /\ seat[s] = "ACTIVE"
                      /\ room'[app[s[1]].room].status \in {"IN_PROGRESS", "COMPLETED"}
    BY DEF Verdicts, Quiet
  <2>1. seat[s] = "ACTIVE" /\ room[app[s[1]].room].status \in {"IN_PROGRESS", "COMPLETED"}
    BY DEF Verdicts, Records
  <2>2. app[s[1]].room \in Rooms BY <2>1, SeatFacts
  <2>3. QED BY <2>1, <2>2 DEF Quiet, PreStart
<1>3. Unused' BY DEF Unused, Records, Quiet
<1>4. NoPendingAfterStart'
  BY DEF NoPendingAfterStart, Placed, Records, Quiet, PreStart
<1>5. AllOrNothingSeating' BY DEF AllOrNothingSeating, Records, Quiet
<1>6. OneActiveApplicationPerOwner' BY DEF OneActiveApplicationPerOwner, Records, Quiet
<1>7. EndedRoomsAreSettled'
  <2> SUFFICES ASSUME NEW s \in Seats, seat[s] = "ACTIVE"
               PROVE  /\ room'[app[s[1]].room].status # "CANCELLED"
                      /\ room'[app[s[1]].room].status = "COMPLETED"
                           => attendance[s] # "NOT_SET"
    BY DEF EndedRoomsAreSettled, Quiet
  <2>1. app[s[1]].room \in Rooms /\ room[app[s[1]].room].status \in Published
    BY SeatFacts
  <2>2. QED BY <2>1 DEF EndedRoomsAreSettled, Records, Quiet, PreStart, Published
<1>8. QED BY <1>1, <1>2, <1>3, <1>4, <1>5, <1>6, <1>7 DEF Records

\* The start of a room answers what is pending and settles nothing else.
LEMMA StartRecords ==
  ASSUME Records, TypeOK', NEW r \in Rooms, StartLocked(r)
  PROVE  Records'
<1>1. /\ \A q \in Rooms : q # r => room'[q] = room[q]
      /\ room'[r].status = "IN_PROGRESS"
      /\ room[r].status \in PreStart
      /\ UNCHANGED <<seat, attendance>>
  BY WithStatusType DEF StartLocked, Records, TypeOK, RoomRow, RoomStatus
<1>2. \A a \in Apps : /\ app'[a].room = app[a].room /\ app'[a].owner = app[a].owner
                      /\ app'[a].members = app[a].members
                      /\ app'[a].status = IF app[a].room = r /\ app[a].status \in Pending
                                          THEN "EXPIRED" ELSE app[a].status
  BY ExpireFields DEF StartLocked, Records
<1>3. Placed'
  BY <1>1, <1>2 DEF Placed, Records, Published, Pending
<1>4. Verdicts'
  BY <1>1, <1>2, SeatFacts DEF Verdicts, Records
<1>5. Unused' BY <1>1 DEF Unused, Records
<1>6. NoPendingAfterStart'
  BY <1>1, <1>2 DEF NoPendingAfterStart, Placed, Records, Pending
<1>7. AllOrNothingSeating'
  BY <1>1, <1>2 DEF AllOrNothingSeating, Records, Pending
<1>8. OneActiveApplicationPerOwner'
  BY <1>2 DEF OneActiveApplicationPerOwner, Records, Pending
<1>9. EndedRoomsAreSettled'
  BY <1>1, <1>2, SeatFacts DEF EndedRoomsAreSettled, Records
<1>10. QED BY <1>3, <1>4, <1>5, <1>6, <1>7, <1>8, <1>9 DEF Records

\* Cancelling a room frees its seats and answers what is pending.
LEMMA CancelRecords ==
  ASSUME Records, TypeOK', NEW r \in Rooms, CancelRoom(r)
  PROVE  Records'
<1>1. /\ \A q \in Rooms : q # r => room'[q] = room[q]
      /\ room'[r].status = "CANCELLED"
      /\ room[r].status \in PreStart \cup {"DRAFT"}
      /\ UNCHANGED attendance
  BY WithStatusType DEF CancelRoom, Records, TypeOK, RoomRow, RoomStatus
<1>2. \A a \in Apps : /\ app'[a].room = app[a].room /\ app'[a].owner = app[a].owner
                      /\ app'[a].members = app[a].members
                      /\ app'[a].status = IF app[a].room = r /\ app[a].status \in Pending
                                          THEN "EXPIRED" ELSE app[a].status
  BY ExpireFields DEF CancelRoom, Records
<1>3. \A s \in Seats :
        seat'[s] = IF app[s[1]].room = r /\ seat[s] = "ACTIVE" THEN "CANCELLED" ELSE seat[s]
  BY DEF CancelRoom, Seated
<1>4. Placed'
  BY <1>1, <1>2 DEF Placed, Records, Published, Pending
<1>5. Verdicts'
  BY <1>1, <1>2, <1>3, SeatFacts DEF Verdicts, Records, PreStart
<1>6. Unused' BY <1>1 DEF Unused, Records
<1>7. NoPendingAfterStart'
  BY <1>1, <1>2 DEF NoPendingAfterStart, Placed, Records, Pending
<1>8. AllOrNothingSeating'
  <2> SUFFICES ASSUME NEW a \in Apps, NEW p \in Persons
               PROVE  seat'[<<a, p>>] # "NONE" <=>
                        app'[a].status = "ACCEPTED" /\ p \in app'[a].members
    BY DEF AllOrNothingSeating
  <2>1. <<a, p>> \in Seats BY DEF Seats
  <2>2. seat'[<<a, p>>] # "NONE" <=> seat[<<a, p>>] # "NONE" BY <1>3, <2>1
  <2>3. app'[a].status = "ACCEPTED" <=> app[a].status = "ACCEPTED" BY <1>2 DEF Pending
  <2>4. QED BY <1>2, <2>2, <2>3 DEF AllOrNothingSeating, Records
<1>9. OneActiveApplicationPerOwner'
  BY <1>2 DEF OneActiveApplicationPerOwner, Records, Pending
<1>10. EndedRoomsAreSettled'
  <2> SUFFICES ASSUME NEW s \in Seats, seat'[s] = "ACTIVE"
               PROVE  /\ room'[app'[s[1]].room].status # "CANCELLED"
                      /\ room'[app'[s[1]].room].status = "COMPLETED"
                           => attendance'[s] # "NOT_SET"
    BY DEF EndedRoomsAreSettled
  <2>1. seat[s] = "ACTIVE" /\ app[s[1]].room # r BY <1>3
  <2>2. app[s[1]].room \in Rooms /\ s[1] \in Apps BY <2>1, SeatFacts
  <2>3. QED BY <1>1, <1>2, <2>1, <2>2 DEF EndedRoomsAreSettled, Records
<1>11. QED BY <1>4, <1>5, <1>6, <1>7, <1>8, <1>9, <1>10 DEF Records

\* A room completes only when every seat still held has a verdict.
LEMMA CompleteRecords ==
  ASSUME Records, TypeOK', NEW r \in Rooms, Complete(r)
  PROVE  Records'
<1>1. /\ \A q \in Rooms : q # r => room'[q] = room[q]
      /\ room'[r].status = "COMPLETED"
      /\ room[r].status = "IN_PROGRESS"
      /\ UNCHANGED <<app, seat, attendance>>
  BY WithStatusType DEF Complete, Records, TypeOK, RoomRow, RoomStatus
<1>2. \A s \in Seats : app[s[1]].room = r /\ seat[s] = "ACTIVE" => attendance[s] # "NOT_SET"
  BY DEF Complete, Unset, Seated
<1>3. Placed' BY <1>1 DEF Placed, Records, Published
<1>4. Verdicts' BY <1>1, SeatFacts DEF Verdicts, Records
<1>5. Unused' BY <1>1 DEF Unused, Records
<1>6. NoPendingAfterStart'
  BY <1>1 DEF NoPendingAfterStart, Placed, Records
<1>7. AllOrNothingSeating' BY <1>1 DEF AllOrNothingSeating, Records
<1>8. OneActiveApplicationPerOwner' BY <1>1 DEF OneActiveApplicationPerOwner, Records
<1>9. EndedRoomsAreSettled'
  BY <1>1, <1>2, SeatFacts DEF EndedRoomsAreSettled, Records
<1>10. QED BY <1>3, <1>4, <1>5, <1>6, <1>7, <1>8, <1>9 DEF Records

\* Every room command keeps the rows consistent with each other.
LEMMA RoomStepRecords ==
  ASSUME Records, TypeOK', NEW r \in Rooms, RoomStep(r)
  PROVE  Records'
<1>1. ASSUME NEW sh, NEW w, InsertDraft(r, sh, w) PROVE Quiet(r)
  BY <1>1 DEF InsertDraft, Quiet, RoomWith, Records, TypeOK
<1>2. CASE Publish(r)
  <2>1. OpenOrFull(Available(r)) \in PreStart BY DEF OpenOrFull, PreStart
  <2>2. Quiet(r)
    BY <1>2, <2>1, WithStatusType
       DEF Publish, Quiet, Records, TypeOK, RoomRow, RoomStatus, PreStart
  <2>3. QED BY <2>2, QuietRecords
<1>3. ASSUME NEW sh, NEW w, UpdateRoom(r, sh, w) PROVE Quiet(r)
  BY <1>3 DEF UpdateRoom, Quiet, RoomWith, DerivedStatus, OpenOrFull, PreStart, Records, TypeOK
<1>4. CASE \E sh \in Shapes, w \in Windows : CreateRoom(r, sh, w)
  BY <1>1, <1>4, QuietRecords DEF CreateRoom
<1>5. CASE \E source \in Rooms, w \in Windows : RepeatRoom(source, r, w)
  BY <1>1, <1>5, QuietRecords DEF RepeatRoom
<1>6. CASE \E sh \in Shapes, w \in MovedWindows \cup {CurrentWindow(r)} : UpdateRoom(r, sh, w)
  BY <1>3, <1>6, QuietRecords
<1>7. QED
  BY <1>2, <1>4, <1>5, <1>6, CancelRecords, StartRecords, CompleteRecords
     DEF RoomStep, ManualStart, AutoStart

\* A new application is the only live one of its owner and seats nobody.
LEMMA CreateApplicationRecords ==
  ASSUME Records, TypeOK', NEW a \in Apps, NEW r \in Rooms, NEW owner, NEW members,
         NEW wait, CreateApplication(a, r, owner, members, wait)
  PROVE  Records'
<1>1. /\ app[a].status = "NONE" /\ room[r].status \in PreStart
      /\ \A b \in Apps : ~ (/\ app[b].room = r /\ app[b].owner = owner
                            /\ app[b].status \in ActiveApp)
      /\ app'[a].status \in Pending /\ app'[a].room = r /\ app'[a].owner = owner
      /\ \A b \in Apps : b # a => app'[b] = app[b]
      /\ UNCHANGED <<room, seat, attendance>>
  BY DEF CreateApplication, HasActiveApplication, Records, TypeOK, Pending
<1>2. \A p \in Persons : seat[<<a, p>>] = "NONE"
  BY <1>1 DEF Records, AllOrNothingSeating
<1>3. Placed' BY <1>1 DEF Placed, Records, Published, PreStart
<1>4. \A s \in Seats : seat[s] # "NONE" => s[1] # a /\ s[1] \in Apps
  BY <1>1, SeatFacts
<1>5. Verdicts' BY <1>1, <1>4 DEF Verdicts, Records
<1>6. Unused' BY <1>1 DEF Unused, Records
<1>7. NoPendingAfterStart' BY <1>1 DEF NoPendingAfterStart, Records, PreStart
<1>8. AllOrNothingSeating' BY <1>1, <1>2 DEF AllOrNothingSeating, Records, Pending
<1>9. OneActiveApplicationPerOwner'
  BY <1>1 DEF OneActiveApplicationPerOwner, Records, ActiveApp, Pending
<1>10. EndedRoomsAreSettled' BY <1>1, <1>4 DEF EndedRoomsAreSettled, Records
<1>11. QED BY <1>3, <1>5, <1>6, <1>7, <1>8, <1>9, <1>10 DEF Records

\* Withdrawal and rejection resolve a pending application.
LEMMA ResolveRecords ==
  ASSUME Records, TypeOK', NEW a \in Apps, NEW status \in {"WITHDRAWN", "REJECTED"},
         app[a].status \in Pending, app' = Resolved(a, status),
         UNCHANGED <<room, seat, attendance>>
  PROVE  Records'
<1>1. \A b \in Apps : /\ app'[b].room = app[b].room /\ app'[b].owner = app[b].owner
                      /\ app'[b].members = app[b].members
                      /\ app'[b].status = IF b = a THEN status ELSE app[b].status
  <2>1. status \in AppStatus BY DEF AppStatus
  <2>2. QED BY <2>1, ResolvedFields DEF Records
<1>2. Placed' BY <1>1 DEF Placed, Records, Pending
<1>3. Verdicts' BY <1>1, SeatFacts DEF Verdicts, Records
<1>4. Unused' BY DEF Unused, Records
<1>5. NoPendingAfterStart' BY <1>1 DEF NoPendingAfterStart, Records
<1>6. AllOrNothingSeating' BY <1>1 DEF AllOrNothingSeating, Records, Pending
<1>7. OneActiveApplicationPerOwner'
  BY <1>1 DEF OneActiveApplicationPerOwner, Records, Pending
<1>8. EndedRoomsAreSettled' BY <1>1, SeatFacts DEF EndedRoomsAreSettled, Records
<1>9. QED BY <1>2, <1>3, <1>4, <1>5, <1>6, <1>7, <1>8 DEF Records

\* Deriving a status before the start never leaves the states before the start.
LEMMA DerivedStatusPhase ==
  ASSUME NEW status \in RoomStatus, NEW k
  PROVE  /\ status \in PreStart => DerivedStatus(status, k) = OpenOrFull(k)
         /\ status \in PreStart => DerivedStatus(status, k) \in PreStart
         /\ status \notin PreStart => DerivedStatus(status, k) = status
BY DEF DerivedStatus, OpenOrFull, PreStart

\* What a change of occupancy does to the rows of rooms.
LEMMA DerivedRoomFields ==
  ASSUME TypeOK, NEW r \in Rooms, NEW k
  PROVE  LET after == WithStatus(r, DerivedStatus(room[r].status, k))
         IN  /\ \A q \in Rooms : q # r => after[q] = room[q]
             /\ after[r].capacity = room[r].capacity
             /\ after[r].reserved = room[r].reserved
             /\ after[r].hostPlays = room[r].hostPlays
             /\ after[r].start = room[r].start /\ after[r].end = room[r].end
             /\ room[r].status \in PreStart =>
                  after[r].status \in PreStart /\ after[r].status = OpenOrFull(k)
             /\ room[r].status \notin PreStart => after[r].status = room[r].status
<1> DEFINE status == DerivedStatus(room[r].status, k)
<1>1. room[r].status \in RoomStatus BY RoomFields
<1>2. status \in RoomStatus BY <1>1, DerivedStatusType
<1>3. /\ room[r].status \in PreStart => status = OpenOrFull(k) /\ status \in PreStart
      /\ room[r].status \notin PreStart => status = room[r].status
  BY <1>1, DerivedStatusPhase
<1> HIDE DEF status
<1>4. QED BY <1>2, <1>3, WithStatusType DEF TypeOK, RoomRow, status

\* Everything an acceptance changes in the rows, field by field.
LEMMA AcceptFields ==
  ASSUME Records, NEW a \in Apps, NEW actor, Accept(a, actor)
  PROVE  LET r == app[a].room
         IN  /\ r \in Rooms /\ app[a].status \in Pending
             /\ room[r].status \in PreStart
             /\ room'[r].status \in PreStart
             /\ \A q \in Rooms : q # r => room'[q] = room[q]
             /\ \A b \in Apps :
                  /\ app'[b].room = app[b].room /\ app'[b].owner = app[b].owner
                  /\ app'[b].members = app[b].members
                  /\ b # a /\ app[b].status \notin Pending => app'[b].status = app[b].status
                  /\ b # a /\ app[b].status \in Pending =>
                       app'[b].status \in {app[b].status, "WITHDRAWN"}
             /\ app'[a].status = "ACCEPTED"
             /\ \A s \in Seats : seat'[s] = IF s[1] = a /\ s[2] \in app[a].members
                                            THEN "ACTIVE" ELSE seat[s]
             /\ UNCHANGED attendance
<1> DEFINE r == app[a].room
<1>1. app[a].status \in Pending BY DEF Accept
<1>2. r \in Rooms BY <1>1 DEF Records, Placed, Pending
<1>3. room[r].status \in PreStart
  BY <1>1, <1>2 DEF Records, NoPendingAfterStart, Pending, PreStart
<1>4. \A b \in Apps : /\ As(b, "ACCEPTED").status = "ACCEPTED"
                      /\ As(b, "ACCEPTED").room = app[b].room
                      /\ As(b, "ACCEPTED").owner = app[b].owner
                      /\ As(b, "ACCEPTED").members = app[b].members
                      /\ As(b, "WITHDRAWN").status = "WITHDRAWN"
                      /\ As(b, "WITHDRAWN").room = app[b].room
                      /\ As(b, "WITHDRAWN").owner = app[b].owner
                      /\ As(b, "WITHDRAWN").members = app[b].members
  BY AsType DEF Records, TypeOK, AppRow, AppStatus
<1>5. \A b \in Overtaken(a) : b # a /\ app[b].status \in Pending BY DEF Overtaken
<1>6. \A q \in Rooms : q # r => room'[q] = room[q]
  BY <1>2, DerivedRoomFields DEF Accept, Records
<1>7. room'[r].status \in PreStart
  BY <1>2, <1>3, DerivedRoomFields DEF Accept, Records
<1>8. \A b \in Apps : app'[b] = IF b = a THEN As(a, "ACCEPTED")
                                ELSE IF b \in Overtaken(a) THEN As(b, "WITHDRAWN")
                                ELSE app[b]
  BY DEF Accept
<1>9. \A s \in Seats : seat'[s] = IF s[1] = a /\ s[2] \in app[a].members
                                  THEN "ACTIVE" ELSE seat[s]
  BY DEF Accept
<1>10. UNCHANGED attendance BY DEF Accept
<1>11. QED BY <1>1, <1>2, <1>3, <1>4, <1>5, <1>6, <1>7, <1>8, <1>9, <1>10

\* An acceptance seats every member and answers what it overtakes.
LEMMA AcceptRecords ==
  ASSUME Records, TypeOK', NEW a \in Apps, NEW actor, Accept(a, actor)
  PROVE  Records'
<1>1. Placed' BY AcceptFields DEF Placed, Records, Published, PreStart, Pending
<1>2. Verdicts'
  <2> SUFFICES ASSUME NEW s \in Seats, attendance[s] # "NOT_SET"
               PROVE  /\ seat'[s] = "ACTIVE"
                      /\ room'[app'[s[1]].room].status \in {"IN_PROGRESS", "COMPLETED"}
    BY AcceptFields DEF Verdicts
  <2>1. seat[s] = "ACTIVE" /\ room[app[s[1]].room].status \in {"IN_PROGRESS", "COMPLETED"}
    BY DEF Verdicts, Records
  <2>2. s[1] \in Apps /\ app[s[1]].room \in Rooms BY <2>1, SeatFacts
  <2>3. QED BY <2>1, <2>2, AcceptFields DEF PreStart
<1>3. Unused' BY AcceptFields DEF Unused, Records, PreStart
<1>4. NoPendingAfterStart' BY AcceptFields DEF NoPendingAfterStart, Placed, Records, PreStart, Pending
<1>5. AllOrNothingSeating'
  <2> SUFFICES ASSUME NEW b \in Apps, NEW p \in Persons
               PROVE  seat'[<<b, p>>] # "NONE" <=>
                        app'[b].status = "ACCEPTED" /\ p \in app'[b].members
    BY DEF AllOrNothingSeating
  <2>1. <<b, p>> \in Seats /\ <<b, p>>[1] = b /\ <<b, p>>[2] = p BY DEF Seats
  <2>2. seat[<<b, p>>] # "NONE" <=> app[b].status = "ACCEPTED" /\ p \in app[b].members
    BY DEF AllOrNothingSeating, Records
  <2>3. QED BY <2>1, <2>2, AcceptFields DEF Pending
<1>6. OneActiveApplicationPerOwner'
  BY AcceptFields DEF OneActiveApplicationPerOwner, Records, Pending
<1>7. EndedRoomsAreSettled'
  <2> SUFFICES ASSUME NEW s \in Seats, seat'[s] = "ACTIVE"
               PROVE  /\ room'[app'[s[1]].room].status # "CANCELLED"
                      /\ room'[app'[s[1]].room].status = "COMPLETED"
                           => attendance'[s] # "NOT_SET"
    BY DEF EndedRoomsAreSettled
  <2>1. s[1] \in Apps BY SeatFacts
  <2>2. CASE s[1] = a BY <2>1, <2>2, AcceptFields DEF PreStart
  <2>3. CASE s[1] # a
    <3>1. seat[s] = "ACTIVE" BY <2>3, AcceptFields
    <3>2. app[s[1]].room \in Rooms BY <3>1, SeatFacts
    <3>3. QED BY <2>1, <3>1, <3>2, AcceptFields DEF EndedRoomsAreSettled, Records, PreStart
  <2>4. QED BY <2>2, <2>3
<1>8. QED BY <1>1, <1>2, <1>3, <1>4, <1>5, <1>6, <1>7 DEF Records

\* Giving up seats of a room before its start.
LEMMA ReleaseRecords ==
  ASSUME Records, TypeOK', NEW r \in Rooms, room[r].status \in PreStart,
         NEW freed \in SUBSET Seats, NEW k,
         NEW status \in {"CANCELLED", "REMOVED_BY_HOST"},
         \A s \in freed : seat[s] = "ACTIVE" /\ app[s[1]].room = r,
         Release(r, freed, status, k)
  PROVE  Records'
<1>1. /\ \A q \in Rooms : q # r => room'[q] = room[q]
      /\ room'[r].status \in PreStart
      /\ \A s \in Seats : seat'[s] = IF s \in freed THEN status ELSE seat[s]
      /\ UNCHANGED <<app, attendance>>
  BY DerivedRoomFields DEF Release, Records
<1>2. Placed' BY <1>1 DEF Placed, Records, Published, PreStart
<1>3. Verdicts'
  <2> SUFFICES ASSUME NEW s \in Seats, attendance[s] # "NOT_SET"
               PROVE  /\ seat'[s] = "ACTIVE"
                      /\ room'[app[s[1]].room].status \in {"IN_PROGRESS", "COMPLETED"}
    BY <1>1 DEF Verdicts
  <2>1. seat[s] = "ACTIVE" /\ room[app[s[1]].room].status \in {"IN_PROGRESS", "COMPLETED"}
    BY DEF Verdicts, Records
  <2>2. app[s[1]].room \in Rooms /\ app[s[1]].room # r
    BY <2>1, SeatFacts DEF PreStart
  <2>3. QED BY <1>1, <2>1, <2>2
<1>4. Unused' BY <1>1 DEF Unused, Records, PreStart
<1>5. NoPendingAfterStart'
  BY <1>1 DEF NoPendingAfterStart, Placed, Records, PreStart
<1>6. AllOrNothingSeating'
  <2> SUFFICES ASSUME NEW b \in Apps, NEW p \in Persons
               PROVE  seat'[<<b, p>>] # "NONE" <=> seat[<<b, p>>] # "NONE"
    BY <1>1 DEF AllOrNothingSeating, Records
  <2>1. <<b, p>> \in Seats BY DEF Seats
  <2>2. QED BY <1>1, <2>1
<1>7. OneActiveApplicationPerOwner' BY <1>1 DEF OneActiveApplicationPerOwner, Records
<1>8. EndedRoomsAreSettled'
  <2> SUFFICES ASSUME NEW s \in Seats, seat'[s] = "ACTIVE"
               PROVE  /\ room'[app[s[1]].room].status # "CANCELLED"
                      /\ room'[app[s[1]].room].status = "COMPLETED"
                           => attendance[s] # "NOT_SET"
    BY <1>1 DEF EndedRoomsAreSettled
  <2>1. seat[s] = "ACTIVE" BY <1>1
  <2>2. app[s[1]].room \in Rooms BY <2>1, SeatFacts
  <2>3. QED BY <1>1, <2>1, <2>2 DEF EndedRoomsAreSettled, Records, PreStart
<1>9. QED BY <1>2, <1>3, <1>4, <1>5, <1>6, <1>7, <1>8 DEF Records

\* A verdict on a player who is seated in a started room.
LEMMA MarkRecords ==
  ASSUME Records, TypeOK', NEW s \in Seats, NEW next \in {"PRESENT", "NO_SHOW"}, NEW actor,
         MarkAttendance(s, next, actor)
  PROVE  Records'
<1>1. /\ seat[s] = "ACTIVE" /\ room[app[s[1]].room].status = "IN_PROGRESS"
      /\ \A t \in Seats : attendance'[t] = IF t = s THEN next ELSE attendance[t]
      /\ UNCHANGED <<room, app, seat>>
  BY DEF MarkAttendance, AttendanceOpen, Records, TypeOK
<1>2. Placed' /\ Unused' /\ NoPendingAfterStart' /\ AllOrNothingSeating'
      /\ OneActiveApplicationPerOwner'
  BY <1>1 DEF Placed, Unused, NoPendingAfterStart, AllOrNothingSeating,
              OneActiveApplicationPerOwner, Records
<1>3. Verdicts' BY <1>1 DEF Verdicts, Records
<1>4. EndedRoomsAreSettled' BY <1>1 DEF EndedRoomsAreSettled, Records
<1>5. QED BY <1>2, <1>3, <1>4 DEF Records

\* A seat given up is freed in its own room, before the start, and with it at
\* most the guests of the same application.
LEMMA FreedSeats ==
  ASSUME Records, NEW s \in Seats, seat[s] = "ACTIVE"
  PROVE  /\ app[s[1]].room \in Rooms
         /\ \A t \in {s} \cup OwnedGuests(s) :
              t \in Seats /\ seat[t] = "ACTIVE" /\ app[t[1]].room = app[s[1]].room
BY SeatFacts DEF OwnedGuests

\* Every command on a seat keeps the rows consistent with each other.
LEMMA SeatStepRecords ==
  ASSUME Records, TypeOK', NEW s \in Seats, SeatStep(s)
  PROVE  Records'
<1>1. ASSUME NEW actor \in Users, RemoveSeat(s, actor) PROVE Records'
  <2>1. app[s[1]].room \in Rooms BY <1>1, FreedSeats DEF RemoveSeat
  <2>2. \A t \in {s} : seat[t] = "ACTIVE" /\ app[t[1]].room = app[s[1]].room
    BY <1>1 DEF RemoveSeat
  <2>3. QED BY <1>1, <2>1, <2>2, ReleaseRecords DEF RemoveSeat
<1>2. ASSUME NEW actor \in Users, CancelSeat(s, actor) PROVE Records'
  <2>1. /\ app[s[1]].room \in Rooms
        /\ {s} \cup OwnedGuests(s) \in SUBSET Seats
        /\ \A t \in {s} \cup OwnedGuests(s) :
             seat[t] = "ACTIVE" /\ app[t[1]].room = app[s[1]].room
    BY <1>2, FreedSeats DEF CancelSeat
  <2>2. QED BY <1>2, <2>1, ReleaseRecords DEF CancelSeat
<1>3. QED BY <1>1, <1>2, MarkRecords DEF SeatStep

\* Every application command keeps the rows consistent with each other.
LEMMA AppStepRecords ==
  ASSUME Records, TypeOK', NEW a \in Apps, AppStep(a)
  PROVE  Records'
<1>1. ASSUME NEW actor, Withdraw(a, actor) \/ Reject(a, actor) PROVE Records'
  BY <1>1, ResolveRecords DEF Withdraw, Reject
<1>2. QED BY <1>1, AcceptRecords, CreateApplicationRecords DEF AppStep

\* The empty database is consistent.
LEMMA InitRecords == Init => Records
<1> SUFFICES ASSUME Init PROVE Records
  OBVIOUS
<1>1. TypeOK BY InitType
<1>2. \A a \in Apps, p \in Persons : <<a, p>> \in Seats BY DEF Seats
<1>3. \A a \in Apps : app[a].status = "NONE" BY DEF Init, NoApp
<1>4. Placed /\ Verdicts /\ Unused /\ NoPendingAfterStart
  BY <1>3 DEF Init, Placed, Verdicts, Unused, NoPendingAfterStart
<1>5. AllOrNothingSeating /\ OneActiveApplicationPerOwner /\ EndedRoomsAreSettled
  BY <1>2, <1>3 DEF Init, AllOrNothingSeating, OneActiveApplicationPerOwner,
                    EndedRoomsAreSettled
<1>6. QED BY <1>1, <1>4, <1>5 DEF Records

\* Every step keeps the rows consistent with each other.
LEMMA NextRecords == Records /\ [Next]_vars => Records'
<1> SUFFICES ASSUME Records, [Next]_vars PROVE Records'
  OBVIOUS
<1>1. TypeOK' BY NextType DEF Records
<1>2. CASE Tick \/ (\E g \in Guests, u \in Users : ClaimGuest(g, u)) \/ UNCHANGED vars
  BY <1>1, <1>2 DEF Tick, ClaimGuest, vars, Records, Placed, Verdicts, Unused, NoPendingAfterStart,
     AllOrNothingSeating, OneActiveApplicationPerOwner, EndedRoomsAreSettled
<1>3. QED BY <1>1, <1>2, RoomStepRecords, AppStepRecords, SeatStepRecords DEF Next

-----------------------------------------------------------------------------
(* Counting. *)

\* The free slots depend on the occupancy settings and the count only.
LEMMA AvailableFields ==
  ASSUME NEW x, NEW y, NEW n, x.capacity = y.capacity, x.hostPlays = y.hostPlays,
         x.reserved = y.reserved
  PROVE  AvailableWith(x, n) = AvailableWith(y, n)
BY DEF AvailableWith

\* A command that upserts the projection of one room with the number of its
\* holders after the command, and leaves the holders of other rooms alone,
\* keeps every projection equal to a recount.
LEMMA UpsertCounted ==
  ASSUME TypeOK, Counted, NEW r \in Rooms, NEW rm, NEW n, NEW k,
         UpsertAvailability(r, rm, n, k),
         n = Cardinality(Holding(seat, attendance, r))',
         AvailableWith(room'[r], n) = AvailableWith(rm, n),
         room'[r].status \in PreStart => room'[r].status = OpenOrFull(AvailableWith(rm, n)),
         \A q \in Rooms : q # r =>
           /\ room'[q] = room[q]
           /\ Holding(seat, attendance, q)' = Holding(seat, attendance, q)
  PROVE  Counted'
<1> SUFFICES ASSUME NEW q \in Rooms, room'[q].status # "NONE"
             PROVE  /\ proj'[q].active = ActiveCount(q)'
                    /\ proj'[q].available = Available(q)'
                    /\ room'[q].status \in PreStart => room'[q].status = OpenOrFull(Available(q)')
  BY DEF Counted
<1>1. CASE q = r
  <2>1. ActiveCount(r)' = n BY DEF ActiveCount
  <2>2. Available(r)' = AvailableWith(rm, n) BY <2>1 DEF Available
  <2>3. proj'[r].active = n /\ proj'[r].available = AvailableWith(rm, n)
    BY DEF UpsertAvailability, TypeOK
  <2>4. QED BY <1>1, <2>1, <2>2, <2>3
<1>2. CASE q # r
  <2>1. ActiveCount(q)' = ActiveCount(q) BY <1>2 DEF ActiveCount
  <2>2. Available(q)' = Available(q) BY <1>2, <2>1 DEF Available
  <2>3. proj'[q] = proj[q] BY <1>2 DEF UpsertAvailability, TypeOK
  <2>4. QED BY <1>2, <2>1, <2>2, <2>3 DEF Counted
<1>3. QED BY <1>1, <1>2

\* A command that moves no seat, room or verdict keeps every projection fresh.
LEMMA SameCounted ==
  ASSUME Counted, UNCHANGED <<room, proj>>,
         \A q \in Rooms : Holding(seat, attendance, q)' = Holding(seat, attendance, q)
  PROVE  Counted'
<1> SUFFICES ASSUME NEW q \in Rooms, room[q].status # "NONE"
             PROVE  /\ proj[q].active = ActiveCount(q)'
                    /\ proj[q].available = Available(q)'
                    /\ room[q].status \in PreStart => room[q].status = OpenOrFull(Available(q)')
  BY DEF Counted
<1>1. ActiveCount(q)' = ActiveCount(q) BY DEF ActiveCount
<1>2. Available(q)' = Available(q) BY <1>1 DEF Available
<1>3. QED BY <1>1, <1>2 DEF Counted

\* Holders are those of before when no seat, verdict or target room changes.
LEMMA HoldersKept ==
  ASSUME UNCHANGED <<seat, attendance>>, \A a \in Apps : app'[a].room = app[a].room, NEW q
  PROVE  Holding(seat, attendance, q)' = Holding(seat, attendance, q)
<1>1. \A s \in Seats : s[1] \in Apps BY DEF Seats
<1>2. QED BY <1>1 DEF Holding

\* A room that nobody could yet apply to has no holders.
LEMMA NoHoldersYet ==
  ASSUME Records, NEW r \in Rooms, room[r].status \in {"NONE", "DRAFT"}
  PROVE  ActiveCount(r) = 0
<1>1. Holding(seat, attendance, r) = {}
  BY SeatFacts DEF Holding, Published
<1>2. QED BY <1>1, FS_EmptySet DEF ActiveCount

\* Creating, publishing, editing, starting and completing a room move no seat.
LEMMA SettledCounted ==
  ASSUME Records, Counted, NEW r \in Rooms, NEW rm, NEW k,
         UNCHANGED <<seat, attendance>>, \A a \in Apps : app'[a].room = app[a].room,
         UpsertAvailability(r, rm, ActiveCount(r), k),
         \A q \in Rooms : q # r => room'[q] = room[q],
         room'[r].capacity = rm.capacity, room'[r].hostPlays = rm.hostPlays,
         room'[r].reserved = rm.reserved,
         room'[r].status \in PreStart =>
           room'[r].status = OpenOrFull(AvailableWith(rm, ActiveCount(r)))
  PROVE  Counted'
<1>1. \A q : Holding(seat, attendance, q)' = Holding(seat, attendance, q) BY HoldersKept
<1>2. ActiveCount(r) = Cardinality(Holding(seat, attendance, r))'
  BY <1>1 DEF ActiveCount
<1>3. AvailableWith(room'[r], ActiveCount(r)) = AvailableWith(rm, ActiveCount(r))
  BY AvailableFields
<1>4. QED BY <1>1, <1>2, <1>3, UpsertCounted DEF Records

\* A draft starts with a projection without holders.
LEMMA InsertDraftCounted ==
  ASSUME Records, Counted, NEW r \in Rooms, NEW sh, NEW w, InsertDraft(r, sh, w)
  PROVE  Counted'
<1>1. ActiveCount(r) = 0 BY NoHoldersYet DEF InsertDraft
<1>2. /\ room'[r].status = "DRAFT" /\ room'[r].capacity = sh.capacity
      /\ room'[r].hostPlays = sh.hostPlays /\ room'[r].reserved = sh.reserved
      /\ \A q \in Rooms : q # r => room'[q] = room[q]
  BY DEF InsertDraft, RoomWith, Records, TypeOK
<1>3. QED BY <1>1, <1>2, SettledCounted DEF InsertDraft, PreStart

\* Publishing derives the status from a recount.
LEMMA PublishCounted ==
  ASSUME Records, Counted, NEW r \in Rooms, Publish(r)
  PROVE  Counted'
<1>1. OpenOrFull(Available(r)) \in RoomStatus BY DEF OpenOrFull, RoomStatus
<1>2. /\ room'[r].status = OpenOrFull(AvailableWith(room[r], ActiveCount(r)))
      /\ room'[r].capacity = room[r].capacity /\ room'[r].hostPlays = room[r].hostPlays
      /\ room'[r].reserved = room[r].reserved
      /\ \A q \in Rooms : q # r => room'[q] = room[q]
  BY <1>1, WithStatusType DEF Publish, Available, Records, TypeOK, RoomRow
<1>3. QED BY <1>2, SettledCounted DEF Publish

\* An edit rewrites the projection for the new settings.
LEMMA UpdateCounted ==
  ASSUME Records, Counted, NEW r \in Rooms, NEW sh, NEW w, UpdateRoom(r, sh, w)
  PROVE  Counted'
<1> DEFINE free == AvailableWith(sh, ActiveCount(r))
<1>1. /\ room'[r].status = DerivedStatus(room[r].status, free)
      /\ room'[r].capacity = sh.capacity /\ room'[r].hostPlays = sh.hostPlays
      /\ room'[r].reserved = sh.reserved
      /\ \A q \in Rooms : q # r => room'[q] = room[q]
  BY DEF UpdateRoom, RoomWith, Records, TypeOK
<1>2. room'[r].status \in PreStart => room'[r].status = OpenOrFull(free)
  BY <1>1, RoomFields, DerivedStatusPhase DEF Records
<1>3. QED BY <1>1, <1>2, SettledCounted DEF UpdateRoom

\* Starting and completing leave the occupancy as it is.
LEMMA PhaseCounted ==
  ASSUME Records, Counted, NEW r \in Rooms, StartLocked(r) \/ Complete(r)
  PROVE  Counted'
<1>1. /\ room'[r].status \notin PreStart
      /\ room'[r].capacity = room[r].capacity /\ room'[r].hostPlays = room[r].hostPlays
      /\ room'[r].reserved = room[r].reserved
      /\ \A q \in Rooms : q # r => room'[q] = room[q]
  BY WithStatusType
     DEF StartLocked, Complete, Records, TypeOK, RoomRow, RoomStatus, PreStart
<1>2. \A a \in Apps : app'[a].room = app[a].room
  BY ExpireFields DEF StartLocked, Complete, Records
<1>3. QED BY <1>1, <1>2, SettledCounted DEF StartLocked, Complete

\* Cancelling a room leaves it without holders and others with theirs.
LEMMA CancelCounted ==
  ASSUME Records, Counted, NEW r \in Rooms, CancelRoom(r)
  PROVE  Counted'
<1> DEFINE n == Cardinality(Holding(seat', attendance, r))
<1>1. /\ room'[r].status \notin PreStart
      /\ room'[r].capacity = room[r].capacity /\ room'[r].hostPlays = room[r].hostPlays
      /\ room'[r].reserved = room[r].reserved
      /\ \A q \in Rooms : q # r => room'[q] = room[q]
      /\ UNCHANGED attendance
  BY WithStatusType DEF CancelRoom, Records, TypeOK, RoomRow, RoomStatus, PreStart
<1>2. \A a \in Apps : app'[a].room = app[a].room
  BY ExpireFields DEF CancelRoom, Records
<1>3. \A s \in Seats : s[1] \in Apps BY DEF Seats
<1>4. \A s \in Seats :
        seat'[s] = IF app[s[1]].room = r /\ seat[s] = "ACTIVE" THEN "CANCELLED" ELSE seat[s]
  BY DEF CancelRoom, Seated
<1>5. \A q \in Rooms : q # r =>
        Holding(seat, attendance, q)' = Holding(seat, attendance, q)
  BY <1>1, <1>2, <1>3, <1>4 DEF Holding
<1>6. Holding(seat, attendance, r)' = Holding(seat', attendance, r)
  BY <1>1, <1>2, <1>3 DEF Holding
<1>7. AvailableWith(room'[r], n) = AvailableWith(room[r], n) BY <1>1, AvailableFields
<1>8. UpsertAvailability(r, room[r], n, 0) BY DEF CancelRoom
<1>9. QED BY <1>1, <1>5, <1>6, <1>7, <1>8, UpsertCounted DEF Records

\* Every room command leaves what a recount would give.
LEMMA RoomStepCounted ==
  ASSUME Records, Counted, NEW r \in Rooms, RoomStep(r)
  PROVE  Counted'
BY InsertDraftCounted, PublishCounted, UpdateCounted, CancelCounted, PhaseCounted
   DEF RoomStep, CreateRoom, RepeatRoom, ManualStart, AutoStart

\* Filing an application gives no slot away.
LEMMA CreateApplicationCounted ==
  ASSUME Records, Counted, NEW a \in Apps, NEW r, NEW owner, NEW members, NEW wait,
         CreateApplication(a, r, owner, members, wait)
  PROVE  Counted'
<1>1. /\ app[a].status = "NONE" /\ \A b \in Apps : b # a => app'[b] = app[b]
      /\ UNCHANGED <<room, seat, attendance, proj>>
  BY DEF CreateApplication, Records, TypeOK
<1>2. \A s \in Seats : seat[s] = "ACTIVE" => s[1] # a /\ s[1] \in Apps
  BY <1>1, SeatFacts
<1>3. \A q \in Rooms : Holding(seat, attendance, q)' = Holding(seat, attendance, q)
  BY <1>1, <1>2 DEF Holding
<1>4. QED BY <1>1, <1>3, SameCounted

\* Turning an application down gives no slot away.
LEMMA ResolveCounted ==
  ASSUME Records, Counted, NEW a \in Apps, NEW actor, Withdraw(a, actor) \/ Reject(a, actor)
  PROVE  Counted'
<1>1. \A b \in Apps : app'[b].room = app[b].room
  BY ResolvedFields DEF Withdraw, Reject, Records, AppStatus
<1>2. QED BY <1>1, HoldersKept, SameCounted DEF Withdraw, Reject

\* An acceptance adds as many holders as the application has members.
LEMMA AcceptedHolders ==
  ASSUME Records, NEW a \in Apps, NEW actor, Accept(a, actor),
         NEW r \in Rooms, r = app[a].room
  PROVE  /\ ActiveCount(r)' = ActiveCount(r) + Cardinality(app[a].members)
         /\ \A q \in Rooms : q # r =>
              Holding(seat, attendance, q)' = Holding(seat, attendance, q)
<1> DEFINE new == {a} \X app[a].members
           old == Holding(seat, attendance, r)
<1>1. app[a].status \in Pending BY AcceptFields
<1>2. app[a].members \in SUBSET Persons BY DEF Records, TypeOK
<1>3. new \in SUBSET Seats BY <1>2 DEF Seats
<1>4. \A s \in Seats : s \in new <=> s[1] = a /\ s[2] \in app[a].members BY DEF Seats
<1>5. \A s \in new : seat[s] = "NONE" /\ attendance[s] = "NOT_SET" /\ app[s[1]].room = r
  BY <1>1, <1>3, <1>4, SeatFacts DEF Records, Verdicts, Pending
<1>6. IsFiniteSet(app[a].members) /\ Cardinality(app[a].members) \in Nat
  BY <1>2, ConstantsAssumption, FS_Subset, FS_CardinalityType
<1>7. IsFiniteSet(new) /\ Cardinality(new) = Cardinality(app[a].members)
  <2>1. IsFiniteSet({a}) /\ Cardinality({a}) = 1 BY FS_Singleton
  <2>2. IsFiniteSet(new) /\ Cardinality(new) = Cardinality({a}) * Cardinality(app[a].members)
    BY <1>6, <2>1, FS_Product
  <2>3. QED BY <1>6, <2>1, <2>2
<1> HIDE DEF new
<1>8. /\ \A s \in Seats : s[1] \in Apps /\ app'[s[1]].room = app[s[1]].room
      /\ \A s \in Seats : seat'[s] = IF s \in new THEN "ACTIVE" ELSE seat[s]
      /\ UNCHANGED attendance
  BY <1>4, AcceptFields, SeatFacts
<1>9. \A q \in Rooms : q # r =>
        Holding(seat, attendance, q)' = Holding(seat, attendance, q)
  BY <1>5, <1>8 DEF Holding
<1>10. Holding(seat, attendance, r)' = old \cup new
  BY <1>3, <1>5, <1>8 DEF Holding
<1>11. old \cap new = {} BY <1>5 DEF Holding
<1>12. IsFiniteSet(old) /\ Cardinality(old) \in Nat BY CountIsNat DEF Holding
<1>13. Cardinality(old \cup new) = Cardinality(old) + Cardinality(app[a].members)
  <2> HIDE DEF old
  <2>1. Cardinality(old \cup new) = Cardinality(old) + Cardinality(new) - Cardinality(old \cap new)
    BY <1>7, <1>12, FS_Union
  <2>2. Cardinality(old \cap new) = 0 BY <1>11, FS_EmptySet
  <2>3. QED BY <1>6, <1>7, <1>12, <2>1, <2>2
<1>14. QED BY <1>9, <1>10, <1>13 DEF ActiveCount

\* The arithmetic of an acceptance equals a recount.
LEMMA AcceptCounted ==
  ASSUME Records, Counted, NEW a \in Apps, NEW actor, Accept(a, actor),
         NEW r \in Rooms, r = app[a].room
  PROVE  Counted'
<1> DEFINE n == ActiveCount(r) + Cardinality(app[a].members)
<1>1. room[r].status \in PreStart /\ \A q \in Rooms : q # r => room'[q] = room[q]
  BY AcceptFields
<1>2. /\ room'[r].capacity = room[r].capacity /\ room'[r].hostPlays = room[r].hostPlays
      /\ room'[r].reserved = room[r].reserved
      /\ room'[r].status = OpenOrFull(AvailableWith(room[r], n))
  BY <1>1, DerivedRoomFields DEF Accept, Records
<1>3. UpsertAvailability(r, room[r], n, 0) BY DEF Accept
<1>4. n = Cardinality(Holding(seat, attendance, r))' BY AcceptedHolders DEF ActiveCount
<1>5. AvailableWith(room'[r], n) = AvailableWith(room[r], n) BY <1>2, AvailableFields
<1>6. \A q \in Rooms : q # r =>
        Holding(seat, attendance, q)' = Holding(seat, attendance, q)
  BY AcceptedHolders
<1> HIDE DEF n
<1>7. QED BY <1>1, <1>2, <1>3, <1>4, <1>5, <1>6, UpsertCounted DEF Records

\* Giving up seats takes as many holders as seats are freed.
LEMMA ReleaseCounted ==
  ASSUME Records, Counted, NEW r \in Rooms, room[r].status \in PreStart,
         NEW freed \in SUBSET Seats, NEW k,
         NEW status \in {"CANCELLED", "REMOVED_BY_HOST"},
         \A s \in freed : seat[s] = "ACTIVE" /\ app[s[1]].room = r,
         Release(r, freed, status, k)
  PROVE  Counted'
<1> DEFINE n == ActiveCount(r) - Cardinality(freed)
<1>1. /\ \A q \in Rooms : q # r => room'[q] = room[q]
      /\ room'[r].capacity = room[r].capacity /\ room'[r].hostPlays = room[r].hostPlays
      /\ room'[r].reserved = room[r].reserved
      /\ room'[r].status = OpenOrFull(AvailableWith(room[r], n))
      /\ \A s \in Seats : seat'[s] = IF s \in freed THEN status ELSE seat[s]
      /\ UNCHANGED <<app, attendance>>
      /\ UpsertAvailability(r, room[r], n, k)
  BY DerivedRoomFields DEF Release, FreedSlots, Records
<1>2. \A s \in freed : attendance[s] = "NOT_SET" BY DEF Records, Verdicts, PreStart
<1>3. freed \subseteq Holding(seat, attendance, r) BY <1>2 DEF Holding
<1>4. Holding(seat, attendance, r)' = Holding(seat, attendance, r) \ freed
  BY <1>1 DEF Holding
<1>5. IsFiniteSet(Holding(seat, attendance, r)) BY CountIsNat DEF Holding
<1>6. n = Cardinality(Holding(seat, attendance, r) \ freed)
  <2> DEFINE old == Holding(seat, attendance, r)
  <2>1. old \cap freed = freed BY <1>3
  <2>2. Cardinality(old \ freed) = Cardinality(old) - Cardinality(old \cap freed)
    BY <1>5, FS_Difference
  <2>3. QED BY <2>1, <2>2 DEF ActiveCount
<1>7. \A q \in Rooms : q # r =>
        Holding(seat, attendance, q)' = Holding(seat, attendance, q)
  BY <1>1 DEF Holding
<1>8. AvailableWith(room'[r], n) = AvailableWith(room[r], n) BY <1>1, AvailableFields
<1>9. n = Cardinality(Holding(seat, attendance, r))' BY <1>4, <1>6
<1> HIDE DEF n
<1>10. QED BY <1>1, <1>7, <1>8, <1>9, UpsertCounted DEF Records

\* A verdict is recounted on the attendance it leaves.
LEMMA MarkCounted ==
  ASSUME Records, Counted, NEW s \in Seats, NEW next \in {"PRESENT", "NO_SHOW"}, NEW actor,
         MarkAttendance(s, next, actor), NEW r \in Rooms, r = app[s[1]].room
  PROVE  Counted'
<1> DEFINE marked == [attendance EXCEPT ![s] = next]
           n == Cardinality(Holding(seat, marked, r))
           k == Cardinality(Absent(seat, marked, r))
<1>1. /\ room[r].status \notin PreStart
      /\ attendance' = marked /\ UNCHANGED <<room, app, seat>>
      /\ UpsertAvailability(r, room[r], n, k)
  BY DEF MarkAttendance, AttendanceOpen, PreStart
<1>2. \A t \in Seats : t # s => attendance'[t] = attendance[t]
  BY <1>1 DEF Records, TypeOK
<1>3. \A q \in Rooms : q # r =>
        Holding(seat, attendance, q)' = Holding(seat, attendance, q)
  BY <1>1, <1>2 DEF Holding
<1>4. n = Cardinality(Holding(seat, attendance, r))' BY <1>1 DEF Holding
<1> HIDE DEF n, k
<1>5. QED BY <1>1, <1>3, <1>4, UpsertCounted DEF Records

\* Every application command leaves what a recount would give.
LEMMA AppStepCounted ==
  ASSUME Records, Counted, NEW a \in Apps, AppStep(a)
  PROVE  Counted'
<1>1. ASSUME NEW actor, Accept(a, actor) PROVE Counted'
  <2>1. app[a].room \in Rooms BY <1>1, AcceptFields
  <2>2. QED BY <1>1, <2>1, AcceptCounted
<1>2. QED BY <1>1, CreateApplicationCounted, ResolveCounted DEF AppStep

\* Every command on a seat leaves what a recount would give.
LEMMA SeatStepCounted ==
  ASSUME Records, Counted, NEW s \in Seats, SeatStep(s)
  PROVE  Counted'
<1>1. ASSUME NEW actor \in Users, RemoveSeat(s, actor) PROVE Counted'
  <2>1. app[s[1]].room \in Rooms BY <1>1, FreedSeats DEF RemoveSeat
  <2>2. \A t \in {s} : seat[t] = "ACTIVE" /\ app[t[1]].room = app[s[1]].room
    BY <1>1 DEF RemoveSeat
  <2>3. QED BY <1>1, <2>1, <2>2, ReleaseCounted DEF RemoveSeat
<1>2. ASSUME NEW actor \in Users, CancelSeat(s, actor) PROVE Counted'
  <2>1. /\ app[s[1]].room \in Rooms
        /\ {s} \cup OwnedGuests(s) \in SUBSET Seats
        /\ \A t \in {s} \cup OwnedGuests(s) :
             seat[t] = "ACTIVE" /\ app[t[1]].room = app[s[1]].room
    BY <1>2, FreedSeats DEF CancelSeat
  <2>2. QED BY <1>2, <2>1, ReleaseCounted DEF CancelSeat
<1>3. ASSUME NEW actor \in Users, NEW next \in {"PRESENT", "NO_SHOW"},
             MarkAttendance(s, next, actor)
      PROVE  Counted'
  <2>1. app[s[1]].room \in Rooms BY <1>3, SeatFacts DEF MarkAttendance
  <2>2. QED BY <1>3, <2>1, MarkCounted
<1>4. QED BY <1>1, <1>2, <1>3 DEF SeatStep

\* The empty database satisfies the invariant.
LEMMA InitInv == Init => IInv
<1>1. Init => Counted BY DEF Init, Counted, NoRoom
<1>2. QED BY <1>1, InitRecords DEF IInv

\* Every step keeps the invariant.
LEMMA NextInv == IInv /\ [Next]_vars => IInv'
<1> SUFFICES ASSUME Records, Counted, [Next]_vars PROVE IInv'
  BY DEF IInv
<1>1. Records' BY NextRecords
<1>2. CASE Tick \/ (\E g \in Guests, u \in Users : ClaimGuest(g, u)) \/ UNCHANGED vars
  <2>1. \A q : Holding(seat, attendance, q)' = Holding(seat, attendance, q)
    BY <1>2 DEF Tick, ClaimGuest, vars, Holding
  <2>2. UNCHANGED <<room, proj>> BY <1>2 DEF Tick, ClaimGuest, vars
  <2>3. QED BY <1>1, <2>1, <2>2, SameCounted DEF IInv
<1>3. QED BY <1>1, <1>2, RoomStepCounted, AppStepCounted, SeatStepCounted DEF Next, IInv

\* The invariant the theorems below are read off from.
THEOREM Invariant == Spec => []IInv
BY InitInv, NextInv, PTL DEF Spec

-----------------------------------------------------------------------------
(* What the invariant implies. *)

\* The holders a property speaks of are those the services count.
LEMMA SameHolders == \A r : HoldersOf(r) = Holding(seat, attendance, r)
BY DEF HoldersOf, Holding

\* The invariant makes the projection fresh.
LEMMA FreshFromInv == IInv => ProjectionFresh
<1> SUFFICES ASSUME IInv, NEW r \in Rooms, room[r].status # "NONE"
             PROVE  /\ proj[r].active = Cardinality(HoldersOf(r))
                    /\ proj[r].available =
                         room[r].capacity - (IF room[r].hostPlays THEN 1 ELSE 0)
                           - room[r].reserved - Cardinality(HoldersOf(r))
  BY DEF ProjectionFresh
<1>1. proj[r].active = ActiveCount(r) /\ proj[r].available = Available(r)
  BY DEF IInv, Counted
<1>2. Cardinality(HoldersOf(r)) = ActiveCount(r) BY SameHolders DEF ActiveCount
<1>3. QED BY <1>1, <1>2 DEF Available, AvailableWith

\* The invariant keeps every room within its capacity.
LEMMA CapacityFromInv == IInv => CapacityRespected
<1> SUFFICES ASSUME IInv, NEW r \in Rooms
             PROVE  (IF room[r].hostPlays THEN 1 ELSE 0) + room[r].reserved
                      + Cardinality(HoldersOf(r)) <= room[r].capacity
  BY DEF CapacityRespected
<1>1. Cardinality(HoldersOf(r)) = ActiveCount(r) /\ ActiveCount(r) \in Nat
  BY SameHolders, CountsAreNat DEF ActiveCount
<1>2. TypeOK BY DEF IInv, Records
<1>3. CASE room[r].status = "NONE"
  <2>1. room[r] = NoRoom BY <1>3 DEF IInv, Records, Unused
  <2>2. ActiveCount(r) = 0 BY <1>3, NoHoldersYet DEF IInv
  <2>3. QED BY <1>1, <2>1, <2>2 DEF NoRoom
<1>4. CASE room[r].status # "NONE"
  <2>1. proj[r].available = AvailableWith(room[r], ActiveCount(r))
    BY <1>4 DEF IInv, Counted, Available
  <2>2. proj[r].available \in Nat BY <1>2 DEF TypeOK
  <2>3. QED BY <1>1, <1>2, <2>1, <2>2, RoomFields DEF AvailableWith
<1>5. QED BY <1>3, <1>4

\* The invariant makes the status tell whether a slot is free.
LEMMA StatusFromInv == IInv => StatusTracksAvailability
<1> SUFFICES ASSUME IInv, NEW r \in Rooms
             PROVE  /\ room[r].status = "OPEN" => Available(r) > 0
                    /\ room[r].status = "FULL" => Available(r) = 0
  BY DEF StatusTracksAvailability
<1>1. room[r].status \in PreStart =>
        /\ room[r].status = OpenOrFull(Available(r))
        /\ Available(r) = proj[r].available
  BY DEF IInv, Counted, PreStart
<1>2. proj[r].available \in Nat BY DEF IInv, Records, TypeOK
<1>3. QED BY <1>1, <1>2 DEF PreStart, OpenOrFull

\* No room is ever overbooked: the host, the reserve and the seated players
\* fit the capacity after any interleaving of edits, acceptances and corrections.
THEOREM NoOverbooking == Spec => []CapacityRespected
BY Invariant, CapacityFromInv, PTL

\* What search reads is what a recount of the seats would give.
THEOREM FreshProjection == Spec => []ProjectionFresh
BY Invariant, FreshFromInv, PTL

\* A room is shown OPEN exactly while there is a slot to give.
THEOREM StatusIsDerived == Spec => []StatusTracksAvailability
BY Invariant, StatusFromInv, PTL

\* A party is seated whole or not at all.
THEOREM PartyAtomicity == Spec => []AllOrNothingSeating
<1>1. IInv => AllOrNothingSeating BY DEF IInv, Records
<1>2. QED BY <1>1, Invariant, PTL

\* No join request outlives the start or the cancellation of its room.
THEOREM StartAnswersEverybody == Spec => []NoPendingAfterStart
<1>1. IInv => NoPendingAfterStart BY DEF IInv, Records
<1>2. QED BY <1>1, Invariant, PTL

\* One live application per owner and room, without the unique index.
THEOREM NoDuplicateApplication == Spec => []OneActiveApplicationPerOwner
<1>1. IInv => OneActiveApplicationPerOwner BY DEF IInv, Records
<1>2. QED BY <1>1, Invariant, PTL

\* Ended rooms leave nobody without a verdict, cancelled rooms nobody seated.
THEOREM EndSettlesSeats == Spec => []EndedRoomsAreSettled
<1>1. IInv => EndedRoomsAreSettled BY DEF IInv, Records
<1>2. QED BY <1>1, Invariant, PTL

-----------------------------------------------------------------------------
(* What a step may never do. *)

\* A projection row other than the one upserted stays as it is.
LEMMA UpsertOthers ==
  ASSUME TypeOK, NEW r, NEW rm, NEW n, NEW k, UpsertAvailability(r, rm, n, k)
  PROVE  \A q \in Rooms : q # r => proj'[q] = proj[q]
BY DEF UpsertAvailability, TypeOK

\* No room command rewrites history.
LEMMA RoomStepHistory ==
  ASSUME Records, NEW r \in Rooms, RoomStep(r)
  PROVE  KeepsHistory
<1>1. room[r].status \notin {"COMPLETED", "CANCELLED"}
  BY DEF RoomStep, CreateRoom, RepeatRoom, InsertDraft, Publish, UpdateRoom, CancelRoom,
         ManualStart, AutoStart, StartLocked, Complete, PreStart
<1>2. \A q \in Rooms : q # r => room'[q] = room[q]
  BY DEF RoomStep, CreateRoom, RepeatRoom, InsertDraft, Publish, UpdateRoom, CancelRoom,
         ManualStart, AutoStart, StartLocked, Complete, WithStatus, Records, TypeOK
<1>3. \A q \in Rooms : q # r => proj'[q] = proj[q]
  BY UpsertOthers
     DEF RoomStep, CreateRoom, RepeatRoom, InsertDraft, Publish, UpdateRoom, CancelRoom,
         ManualStart, AutoStart, StartLocked, Complete, Records
<1>4. UNCHANGED attendance
  BY DEF RoomStep, CreateRoom, RepeatRoom, InsertDraft, Publish, UpdateRoom, CancelRoom,
         ManualStart, AutoStart, StartLocked, Complete
<1>5. \A s \in Seats : seat'[s] # seat[s] => app[s[1]].room = r /\ seat[s] = "ACTIVE"
  BY DEF RoomStep, CreateRoom, RepeatRoom, InsertDraft, Publish, UpdateRoom, CancelRoom,
         ManualStart, AutoStart, StartLocked, Complete, Seated
<1>6. \A a \in Apps : app'[a] # app[a] => app[a].status \in Pending
  BY DEF RoomStep, CreateRoom, RepeatRoom, InsertDraft, Publish, UpdateRoom, CancelRoom,
         ManualStart, AutoStart, StartLocked, Complete, ExpirePending
<1>7. QED BY <1>1, <1>2, <1>3, <1>4, <1>5, <1>6 DEF KeepsHistory, Pending

\* No application command rewrites history.
LEMMA AppStepHistory ==
  ASSUME Records, NEW a \in Apps, AppStep(a)
  PROVE  KeepsHistory
<1>1. ASSUME NEW actor, Accept(a, actor) PROVE KeepsHistory
  <2> DEFINE r == app[a].room
  <2>1. r \in Rooms /\ room[r].status \in PreStart
        /\ \A q \in Rooms : q # r => room'[q] = room[q]
    BY <1>1, AcceptFields
  <2>2. \A q \in Rooms : q # r => proj'[q] = proj[q]
    BY <1>1, UpsertOthers DEF Accept, Records
  <2>3. UNCHANGED attendance BY <1>1 DEF Accept
  <2>4. \A b \in Apps : app'[b] # app[b] => app[b].status \in Pending
    BY <1>1 DEF Accept, Overtaken
  <2>5. \A s \in Seats : seat'[s] # seat[s] => s[1] = a /\ seat[s] = "NONE"
    <3> SUFFICES ASSUME NEW s \in Seats, s[1] = a PROVE seat[s] = "NONE"
      BY <1>1, AcceptFields
    <3>1. app[a].status \in Pending BY <1>1 DEF Accept
    <3>2. QED BY <3>1, SeatFacts DEF Pending
  <2>6. QED BY <2>1, <2>2, <2>3, <2>4, <2>5 DEF KeepsHistory, Pending, PreStart
<1>2. ASSUME NEW actor, Withdraw(a, actor) \/ Reject(a, actor) PROVE KeepsHistory
  BY <1>2 DEF Withdraw, Reject, Resolved, KeepsHistory, Pending, Records, TypeOK
<1>3. ASSUME NEW r, NEW owner, NEW members, NEW wait,
             CreateApplication(a, r, owner, members, wait)
      PROVE  KeepsHistory
  BY <1>3 DEF CreateApplication, KeepsHistory, Records, TypeOK
<1>4. QED BY <1>1, <1>2, <1>3 DEF AppStep

\* No command on a seat rewrites history.
LEMMA SeatStepHistory ==
  ASSUME Records, NEW s \in Seats, SeatStep(s)
  PROVE  KeepsHistory
<1> DEFINE r == app[s[1]].room
<1>1. /\ r \in Rooms /\ room[r].status \notin {"COMPLETED", "CANCELLED"}
      /\ UNCHANGED app
      /\ \A t \in Seats : seat'[t] # seat[t] => app[t[1]].room = r /\ seat[t] = "ACTIVE"
      /\ \A t \in Seats : attendance'[t] # attendance[t] => app[t[1]].room = r
  BY SeatFacts
     DEF SeatStep, RemoveSeat, CancelSeat, MarkAttendance, Release, OwnedGuests,
         AttendanceOpen, PreStart, Records, TypeOK
<1>2. \A q \in Rooms : q # r => room'[q] = room[q]
  BY DEF SeatStep, RemoveSeat, CancelSeat, MarkAttendance, Release, WithStatus, Records, TypeOK
<1>3. \A q \in Rooms : q # r => proj'[q] = proj[q]
  BY UpsertOthers DEF SeatStep, RemoveSeat, CancelSeat, MarkAttendance, Release, Records
<1>4. QED BY <1>1, <1>2, <1>3 DEF KeepsHistory

\* Every step of the system keeps history.
LEMMA NextHistory == IInv /\ Next => KeepsHistory
<1> SUFFICES ASSUME IInv, Next PROVE KeepsHistory
  OBVIOUS
<1>1. CASE Tick \/ \E g \in Guests, u \in Users : ClaimGuest(g, u)
  BY <1>1 DEF Tick, ClaimGuest, KeepsHistory
<1>2. QED BY <1>1, RoomStepHistory, AppStepHistory, SeatStepHistory DEF Next, IInv

\* Ended rooms, resolved applications and seats given up are never rewritten.
THEOREM HistoryKept == Spec => HistoryIsFinal
<1>1. IInv /\ [Next]_vars => [KeepsHistory]_vars BY NextHistory
<1>2. QED BY <1>1, Invariant, PTL DEF Spec, HistoryIsFinal

\* Two seats held before a step were as much double booked before it.
LEMMA HeldBefore ==
  ASSUME Records, KeepsHistory, ~ Moved, NEW s \in Seats, seat[s] = "ACTIVE"
  PROVE  LET r == app[s[1]].room
         IN  /\ r \in Rooms
             /\ app'[s[1]].room = r
             /\ Live(r)' => Live(r)
             /\ room'[r].start = room[r].start /\ room'[r].end = room[r].end
<1> DEFINE r == app[s[1]].room
<1>1. /\ s[1] \in Apps /\ r \in Rooms /\ app[s[1]].status = "ACCEPTED"
      /\ room[r].status \in Published
  BY SeatFacts
<1>2. app'[s[1]] = app[s[1]] BY <1>1 DEF KeepsHistory
<1>3. room'[r].start = room[r].start /\ room'[r].end = room[r].end BY <1>1 DEF Moved
<1>4. room[r].status \in {"COMPLETED", "CANCELLED"} => room'[r] = room[r]
  BY <1>1 DEF KeepsHistory
<1>5. room'[r].status \in {"OPEN", "FULL", "IN_PROGRESS"} => Live(r)
  BY <1>1, <1>4 DEF Live, Published
<1>6. Live(r)' => room'[r].status \in {"OPEN", "FULL", "IN_PROGRESS"}
  BY <1>2 DEF Live
<1>7. QED BY <1>1, <1>2, <1>3, <1>5, <1>6

\* Only an acceptance seats anybody.
LEMMA NewSeats ==
  ASSUME Records, Next, NEW s \in Seats, seat[s] # "ACTIVE", seat'[s] = "ACTIVE"
  PROVE  \E actor \in Users : Accept(s[1], actor) /\ s[2] \in app[s[1]].members
<1>1. ASSUME NEW r \in Rooms, RoomStep(r) PROVE FALSE
  BY <1>1 DEF RoomStep, CreateRoom, RepeatRoom, InsertDraft, Publish, UpdateRoom,
              CancelRoom, ManualStart, AutoStart, StartLocked, Complete
<1>2. ASSUME NEW t \in Seats, SeatStep(t) PROVE FALSE
  BY <1>2 DEF SeatStep, RemoveSeat, CancelSeat, MarkAttendance, Release
<1>3. CASE Tick \/ \E g \in Guests, u \in Users : ClaimGuest(g, u)
  BY <1>3 DEF Tick, ClaimGuest
<1>4. ASSUME NEW a \in Apps, AppStep(a)
      PROVE  \E actor \in Users : Accept(s[1], actor) /\ s[2] \in app[s[1]].members
  <2>1. PICK actor \in Users : Accept(a, actor)
    BY <1>4 DEF AppStep, CreateApplication, Withdraw, Reject
  <2>2. s[1] = a /\ s[2] \in app[a].members BY <2>1 DEF Accept
  <2>3. QED BY <2>1, <2>2
<1>5. QED BY <1>1, <1>2, <1>3, <1>4 DEF Next

\* An acceptance refuses a user who holds a seat in an overlapping live room.
LEMMA NoNewCollision ==
  ASSUME Records, KeepsHistory, Next, ~ Moved, ~ Claimed, NEW s \in Seats, NEW t \in Seats,
         seat[s] # "ACTIVE", seat'[s] = "ACTIVE", seat'[t] = "ACTIVE",
         UserOf(s[2]) # Nil, UserOf(s[2]) = UserOf(t[2]),
         app'[s[1]].room # app'[t[1]].room,
         room'[app'[t[1]].room].status \in {"OPEN", "FULL", "IN_PROGRESS"},
         room'[app'[s[1]].room].start < room'[app'[t[1]].room].end,
         room'[app'[t[1]].room].start < room'[app'[s[1]].room].end
  PROVE  FALSE
<1> DEFINE a == s[1]
           u == UserOf(s[2])
           r == app[a].room
           q == app[t[1]].room
<1>1. a \in Apps /\ t[1] \in Apps /\ t = <<t[1], t[2]>> BY DEF Seats
<1>2. PICK actor \in Users : Accept(a, actor) /\ s[2] \in app[a].members
  BY NewSeats
<1>3. r \in Rooms /\ app'[a].room = r /\ app'[t[1]].room = q /\ r # q
      /\ room'[r].start = room[r].start /\ room'[r].end = room[r].end
  BY <1>1, <1>2, AcceptFields DEF Moved
<1>4. seat[t] = "ACTIVE" BY <1>1, <1>2, <1>3, AcceptFields
<1>5. q \in Rooms /\ room'[q] = room[q]
  <2>1. q \in Rooms BY <1>4, SeatFacts
  <2>2. \A p \in Rooms : p # r => room'[p] = room[p] BY <1>1, <1>2, AcceptFields
  <2>3. QED BY <1>3, <2>1, <2>2
<1>6. ScheduleConflict(u, r)
  <2>1. Overlap(q, r) BY <1>3, <1>5 DEF Overlap
  <2>2. QED BY <1>3, <1>4, <1>5, <2>1 DEF ScheduleConflict, PreStart
<1>7. u \in UsersOf(app[a].members) BY <1>2 DEF UsersOf
<1>8. QED BY <1>2, <1>6, <1>7 DEF Accept

\* Nobody comes to sit in two overlapping live rooms unless a room is moved or
\* a guest claimed.
THEOREM NoDoubleBookingByAcceptance == Spec => DoubleBookingIsNotAccepted
<1>1. ASSUME IInv, Next, ~ Moved, ~ Claimed, NEW x \in DoubleBooked' PROVE x \in DoubleBooked
  <2> DEFINE s == x[1]
             t == x[2]
  <2>0. x \in (Committed' \X Committed')
    BY <1>1 DEF DoubleBooked
  <2>1. /\ s \in Seats /\ t \in Seats /\ x = <<s, t>>
        /\ seat'[s] = "ACTIVE" /\ UserOf(s[2])' # Nil /\ Live(app[s[1]].room)'
        /\ seat'[t] = "ACTIVE" /\ UserOf(t[2])' # Nil /\ Live(app[t[1]].room)'
        /\ UserOf(s[2])' = UserOf(t[2])'
        /\ app'[s[1]].room # app'[t[1]].room
        /\ room'[app'[s[1]].room].start < room'[app'[t[1]].room].end
        /\ room'[app'[t[1]].room].start < room'[app'[s[1]].room].end
    BY <1>1, <2>0 DEF DoubleBooked, Committed
  <2>2. Records /\ KeepsHistory BY <1>1, NextHistory DEF IInv
  <2>3. /\ room'[app'[s[1]].room].status \in {"OPEN", "FULL", "IN_PROGRESS"}
        /\ room'[app'[t[1]].room].status \in {"OPEN", "FULL", "IN_PROGRESS"}
    BY <2>1 DEF Live
  <2>4. UserOf(s[2]) # Nil /\ UserOf(t[2]) # Nil /\ UserOf(s[2]) = UserOf(t[2])
    BY <1>1, <2>1 DEF Claimed, UserOf
  <2>5. seat[s] = "ACTIVE" BY <1>1, <2>1, <2>2, <2>3, <2>4, NoNewCollision
  <2>6. seat[t] = "ACTIVE" BY <1>1, <2>1, <2>2, <2>3, <2>4, NoNewCollision
  <2>7. /\ app'[s[1]].room = app[s[1]].room /\ app'[t[1]].room = app[t[1]].room
        /\ Live(app[s[1]].room) /\ Live(app[t[1]].room)
        /\ room'[app[s[1]].room].start = room[app[s[1]].room].start
        /\ room'[app[s[1]].room].end = room[app[s[1]].room].end
        /\ room'[app[t[1]].room].start = room[app[t[1]].room].start
        /\ room'[app[t[1]].room].end = room[app[t[1]].room].end
    BY <1>1, <2>1, <2>2, <2>5, <2>6, HeldBefore
  <2>8. QED BY <2>1, <2>4, <2>5, <2>6, <2>7 DEF DoubleBooked, Committed
<1>2. IInv /\ [Next]_vars => [DoubleBooksByMoveOrClaim]_vars
  BY <1>1 DEF DoubleBooksByMoveOrClaim
<1>3. QED BY <1>2, Invariant, PTL DEF Spec, DoubleBookingIsNotAccepted

-----------------------------------------------------------------------------
(* The reconciler. *)

\* A projection row of a room without an absent player counts none.
AbsencesTold ==
  \A r \in Rooms : Absent(seat, attendance, r) = {} => proj[r].noShows = 0

\* A command that upserts the projection of one room, with no absences or with a
\* recount of them, and leaves the absences of other rooms alone.
LEMMA UpsertTells ==
  ASSUME TypeOK, AbsencesTold, NEW r \in Rooms, NEW rm, NEW n, NEW k,
         UpsertAvailability(r, rm, n, k),
         k = 0 \/ k = Cardinality(Absent(seat, attendance, r))',
         \A q \in Rooms : q # r => Absent(seat, attendance, q)' = Absent(seat, attendance, q)
  PROVE  AbsencesTold'
<1> SUFFICES ASSUME NEW q \in Rooms, Absent(seat, attendance, q)' = {}
             PROVE  proj'[q].noShows = 0
  BY DEF AbsencesTold
<1>1. CASE q = r
  <2>1. proj'[q].noShows = k BY <1>1 DEF UpsertAvailability, TypeOK
  <2>2. Cardinality({}) = 0 BY FS_EmptySet
  <2>3. QED BY <1>1, <2>1, <2>2
<1>2. CASE q # r
  <2>1. proj'[q] = proj[q] BY <1>2, UpsertOthers
  <2>2. QED BY <1>2, <2>1 DEF AbsencesTold
<1>3. QED BY <1>1, <1>2

\* No room command marks or frees an absent player of another room.
LEMMA RoomStepTells ==
  ASSUME Records, AbsencesTold, NEW r \in Rooms, RoomStep(r)
  PROVE  AbsencesTold'
<1>1. PICK rm, n : UpsertAvailability(r, rm, n, 0)
  BY DEF RoomStep, CreateRoom, RepeatRoom, InsertDraft, Publish, UpdateRoom, CancelRoom,
         ManualStart, AutoStart, StartLocked, Complete
<1>2. UNCHANGED attendance
  BY DEF RoomStep, CreateRoom, RepeatRoom, InsertDraft, Publish, UpdateRoom, CancelRoom,
         ManualStart, AutoStart, StartLocked, Complete
<1>3. \A s \in Seats : seat'[s] # seat[s] => app[s[1]].room = r
  BY DEF RoomStep, CreateRoom, RepeatRoom, InsertDraft, Publish, UpdateRoom, CancelRoom,
         ManualStart, AutoStart, StartLocked, Complete, Seated
<1>4. app' = app \/ app' = ExpirePending(r)
  BY DEF RoomStep, CreateRoom, RepeatRoom, InsertDraft, Publish, UpdateRoom, CancelRoom,
         ManualStart, AutoStart, StartLocked, Complete
<1>5. \A s \in Seats : app'[s[1]].room = app[s[1]].room
  BY <1>4, ExpireFields DEF Records, Seats
<1>6. \A q \in Rooms : q # r => Absent(seat, attendance, q)' = Absent(seat, attendance, q)
  BY <1>2, <1>3, <1>5 DEF Absent
<1>7. QED BY <1>1, <1>6, UpsertTells DEF Records

\* Absences are those of before when no held seat, verdict or target room changes.
LEMMA AbsencesKept ==
  ASSUME UNCHANGED attendance, NEW q,
         \A s \in Seats : attendance[s] = "NO_SHOW" =>
           (seat'[s] = "ACTIVE" <=> seat[s] = "ACTIVE") /\ app'[s[1]].room = app[s[1]].room
  PROVE  Absent(seat, attendance, q)' = Absent(seat, attendance, q)
BY DEF Absent

\* No application command moves an absent player, or counts one.
LEMMA AppStepTells ==
  ASSUME Records, AbsencesTold, NEW a \in Apps, AppStep(a)
  PROVE  AbsencesTold'
<1>1. \A s \in Seats : attendance[s] = "NO_SHOW" => seat[s] = "ACTIVE" /\ s[1] \in Apps
  BY DEF Records, Verdicts, Seats
<1>2. ASSUME NEW actor, Accept(a, actor) PROVE AbsencesTold'
  <2>1. app[a].room \in Rooms BY <1>2, AcceptFields
  <2>2. \A q \in Rooms : Absent(seat, attendance, q)' = Absent(seat, attendance, q)
    BY <1>1, <1>2, AcceptFields, AbsencesKept
  <2>3. QED BY <1>2, <2>1, <2>2, UpsertTells DEF Accept, Records
<1>3. ASSUME NEW actor, Withdraw(a, actor) \/ Reject(a, actor) PROVE AbsencesTold'
  <2>1. UNCHANGED <<seat, attendance, proj>> BY <1>3 DEF Withdraw, Reject
  <2>2. \A b \in Apps : app'[b].room = app[b].room
    BY <1>3, ResolvedFields DEF Withdraw, Reject, Records, AppStatus
  <2>3. \A q : Absent(seat, attendance, q)' = Absent(seat, attendance, q)
    BY <1>1, <2>1, <2>2, AbsencesKept
  <2>4. QED BY <2>1, <2>3 DEF AbsencesTold
<1>4. ASSUME NEW r, NEW owner, NEW members, NEW wait,
             CreateApplication(a, r, owner, members, wait)
      PROVE  AbsencesTold'
  <2>1. /\ app[a].status = "NONE" /\ \A b \in Apps : b # a => app'[b] = app[b]
        /\ UNCHANGED <<seat, attendance, proj>>
    BY <1>4 DEF CreateApplication, Records, TypeOK
  <2>2. \A s \in Seats : seat[s] = "ACTIVE" => s[1] # a BY <2>1, SeatFacts
  <2>3. \A q : Absent(seat, attendance, q)' = Absent(seat, attendance, q)
    BY <1>1, <2>1, <2>2, AbsencesKept
  <2>4. QED BY <2>1, <2>3 DEF AbsencesTold
<1>5. QED BY <1>2, <1>3, <1>4 DEF AppStep

\* Giving up seats before the start moves no absent player: there is none.
LEMMA ReleaseTells ==
  ASSUME Records, AbsencesTold, NEW r \in Rooms, room[r].status \in PreStart,
         NEW freed \in SUBSET Seats, NEW k,
         NEW status \in {"CANCELLED", "REMOVED_BY_HOST"},
         \A s \in freed : app[s[1]].room = r,
         Release(r, freed, status, k), k = 0 \/ k = NoShowCount(r)
  PROVE  AbsencesTold'
<1>1. \A s \in Seats : attendance[s] = "NO_SHOW" =>
        seat[s] = "ACTIVE" /\ app[s[1]].room # r
  BY DEF Records, Verdicts, PreStart
<1>2. /\ UNCHANGED <<app, attendance>>
      /\ \A s \in Seats : seat'[s] = IF s \in freed THEN status ELSE seat[s]
  BY DEF Release
<1>3. \A q : Absent(seat, attendance, q)' = Absent(seat, attendance, q)
  BY <1>1, <1>2, AbsencesKept
<1>4. NoShowCount(r) = 0
  <2>1. Absent(seat, attendance, r) = {} BY <1>1 DEF Absent
  <2>2. QED BY <2>1, FS_EmptySet DEF NoShowCount
<1>5. QED BY <1>3, <1>4, UpsertTells DEF Release, Records

\* A command on a seat leaves the absences of its room recounted.
LEMMA SeatStepTells ==
  ASSUME Records, AbsencesTold, NEW s \in Seats, SeatStep(s)
  PROVE  AbsencesTold'
<1> DEFINE r == app[s[1]].room
<1>1. ASSUME NEW actor, RemoveSeat(s, actor) PROVE AbsencesTold'
  <2>1. r \in Rooms /\ \A t \in {s} : app[t[1]].room = r
    BY <1>1, FreedSeats DEF RemoveSeat
  <2>2. room[r].status \in PreStart /\ Release(r, {s}, "REMOVED_BY_HOST", 0)
    BY <1>1 DEF RemoveSeat
  <2> HIDE DEF r
  <2>3. QED BY <2>1, <2>2, ReleaseTells
<1>2. ASSUME NEW actor, CancelSeat(s, actor) PROVE AbsencesTold'
  <2>1. /\ r \in Rooms
        /\ {s} \cup OwnedGuests(s) \in SUBSET Seats
        /\ \A t \in {s} \cup OwnedGuests(s) : app[t[1]].room = r
    BY <1>2, FreedSeats DEF CancelSeat
  <2>2. /\ room[r].status \in PreStart
        /\ Release(r, {s} \cup OwnedGuests(s), "CANCELLED", NoShowCount(r))
    BY <1>2 DEF CancelSeat
  <2> HIDE DEF r
  <2>3. QED BY <2>1, <2>2, ReleaseTells
<1>3. ASSUME NEW next, NEW actor, MarkAttendance(s, next, actor) PROVE AbsencesTold'
  <2>1. PICK q \in Rooms : q = app[s[1]].room BY <1>3, SeatFacts DEF MarkAttendance
  <2>2. /\ UNCHANGED <<app, seat>>
        /\ \A t \in Seats : t # s => attendance'[t] = attendance[t]
    BY <1>3 DEF MarkAttendance, Records, TypeOK
  <2>3. \A p \in Rooms : p # q => Absent(seat, attendance, p)' = Absent(seat, attendance, p)
    BY <2>1, <2>2 DEF Absent
  <2>4. PICK n : UpsertAvailability(q, room[q], n, Cardinality(Absent(seat, attendance', q)))
    BY <1>3, <2>1 DEF MarkAttendance
  <2>5. PICK k : /\ k = Cardinality(Absent(seat, attendance, q))'
                 /\ UpsertAvailability(q, room[q], n, k)
    <3>1. Absent(seat, attendance, q)' = Absent(seat, attendance', q) BY <2>2 DEF Absent
    <3>2. QED BY <2>4, <3>1
  <2>6. QED BY <2>3, <2>5, UpsertTells DEF Records
<1>4. QED BY <1>1, <1>2, <1>3 DEF SeatStep

\* Every step keeps the projections of rooms without absences without absences.
LEMMA NextTells == IInv /\ AbsencesTold /\ [Next]_vars => AbsencesTold'
<1> SUFFICES ASSUME IInv, AbsencesTold, [Next]_vars PROVE AbsencesTold'
  OBVIOUS
<1>1. CASE Tick \/ (\E g \in Guests, u \in Users : ClaimGuest(g, u)) \/ UNCHANGED vars
  <2>1. UNCHANGED <<app, seat, attendance, proj>> BY <1>1 DEF Tick, ClaimGuest, vars
  <2>2. QED BY <2>1 DEF AbsencesTold, Absent
<1>2. QED BY <1>1, RoomStepTells, AppStepTells, SeatStepTells DEF Next, IInv

\* A recount of every active seat is one of the holders and of the absent.
LEMMA SeatedCount ==
  ASSUME NEW r
  PROVE  Cardinality(Seated(r)) = ActiveCount(r) + NoShowCount(r)
<1> DEFINE H == Holding(seat, attendance, r)
           A == Absent(seat, attendance, r)
<1>1. H \in SUBSET Seats /\ A \in SUBSET Seats BY DEF Holding, Absent
<1>2. Seated(r) = H \cup A /\ H \cap A = {} BY DEF Seated, Holding, Absent
<1>3. IsFiniteSet(H) /\ IsFiniteSet(A) /\ Cardinality(H) \in Nat /\ Cardinality(A) \in Nat
  BY <1>1, CountIsNat
<1> HIDE DEF H, A
<1>4. Cardinality(H \cup A) = Cardinality(H) + Cardinality(A) - Cardinality(H \cap A)
  BY <1>3, FS_Union
<1>5. Cardinality({}) = 0 BY FS_EmptySet
<1>6. Cardinality(H \cap A) = 0 BY <1>2, <1>5
<1>7. Cardinality(Seated(r)) = Cardinality(H \cup A) BY <1>2
<1>8. Cardinality(Seated(r)) = Cardinality(H) + Cardinality(A)
  BY <1>3, <1>4, <1>6, <1>7
<1>9. QED BY <1>8 DEF H, A, ActiveCount, NoShowCount

\* A room is reported if and only if somebody is absent from it.
LEMMA ReportedRooms ==
  ASSUME IInv, AbsencesTold, NEW r \in Rooms
  PROVE  Absent(seat, attendance, r) # {} <=>
           room[r].status # "NONE" /\ (RoomAvailability(r) \/ RoomPrestartStatus(r))
<1> DEFINE n == ActiveCount(r)
           k == NoShowCount(r)
<1>1. n \in Nat /\ k \in Nat BY CountsAreNat
<1>2. Cardinality(Seated(r)) = n + k BY SeatedCount
<1>3. TypeOK BY DEF IInv, Records
<1>4. CASE Absent(seat, attendance, r) # {}
  <2>1. PICK s \in Seats : app[s[1]].room = r /\ seat[s] = "ACTIVE"
    BY <1>4 DEF Absent
  <2>2. room[r].status # "NONE" BY <2>1, SeatFacts DEF IInv, Published
  <2>3. k # 0
    <3>1. Absent(seat, attendance, r) \in SUBSET Seats BY DEF Absent
    <3>2. QED BY <1>4, <3>1, CountIsNat, FS_EmptySet DEF NoShowCount
  <2>4. proj[r].active = n BY <2>2 DEF IInv, Counted
  <2>5. Expected(r).active = n + k BY <1>2 DEF Expected
  <2> HIDE DEF n, k
  <2>6. RoomAvailability(r) BY <1>1, <2>3, <2>4, <2>5 DEF RoomAvailability
  <2>7. QED BY <1>4, <2>2, <2>6
<1>5. ASSUME Absent(seat, attendance, r) = {}, room[r].status # "NONE"
      PROVE  ~ RoomAvailability(r) /\ ~ RoomPrestartStatus(r)
  <2>1. k = 0 BY <1>5, FS_EmptySet DEF NoShowCount
  <2>2. /\ proj[r].active = n /\ proj[r].available = Available(r)
        /\ room[r].status \in PreStart => room[r].status = OpenOrFull(Available(r))
    BY <1>5 DEF IInv, Counted
  <2>3. proj[r].noShows = 0 BY <1>5 DEF AbsencesTold
  <2>4. /\ room[r].capacity \in Nat /\ room[r].reserved \in Nat
        /\ room[r].hostPlays \in BOOLEAN
    BY <1>3, RoomFields
  <2>5. Available(r) = room[r].capacity - Occupied(room[r], n)
    BY <1>1, <2>4 DEF Available, AvailableWith, Occupied
  <2>6. Expected(r) = [active |-> n, noShows |-> 0, available |-> Available(r)]
    BY <1>1, <1>2, <2>1, <2>5 DEF Expected
  <2>7. proj[r] = [active |-> n, noShows |-> 0, available |-> Available(r)]
    BY <1>3, <2>2, <2>3 DEF TypeOK
  <2> HIDE DEF n
  <2>8. QED BY <2>2, <2>6, <2>7 DEF RoomAvailability, RoomPrestartStatus
<1>6. QED BY <1>4, <1>5

\* What the reconciler reports of rooms is exactly their absences: the stored
\* projection and its own recount differ in nothing else, in any history.
THEOREM AlarmsStandForAbsences == Spec => []AlarmsAreAbsences
<1>1. Init => AbsencesTold BY DEF Init, AbsencesTold, NoProj
<1>2. IInv /\ AbsencesTold => AlarmsAreAbsences
  <2> SUFFICES ASSUME IInv, AbsencesTold
               PROVE  {f[2] : f \in CollectRoomFindings}
                        = {r \in Rooms : Absent(seat, attendance, r) # {}}
    BY DEF AlarmsAreAbsences
  <2>1. ASSUME NEW f \in CollectRoomFindings
        PROVE  f[2] \in Rooms /\ Absent(seat, attendance, f[2]) # {}
    BY <2>1, ReportedRooms DEF CollectRoomFindings
  <2>2. ASSUME NEW r \in Rooms, Absent(seat, attendance, r) # {}
        PROVE  \E f \in CollectRoomFindings : f[2] = r
    <3>1. room[r].status # "NONE" /\ (RoomAvailability(r) \/ RoomPrestartStatus(r))
      BY <2>2, ReportedRooms
    <3>2. CASE RoomAvailability(r)
      <4>1. <<"ROOM_AVAILABILITY", r>> \in CollectRoomFindings
        BY <3>1, <3>2 DEF CollectRoomFindings
      <4>2. QED BY <4>1
    <3>3. CASE RoomPrestartStatus(r)
      <4>1. <<"ROOM_PRESTART_STATUS", r>> \in CollectRoomFindings
        BY <3>1, <3>3 DEF CollectRoomFindings
      <4>2. QED BY <4>1
    <3>4. QED BY <3>1, <3>2, <3>3
  <2>3. QED BY <2>1, <2>2
<1>3. QED BY <1>1, <1>2, Invariant, NextTells, PTL DEF Spec

-----------------------------------------------------------------------------
(* Search. *)

\* The members of a set of numbers on one side of x.
Above(x, S) == {y \in S : y > x}
Below(x, S) == {y \in S : y < x}

\* Among finitely many numbers there is a greatest: one with the fewest above it.
LEMMA MaxOfNaturals ==
  ASSUME NEW S \in SUBSET Nat, IsFiniteSet(S), S # {}
  PROVE  Max(S) \in S /\ \A y \in S : Max(S) >= y
<1> DEFINE T == {Above(x, S) : x \in S}
<1>1. T \subseteq FiniteSubsetsOf(S) /\ T # {}
  <2>1. \A x \in S : Above(x, S) \in SUBSET S BY DEF Above
  <2>2. \A x \in S : IsFiniteSet(Above(x, S)) BY <2>1, FS_Subset
  <2>3. \E x \in S : TRUE OBVIOUS
  <2>4. QED BY <2>1, <2>2, <2>3 DEF FiniteSubsetsOf
<1>2. PICK u \in T : \A v \in T : <<v, u>> \notin StrictSubsetOrdering(S)
  BY <1>1, FS_StrictSubsetOrderingWellFounded, WFMin
<1>3. PICK x \in S : u = Above(x, S) BY <1>2
<1>4. \A y \in S : x >= y
  <2> SUFFICES ASSUME NEW y \in S, ~ (x >= y) PROVE FALSE
    OBVIOUS
  <2>1. x \in Nat /\ y \in Nat /\ y > x OBVIOUS
  <2>2. (\A z \in S : z > y => z > x) /\ ~ (y > y)
    <3>1. \A z \in S : z \in Nat OBVIOUS
    <3>2. QED BY <2>1, <3>1
  <2>3. Above(y, S) \subseteq Above(x, S) /\ y \in Above(x, S) /\ y \notin Above(y, S)
    BY <2>1, <2>2, Zenon DEF Above
  <2>4. Above(y, S) \in T /\ Above(y, S) \in SUBSET S /\ u \in SUBSET S
    BY <1>3 DEF Above
  <2>5. <<Above(y, S), u>> \in StrictSubsetOrdering(S)
    BY <1>3, <2>3, <2>4 DEF StrictSubsetOrdering
  <2>6. QED BY <1>2, <2>4, <2>5
<1>5. QED BY <1>4 DEF Max

\* A set of numbers has a least one: one with the fewest below it.
LEMMA MinOfNaturals ==
  ASSUME NEW S \in SUBSET Nat, IsFiniteSet(S), S # {}
  PROVE  Min(S) \in S /\ \A y \in S : Min(S) <= y
<1> DEFINE T == {Below(x, S) : x \in S}
<1>1. T \subseteq FiniteSubsetsOf(S) /\ T # {}
  <2>1. \A x \in S : Below(x, S) \in SUBSET S BY DEF Below
  <2>2. \A x \in S : IsFiniteSet(Below(x, S)) BY <2>1, FS_Subset
  <2>3. \E x \in S : TRUE OBVIOUS
  <2>4. QED BY <2>1, <2>2, <2>3 DEF FiniteSubsetsOf
<1>2. PICK u \in T : \A v \in T : <<v, u>> \notin StrictSubsetOrdering(S)
  BY <1>1, FS_StrictSubsetOrderingWellFounded, WFMin
<1>3. PICK x \in S : u = Below(x, S) BY <1>2
<1>4. \A y \in S : x <= y
  <2> SUFFICES ASSUME NEW y \in S, ~ (x <= y) PROVE FALSE
    OBVIOUS
  <2>1. x \in Nat /\ y \in Nat /\ y < x OBVIOUS
  <2>2. (\A z \in S : z < y => z < x) /\ ~ (y < y)
    <3>1. \A z \in S : z \in Nat OBVIOUS
    <3>2. QED BY <2>1, <3>1
  <2>3. Below(y, S) \subseteq Below(x, S) /\ y \in Below(x, S) /\ y \notin Below(y, S)
    BY <2>1, <2>2, Zenon DEF Below
  <2>4. Below(y, S) \in T /\ Below(y, S) \in SUBSET S /\ u \in SUBSET S
    BY <1>3 DEF Below
  <2>5. <<Below(y, S), u>> \in StrictSubsetOrdering(S)
    BY <1>3, <2>3, <2>4 DEF StrictSubsetOrdering
  <2>6. QED BY <1>2, <2>4, <2>5
<1>5. QED BY <1>4 DEF Min

\* There is a widest radius, and of any of them a narrowest.
LEMMA Radii ==
  /\ Max(RadiusSteps) \in RadiusSteps
  /\ \A E \in SUBSET RadiusSteps : E # {} => Min(E) \in E
<1>1. DefaultRadius \in Nat /\ ExpandedRadius \in SUBSET Nat /\ IsFiniteSet(ExpandedRadius)
  BY SearchAssumption
<1>2. {km \in ExpandedRadius : km > DefaultRadius} \in SUBSET ExpandedRadius OBVIOUS
<1>3. IsFiniteSet({km \in ExpandedRadius : km > DefaultRadius}) BY <1>1, <1>2, FS_Subset
<1>4. IsFiniteSet({DefaultRadius}) BY FS_Singleton
<1>5. IsFiniteSet(RadiusSteps) BY <1>3, <1>4, FS_Union DEF RadiusSteps
<1>6. RadiusSteps \in SUBSET Nat /\ RadiusSteps # {} BY <1>1 DEF RadiusSteps
<1>7. \A E \in SUBSET RadiusSteps : E # {} => Min(E) \in E
  <2> TAKE E \in SUBSET RadiusSteps
  <2>1. IsFiniteSet(E) /\ E \in SUBSET Nat BY <1>5, <1>6, FS_Subset
  <2>2. QED BY <2>1, MinOfNaturals
<1>8. QED BY <1>5, <1>6, <1>7, MaxOfNaturals

\* A near room is left out only when enough others are shown.
LEMMA ShownOrEnough ==
  ASSUME NEW candidates, NEW place, NEW r \in candidates \ SearchRooms(candidates, place),
         Near(place, r, Max(RadiusSteps))
  PROVE  Cardinality(SearchRooms(candidates, place)) >= MinResults
<1> DEFINE found  == [km \in RadiusSteps |-> ListNormalCandidates(candidates, place, km)]
           enough == {km \in RadiusSteps : Cardinality(found[km]) >= MinResults}
<1>1. CASE enough = {}
  <2>1. SearchRooms(candidates, place) = found[Max(RadiusSteps)] BY <1>1 DEF SearchRooms
  <2>2. r \in ListNormalCandidates(candidates, place, Max(RadiusSteps))
    BY DEF ListNormalCandidates
  <2>3. r \in found[Max(RadiusSteps)] BY <2>2, Radii
  <2>4. QED BY <2>1, <2>3
<1>2. CASE enough # {}
  <2>1. SearchRooms(candidates, place) = found[Min(enough)] BY <1>2 DEF SearchRooms
  <2>2. Min(enough) \in enough BY <1>2, Radii
  <2>3. Cardinality(found[Min(enough)]) >= MinResults BY <2>2
  <2>4. QED BY <2>1, <2>3
<1>3. QED BY <1>1, <1>2

\* Whoever looks for a room brings somebody along: themself.
LEMMA SearchingMembers ==
  ASSUME NEW members \in Rosters \cup {{u} : u \in Users}
  PROVE  Cardinality(members) \in Nat /\ Cardinality(members) > 0
<1>1. members \in SUBSET Persons /\ members # {}
  <2>1. Rosters \subseteq SUBSET Persons /\ {} \notin Rosters BY ConstantsAssumption
  <2>2. \A u \in Users : {u} \in SUBSET Persons /\ {u} # {} BY DEF Persons
  <2>3. members \in Rosters \/ \E u \in Users : members = {u} OBVIOUS
  <2>4. QED BY <2>1, <2>2, <2>3
<1>2. IsFiniteSet(members) BY <1>1, ConstantsAssumption, FS_Subset
<1>3. QED BY <1>1, <1>2, FS_CardinalityType, FS_EmptySet

\* The query's conditions are those of participation, for any state in which
\* the projection and the status are those of a recount.
LEMMA CandidatesAreJoinable ==
  ASSUME IInv, NEW r \in Rooms, NEW horizon,
         NEW members \in Rosters \cup {{u} : u \in Users}, NEW owner
  PROVE  (r \in Candidates(members, horizon) /\ ~ HasActiveApplication(r, owner)) <=>
           /\ Joinable(owner, members, r)
           /\ room[r].end > now /\ room[r].start < horizon
<1>1. Cardinality(members) \in Nat /\ Cardinality(members) > 0 BY SearchingMembers
<1>2. Busy(UsersOf(members), r) <=> \E u \in UsersOf(members) : ScheduleConflict(u, r)
  BY DEF Busy, ScheduleConflict, PreStart
<1>3. room[r].status \in PreStart =>
        proj[r].available = Available(r) /\ Available(r) \in Nat
  BY DEF IInv, Counted, Records, TypeOK, PreStart
<1>4. room[r].status = "FULL" => Available(r) = 0
  BY StatusFromInv DEF StatusTracksAvailability
<1>5. room[r].status = "OPEN" <=> room[r].status \in PreStart /\ room[r].status # "FULL"
  BY DEF PreStart
<1>6. QED BY <1>1, <1>2, <1>3, <1>4, <1>5 DEF Candidates, Joinable, EnoughSlots

\* Whoever is shown a room could apply for it and be accepted as things stand, or
\* has an active application there; no room that could take them is hidden but for
\* its distance.
THEOREM SearchIsTruthful == Spec => []SearchAgreesWithParticipation
<1>1. IInv => SearchAgreesWithParticipation
  <2> SUFFICES ASSUME IInv, NEW owner \in Owners, NEW horizon \in Horizons,
               NEW members \in Rosters \cup {{u} : u \in Users}
               PROVE
                 LET candidates == Candidates(members, horizon)
                     joinable   == {r \in Rooms : Joinable(owner, members, r)}
                     applied    == {r \in Rooms : HasActiveApplication(r, owner)}
                     missed     == {r \in joinable \ candidates :
                                      room[r].end > now /\ room[r].start < horizon}
                 IN  /\ candidates \subseteq joinable \cup applied /\ missed = {}
                     /\ \A place \in Places :
                          LET shown == SearchRooms(candidates, place)
                          IN  \A r \in candidates \ shown :
                                Near(place, r, Max(RadiusSteps)) =>
                                  Cardinality(shown) >= MinResults
    BY DEF SearchAgreesWithParticipation
  <2> DEFINE candidates == Candidates(members, horizon)
             joinable   == {r \in Rooms : Joinable(owner, members, r)}
             applied    == {r \in Rooms : HasActiveApplication(r, owner)}
             missed     == {r \in joinable \ candidates :
                              room[r].end > now /\ room[r].start < horizon}
  <2>1. candidates \in SUBSET Rooms BY DEF Candidates
  <2>2. candidates \subseteq joinable \cup applied BY <2>1, CandidatesAreJoinable
  <2>3. missed = {} BY CandidatesAreJoinable
  <2>4. ASSUME NEW place \in Places, NEW r \in candidates \ SearchRooms(candidates, place),
               Near(place, r, Max(RadiusSteps))
        PROVE  Cardinality(SearchRooms(candidates, place)) >= MinResults
    BY <2>4, ShownOrEnough
  <2> HIDE DEF candidates, joinable, applied, missed
  <2>5. \A place \in Places :
          LET shown == SearchRooms(candidates, place)
          IN  \A r \in candidates \ shown :
                Near(place, r, Max(RadiusSteps)) => Cardinality(shown) >= MinResults
    BY <2>4
  <2>6. QED BY <2>2, <2>3, <2>5 DEF candidates, joinable, applied, missed
<1>2. QED BY <1>1, Invariant, PTL

=============================================================================
